-------------------------- MODULE PartitionJournal --------------------------
(***************************************************************************)
(* The durable journal of one partition: its row in `partitions` and its   *)
(* rows in `partition_tasks` (hivepilot/services/partition_service.py).    *)
(*                                                                         *)
(* Every function of the journal is one database transaction holding one   *)
(* conditional UPDATE, and tells its caller whether rowcount was 1.  Each  *)
(* is given here as a test (would the UPDATE match the row?) and as the    *)
(* update of a row that matches.  PartitionDispatch makes them steps of    *)
(* the processes that call them.                                           *)
(***************************************************************************)
EXTENDS Naturals, FiniteSets

CONSTANTS
    Tasks,        \* task ids; sorted() on them is < on numbers
    Plans,        \* documents that load_partition and the gate accept
    Owners,       \* values of claimed_by
    Jobs,         \* ids; job j stands for a run row and its queue row
    NULL          \* SQL NULL, and "no value" in a process's locals

ASSUME TasksAssumption == Tasks \subseteq Nat
ASSUME NullAssumption ==
    /\ NULL \notin Plans
    /\ NULL \notin Owners \cup Jobs \cup Tasks

(* PartitionPlan as the dispatcher reads it: the ids, depends_on, and      *)
(* whether policy.on_task_failure is "halt".                               *)
PlanDocument ==
    [tasks : SUBSET Tasks, deps : [Tasks -> SUBSET Tasks], halt : BOOLEAN]

ASSUME PlansAssumption ==
    Plans \subseteq {p \in PlanDocument : \A t \in p.tasks : p.deps[t] \subseteq p.tasks}

VARIABLES
    pstatus,      \* partitions.status
    ratified,     \* partitions.ratified_json, NULL until ratified
    rows          \* partition_tasks, "absent" where there is no row

journal == <<pstatus, ratified, rows>>

PartitionStatuses ==
    {"proposed", "ratified", "dispatching", "completed", "failed", "vetoed", "expired"}

TerminalTaskStatuses == {"committed", "failed", "skipped", "cancelled"}

TaskStatuses == {"absent", "pending", "claimed", "running"} \cup TerminalTaskStatuses

(* `old` says that claimed_at lies more than STALE_CLAIM_SECONDS back.     *)
TaskRow == [status : TaskStatuses, by : Owners \cup {NULL}, run : Jobs \cup {NULL}, old : BOOLEAN]

AbsentRow == [status |-> "absent", by |-> NULL, run |-> NULL, old |-> FALSE]

PendingRow == [AbsentRow EXCEPT !.status = "pending"]

Status(t) == rows[t].status

JournalTypeOK ==
    /\ pstatus \in PartitionStatuses
    /\ ratified \in Plans \cup {NULL}
    /\ rows \in [Tasks -> TaskRow]

JournalInit ==
    /\ pstatus = "proposed"
    /\ ratified = NULL
    /\ rows = [t \in Tasks |-> AbsentRow]

-----------------------------------------------------------------------------
(* The partition row.                                                      *)

(* UPDATE partitions SET status=to WHERE status=from                       *)
Transition(from, to) ==
    /\ pstatus = from
    /\ pstatus' = to
    /\ UNCHANGED <<ratified, rows>>

(* The conditional UPDATE of ratify_partition, which records the document  *)
(* in the same statement as the status.                                    *)
RatifyRow(plan) ==
    /\ pstatus = "proposed"
    /\ pstatus' = "ratified"
    /\ ratified' = plan
    /\ UNCHANGED rows

-----------------------------------------------------------------------------
(* The task rows.                                                          *)

(* INSERT ... ON CONFLICT DO NOTHING for every task of the plan.           *)
InsertTaskRows(plan) ==
    /\ rows' = [t \in Tasks |->
                  IF t \in plan.tasks /\ Status(t) = "absent" THEN PendingRow ELSE rows[t]]
    /\ UNCHANGED <<pstatus, ratified>>

SetRow(t, row) ==
    /\ rows' = [rows EXCEPT ![t] = row]
    /\ UNCHANGED <<pstatus, ratified>>

(* Slip: a failed task counts as claimable again.                          *)
ClaimsFailed(t) == Status(t) \in {"pending", "failed"}

CanClaim(t) == Status(t) = "pending"

ClaimTask(t, owner) ==
    SetRow(t, [rows[t] EXCEPT !.status = "claimed", !.by = owner, !.old = FALSE])

(* Slip: only the owner of the claim is compared, not that it still is one. *)
OwnerOnly(t, owner) == rows[t].by = owner

CanMarkRunning(t, owner) == Status(t) = "claimed" /\ rows[t].by = owner

MarkTaskRunning(t, job) == SetRow(t, [rows[t] EXCEPT !.status = "running", !.run = job])

CanCommit(t, owner) == Status(t) = "running" /\ rows[t].by = owner

CanFail(t, owner) == Status(t) \in {"claimed", "running"} /\ rows[t].by = owner

CanSkip(t) == Status(t) = "pending"

(* Slips: a running task is marked cancelled; a claimed one is left alone. *)
CancelsRunning(t) == Status(t) \in {"pending", "claimed", "running"}

CancelsPendingOnly(t) == Status(t) = "pending"

CanCancel(t) == Status(t) \in {"pending", "claimed"}

SetStatus(t, status) == SetRow(t, [rows[t] EXCEPT !.status = status])

(* Slip: a row is released whether or not a run has been recorded on it.   *)
ReleasesRunning(t) == Status(t) \in {"claimed", "running"}

(* release_stale_claim: not restricted to the caller's own claim.          *)
CanRelease(t) == Status(t) = "claimed" /\ rows[t].run = NULL

ReleaseClaim(t) ==
    SetRow(t, [rows[t] EXCEPT !.status = "pending", !.by = NULL, !.old = FALSE])

(* What reconcile_stale_claims selects before it releases row by row.      *)
StaleClaims == {t \in Tasks : CanRelease(t) /\ rows[t].old}

(* STALE_CLAIM_SECONDS pass on a claim.                                    *)
ClaimAges(t) ==
    /\ Status(t) = "claimed"
    /\ ~rows[t].old
    /\ SetRow(t, [rows[t] EXCEPT !.old = TRUE])
=============================================================================
