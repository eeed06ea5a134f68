------------------------- MODULE PartitionDispatch --------------------------
(***************************************************************************)
(* Ratification, dispatch, cancellation and reconciliation of one          *)
(* partition (hivepilot/services/partition_service.py) over its journal.   *)
(*                                                                         *)
(* Each process below is a thread of some HivePilot process: a ratify      *)
(* handler, a dispatcher, a worker of async_run_service's pool, a cancel   *)
(* handler, the startup reconciler.  An action is one database transaction *)
(* of the thread together with the local work up to its next one, so every *)
(* interleaving of transactions is a behaviour.  A dispatcher and the      *)
(* workers it submits live in one operating system process and crash       *)
(* together; what is in the database outlives them.                        *)
(***************************************************************************)
EXTENDS PartitionJournal

CONSTANTS
    Ratifiers, Dispatchers, Cancellers, Reconcilers,
    OwnerOf,      \* claimed_by of a dispatcher: the approver's name
    LauncherOf,   \* the ratify handler that calls it, NULL: any other caller
    Resumes,      \* the dispatchers called with resume=True
    Cap,          \* effective_parallelism(plan).effective
    Faults,       \* what the environment does in this instance
    MaxCrashes    \* bound: crashes of a ratify handler or a dispatcher

ASSUME ActorsAssumption ==
    /\ NULL \notin Ratifiers
    /\ OwnerOf \in [Dispatchers -> Owners]
    /\ LauncherOf \in [Dispatchers -> Ratifiers \cup {NULL}]
    /\ Resumes \subseteq Dispatchers

ASSUME BoundsAssumption ==
    /\ Jobs \subseteq Nat
    /\ Cap \in Nat \ {0}
    /\ MaxCrashes \in Nat
    /\ Faults \subseteq {"crash", "create", "timeout", "pause", "budget", "stall", "failure",
                  "checkpoint"}

VARIABLES
    rpc, rdoc,               \* ratify handlers: control state, document in hand
    pc, doc, seen,           \* dispatchers: control state, plan, tasks of earlier waves
    skip, todo, chunk,       \* ... tasks to skip, to run, to claim in this chunk
    cur, job, waits,         \* ... task and job in hand, jobs waited for
    drop, halted,            \* ... tasks to cancel, whether halted_reason is set
    queue, runrow,           \* autopilot_queue.state and runs.status of a job
    taskOf, madeBy,          \* its task and the dispatcher that created it
    wpc, result, flagged,    \* its worker, what run_pipeline reported, cancel events set
    cpc, csaw, cdrop,        \* cancel handlers: control state, status read, tasks to cancel
    xpc, xlist,              \* reconcilers: control state, claims to release
    paused, crashes          \* the kill switch, crashes so far

ratVars == <<rpc, rdoc>>
waveVars == <<doc, seen, skip, todo, halted>>
chunkVars == <<chunk, cur, job, waits>>
dispVars == <<pc, waveVars, chunkVars, drop>>
jobVars == <<queue, runrow, taskOf, madeBy>>
workVars == <<wpc, result, flagged>>
cancelVars == <<cpc, csaw, cdrop>>
reconVars == <<xpc, xlist>>
envVars == <<paused, crashes>>
vars == <<journal, ratVars, dispVars, jobVars, workVars, cancelVars, reconVars, envVars>>

LiveWork == {"early", "late", "passed", "broken", "mirror"}

TypeOK ==
    /\ JournalTypeOK
    /\ rpc \in [Ratifiers -> {"idle", "cas", "insert", "ratified", "refused", "crashed"}]
    /\ rdoc \in [Ratifiers -> Plans \cup {NULL}]
    /\ pc \in [Dispatchers ->
                 {"idle", "cas", "lost", "head", "read", "wave", "create", "record", "mark",
                  "submit", "release", "orphan", "unqueue", "sweep", "final", "complete", "fail",
                  "done", "refused", "crashed"}]
    /\ doc \in [Dispatchers -> Plans \cup {NULL}]
    /\ seen \in [Dispatchers -> SUBSET Tasks]
    /\ skip \in [Dispatchers -> SUBSET Tasks]
    /\ todo \in [Dispatchers -> SUBSET Tasks]
    /\ chunk \in [Dispatchers -> SUBSET Tasks]
    /\ cur \in [Dispatchers -> Tasks \cup {NULL}]
    /\ job \in [Dispatchers -> Jobs \cup {NULL}]
    /\ waits \in [Dispatchers -> SUBSET Jobs]
    /\ drop \in [Dispatchers -> SUBSET Tasks]
    /\ halted \in [Dispatchers -> BOOLEAN]
    /\ queue \in [Jobs -> {"none", "running", "done", "blocked"}]
    /\ runrow \in [Jobs -> {"none", "running", "failed"}]
    /\ taskOf \in [Jobs -> Tasks \cup {NULL}]
    /\ madeBy \in [Jobs -> Dispatchers \cup {NULL}]
    /\ wpc \in [Jobs -> LiveWork \cup {"none", "done", "dead"}]
    /\ result \in [Jobs -> {"none", "success", "checkpoint", "failure"}]
    /\ flagged \subseteq Jobs
    /\ cpc \in [Cancellers -> {"idle", "veto", "list", "done"}]
    /\ csaw \in [Cancellers -> PartitionStatuses \cup {NULL}]
    /\ cdrop \in [Cancellers -> SUBSET Tasks]
    /\ xpc \in [Reconcilers -> {"idle", "release"}]
    /\ xlist \in [Reconcilers -> SUBSET Tasks]
    /\ paused \in BOOLEAN
    /\ crashes \in Nat

Init ==
    /\ JournalInit
    /\ rpc = [r \in Ratifiers |-> "idle"]
    /\ rdoc = [r \in Ratifiers |-> NULL]
    /\ pc = [d \in Dispatchers |-> "idle"]
    /\ doc = [d \in Dispatchers |-> NULL]
    /\ seen = [d \in Dispatchers |-> {}]
    /\ skip = [d \in Dispatchers |-> {}]
    /\ todo = [d \in Dispatchers |-> {}]
    /\ chunk = [d \in Dispatchers |-> {}]
    /\ cur = [d \in Dispatchers |-> NULL]
    /\ job = [d \in Dispatchers |-> NULL]
    /\ waits = [d \in Dispatchers |-> {}]
    /\ drop = [d \in Dispatchers |-> {}]
    /\ halted = [d \in Dispatchers |-> FALSE]
    /\ queue = [j \in Jobs |-> "none"]
    /\ runrow = [j \in Jobs |-> "none"]
    /\ taskOf = [j \in Jobs |-> NULL]
    /\ madeBy = [j \in Jobs |-> NULL]
    /\ wpc = [j \in Jobs |-> "none"]
    /\ result = [j \in Jobs |-> "none"]
    /\ flagged = {}
    /\ cpc = [c \in Cancellers |-> "idle"]
    /\ csaw = [c \in Cancellers |-> NULL]
    /\ cdrop = [c \in Cancellers |-> {}]
    /\ xpc = [x \in Reconcilers |-> "idle"]
    /\ xlist = [x \in Reconcilers |-> {}]
    /\ paused = FALSE
    /\ crashes = 0

(* The first of a set of ids in sorted order, as a set of at most one.     *)
First(S) == {t \in S : \A u \in S : t <= u}

(* Slip: a chunk has room for one more.                                    *)
ChunksAndOne(S) ==
    {c \in SUBSET S : /\ \A t \in c, u \in S \ c : t < u
                      /\ c = S \/ Cardinality(c) = Cap + 1
                      /\ Cardinality(c) <= Cap + 1}

(* A chunk: the first Cap ids of a set.                                    *)
Chunks(S) ==
    {c \in SUBSET S : /\ \A t \in c, u \in S \ c : t < u
                      /\ c = S \/ Cardinality(c) = Cap
                      /\ Cardinality(c) <= Cap}

-----------------------------------------------------------------------------
(* ratify_partition, and the veto and expiry it competes with.             *)

(* get_partition; the document, possibly edited, parses and passes the     *)
(* gate, and expected_digest matches the proposal's.                       *)
RatifyAdmit(r) ==
    /\ rpc[r] = "idle"
    /\ \E plan \in Plans : rdoc' = [rdoc EXCEPT ![r] = plan]
    /\ rpc' = [rpc EXCEPT ![r] = "cas"]
    /\ UNCHANGED <<journal, dispVars, jobVars, workVars, cancelVars, reconVars, envVars>>

(* The document is malformed, refused by the gate, or stale.               *)
RatifyDeny(r) ==
    /\ rpc[r] = "idle"
    /\ rpc' = [rpc EXCEPT ![r] = "refused"]
    /\ UNCHANGED <<journal, rdoc, dispVars, jobVars, workVars, cancelVars, reconVars, envVars>>

RatifyWin(r) ==
    /\ rpc[r] = "cas"
    /\ RatifyRow(rdoc[r])
    /\ rpc' = [rpc EXCEPT ![r] = "insert"]
    /\ UNCHANGED <<rdoc, dispVars, jobVars, workVars, cancelVars, reconVars, envVars>>

(* rowcount # 1: an idempotent outcome, after which no caller dispatches.  *)
RatifyLose(r) ==
    /\ rpc[r] = "cas"
    /\ pstatus # "proposed"
    /\ rpc' = [rpc EXCEPT ![r] = "refused"]
    /\ UNCHANGED <<journal, rdoc, dispVars, jobVars, workVars, cancelVars, reconVars, envVars>>

(* insert_task_rows: a transaction of its own.                             *)
RatifyInsert(r) ==
    /\ rpc[r] = "insert"
    /\ InsertTaskRows(rdoc[r])
    /\ rpc' = [rpc EXCEPT ![r] = "ratified"]
    /\ UNCHANGED <<rdoc, dispVars, jobVars, workVars, cancelVars, reconVars, envVars>>

RatifyCrash(r) ==
    /\ "crash" \in Faults /\ crashes < MaxCrashes
    /\ rpc[r] \in {"cas", "insert"}
    /\ rpc' = [rpc EXCEPT ![r] = "crashed"]
    /\ crashes' = crashes + 1
    /\ UNCHANGED <<journal, rdoc, dispVars, jobVars, workVars, cancelVars, reconVars, paused>>

Expire ==
    /\ Transition("proposed", "expired")
    /\ UNCHANGED <<ratVars, dispVars, jobVars, workVars, cancelVars, reconVars, envVars>>

-----------------------------------------------------------------------------
(* dispatch_partition: the gate.                                           *)

RestOfDispatch == <<ratVars, jobVars, workVars, cancelVars, reconVars, envVars>>

Goto(d, label) == pc' = [pc EXCEPT ![d] = label]

(* get_partition.  A row without a ratified document is refused at once.   *)
Begin(d) ==
    /\ pc[d] = "idle"
    /\ LauncherOf[d] # NULL => rpc[LauncherOf[d]] = "ratified"
    /\ doc' = [doc EXCEPT ![d] = ratified]
    /\ Goto(d, IF ratified = NULL THEN "refused" ELSE "cas")
    /\ UNCHANGED <<journal, seen, skip, todo, halted, chunkVars, drop, RestOfDispatch>>

(* mark_partition_dispatching                                              *)
GateWin(d) ==
    /\ pc[d] = "cas"
    /\ Transition("ratified", "dispatching")
    /\ Goto(d, "head")
    /\ UNCHANGED <<waveVars, chunkVars, drop, RestOfDispatch>>

GateLose(d) ==
    /\ pc[d] = "cas"
    /\ pstatus # "ratified"
    /\ Goto(d, "lost")
    /\ UNCHANGED <<journal, waveVars, chunkVars, drop, RestOfDispatch>>

(* The status is read again: resume=True accepts `dispatching`.            *)
GateReread(d) ==
    /\ pc[d] = "lost"
    /\ Goto(d, IF d \in Resumes /\ pstatus = "dispatching" THEN "head" ELSE "refused")
    /\ UNCHANGED <<journal, waveVars, chunkVars, drop, RestOfDispatch>>

-----------------------------------------------------------------------------
(* dispatch_partition: the waves.                                          *)

(* The next topological level of plan_waves.                               *)
NextWave(plan, earlier) ==
    {t \in plan.tasks \ earlier : plan.deps[t] \subseteq earlier}

Wave(d) == NextWave(doc[d], seen[d])

(* _wave_halt_reason finds nothing, and the wave starts.                   *)
WaveProceed(d) ==
    /\ pc[d] = "head"
    /\ Wave(d) # {}
    /\ ~paused
    /\ Goto(d, "read")
    /\ UNCHANGED <<journal, waveVars, chunkVars, drop, RestOfDispatch>>

(* The tenant is paused, or the spend does not admit the wave.             *)
WaveHalt(d) ==
    /\ pc[d] = "head"
    /\ Wave(d) # {}
    /\ paused \/ "budget" \in Faults
    /\ halted' = [halted EXCEPT ![d] = TRUE]
    /\ Goto(d, "final")
    /\ UNCHANGED <<journal, doc, seen, skip, todo, chunkVars, drop, RestOfDispatch>>

(* Slip: only a prerequisite that failed blocks a task.                    *)
BlockedByFailure(plan, t) == \E dep \in plan.deps[t] : Status(dep) = "failed"

Blocked(plan, t) == \E dep \in plan.deps[t] : Status(dep) # "committed"

(* Inside a wave: first the skips, then chunk after chunk, of which every  *)
(* task is claimed and every latch waited for.                             *)

(* One snapshot of the journal sorts the wave into tasks to skip and to    *)
(* run; it is not read again before they are claimed.                      *)
ReadWave(d) ==
    /\ pc[d] = "read"
    /\ skip' = [skip EXCEPT ![d] = {t \in Wave(d) : Blocked(doc[d], t)}]
    /\ todo' = [todo EXCEPT ![d] =
                  {t \in Wave(d) : ~Blocked(doc[d], t) /\ Status(t) = "pending"}]
    /\ Goto(d, "wave")
    /\ UNCHANGED <<journal, doc, seen, halted, chunkVars, drop, RestOfDispatch>>

(* mark_task_skipped, for the next of the blocked tasks                    *)
SkipNext(d) ==
    /\ pc[d] = "wave"
    /\ \E t \in First(skip[d]) :
         /\ skip' = [skip EXCEPT ![d] = @ \ {t}]
         /\ IF CanSkip(t) THEN SetStatus(t, "skipped") ELSE UNCHANGED journal
    /\ UNCHANGED <<pc, doc, seen, todo, halted, chunkVars, drop, RestOfDispatch>>

TakeChunk(d) ==
    /\ pc[d] = "wave"
    /\ skip[d] = {} /\ chunk[d] = {} /\ waits[d] = {}
    /\ todo[d] # {}
    /\ \E c \in Chunks(todo[d]) :
         /\ chunk' = [chunk EXCEPT ![d] = c]
         /\ todo' = [todo EXCEPT ![d] = @ \ c]
    /\ UNCHANGED <<journal, pc, doc, seen, skip, halted, cur, job, waits, drop, RestOfDispatch>>

-----------------------------------------------------------------------------
(* _dispatch_chunk: claim, create, submit.                                 *)

ClaimNext(d) ==
    /\ pc[d] = "wave"
    /\ \E t \in First(chunk[d]) :
         /\ chunk' = [chunk EXCEPT ![d] = @ \ {t}]
         /\ \/ /\ CanClaim(t)
               /\ ClaimTask(t, OwnerOf[d])
               /\ cur' = [cur EXCEPT ![d] = t]
               /\ Goto(d, "create")
            \/ /\ ~CanClaim(t)
               /\ UNCHANGED <<journal, cur, pc>>
    /\ UNCHANGED <<waveVars, job, waits, drop, RestOfDispatch>>

(* autopilot_queue.enqueue(state='running', kind='partition_task')         *)
CreateQueueRow(d) ==
    /\ pc[d] = "create"
    /\ \E j \in First({i \in Jobs : queue[i] = "none"}) :
         /\ queue' = [queue EXCEPT ![j] = "running"]
         /\ taskOf' = [taskOf EXCEPT ![j] = cur[d]]
         /\ madeBy' = [madeBy EXCEPT ![j] = d]
         /\ job' = [job EXCEPT ![d] = j]
    /\ Goto(d, "record")
    /\ UNCHANGED <<journal, ratVars, waveVars, chunk, cur, waits, drop, runrow, workVars,
                   cancelVars, reconVars, envVars>>

(* _create_run_row                                                         *)
CreateRunRow(d) ==
    /\ pc[d] = "record"
    /\ runrow' = [runrow EXCEPT ![job[d]] = "running"]
    /\ Goto(d, "mark")
    /\ UNCHANGED <<journal, ratVars, waveVars, chunkVars, drop, queue, taskOf, madeBy, workVars,
                   cancelVars, reconVars, envVars>>

(* Either insert raises, and the handler goes on to rewind the claim.      *)
CreateFails(d) ==
    /\ "create" \in Faults
    /\ pc[d] \in {"create", "record"}
    /\ Goto(d, "release")
    /\ UNCHANGED <<journal, waveVars, chunkVars, drop, RestOfDispatch>>

(* Slip: the claim of a task whose rows could not be made is kept.         *)
KeepsClaim(d) ==
    /\ pc[d] = "release"
    /\ Goto(d, "wave")
    /\ UNCHANGED <<journal, waveVars, chunkVars, drop, RestOfDispatch>>

ReleaseOwnClaim(d) ==
    /\ pc[d] = "release"
    /\ IF CanRelease(cur[d]) THEN ReleaseClaim(cur[d]) ELSE UNCHANGED journal
    /\ Goto(d, "wave")
    /\ UNCHANGED <<waveVars, chunkVars, drop, RestOfDispatch>>

MarkRunningWon(d) ==
    /\ pc[d] = "mark"
    /\ CanMarkRunning(cur[d], OwnerOf[d])
    /\ MarkTaskRunning(cur[d], job[d])
    /\ Goto(d, "submit")
    /\ UNCHANGED <<waveVars, chunkVars, drop, RestOfDispatch>>

(* Slip: the rows created for a claim that was lost are forgotten.         *)
LostIsForgotten(d) ==
    /\ pc[d] = "mark"
    /\ ~CanMarkRunning(cur[d], OwnerOf[d])
    /\ Goto(d, "wave")
    /\ UNCHANGED <<journal, waveVars, chunkVars, drop, RestOfDispatch>>

MarkRunningLost(d) ==
    /\ pc[d] = "mark"
    /\ ~CanMarkRunning(cur[d], OwnerOf[d])
    /\ Goto(d, "orphan")
    /\ UNCHANGED <<journal, waveVars, chunkVars, drop, RestOfDispatch>>

(* complete_run(run_id, "failed", ...)                                     *)
CloseOrphanRun(d) ==
    /\ pc[d] = "orphan"
    /\ runrow' = [runrow EXCEPT ![job[d]] = "failed"]
    /\ Goto(d, "unqueue")
    /\ UNCHANGED <<journal, ratVars, waveVars, chunkVars, drop, queue, taskOf, madeBy, workVars,
                   cancelVars, reconVars, envVars>>

(* _mark_queue_row(queue_id, "blocked")                                    *)
CloseOrphanQueueRow(d) ==
    /\ pc[d] = "unqueue"
    /\ queue' = [queue EXCEPT ![job[d]] = "blocked"]
    /\ Goto(d, "wave")
    /\ UNCHANGED <<journal, ratVars, waveVars, chunkVars, drop, runrow, taskOf, madeBy, workVars,
                   cancelVars, reconVars, envVars>>

(* async_run_service.submit_run: the run is registered and has a worker.   *)
Submit(d) ==
    /\ pc[d] = "submit"
    /\ wpc' = [wpc EXCEPT ![job[d]] = "early"]
    /\ waits' = [waits EXCEPT ![d] = @ \cup {job[d]}]
    /\ Goto(d, "wave")
    /\ UNCHANGED <<journal, ratVars, waveVars, chunk, cur, job, drop, jobVars, result, flagged,
                   cancelVars, reconVars, envVars>>

-----------------------------------------------------------------------------
(* The end of a chunk, of a wave and of the dispatch.                      *)

(* event.wait returns, for the latches in the order of their creation; it  *)
(* times out after the task's wall clock and a margin.                     *)
WaitNext(d) ==
    /\ pc[d] = "wave"
    /\ chunk[d] = {}
    /\ \E j \in First(waits[d]) :
         /\ wpc[j] = "done" \/ "timeout" \in Faults
         /\ waits' = [waits EXCEPT ![d] = @ \ {j}]
    /\ UNCHANGED <<journal, pc, waveVars, chunk, cur, job, drop, RestOfDispatch>>

(* The wave's statuses are read again for on_task_failure.                 *)
WaveEnd(d) ==
    /\ pc[d] = "wave"
    /\ skip[d] = {} /\ chunk[d] = {} /\ waits[d] = {} /\ todo[d] = {}
    /\ IF doc[d].halt /\ \E t \in Wave(d) : Status(t) = "failed"
       THEN /\ Goto(d, "sweep")
            /\ halted' = [halted EXCEPT ![d] = TRUE]
       ELSE /\ Goto(d, "head")
            /\ UNCHANGED halted
    /\ seen' = [seen EXCEPT ![d] = @ \cup Wave(d)]
    /\ UNCHANGED <<journal, doc, skip, todo, chunkVars, drop, RestOfDispatch>>

(* _cancel_remaining reads the rows once: a task that has a run gets its   *)
(* cancel event set if the run is in flight ...                            *)
CancelSnapshot(S) == {t \in S : Status(t) \notin TerminalTaskStatuses \cup {"absent"}}

RequestCancel(S) ==
    flagged' = flagged \cup {j \in Jobs : wpc[j] \in LiveWork /\ \E t \in S : rows[t].run = j}

(* ... and then each is cancelled if it has not started: mark_task_cancelled. *)
CancelTask(t) == IF CanCancel(t) THEN SetStatus(t, "cancelled") ELSE UNCHANGED journal

SweepRead(d) ==
    /\ pc[d] = "sweep"
    /\ LET left == CancelSnapshot(doc[d].tasks \ seen[d])
       IN  /\ drop' = [drop EXCEPT ![d] = left]
           /\ RequestCancel(left)
    /\ Goto(d, "final")
    /\ UNCHANGED <<journal, ratVars, waveVars, chunkVars, jobVars, wpc, result, cancelVars,
                   reconVars, envVars>>

SweepNext(d) ==
    /\ pc[d] = "final"
    /\ \E t \in First(drop[d]) :
         /\ drop' = [drop EXCEPT ![d] = @ \ {t}]
         /\ CancelTask(t)
    /\ UNCHANGED <<pc, waveVars, chunkVars, RestOfDispatch>>

RowsWith(statuses) == {t \in Tasks : Status(t) \in statuses}

(* Slips: the failures are not looked at; only a fully committed partition *)
(* is settled.                                                             *)
FailuresUnread(d) ==
    /\ \/ pc[d] = "head" /\ Wave(d) = {}
       \/ pc[d] = "final" /\ drop[d] = {}
    /\ Goto(d, IF halted[d] \/ RowsWith({"pending", "claimed", "running"}) # {} THEN "done"
               ELSE "complete")
    /\ UNCHANGED <<journal, waveVars, chunkVars, drop, RestOfDispatch>>

SettlesCommittedOnly(d) ==
    /\ \/ pc[d] = "head" /\ Wave(d) = {}
       \/ pc[d] = "final" /\ drop[d] = {}
    /\ Goto(d, IF halted[d] \/ RowsWith(TaskStatuses \ {"committed", "absent"}) # {} THEN "done"
               ELSE "complete")
    /\ UNCHANGED <<journal, waveVars, chunkVars, drop, RestOfDispatch>>

(* The final reading: all rows terminal, and no reason to have halted.     *)
FinalRead(d) ==
    /\ \/ pc[d] = "head" /\ Wave(d) = {}
       \/ pc[d] = "final" /\ drop[d] = {}
    /\ Goto(d, IF halted[d] \/ RowsWith({"pending", "claimed", "running"}) # {} THEN "done"
               ELSE IF RowsWith({"failed"}) # {} THEN "fail" ELSE "complete")
    /\ UNCHANGED <<journal, waveVars, chunkVars, drop, RestOfDispatch>>

(* mark_partition_completed, mark_partition_failed                         *)
Settle(d) ==
    /\ pc[d] \in {"complete", "fail"}
    /\ LET to == IF pc[d] = "fail" THEN "failed" ELSE "completed"
       IN  \/ Transition("dispatching", to)
           \/ pstatus # "dispatching" /\ UNCHANGED journal
    /\ Goto(d, "done")
    /\ UNCHANGED <<waveVars, chunkVars, drop, RestOfDispatch>>

(* The process dies with the dispatcher and the workers it submitted.      *)
Crash(d) ==
    /\ "crash" \in Faults /\ crashes < MaxCrashes
    /\ \/ pc[d] \notin {"idle", "done", "refused", "crashed"}
       \/ \E j \in Jobs : madeBy[j] = d /\ wpc[j] \in LiveWork
    /\ Goto(d, "crashed")
    /\ wpc' = [j \in Jobs |-> IF madeBy[j] = d /\ wpc[j] \in LiveWork THEN "dead" ELSE wpc[j]]
    /\ crashes' = crashes + 1
    /\ UNCHANGED <<journal, ratVars, waveVars, chunkVars, drop, jobVars, result, flagged,
                   cancelVars, reconVars, paused>>

-----------------------------------------------------------------------------
(* _make_task_work: a submitted run on its pool thread.                    *)

RestOfWork == <<ratVars, dispVars, cancelVars, reconVars, envVars>>

(* run_pipeline passes from one step to the next.  It was given no run_id, *)
(* so the step loop's is_cancel_requested is never asked about this job.   *)
StepBoundary(j) ==
    /\ wpc[j] = "early"
    /\ wpc' = [wpc EXCEPT ![j] = "late"]
    /\ UNCHANGED <<journal, jobVars, result, flagged, RestOfWork>>

(* run_pipeline returns.  A pipeline that stops at a plan checkpoint       *)
(* returns the successful results of the stages before it, and             *)
(* _results_succeeded looks at nothing else.                               *)
PipelineReturns(j, outcome) ==
    /\ wpc[j] = "late"
    /\ result' = [result EXCEPT ![j] = outcome]
    /\ wpc' = [wpc EXCEPT ![j] = IF outcome = "failure" THEN "broken" ELSE "passed"]
    /\ UNCHANGED <<journal, jobVars, flagged, RestOfWork>>

Outcomes ==
    {"success"} \cup {o \in {"failure", "checkpoint"} : o \in Faults}

(* mark_task_committed                                                     *)
RecordSuccess(j) ==
    /\ wpc[j] = "passed"
    /\ LET t == taskOf[j]
       IN  IF CanCommit(t, OwnerOf[madeBy[j]]) THEN SetStatus(t, "committed")
           ELSE UNCHANGED journal
    /\ wpc' = [wpc EXCEPT ![j] = "mirror"]
    /\ UNCHANGED <<jobVars, result, flagged, RestOfWork>>

(* mark_task_failed                                                        *)
RecordFailure(j) ==
    /\ wpc[j] = "broken"
    /\ LET t == taskOf[j]
       IN  IF CanFail(t, OwnerOf[madeBy[j]]) THEN SetStatus(t, "failed")
           ELSE UNCHANGED journal
    /\ wpc' = [wpc EXCEPT ![j] = "mirror"]
    /\ UNCHANGED <<jobVars, result, flagged, RestOfWork>>

(* Slip: the event is set on the successful path only.                     *)
SetsDoneOnSuccess(j) ==
    /\ wpc[j] = "mirror" /\ result[j] # "failure"
    /\ queue' = [queue EXCEPT ![j] = "done"]
    /\ wpc' = [wpc EXCEPT ![j] = "done"]
    /\ UNCHANGED <<journal, runrow, taskOf, madeBy, result, flagged, RestOfWork>>

(* _mark_queue_row and done.set()                                          *)
MirrorQueueRow(j) ==
    /\ wpc[j] = "mirror"
    /\ queue' = [queue EXCEPT ![j] = IF result[j] = "failure" THEN "blocked" ELSE "done"]
    /\ wpc' = [wpc EXCEPT ![j] = "done"]
    /\ UNCHANGED <<journal, runrow, taskOf, madeBy, result, flagged, RestOfWork>>

-----------------------------------------------------------------------------
(* cancel_partition.                                                       *)

RestOfCancel == <<ratVars, dispVars, jobVars, wpc, result, reconVars, envVars>>

(* get_partition: the status decides between a veto and a cancellation.    *)
CancelRead(c) ==
    /\ cpc[c] = "idle"
    /\ csaw' = [csaw EXCEPT ![c] = pstatus]
    /\ cpc' = [cpc EXCEPT ![c] = IF pstatus = "proposed" THEN "veto" ELSE "list"]
    /\ UNCHANGED <<journal, cdrop, flagged, RestOfCancel>>

(* veto_partition; whether it won is not looked at.                        *)
CancelVeto(c) ==
    /\ cpc[c] = "veto"
    /\ \/ Transition("proposed", "vetoed")
       \/ pstatus # "proposed" /\ UNCHANGED journal
    /\ cpc' = [cpc EXCEPT ![c] = "done"]
    /\ UNCHANGED <<csaw, cdrop, flagged, RestOfCancel>>

CancelList(c) ==
    /\ cpc[c] = "list"
    /\ LET left == CancelSnapshot(Tasks)
       IN  /\ cdrop' = [cdrop EXCEPT ![c] = left]
           /\ RequestCancel(left)
    /\ cpc' = [cpc EXCEPT ![c] = "done"]
    /\ UNCHANGED <<journal, csaw, RestOfCancel>>

CancelNext(c) ==
    /\ cpc[c] = "done"
    /\ \E t \in First(cdrop[c]) :
         /\ cdrop' = [cdrop EXCEPT ![c] = @ \ {t}]
         /\ CancelTask(t)
    /\ UNCHANGED <<cpc, csaw, flagged, RestOfCancel>>

-----------------------------------------------------------------------------
(* reconcile_stale_claims.                                                 *)

RestOfRecon == <<ratVars, dispVars, jobVars, workVars, cancelVars, envVars>>

ReconcileRead(x) ==
    /\ xpc[x] = "idle"
    /\ xlist' = [xlist EXCEPT ![x] = StaleClaims]
    /\ xpc' = [xpc EXCEPT ![x] = "release"]
    /\ UNCHANGED <<journal, RestOfRecon>>

ReconcileNext(x) ==
    /\ xpc[x] = "release"
    /\ \E t \in xlist[x] :
         /\ xlist' = [xlist EXCEPT ![x] = @ \ {t}]
         /\ IF CanRelease(t) THEN ReleaseClaim(t) ELSE UNCHANGED journal
    /\ UNCHANGED <<xpc, RestOfRecon>>

-----------------------------------------------------------------------------
(* The environment.                                                        *)

(* A claim passes the threshold when its dispatcher crashed or, with the   *)
(* fault "stall", when it takes longer than that to create two rows.       *)
Age(t) ==
    /\ ClaimAges(t)
    /\ "stall" \in Faults \/ \A d \in Dispatchers :
         cur[d] = t => pc[d] \notin {"create", "record", "mark", "release"}
    /\ UNCHANGED <<ratVars, dispVars, jobVars, workVars, cancelVars, reconVars, envVars>>

(* hivepilot autopilot pause / resume                                      *)
KillSwitch ==
    /\ "pause" \in Faults
    /\ paused' = ~paused
    /\ UNCHANGED <<journal, ratVars, dispVars, jobVars, workVars, cancelVars, reconVars, crashes>>

Ratify(r) ==
    \/ RatifyAdmit(r) \/ RatifyDeny(r) \/ RatifyWin(r) \/ RatifyLose(r) \/ RatifyInsert(r)

Dispatch(d) ==
    \/ Begin(d) \/ GateWin(d) \/ GateLose(d) \/ GateReread(d)
    \/ WaveProceed(d) \/ WaveHalt(d)
    \/ ReadWave(d) \/ SkipNext(d) \/ TakeChunk(d)
    \/ ClaimNext(d) \/ CreateQueueRow(d) \/ CreateRunRow(d)
    \/ CreateFails(d) \/ ReleaseOwnClaim(d)
    \/ MarkRunningWon(d) \/ MarkRunningLost(d) \/ CloseOrphanRun(d) \/ CloseOrphanQueueRow(d)
    \/ Submit(d) \/ WaitNext(d)
    \/ WaveEnd(d) \/ SweepRead(d) \/ SweepNext(d)
    \/ FinalRead(d) \/ Settle(d)

Work(j) ==
    \/ StepBoundary(j)
    \/ \E outcome \in Outcomes : PipelineReturns(j, outcome)
    \/ RecordSuccess(j) \/ RecordFailure(j) \/ MirrorQueueRow(j)

Cancel(c) == CancelRead(c) \/ CancelVeto(c) \/ CancelList(c) \/ CancelNext(c)

Reconcile(x) == ReconcileRead(x) \/ ReconcileNext(x)

Next ==
    \/ \E r \in Ratifiers : Ratify(r) \/ RatifyCrash(r)
    \/ \E d \in Dispatchers : Dispatch(d) \/ Crash(d)
    \/ \E j \in Jobs : Work(j)
    \/ \E c \in Cancellers : Cancel(c)
    \/ \E x \in Reconcilers : Reconcile(x)
    \/ \E t \in Tasks : Age(t)
    \/ Expire
    \/ KillSwitch

Spec == Init /\ [][Next]_vars

(* Threads are scheduled: a dispatcher, a worker and the handlers that are *)
(* called keep taking steps.  Nobody has to crash, time out or pause.      *)
Fairness ==
    /\ \A r \in Ratifiers : WF_vars(Ratify(r))
    /\ \A d \in Dispatchers : WF_vars(Dispatch(d))
    /\ \A j \in Jobs : WF_vars(Work(j))

FairSpec == Spec /\ Fairness

-----------------------------------------------------------------------------
(* Correctness.                                                            *)

(* No task is submitted twice: two workers are never given the same task,  *)
(* whoever resumes, reconciles, loses a claim or shares a claimed_by       *)
(* (claim_task, mark_task_running, release_stale_claim).                   *)
OneSubmission ==
    \A i, j \in Jobs :
        wpc[i] # "none" /\ wpc[j] # "none" /\ taskOf[i] = taskOf[j] => i = j

(* A task that was given to a worker belongs to the plan a human ratified, *)
(* and every prerequisite that plan names had committed, although the      *)
(* dispatcher decided so from a snapshot read several transactions before. *)
StartedAsRatified ==
    \A j \in Jobs : wpc[j] # "none" =>
        /\ ratified # NULL
        /\ taskOf[j] \in ratified.tasks
        /\ pstatus \notin {"proposed", "ratified", "vetoed", "expired"}
        /\ \A dep \in ratified.deps[taskOf[j]] : Status(dep) = "committed"

(* A task the journal calls cancelled or skipped was never submitted, even *)
(* if it was claimed when the cancellation came (mark_task_cancelled).     *)
AbandonedNeverRan ==
    \A j \in Jobs : wpc[j] # "none" => Status(taskOf[j]) \notin {"cancelled", "skipped"}

(* What a worker reports reaches the row of its task: the conditional      *)
(* UPDATE on status and claimed_by never misses for the task's own worker. *)
OutcomeRecorded ==
    \A j \in Jobs : wpc[j] \in {"mirror", "done"} =>
        /\ rows[taskOf[j]].run = j
        /\ Status(taskOf[j]) = (IF result[j] = "failure" THEN "failed" ELSE "committed")

(* History is not editable: a terminal row never changes again, and the    *)
(* ratified document never changes once it is written.                     *)
HistoryStands ==
    [][/\ ratified # NULL => ratified' = ratified
       /\ \A t \in Tasks : Status(t) \in TerminalTaskStatuses => rows'[t] = rows[t]]_vars

(* No queue row is left `running` by a dispatcher that is done with it:    *)
(* one that lost its claim closes the rows it created (_dispatch_chunk).   *)
InHand(j) ==
    \E d \in Dispatchers :
        job[d] = j /\ pc[d] \in {"record", "mark", "submit", "unqueue", "orphan"}

NoStrayQueueRow ==
    \A j \in Jobs : queue[j] = "running" => wpc[j] \in LiveWork \cup {"dead"} \/ InHand(j)

(* Until a process dies, a claimed task has a dispatcher that will start   *)
(* or release it, and a running one a dispatcher about to submit it or a   *)
(* worker, whoever reconciles, cancels or shares a claim meanwhile.        *)
ClaimHeld(t) ==
    \E d \in Dispatchers :
        /\ cur[d] = t /\ pc[d] \in {"create", "record", "mark", "release"}
        /\ rows[t].by = OwnerOf[d]

RunHeld(t) ==
    \/ \E d \in Dispatchers : cur[d] = t /\ pc[d] = "submit"
    \/ \E j \in Jobs : taskOf[j] = t /\ wpc[j] \in LiveWork

Held(t) ==
    /\ Status(t) = "claimed" => ClaimHeld(t)
    /\ Status(t) = "running" => RunHeld(t)

NothingAdrift == crashes = 0 => \A t \in Tasks : Held(t)

(* A partition marked completed has a committed, skipped or cancelled row  *)
(* for every task of its plan (mark_partition_completed).                  *)
CompletedIsComplete ==
    pstatus = "completed" =>
        \A t \in ratified.tasks : Status(t) \in TerminalTaskStatuses \ {"failed"}

(* At most effective_parallelism tasks of the partition run at once.       *)
WithinParallelism ==
    Cardinality({j \in Jobs : wpc[j] \in LiveWork}) <= Cap

(* When cancel_partition returns for a partition it saw `dispatching`,     *)
(* nothing starts any more: every row it leaves is running or ended.       *)
Starts(t) == Status(t) # "running" /\ rows'[t].status = "running"

Returned(c) == cpc[c] = "done" /\ cdrop[c] = {}

CancelOfDispatchingStops ==
    [][(\E c \in Cancellers : Returned(c) /\ csaw[c] = "dispatching")
         => \A t \in Tasks : ~Starts(t)]_vars

(* Every dispatch that starts comes to an end.                             *)
DispatchReturns ==
    \A d \in Dispatchers : pc[d] = "cas" ~> pc[d] \in {"done", "refused", "crashed"}

(* A ratification that wins leads to a partition that is over.             *)
RatifiedSettles == pstatus = "ratified" ~> pstatus \in {"completed", "failed"}

(* What a task row shows to the owner of the plan: a claim is not visible. *)
Stage ==
    [t \in Tasks |->
        IF Status(t) \in {"absent", "pending", "claimed"} THEN "waiting"
        ELSE IF Status(t) = "running" THEN "live" ELSE Status(t)]

Promise == INSTANCE PartitionPromise WITH approved <- ratified, stage <- Stage

(* The dispatch implements what a partition promises: every step of its    *)
(* threads is one step of PartitionPromise or invisible to it.             *)
KeepsPromise == Promise!Spec

-----------------------------------------------------------------------------
(* What the documentation or a comment says and the code does not keep     *)
(* (section 5 of the README).                                              *)

(* When cancel_partition returns, nothing starts any more, whatever status *)
(* it saw.                                                                 *)
CancelStops ==
    [][(\E c \in Cancellers : Returned(c)) => \A t \in Tasks : ~Starts(t)]_vars

(* When a dispatcher has returned and every task of the plan has ended,    *)
(* the partition is no longer `dispatching`.                               *)
Over(plan) == \A t \in plan.tasks : Status(t) \in TerminalTaskStatuses

EndedIsSettled ==
    \A d \in Dispatchers : pc[d] = "done" /\ Over(doc[d]) => pstatus # "dispatching"

(* A task recorded as committed is one whose pipeline reached its end.     *)
CommittedIsDone ==
    \A j \in Jobs : wpc[j] = "done" /\ Status(taskOf[j]) = "committed" => result[j] = "success"

(* The run of a task that has ended is itself closed once its worker is    *)
(* done: no run row stays `running` with nothing left to finish it.        *)
NoDanglingRun == \A j \in Jobs : wpc[j] = "done" => runrow[j] # "running"

(* Never two runs for one task: of the run rows created for a task, at     *)
(* most one is open, wherever a crash comes (claim before create).         *)
NeverTwoRuns ==
    \A i, j \in Jobs :
        runrow[i] = "running" /\ runrow[j] = "running" /\ taskOf[i] = taskOf[j] => i = j

(* A running task that was asked to stop does so at a step boundary.       *)
CancelReachesRun ==
    [][\A j \in Jobs : j \in flagged => ~(wpc[j] = "early" /\ wpc'[j] = "late")]_vars

-----------------------------------------------------------------------------
(* The inductive invariant: why a task is submitted once, and only when    *)
(* the plan allows.                                                        *)

(* A task of the ratified plan whose prerequisites have all committed.     *)
Ready(t) ==
    /\ ratified # NULL
    /\ t \in ratified.tasks
    /\ \A dep \in ratified.deps[t] : Status(dep) = "committed"

Started == {"dispatching", "completed", "failed"}

Holding == {"create", "record", "mark", "submit", "release", "orphan", "unqueue"}

WithJob == {"record", "mark", "submit", "orphan", "unqueue"}

RatifyInv ==
    /\ pstatus \in {"proposed", "vetoed", "expired"} <=> ratified = NULL
    /\ \A t \in Tasks : Status(t) # "absent" => ratified # NULL
    /\ \A r \in Ratifiers :
         /\ rpc[r] \in {"cas", "insert"} => rdoc[r] \in Plans
         /\ rpc[r] = "insert" => ratified = rdoc[r]

GateInv ==
    \A d \in Dispatchers :
        /\ doc[d] # NULL => doc[d] = ratified
        /\ pc[d] \notin {"idle", "refused", "crashed"} => doc[d] # NULL
        /\ pc[d] \notin {"idle", "cas", "lost", "refused", "crashed"} => pstatus \in Started

(* What the snapshot of a wave found ready is still ready when it is used. *)
SnapshotInv ==
    \A d \in Dispatchers :
        /\ \A t \in todo[d] \cup chunk[d] : Ready(t)
        /\ pc[d] \in Holding => cur[d] \in Tasks /\ Ready(cur[d])

(* A job in hand is its dispatcher's own and has no worker yet.            *)
JobInv ==
    /\ \A j \in Jobs : queue[j] = "none" => wpc[j] = "none"
    /\ \A d \in Dispatchers : pc[d] \in WithJob =>
         /\ job[d] \in Jobs
         /\ queue[job[d]] # "none"
         /\ madeBy[job[d]] = d
         /\ taskOf[job[d]] = cur[d]
         /\ wpc[job[d]] = "none"

(* The row of a task belongs, from `running` on, to one job: the one about *)
(* to be submitted or the one that was.                                    *)
RowInv ==
    /\ \A t \in Tasks : rows[t].run # NULL => Status(t) \in {"running", "committed", "failed"}
    /\ \A d \in Dispatchers : pc[d] = "submit" =>
         /\ rows[cur[d]].run = job[d]
         /\ rows[cur[d]].by = OwnerOf[d]
         /\ Status(cur[d]) = "running"

RecordedStatus(j) ==
    IF wpc[j] \in {"mirror", "done"}
    THEN IF result[j] = "failure" THEN "failed" ELSE "committed"
    ELSE "running"

WorkInv ==
    \A j \in Jobs : wpc[j] # "none" =>
        /\ taskOf[j] \in Tasks
        /\ madeBy[j] \in Dispatchers
        /\ pstatus \in Started
        /\ Ready(taskOf[j])
        /\ rows[taskOf[j]].run = j
        /\ rows[taskOf[j]].by = OwnerOf[madeBy[j]]
        /\ wpc[j] # "dead" => Status(taskOf[j]) = RecordedStatus(j)
        /\ wpc[j] = "passed" => result[j] # "failure"
        /\ wpc[j] = "broken" => result[j] = "failure"

(* All of it together is preserved by every step (PartitionDispatchProofs). *)
IInv == TypeOK /\ RatifyInv /\ GateInv /\ SnapshotInv /\ JobInv /\ RowInv /\ WorkInv
=============================================================================
