------------------------------ MODULE StepRun -------------------------------
(***************************************************************************)
(* One run of a task on one project: the gates before it, its steps in     *)
(* order, a step that stops for approval and is taken up again, a runner   *)
(* out of quota, the review and the git actions after the last step        *)
(* (Orchestrator._run_task_body, run_approved and _execute_task_body,      *)
(* POST /v1/runs and its cancel with async_run_service).                   *)
(*                                                                         *)
(* The same steps are walked under three callers whose gates and handlers  *)
(* are written out separately: run_task ("sync"), the background worker of *)
(* POST /v1/runs ("async"), and run_approved, which takes up a run that    *)
(* waits for a person.  An action is one statement of the database, or one *)
(* step, with the local work up to the next.  `simulate` is off.           *)
(***************************************************************************)
EXTENDS Integers

CONSTANTS
    M,              \* steps 1..M
    Tasks,          \* the tasks, with their project's policy, the run may be of
    Entries,        \* how it may be started: "sync", "async"
    Worker,         \* the call that starts the run, and its thread
    Approvers,      \* calls of run_approved
    Outcomes,       \* what else a runner does: "fail", "quota", "unavailable"
    MaxFallbacks,   \* dev_fallback_runners
    MaxCrashes,     \* bound
    NoRow

Steps == 1..M
Executors == {Worker} \cup Approvers

(* `approval`: policy.require_approval; `rules`: what the approval rules   *)
(* may say; `blocks`: the gates that find something; `batched`: the        *)
(* project is beyond dev_batch_size; `worktree`: the run is isolated;      *)
(* `gated`: steps that step_requires_approval names; `lenient`:            *)
(* allow_failure; `developer`: the role that has fallbacks and a deferral; *)
(* `review`: an internal review ends the task; `git`: auto_git.            *)
TaskType ==
    [approval : BOOLEAN, rules : SUBSET {"approve", "deny"},
     blocks : SUBSET {"checkout", "cve", "licence"}, batched : BOOLEAN, worktree : BOOLEAN,
     gated : SUBSET Steps, lenient : SUBSET Steps, developer : BOOLEAN, review : BOOLEAN,
     git : BOOLEAN]

ASSUME StepsAssumption == M \in Nat \ {0}
ASSUME TasksAssumption == Tasks \subseteq TaskType /\ Entries \subseteq {"sync", "async"}
ASSUME CallersAssumption == Worker \notin Approvers
ASSUME OutcomesAssumption ==
    /\ Outcomes \subseteq {"fail", "quota", "unavailable"}
    /\ MaxFallbacks \in Nat /\ MaxCrashes \in Nat

VARIABLES
    task, entry,
    run,            \* the status column of the run's row
    approval,       \* the row of `approvals`, or NoRow
    registry,       \* the run's cancel event: "absent", "clear" or "set"
    accepted,       \* a cancel of the run was accepted, whether or not the event is still there
    pc, seen,       \* executors: control state, the approval as it was read
    at,             \* ... the step they are at
    pardoned,       \* ... approved_step_index; 0: none
    left,           \* ... fallback runners left for this step
    error,          \* ... the exception on its way up
    ran, again,     \* steps that a runner was started on, those it was started on anew
    settled,        \* steps that ended well, or whose failure is allowed
    licensed,       \* steps, and 0 for the task, that a person or a rule approved
    queued,         \* a retry was enqueued for the run
    pushed,         \* git actions were performed
    late,           \* steps an executor began after a cancel of the run was accepted
    crossed,        \* decisions taken on a row, or a run, that was not as it was read,
                    \* and a cancel that a call met which does not know of it
    crashes

rows == <<run, approval>>
local == <<pc, seen, at, pardoned, left, error>>
history == <<ran, again, settled, licensed, late, crossed>>
vars == <<task, entry, rows, registry, accepted, local, queued, pushed, history, crashes>>

Terminal == {"success", "failed", "denied", "cancelled", "deferred"}
RunStates == {"none", "pending", "running", "paused"} \cup Terminal
Rows == [status : {"pending", "approved", "denied"}, index : 0..M]
Errors == {"none", "pending", "cancelled", "deferred", "error"}
Labels == {"idle", "start", "admit", "ruleDeny", "deny", "decide", "admitApproved", "boundary",
           "gate", "park", "attempt", "review", "git", "succeed", "raised", "enqueue", "leave"}

ASSUME NoRowAssumption == NoRow \notin Rows

TypeOK ==
    /\ task \in Tasks /\ entry \in Entries
    /\ run \in RunStates
    /\ approval \in Rows \cup {NoRow}
    /\ registry \in {"absent", "clear", "set"} /\ accepted \in BOOLEAN
    /\ pc \in [Executors -> Labels]
    /\ seen \in [Executors -> Rows \cup {NoRow}]
    /\ at \in [Executors -> 1..(M + 1)]
    /\ pardoned \in [Executors -> 0..M]
    /\ left \in [Executors -> 0..MaxFallbacks]
    /\ error \in [Executors -> Errors]
    /\ {ran, again, settled} \subseteq SUBSET Steps
    /\ licensed \subseteq 0..M
    /\ queued \in BOOLEAN /\ pushed \in BOOLEAN
    /\ late \in [Executors -> SUBSET Steps]
    /\ crossed \subseteq {"decision", "early", "cancel"}
    /\ crashes \in Nat

Init ==
    /\ task \in Tasks /\ entry \in Entries
    /\ run = "none"
    /\ approval = NoRow
    /\ registry = "absent" /\ accepted = FALSE
    /\ pc = [w \in Executors |-> IF w = Worker THEN "start" ELSE "idle"]
    /\ seen = [w \in Executors |-> NoRow]
    /\ at = [w \in Executors |-> 1]
    /\ pardoned = [w \in Executors |-> 0]
    /\ left = [w \in Executors |-> 0]
    /\ error = [w \in Executors |-> "none"]
    /\ ran = {} /\ again = {} /\ settled = {} /\ licensed = {}
    /\ queued = FALSE /\ pushed = FALSE
    /\ late = [w \in Executors |-> {}]
    /\ crossed = {}
    /\ crashes = 0

-----------------------------------------------------------------------------
To(w, label) == pc' = [pc EXCEPT ![w] = label]

Forgets(w) ==
    /\ seen' = [seen EXCEPT ![w] = NoRow]
    /\ at' = [at EXCEPT ![w] = 1]
    /\ pardoned' = [pardoned EXCEPT ![w] = 0]
    /\ left' = [left EXCEPT ![w] = 0]
    /\ error' = [error EXCEPT ![w] = "none"]

(* The call returns.  The wrapper of submit_run takes the run out of the   *)
(* registry first.                                                         *)
Returns(w) ==
    /\ To(w, IF w = Worker /\ entry = "async" THEN "leave" ELSE "idle")
    /\ Forgets(w)

Leave(w) ==
    /\ pc[w] = "leave"
    /\ To(w, "idle")
    /\ registry' = "absent"
    /\ UNCHANGED <<task, entry, rows, accepted, seen, at, pardoned, left, error, queued, pushed,
                   history, crashes>>

Completes(w, status) == run' = status /\ Returns(w)

Outside == UNCHANGED <<task, entry, registry, accepted, queued, pushed, crashes>>
Raises(w, kind) == To(w, "raised") /\ error' = [error EXCEPT ![w] = kind]

-----------------------------------------------------------------------------
(* The gates before the first step.                                        *)

Blocked(gates) == task.blocks \cap gates # {}

(* create_run: the row, then the registry and the thread.  _run_task_body: *)
(* the repository must be there, and the row depends on the policy.        *)
Start ==
    /\ pc[Worker] = "start"
    /\ IF entry = "sync" /\ Blocked({"checkout"})
       THEN run' = "failed" /\ To(Worker, "idle")
       ELSE /\ run' = IF task.approval THEN "pending" ELSE "running"
            /\ To(Worker, "admit")
    /\ registry' = IF entry = "async" THEN "clear" ELSE registry
    /\ UNCHANGED <<task, entry, approval, accepted, seen, at, pardoned, left, error, queued, pushed,
                   history, crashes>>

(* Under require_approval a rule may approve; otherwise a row is written   *)
(* and the call returns, or a rule denies it.                              *)
AskForTask ==
    /\ pc[Worker] = "admit" /\ task.approval
    /\ approval' = [status |-> "pending", index |-> 0]
    /\ \/ Returns(Worker)
       \/ /\ "deny" \in task.rules
          /\ To(Worker, "ruleDeny")
          /\ seen' = [seen EXCEPT ![Worker] = approval']
          /\ UNCHANGED <<at, pardoned, left, error>>
    /\ Outside /\ UNCHANGED <<run, history>>

(* What else the caller looks at.  The two are not the same: the worker of *)
(* POST /v1/runs does not look at licences.                                *)
GatesOf(kind) == IF kind = "sync" THEN {"cve", "licence"} ELSE {"cve"}

Admitted == task.approval => "approve" \in task.rules

Refuse ==
    /\ pc[Worker] = "admit" /\ Admitted
    /\ Blocked(GatesOf(entry))
    /\ Completes(Worker, "failed")
    /\ Outside /\ UNCHANGED <<approval, history>>

(* run_task writes the row of a run that may go on: it says `running`.      *)
Opens == run' = IF entry = "sync" THEN "running" ELSE run

(* Beyond the batch: a retry is enqueued, and the run's row is left as it  *)
(* is.                                                                     *)
DeferBatch ==
    /\ pc[Worker] = "admit" /\ Admitted
    /\ ~Blocked(GatesOf(entry))
    /\ entry = "sync" /\ task.batched
    /\ queued' = TRUE
    /\ Opens /\ Returns(Worker)
    /\ UNCHANGED <<task, entry, approval, registry, accepted, pushed, history, crashes>>

(* _execute_task_body refuses a step that may stop in a worktree, which    *)
(* would be removed under it.                                              *)
Enter(w, s, index) ==
    /\ at' = [at EXCEPT ![w] = s]
    /\ pardoned' = [pardoned EXCEPT ![w] = index]
    /\ IF task.worktree /\ index = 0 /\ task.gated # {}
       THEN Raises(w, "error")
       ELSE To(w, "boundary") /\ UNCHANGED error

Execute ==
    /\ pc[Worker] = "admit" /\ Admitted
    /\ ~Blocked(GatesOf(entry))
    /\ entry = "async" \/ ~task.batched
    /\ licensed' = IF task.approval THEN licensed \cup {0} ELSE licensed
    /\ Opens /\ Enter(Worker, 1, 0)
    /\ Outside /\ UNCHANGED <<approval, seen, left, ran, again, settled, late, crossed>>

-----------------------------------------------------------------------------
(* The loop over the steps.                                                *)

AtBoundary(w) == pc[w] = "boundary" /\ at[w] \in Steps

(* is_cancel_requested, at the top of each step.                           *)
Cancelled(w) ==
    /\ AtBoundary(w) /\ registry = "set"
    /\ run' = "cancelled"
    /\ Raises(w, "cancelled")
    /\ crossed' = crossed \cup (IF w = Worker THEN {} ELSE {"cancel"})
    /\ Outside
    /\ UNCHANGED <<approval, seen, at, pardoned, left, ran, again, settled, licensed, late>>

(* A slip: a cancel is looked for before the first step alone.             *)
LooksOnce(w) ==
    /\ AtBoundary(w) /\ (registry # "set" \/ at[w] > 1)
    /\ To(w, "gate")
    /\ Outside /\ UNCHANGED <<rows, seen, at, pardoned, left, error, history>>

NotCancelled(w) ==
    /\ AtBoundary(w) /\ registry # "set"
    /\ To(w, "gate")
    /\ Outside /\ UNCHANGED <<rows, seen, at, pardoned, left, error, history>>

(* A slip: a run that was taken up is not asked about again.               *)
AsksOnce(w) == at[w] \in task.gated /\ pardoned[w] = 0

MustAsk(w) == at[w] \in task.gated /\ at[w] # pardoned[w]

AskForStep(w) ==
    /\ pc[w] = "gate" /\ MustAsk(w)
    /\ approval' = [status |-> "pending", index |-> at[w]]
    /\ To(w, "park")
    /\ Outside /\ UNCHANGED <<run, seen, at, pardoned, left, error, history>>

(* complete_run(PAUSED), after the people were told; StepApprovalPending.  *)
Park(w) ==
    /\ pc[w] = "park"
    /\ run' = "paused"
    /\ Raises(w, "pending")
    /\ Outside /\ UNCHANGED <<approval, seen, at, pardoned, left, history>>

Begins(w) ==
    /\ To(w, "attempt")
    /\ ran' = ran \cup {at[w]}
    /\ again' = IF at[w] \in ran THEN again \cup {at[w]} ELSE again
    /\ late' = IF accepted THEN [late EXCEPT ![w] = @ \cup {at[w]}] ELSE late
    /\ left' = [left EXCEPT ![w] = IF task.developer THEN MaxFallbacks ELSE 0]

(* What comes before the gate fails.  The secrets are resolved outside the *)
(* step's handler of failures; the rest is inside, so that allow_failure   *)
(* passes over the step, and nobody is asked about it.                     *)
PrepareFails(w) ==
    /\ "fail" \in Outcomes
    /\ pc[w] = "gate"
    /\ Raises(w, "error")
    /\ Outside /\ UNCHANGED <<rows, seen, at, pardoned, left, history>>

BeginStep(w) ==
    /\ pc[w] = "gate" /\ ~MustAsk(w)
    /\ Begins(w)
    /\ Outside /\ UNCHANGED <<rows, seen, at, pardoned, error, settled, licensed, crossed>>

NextStep(w) ==
    /\ To(w, "boundary")
    /\ at' = [at EXCEPT ![w] = @ + 1]
    /\ settled' = settled \cup {at[w]}
    /\ left' = [left EXCEPT ![w] = 0]
    /\ UNCHANGED error

PassOver(w) ==
    /\ "fail" \in Outcomes
    /\ pc[w] = "gate" /\ at[w] \in task.lenient
    /\ NextStep(w)
    /\ Outside /\ UNCHANGED <<rows, seen, pardoned, ran, again, licensed, late, crossed>>

(* The step ended well, or it failed and allow_failure passes over that:    *)
(* but for the records, the two are the same.                              *)
StepOver(w) ==
    /\ pc[w] = "attempt"
    /\ NextStep(w)
    /\ Outside /\ UNCHANGED <<rows, seen, pardoned, ran, again, licensed, late, crossed>>

(* Out of quota, or unavailable: the developer's step goes to the next     *)
(* runner.                                                                 *)
Unfit == {"quota", "unavailable"}
Fallback(w) ==
    /\ Outcomes \cap Unfit # {}
    /\ pc[w] = "attempt" /\ left[w] > 0
    /\ left' = [left EXCEPT ![w] = @ - 1]
    /\ Outside /\ UNCHANGED <<rows, pc, seen, at, pardoned, error, history>>

(* None is left: a quota has a reset to wait for, which allow_failure does *)
(* not swallow.                                                            *)
Defers(w, kind) == kind = "quota" /\ task.developer

Deferred(w) ==
    /\ \E kind \in Outcomes : Defers(w, kind)
    /\ pc[w] = "attempt" /\ left[w] = 0
    /\ Raises(w, "deferred")
    /\ Outside /\ UNCHANGED <<rows, seen, at, pardoned, left, history>>

(* Any other exception, an agent that asked for permission included.       *)
Breaks(w) ==
    /\ pc[w] = "attempt"
    /\ \E kind \in Outcomes : kind \in Unfit => left[w] = 0 /\ ~Defers(w, kind)

(* A slip: the loop goes on after a failure.                               *)
GoesOn(w) ==
    /\ Breaks(w) /\ at[w] \notin task.lenient
    /\ To(w, "boundary")
    /\ at' = [at EXCEPT ![w] = @ + 1]
    /\ Outside /\ UNCHANGED <<rows, seen, pardoned, left, error, history>>

StepFailed(w) ==
    /\ Breaks(w) /\ at[w] \notin task.lenient
    /\ Raises(w, "error")
    /\ Outside /\ UNCHANGED <<rows, seen, at, pardoned, left, history>>

(* The last step is over.                                                  *)
AllOver(w) ==
    /\ pc[w] = "boundary" /\ at[w] = M + 1
    /\ To(w, IF task.review THEN "review" ELSE "git")
    /\ Outside /\ UNCHANGED <<rows, seen, at, pardoned, left, error, history>>

(* A blocking verdict of an internal review raises ReviewBlockedError.     *)
Review(w) ==
    /\ pc[w] = "review"
    /\ \/ To(w, "git") /\ UNCHANGED error
       \/ Raises(w, "error")
    /\ Outside /\ UNCHANGED <<rows, seen, at, pardoned, left, history>>

(* perform_git_actions, which may raise.                                   *)
GitActions(w) ==
    /\ pc[w] = "git"
    /\ \/ To(w, "succeed") /\ pushed' = (pushed \/ task.git) /\ UNCHANGED error
       \/ task.git /\ "fail" \in Outcomes /\ Raises(w, "error") /\ UNCHANGED pushed
    /\ UNCHANGED <<task, entry, registry, accepted, queued, crashes>>
    /\ UNCHANGED <<rows, seen, at, pardoned, left, history>>

-----------------------------------------------------------------------------
(* What the callers make of the outcome.                                   *)

Succeed(w) ==
    /\ pc[w] = "succeed"
    /\ Completes(w, "success")
    /\ Outside /\ UNCHANGED <<approval, history>>

(* StepApprovalPending leaves the run paused, for each of the three.       *)
LeavePaused(w) ==
    /\ pc[w] = "raised" /\ error[w] = "pending"
    /\ Returns(w)
    /\ Outside /\ UNCHANGED <<rows, history>>

(* A slip: a cancellation is met by the handler of failures.               *)
FailsCancelled(w) ==
    /\ pc[w] = "raised" /\ error[w] = "cancelled"
    /\ w = Worker /\ entry = "async"
    /\ Completes(w, "failed")
    /\ Outside /\ UNCHANGED <<approval, history>>

(* RunCancelled: only the background worker knows it.                      *)
LeaveCancelled(w) ==
    /\ pc[w] = "raised" /\ error[w] = "cancelled"
    /\ w = Worker /\ entry = "async"
    /\ Returns(w)
    /\ Outside /\ UNCHANGED <<rows, history>>

(* QuotaDeferredError under run_task: a retry, then the status.            *)
EnqueueDeferred(w) ==
    /\ pc[w] = "raised" /\ error[w] = "deferred"
    /\ w = Worker /\ entry = "sync"
    /\ queued' = TRUE
    /\ To(w, "enqueue")
    /\ UNCHANGED <<task, entry, registry, accepted, pushed, crashes>>
    /\ UNCHANGED <<rows, seen, at, pardoned, left, error, history>>

(* ... under POST /v1/runs the status alone.                               *)
CompleteDeferred(w) ==
    /\ \/ pc[w] = "enqueue"
       \/ pc[w] = "raised" /\ error[w] = "deferred" /\ w = Worker /\ entry = "async"
    /\ Completes(w, "deferred")
    /\ Outside /\ UNCHANGED <<approval, history>>

(* Everything else is a failure; to run_approved a deferral and a          *)
(* cancellation are.                                                       *)
Fail(w) ==
    /\ pc[w] = "raised"
    /\ error[w] = "error" \/ (w # Worker /\ error[w] \in {"deferred", "cancelled"})
    /\ Completes(w, "failed")
    /\ Outside /\ UNCHANGED <<approval, history>>

-----------------------------------------------------------------------------
(* run_approved                                                            *)

Pending == approval # NoRow /\ approval.status = "pending"

Read(a) ==
    /\ a \in Approvers /\ pc[a] = "idle"
    /\ Pending
    /\ seen' = [seen EXCEPT ![a] = approval]
    /\ To(a, "decide")
    /\ Outside /\ UNCHANGED <<rows, at, pardoned, left, error, history>>

(* update_approval compares nothing.  Others may have decided since, or    *)
(* the run is not parked yet.                                              *)
Write(w, decision) ==
    /\ approval' = [approval EXCEPT !.status = decision]
    /\ crossed' = crossed
         \cup (IF approval # seen[w] THEN {"decision"} ELSE {})
         \cup (IF \E v \in Executors \ {w} : pc[v] \in {"park", "ruleDeny"} THEN {"early"} ELSE {})

DenyByRule ==
    /\ pc[Worker] = "ruleDeny"
    /\ Write(Worker, "denied")
    /\ To(Worker, "deny")
    /\ Outside
    /\ UNCHANGED <<run, seen, at, pardoned, left, error, ran, again, settled, licensed, late>>

Deny(a) ==
    /\ pc[a] = "decide"
    /\ Write(a, "denied")
    /\ To(a, "deny")
    /\ Outside
    /\ UNCHANGED <<run, seen, at, pardoned, left, error, ran, again, settled, licensed, late>>

Denied(w) ==
    /\ pc[w] = "deny"
    /\ Completes(w, "denied")
    /\ Outside /\ UNCHANGED <<approval, history>>

(* A slip: the decision is recorded, and nothing comes of it.              *)
ApprovesOnly(a) ==
    /\ pc[a] = "decide"
    /\ Write(a, "approved")
    /\ licensed' = licensed \cup {seen[a].index}
    /\ Returns(a)
    /\ Outside
    /\ UNCHANGED <<run, ran, again, settled, late>>

Approve(a) ==
    /\ pc[a] = "decide"
    /\ Write(a, "approved")
    /\ licensed' = licensed \cup {seen[a].index}
    /\ To(a, "admitApproved")
    /\ Outside
    /\ UNCHANGED <<run, seen, at, pardoned, left, error, ran, again, settled, late>>

(* The gates that stand behind the approval of a task are looked at now;   *)
(* behind that of a step they have been.                                   *)
RefuseApproved(a) ==
    /\ pc[a] = "admitApproved"
    /\ seen[a].index = 0 /\ Blocked({"cve", "licence"})
    /\ Completes(a, "failed")
    /\ Outside /\ UNCHANGED <<approval, history>>

(* A slip: an approved run starts over.                                    *)
StartsOver(a) ==
    LET index == seen[a].index
    IN  /\ pc[a] = "admitApproved"
        /\ index = 0 => ~Blocked({"cve", "licence"})
        /\ Enter(a, 1, index)
        /\ Outside /\ UNCHANGED <<rows, seen, left, history>>

ExecuteApproved(a) ==
    LET index == seen[a].index
    IN  /\ pc[a] = "admitApproved"
        /\ index = 0 => ~Blocked({"cve", "licence"})
        /\ Enter(a, IF index = 0 THEN 1 ELSE index, index)
        /\ Outside /\ UNCHANGED <<rows, seen, left, history>>

-----------------------------------------------------------------------------
(* POST /v1/runs/{run_id}/cancel: 202 if the run is in the registry, and   *)
(* 409, which changes nothing, if it is not.                               *)
Cancel ==
    /\ registry = "clear"
    /\ registry' = "set" /\ accepted' = TRUE
    /\ UNCHANGED <<task, entry, rows, local, queued, pushed, history, crashes>>

(* The process of an executor dies; the registry was in its memory.        *)
Crash(w) ==
    /\ crashes < MaxCrashes /\ crashes' = crashes + 1
    /\ pc[w] \notin {"idle", "start"}
    /\ To(w, "idle") /\ Forgets(w)
    /\ registry' = IF w = Worker THEN "absent" ELSE registry
    /\ UNCHANGED <<task, entry, rows, accepted, queued, pushed, history>>

Walks(w) ==
    \/ Cancelled(w) \/ NotCancelled(w) \/ AskForStep(w) \/ Park(w)
    \/ PrepareFails(w) \/ PassOver(w) \/ BeginStep(w)
    \/ StepOver(w) \/ Fallback(w) \/ Deferred(w) \/ StepFailed(w)
    \/ AllOver(w) \/ Review(w) \/ GitActions(w)
    \/ Succeed(w) \/ LeavePaused(w) \/ LeaveCancelled(w) \/ EnqueueDeferred(w)
    \/ CompleteDeferred(w) \/ Fail(w) \/ Denied(w) \/ Leave(w)

Admits == Start \/ AskForTask \/ DenyByRule \/ Refuse \/ DeferBatch \/ Execute

Decides(a) == Deny(a) \/ Approve(a) \/ RefuseApproved(a) \/ ExecuteApproved(a)

Next ==
    \/ Admits
    \/ \E w \in Executors : Walks(w) \/ Crash(w)
    \/ \E a \in Approvers : Read(a) \/ Decides(a)
    \/ Cancel

Spec == Init /\ [][Next]_vars

(* A call goes on, and a runner ends in the end; nobody has to read an     *)
(* approval or to cancel.                                                  *)
Proceeds(w) == Walks(w) \/ (w = Worker /\ Admits) \/ (w \in Approvers /\ Decides(w))

FairSpec == Spec /\ \A w \in Executors : WF_vars(Proceeds(w))

-----------------------------------------------------------------------------
(* Properties.                                                             *)

(* A step that needs approval is never started before that very step was   *)
(* approved, nor any step of a task that needs it, however the run was     *)
(* started and whoever took it up.                                         *)
GatesKept ==
    /\ ran \cap task.gated \subseteq licensed
    /\ task.approval /\ ran # {} => 0 \in licensed

(* "so no run-level gate is weaker than sync `POST /v1/run`"               *)
(* (api_service, above _run_async_task).                                   *)
NoGateIsWeaker == Blocked({"cve", "licence"}) => ran = {}

(* Git actions come after every step ended well or was allowed to fail,    *)
(* the ones before a pause included.                                       *)
GitAfterAll == pushed => settled = Steps

(* The event of the cancel went with the thread of POST /v1/runs: it had   *)
(* returned, because the run waits for a person, or its process died.      *)
Forgotten == accepted /\ registry = "absent"

(* Once a cancel of its run was accepted, an executor begins one step at   *)
(* most, the one whose check it had passed, with one exception: until the  *)
(* cancel is forgotten.                                                    *)
CancelWithinOneStep == ~Forgotten => \A w \in Executors : \A s, t \in late[w] : s = t

(* Without the exception: "The run resolves to RunStatus.CANCELLED at its  *)
(* NEXT step boundary" (api_service, cancel_run).  The code does not keep  *)
(* this: an approver that takes up the run after it was parked finds no    *)
(* event, and runs all the steps that are left.                            *)
CancelIsHeeded == \A w \in Executors : \A s, t \in late[w] : s = t

(* Every decision so far was taken on the row as it was read, and on a run *)
(* that is parked.                                                         *)
Uncrossed == crossed \cap {"decision", "early"} = {}

(* While no decision crosses, "prior steps are never re-executed"          *)
(* (run_approved), whatever is cancelled meanwhile.                        *)
StepsOnce == Uncrossed => again = {}

(* ... and what a run ended with is not overwritten, with one exception: a *)
(* cancellation that run_approved met, which takes it for a failure.       *)
TakenForFailure == run = "cancelled" /\ run' = "failed" /\ "cancel" \in crossed

EndsOnce == [][(run \in Terminal /\ Uncrossed') => (run' = run \/ TakenForFailure)]_vars

(* Without the exception: "the run must resolve to a terminal status       *)
(* exactly once" (api_service, _run_async_task).  The code does not keep   *)
(* this: run_approved has no handler for RunCancelled.                     *)
TerminalOnce == [][(run \in Terminal /\ Uncrossed') => (run' = run)]_vars

(* What people are promised who gate steps or the whole task: every step   *)
(* this module takes is one of GatedWalk, or invisible to it.  A cancel    *)
(* that run_approved met overtakes the walk as a decision does.            *)
GatesOfSteps ==
    [s \in Steps |->
        (IF s \in task.gated THEN {s} ELSE {}) \cup (IF task.approval THEN {0} ELSE {})]

Outcome == IF run \in Terminal THEN run ELSE "open"

Promise == INSTANCE GatedWalk WITH
    N <- M, Endings <- Terminal, Done <- "success", Open <- "open",
    gates <- GatesOfSteps, granted <- licensed, started <- ran, over <- settled,
    outcome <- Outcome, overtaken <- crossed # {}

KeepsPromise == Promise!Spec

(* A run is never left lying: one that has begun has ended, waits for a    *)
(* person, or has an executor at work on it, whatever other decisions      *)
(* cross.  It is lost by a crash, by a decision taken after the run asked  *)
(* and before it is parked, which then parks it for good, and beyond the   *)
(* batch, where its row says `running` for ever.                           *)
AtWork(w) == pc[w] \notin {"idle", "start", "leave", "decide"}

Attended ==
    \/ run = "none" \/ run \in Terminal \/ Pending
    \/ \E w \in Executors : AtWork(w)
    \/ crashes > 0 \/ "early" \in crossed \/ task.batched

(* A run that runs, or was decided, ends or asks for approval.  One beyond *)
(* the batch does not: its row says `running` for good.                    *)
Settles ==
    (run = "running" \/ (approval # NoRow /\ ~Pending))
        ~> \/ run \in Terminal \/ Pending
           \/ crashes > 0 \/ "early" \in crossed \/ task.batched
=============================================================================
