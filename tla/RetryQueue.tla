----------------------------- MODULE RetryQueue -----------------------------
(***************************************************************************)
(* The retry queue (hivepilot/services/retry_service.py) and the daemon    *)
(* that drains it (hivepilot/services/scheduler_daemon.py).                *)
(*                                                                         *)
(* A row of kind `backoff` is a scheduled task that raised: it is claimed, *)
(* one per tick.  A row of kind `deferred` (its context is not NULL) was   *)
(* put off for a quota or by the batch limit: all that are due are run, in *)
(* one pass over one SELECT, and none is claimed.  run_task raises only    *)
(* when it cannot start; what its projects do is in the results it         *)
(* returns.  One daemon is what the charts deploy; claim_row is made for   *)
(* more.  An action is one query or one run.                               *)
(***************************************************************************)
EXTENDS Integers, FiniteSets

CONSTANTS
    Rows,         \* row ids, given out in order
    Daemons,
    NoRow,        \* no row in hand
    MaxAttempts,  \* max_attempts
    Faults,       \* what the environment does in this instance
    MaxEvents     \* bound: crashes and quota refusals

ASSUME RowsAssumption == Rows \subseteq Nat /\ NoRow \notin Rows
ASSUME FaultsAssumption ==
    /\ MaxAttempts \in Nat /\ MaxAttempts > 1
    /\ MaxEvents \in Nat
    /\ Faults \subseteq {"raise", "failure", "quota", "crash", "age", "purge"}

VARIABLES
    row,          \* the table: status, kind and attempt of each id
    overdue,      \* rows whose next_retry_at is past
    earlier,      \* <<s, r>> for overdue rows, where that of s is the earlier
    aged,         \* rows whose created_at is older than the TTL
    pc, hand,     \* daemons: control state, row being run
    list, seen,   \* ... rows of its last SELECT, and their attempts in it
    outcome,      \* ... how its run ended
    tries,        \* history: times a row was run from the queue
    result,       \* ... how its last run ended
    events        \* crashes and quota refusals so far

schedule == <<overdue, earlier>>
table == <<row, schedule, aged>>
locals == <<hand, list, seen, outcome>>
history == <<tries, result>>
vars == <<table, pc, locals, history, events>>

Statuses == {"absent", "pending", "running", "done", "dead", "expired", "purged"}
Kinds == {"backoff", "deferred"}
Settled == {"done", "dead", "expired"}

Outcomes == {"none", "succeeded", "failed", "quota", "raised"}

Status(r) == row[r].status
Pending(r) == Status(r) = "pending"

TypeOK ==
    /\ row \in [Rows -> [status : Statuses, kind : Kinds, attempt : Nat]]
    /\ overdue \subseteq Rows
    /\ earlier \subseteq Rows \X Rows
    /\ aged \subseteq Rows
    /\ pc \in [Daemons -> {"idle", "expiring", "deferred", "next", "backoff", "claim", "run", "record"}]
    /\ hand \in [Daemons -> Rows \cup {NoRow}]
    /\ list \in [Daemons -> SUBSET Rows]
    /\ seen \in [Daemons -> [Rows -> Nat]]
    /\ outcome \in [Daemons -> Outcomes]
    /\ tries \in [Rows -> Nat]
    /\ result \in [Rows -> Outcomes]
    /\ events \in Nat

NoAttempts == [r \in Rows |-> 0]

Init ==
    /\ row = [r \in Rows |-> [status |-> "absent", kind |-> "backoff", attempt |-> 0]]
    /\ overdue = {} /\ earlier = {}
    /\ aged = {}
    /\ pc = [d \in Daemons |-> "idle"]
    /\ hand = [d \in Daemons |-> NoRow]
    /\ list = [d \in Daemons |-> {}]
    /\ seen = [d \in Daemons |-> NoAttempts]
    /\ outcome = [d \in Daemons |-> "none"]
    /\ tries = [r \in Rows |-> 0]
    /\ result = [r \in Rows |-> "none"]
    /\ events = 0

-----------------------------------------------------------------------------
(* The table.                                                              *)

Insert(kind, attempt) ==
    /\ \E r \in Rows :
         /\ Status(r) = "absent"
         /\ \A s \in Rows : s < r => Status(s) # "absent"
         /\ row' = [row EXCEPT ![r] = [status |-> "pending", kind |-> kind, attempt |-> attempt]]
    /\ UNCHANGED <<schedule, aged>>

(* run_entry: the task of a schedule raised.                               *)
Enqueue ==
    /\ Insert("backoff", 1)
    /\ UNCHANGED <<pc, locals, history, events>>

(* run_task: a project was refused for its quota, or is beyond the batch.  *)
EnqueueDeferred ==
    /\ Insert("deferred", 0)
    /\ UNCHANGED <<pc, locals, history, events>>

(* UPDATE ... WHERE id=?: it finds no row that was purged.                 *)
Update(r, status, attempt) ==
    row' = IF Status(r) = "purged" THEN row
           ELSE [row EXCEPT ![r].status = status, ![r].attempt = attempt]

(* next_retry_at is moved into the future.                                 *)
Postpone(r) ==
    /\ overdue' = overdue \ {r}
    /\ earlier' = {p \in earlier : r \notin {p[1], p[2]}}

(* next_retry_at passes; the TTL passes.                                   *)
BecomesDue(r) ==
    /\ Pending(r) /\ r \notin overdue
    /\ overdue' = overdue \cup {r}
    /\ earlier' = earlier \cup (overdue \X {r})
    /\ UNCHANGED <<row, aged, pc, locals, history, events>>

Ages(r) ==
    /\ "age" \in Faults
    /\ Status(r) # "absent" /\ r \notin aged
    /\ aged' = aged \cup {r}
    /\ UNCHANGED <<row, schedule, pc, locals, history, events>>

Purge ==
    /\ "purge" \in Faults
    /\ row' = [r \in Rows |-> IF Status(r) = "dead" THEN [row[r] EXCEPT !.status = "purged"]
                              ELSE row[r]]
    /\ UNCHANGED <<schedule, aged, pc, locals, history, events>>

-----------------------------------------------------------------------------
(* The tick of a daemon, from _expire_stale_retries on.                    *)

Goto(d, label) == pc' = [pc EXCEPT ![d] = label]

(* SELECT *: the rows, with their attempts as they are now.                *)
Select(d, S) ==
    /\ list' = [list EXCEPT ![d] = S]
    /\ seen' = [seen EXCEPT ![d] = [r \in Rows |-> IF r \in S THEN row[r].attempt ELSE 0]]

Expirable(r) == Pending(r) /\ r \in aged

(* expire_stale reads the pending rows, in one transaction ...             *)
ExpireRead(d) ==
    /\ pc[d] = "idle"
    /\ Select(d, {r \in Rows : Expirable(r)})
    /\ Goto(d, "expiring")
    /\ UNCHANGED <<table, hand, outcome, history, events>>

(* ... and marks those that are too old, in another.                       *)
ExpireWrite(d) ==
    /\ pc[d] = "expiring"
    /\ row' = [r \in Rows |-> IF r \in list[d] /\ Status(r) # "purged"
                              THEN [row[r] EXCEPT !.status = "expired"] ELSE row[r]]
    /\ Select(d, {})
    /\ Goto(d, "deferred")
    /\ UNCHANGED <<schedule, aged, hand, outcome, history, events>>

(* _process_deferred_rows: one SELECT, then a run of every row in it.      *)
DeferredRead(d) ==
    /\ pc[d] = "deferred"
    /\ Select(d, {r \in Rows : Pending(r) /\ r \in overdue /\ row[r].kind = "deferred"})
    /\ Goto(d, "next")
    /\ UNCHANGED <<table, hand, outcome, history, events>>

Begin(d, r) ==
    /\ hand' = [hand EXCEPT ![d] = r]
    /\ tries' = [tries EXCEPT ![r] = @ + 1]
    /\ Goto(d, "run")

DeferredNext(d) ==
    /\ pc[d] = "next"
    /\ \/ \E r \in list[d] :
            /\ Begin(d, r)
            /\ list' = [list EXCEPT ![d] = @ \ {r}]
       \/ list[d] = {} /\ Goto(d, "backoff") /\ UNCHANGED <<hand, list, tries>>
    /\ UNCHANGED <<table, seen, outcome, result, events>>

(* Slip: the daemon before the incident of the 197 rows, whose only query  *)
(* asked for a context.                                                    *)
DrainableDeferred(r) == Pending(r) /\ r \in overdue /\ row[r].kind = "deferred"

Drainable(r) == Pending(r) /\ r \in overdue /\ row[r].kind = "backoff"

(* due_backoff_rows: the row that has been due for longest.                *)
BackoffRead(d) ==
    /\ pc[d] = "backoff"
    /\ \/ \E r \in Rows :
            /\ Drainable(r)
            /\ \A s \in Rows : Drainable(s) => <<s, r>> \notin earlier
            /\ hand' = [hand EXCEPT ![d] = r]
            /\ Select(d, {r})
            /\ Goto(d, "claim")
       \/ /\ \A r \in Rows : ~Drainable(r)
          /\ Goto(d, "idle")
          /\ Select(d, {})
          /\ UNCHANGED hand
    /\ UNCHANGED <<table, outcome, history, events>>

(* Slip: the row is taken for pending, as it was when it was read.         *)
ClaimsUnchecked(r) == Status(r) # "purged"

CanClaim(r) == Pending(r)

(* claim_row.                                                              *)
Claim(d) ==
    /\ pc[d] = "claim"
    /\ LET r == hand[d]
       IN  IF CanClaim(r)
           THEN /\ row' = [row EXCEPT ![r].status = "running"]
                /\ Begin(d, r)
                /\ UNCHANGED <<list, seen>>
           ELSE /\ Goto(d, "idle")
                /\ hand' = [hand EXCEPT ![d] = NoRow]
                /\ Select(d, {})
                /\ UNCHANGED <<row, tries>>
    /\ UNCHANGED <<schedule, aged, outcome, result, events>>

Event ==
    /\ events < MaxEvents
    /\ events' = events + 1

Ends(d, o) ==
    /\ outcome' = [outcome EXCEPT ![d] = o]
    /\ result' = [result EXCEPT ![hand[d]] = o]
    /\ Goto(d, "record")
    /\ UNCHANGED <<table, hand, list, seen, tries>>

(* run_task returns, with results that all succeeded or do not ...         *)
RunReturns(d) ==
    /\ pc[d] = "run"
    /\ Ends(d, "succeeded") \/ ("failure" \in Faults /\ Ends(d, "failed"))
    /\ UNCHANGED events

(* ... or raises, in the words of a quota or not.                          *)
RunRaises(d) ==
    /\ pc[d] = "run"
    /\ \/ "raise" \in Faults /\ Ends(d, "raised") /\ UNCHANGED events
       \/ "quota" \in Faults /\ Ends(d, "quota") /\ Event

NewAttempt(d) == seen[d][hand[d]] + 1

(* Slip: the attempt yet to be made is counted as well.                    *)
ExhaustedEarly(d) == NewAttempt(d) + 1 >= MaxAttempts

Exhausted(d) == NewAttempt(d) >= MaxAttempts

(* Back to what follows the run: the next row of the list, or the end of   *)
(* the tick.                                                               *)
Recorded(d) ==
    /\ hand' = [hand EXCEPT ![d] = NoRow]
    /\ outcome' = [outcome EXCEPT ![d] = "none"]
    /\ IF row[hand[d]].kind = "deferred"
       THEN Goto(d, "next") /\ UNCHANGED <<list, seen>>
       ELSE Goto(d, "idle") /\ Select(d, {})

(* mark_done, for whatever was returned.                                   *)
RecordDone(d) ==
    /\ pc[d] = "record" /\ outcome[d] \in {"succeeded", "failed"}
    /\ Update(hand[d], "done", row[hand[d]].attempt)
    /\ Recorded(d)
    /\ UNCHANGED <<schedule, aged, history, events>>

(* A quota puts the row off by half an hour, whatever its attempts.        *)
RecordQuota(d) ==
    /\ pc[d] = "record" /\ outcome[d] = "quota"
    /\ Update(hand[d], "pending", NewAttempt(d))
    /\ Postpone(hand[d])
    /\ Recorded(d)
    /\ UNCHANGED <<aged, history, events>>

(* mark_dead, or mark_retry after a longer delay; a deferred row keeps its *)
(* next_retry_at, which is past.                                           *)
RecordFailure(d) ==
    /\ pc[d] = "record" /\ outcome[d] = "raised"
    /\ IF Exhausted(d)
       THEN Update(hand[d], "dead", NewAttempt(d)) /\ UNCHANGED schedule
       ELSE /\ Update(hand[d], "pending", NewAttempt(d))
            /\ IF row[hand[d]].kind = "deferred" THEN UNCHANGED schedule ELSE Postpone(hand[d])
    /\ Recorded(d)
    /\ UNCHANGED <<aged, history, events>>

(* The daemon dies and is started again.                                   *)
Crash(d) ==
    /\ "crash" \in Faults /\ Event
    /\ pc[d] # "idle"
    /\ Goto(d, "idle")
    /\ hand' = [hand EXCEPT ![d] = NoRow]
    /\ outcome' = [outcome EXCEPT ![d] = "none"]
    /\ Select(d, {})
    /\ UNCHANGED <<table, history>>

-----------------------------------------------------------------------------
Tick(d) ==
    \/ ExpireRead(d) \/ ExpireWrite(d)
    \/ DeferredRead(d) \/ DeferredNext(d)
    \/ BackoffRead(d) \/ Claim(d)
    \/ RunReturns(d) \/ RunRaises(d)
    \/ RecordDone(d) \/ RecordQuota(d) \/ RecordFailure(d)

Next ==
    \/ Enqueue \/ EnqueueDeferred \/ Purge
    \/ \E r \in Rows : BecomesDue(r) \/ Ages(r)
    \/ \E d \in Daemons : Tick(d) \/ Crash(d)

Spec == Init /\ [][Next]_vars

(* Time passes, and the daemon ticks for as long as it is up.              *)
FairSpec ==
    /\ Spec
    /\ \A r \in Rows : WF_vars(BecomesDue(r))
    /\ \A d \in Daemons : WF_vars(Tick(d))

-----------------------------------------------------------------------------
(* Correctness.                                                            *)

Runs(d, r) == pc[d] \in {"run", "record"} /\ hand[d] = r

(* A backoff row is run by one daemon at a time (claim_row).               *)
OneAtATime ==
    \A r \in Rows, c, d \in Daemons :
        row[r].kind = "backoff" /\ Runs(c, r) /\ Runs(d, r) => c = d

(* The attempt of a backoff row that waits or is dead tells how often its  *)
(* task was run: once by the schedule, and each time from the queue.       *)
AttemptsCounted ==
    \A r \in Rows :
        row[r].kind = "backoff" /\ Status(r) \in {"pending", "dead"}
            => row[r].attempt = tries[r] + 1

(* A row is dead only when its attempts are used up, each of them by a run *)
(* of its task, the last of which raised (max_attempts, mark_dead).        *)
DeadIsExhausted ==
    \A r \in Rows :
        Status(r) = "dead" =>
            /\ row[r].attempt >= MaxAttempts
            /\ tries[r] >= row[r].attempt - (IF row[r].kind = "backoff" THEN 1 ELSE 0)
            /\ result[r] = "raised"

(* A row that was claimed has a daemon that runs it and will record how,   *)
(* but for one row for each crash: nothing takes up a row that a dead      *)
(* daemon left `running` (claim_row, due_backoff_rows).                    *)
Adrift == {r \in Rows : Status(r) = "running" /\ \A d \in Daemons : ~Runs(d, r)}

CrashLosesOne == Cardinality(Adrift) <= events

(* A row that is done, dead or expired is never revisited.                 *)
SettledForGood ==
    [][\A r \in Rows : Status(r) \in Settled => Status(r)' \in {Status(r), "purged"}]_vars

(* Every row that is put in the queue is settled.                          *)
Drained == \A r \in Rows : Pending(r) ~> Status(r) \in Settled

-----------------------------------------------------------------------------
(* What the documentation or a comment says and the code does not keep     *)
(* (section 5 of the README).                                              *)

(* `expired` is for rows that were never re-dispatched.                    *)
ExpiredNeverRan == \A r \in Rows : Status(r) = "expired" => tries[r] = 0

(* The status of a row reflects the outcome of its run.                    *)
DoneSucceeded == \A r \in Rows : Status(r) = "done" => result[r] = "succeeded"

(* expire_stale only ever touches pending rows.                            *)
ExpiresPending ==
    [][\A r \in Rows : Status(r)' = "expired" => Status(r) \in {"pending", "expired"}]_vars
=============================================================================
