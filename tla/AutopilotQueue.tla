--------------------------- MODULE AutopilotQueue ---------------------------
(***************************************************************************)
(* The autopilot queue of one tenant: objectives that people and pipelines *)
(* propose, the drain that dispatches one of them per tick without a       *)
(* human, and the kill switch (hivepilot/services/autopilot_queue.py).     *)
(*                                                                         *)
(* drain_one runs wherever a schedule entry with source "autopilot" is     *)
(* fired: the scheduler daemon, `schedule run`, the webhook.  Each caller  *)
(* is a drain here, and an action is one query of the database with the    *)
(* local work up to the next, so ticks of different drains interleave with *)
(* each other and with people's commands between any two queries.          *)
(*                                                                         *)
(* Partition tasks share the table.  They are inserted as `running` by     *)
(* their own dispatcher and are left out: no query below selects such a    *)
(* row.                                                                    *)
(***************************************************************************)
EXTENDS Integers, FiniteSetsExt

CONSTANTS
    Items,        \* row ids; a smaller id was created earlier
    Drains,       \* callers of drain_one
    Operators,    \* callers of pause, resume and stop
    NoItem,       \* no row in hand
    Ceiling,      \* budget_daily_usd
    MaxCost,      \* bound: what one run may cost
    Faults,       \* what the environment does in this instance
    MaxEvents     \* bound: crashes, edits of the policy files, and slides of
                  \* the day over which costs are summed, together

ASSUME ItemsAssumption == Items \subseteq Nat /\ NoItem \notin Items
ASSUME BoundsAssumption ==
    /\ Ceiling \in Nat \ {0}
    /\ MaxCost \in Nat
    /\ MaxEvents \in Nat
    /\ Faults \subseteq {"raise", "unpriced", "crash", "edit", "slide"}
ASSUME DrainsAssumption == IsFiniteSet(Drains)

VARIABLES
    state,              \* autopilot_queue.state, "none" where there is no row
    paused, stopped,    \* the row of autopilot_control
    listed,             \* items that policies.yaml lets autopilot dispatch
    merging,            \* items whose pipeline would merge a pull request
    spent,              \* what spent_today_usd returns
    pc, item,           \* drains: control state, row in hand
    policy, before,     \* ... what its policy allows, spent_before
    charge,             \* ... the cost it is about to record
    command, saw,       \* operators: command under way, flags they read
    runs, own, cost,    \* of an item: runs begun, their cost, cost_usd
    overdue,            \* drains that began a run since the switch was thrown
    events              \* crashes, edits and slides so far

control == <<paused, stopped>>
config == <<listed, merging>>
drainVars == <<pc, item, policy, before, charge>>
operatorVars == <<command, saw>>
history == <<runs, own, overdue>>
vars == <<state, control, config, spent, drainVars, operatorVars, cost, history, events>>

States == {"none", "proposed", "queued", "running", "done", "blocked", "vetoed"}

Waiting == {"proposed", "queued"}

NothingSeen == [paused |-> FALSE, stopped |-> FALSE]

TypeOK ==
    /\ state \in [Items -> States]
    /\ paused \in BOOLEAN /\ stopped \in BOOLEAN
    /\ listed \subseteq Items /\ merging \subseteq Items
    /\ spent \in Nat
    /\ pc \in [Drains -> {"idle", "queued", "proposed", "gate", "claim", "run", "bill", "done",
                          "blocked"}]
    /\ item \in [Drains -> Items \cup {NoItem}]
    /\ policy \in [Drains -> BOOLEAN]
    /\ before \in [Drains -> Nat]
    /\ charge \in [Drains -> Nat]
    /\ command \in [Operators -> {"none", "pause", "resume", "stop"}]
    /\ saw \in [Operators -> [paused : BOOLEAN, stopped : BOOLEAN]]
    /\ runs \in [Items -> Nat]
    /\ own \in [Items -> Nat]
    /\ cost \in [Items -> Nat]
    /\ overdue \subseteq Drains
    /\ events \in Nat

Init ==
    /\ state = [i \in Items |-> "none"]
    /\ paused = FALSE /\ stopped = FALSE
    /\ listed \in SUBSET Items /\ merging \in SUBSET Items
    /\ spent = 0
    /\ pc = [d \in Drains |-> "idle"]
    /\ item = [d \in Drains |-> NoItem]
    /\ policy = [d \in Drains |-> FALSE]
    /\ before = [d \in Drains |-> 0]
    /\ charge = [d \in Drains |-> 0]
    /\ command = [o \in Operators |-> "none"]
    /\ saw = [o \in Operators |-> NothingSeen]
    /\ runs = [i \in Items |-> 0]
    /\ own = [i \in Items |-> 0]
    /\ cost = [i \in Items |-> 0]
    /\ overdue = {}
    /\ events = 0

-----------------------------------------------------------------------------
(* The queue, as people and pipelines use it.                              *)

QueueOnly == <<control, config, spent, drainVars, operatorVars, cost, history, events>>

(* The rows of a state that no other row of that state is older than.      *)
Oldest(s) == {i \in Items : state[i] = s /\ \A j \in Items : state[j] = s => i <= j}

SetState(i, s) == state' = [state EXCEPT ![i] = s]

(* enqueue, as its callers call it: the row is `proposed`.                 *)
Enqueue ==
    /\ \E i \in Oldest("none") : SetState(i, "proposed")
    /\ UNCHANGED QueueOnly

Promote(i) ==
    /\ state[i] = "proposed"
    /\ SetState(i, "queued")
    /\ UNCHANGED QueueOnly

(* veto: mark() compares nothing.                                          *)
Veto(i) ==
    /\ state[i] # "none"
    /\ SetState(i, "vetoed")
    /\ UNCHANGED QueueOnly

-----------------------------------------------------------------------------
(* The kill switch.                                                        *)

(* The switch is thrown.                                                   *)
Thrown == paused \/ stopped

(* Slip: only the flag of `pause` is looked at.                            *)
IgnoresStop == paused

IsPaused == paused \/ stopped

ControlOnly == <<state, config, spent, drainVars, runs, own, cost, events>>

(* _set_control reads the row in one transaction ...                       *)
ControlRead(o) ==
    /\ command[o] = "none"
    /\ \E c \in {"pause", "resume", "stop"} : command' = [command EXCEPT ![o] = c]
    /\ saw' = [saw EXCEPT ![o] = [paused |-> paused, stopped |-> stopped]]
    /\ UNCHANGED <<control, overdue, ControlOnly>>

(* ... and writes both flags in another.                                   *)
ControlWrite(o) ==
    /\ command[o] # "none"
    /\ paused' = CASE command[o] = "pause" -> TRUE
                   [] command[o] = "resume" -> FALSE
                   [] OTHER -> saw[o].paused
    /\ stopped' = CASE command[o] = "stop" -> TRUE
                    [] command[o] = "resume" -> FALSE
                    [] OTHER -> saw[o].stopped
    /\ overdue' = IF paused' \/ stopped' THEN overdue ELSE {}
    /\ command' = [command EXCEPT ![o] = "none"]
    /\ saw' = [saw EXCEPT ![o] = NothingSeen]
    /\ UNCHANGED ControlOnly

-----------------------------------------------------------------------------
(* drain_one.                                                              *)

Rest == <<control, config, operatorVars, events>>

Goto(d, label) == pc' = [pc EXCEPT ![d] = label]

(* drain_one returns: its locals are gone.                                 *)
Return(d) ==
    /\ Goto(d, "idle")
    /\ item' = [item EXCEPT ![d] = NoItem]
    /\ policy' = [policy EXCEPT ![d] = FALSE]
    /\ before' = [before EXCEPT ![d] = 0]
    /\ charge' = [charge EXCEPT ![d] = 0]

(* is_paused.  A tick that finds the switch thrown returns.                *)
BeginTick(d) ==
    /\ pc[d] = "idle"
    /\ ~IsPaused
    /\ Goto(d, "queued")
    /\ UNCHANGED <<state, spent, item, policy, before, charge, cost, history, Rest>>

(* The candidate is read, then its project's policy.                       *)
Take(d, i) ==
    /\ item' = [item EXCEPT ![d] = i]
    /\ policy' = [policy EXCEPT ![d] = i \in listed]
    /\ Goto(d, "gate")

(* next_dispatchable: the oldest queued row ...                            *)
PickQueued(d) ==
    /\ pc[d] = "queued"
    /\ \/ \E i \in Oldest("queued") : Take(d, i)
       \/ Oldest("queued") = {} /\ Goto(d, "proposed") /\ UNCHANGED <<item, policy>>
    /\ UNCHANGED <<state, spent, before, charge, cost, history, Rest>>

(* Slip: a row nobody promoted is not a candidate.                         *)
PicksNothing(d) ==
    /\ pc[d] = "proposed"
    /\ Return(d)
    /\ UNCHANGED <<state, spent, cost, history, Rest>>

(* ... else, by a second query, the oldest proposed one.                   *)
PickProposed(d) ==
    /\ pc[d] = "proposed"
    /\ \/ \E i \in Oldest("proposed") : Take(d, i) /\ UNCHANGED <<before, charge>>
       \/ Oldest("proposed") = {} /\ Return(d)
    /\ UNCHANGED <<state, spent, cost, history, Rest>>

(* Slip: a budget spent to the last cent still allows a run.               *)
AllowsAtCeiling(d) == policy[d] /\ spent <= Ceiling /\ item[d] \notin merging

(* autopilot_gate, of the policy read before, the day's spend and the      *)
(* pipeline as pipelines.yaml has it now.                                  *)
Allows(d) == policy[d] /\ spent < Ceiling /\ item[d] \notin merging

(* spent_today_usd and the gate.  A denial, or a spend that cannot be      *)
(* read, leaves the row as it is and ends the tick.                        *)
Gate(d) ==
    /\ pc[d] = "gate"
    /\ \/ /\ Allows(d)
          /\ before' = [before EXCEPT ![d] = spent]
          /\ Goto(d, "claim")
          /\ UNCHANGED <<item, policy, charge>>
       \/ /\ ~Allows(d) \/ "unpriced" \in Faults
          /\ Return(d)
    /\ UNCHANGED <<state, spent, cost, history, Rest>>

(* Slip: the claim does not compare the state it found the row in.         *)
ClaimsAnything(i) == TRUE

CanClaim(i) == state[i] \in Waiting

(* _claim_running: whoever wins it calls run_pipeline ...                  *)
ClaimWon(d) ==
    /\ pc[d] = "claim"
    /\ CanClaim(item[d])
    /\ SetState(item[d], "running")
    /\ runs' = [runs EXCEPT ![item[d]] = @ + 1]
    /\ overdue' = IF Thrown THEN overdue \cup {d} ELSE overdue
    /\ Goto(d, "run")
    /\ UNCHANGED <<spent, item, policy, before, charge, cost, own, Rest>>

(* ... and whoever loses it returns.                                       *)
ClaimLost(d) ==
    /\ pc[d] = "claim"
    /\ ~CanClaim(item[d])
    /\ Return(d)
    /\ UNCHANGED <<state, spent, cost, history, Rest>>

Spend(i, c) ==
    /\ spent' = spent + c
    /\ own' = [own EXCEPT ![i] = @ + c]

(* run_pipeline returns, or raises.                                        *)
RunEnds(d) ==
    /\ pc[d] = "run"
    /\ \E c \in 0..MaxCost : Spend(item[d], c)
    /\ \/ Goto(d, "bill")
       \/ "raise" \in Faults /\ Goto(d, "blocked")
    /\ UNCHANGED <<state, item, policy, before, charge, cost, runs, overdue, Rest>>

(* The day's spend again, for what the run cost: cost_usd is left as it    *)
(* was when that cannot be told.                                           *)
Bill(d) ==
    /\ pc[d] = "bill"
    /\ \/ charge' = [charge EXCEPT ![d] = Max({spent - before[d], 0})]
       \/ "unpriced" \in Faults /\ charge' = [charge EXCEPT ![d] = cost[item[d]]]
    /\ Goto(d, "done")
    /\ UNCHANGED <<state, spent, item, policy, before, cost, history, Rest>>

(* mark(): the row is not compared with `running`.                         *)
MarkDone(d) ==
    /\ pc[d] = "done"
    /\ SetState(item[d], "done")
    /\ cost' = [cost EXCEPT ![item[d]] = charge[d]]
    /\ Return(d)
    /\ UNCHANGED <<spent, history, Rest>>

MarkBlocked(d) ==
    /\ pc[d] = "blocked"
    /\ SetState(item[d], "blocked")
    /\ Return(d)
    /\ UNCHANGED <<spent, cost, history, Rest>>

Event(e) ==
    /\ e \in Faults /\ events < MaxEvents
    /\ events' = events + 1

(* The process dies, with the run it may be in, and is started again.      *)
Crash(d) ==
    /\ Event("crash")
    /\ pc[d] # "idle"
    /\ \/ pc[d] # "run" /\ UNCHANGED <<spent, own>>
       \/ pc[d] = "run" /\ \E c \in 0..MaxCost : Spend(item[d], c)
    /\ Return(d)
    /\ UNCHANGED <<state, control, config, operatorVars, cost, runs, overdue>>

(* Somebody edits policies.yaml or pipelines.yaml.                         *)
Edit ==
    /\ Event("edit")
    /\ \E i \in Items :
         \/ listed' = SymDiff(listed, {i}) /\ UNCHANGED merging
         \/ merging' = SymDiff(merging, {i}) /\ UNCHANGED listed
    /\ UNCHANGED <<state, control, spent, drainVars, operatorVars, cost, history>>

(* A cost grows older than the day that spent_today_usd sums.              *)
Slide ==
    /\ Event("slide")
    /\ spent' \in 0..(spent - 1)
    /\ UNCHANGED <<state, control, config, drainVars, operatorVars, cost, history>>

-----------------------------------------------------------------------------
Tick(d) ==
    \/ BeginTick(d) \/ PickQueued(d) \/ PickProposed(d) \/ Gate(d)
    \/ ClaimWon(d) \/ ClaimLost(d) \/ RunEnds(d) \/ Bill(d) \/ MarkDone(d) \/ MarkBlocked(d)

Next ==
    \/ Enqueue
    \/ \E i \in Items : Promote(i) \/ Veto(i)
    \/ \E o \in Operators : ControlRead(o) \/ ControlWrite(o)
    \/ \E d \in Drains : Tick(d) \/ Crash(d)
    \/ Edit \/ Slide

Spec == Init /\ [][Next]_vars

(* Every drain is called again and again, and its tick comes to an end.    *)
FairSpec == Spec /\ \A d \in Drains : WF_vars(Tick(d))

-----------------------------------------------------------------------------
(* Correctness.                                                            *)

(* An objective is run at most once, whoever drains, vetoes, promotes or   *)
(* crashes meanwhile (_claim_running).                                     *)
DispatchedOnce == \A i \in Items : runs[i] <= 1

(* A row that is running, done, blocked or vetoed is out of the dispatch   *)
(* path for good, and a veto that came first keeps it from running, even   *)
(* if a drain had already picked it (promote, mark, _claim_running).       *)
NeverRedispatched ==
    [][\A i \in Items :
         /\ state[i] \notin Waiting \cup {"none"} => state'[i] \notin Waiting
         /\ state'[i] = "running" => state[i] \in Waiting \cup {"running"}]_vars

(* A drain begins at most one run after the switch was thrown: the one of  *)
(* the tick that had passed is_paused before (pause, stop, drain_one).     *)
Begins(d) == pc[d] = "claim" /\ pc'[d] = "run"

HaltsWithinOneTick == [][\A d \in Drains : Begins(d) /\ Thrown => d \notin overdue]_vars

(* A row that is `running` has a drain that will mark it, but for one row  *)
(* for each crash: nothing else takes a run out of its drain's hand, and   *)
(* nothing brings such a row back (drain_one).                             *)
InHand(i) == \E d \in Drains : item[d] = i /\ pc[d] \in {"run", "bill", "done", "blocked"}

Adrift == {i \in Items : state[i] = "running" /\ ~InHand(i)}

CrashLosesOne == Cardinality(Adrift) <= events

(* The budget is a soft cap: it is exceeded by what the runs admitted      *)
(* before it was reached may cost, one for each drain (autopilot_gate).    *)
SoftCap == spent <= (Ceiling - 1) + Cardinality(Drains) * MaxCost

Permitted(i) == i \in listed /\ i \notin merging

Outstanding(i) == state[i] \in Waiting

(* If the gate allows every objective and autopilot is left running, each  *)
(* objective is dispatched or vetoed.                                      *)
DrainsTheQueue ==
    [](~Thrown /\ spent < Ceiling /\ \A i \in Items : Permitted(i))
        => \A i \in Items : Outstanding(i) ~> ~Outstanding(i)

-----------------------------------------------------------------------------
(* What the documentation or a comment says and the code does not keep     *)
(* (section 5 of the README).                                              *)

(* Nothing is dispatched while autopilot is paused or stopped.             *)
DispatchesNothingWhilePaused == [][\A d \in Drains : Begins(d) => ~Thrown]_vars

(* The cost recorded on a row is what its own run cost (drain_one).        *)
CostIsOwn == \A i \in Items : state[i] = "done" => cost[i] = own[i]

(* An objective the gate allows is dispatched, whatever it decides about   *)
(* the others in the queue.                                                *)
PermittedIsDispatched ==
    [](~Thrown /\ spent < Ceiling)
        => \A i \in Items : Outstanding(i) /\ Permitted(i) ~> ~Outstanding(i)
=============================================================================
