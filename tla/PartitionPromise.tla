-------------------------- MODULE PartitionPromise --------------------------
(***************************************************************************)
(* What a partition promises to the human who ratifies it, without its     *)
(* dispatchers, claims or queue rows: one plan is approved and stays; only *)
(* tasks of that plan start, each at most once and only on prerequisites   *)
(* that committed; what has ended stays as it ended.                       *)
(***************************************************************************)
EXTENDS Naturals

CONSTANTS
    Tasks,        \* task ids
    Plans,        \* documents a human may approve
    NULL          \* no document yet

VARIABLES
    approved,     \* the approved document
    stage         \* what has become of each task

vars == <<approved, stage>>

Stages == {"waiting", "live", "committed", "failed", "skipped", "cancelled"}

Init ==
    /\ approved = NULL
    /\ stage = [t \in Tasks |-> "waiting"]

Approve(plan) ==
    /\ approved = NULL
    /\ approved' = plan
    /\ UNCHANGED stage

Start(t) ==
    /\ approved # NULL
    /\ t \in approved.tasks
    /\ stage[t] = "waiting"
    /\ \A dep \in approved.deps[t] : stage[dep] = "committed"
    /\ stage' = [stage EXCEPT ![t] = "live"]
    /\ UNCHANGED approved

End(t, outcome) ==
    /\ stage[t] = "live"
    /\ stage' = [stage EXCEPT ![t] = outcome]
    /\ UNCHANGED approved

Abandon(t, outcome) ==
    /\ approved # NULL
    /\ stage[t] = "waiting"
    /\ stage' = [stage EXCEPT ![t] = outcome]
    /\ UNCHANGED approved

Next ==
    \/ \E plan \in Plans : Approve(plan)
    \/ \E t \in Tasks :
         \/ Start(t)
         \/ \E outcome \in {"committed", "failed"} : End(t, outcome)
         \/ \E outcome \in {"skipped", "cancelled"} : Abandon(t, outcome)

Spec == Init /\ [][Next]_vars
=============================================================================
