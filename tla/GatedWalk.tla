----------------------------- MODULE GatedWalk ------------------------------
(***************************************************************************)
(* What a person is promised who puts gates into a sequence of positions,  *)
(* be they the stages of a pipeline or the steps of a task, without the    *)
(* calls that walk it, the rows they read or the order in which they meet: *)
(* a position starts when the ones before it are over and what it needs    *)
(* was granted; a grant is of the position the walk stands at; each        *)
(* position starts once; and the walk ends once, well only if every        *)
(* position is over.                                                       *)
(*                                                                         *)
(* "Once" has a condition: when a decision meets a walk that had moved on, *)
(* `overtaken` says so for good, and what depends on the walk being in one *)
(* hand is void.  The gates and the order never are.                       *)
(***************************************************************************)
EXTENDS Integers

CONSTANTS
    N,            \* positions 1..N
    Endings,      \* how a walk may end
    Done,         \* ... well
    Open          \* ... and that it has not ended

VARIABLES
    gates,        \* of a position: what must be granted before it starts
    granted,      \* positions granted so far, and 0 for the walk as a whole
    started, over,
    outcome,
    overtaken

vars == <<gates, granted, started, over, outcome, overtaken>>

Positions == 1..N
Grants == 0..N

Init ==
    /\ gates \in [Positions -> SUBSET Grants]
    /\ granted = {} /\ started = {} /\ over = {}
    /\ outcome = Open
    /\ overtaken = FALSE

Reached(p) == 1..(p - 1) \subseteq over

(* The walk has not ended, and nothing after p has started, or from p on.  *)
NotBeyond(p) == outcome = Open /\ started \subseteq 1..p
StandsAt(p) == outcome = Open /\ started \subseteq 1..(p - 1)

(* A step may find that the walk was overtaken.                            *)
Notes == overtaken => overtaken'

Grant(p) ==
    /\ Notes
    /\ Reached(p)
    /\ overtaken' \/ StandsAt(p)
    /\ granted' = granted \cup {p}
    /\ UNCHANGED <<gates, started, over, outcome>>

(* What a position needs for itself may be granted as it is reached.       *)
Start(p) ==
    /\ Notes
    /\ Reached(p)
    /\ overtaken' \/ StandsAt(p)
    /\ granted' \in {granted, granted \cup {p}}
    /\ gates[p] \subseteq granted'
    /\ started' = started \cup {p}
    /\ UNCHANGED <<gates, over, outcome>>

(* p has ended well, or is passed over.                                    *)
Pass(p) ==
    /\ Notes
    /\ Reached(p)
    /\ overtaken' \/ NotBeyond(p)
    /\ over' = over \cup {p}
    /\ UNCHANGED <<gates, granted, started, outcome>>

End(e) ==
    /\ Notes
    /\ overtaken' \/ outcome = Open
    /\ e = Done => over = Positions
    /\ outcome' = e
    /\ UNCHANGED <<gates, granted, started, over>>

(* The decision that overtakes the walk, or what follows from it: one that *)
(* had ended may be open again.                                            *)
Overtake ==
    /\ overtaken'
    /\ outcome' \in {outcome, Open}
    /\ UNCHANGED <<gates, granted, started, over>>

Next ==
    \/ \E p \in Grants : Grant(p)
    \/ \E p \in Positions : Start(p) \/ Pass(p)
    \/ \E e \in Endings : End(e)
    \/ Overtake

Spec == Init /\ [][Next]_vars
=============================================================================
