------------------------ MODULE AutopilotQueueProofs ------------------------
(***************************************************************************)
(* What AutopilotQueue guarantees, for any number of rows, drains and      *)
(* operators, any ceiling, and any crashes, edits and slides.              *)
(*                                                                         *)
(* None of the properties is inductive.  A claim is safe because a row     *)
(* that may still be claimed has never run (RunInv); a drain begins no     *)
(* second run under a thrown switch because, having begun one, it is past  *)
(* the claim and cannot begin a tick (HaltInv); and the day's spend stays  *)
(* under the cap because every run that is admitted and has not been paid  *)
(* for yet is counted at its highest price (CapInv).  One crash takes one  *)
(* row out of its drain's hand (AdriftInv); and a lone drain finds the     *)
(* day's spend as its run left it (CostInv).                               *)
(***************************************************************************)
EXTENDS AutopilotQueue, FiniteSetTheorems, TLAPS

USE DEF vars, control, config, drainVars, operatorVars, history, Rest, QueueOnly, ControlOnly

(* A drain at one of these has a row in hand.                              *)
Busy == {"gate", "claim", "run", "bill", "done", "blocked"}

HandInv == \A d \in Drains : pc[d] \in Busy => item[d] \in Items

RunInv ==
    \A i \in Items :
        /\ runs[i] <= 1
        /\ state[i] \in Waiting \cup {"none"} => runs[i] = 0

HaltInv ==
    \A d \in overdue : Thrown /\ pc[d] \in {"idle", "run", "bill", "done", "blocked"}

(* Drains whose run the gate has admitted and whose cost is still to come. *)
Admitted == {d \in Drains : pc[d] \in {"claim", "run"}}

CapInv == spent + MaxCost * Cardinality(Admitted) <= (Ceiling - 1) + Cardinality(Drains) * MaxCost

IInv == TypeOK /\ HandInv /\ RunInv /\ HaltInv /\ CapInv

-----------------------------------------------------------------------------
(* Arithmetic of the cap.                                                  *)

LEMMA Bounds == Ceiling \in Nat /\ Ceiling > 0 /\ MaxCost \in Nat /\ MaxEvents \in Nat
BY BoundsAssumption

LEMMA MaxIsNat == ASSUME NEW n \in Int PROVE Max({n, 0}) \in Nat
<1> DEFINE m == IF n >= 0 THEN n ELSE 0
<1>1. m \in {n, 0} /\ \A y \in {n, 0} : m >= y
  OBVIOUS
<1>2. Max({n, 0}) \in {n, 0} /\ \A y \in {n, 0} : Max({n, 0}) >= y
  <2> HIDE DEF m
  <2> QED
    BY <1>1 DEF Max
<1> QED
  BY <1>2

(* A set of drains is finite, and no larger than Drains.                   *)
LEMMA DrainSets ==
    ASSUME NEW S \in SUBSET Drains
    PROVE  /\ IsFiniteSet(S)
           /\ Cardinality(S) \in Nat /\ Cardinality(Drains) \in Nat
           /\ Cardinality(S) <= Cardinality(Drains)
BY DrainsAssumption, FS_Subset, FS_CardinalityType

(* Multiplication by a natural number is monotonic.                        *)
LEMMA Scale ==
    ASSUME NEW a \in Nat, NEW b \in Nat, NEW m \in Nat, a <= b
    PROVE  m * a \in Nat /\ m * b \in Nat /\ b * m = m * b /\ m * a <= m * b
<1>1. b = a + (b - a) /\ b - a \in Nat
  OBVIOUS
<1>2. m * b = m * a + m * (b - a) /\ m * (b - a) \in Nat
  BY <1>1
<1> QED
  BY <1>1, <1>2

(* A step that admits nobody and pays for nothing keeps the cap; so does   *)
(* one after which fewer are admitted and no more is spent.                *)
LEMMA CapKept ==
    ASSUME TypeOK, CapInv, TypeOK', Admitted' \subseteq Admitted, spent' <= spent
    PROVE  CapInv'
<1> DEFINE a == Cardinality(Admitted)  b == Cardinality(Admitted')
<1>1. Admitted \in SUBSET Drains /\ Admitted' \in SUBSET Admitted
  BY DEF Admitted
<1>2. IsFiniteSet(Admitted) /\ a \in Nat /\ Cardinality(Drains) \in Nat
  BY <1>1, DrainSets
<1>3. b \in Nat /\ b <= a
  BY <1>1, <1>2, FS_Subset, FS_CardinalityType
<1>4. spent \in Nat /\ spent' \in Nat
  BY DEF TypeOK
<1>5. MaxCost * b <= MaxCost * a /\ MaxCost * a \in Nat /\ MaxCost * b \in Nat
  BY <1>2, <1>3, Bounds, Scale
<1>6. Cardinality(Drains) * MaxCost \in Nat
  BY <1>2, Bounds, Scale
<1> QED
  BY <1>4, <1>5, <1>6, Bounds DEF CapInv

(* The gate admits a drain when less than the ceiling is spent: whatever   *)
(* the others still have to pay, the cap was made for all of them.         *)
LEMMA CapAtGate ==
    ASSUME TypeOK, TypeOK', spent < Ceiling, spent' = spent
    PROVE  CapInv'
<1> DEFINE b == Cardinality(Admitted')
<1>1. b \in Nat /\ Cardinality(Drains) \in Nat /\ b <= Cardinality(Drains)
  <2>1. Admitted' \in SUBSET Drains
    BY DEF Admitted
  <2> QED
    BY <2>1, DrainSets
<1>2. /\ MaxCost * b \in Nat /\ Cardinality(Drains) * MaxCost \in Nat
      /\ MaxCost * b <= Cardinality(Drains) * MaxCost
  BY <1>1, Bounds, Scale
<1>3. spent \in Nat
  BY DEF TypeOK
<1> QED
  BY <1>2, <1>3, Bounds DEF CapInv

(* A run that ends costs at most what it was counted for.                  *)
LEMMA CapAtEnd ==
    ASSUME TypeOK, TypeOK', CapInv, NEW d \in Admitted, Admitted' = Admitted \ {d},
           NEW c \in 0..MaxCost, spent' = spent + c
    PROVE  CapInv'
<1> DEFINE a == Cardinality(Admitted)  b == Cardinality(Admitted')
<1>1. Admitted \in SUBSET Drains
  BY DEF Admitted
<1>2. IsFiniteSet(Admitted) /\ a \in Nat /\ Cardinality(Drains) \in Nat
  BY <1>1, DrainSets
<1>3. b = a - 1
  BY <1>2, FS_RemoveElement
<1>4. b \in Nat
  <2>1. Admitted' \in SUBSET Drains
    BY DEF Admitted
  <2> QED
    BY <2>1, DrainSets
<1>5. MaxCost * a = MaxCost * b + MaxCost
  BY <1>2, <1>3, <1>4, Bounds
<1>6. spent \in Nat /\ MaxCost * b \in Nat /\ Cardinality(Drains) * MaxCost \in Nat
  BY <1>2, <1>4, Bounds, Scale DEF TypeOK
<1> QED
  BY <1>5, <1>6, Bounds DEF CapInv

-----------------------------------------------------------------------------
(* The steps.                                                              *)

(* IInv but for the cap, which has lemmas of its own.                      *)
Core == TypeOK /\ HandInv /\ RunInv /\ HaltInv

LEMMA InitIInv == Init => IInv
<1> SUFFICES ASSUME Init PROVE IInv
  OBVIOUS
<1>1. Core
  <2>1. TypeOK
    BY DEF Init, TypeOK, States, NothingSeen
  <2>2. HandInv /\ RunInv
    BY DEF Init, HandInv, RunInv, Busy
  <2>3. HaltInv
    BY DEF Init, HaltInv
  <2> QED
    BY <2>1, <2>2, <2>3 DEF Core
<1>2. Admitted = {}
  BY DEF Init, Admitted
<1>3. Cardinality(Admitted) = 0 /\ Cardinality(Drains) \in Nat
  BY <1>2, FS_EmptySet, DrainsAssumption, FS_CardinalityType
<1>4. Cardinality(Drains) * MaxCost \in Nat /\ MaxCost * 0 = 0
  BY <1>3, Bounds, Scale
<1>5. spent = 0
  BY DEF Init
<1>6. CapInv
  BY <1>3, <1>4, <1>5, Bounds DEF CapInv
<1> QED
  BY <1>1, <1>6 DEF IInv, Core

(* enqueue, promote, veto: no drain moves, and a row becomes waiting only  *)
(* from `none` or `proposed`.                                              *)
LEMMA QueueSteps ==
    ASSUME IInv, Enqueue \/ \E i \in Items : Promote(i) \/ Veto(i)
    PROVE  IInv'
<1>1. PICK i \in Items, s \in States :
        /\ SetState(i, s)
        /\ s \in Waiting => state[i] \in Waiting \cup {"none"}
        /\ s # "none"
        /\ UNCHANGED QueueOnly
  BY DEF Enqueue, Promote, Veto, Oldest, Waiting, States
<1>2. TypeOK'
  BY <1>1 DEF IInv, TypeOK, SetState
<1>3. HandInv' /\ HaltInv'
  BY <1>1 DEF IInv, HandInv, HaltInv, Thrown
<1>4. RunInv'
  BY <1>1 DEF IInv, TypeOK, RunInv, SetState
<1>5. CapInv'
  <2>1. Admitted' = Admitted /\ spent' = spent /\ spent \in Nat
    BY <1>1 DEF Admitted, IInv, TypeOK
  <2> QED
    BY <1>2, <2>1, CapKept DEF IInv
<1> QED
  BY <1>2, <1>3, <1>4, <1>5 DEF IInv

(* pause, resume, stop: `overdue` is emptied when the switch is released.  *)
LEMMA ControlSteps ==
    ASSUME IInv, NEW o \in Operators, ControlRead(o) \/ ControlWrite(o)
    PROVE  IInv'
<1>1. UNCHANGED <<state, config, spent, drainVars, runs, own, cost, events>>
  BY DEF ControlRead, ControlWrite
<1>2. TypeOK'
  <2>1. CASE ControlRead(o)
    BY <2>1 DEF IInv, TypeOK, ControlRead
  <2>2. CASE ControlWrite(o)
    BY <2>2 DEF IInv, TypeOK, ControlWrite, NothingSeen
  <2> QED
    BY <2>1, <2>2
<1>3. HandInv' /\ RunInv'
  BY <1>1 DEF IInv, HandInv, RunInv
<1>4. HaltInv'
  <2>1. CASE ControlRead(o)
    BY <2>1 DEF IInv, HaltInv, Thrown, ControlRead
  <2>2. CASE ControlWrite(o)
    <3>1. overdue' = IF paused' \/ stopped' THEN overdue ELSE {}
      BY <2>2 DEF ControlWrite
    <3>2. CASE paused' \/ stopped'
      BY <1>1, <3>1, <3>2 DEF IInv, HaltInv, Thrown
    <3>3. CASE ~(paused' \/ stopped')
      BY <3>1, <3>3 DEF HaltInv
    <3> QED
      BY <3>2, <3>3
  <2> QED
    BY <2>1, <2>2
<1>5. CapInv'
  <2>1. Admitted' = Admitted /\ spent' = spent /\ spent \in Nat
    BY <1>1 DEF Admitted, IInv, TypeOK
  <2> QED
    BY <1>2, <2>1, CapKept DEF IInv
<1> QED
  BY <1>2, <1>3, <1>4, <1>5 DEF IInv

(* What a tick does between is_paused and the end, the gate, the won claim *)
(* and the end of the run apart: nobody is admitted, nothing is spent.     *)
Walk(d) ==
    \/ BeginTick(d) \/ PickQueued(d) \/ PickProposed(d) \/ ClaimLost(d)
    \/ Bill(d) \/ MarkDone(d) \/ MarkBlocked(d)

(* A row in hand, and a return, are of the right types.                    *)
LEMMA TakeTypes ==
    ASSUME TypeOK, NEW d \in Drains, NEW i \in Items, Take(d, i)
    PROVE  /\ item' \in [Drains -> Items \cup {NoItem}]
           /\ policy' \in [Drains -> BOOLEAN]
           /\ pc' = [pc EXCEPT ![d] = "gate"]
<1>1. (i \in listed) \in BOOLEAN
  OBVIOUS
<1>2. policy' = [policy EXCEPT ![d] = (i \in listed)] /\ policy \in [Drains -> BOOLEAN]
  BY DEF Take, TypeOK
<1>3. policy' \in [Drains -> BOOLEAN]
  BY <1>1, <1>2, Zenon
<1> QED
  BY <1>3 DEF Take, TypeOK, Goto

LEMMA ReturnTypes ==
    ASSUME TypeOK, NEW d \in Drains, Return(d)
    PROVE  /\ item' \in [Drains -> Items \cup {NoItem}]
           /\ policy' \in [Drains -> BOOLEAN]
           /\ before' \in [Drains -> Nat]
           /\ charge' \in [Drains -> Nat]
           /\ pc' = [pc EXCEPT ![d] = "idle"]
BY DEF TypeOK, Return, Goto

LEMMA WalkSteps ==
    ASSUME IInv, NEW d \in Drains, Walk(d)
    PROVE  IInv'
<1> USE DEF IInv
<1>1. TypeOK'
  <2>1. CASE BeginTick(d)
    BY <2>1 DEF TypeOK, BeginTick, Goto
  <2>2. CASE PickQueued(d)
    <3>1. CASE \E i \in Oldest("queued") : Take(d, i)
      <4>1. PICK i \in Items : Take(d, i)
        BY <3>1 DEF Oldest
      <4> QED
        BY <2>2, <4>1, TakeTypes DEF TypeOK, PickQueued
    <3>2. CASE Goto(d, "proposed") /\ UNCHANGED <<item, policy>>
      BY <2>2, <3>2 DEF TypeOK, PickQueued, Goto
    <3> QED
      BY <2>2, <3>1, <3>2 DEF PickQueued
  <2>3. CASE PickProposed(d)
    <3>1. CASE \E i \in Oldest("proposed") : Take(d, i) /\ UNCHANGED <<before, charge>>
      <4>1. PICK i \in Items : Take(d, i) /\ UNCHANGED <<before, charge>>
        BY <3>1 DEF Oldest
      <4> QED
        BY <2>3, <4>1, TakeTypes DEF TypeOK, PickProposed
    <3>2. CASE Return(d)
      BY <2>3, <3>2, ReturnTypes DEF TypeOK, PickProposed
    <3> QED
      BY <2>3, <3>1, <3>2 DEF PickProposed
  <2>4. CASE ClaimLost(d)
    BY <2>4 DEF TypeOK, ClaimLost, Return, Goto
  <2>5. CASE Bill(d)
    <3>1. item[d] \in Items
      BY <2>5 DEF HandInv, Busy, Bill
    <3>2. spent - before[d] \in Int /\ cost[item[d]] \in Nat
      BY <3>1 DEF TypeOK
    <3>3. Max({spent - before[d], 0}) \in Nat
      BY <3>2, MaxIsNat
    <3> QED
      BY <2>5, <3>2, <3>3 DEF TypeOK, Bill, Goto
  <2>6. CASE MarkDone(d)
    BY <2>6 DEF TypeOK, MarkDone, SetState, Return, Goto, States
  <2>7. CASE MarkBlocked(d)
    BY <2>7 DEF TypeOK, MarkBlocked, SetState, Return, Goto, States
  <2> QED
    BY <2>1, <2>2, <2>3, <2>4, <2>5, <2>6, <2>7 DEF Walk
<1>2. /\ \A e \in Drains : e # d => pc'[e] = pc[e] /\ item'[e] = item[e]
      /\ pc'[d] \notin {"claim", "run"}
      /\ pc'[d] \in Busy => item'[d] \in Items
  BY DEF TypeOK, HandInv, Busy, Walk, BeginTick, PickQueued, PickProposed, ClaimLost, Bill,
         MarkDone, MarkBlocked, Take, Oldest, Return, Goto
<1>3. UNCHANGED <<paused, stopped, spent, runs, overdue>>
  BY DEF Walk, BeginTick, PickQueued, PickProposed, ClaimLost, Bill, MarkDone, MarkBlocked
<1>4. HandInv'
  BY <1>2 DEF HandInv
<1>5. RunInv'
  <2>1. \A i \in Items : state'[i] \in {state[i], "done", "blocked"}
    BY DEF TypeOK, Walk, BeginTick, PickQueued, PickProposed, ClaimLost, Bill, MarkDone,
           MarkBlocked, SetState
  <2> QED
    BY <1>3, <2>1 DEF RunInv, Waiting
<1>6. HaltInv'
  <2>1. Thrown' = Thrown
    BY <1>3 DEF Thrown
  <2>2. d \in overdue => pc'[d] \in {"idle", "run", "bill", "done", "blocked"}
    BY DEF HaltInv, TypeOK, IsPaused, Thrown, Walk, BeginTick, PickQueued, PickProposed,
           ClaimLost, Bill, MarkDone, MarkBlocked, Return, Goto
  <2>3. \A e \in overdue : e \in Drains
    BY DEF TypeOK
  <2> QED
    BY <1>2, <1>3, <2>1, <2>2, <2>3 DEF HaltInv
<1>7. CapInv'
  <2>1. Admitted' \subseteq Admitted
    BY <1>2 DEF Admitted
  <2>2. spent' <= spent
    BY <1>3 DEF TypeOK
  <2> QED
    BY <1>1, <2>1, <2>2, CapKept
<1> QED
  BY <1>1, <1>4, <1>5, <1>6, <1>7

(* The gate reads the spend it compares with the ceiling.                  *)
LEMMA GateStep ==
    ASSUME IInv, NEW d \in Drains, Gate(d)
    PROVE  IInv'
<1> USE DEF IInv, Gate
<1>1. TypeOK'
  <2>1. CASE Return(d)
    BY <2>1, ReturnTypes DEF TypeOK
  <2>2. CASE Goto(d, "claim") /\ before' = [before EXCEPT ![d] = spent]
             /\ UNCHANGED <<item, policy, charge>>
    BY <2>2 DEF TypeOK, Goto
  <2> QED
    BY <2>1, <2>2
<1>2. HandInv'
  BY DEF TypeOK, HandInv, Busy, Return, Goto
<1>3. RunInv'
  BY DEF RunInv
<1>4. d \notin overdue
  BY DEF HaltInv
<1>5. HaltInv'
  <2>1. Thrown' = Thrown
    BY DEF Thrown
  <2>2. \A e \in overdue : pc'[e] = pc[e]
    BY <1>4 DEF TypeOK, Return, Goto
  <2> QED
    BY <2>1, <2>2 DEF HaltInv
<1>6. CapInv'
  <2>1. CASE Allows(d)
    BY <1>1, <2>1, CapAtGate DEF Allows
  <2>2. CASE ~Allows(d) \/ pc'[d] = "idle"
    <3>1. Admitted' \subseteq Admitted
      BY <2>2 DEF TypeOK, Admitted, Return, Goto
    <3>2. spent' <= spent
      BY DEF TypeOK
    <3> QED
      BY <1>1, <3>1, <3>2, CapKept
  <2> QED
    BY <2>1, <2>2
<1> QED
  BY <1>1, <1>2, <1>3, <1>5, <1>6

(* _claim_running: the row was waiting, so it has never run.               *)
LEMMA ClaimStep ==
    ASSUME IInv, NEW d \in Drains, ClaimWon(d)
    PROVE  IInv'
<1> USE DEF IInv, ClaimWon
<1>1. item[d] \in Items /\ state[item[d]] \in Waiting
  BY DEF HandInv, Busy, CanClaim
<1>2. TypeOK'
  BY <1>1 DEF TypeOK, SetState, Goto, States
<1>3. HandInv'
  BY <1>1 DEF TypeOK, HandInv, Goto
<1>4. RunInv'
  BY <1>1 DEF TypeOK, RunInv, SetState, Waiting
<1>5. HaltInv'
  <2>1. Thrown' = Thrown
    BY DEF Thrown
  <2>2. \A e \in Drains \ {d} : pc'[e] = pc[e]
    BY DEF TypeOK, Goto
  <2>3. pc'[d] = "run"
    BY DEF TypeOK, Goto
  <2>4. overdue \subseteq Drains
    BY DEF TypeOK
  <2>5. CASE Thrown
    BY <2>1, <2>2, <2>3, <2>4, <2>5 DEF HaltInv
  <2>6. CASE ~Thrown
    BY <2>6 DEF HaltInv
  <2> QED
    BY <2>5, <2>6
<1>6. CapInv'
  <2>1. Admitted' = Admitted
    BY DEF TypeOK, Admitted, Goto
  <2>2. spent' <= spent
    BY DEF TypeOK
  <2> QED
    BY <1>2, <2>1, <2>2, CapKept
<1> QED
  BY <1>2, <1>3, <1>4, <1>5, <1>6

(* run_pipeline ends and is paid for, or its process dies.                 *)
LEMMA EndStep ==
    ASSUME IInv, NEW d \in Drains, RunEnds(d) \/ Crash(d)
    PROVE  IInv'
<1> USE DEF IInv
<1>1. UNCHANGED <<state, control, config, operatorVars, cost, runs, overdue>>
  BY DEF RunEnds, Crash
<1>2. TypeOK'
  <2>1. CASE RunEnds(d)
    <3>1. item[d] \in Items
      BY <2>1 DEF RunEnds, HandInv, Busy
    <3>2. PICK c \in 0..MaxCost : Spend(item[d], c)
      BY <2>1 DEF RunEnds
    <3>3. spent' \in Nat /\ own' \in [Items -> Nat]
      BY <3>1, <3>2, Bounds DEF TypeOK, Spend
    <3> QED
      BY <2>1, <3>3 DEF TypeOK, RunEnds, Goto
  <2>2. CASE Crash(d)
    <3>1. spent' \in Nat /\ own' \in [Items -> Nat]
      <4>1. CASE UNCHANGED <<spent, own>>
        BY <4>1 DEF TypeOK
      <4>2. CASE pc[d] = "run" /\ \E c \in 0..MaxCost : Spend(item[d], c)
        <5>1. item[d] \in Items
          BY <4>2 DEF HandInv, Busy
        <5>2. PICK c \in 0..MaxCost : Spend(item[d], c)
          BY <4>2
        <5> QED
          BY <5>1, <5>2, Bounds DEF TypeOK, Spend
      <4> QED
        BY <2>2, <4>1, <4>2 DEF Crash
    <3>2. events' \in Nat
      BY <2>2 DEF Crash, Event, TypeOK
    <3> QED
      BY <1>1, <2>2, <3>1, <3>2, ReturnTypes DEF TypeOK, Crash
  <2> QED
    BY <2>1, <2>2
<1>3. /\ \A e \in Drains : e # d => pc'[e] = pc[e] /\ item'[e] = item[e]
      /\ pc'[d] \in {"idle", "bill", "blocked"}
      /\ pc'[d] # "idle" => item'[d] = item[d] /\ pc[d] = "run"
  BY DEF TypeOK, RunEnds, Crash, Return, Goto
<1>4. HandInv'
  BY <1>3 DEF HandInv, Busy
<1>5. RunInv'
  BY <1>1 DEF RunInv
<1>6. HaltInv'
  <2>1. Thrown' = Thrown
    BY <1>1 DEF Thrown
  <2> QED
    BY <1>1, <1>3, <2>1 DEF HaltInv, TypeOK
<1>7. CapInv'
  <2>1. CASE UNCHANGED spent
    <3>1. Admitted' \subseteq Admitted
      BY <1>3 DEF Admitted
    <3>2. spent' <= spent
      BY <2>1 DEF TypeOK
    <3> QED
      BY <1>2, <3>1, <3>2, CapKept
  <2>2. CASE pc[d] = "run" /\ \E c \in 0..MaxCost : Spend(item[d], c)
    <3>1. PICK c \in 0..MaxCost : spent' = spent + c
      BY <2>2 DEF Spend
    <3>2. d \in Admitted /\ Admitted' = Admitted \ {d}
      BY <1>3, <2>2 DEF Admitted
    <3> QED
      BY <1>2, <3>1, <3>2, CapAtEnd
  <2> QED
    BY <2>1, <2>2 DEF RunEnds, Crash
<1> QED
  BY <1>2, <1>4, <1>5, <1>6, <1>7

(* An edit of the configuration, and the sliding of the day.               *)
LEMMA WorldSteps ==
    ASSUME IInv, Edit \/ Slide
    PROVE  IInv'
<1> USE DEF IInv
<1>1. UNCHANGED <<state, control, drainVars, operatorVars, cost, history>>
  BY DEF Edit, Slide
<1>2. spent' \in Nat /\ spent' <= spent
  BY DEF Edit, Slide, TypeOK
<1>3. TypeOK'
  <2>1. listed' \subseteq Items /\ merging' \subseteq Items /\ events' \in Nat
    BY DEF Edit, Slide, TypeOK, Event, SymDiff
  <2> QED
    BY <1>1, <1>2, <2>1 DEF TypeOK
<1>4. HandInv' /\ RunInv' /\ HaltInv'
  BY <1>1 DEF HandInv, RunInv, HaltInv, Thrown
<1>5. CapInv'
  <2>1. Admitted' \subseteq Admitted
    BY <1>1 DEF Admitted
  <2> QED
    BY <1>2, <1>3, <2>1, CapKept
<1> QED
  BY <1>3, <1>4, <1>5

LEMMA StutterStep == ASSUME IInv, UNCHANGED vars PROVE IInv'
BY DEF IInv, TypeOK, HandInv, RunInv, HaltInv, Thrown, CapInv, Admitted

THEOREM NextIInv == IInv /\ [Next]_vars => IInv'
<1> SUFFICES ASSUME IInv, [Next]_vars PROVE IInv'
  OBVIOUS
<1>1. CASE Enqueue \/ \E i \in Items : Promote(i) \/ Veto(i)
  BY <1>1, QueueSteps
<1>2. CASE \E o \in Operators : ControlRead(o) \/ ControlWrite(o)
  BY <1>2, ControlSteps
<1>3. ASSUME NEW d \in Drains, Tick(d) PROVE IInv'
  <2>1. CASE Walk(d)
    BY <2>1, WalkSteps
  <2>2. CASE Gate(d)
    BY <2>2, GateStep
  <2>3. CASE ClaimWon(d)
    BY <2>3, ClaimStep
  <2>4. CASE RunEnds(d)
    BY <2>4, EndStep
  <2> QED
    BY <1>3, <2>1, <2>2, <2>3, <2>4 DEF Tick, Walk
<1>4. CASE \E d \in Drains : Crash(d)
  BY <1>4, EndStep
<1>5. CASE Edit \/ Slide
  BY <1>5, WorldSteps
<1>6. CASE UNCHANGED vars
  BY <1>6, StutterStep
<1> QED
  BY <1>1, <1>2, <1>3, <1>4, <1>5, <1>6 DEF Next

(* The inductive invariant.                                                *)
THEOREM AutopilotInvariant == Spec => []IInv
BY InitIInv, NextIInv, PTL DEF Spec

-----------------------------------------------------------------------------
(* The properties.                                                         *)

(* The variables of the queue keep their types.                            *)
THEOREM QueueTypes == Spec => []TypeOK
<1>1. IInv => TypeOK
  BY DEF IInv
<1> QED
  BY <1>1, AutopilotInvariant, PTL

(* No objective is run twice, however many callers drain the queue and     *)
(* whatever they crash in the middle of (_claim_running).                  *)
THEOREM RunsOnce == Spec => []DispatchedOnce
<1>1. IInv => DispatchedOnce
  BY DEF IInv, RunInv, DispatchedOnce
<1> QED
  BY <1>1, AutopilotInvariant, PTL

(* The day's spend never exceeds the ceiling by more than one run of every *)
(* drain (autopilot_gate, spent_today_usd).                                *)
THEOREM SpendIsCapped == Spec => []SoftCap
<1>1. IInv => SoftCap
  <2>1. Cardinality(Admitted) \in Nat /\ Cardinality(Drains) \in Nat
    BY DrainSets DEF Admitted
  <2>2. MaxCost * Cardinality(Admitted) \in Nat /\ Cardinality(Drains) * MaxCost \in Nat
    BY <2>1, Bounds, Scale
  <2> QED
    BY <2>2, Bounds DEF IInv, CapInv, SoftCap, TypeOK
<1> QED
  BY <1>1, AutopilotInvariant, PTL

(* A drain that began a run after the switch was thrown begins no other    *)
(* before it is released (is_paused, drain_one).                           *)
THEOREM HaltsInTime == Spec => HaltsWithinOneTick
<1> DEFINE A == \A d \in Drains : Begins(d) /\ Thrown => d \notin overdue
<1>1. IInv /\ [Next]_vars => [A]_vars
  BY DEF IInv, HaltInv, Begins
<1> QED
  BY <1>1, AutopilotInvariant, PTL DEF Spec, HaltsWithinOneTick

(* Nothing brings a row that ran or was vetoed back into the dispatch      *)
(* path, and only a waiting row is set running (promote, mark,             *)
(* _claim_running).                                                        *)
THEOREM StaysOut == Spec => NeverRedispatched
<1> DEFINE A == \A i \in Items :
                  /\ state[i] \notin Waiting \cup {"none"} => state'[i] \notin Waiting
                  /\ state'[i] = "running" => state[i] \in Waiting \cup {"running"}
<1>1. ASSUME IInv, [Next]_vars PROVE [A]_vars
  <2> SUFFICES ASSUME NEW i \in Items
               PROVE  /\ state[i] \notin Waiting \cup {"none"} => state'[i] \notin Waiting
                      /\ state'[i] = "running" => state[i] \in Waiting \cup {"running"}
    OBVIOUS
  <2>1. CASE UNCHANGED state
    BY <2>1
  <2>2. CASE Enqueue \/ \E j \in Items : Promote(j) \/ Veto(j)
    BY <1>1, <2>2 DEF IInv, TypeOK, Enqueue, Promote, Veto, Oldest, SetState, Waiting
  <2>3. CASE \E d \in Drains : ClaimWon(d) \/ MarkDone(d) \/ MarkBlocked(d)
    BY <1>1, <2>3 DEF IInv, TypeOK, ClaimWon, CanClaim, MarkDone, MarkBlocked, SetState, Waiting
  <2> QED
    BY <1>1, <2>1, <2>2, <2>3
    DEF Next, Tick, ControlRead, ControlWrite, BeginTick, PickQueued, PickProposed, Gate,
        ClaimLost, RunEnds, Bill, Crash, Edit, Slide
<1> QED
  BY <1>1, AutopilotInvariant, PTL DEF Spec, NeverRedispatched

-----------------------------------------------------------------------------
(* What is adrift: only a crash takes a run out of the hand of its drain,  *)
(* and it takes one.                                                       *)

LEMMA OneMore ==
    ASSUME NEW S, NEW T, NEW x, IsFiniteSet(S), T \subseteq S \cup {x}
    PROVE  /\ IsFiniteSet(T) /\ Cardinality(S) \in Nat /\ Cardinality(T) \in Nat
           /\ Cardinality(T) <= Cardinality(S) + 1
           /\ T \subseteq S => Cardinality(T) <= Cardinality(S)
<1>1. IsFiniteSet(S \cup {x}) /\ Cardinality(S \cup {x}) \in {Cardinality(S), Cardinality(S) + 1}
  BY FS_AddElement
<1>2. IsFiniteSet(T) /\ Cardinality(T) <= Cardinality(S \cup {x})
  BY <1>1, FS_Subset
<1> QED
  BY <1>1, <1>2, FS_Subset, FS_CardinalityType

AdriftInv == IsFiniteSet(Adrift) /\ Cardinality(Adrift) <= events

LEMMA NothingLost ==
    ASSUME IInv, [Next]_vars, \A d \in Drains : ~Crash(d)
    PROVE  Adrift' \subseteq Adrift /\ events' >= events
<1> USE DEF IInv, TypeOK
<1>d. events' \in {events, events + 1}
  BY DEF Next, Enqueue, Promote, Veto, ControlRead, ControlWrite, Tick, BeginTick, PickQueued,
     PickProposed, Gate, ClaimWon, ClaimLost, RunEnds, Bill, MarkDone, MarkBlocked, Edit, Slide, Event
<1>e. events' >= events
  BY <1>d
<1> SUFFICES ASSUME NEW i \in Items, state'[i] = "running", ~InHand(i)',
                    state[i] = "running" => InHand(i)
             PROVE  FALSE
  BY <1>e DEF Adrift
<1>1. ASSUME UNCHANGED <<pc, item>>, state[i] = "running" PROVE FALSE
  BY <1>1 DEF InHand
<1>2. CASE Enqueue \/ \E j \in Items : Promote(j) \/ Veto(j)
  <2>1. UNCHANGED <<pc, item>> /\ (state[i] = "running")
    BY <1>2 DEF Enqueue, Promote, Veto, Oldest, SetState
  <2> QED
    BY <1>1, <2>1
<1>3. CASE (\E o \in Operators : ControlRead(o) \/ ControlWrite(o)) \/ Edit \/ Slide \/ UNCHANGED vars
  <2>1. UNCHANGED <<pc, item, state>>
    BY <1>3 DEF ControlRead, ControlWrite, Edit, Slide
  <2> QED
    BY <1>1, <2>1
<1>4. ASSUME NEW d \in Drains,
             BeginTick(d) \/ PickQueued(d) \/ PickProposed(d) \/ Gate(d) \/ ClaimLost(d)
      PROVE  FALSE
  <2>1. /\ UNCHANGED state /\ pc[d] \in {"idle", "queued", "proposed", "gate", "claim"}
        /\ \A c \in Drains \ {d} : pc'[c] = pc[c] /\ item'[c] = item[c]
    BY <1>4 DEF BeginTick, PickQueued, PickProposed, Take, Gate, ClaimLost, Return, Goto
  <2> QED
    BY <2>1 DEF InHand
<1>5. ASSUME NEW d \in Drains, ClaimWon(d) PROVE FALSE
  <2>1. /\ item[d] \in Items /\ state' = [state EXCEPT ![item[d]] = "running"] /\ pc[d] = "claim"
        /\ pc'[d] = "run" /\ UNCHANGED item /\ \A c \in Drains \ {d} : pc'[c] = pc[c]
    BY <1>5 DEF ClaimWon, SetState, Goto, HandInv, Busy
  <2> QED
    BY <2>1 DEF InHand
<1>6. ASSUME NEW d \in Drains, RunEnds(d) \/ Bill(d) PROVE FALSE
  <2>1. /\ UNCHANGED <<state, item>> /\ pc'[d] \in {"bill", "blocked", "done"}
        /\ \A c \in Drains \ {d} : pc'[c] = pc[c]
    BY <1>6 DEF RunEnds, Bill, Goto
  <2> QED
    BY <2>1 DEF InHand
<1>7. ASSUME NEW d \in Drains, MarkDone(d) \/ MarkBlocked(d) PROVE FALSE
  <2>1. /\ item[d] \in Items /\ state'[item[d]] # "running"
        /\ \A j \in Items \ {item[d]} : state'[j] = state[j]
        /\ \A c \in Drains \ {d} : pc'[c] = pc[c] /\ item'[c] = item[c]
    BY <1>7 DEF MarkDone, MarkBlocked, SetState, Return, Goto, HandInv, Busy
  <2> QED
    BY <2>1 DEF InHand
<1> QED
  BY <1>2, <1>3, <1>4, <1>5, <1>6, <1>7 DEF Next, Tick

LEMMA OneLost ==
    ASSUME IInv, NEW d \in Drains, Crash(d)
    PROVE  Adrift' \subseteq Adrift \cup {item[d]} /\ events' = events + 1
<1>1. /\ UNCHANGED state /\ events' = events + 1
      /\ \A c \in Drains \ {d} : pc'[c] = pc[c] /\ item'[c] = item[c]
  BY DEF Crash, Event, Return, Goto, IInv, TypeOK
<1> QED
  BY <1>1 DEF Adrift, InHand

(* Every crash leaves one row `running` at most that nobody will mark, and *)
(* nothing else leaves any, whatever people veto, promote or edit while a  *)
(* run goes on (drain_one, mark).                                          *)
THEOREM LosesOneACrash == Spec => []CrashLosesOne
<1>1. Init => AdriftInv
  <2> SUFFICES ASSUME Init PROVE AdriftInv
    OBVIOUS
  <2>1. Adrift = {} /\ events = 0
    BY DEF Init, Adrift
  <2> QED
    BY <2>1, FS_EmptySet DEF AdriftInv
<1>2. IInv /\ IInv' /\ AdriftInv /\ [Next]_vars => AdriftInv'
  <2> SUFFICES ASSUME IInv, IInv', AdriftInv, [Next]_vars PROVE AdriftInv'
    OBVIOUS
  <2>1. events \in Nat /\ events' \in Nat /\ IsFiniteSet(Adrift) /\ Cardinality(Adrift) <= events
    BY DEF IInv, TypeOK, AdriftInv
  <2>2. CASE \E d \in Drains : Crash(d)
    <3>1. PICK d \in Drains : Crash(d)
      BY <2>2
    <3>2. Adrift' \subseteq Adrift \cup {item[d]} /\ events' = events + 1
      BY <3>1, OneLost
    <3>3. IsFiniteSet(Adrift') /\ Cardinality(Adrift) \in Nat /\ Cardinality(Adrift') \in Nat
          /\ Cardinality(Adrift') <= Cardinality(Adrift) + 1
      BY <2>1, <3>2, OneMore
    <3> QED
      BY <2>1, <3>2, <3>3 DEF AdriftInv
  <2>3. CASE ~\E d \in Drains : Crash(d)
    <3>1. Adrift' \subseteq Adrift /\ events' >= events
      BY <2>3, NothingLost
    <3>2. IsFiniteSet(Adrift') /\ Cardinality(Adrift') <= Cardinality(Adrift)
          /\ Cardinality(Adrift) \in Nat /\ Cardinality(Adrift') \in Nat
      BY <2>1, <3>1, FS_Subset, FS_CardinalityType
    <3> QED
      BY <2>1, <3>1, <3>2 DEF AdriftInv
  <2> QED
    BY <2>2, <2>3
<1>3. AdriftInv => CrashLosesOne
  BY DEF AdriftInv, CrashLosesOne
<1> QED
  BY <1>1, <1>2, <1>3, AutopilotInvariant, PTL DEF Spec

-----------------------------------------------------------------------------
(* When a recorded cost is right: one drain, a spend that can be read, and *)
(* no midnight.  From the gate to the end of its run nothing else moves    *)
(* the day's spend, so the difference is what the run cost.                *)

Alone == \A d, e \in Drains : d = e

CostInv ==
    /\ \A i \in Items : runs[i] = 0 => own[i] = 0
    /\ \A i \in Items : state[i] = "done" => cost[i] = own[i]
    /\ \A d \in Drains :
         /\ pc[d] \in {"claim", "run"} => before[d] = spent
         /\ pc[d] = "run" =>
              own[item[d]] = 0 /\ runs[item[d]] # 0 /\ state[item[d]] # "done"
         /\ pc[d] = "bill" => spent = before[d] + own[item[d]]
         /\ pc[d] = "done" => charge[d] = own[item[d]]

LEMMA MaxOfNat == ASSUME NEW n \in Nat PROVE Max({n, 0}) = n
<1>1. n \in {n, 0} /\ \A y \in {n, 0} : n >= y
  OBVIOUS
<1>2. \A x \in {n, 0} : (\A y \in {n, 0} : x >= y) => x = n
  OBVIOUS
<1>3. Max({n, 0}) \in {n, 0} /\ \A y \in {n, 0} : Max({n, 0}) >= y
  BY <1>1 DEF Max
<1> QED
  BY <1>2, <1>3

LEMMA CostTick ==
    ASSUME Alone, Faults \cap {"unpriced", "slide"} = {}, IInv, CostInv,
           NEW d \in Drains, Tick(d) \/ Crash(d)
    PROVE  CostInv'
<1> USE DEF IInv, TypeOK, Goto
<1>0. Drains = {d}
  BY DEF Alone
<1>1. CASE BeginTick(d) \/ PickQueued(d) \/ PickProposed(d) \/ ClaimLost(d)
  <2>1. UNCHANGED <<state, runs, own, cost, spent>>
    BY <1>1 DEF BeginTick, PickQueued, PickProposed, ClaimLost
  <2>2. pc'[d] \in {"idle", "queued", "proposed", "gate"}
    BY <1>1 DEF BeginTick, PickQueued, PickProposed, Take, ClaimLost, Return
  <2> QED
    BY <1>0, <2>1, <2>2 DEF CostInv
<1>2. CASE Gate(d)
  <2>1. UNCHANGED <<state, runs, own, cost, spent>>
    BY <1>2 DEF Gate
  <2>2. pc'[d] = "idle" \/ (pc'[d] = "claim" /\ before'[d] = spent)
    BY <1>2 DEF Gate, Return
  <2> QED
    BY <1>0, <2>1, <2>2 DEF CostInv
<1>3. CASE ClaimWon(d)
  <2>1. item[d] \in Items /\ state[item[d]] \in Waiting
    BY <1>3 DEF ClaimWon, CanClaim, HandInv, Busy
  <2>2. runs[item[d]] = 0 /\ own[item[d]] = 0
    BY <2>1 DEF RunInv, CostInv
  <2>3. /\ state' = [state EXCEPT ![item[d]] = "running"]
        /\ runs' = [runs EXCEPT ![item[d]] = @ + 1]
        /\ pc[d] = "claim" /\ pc'[d] = "run" /\ UNCHANGED <<spent, item, before, cost, own>>
    BY <1>3 DEF ClaimWon, SetState
  <2> QED
    BY <1>0, <2>1, <2>2, <2>3 DEF CostInv
<1>4. CASE RunEnds(d) \/ (Crash(d) /\ pc[d] = "run" /\ \E c \in 0..MaxCost : Spend(item[d], c))
  <2>1. pc[d] = "run" /\ item[d] \in Items /\ UNCHANGED <<state, runs, cost>>
    BY <1>4 DEF RunEnds, Crash, HandInv, Busy
  <2>2. PICK c \in 0..MaxCost : Spend(item[d], c)
    BY <1>4 DEF RunEnds
  <2>3. /\ before[d] = spent /\ own[item[d]] = 0 /\ state[item[d]] # "done"
        /\ spent' = spent + c /\ own' = [own EXCEPT ![item[d]] = @ + c]
    BY <2>1, <2>2 DEF CostInv, Spend
  <2>4. c \in Nat /\ own'[item[d]] = c /\ \A i \in Items : i # item[d] => own'[i] = own[i]
    BY <2>1, <2>3, Bounds
  <2>5. runs[item[d]] # 0
    BY <2>1 DEF CostInv
  <2>6. \/ (pc'[d] = "bill" /\ UNCHANGED <<item, before>>)
        \/ pc'[d] \in {"idle", "blocked"}
    BY <1>4 DEF RunEnds, Crash, Return
  <2> QED
    BY <1>0, <2>1, <2>3, <2>4, <2>5, <2>6 DEF CostInv
<1>5. CASE Crash(d) /\ UNCHANGED <<spent, own>>
  <2>1. UNCHANGED <<state, runs, own, cost, spent>> /\ pc'[d] = "idle"
    BY <1>5 DEF Crash, Return
  <2> QED
    BY <1>0, <2>1 DEF CostInv
<1>6. CASE Bill(d)
  <2>1. pc[d] = "bill" /\ item[d] \in Items
    BY <1>6 DEF Bill, HandInv, Busy
  <2>2. spent - before[d] = own[item[d]] /\ own[item[d]] \in Nat
    BY <2>1 DEF CostInv
  <2>3. charge' = [charge EXCEPT ![d] = own[item[d]]]
    BY <1>6, <2>2, MaxOfNat DEF Bill
  <2>4. pc'[d] = "done" /\ UNCHANGED <<state, spent, item, before, cost, runs, own>>
    BY <1>6 DEF Bill
  <2> QED
    BY <1>0, <2>3, <2>4 DEF CostInv
<1>7. CASE MarkDone(d) \/ MarkBlocked(d)
  <2>1. item[d] \in Items /\ pc'[d] = "idle" /\ UNCHANGED <<runs, own, spent>>
    BY <1>7 DEF MarkDone, MarkBlocked, Return, HandInv, Busy
  <2>2. \/ /\ pc[d] = "done" /\ state' = [state EXCEPT ![item[d]] = "done"]
           /\ cost' = [cost EXCEPT ![item[d]] = charge[d]]
        \/ (state' = [state EXCEPT ![item[d]] = "blocked"] /\ UNCHANGED cost)
    BY <1>7 DEF MarkDone, MarkBlocked, SetState
  <2> QED
    BY <1>0, <2>1, <2>2 DEF CostInv
<1> QED
  BY <1>1, <1>2, <1>3, <1>4, <1>5, <1>6, <1>7 DEF Tick, Crash

LEMMA CostOthers ==
    ASSUME Faults \cap {"unpriced", "slide"} = {}, IInv, CostInv,
           \/ Enqueue \/ \E i \in Items : Promote(i) \/ Veto(i)
           \/ \E o \in Operators : ControlRead(o) \/ ControlWrite(o)
           \/ Edit \/ Slide \/ UNCHANGED vars
    PROVE  CostInv'
<1> USE DEF IInv, TypeOK
<1>1. ~Slide
  BY DEF Slide, Event
<1>2. UNCHANGED <<runs, own, cost, spent, pc, item, before, charge>>
  BY <1>1 DEF Enqueue, Promote, Veto, ControlRead, ControlWrite, Edit
<1>3. \A i \in Items : state'[i] = "done" => state[i] = "done"
  BY <1>1 DEF Enqueue, Promote, Veto, ControlRead, ControlWrite, Edit, Oldest, SetState
<1> QED
  BY <1>2, <1>3 DEF CostInv, HandInv, Busy

(* Where one caller drains, every spend can be read and none slides out of *)
(* the day, cost_usd is what the run of the row itself cost (drain_one).   *)
THEOREM CostsAreOwn ==
    ASSUME Alone, Faults \cap {"unpriced", "slide"} = {}
    PROVE  Spec => []CostIsOwn
<1>1. Init => CostInv
  BY DEF Init, CostInv
<1>2. IInv /\ CostInv /\ [Next]_vars => CostInv'
  BY CostTick, CostOthers DEF Next
<1>3. CostInv => CostIsOwn
  BY DEF CostInv, CostIsOwn
<1> QED
  BY <1>1, <1>2, <1>3, AutopilotInvariant, PTL DEF Spec
=============================================================================
