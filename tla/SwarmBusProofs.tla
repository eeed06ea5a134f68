--------------------------- MODULE SwarmBusProofs ---------------------------
(***************************************************************************)
(* What SwarmBus guarantees for any fleet, any events, either transport    *)
(* and any number of faults.                                               *)
(*                                                                         *)
(* A handler that was begun owns its row: the row is `running`, no other   *)
(* handler has it in hand, and the pipeline was not started before         *)
(* (HandlerInv).  That is inductive only together with what the status     *)
(* of a row says of its past: nothing was started before `running`         *)
(* (RunInv), and a row that was claimed was claimed by an instance that    *)
(* serves its tenant (ClaimInv).  What is in the sequences of candidates   *)
(* does not matter, whichever transport brought them.  What the status     *)
(* says of the outcome, and how much a fault may lose, follow in sections  *)
(* of their own (OutcomeInv, AdriftInv).                                   *)
(***************************************************************************)
EXTENDS SwarmBus, FiniteSetTheorems, TLAPS

USE DEF vars, table, broker, workerVars

Begun(w) == pc[w] \in {"handle", "ended"}

Types ==
    /\ rows \in Seq(Events)
    /\ status \in [Events -> Statuses]
    /\ tenant \in [Events -> Tenants \cup {NoTenant}]
    /\ claimedBy \in [Events -> Instances \cup {NoInstance}]
    /\ pc \in [Workers -> {"idle", "walk", "claimed", "handle", "ended"}]
    /\ event \in [Workers -> Events \cup {NoEvent}]
    /\ runs \in [Events -> Nat]

HandlerInv ==
    \A w \in Workers :
        /\ pc[w] \in {"claimed", "handle", "ended"} => event[w] \in Events
        /\ Begun(w) => status[event[w]] = "running"
        /\ pc[w] = "handle" => runs[event[w]] = 0
        /\ \A v \in Workers : Begun(v) /\ Begun(w) /\ event[v] = event[w] => v = w

RunInv ==
    \A e \in Events :
        /\ runs[e] <= 1
        /\ runs[e] > 0 => status[e] \in {"running", "done", "failed"}

ClaimInv ==
    \A e \in Events :
        status[e] \in {"claimed", "running", "done", "failed"} =>
            claimedBy[e] \in Instances /\ tenant[e] \in Served[claimedBy[e]]

IInv == Types /\ HandlerInv /\ RunInv /\ ClaimInv

-----------------------------------------------------------------------------
LEMMA InitIInv == Init => IInv
BY DEF Init, IInv, Types, HandlerInv, RunInv, ClaimInv, Begun, Statuses

(* The steps that touch neither a row nor a handler.                       *)
LEMMA KeepsIInv ==
    ASSUME IInv,
           UNCHANGED <<table, runs>>,
           pc' \in [Workers -> {"idle", "walk", "claimed", "handle", "ended"}],
           event' \in [Workers -> Events \cup {NoEvent}],
           \A w \in Workers :
               \/ pc'[w] = pc[w] /\ event'[w] = event[w]
               \/ pc'[w] \in {"idle", "walk"}
               \/ pc'[w] = "claimed" /\ event'[w] \in Events
    PROVE  IInv'
<1>1. Types'
  BY DEF IInv, Types
<1>2. \A w \in Workers : Begun(w)' => Begun(w) /\ pc'[w] = pc[w] /\ event'[w] = event[w]
  BY DEF Begun
<1>3. \A w \in Workers : pc'[w] = "claimed" => event'[w] \in Events
  BY DEF IInv, HandlerInv
<1>4. HandlerInv'
  BY <1>2, <1>3 DEF IInv, HandlerInv, Begun
<1>5. RunInv' /\ ClaimInv'
  BY DEF IInv, RunInv, ClaimInv
<1> QED
  BY <1>1, <1>4, <1>5 DEF IInv

-----------------------------------------------------------------------------
LEMMA PublishIInv ==
    ASSUME IInv, NEW i \in Instances, NEW e \in Events, NEW t \in Tenants, Publish(i, e, t)
    PROVE  IInv'
<1> USE DEF Publish
<1>1. Types'
  BY DEF IInv, Types, Statuses
<1>2. HandlerInv'
  BY DEF IInv, Types, HandlerInv, Begun
<1>3. RunInv'
  BY DEF IInv, Types, RunInv
<1>4. ClaimInv'
  BY DEF IInv, Types, ClaimInv
<1> QED
  BY <1>1, <1>2, <1>3, <1>4 DEF IInv

LEMMA RejectIInv ==
    ASSUME IInv, NEW w \in Workers, Reject(w)
    PROVE  IInv'
<1> DEFINE e == Head(batch[w])
<1>1. /\ status' = [status EXCEPT ![e] = IF @ = "pending" THEN "skipped" ELSE @]
      /\ pc'[w] \in {"idle", "walk"}
      /\ pc' \in [Workers -> {"idle", "walk", "claimed", "handle", "ended"}]
      /\ \A v \in Workers : v # w => pc'[v] = pc[v]
      /\ UNCHANGED <<rows, tenant, claimedBy, event, runs>>
  BY DEF Reject, NextCandidate, At, IInv, Types
<1> HIDE DEF e
<1>2. Types'
  BY <1>1 DEF IInv, Types, Statuses
<1>3. \A f \in Events : status'[f] = IF f = e /\ status[f] = "pending" THEN "skipped" ELSE status[f]
  BY <1>1 DEF IInv, Types
<1>4. HandlerInv'
  BY <1>1, <1>3 DEF IInv, Types, HandlerInv, Begun
<1>5. RunInv' /\ ClaimInv'
  BY <1>1, <1>3 DEF IInv, Types, RunInv, ClaimInv
<1> QED
  BY <1>2, <1>4, <1>5 DEF IInv

LEMMA ClaimIInv ==
    ASSUME IInv, NEW w \in Workers, Claim(w)
    PROVE  IInv'
<1>1. PICK e \in Events : Examined(w, e) /\ status[e] = "pending" /\ ClaimedBy(w, e)
  BY DEF Claim
<1>2. InstanceOf[w] \in Instances /\ tenant[e] \in Served[InstanceOf[w]]
  BY <1>1, FleetAssumption DEF Examined, ForThisInstance
<1> USE <1>1, <1>2 DEF ClaimedBy, At
<1>3. Types'
  BY DEF IInv, Types, Statuses
<1>4. HandlerInv'
  BY DEF IInv, Types, HandlerInv, Begun
<1>5. RunInv'
  BY DEF IInv, Types, RunInv
<1>6. ClaimInv'
  BY DEF IInv, Types, ClaimInv
<1> QED
  BY <1>3, <1>4, <1>5, <1>6 DEF IInv

LEMMA BeginHandlerIInv ==
    ASSUME IInv, NEW w \in Workers, BeginHandler(w)
    PROVE  IInv'
<1> DEFINE e == event[w]
<1>1. e \in Events /\ status[e] = "claimed"
  BY DEF BeginHandler, Owned, IInv, HandlerInv
<1>0. runs[e] = 0
  <2>1. runs[e] \in Nat /\ ~ (runs[e] > 0)
    BY <1>1 DEF IInv, Types, RunInv
  <2> QED
    BY <2>1
<1> USE <1>1 DEF BeginHandler, Owned, At
<1>2. Types'
  BY DEF IInv, Types, Statuses
<1>3. HandlerInv'
  <2>2. \A v \in Workers : Begun(v) => event[v] # e
    BY DEF IInv, HandlerInv
  <2> QED
    BY <1>0, <2>2 DEF IInv, Types, HandlerInv, Begun
<1>4. RunInv'
  BY DEF IInv, Types, RunInv
<1>5. ClaimInv'
  BY DEF IInv, Types, ClaimInv
<1> QED
  BY <1>2, <1>3, <1>4, <1>5 DEF IInv

LEMMA HandleIInv ==
    ASSUME IInv, NEW w \in Workers, Handle(w)
    PROVE  IInv'
<1> DEFINE e == event[w]
<1>1. e \in Events /\ status[e] = "running" /\ runs[e] = 0
  BY DEF Handle, IInv, HandlerInv, Begun
<1> USE <1>1 DEF Handle, At
<1>2. Types'
  BY DEF IInv, Types
<1>3. HandlerInv'
  BY DEF IInv, Types, HandlerInv, Begun
<1>4. RunInv'
  BY DEF IInv, Types, RunInv
<1>5. ClaimInv'
  BY DEF IInv, Types, ClaimInv
<1> QED
  BY <1>2, <1>3, <1>4, <1>5 DEF IInv

LEMMA FinishIInv ==
    ASSUME IInv, NEW w \in Workers, Finish(w)
    PROVE  IInv'
<1> DEFINE e == event[w]
<1>1. e \in Events /\ status[e] = "running" /\ Begun(w)
  BY DEF Finish, IInv, HandlerInv, Begun
<1>2. PICK outcome \in {"done", "failed"} :
         status' = [status EXCEPT ![e] = IF @ = "running" THEN outcome ELSE @]
  <2>1. PICK o \in IF pc[w] = "handle" THEN {"failed"} ELSE {"done", "failed"} :
           status' = [status EXCEPT ![e] = IF @ = "running" THEN o ELSE @]
    BY DEF Finish
  <2> QED
    BY <2>1
<1>3. /\ pc' = [pc EXCEPT ![w] = "idle"] /\ event' = [event EXCEPT ![w] = NoEvent]
      /\ UNCHANGED <<rows, tenant, claimedBy, runs>>
  BY DEF Finish, At
<1> USE <1>1, <1>2, <1>3
<1>4. Types'
  BY DEF IInv, Types, Statuses
<1>5. HandlerInv'
  BY DEF IInv, Types, HandlerInv, Begun
<1>6. RunInv'
  BY DEF IInv, Types, RunInv
<1>7. ClaimInv'
  BY DEF IInv, Types, ClaimInv
<1> QED
  BY <1>4, <1>5, <1>6, <1>7 DEF IInv

LEMMA QuietStepIInv ==
    ASSUME IInv, NEW w \in Workers,
           \/ PollSubscribe(w) \/ RedisSubscribe(w) \/ PassOver(w) \/ ClaimLost(w)
           \/ NotTheOwner(w) \/ StrayDispatch(w) \/ Crash(w)
    PROVE  IInv'
<1>1. UNCHANGED <<table, runs>>
  BY DEF PollSubscribe, RedisSubscribe, PassOver, ClaimLost, NotTheOwner, StrayDispatch, Crash
<1>2. \/ pc' = [pc EXCEPT ![w] = "walk"] /\ event' = event
      \/ pc' = [pc EXCEPT ![w] = "idle"] /\ event' \in {event, [event EXCEPT ![w] = NoEvent]}
      \/ /\ pc' = [pc EXCEPT ![w] = "claimed"]
         /\ \E e \in Events : event' = [event EXCEPT ![w] = e]
  <2>1. CASE PollSubscribe(w) \/ RedisSubscribe(w)
    BY <2>1 DEF PollSubscribe, RedisSubscribe, Take, At
  <2>2. CASE PassOver(w)
    BY <2>2 DEF PassOver, NextCandidate, At
  <2>3. CASE ClaimLost(w) \/ NotTheOwner(w) \/ Crash(w)
    BY <2>3 DEF ClaimLost, NotTheOwner, Crash, At
  <2>4. CASE StrayDispatch(w)
    <3>1. ToSet(rows) \subseteq Events
      BY DEF IInv, Types, ToSet
    <3> QED
      BY <2>4, <3>1 DEF StrayDispatch, At
  <2> QED
    BY <2>1, <2>2, <2>3, <2>4
<1>3. /\ pc' \in [Workers -> {"idle", "walk", "claimed", "handle", "ended"}]
      /\ event' \in [Workers -> Events \cup {NoEvent}]
  BY <1>2 DEF IInv, Types
<1>4. \A v \in Workers :
         \/ pc'[v] = pc[v] /\ event'[v] = event[v]
         \/ pc'[v] \in {"idle", "walk"}
         \/ pc'[v] = "claimed" /\ event'[v] \in Events
  BY <1>2 DEF IInv, Types
<1> QED
  BY <1>1, <1>3, <1>4, KeepsIInv

LEMMA NextIInv ==
    ASSUME IInv, [Next]_vars
    PROVE  IInv'
<1>1. ASSUME NEW i \in Instances, NEW e \in Events, NEW t \in Tenants, Publish(i, e, t)
      PROVE  IInv'
  BY <1>1, PublishIInv
<1>2. ASSUME NEW i \in Instances, HandOff(i) \/ HandOffLost(i) \/ Rekey(i)
      PROVE  IInv'
  <2>1. UNCHANGED <<table, workerVars, runs>>
    BY <1>2 DEF HandOff, HandOffLost, Rekey
  <2> QED
    BY <2>1, KeepsIInv DEF IInv, Types
<1>3. ASSUME NEW w \in Workers, Step(w) \/ StrayDispatch(w) \/ Crash(w)
      PROVE  IInv'
  BY <1>3, RejectIInv, ClaimIInv, BeginHandlerIInv, HandleIInv, FinishIInv, QuietStepIInv
     DEF Step
<1>4. CASE UNCHANGED vars
  BY <1>4, KeepsIInv DEF IInv, Types
<1> QED
  BY <1>1, <1>2, <1>3, <1>4 DEF Next

THEOREM IInvAlways == Spec => []IInv
BY InitIInv, NextIInv, PTL DEF Spec

-----------------------------------------------------------------------------
(* The pipeline of an event is started once at most, however many workers  *)
(* claim and dispatch it (claim_swarm_event, mark_swarm_event_running).    *)
THEOREM HandledOnce == Spec => []HandledAtMostOnce
<1>1. IInv => HandledAtMostOnce
  BY DEF IInv, RunInv, HandledAtMostOnce
<1> QED
  BY <1>1, IInvAlways, PTL

(* ... and by an instance that serves the tenant of the event (claim_next, *)
(* whichever transport the candidate came from).                           *)
THEOREM HandledByServing == Spec => []HandledForServed
<1>1. IInv => HandledForServed
  BY DEF IInv, RunInv, ClaimInv, HandledForServed
<1> QED
  BY <1>1, IInvAlways, PTL

(* No step overwrites what became of an event: neither a late verdict on   *)
(* its signature nor a second claim nor a second handler.                  *)
THEOREM StaysSettled == Spec => NeverReopened
<1> DEFINE Kept(e) == /\ status[e] \in Settled => status'[e] = status[e]
                      /\ status[e] \in {"claimed", "running"} =>
                            /\ claimedBy'[e] = claimedBy[e]
                            /\ status'[e] \notin {"pending", "skipped"}
<1>1. ASSUME IInv, [Next]_vars, NEW f \in Events
      PROVE  Kept(f)
  <2> USE DEF Settled
  <2>1. ASSUME NEW i \in Instances, NEW e \in Events, NEW t \in Tenants, Publish(i, e, t)
        PROVE  Kept(f)
    BY <1>1, <2>1 DEF Publish, IInv, Types
  <2>2. ASSUME NEW i \in Instances, HandOff(i) \/ HandOffLost(i) \/ Rekey(i)
        PROVE  Kept(f)
    BY <2>2 DEF HandOff, HandOffLost, Rekey
  <2>3. ASSUME NEW w \in Workers, Reject(w)
        PROVE  Kept(f)
    BY <1>1, <2>3 DEF Reject, IInv, Types
  <2>4. ASSUME NEW w \in Workers, Claim(w)
        PROVE  Kept(f)
    BY <1>1, <2>4 DEF Claim, ClaimedBy, IInv, Types
  <2>5. ASSUME NEW w \in Workers, BeginHandler(w)
        PROVE  Kept(f)
    BY <1>1, <2>5 DEF BeginHandler, Owned, IInv, Types
  <2>6. ASSUME NEW w \in Workers, Finish(w)
        PROVE  Kept(f)
    BY <1>1, <2>6 DEF Finish, IInv, Types
  <2>7. ASSUME NEW w \in Workers,
               \/ PollSubscribe(w) \/ RedisSubscribe(w) \/ PassOver(w) \/ ClaimLost(w)
               \/ NotTheOwner(w) \/ Handle(w) \/ StrayDispatch(w) \/ Crash(w)
        PROVE  Kept(f)
    BY <2>7 DEF PollSubscribe, RedisSubscribe, PassOver, ClaimLost, NotTheOwner, Handle,
                StrayDispatch, Crash
  <2>8. CASE UNCHANGED vars
    BY <2>8
  <2> QED
    BY <1>1, <2>1, <2>2, <2>3, <2>4, <2>5, <2>6, <2>7, <2>8 DEF Next, Step
<1>2. IInv /\ [Next]_vars => [\A e \in Events : Kept(e)]_vars
  BY <1>1
<1> QED
  BY <1>2, IInvAlways, PTL DEF Spec, NeverReopened

-----------------------------------------------------------------------------
(* What the table says of an event.                                        *)

OutcomeInv ==
    /\ \A w \in Workers : pc[w] = "ended" => runs[event[w]] = 1
    /\ OutcomeIsTrue

(* The table says what happened: no event is called done whose pipeline    *)
(* was not started, and none skipped whose was (mark_swarm_event_done,     *)
(* mark_swarm_event_skipped).                                              *)
THEOREM TellsOutcome == Spec => []OutcomeIsTrue
<1>1. Init => OutcomeInv
  BY DEF Init, OutcomeInv, OutcomeIsTrue
<1>2. IInv /\ OutcomeInv /\ [Next]_vars => OutcomeInv'
  <2> SUFFICES ASSUME IInv, OutcomeInv, [Next]_vars PROVE OutcomeInv'
    OBVIOUS
  <2> USE DEF IInv, Types
  <2>1. ASSUME NEW i \in Instances, NEW e \in Events, NEW t \in Tenants, Publish(i, e, t)
        PROVE  OutcomeInv'
    BY <2>1 DEF Publish, OutcomeInv, OutcomeIsTrue
  <2>2. CASE UNCHANGED <<status, runs, pc, event>>
    BY <2>2 DEF OutcomeInv, OutcomeIsTrue
  <2>3. ASSUME NEW w \in Workers, Reject(w) PROVE OutcomeInv'
    <3>1. \A v \in Workers : pc'[v] = "ended" => pc[v] = "ended" /\ event'[v] = event[v]
      BY <2>3 DEF Reject, NextCandidate, At
    <3>2. \A e \in Events : status'[e] = status[e] \/ (status[e] = "pending" /\ status'[e] = "skipped")
      BY <2>3 DEF Reject
    <3>3. UNCHANGED runs
      BY <2>3 DEF Reject
    <3>4. ASSUME NEW e \in Events, status[e] = "pending" PROVE runs[e] = 0
      <4>1. runs[e] \in Nat
        OBVIOUS
      <4>2. ~(runs[e] > 0)
        BY <3>4 DEF RunInv
      <4> QED
        BY <4>1, <4>2
    <3>5. (\A v \in Workers : pc[v] = "ended" => runs[event[v]] = 1)'
      BY <3>1, <3>3 DEF OutcomeInv
    <3>6. OutcomeIsTrue'
      BY <3>2, <3>3, <3>4 DEF OutcomeInv, OutcomeIsTrue
    <3> QED
      BY <3>5, <3>6 DEF OutcomeInv
  <2>4. ASSUME NEW w \in Workers, Claim(w) \/ BeginHandler(w) PROVE OutcomeInv'
    BY <2>4 DEF Claim, ClaimedBy, BeginHandler, At, OutcomeInv, OutcomeIsTrue
  <2>5. ASSUME NEW w \in Workers, Handle(w) PROVE OutcomeInv'
    <3>1. event[w] \in Events /\ runs[event[w]] = 0 /\ status[event[w]] = "running"
      BY <2>5 DEF Handle, HandlerInv, Begun
    <3>2. \A v \in Workers \ {w} : Begun(v) => event[v] # event[w]
      BY <2>5 DEF Handle, HandlerInv, Begun
    <3>3. runs'[event[w]] = 1 /\ \A e \in Events \ {event[w]} : runs'[e] = runs[e]
      BY <2>5, <3>1 DEF Handle
    <3>4. \A v \in Workers \ {w} : pc'[v] = "ended" =>
             pc[v] = "ended" /\ event[v] \in Events \ {event[w]}
      BY <2>5, <3>2 DEF Handle, At, HandlerInv, Begun
    <3> QED
      BY <2>5, <3>1, <3>3, <3>4 DEF Handle, OutcomeInv, OutcomeIsTrue
  <2>6. ASSUME NEW w \in Workers, Finish(w) PROVE OutcomeInv'
    <3>1. \A v \in Workers : pc'[v] = "ended" => v # w /\ pc[v] = "ended" /\ event'[v] = event[v]
      BY <2>6 DEF Finish, At
    <3>2. \A e \in Events : status'[e] # status[e] =>
             e = event[w] /\ status'[e] \in {"done", "failed"} /\ (status'[e] = "done" => pc[w] = "ended")
      BY <2>6 DEF Finish
    <3> QED
      BY <2>6, <3>1, <3>2 DEF Finish, OutcomeInv, OutcomeIsTrue
  <2>7. ASSUME NEW w \in Workers,
               \/ PollSubscribe(w) \/ RedisSubscribe(w) \/ PassOver(w) \/ ClaimLost(w)
               \/ NotTheOwner(w) \/ StrayDispatch(w) \/ Crash(w)
        PROVE  OutcomeInv'
    <3>1. UNCHANGED <<status, runs>>
      BY <2>7 DEF PollSubscribe, RedisSubscribe, PassOver, ClaimLost, NotTheOwner, StrayDispatch,
         Crash
    <3>2. \A v \in Workers : pc'[v] = "ended" => pc[v] = "ended" /\ event'[v] = event[v]
      BY <2>7 DEF PollSubscribe, RedisSubscribe, Take, PassOver, NextCandidate, ClaimLost, NotTheOwner,
         StrayDispatch, Crash, At
    <3> QED
      BY <3>1, <3>2 DEF OutcomeInv, OutcomeIsTrue
  <2>8. ASSUME NEW i \in Instances, HandOff(i) \/ HandOffLost(i) \/ Rekey(i) PROVE OutcomeInv'
    BY <2>2, <2>8 DEF HandOff, HandOffLost, Rekey
  <2> QED
    BY <2>1, <2>2, <2>3, <2>4, <2>5, <2>6, <2>7, <2>8 DEF Next, Step
<1>3. OutcomeInv => OutcomeIsTrue
  BY DEF OutcomeInv
<1> QED
  BY <1>1, <1>2, <1>3, IInvAlways, PTL DEF Spec

-----------------------------------------------------------------------------
(* What is adrift: only a crash takes an event out of the hand of the      *)
(* worker that can take it further, and it takes one.                      *)

LEMMA OneMore ==
    ASSUME NEW S, NEW T, NEW x, IsFiniteSet(S), T \subseteq S \cup {x}
    PROVE  /\ IsFiniteSet(T) /\ Cardinality(S) \in Nat /\ Cardinality(T) \in Nat
           /\ Cardinality(T) <= Cardinality(S) + 1
           /\ T \subseteq S => Cardinality(T) <= Cardinality(S)
<1>1. IsFiniteSet(S \cup {x}) /\ Cardinality(S \cup {x}) \in {Cardinality(S), Cardinality(S) + 1}
  BY FS_AddElement
<1>2. IsFiniteSet(T) /\ Cardinality(T) <= Cardinality(S \cup {x})
  BY <1>1, FS_Subset
<1> QED
  BY <1>1, <1>2, FS_Subset, FS_CardinalityType

AdriftInv == faults \in Nat /\ IsFiniteSet(Adrift) /\ Cardinality(Adrift) <= faults

(* A worker other than w is where it was.                                  *)
LEMMA StillInHand ==
    ASSUME NEW w \in Workers, NEW e \in Events, InHand(e), e # event[w],
           \A v \in Workers \ {w} : pc'[v] = pc[v] /\ event'[v] = event[v],
           status'[e] = status[e], claimedBy'[e] = claimedBy[e]
    PROVE  InHand(e)'
BY DEF InHand, Owned

LEMMA NothingLost ==
    ASSUME IInv, [Next]_vars, \A w \in Workers : ~Crash(w)
    PROVE  Adrift' \subseteq Adrift
<1> SUFFICES ASSUME NEW e \in Events, status'[e] \in {"claimed", "running"}, ~InHand(e)',
                    status[e] \in {"claimed", "running"} => InHand(e)
             PROVE  FALSE
  BY DEF Adrift
<1> USE DEF IInv, Types
<1>1. ASSUME UNCHANGED <<status, claimedBy, pc, event>> PROVE FALSE
  BY <1>1 DEF InHand, Owned
<1>2. ASSUME NEW i \in Instances, NEW f \in Events, NEW t \in Tenants, Publish(i, f, t) PROVE FALSE
  BY <1>2 DEF Publish, InHand, Owned
<1>3. ASSUME NEW w \in Workers, Reject(w) PROVE FALSE
  <2>1. status'[e] = status[e] /\ UNCHANGED <<claimedBy, event>> /\ pc[w] = "walk"
        /\ \A v \in Workers \ {w} : pc'[v] = pc[v]
    BY <1>3 DEF Reject, Candidate, NextCandidate, At
  <2> QED
    BY <2>1 DEF InHand, Owned
<1>4. ASSUME NEW w \in Workers, Claim(w) PROVE FALSE
  <2>1. PICK f \in Events : Examined(w, f) /\ status[f] = "pending" /\ ClaimedBy(w, f)
    BY <1>4 DEF Claim
  <2>2. /\ pc[w] = "walk" /\ pc'[w] = "claimed" /\ event'[w] = f
        /\ status' = [status EXCEPT ![f] = "claimed"]
        /\ claimedBy' = [claimedBy EXCEPT ![f] = InstanceOf[w]]
        /\ \A v \in Workers \ {w} : pc'[v] = pc[v] /\ event'[v] = event[v]
    BY <2>1 DEF Examined, Candidate, ClaimedBy, At
  <2>3. CASE e = f
    BY <2>2, <2>3, FleetAssumption DEF InHand, Owned
  <2>4. CASE e # f
    BY <2>2, <2>4 DEF InHand, Owned
  <2> QED
    BY <2>3, <2>4
<1>5. ASSUME NEW w \in Workers, BeginHandler(w) PROVE FALSE
  <2>1. /\ event[w] \in Events /\ pc'[w] = "handle" /\ UNCHANGED <<event, claimedBy>>
        /\ status' = [status EXCEPT ![event[w]] = "running"]
        /\ \A v \in Workers \ {w} : pc'[v] = pc[v] /\ event'[v] = event[v]
    BY <1>5 DEF BeginHandler, HandlerInv, At
  <2>2. CASE e = event[w]
    BY <2>1, <2>2 DEF InHand
  <2>3. CASE e # event[w]
    BY <2>1, <2>3, StillInHand
  <2> QED
    BY <2>2, <2>3
<1>6. ASSUME NEW w \in Workers, NotTheOwner(w) \/ Handle(w) \/ Finish(w) PROVE FALSE
  <2>1. /\ UNCHANGED claimedBy
        /\ \A v \in Workers \ {w} : pc'[v] = pc[v] /\ event'[v] = event[v]
    BY <1>6 DEF NotTheOwner, Handle, Finish, At
  <2>2. e # event[w] => status'[e] = status[e]
    BY <1>6 DEF NotTheOwner, Handle, Finish
  <2>3. CASE e = event[w] /\ NotTheOwner(w)
    <3>1. pc[w] = "claimed" /\ ~Owned(w, e) /\ status'[e] = status[e]
      BY <2>3 DEF NotTheOwner
    <3> QED
      BY <2>1, <3>1 DEF InHand, Owned
  <2>4. CASE e = event[w] /\ Handle(w)
    <3>1. UNCHANGED <<event, status>> /\ pc'[w] = "ended" /\ status[e] = "running"
      BY <2>4 DEF Handle, At, HandlerInv, Begun
    <3> QED
      BY <2>4, <3>1 DEF InHand
  <2>5. CASE e = event[w] /\ Finish(w)
    BY <2>5 DEF Finish, HandlerInv, Begun
  <2>6. CASE e # event[w]
    BY <2>1, <2>2, <2>6, StillInHand
  <2> QED
    BY <1>6, <2>3, <2>4, <2>5, <2>6
<1>7. ASSUME NEW w \in Workers,
             PollSubscribe(w) \/ RedisSubscribe(w) \/ PassOver(w) \/ ClaimLost(w) \/ StrayDispatch(w)
      PROVE  FALSE
  <2>1. /\ UNCHANGED <<status, claimedBy>> /\ pc[w] \in {"idle", "walk"}
        /\ \A v \in Workers \ {w} : pc'[v] = pc[v] /\ event'[v] = event[v]
    BY <1>7 DEF PollSubscribe, RedisSubscribe, Take, MayLook, PassOver, Candidate, NextCandidate,
       ClaimLost, Examined, StrayDispatch, At
  <2> QED
    BY <2>1 DEF InHand, Owned
<1>8. ASSUME NEW i \in Instances, HandOff(i) \/ HandOffLost(i) \/ Rekey(i) PROVE FALSE
  BY <1>1, <1>8 DEF HandOff, HandOffLost, Rekey
<1> QED
  BY <1>1, <1>2, <1>3, <1>4, <1>5, <1>6, <1>7, <1>8 DEF Next, Step

LEMMA OneLost ==
    ASSUME IInv, NEW w \in Workers, Crash(w)
    PROVE  Adrift' \subseteq Adrift \cup {event[w]} /\ faults' = faults + 1
<1> SUFFICES ASSUME NEW e \in Events, e # event[w], InHand(e) PROVE InHand(e)'
  BY DEF Crash, Fault, Adrift
<1>1. UNCHANGED <<status, claimedBy>> /\ \A v \in Workers \ {w} : pc'[v] = pc[v] /\ event'[v] = event[v]
  BY DEF Crash, At, IInv, Types
<1> QED
  BY <1>1, StillInHand

(* Every crash loses one event at most, and nothing else loses any: an     *)
(* event that is claimed or running is otherwise in the hand of a worker   *)
(* that owns it (claim_next, process_claimed_event).                       *)
THEOREM LosesOneAFault == Spec => []FaultLosesOne
<1>1. Init => AdriftInv
  <2> SUFFICES ASSUME Init PROVE AdriftInv
    OBVIOUS
  <2>1. Adrift = {} /\ faults = 0
    BY DEF Init, Adrift
  <2> QED
    BY <2>1, FS_EmptySet DEF AdriftInv
<1>2. IInv /\ AdriftInv /\ [Next]_vars => AdriftInv'
  <2> SUFFICES ASSUME IInv, AdriftInv, [Next]_vars PROVE AdriftInv'
    OBVIOUS
  <2>1. CASE \E w \in Workers : Crash(w)
    <3>1. PICK w \in Workers : Crash(w)
      BY <2>1
    <3>2. Adrift' \subseteq Adrift \cup {event[w]} /\ faults' = faults + 1
      BY <3>1, OneLost
    <3>3. IsFiniteSet(Adrift)
      BY DEF AdriftInv
    <3>4. IsFiniteSet(Adrift') /\ Cardinality(Adrift) \in Nat /\ Cardinality(Adrift') \in Nat
          /\ Cardinality(Adrift') <= Cardinality(Adrift) + 1
      BY <3>2, <3>3, OneMore
    <3> QED
      BY <3>2, <3>4 DEF AdriftInv
  <2>2. CASE ~\E w \in Workers : Crash(w)
    <3>1. Adrift' \subseteq Adrift
      BY <2>2, NothingLost
    <3>2. faults' \in Nat /\ faults' >= faults
      BY DEF AdriftInv, Next, Publish, HandOff, HandOffLost, Rekey, Step, PollSubscribe, RedisSubscribe,
         PassOver, Reject, Claim, ClaimedBy, ClaimLost, BeginHandler, NotTheOwner, Handle, Finish,
         StrayDispatch, Crash, Fault
    <3>3. IsFiniteSet(Adrift)
      BY DEF AdriftInv
    <3>4. IsFiniteSet(Adrift') /\ Cardinality(Adrift') <= Cardinality(Adrift)
          /\ Cardinality(Adrift) \in Nat /\ Cardinality(Adrift') \in Nat
      BY <3>1, <3>3, FS_Subset, FS_CardinalityType
    <3> QED
      BY <3>2, <3>4 DEF AdriftInv
  <2> QED
    BY <2>1, <2>2
<1>3. AdriftInv => FaultLosesOne
  BY DEF AdriftInv, FaultLosesOne
<1> QED
  BY <1>1, <1>2, <1>3, IInvAlways, PTL DEF Spec
=============================================================================
