--------------------------- MODULE RetrySoloProofs --------------------------
(***************************************************************************)
(* What RetryQueue guarantees when one daemon drains the queue, as the     *)
(* charts deploy it, for any rows, attempts, faults and bounds.            *)
(*                                                                         *)
(* Nobody else touches a row between its SELECT and the record of its run, *)
(* so that what was read of it is what it is (FreshInv), and each run is   *)
(* counted once (CountInv).  The last section gives two statements of the  *)
(* documentation under the conditions that make them true.                 *)
(***************************************************************************)
EXTENDS RetryQueueProofs

USE DEF vars, table, schedule, locals, history, Status, Pending

Solo == \A c, d \in Daemons : c = d

(* The rows that are yet to be run, or expired, are as they were read; the *)
(* row that is run is pending or, once claimed, running.                   *)
Fresh(d, r) == Pending(r) /\ seen[d][r] = row[r].attempt

FreshOf(d) ==
    /\ pc[d] \in {"expiring", "next"} => \A r \in list[d] : Fresh(d, r)
    /\ pc[d] = "claim" => Fresh(d, hand[d])
    /\ pc[d] \in {"run", "record"} =>
          /\ seen[d][hand[d]] = row[hand[d]].attempt
          /\ Kind(hand[d]) = "deferred" =>
                Pending(hand[d]) /\ \A r \in list[d] : r # hand[d] /\ Fresh(d, r)
          /\ Kind(hand[d]) = "backoff" => Status(hand[d]) = "running"
    /\ pc[d] = "record" => result[hand[d]] = outcome[d]

FreshInv == \A d \in Daemons : FreshOf(d)

(* A run that a crash cut short leaves a deferred row pending, and is not  *)
(* counted: its attempt is then below its runs.                            *)
CountOf(r) ==
    /\ Status(r) = "absent" => tries[r] = 0
    /\ Kind(r) = "backoff" =>
          /\ Status(r) \in {"pending", "dead"} => row[r].attempt = tries[r] + 1
          /\ Status(r) = "running" => row[r].attempt = tries[r]
    /\ Kind(r) = "deferred" =>
          /\ row[r].attempt <= tries[r]
          /\ \A d \in Daemons : Runs(d, r) => row[r].attempt < tries[r]
    /\ Status(r) = "dead" => row[r].attempt >= MaxAttempts /\ result[r] = "raised"

CountInv == \A r \in Rows : CountOf(r)

SoloInv == FreshInv /\ CountInv

SIInv == IInv /\ SoloInv

LEMMA InitSolo == Init => SoloInv
<1> SUFFICES ASSUME Init PROVE SoloInv
  OBVIOUS
<1>1. FreshInv
  BY DEF Init, FreshInv, FreshOf
<1>2. CountInv
  BY DEF Init, CountInv, CountOf, Kind, Runs
<1> QED
  BY <1>1, <1>2 DEF SoloInv

-----------------------------------------------------------------------------
(* Steps in which the daemon does not move.                                *)

(* A row is left alone, put in the queue, or purged when it is dead.       *)
LeftAlone(r) == row'[r] = row[r]

PutIn(r) ==
    /\ Status(r) = "absent" /\ Status(r)' = "pending"
    /\ \/ Kind(r)' = "backoff" /\ row'[r].attempt = 1
       \/ Kind(r)' = "deferred" /\ row'[r].attempt = 0

Purged(r) ==
    /\ Status(r) = "dead" /\ Status(r)' = "purged"
    /\ Kind(r)' = Kind(r) /\ row'[r].attempt = row[r].attempt

LEMMA QuietSolo ==
    ASSUME SIInv, UNCHANGED <<pc, locals, history>>,
           \A r \in Rows : LeftAlone(r) \/ PutIn(r) \/ Purged(r)
    PROVE  SoloInv'
<1> USE DEF SIInv, SoloInv
<1>1. ASSUME NEW d \in Daemons, NEW r \in Rows, Fresh(d, r) PROVE Fresh(d, r)' /\ Kind(r)' = Kind(r)
  BY <1>1 DEF Fresh, LeftAlone, PutIn, Purged, Kind
<1>2. FreshInv'
  <2> SUFFICES ASSUME NEW d \in Daemons PROVE FreshOf(d)'
    BY DEF FreshInv
  <2> USE DEF FreshInv, FreshOf
  <2>1. list[d] \subseteq Rows
    BY DEF IInv, TypeOK
  <2>2. pc[d] \in {"expiring", "next"} => \A r \in list[d] : Fresh(d, r)'
    BY <1>1, <2>1
  <2>3. pc[d] = "claim" => Fresh(d, hand[d])'
    BY <1>1 DEF IInv, HandInv
  <2>4. CASE pc[d] \in {"run", "record"}
    <3>1. hand[d] \in Rows /\ Kind(hand[d]) \in Kinds
      BY <2>4 DEF IInv, HandInv, TypeOK, Kind
    <3>2. LeftAlone(hand[d])
      BY <2>4, <3>1 DEF LeftAlone, PutIn, Purged, Kinds, Kind
    <3>3. Kind(hand[d])' = Kind(hand[d]) /\ Status(hand[d])' = Status(hand[d])
          /\ row'[hand[d]].attempt = row[hand[d]].attempt
      BY <3>2 DEF LeftAlone, Kind
    <3> QED
      BY <1>1, <2>1, <2>2, <2>3, <2>4, <3>3
  <2> QED
    BY <2>2, <2>3, <2>4
<1>3. CountInv'
  <2> SUFFICES ASSUME NEW r \in Rows PROVE CountOf(r)'
    BY DEF CountInv
  <2> USE DEF CountInv, CountOf, Kind
  <2>1. \A d \in Daemons : Runs(d, r)' <=> Runs(d, r)
    BY DEF Runs
  <2>2. CASE LeftAlone(r)
    BY <2>1, <2>2 DEF LeftAlone
  <2>3. CASE PutIn(r)
    <3>1. \A d \in Daemons : ~Runs(d, r)
      BY <2>3 DEF PutIn, IInv, HandInv, Runs
    <3> QED
      BY <2>1, <2>3, <3>1 DEF PutIn
  <2>4. CASE Purged(r)
    BY <2>1, <2>4 DEF Purged
  <2> QED
    BY <2>2, <2>3, <2>4
<1> QED
  BY <1>2, <1>3

(* Only the daemon changes a row that is settled, save for the purge.      *)
Settles == \A r \in Rows : Status(r) \in Settled => Status(r)' \in {Status(r), "purged"}

LEMMA QuietSteps ==
    ASSUME SIInv,
           Enqueue \/ EnqueueDeferred \/ Purge \/ \E r \in Rows : BecomesDue(r) \/ Ages(r)
    PROVE  SoloInv' /\ Settles
<1>1. UNCHANGED <<pc, locals, history>>
  BY DEF Enqueue, EnqueueDeferred, Purge, BecomesDue, Ages
<1>2. \A r \in Rows : LeftAlone(r) \/ PutIn(r) \/ Purged(r)
  <2>1. CASE Enqueue
    <3>1. TypeOK /\ "backoff" \in Kinds /\ Insert("backoff", 1)
      BY <2>1 DEF SIInv, IInv, Kinds, Enqueue
    <3>2. PICK r \in Rows :
            /\ Status(r) = "absent"
            /\ row'[r] = [status |-> "pending", kind |-> "backoff", attempt |-> 1]
            /\ \A s \in Rows : s # r => row'[s] = row[s]
      BY <3>1, InsertEffect
    <3> QED
      BY <3>2 DEF LeftAlone, PutIn, Kind
  <2>2. CASE EnqueueDeferred
    <3>1. TypeOK /\ "deferred" \in Kinds /\ Insert("deferred", 0)
      BY <2>2 DEF SIInv, IInv, Kinds, EnqueueDeferred
    <3>2. PICK r \in Rows :
            /\ Status(r) = "absent"
            /\ row'[r] = [status |-> "pending", kind |-> "deferred", attempt |-> 0]
            /\ \A s \in Rows : s # r => row'[s] = row[s]
      BY <3>1, InsertEffect
    <3> QED
      BY <3>2 DEF LeftAlone, PutIn, Kind
  <2>3. CASE Purge
    BY <2>3 DEF SIInv, IInv, TypeOK, Purge, LeftAlone, Purged, Kind
  <2>4. CASE \E r \in Rows : BecomesDue(r) \/ Ages(r)
    BY <2>4 DEF BecomesDue, Ages, LeftAlone
  <2> QED
    BY <2>1, <2>2, <2>3, <2>4
<1>3. Settles
  BY <1>2 DEF Settles, Settled, LeftAlone, PutIn, Purged
<1> QED
  BY <1>1, <1>2, <1>3, QuietSolo

-----------------------------------------------------------------------------
(* The steps of the daemon, when it is the only one.                       *)

LEMMA OneDaemon ==
    ASSUME Solo, NEW d \in Daemons
    PROVE  /\ SoloInv => FreshOf(d) /\ \A r \in Rows : CountOf(r)
           /\ FreshOf(d)' /\ (\A r \in Rows : CountOf(r)') => SoloInv'
<1>1. \A c \in Daemons : c = d
  BY DEF Solo
<1>2. SoloInv => FreshOf(d) /\ \A r \in Rows : CountOf(r)
  BY DEF SoloInv, FreshInv, CountInv
<1>3. FreshOf(d)' => FreshInv'
  BY <1>1 DEF FreshInv
<1>4. (\A r \in Rows : CountOf(r)') => CountInv'
  BY DEF CountInv
<1> QED
  BY <1>2, <1>3, <1>4 DEF SoloInv

(* A daemon that only reads, and runs nothing.                             *)
LEMMA ReadSteps ==
    ASSUME SIInv, Solo, NEW d \in Daemons,
           ExpireRead(d) \/ DeferredRead(d) \/ BackoffRead(d)
    PROVE  SoloInv' /\ Settles
<1> USE DEF SIInv
<1>0. /\ UNCHANGED <<row, history>>
      /\ pc[d] \in {"idle", "deferred", "backoff"}
      /\ TypeOK
  BY DEF ExpireRead, DeferredRead, BackoffRead, IInv
<1>1. PICK S \in SUBSET Rows :
        /\ Select(d, S)
        /\ pc'[d] \in {"expiring", "next", "claim", "idle"}
        /\ pc'[d] \in {"expiring", "next", "claim"} => \A q \in S : Pending(q)
        /\ pc'[d] = "claim" => hand'[d] \in S
  <2>1. CASE ExpireRead(d)
    <3> DEFINE S == {r \in Rows : Expirable(r)}
    <3>1. S \in SUBSET Rows /\ Select(d, S) /\ pc'[d] = "expiring" /\ \A r \in S : Pending(r)
      BY <1>0, <2>1 DEF ExpireRead, Expirable, Goto, TypeOK
    <3> QED
      BY <3>1
  <2>2. CASE DeferredRead(d)
    <3> DEFINE S == {r \in Rows : Pending(r) /\ r \in overdue /\ row[r].kind = "deferred"}
    <3>1. S \in SUBSET Rows /\ Select(d, S) /\ pc'[d] = "next" /\ \A r \in S : Pending(r)
      BY <1>0, <2>2 DEF DeferredRead, Goto, TypeOK
    <3> QED
      BY <3>1
  <2>3. ASSUME BackoffRead(d), NEW r \in Rows, Drainable(r), hand' = [hand EXCEPT ![d] = r],
               Select(d, {r}), Goto(d, "claim")
        PROVE  \E S \in SUBSET Rows :
                 /\ Select(d, S)
                 /\ pc'[d] \in {"expiring", "next", "claim", "idle"}
                 /\ pc'[d] \in {"expiring", "next", "claim"} => \A q \in S : Pending(q)
                 /\ pc'[d] = "claim" => hand'[d] \in S
    <3>1. {r} \in SUBSET Rows /\ pc'[d] = "claim" /\ hand'[d] = r /\ \A q \in {r} : Pending(q)
      BY <1>0, <2>3 DEF Drainable, Goto, TypeOK
    <3> QED
      BY <2>3, <3>1
  <2>4. CASE Goto(d, "idle") /\ Select(d, {})
    <3>1. {} \in SUBSET Rows /\ pc'[d] = "idle"
      BY <1>0, <2>4 DEF Goto, TypeOK
    <3> QED
      BY <2>4, <3>1
  <2> QED
    BY <2>1, <2>2, <2>3, <2>4 DEF BackoffRead
<1>2. list'[d] = S /\ \A r \in S : seen'[d][r] = row[r].attempt
  BY <1>0, <1>1, SelectTypes
<1>3. FreshOf(d)'
  BY <1>0, <1>1, <1>2 DEF FreshOf, Fresh
<1>4. \A r \in Rows : CountOf(r)'
  <2>1. \A r \in Rows : CountOf(r)
    BY OneDaemon
  <2>2. \A r \in Rows : ~Runs(d, r)'
    BY <1>1 DEF Runs
  <2> QED
    BY <1>0, <2>1, <2>2 DEF Solo, CountOf, Kind
<1>5. Settles
  BY <1>0 DEF Settles
<1> QED
  BY <1>3, <1>4, <1>5, OneDaemon

(* What is expired was pending when it was read, and still is.             *)
LEMMA ExpireSolo ==
    ASSUME SIInv, Solo, NEW d \in Daemons, ExpireWrite(d)
    PROVE  SoloInv' /\ Settles
<1> USE DEF SIInv
<1>1. /\ pc[d] = "expiring" /\ pc'[d] = "deferred" /\ UNCHANGED history
      /\ list[d] \subseteq Rows
  BY DEF IInv, TypeOK, ExpireWrite, Goto
<1>2. FreshOf(d) /\ \A r \in Rows : CountOf(r)
  BY OneDaemon
<1>3. \A r \in Rows :
        \/ row'[r] = row[r]
        \/ /\ Status(r) = "pending" /\ Status(r)' = "expired"
           /\ Kind(r)' = Kind(r) /\ row'[r].attempt = row[r].attempt
  BY <1>1, <1>2 DEF IInv, TypeOK, ExpireWrite, FreshOf, Fresh, Kind
<1>4. FreshOf(d)'
  BY <1>1 DEF FreshOf
<1>5. \A r \in Rows : CountOf(r)'
  BY <1>1, <1>2, <1>3 DEF Solo, CountOf, Runs, Kind
<1>6. Settles
  BY <1>3 DEF Settles, Settled
<1> QED
  BY <1>4, <1>5, <1>6, OneDaemon

LEMMA DeferredSolo ==
    ASSUME SIInv, Solo, NEW d \in Daemons, DeferredNext(d)
    PROVE  SoloInv' /\ Settles
<1> USE DEF SIInv
<1>0. row' = row /\ seen' = seen /\ result' = result /\ pc[d] = "next" /\ TypeOK
  BY DEF DeferredNext, IInv
<1>1. FreshOf(d) /\ \A r \in Rows : CountOf(r)
  BY OneDaemon
<1>2. ASSUME NEW r \in list[d], Begin(d, r), list' = [list EXCEPT ![d] = @ \ {r}]
      PROVE  FreshOf(d)' /\ \A q \in Rows : CountOf(q)'
  <2>1. /\ r \in Rows /\ Kind(r) = "deferred"
        /\ pc'[d] = "run" /\ hand'[d] = r /\ list'[d] = list[d] \ {r}
        /\ tries' = [tries EXCEPT ![r] = @ + 1] /\ tries[r] \in Nat /\ row[r].attempt \in Nat
    BY <1>0, <1>2 DEF IInv, HandInv, TypeOK, Begin, Goto
  <2>2. FreshOf(d)'
    BY <1>0, <1>1, <1>2, <2>1 DEF FreshOf, Fresh, Kind
  <2>3. CountOf(r)'
    <3>1. tries'[r] = tries[r] + 1 /\ Status(r) = "pending" /\ row[r].attempt <= tries[r]
      BY <1>0, <1>1, <1>2, <2>1 DEF TypeOK, FreshOf, Fresh, CountOf
    <3> QED
      BY <1>0, <2>1, <3>1 DEF Solo, CountOf, Kind
  <2>4. ASSUME NEW q \in Rows, q # r PROVE CountOf(q)'
    <3>1. tries'[q] = tries[q] /\ ~Runs(d, q)'
      BY <1>0, <2>1, <2>4 DEF TypeOK, Runs
    <3> QED
      BY <1>0, <1>1, <3>1 DEF Solo, CountOf, Kind
  <2> QED
    BY <2>2, <2>3, <2>4
<1>3. ASSUME Goto(d, "backoff"), UNCHANGED tries
      PROVE  FreshOf(d)' /\ \A r \in Rows : CountOf(r)'
  <2>1. pc'[d] = "backoff"
    BY <1>0, <1>3 DEF TypeOK, Goto
  <2>2. FreshOf(d)'
    BY <2>1 DEF FreshOf
  <2>3. \A r \in Rows : ~Runs(d, r)'
    BY <2>1 DEF Runs
  <2> QED
    BY <1>0, <1>1, <1>3, <2>2, <2>3 DEF Solo, CountOf, Kind
<1>4. Settles
  BY <1>0 DEF Settles
<1> QED
  BY <1>2, <1>3, <1>4, OneDaemon DEF DeferredNext

(* The row is as pending as it was when it was read: the claim succeeds.   *)
LEMMA ClaimSolo ==
    ASSUME SIInv, Solo, NEW d \in Daemons, Claim(d)
    PROVE  SoloInv' /\ Settles
<1> USE DEF SIInv
<1>1. FreshOf(d) /\ \A r \in Rows : CountOf(r)
  BY OneDaemon
<1>2. PICK r \in Rows : r = hand[d] /\ Kind(r) = "backoff" /\ Fresh(d, r) /\ pc[d] = "claim"
  BY <1>1 DEF IInv, HandInv, Claim, FreshOf
<1>3. /\ row' = [row EXCEPT ![r].status = "running"] /\ Begin(d, r)
      /\ UNCHANGED <<list, seen, result>>
  BY <1>2 DEF Claim, CanClaim, Fresh
<1>4. /\ pc'[d] = "run" /\ hand'[d] = r /\ tries'[r] = tries[r] + 1
      /\ Status(r)' = "running" /\ Kind(r)' = Kind(r) /\ row'[r].attempt = row[r].attempt
      /\ \A q \in Rows : q # r => row'[q] = row[q] /\ tries'[q] = tries[q] /\ ~Runs(d, q)'
  BY <1>2, <1>3 DEF IInv, TypeOK, Begin, Goto, Runs, Kind
<1>5. FreshOf(d)'
  BY <1>2, <1>3, <1>4 DEF FreshOf, Fresh, Kind
<1>6. CountOf(r)'
  BY <1>1, <1>2, <1>4 DEF Solo, CountOf, Fresh, Kind
<1>7. ASSUME NEW q \in Rows, q # r PROVE CountOf(q)'
  BY <1>1, <1>3, <1>4, <1>7 DEF Solo, CountOf, Kind
<1>8. Settles
  BY <1>2, <1>4 DEF Settles, Settled, Fresh
<1> QED
  BY <1>5, <1>6, <1>7, <1>8, OneDaemon

LEMMA RunSolo ==
    ASSUME SIInv, Solo, NEW d \in Daemons, RunReturns(d) \/ RunRaises(d)
    PROVE  SoloInv' /\ Settles
<1> USE DEF SIInv
<1>1. FreshOf(d) /\ \A r \in Rows : CountOf(r)
  BY OneDaemon
<1>2. PICK o \in Outcomes : Ends(d, o) /\ pc[d] = "run"
  BY DEF RunReturns, RunRaises, Outcomes
<1>3. PICK r \in Rows : r = hand[d] /\ Status(r) \in {"pending", "running"}
  BY <1>1, <1>2 DEF IInv, HandInv, TypeOK, FreshOf, Kinds, Kind
<1>4. /\ outcome'[d] = o /\ result'[r] = o /\ \A q \in Rows : q # r => result'[q] = result[q]
      /\ pc'[d] = "record" /\ UNCHANGED <<row, hand, list, seen, tries>>
  BY <1>2, <1>3 DEF IInv, TypeOK, Ends, Goto
<1>5. FreshOf(d)'
  BY <1>1, <1>2, <1>3, <1>4 DEF FreshOf, Fresh, Kind
<1>6. \A q \in Rows : CountOf(q)'
  BY <1>1, <1>2, <1>3, <1>4 DEF Solo, CountOf, Runs, Kind
<1>7. Settles
  BY <1>4 DEF Settles
<1> QED
  BY <1>5, <1>6, <1>7, OneDaemon

-----------------------------------------------------------------------------
(* The record of a run.                                                    *)

(* The row is in the table, pending or running, when its run is recorded;  *)
(* it becomes done, dead as the code has it, or pending once more.         *)
LEMMA RecordRow ==
    ASSUME SIInv, Solo, NEW d \in Daemons, Record(d), NEW r \in Rows, r = hand[d]
    PROVE  /\ Status(r) \in {"pending", "running"}
           /\ Kind(r) = "deferred" => row[r].attempt < tries[r]
           /\ Kind(r) = "backoff" => row[r].attempt = tries[r]
           /\ Kind(r)' = Kind(r)
           /\ \A q \in Rows : q # r => row'[q] = row[q]
           /\ \/ Status(r)' = "done" /\ row'[r].attempt = row[r].attempt
              \/ Status(r)' = "pending" /\ row'[r].attempt = row[r].attempt + 1
              \/ /\ Status(r)' = "dead" /\ row'[r].attempt = row[r].attempt + 1
                 /\ row'[r].attempt >= MaxAttempts /\ result[r] = "raised"
<1> USE DEF SIInv
<1>1. FreshOf(d) /\ CountOf(r) /\ pc[d] = "record" /\ TypeOK
  BY OneDaemon DEF IInv, Record, RecordDone, RecordQuota, RecordFailure
<1>2. /\ seen[d][r] = row[r].attempt /\ result[r] = outcome[d] /\ Kind(r) \in Kinds
      /\ Status(r) \in {"pending", "running"}
      /\ Kind(r) = "backoff" => Status(r) = "running"
  BY <1>1 DEF FreshOf, TypeOK, Kinds, Kind
<1>3. /\ Kind(r) = "deferred" => row[r].attempt < tries[r]
      /\ Kind(r) = "backoff" => row[r].attempt = tries[r]
  BY <1>1, <1>2 DEF Solo, CountOf, Runs
<1>4. NewAttempt(d) = row[r].attempt + 1 /\ NewAttempt(d) \in Nat /\ row[r].attempt \in Nat
  BY <1>1, <1>2 DEF NewAttempt, TypeOK
<1>5. \/ Update(r, "done", row[r].attempt)
      \/ Update(r, "pending", NewAttempt(d))
      \/ Update(r, "dead", NewAttempt(d)) /\ outcome[d] = "raised" /\ NewAttempt(d) >= MaxAttempts
  BY DEF Record, RecordDone, RecordQuota, RecordFailure, Exhausted
<1>6. PICK s \in Statuses, a \in Nat :
        /\ Update(r, s, a)
        /\ \/ s = "done" /\ a = row[r].attempt
           \/ s = "pending" /\ a = row[r].attempt + 1
           \/ /\ s = "dead" /\ a = row[r].attempt + 1
              /\ a >= MaxAttempts /\ result[r] = "raised"
  BY <1>2, <1>4, <1>5 DEF Statuses
<1>7. /\ \A q \in Rows : q # r => row'[q] = row[q]
      /\ Kind(r)' = Kind(r) /\ Status(r)' = s /\ row'[r].attempt = a
  BY <1>1, <1>2, <1>6, UpdateEffect
<1> QED
  BY <1>2, <1>3, <1>6, <1>7

LEMMA RecordSolo ==
    ASSUME SIInv, Solo, NEW d \in Daemons, Record(d)
    PROVE  SoloInv' /\ Settles
<1>1. PICK r \in Rows : r = hand[d] /\ pc[d] = "record"
  BY RecordEffect DEF SIInv
<1>2. FreshOf(d) /\ \A q \in Rows : CountOf(q)
  BY OneDaemon DEF SIInv
<1>3. TypeOK /\ Kind(r) \in Kinds /\ UNCHANGED history
  BY RecordEffect DEF SIInv, IInv, TypeOK, Kind
<1>4. \/ /\ Kind(r) = "deferred" /\ pc'[d] = "next" /\ list'[d] = list[d] /\ seen' = seen
      \/ pc'[d] = "idle"
  BY <1>1, <1>3, RecordEffect DEF SIInv, TypeOK, Recorded, Goto, Kind
<1>5. FreshOf(d)'
  <2>1. CASE pc'[d] = "idle"
    BY <2>1 DEF FreshOf
  <2>2. CASE Kind(r) = "deferred" /\ pc'[d] = "next" /\ list'[d] = list[d] /\ seen' = seen
    <3>1. \A q \in list[d] : q \in Rows /\ q # r /\ Fresh(d, q)
      BY <1>1, <1>2, <1>3, <2>2 DEF FreshOf, TypeOK
    <3>2. \A q \in list[d] : Fresh(d, q)'
      BY <1>1, <2>2, <3>1, RecordRow DEF Fresh
    <3> QED
      BY <2>2, <3>2 DEF FreshOf
  <2> QED
    BY <1>4, <2>1, <2>2
<1>6. \A q \in Rows : ~Runs(d, q)'
  BY <1>4 DEF Runs
<1>7. CountOf(r)'
  <2>1. row[r].attempt \in Nat /\ tries[r] \in Nat
    BY <1>3 DEF TypeOK
  <2> QED
    BY <1>1, <1>2, <1>3, <1>6, <2>1, RecordRow DEF Solo, CountOf, Kinds, Kind
<1>8. ASSUME NEW q \in Rows, q # r PROVE CountOf(q)'
  <2>1. row'[q] = row[q]
    BY <1>1, <1>8, RecordRow
  <2> QED
    BY <1>2, <1>3, <1>6, <2>1 DEF Solo, CountOf, Kind
<1>9. Settles
  <2>1. /\ Status(r) \in {"pending", "running"}
        /\ \A q \in Rows : q # r => row'[q] = row[q]
    BY <1>1, RecordRow
  <2> QED
    BY <2>1 DEF Settles, Settled
<1> QED
  BY <1>5, <1>7, <1>8, <1>9, OneDaemon

LEMMA CrashSolo ==
    ASSUME SIInv, Solo, NEW d \in Daemons, Crash(d)
    PROVE  SoloInv' /\ Settles
<1>1. pc'[d] = "idle" /\ UNCHANGED <<row, history>>
  BY DEF SIInv, IInv, TypeOK, Crash, Goto
<1>2. FreshOf(d)' /\ \A q \in Rows : ~Runs(d, q)'
  BY <1>1 DEF FreshOf, Runs
<1>3. \A q \in Rows : CountOf(q)
  BY OneDaemon DEF SIInv
<1>4. \A q \in Rows : CountOf(q)'
  BY <1>1, <1>2, <1>3 DEF Solo, CountOf, Kind
<1>5. Settles
  BY <1>1 DEF Settles
<1> QED
  BY <1>2, <1>4, <1>5, OneDaemon

-----------------------------------------------------------------------------
(* What one daemon guarantees.                                             *)

LEMMA NextSolo == Solo /\ SIInv /\ [Next]_vars => SoloInv' /\ Settles
<1> SUFFICES ASSUME Solo, SIInv, [Next]_vars PROVE SoloInv' /\ Settles
  OBVIOUS
<1>1. CASE Enqueue \/ EnqueueDeferred \/ Purge \/ \E r \in Rows : BecomesDue(r) \/ Ages(r)
  BY <1>1, QuietSteps
<1>2. ASSUME NEW d \in Daemons, Tick(d) PROVE SoloInv' /\ Settles
  BY <1>2, ReadSteps, ExpireSolo, DeferredSolo, ClaimSolo, RunSolo, RecordSolo DEF Tick, Record
<1>3. CASE \E d \in Daemons : Crash(d)
  BY <1>3, CrashSolo
<1>4. CASE UNCHANGED vars
  <2>1. SoloInv'
    BY <1>4 DEF SIInv, SoloInv, FreshInv, FreshOf, Fresh, CountInv, CountOf, Runs, Kind
  <2>2. Settles
    BY <1>4 DEF Settles
  <2> QED
    BY <2>1, <2>2
<1> QED
  BY <1>1, <1>2, <1>3, <1>4 DEF Next

THEOREM SoloInvariant == Solo => (Spec => []SIInv)
<1> SUFFICES ASSUME Solo PROVE Spec => []SIInv
  OBVIOUS
<1>1. Init => SIInv
  BY InitIInv, InitSolo DEF SIInv
<1>2. SIInv /\ [Next]_vars => SIInv'
  BY NextIInv, NextSolo DEF SIInv
<1> QED
  BY <1>1, <1>2, PTL DEF Spec

(* A backoff row that waits or is dead tells how often its task was run:   *)
(* once by the schedule, and each time from the queue (mark_retry).        *)
THEOREM AttemptsAreCounted == Solo => (Spec => []AttemptsCounted)
<1> SUFFICES ASSUME Solo PROVE Spec => []AttemptsCounted
  OBVIOUS
<1>1. SIInv => AttemptsCounted
  BY DEF SIInv, SoloInv, CountInv, CountOf, AttemptsCounted, Kind
<1> QED
  BY <1>1, SoloInvariant, PTL

(* A dead row has used up its attempts, each of them a run of its task,    *)
(* the last of which raised (max_attempts, mark_dead).                     *)
THEOREM DeadAreExhausted == Solo => (Spec => []DeadIsExhausted)
<1> SUFFICES ASSUME Solo PROVE Spec => []DeadIsExhausted
  OBVIOUS
<1>1. ASSUME SIInv, NEW r \in Rows, Status(r) = "dead"
      PROVE  /\ row[r].attempt >= MaxAttempts
             /\ tries[r] >= row[r].attempt - (IF row[r].kind = "backoff" THEN 1 ELSE 0)
             /\ result[r] = "raised"
  <2>1. row[r].attempt \in Nat /\ tries[r] \in Nat /\ row[r].kind \in Kinds
    BY <1>1 DEF SIInv, IInv, TypeOK
  <2> QED
    BY <1>1, <2>1 DEF SIInv, SoloInv, CountInv, CountOf, Kinds, Kind
<1>2. SIInv => DeadIsExhausted
  BY <1>1 DEF DeadIsExhausted
<1> QED
  BY <1>2, SoloInvariant, PTL

(* Nothing happens to a row that is done, dead or expired, but that a dead *)
(* one is purged (mark_done, mark_dead, expire_stale, purge_dead).         *)
THEOREM SettlesForGood == Solo => (Spec => SettledForGood)
<1> SUFFICES ASSUME Solo PROVE Spec => SettledForGood
  OBVIOUS
<1>1. SIInv /\ [Next]_vars => [Settles]_vars
  BY NextSolo
<1>2. [Settles]_vars =>
        [\A r \in Rows : Status(r) \in Settled => Status(r)' \in {Status(r), "purged"}]_vars
  BY DEF Settles
<1> QED
  BY <1>1, <1>2, SoloInvariant, PTL DEF Spec, SettledForGood
-----------------------------------------------------------------------------
(* What is said of the queue and fails with more daemons, or other faults, *)
(* than here.                                                              *)

(* How one daemon changes a row, and the result of its last run.           *)
Written(r) ==
    \/ row'[r] = row[r] /\ result'[r] = result[r]
    \/ Status(r)' \notin {"done", "expired"}
    \/ Status(r)' = "expired" /\ Status(r) = "pending"
    \/ /\ Status(r)' = "done"
       /\ \E d \in Daemons : outcome[d] \in {"succeeded", "failed"} /\ result'[r] = outcome[d]

LEMMA QuietWrites ==
    ASSUME SIInv,
           Enqueue \/ EnqueueDeferred \/ Purge \/ \E r \in Rows : BecomesDue(r) \/ Ages(r),
           NEW r \in Rows
    PROVE  Written(r) /\ outcome' = outcome
<1>0. TypeOK
  BY DEF SIInv, IInv
<1>1. CASE Enqueue \/ EnqueueDeferred
  BY <1>0, <1>1 DEF TypeOK, Enqueue, EnqueueDeferred, Insert, Written
<1>2. CASE Purge
  BY <1>0, <1>2 DEF TypeOK, Purge, Written
<1>3. CASE \E q \in Rows : BecomesDue(q) \/ Ages(q)
  BY <1>3 DEF BecomesDue, Ages, Written
<1> QED
  BY <1>1, <1>2, <1>3

LEMMA TickWrites ==
    ASSUME SIInv, Solo, NEW d \in Daemons, Tick(d), NEW r \in Rows
    PROVE  Written(r)
<1>0. TypeOK /\ FreshOf(d)
  BY OneDaemon DEF SIInv, IInv
<1>1. CASE ExpireRead(d) \/ DeferredRead(d) \/ DeferredNext(d) \/ BackoffRead(d)
  BY <1>1 DEF ExpireRead, DeferredRead, DeferredNext, BackoffRead, Written
<1>2. CASE ExpireWrite(d)
  <2>1. \A q \in list[d] : Pending(q)
    BY <1>0, <1>2 DEF ExpireWrite, FreshOf, Fresh
  <2>2. \/ Status(r)' = "expired" /\ Status(r) = "pending"
        \/ row'[r] = row[r] /\ result'[r] = result[r]
    BY <1>0, <1>2, <2>1 DEF TypeOK, ExpireWrite
  <2> QED
    BY <2>2 DEF Written
<1>3. CASE Claim(d)
  BY <1>0, <1>3 DEF TypeOK, Claim, Written
<1>4. CASE RunReturns(d) \/ RunRaises(d)
  <2>1. /\ pc[d] = "run" /\ row' = row /\ hand[d] \in Rows
        /\ \A q \in Rows : q # hand[d] => result'[q] = result[q]
    BY <1>0, <1>4 DEF SIInv, IInv, HandInv, TypeOK, RunReturns, RunRaises, Ends
  <2>2. Status(hand[d]) \in {"pending", "running"}
    BY <1>0, <2>1 DEF FreshOf, TypeOK, Kinds, Kind
  <2> QED
    BY <2>1, <2>2 DEF Written
<1>5. CASE Record(d)
  <2>1. hand[d] \in Rows /\ pc[d] = "record" /\ result' = result
    BY <1>5, RecordEffect DEF SIInv
  <2>2. result[hand[d]] = outcome[d]
    BY <1>0, <2>1 DEF FreshOf
  <2>3. CASE r # hand[d]
    BY <1>5, <2>1, <2>3, RecordRow DEF Written
  <2>4. CASE r = hand[d] /\ RecordDone(d)
    BY <1>0, <2>1, <2>2, <2>4 DEF TypeOK, RecordDone, Update, Written
  <2>5. CASE r = hand[d] /\ (RecordQuota(d) \/ RecordFailure(d))
    <3>1. Status(r) \in {"pending", "running"}
      BY <1>5, <2>5, RecordRow
    <3>2. Status(r)' \in {"pending", "dead"}
      BY <1>0, <2>1, <2>5, <3>1 DEF TypeOK, RecordQuota, RecordFailure, Update
    <3> QED
      BY <3>2 DEF Written
  <2> QED
    BY <1>5, <2>3, <2>4, <2>5 DEF Record
<1> QED
  BY <1>1, <1>2, <1>3, <1>4, <1>5 DEF Tick, Record

LEMMA NextWrites ==
    ASSUME SIInv, Solo, [Next]_vars, NEW r \in Rows
    PROVE  Written(r)
<1>1. CASE UNCHANGED vars
  BY <1>1 DEF Written
<1>2. CASE \E d \in Daemons : Crash(d)
  BY <1>2 DEF Crash, Written
<1> QED
  BY <1>1, <1>2, QuietWrites, TickWrites DEF Next

(* expire_stale "only ever touches status='pending' rows": so it does when *)
(* no other daemon can claim a row between its two transactions.           *)
THEOREM ExpiresPendingAlone == Solo => (Spec => ExpiresPending)
<1> SUFFICES ASSUME Solo PROVE Spec => ExpiresPending
  OBVIOUS
<1>1. SIInv /\ [Next]_vars =>
        [\A r \in Rows : Status(r)' = "expired" => Status(r) \in {"pending", "expired"}]_vars
  <2> SUFFICES ASSUME SIInv, [Next]_vars, NEW r \in Rows, Status(r)' = "expired"
               PROVE  Status(r) \in {"pending", "expired"}
    OBVIOUS
  <2> QED
    BY NextWrites DEF Written
<1> QED
  BY <1>1, SoloInvariant, PTL DEF Spec, ExpiresPending

(* A run that does not raise succeeds.                                     *)
DoneInv == DoneSucceeded /\ \A d \in Daemons : outcome[d] # "failed"

LEMMA NextDone == Solo /\ "failure" \notin Faults /\ SIInv /\ DoneInv /\ [Next]_vars => DoneInv'
<1> SUFFICES ASSUME Solo, "failure" \notin Faults, SIInv, DoneInv, [Next]_vars PROVE DoneInv'
  OBVIOUS
<1>0. TypeOK
  BY DEF SIInv, IInv
<1>1. ASSUME NEW r \in Rows, Status(r)' = "done" PROVE result'[r] = "succeeded"
  <2>1. \A d \in Daemons : outcome[d] \in Outcomes \ {"failed"}
    BY <1>0 DEF TypeOK, DoneInv
  <2> QED
    BY <1>1, <2>1, NextWrites DEF Written, DoneInv, DoneSucceeded, Outcomes
<1>2. ASSUME NEW c \in Daemons PROVE outcome'[c] # "failed"
  <2>1. CASE Enqueue \/ EnqueueDeferred \/ Purge \/ \E r \in Rows : BecomesDue(r) \/ Ages(r)
    BY <2>1 DEF Enqueue, EnqueueDeferred, Purge, BecomesDue, Ages, DoneInv
  <2>2. ASSUME NEW d \in Daemons, Tick(d) \/ Crash(d) PROVE outcome'[c] # "failed"
    BY <1>0, <2>2 DEF TypeOK, Tick, Crash, ExpireRead, ExpireWrite, DeferredRead, DeferredNext,
                      BackoffRead, Claim, RunReturns, RunRaises, Ends, RecordDone, RecordQuota,
                      RecordFailure, Recorded, DoneInv
  <2>3. CASE UNCHANGED vars
    BY <2>3 DEF DoneInv
  <2> QED
    BY <2>1, <2>2, <2>3 DEF Next
<1> QED
  BY <1>1, <1>2 DEF DoneInv, DoneSucceeded

(* A row that is done is one whose run succeeded, if run_task raises for   *)
(* whatever it does not do: a failure among its results is all that        *)
(* mark_done passes over.                                                  *)
THEOREM DoneSucceededAlone == Solo /\ "failure" \notin Faults => (Spec => []DoneSucceeded)
<1> SUFFICES ASSUME Solo, "failure" \notin Faults PROVE Spec => []DoneSucceeded
  OBVIOUS
<1>1. Init => DoneInv
  BY DEF Init, DoneInv, DoneSucceeded
<1>2. DoneInv => DoneSucceeded
  BY DEF DoneInv
<1>3. SIInv /\ DoneInv /\ [Next]_vars => DoneInv'
  BY NextDone
<1> QED
  BY <1>1, <1>2, <1>3, SoloInvariant, PTL DEF Spec
=============================================================================
