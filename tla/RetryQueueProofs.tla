-------------------------- MODULE RetryQueueProofs --------------------------
(***************************************************************************)
(* What RetryQueue guarantees for any rows, attempts, faults and bounds.   *)
(*                                                                         *)
(* With any number of daemons: a backoff row is run by one at a time.  To  *)
(* be claimed it must be pending, and while one runs it, it is running, or *)
(* expired by another daemon that had read it before (OwnerInv).  And one  *)
(* crash leaves one row that nobody will take up (AdriftInv).              *)
(***************************************************************************)
EXTENDS RetryQueue, FiniteSetTheorems, TLAPS

USE DEF vars, table, schedule, locals, history, Status, Pending

Kind(r) == row[r].kind

(* A row in hand, or in a list, is in the table, and of the list's kind.   *)
HandInv ==
    \A d \in Daemons :
        /\ pc[d] \in {"claim", "run", "record"} => hand[d] \in Rows /\ Status(hand[d]) # "absent"
        /\ pc[d] = "claim" => Kind(hand[d]) = "backoff"
        /\ \A r \in list[d] : Status(r) # "absent"
        /\ pc[d] = "next" => \A r \in list[d] : Kind(r) = "deferred"
        /\ pc[d] \in {"run", "record"} /\ Kind(hand[d]) = "deferred"
              => \A r \in list[d] : Kind(r) = "deferred"

OwnerInv ==
    \A r \in Rows : Kind(r) = "backoff" =>
        /\ \A d \in Daemons : Runs(d, r) => Status(r) \in {"running", "expired"}
        /\ \A c, d \in Daemons : Runs(c, r) /\ Runs(d, r) => c = d

IInv == TypeOK /\ HandInv /\ OwnerInv

-----------------------------------------------------------------------------
(* Types.                                                                  *)

LEMMA Consts == MaxAttempts \in Nat /\ MaxAttempts > 1
BY FaultsAssumption

LEMMA SelectTypes ==
    ASSUME TypeOK, NEW d \in Daemons, NEW S \in SUBSET Rows, Select(d, S)
    PROVE  /\ list' \in [Daemons -> SUBSET Rows]
           /\ seen' \in [Daemons -> [Rows -> Nat]]
           /\ list'[d] = S
           /\ \A r \in S : seen'[d][r] = row[r].attempt
           /\ \A c \in Daemons : c # d => list'[c] = list[c] /\ seen'[c] = seen[c]
<1>1. [r \in Rows |-> IF r \in S THEN row[r].attempt ELSE 0] \in [Rows -> Nat]
  BY DEF TypeOK
<1> QED
  BY <1>1 DEF TypeOK, Select

(* An insertion fills one row that was absent, and no other.               *)
LEMMA InsertEffect ==
    ASSUME TypeOK, NEW k \in Kinds, NEW a \in Nat, Insert(k, a)
    PROVE  \E r \in Rows :
              /\ Status(r) = "absent"
              /\ row'[r] = [status |-> "pending", kind |-> k, attempt |-> a]
              /\ \A s \in Rows : s # r => row'[s] = row[s]
              /\ row' \in [Rows -> [status : Statuses, kind : Kinds, attempt : Nat]]
BY DEF TypeOK, Insert, Statuses

(* An update of one row keeps its kind, and the other rows.                *)
LEMMA UpdateEffect ==
    ASSUME TypeOK, NEW r \in Rows, NEW s \in Statuses, NEW a \in Nat, Update(r, s, a)
    PROVE  /\ row' \in [Rows -> [status : Statuses, kind : Kinds, attempt : Nat]]
           /\ \A q \in Rows : q # r => row'[q] = row[q]
           /\ Kind(r)' = Kind(r)
           /\ Status(r) = "purged" => row'[r] = row[r]
           /\ Status(r) # "purged" => Status(r)' = s /\ row'[r].attempt = a
BY DEF TypeOK, Update, Kind

LEMMA InitIInv == Init => IInv
<1> SUFFICES ASSUME Init PROVE IInv
  OBVIOUS
<1>1. TypeOK
  BY DEF Init, TypeOK, Statuses, Kinds, Outcomes, NoAttempts
<1>2. HandInv /\ OwnerInv
  BY DEF Init, HandInv, OwnerInv, Runs
<1> QED
  BY <1>1, <1>2 DEF IInv

-----------------------------------------------------------------------------
(* Steps in which no daemon moves, and the expiry.                         *)

(* Rows stay in the table with their kind, and a row that may be running   *)
(* stays so or is expired.                                                 *)
Keeps(r) ==
    Status(r) # "absent" =>
        /\ Status(r)' # "absent"
        /\ Kind(r)' = Kind(r)
        /\ Status(r) \in {"running", "expired"} => Status(r)' \in {"running", "expired"}

LEMMA QuietStep ==
    ASSUME IInv, UNCHANGED <<pc, hand, list>>, \A r \in Rows : Keeps(r)
    PROVE  HandInv' /\ OwnerInv'
<1>1. HandInv'
  BY DEF IInv, TypeOK, HandInv, Keeps, Kind
<1>2. OwnerInv'
  <2> SUFFICES ASSUME NEW r \in Rows, Kind(r)' = "backoff"
               PROVE  /\ \A d \in Daemons : Runs(d, r)' => Status(r)' \in {"running", "expired"}
                      /\ \A c, d \in Daemons : Runs(c, r)' /\ Runs(d, r)' => c = d
    BY DEF OwnerInv
  <2>1. \A d \in Daemons : Runs(d, r)' <=> Runs(d, r)
    BY DEF Runs
  <2>2. CASE Status(r) = "absent"
    <3>1. \A d \in Daemons : ~Runs(d, r)
      BY <2>2 DEF IInv, HandInv, Runs
    <3> QED
      BY <2>1, <3>1
  <2>3. CASE Status(r) # "absent"
    <3>1. Kind(r) = "backoff"
      BY <2>3 DEF Keeps
    <3> QED
      BY <2>1, <2>3, <3>1 DEF IInv, OwnerInv, Keeps
  <2> QED
    BY <2>2, <2>3
<1> QED
  BY <1>1, <1>2

LEMMA InsertStep ==
    ASSUME IInv, NEW k \in Kinds, NEW a \in Nat, Insert(k, a),
           UNCHANGED <<pc, locals, history, events>>
    PROVE  IInv'
<1> USE DEF IInv
<1>1. PICK r \in Rows :
        /\ Status(r) = "absent"
        /\ \A s \in Rows : s # r => row'[s] = row[s]
        /\ row' \in [Rows -> [status : Statuses, kind : Kinds, attempt : Nat]]
  BY InsertEffect
<1>2. TypeOK'
  BY <1>1 DEF TypeOK, Insert
<1>3. \A s \in Rows : Keeps(s)
  BY <1>1 DEF Keeps, Kind
<1> QED
  BY <1>2, <1>3, QuietStep

LEMMA TimeSteps ==
    ASSUME IInv, Purge \/ \E r \in Rows : BecomesDue(r) \/ Ages(r)
    PROVE  IInv'
<1> USE DEF IInv
<1>1. UNCHANGED <<pc, locals, history, events>>
  BY DEF Purge, BecomesDue, Ages
<1>2. CASE Purge
  <2>1. TypeOK'
    BY <1>2 DEF TypeOK, Purge, Statuses
  <2>2. \A r \in Rows : Keeps(r)
    BY <1>2 DEF TypeOK, Purge, Keeps, Kind
  <2> QED
    BY <1>1, <2>1, <2>2, QuietStep
<1>3. ASSUME NEW r \in Rows, BecomesDue(r) \/ Ages(r) PROVE IInv'
  <2>1. TypeOK'
    BY <1>3 DEF TypeOK, BecomesDue, Ages
  <2>2. row' = row
    BY <1>3 DEF BecomesDue, Ages
  <2>3. \A q \in Rows : Keeps(q)
    BY <2>2 DEF Keeps, Kind
  <2> QED
    BY <1>1, <2>1, <2>3, QuietStep
<1> QED
  BY <1>2, <1>3

LEMMA ExpireSteps ==
    ASSUME IInv, NEW d \in Daemons, ExpireRead(d) \/ ExpireWrite(d)
    PROVE  IInv'
<1> USE DEF IInv
<1>1. CASE ExpireRead(d)
  <2> DEFINE S == {r \in Rows : Expirable(r)}
  <2>1. S \in SUBSET Rows /\ Select(d, S)
    BY <1>1 DEF ExpireRead
  <2>2. TypeOK'
    BY <1>1, <2>1, SelectTypes DEF TypeOK, ExpireRead, Goto
  <2>3. HandInv'
    <3>1. /\ list'[d] = S /\ \A c \in Daemons : c # d => list'[c] = list[c] /\ pc'[c] = pc[c]
          /\ pc'[d] = "expiring" /\ row' = row /\ hand' = hand
      BY <1>1, <2>1, SelectTypes DEF ExpireRead, Goto, TypeOK
    <3> QED
      BY <3>1 DEF HandInv, Expirable, Kind
  <2>4. OwnerInv'
    BY <1>1 DEF TypeOK, OwnerInv, ExpireRead, Goto, Runs, Kind
  <2> QED
    BY <2>2, <2>3, <2>4
<1>2. CASE ExpireWrite(d)
  <2>1. /\ list'[d] = {} /\ \A c \in Daemons : c # d => list'[c] = list[c] /\ pc'[c] = pc[c]
        /\ pc'[d] = "deferred" /\ pc[d] = "expiring" /\ hand' = hand
        /\ list' \in [Daemons -> SUBSET Rows] /\ seen' \in [Daemons -> [Rows -> Nat]]
    BY <1>2, SelectTypes DEF ExpireWrite, Goto, TypeOK
  <2>2. TypeOK'
    <3>1. row' \in [Rows -> [status : Statuses, kind : Kinds, attempt : Nat]]
      BY <1>2 DEF TypeOK, ExpireWrite, Statuses
    <3> QED
      BY <1>2, <2>1, <3>1 DEF TypeOK, ExpireWrite, Goto
  <2>3. \A r \in Rows : Keeps(r)
    BY <1>2 DEF TypeOK, ExpireWrite, Keeps, Kind
  <2>4. \A r \in Rows : Status(r) = "absent" => row'[r] = row[r]
    BY <1>2 DEF TypeOK, ExpireWrite, HandInv
  <2>5. HandInv'
    BY <2>1, <2>3, <2>4 DEF TypeOK, HandInv, Keeps, Kind
  <2>6. OwnerInv'
    <3>1. \A c \in Daemons, r \in Rows : Runs(c, r)' <=> Runs(c, r)
      BY <2>1 DEF Runs
    <3>2. \A r \in Rows : Kind(r)' = Kind(r)
      BY <2>3, <2>4 DEF Keeps, Kind
    <3> QED
      BY <2>3, <3>1, <3>2 DEF OwnerInv, Keeps
  <2> QED
    BY <2>2, <2>5, <2>6
<1> QED
  BY <1>1, <1>2

-----------------------------------------------------------------------------
(* The reads, the claim, the runs and what is recorded of them.            *)

LEMMA DeferredSteps ==
    ASSUME IInv, NEW d \in Daemons, DeferredRead(d) \/ DeferredNext(d)
    PROVE  IInv'
<1> USE DEF IInv
<1>0. row' = row
  BY DEF DeferredRead, DeferredNext
<1>1. CASE DeferredRead(d)
  <2> DEFINE S == {r \in Rows : Pending(r) /\ r \in overdue /\ row[r].kind = "deferred"}
  <2>1. S \in SUBSET Rows /\ Select(d, S)
    BY <1>1 DEF DeferredRead
  <2>2. TypeOK'
    BY <1>1, <2>1, SelectTypes DEF TypeOK, DeferredRead, Goto
  <2>3. /\ list'[d] = S /\ \A c \in Daemons : c # d => list'[c] = list[c] /\ pc'[c] = pc[c]
        /\ pc'[d] = "next" /\ pc[d] = "deferred" /\ hand' = hand
    BY <1>1, <2>1, SelectTypes DEF DeferredRead, Goto, TypeOK
  <2>4. HandInv'
    BY <1>0, <2>3 DEF HandInv, Kind
  <2>5. OwnerInv'
    BY <1>0, <2>3 DEF OwnerInv, Runs, Kind
  <2> QED
    BY <2>2, <2>4, <2>5
<1>2. CASE DeferredNext(d)
  <2>1. ASSUME NEW r \in list[d], Begin(d, r), list' = [list EXCEPT ![d] = @ \ {r}]
        PROVE  IInv'
    <3>1. r \in Rows /\ Kind(r) = "deferred" /\ Status(r) # "absent"
      BY <1>2, <2>1 DEF TypeOK, HandInv, DeferredNext
    <3>2. TypeOK'
      BY <1>2, <2>1, <3>1 DEF TypeOK, DeferredNext, Begin, Goto
    <3>3. /\ \A c \in Daemons : c # d => list'[c] = list[c] /\ pc'[c] = pc[c] /\ hand'[c] = hand[c]
          /\ pc'[d] = "run" /\ hand'[d] = r /\ list'[d] = list[d] \ {r} /\ pc[d] = "next"
      BY <1>2, <2>1 DEF TypeOK, DeferredNext, Begin, Goto
    <3>4. HandInv'
      BY <1>0, <3>1, <3>3 DEF HandInv, Kind
    <3>5. OwnerInv'
      BY <1>0, <3>1, <3>3 DEF OwnerInv, Runs, Kind
    <3> QED
      BY <3>2, <3>4, <3>5
  <2>2. CASE Goto(d, "backoff") /\ UNCHANGED <<hand, list, tries>>
    <3>1. TypeOK'
      BY <1>2, <2>2 DEF TypeOK, DeferredNext, Goto
    <3>2. /\ \A c \in Daemons : c # d => pc'[c] = pc[c]
          /\ pc'[d] = "backoff" /\ hand' = hand /\ list' = list
      BY <2>2 DEF TypeOK, Goto
    <3>3. HandInv'
      BY <1>0, <3>2 DEF HandInv, Kind
    <3>4. OwnerInv'
      BY <1>0, <3>2 DEF OwnerInv, Runs, Kind
    <3> QED
      BY <3>1, <3>3, <3>4
  <2> QED
    BY <1>2, <2>1, <2>2 DEF DeferredNext
<1> QED
  BY <1>1, <1>2

LEMMA BackoffReadStep ==
    ASSUME IInv, NEW d \in Daemons, BackoffRead(d)
    PROVE  IInv'
<1> USE DEF IInv
<1>0. row' = row /\ pc[d] = "backoff"
  BY DEF BackoffRead
<1>1. PICK r \in Rows \cup {NoRow}, S \in SUBSET Rows :
        /\ Select(d, S)
        /\ \A q \in S : Status(q) # "absent"
        /\ pc' \in {[pc EXCEPT ![d] = "claim"], [pc EXCEPT ![d] = "idle"]}
        /\ pc'[d] = "claim" => r \in Rows /\ hand' = [hand EXCEPT ![d] = r] /\ Status(r) # "absent"
                               /\ Kind(r) = "backoff"
        /\ pc'[d] = "idle" => hand' = hand
  <2>1. CASE \E r \in Rows : Drainable(r) /\ hand' = [hand EXCEPT ![d] = r] /\ Select(d, {r})
                              /\ Goto(d, "claim")
    <3>1. PICK r \in Rows : Drainable(r) /\ hand' = [hand EXCEPT ![d] = r] /\ Select(d, {r})
                              /\ Goto(d, "claim")
      BY <2>1
    <3>2. pc' = [pc EXCEPT ![d] = "claim"] /\ pc'[d] = "claim"
      BY <3>1 DEF Goto, TypeOK
    <3>3. r \in Rows \cup {NoRow} /\ {r} \in SUBSET Rows
      OBVIOUS
    <3>4. Status(r) # "absent" /\ Kind(r) = "backoff"
      BY <3>1 DEF Drainable, Kind
    <3>5. pc'[d] # "idle"
      BY <3>2
    <3>6. \A q \in {r} : Status(q) # "absent"
      BY <3>4
    <3> HIDE DEF Status, Pending
    <3> QED
      BY <3>1, <3>2, <3>3, <3>4, <3>5, <3>6
  <2>2. CASE Goto(d, "idle") /\ Select(d, {}) /\ UNCHANGED hand
    <3>1. pc' = [pc EXCEPT ![d] = "idle"] /\ pc'[d] = "idle"
      BY <2>2 DEF Goto, TypeOK
    <3> QED
      BY <2>2, <3>1
  <2> QED
    BY <2>1, <2>2 DEF BackoffRead
<1>2. /\ list' \in [Daemons -> SUBSET Rows] /\ seen' \in [Daemons -> [Rows -> Nat]]
      /\ list'[d] = S
      /\ \A c \in Daemons : c # d => list'[c] = list[c]
  BY <1>1, SelectTypes
<1>3. /\ pc'[d] \in {"claim", "idle"}
      /\ \A c \in Daemons : c # d => pc'[c] = pc[c] /\ hand'[c] = hand[c]
      /\ pc'[d] = "claim" => hand'[d] = r
  BY <1>1 DEF TypeOK
<1>4. TypeOK'
  <2>1. hand' \in [Daemons -> Rows \cup {NoRow}]
    BY <1>1, <1>3 DEF TypeOK
  <2>2. pc' \in [Daemons -> {"idle", "expiring", "deferred", "next", "backoff", "claim", "run",
                             "record"}]
    BY <1>1 DEF TypeOK
  <2>3. UNCHANGED <<row, overdue, earlier, aged, outcome, tries, result, events>>
    BY DEF BackoffRead
  <2> QED
    BY <1>2, <2>1, <2>2, <2>3 DEF TypeOK
<1>5. HandInv'
  BY <1>0, <1>1, <1>2, <1>3 DEF HandInv, Kind
<1>6. OwnerInv'
  BY <1>0, <1>3 DEF OwnerInv, Runs, Kind
<1> QED
  BY <1>4, <1>5, <1>6

(* Whoever claims the row finds it pending, so that nobody runs it.        *)
LEMMA ClaimStep ==
    ASSUME IInv, NEW d \in Daemons, Claim(d)
    PROVE  IInv'
<1> USE DEF IInv
<1>0. PICK r \in Rows : r = hand[d] /\ Status(r) # "absent" /\ Kind(r) = "backoff" /\ pc[d] = "claim"
  BY DEF HandInv, Claim
<1>1. CASE CanClaim(r)
  <2>1. /\ row' = [row EXCEPT ![r].status = "running"] /\ Begin(d, r)
        /\ UNCHANGED <<list, seen, schedule, aged, outcome, result, events>>
    BY <1>0, <1>1 DEF Claim
  <2>2. TypeOK'
    <3>1. row' \in [Rows -> [status : Statuses, kind : Kinds, attempt : Nat]]
      <4>1. row \in [Rows -> [status : Statuses, kind : Kinds, attempt : Nat]]
        BY DEF TypeOK
      <4>2. row' = [row EXCEPT ![r] = [@ EXCEPT !.status = "running"]]
        BY <1>0, <2>1, <4>1
      <4>3. [row[r] EXCEPT !.status = "running"] \in [status : Statuses, kind : Kinds, attempt : Nat]
        BY <4>1 DEF Statuses
      <4> QED
        BY <4>1, <4>2, <4>3
    <3>2. tries' \in [Rows -> Nat] /\ hand' \in [Daemons -> Rows \cup {NoRow}]
      BY <1>0, <2>1 DEF TypeOK, Begin
    <3>3. pc' \in [Daemons -> {"idle", "expiring", "deferred", "next", "backoff", "claim", "run",
                               "record"}]
      BY <2>1 DEF TypeOK, Begin, Goto
    <3> QED
      BY <2>1, <3>1, <3>2, <3>3 DEF TypeOK
  <2>3. /\ \A c \in Daemons : c # d => pc'[c] = pc[c] /\ hand'[c] = hand[c]
        /\ pc'[d] = "run" /\ hand'[d] = r /\ list' = list
        /\ \A q \in Rows : q # r => row'[q] = row[q]
        /\ Status(r)' = "running" /\ Kind(r)' = Kind(r)
    BY <1>0, <2>1 DEF TypeOK, Begin, Goto, Kind
  <2>4. HandInv'
    <3>1. \A q \in Rows : Kind(q)' = Kind(q) /\ (Status(q) # "absent" => Status(q)' # "absent")
      BY <1>0, <2>3 DEF Kind
    <3>2. ASSUME NEW c \in Daemons
          PROVE  /\ pc'[c] \in {"claim", "run", "record"}
                       => hand'[c] \in Rows /\ row'[hand'[c]].status # "absent"
                 /\ pc'[c] = "claim" => row'[hand'[c]].kind = "backoff"
                 /\ \A q \in list'[c] : Status(q)' # "absent"
                 /\ pc'[c] = "next" => \A q \in list'[c] : Kind(q)' = "deferred"
                 /\ pc'[c] \in {"run", "record"} /\ row'[hand'[c]].kind = "deferred"
                       => \A q \in list'[c] : Kind(q)' = "deferred"
      <4>1. list[c] \subseteq Rows
        BY DEF TypeOK
      <4>2. CASE c = d
        BY <1>0, <2>3, <3>1, <4>1, <4>2 DEF HandInv, Kind
      <4>3. CASE c # d
        BY <2>3, <3>1, <4>1, <4>3 DEF HandInv, Kind
      <4> QED
        BY <4>2, <4>3
    <3> QED
      BY <3>2 DEF HandInv, Kind
  <2>5. OwnerInv'
    <3>1. \A c \in Daemons : ~Runs(c, r)
      BY <1>0, <1>1 DEF OwnerInv, CanClaim
    <3>2. \A c \in Daemons : Runs(c, r)' => c = d
      BY <2>3, <3>1 DEF Runs
    <3>3. \A c \in Daemons, q \in Rows : q # r => (Runs(c, q)' => Runs(c, q))
      BY <2>3 DEF Runs
    <3> QED
      BY <2>3, <3>2, <3>3 DEF OwnerInv, Kind
  <2> QED
    BY <2>2, <2>4, <2>5
<1>2. CASE ~CanClaim(r)
  <2>1. /\ Goto(d, "idle") /\ hand' = [hand EXCEPT ![d] = NoRow] /\ Select(d, {})
        /\ UNCHANGED <<table, tries, outcome, result, events>>
    BY <1>0, <1>2 DEF Claim
  <2>2. TypeOK'
    BY <2>1, SelectTypes DEF TypeOK, Goto
  <2>3. /\ \A c \in Daemons : c # d => pc'[c] = pc[c] /\ hand'[c] = hand[c] /\ list'[c] = list[c]
        /\ pc'[d] = "idle" /\ list'[d] = {} /\ row' = row
    BY <2>1, SelectTypes DEF TypeOK, Goto
  <2>4. HandInv' /\ OwnerInv'
    BY <2>3 DEF HandInv, OwnerInv, Runs, Kind
  <2> QED
    BY <2>2, <2>4
<1> QED
  BY <1>1, <1>2

LEMMA RunSteps ==
    ASSUME IInv, NEW d \in Daemons, RunReturns(d) \/ RunRaises(d)
    PROVE  IInv'
<1> USE DEF IInv
<1>1. PICK o \in Outcomes : Ends(d, o) /\ pc[d] = "run"
  BY DEF RunReturns, RunRaises, Outcomes
<1>2. events' \in Nat
  BY DEF RunReturns, RunRaises, Event, TypeOK
<1>3. hand[d] \in Rows
  BY <1>1 DEF HandInv
<1>4. TypeOK'
  BY <1>1, <1>2, <1>3 DEF TypeOK, Ends, Goto
<1>5. /\ \A c \in Daemons : c # d => pc'[c] = pc[c]
      /\ pc'[d] = "record" /\ UNCHANGED <<row, hand, list>>
  BY <1>1 DEF TypeOK, Ends, Goto
<1>6. HandInv'
  BY <1>1, <1>5 DEF HandInv, Kind
<1>7. OwnerInv'
  <2>1. \A c \in Daemons, r \in Rows : Runs(c, r)' <=> Runs(c, r)
    BY <1>1, <1>5 DEF Runs
  <2> QED
    BY <1>5, <2>1 DEF OwnerInv, Kind
<1> QED
  BY <1>4, <1>6, <1>7

Record(d) == RecordDone(d) \/ RecordQuota(d) \/ RecordFailure(d)

(* What a record does to the row that was run, and to the daemon.          *)
LEMMA RecordEffect ==
    ASSUME IInv, NEW d \in Daemons, Record(d)
    PROVE  /\ hand[d] \in Rows /\ pc[d] = "record" /\ Status(hand[d]) # "absent"
           /\ \E s \in {"pending", "done", "dead"}, a \in Nat : Update(hand[d], s, a)
           /\ Recorded(d)
           /\ overdue' \subseteq Rows /\ earlier' \subseteq Rows \X Rows
           /\ UNCHANGED <<aged, history, events>>
<1>1. hand[d] \in Rows /\ pc[d] = "record" /\ Status(hand[d]) # "absent"
  BY DEF IInv, HandInv, Record, RecordDone, RecordQuota, RecordFailure
<1>2. NewAttempt(d) \in Nat /\ row[hand[d]].attempt \in Nat
  BY <1>1 DEF IInv, TypeOK, NewAttempt
<1>3. \E s \in {"pending", "done", "dead"}, a \in Nat : Update(hand[d], s, a)
  BY <1>2 DEF Record, RecordDone, RecordQuota, RecordFailure
<1>4. overdue' \subseteq Rows /\ earlier' \subseteq Rows \X Rows
  BY DEF IInv, TypeOK, Record, RecordDone, RecordQuota, RecordFailure, Postpone
<1> QED
  BY <1>1, <1>3, <1>4 DEF Record, RecordDone, RecordQuota, RecordFailure

LEMMA RecordedEffect ==
    ASSUME IInv, NEW d \in Daemons, Recorded(d)
    PROVE  /\ pc' \in [Daemons -> {"idle", "expiring", "deferred", "next", "backoff", "claim",
                                  "run", "record"}]
           /\ hand' = [hand EXCEPT ![d] = NoRow]
           /\ outcome' \in [Daemons -> Outcomes]
           /\ list' \in [Daemons -> SUBSET Rows] /\ seen' \in [Daemons -> [Rows -> Nat]]
           /\ \A c \in Daemons : c # d => pc'[c] = pc[c] /\ hand'[c] = hand[c] /\ list'[c] = list[c]
           /\ \/ Kind(hand[d]) = "deferred" /\ pc'[d] = "next" /\ list'[d] = list[d]
              \/ Kind(hand[d]) # "deferred" /\ pc'[d] = "idle" /\ list'[d] = {}
<1>1. CASE Kind(hand[d]) = "deferred"
  BY <1>1 DEF IInv, TypeOK, Recorded, Goto, Outcomes, Kind
<1>2. CASE Kind(hand[d]) # "deferred"
  <2>1. Goto(d, "idle") /\ Select(d, {})
    BY <1>2 DEF Recorded, Kind
  <2> QED
    BY <1>2, <2>1, SelectTypes DEF IInv, TypeOK, Recorded, Goto, Outcomes
<1> QED
  BY <1>1, <1>2

LEMMA RecordSteps ==
    ASSUME IInv, NEW d \in Daemons, Record(d)
    PROVE  IInv'
<1> USE DEF IInv
<1>1. PICK r \in Rows : r = hand[d] /\ pc[d] = "record" /\ Status(r) # "absent"
  BY RecordEffect
<1>2. /\ row' \in [Rows -> [status : Statuses, kind : Kinds, attempt : Nat]]
      /\ \A q \in Rows : q # r => row'[q] = row[q]
      /\ Kind(r)' = Kind(r)
      /\ Status(r)' # "absent"
  <2>1. PICK s \in {"pending", "done", "dead"}, a \in Nat : Update(r, s, a)
    BY <1>1, RecordEffect
  <2>2. s \in Statuses /\ s # "absent"
    BY DEF Statuses
  <2> QED
    BY <1>1, <2>1, <2>2, UpdateEffect
<1>3. TypeOK'
  <2>1. Recorded(d) /\ overdue' \subseteq Rows /\ earlier' \subseteq Rows \X Rows
        /\ UNCHANGED <<aged, history, events>>
    BY RecordEffect
  <2>2. hand' \in [Daemons -> Rows \cup {NoRow}]
    BY <2>1, RecordedEffect DEF TypeOK
  <2> QED
    BY <1>2, <2>1, <2>2, RecordedEffect DEF TypeOK
<1>4. /\ \A c \in Daemons : c # d => pc'[c] = pc[c] /\ hand'[c] = hand[c] /\ list'[c] = list[c]
      /\ \/ Kind(r) = "deferred" /\ pc'[d] = "next" /\ list'[d] = list[d]
         \/ Kind(r) # "deferred" /\ pc'[d] = "idle" /\ list'[d] = {}
  BY <1>1, RecordEffect, RecordedEffect
<1>5. \A q \in Rows : Kind(q)' = Kind(q) /\ (Status(q) # "absent" => Status(q)' # "absent")
  BY <1>1, <1>2 DEF Kind
<1>6. HandInv'
  <2> SUFFICES ASSUME NEW c \in Daemons
        PROVE  /\ pc'[c] \in {"claim", "run", "record"}
                     => hand'[c] \in Rows /\ row'[hand'[c]].status # "absent"
               /\ pc'[c] = "claim" => row'[hand'[c]].kind = "backoff"
               /\ \A q \in list'[c] : Status(q)' # "absent"
               /\ pc'[c] = "next" => \A q \in list'[c] : Kind(q)' = "deferred"
               /\ pc'[c] \in {"run", "record"} /\ row'[hand'[c]].kind = "deferred"
                     => \A q \in list'[c] : Kind(q)' = "deferred"
    BY DEF HandInv, Kind
  <2>1. list[c] \subseteq Rows
    BY DEF TypeOK
  <2> USE DEF Kind
  <2>2. CASE c = d
    BY <1>1, <1>4, <1>5, <2>1, <2>2 DEF HandInv
  <2>3. CASE c # d
    BY <1>4, <1>5, <2>1, <2>3 DEF HandInv
  <2> QED
    BY <2>2, <2>3
<1>7. OwnerInv'
  <2> SUFFICES ASSUME NEW q \in Rows, Kind(q)' = "backoff"
               PROVE  /\ \A c \in Daemons : Runs(c, q)' => Status(q)' \in {"running", "expired"}
                      /\ \A b, c \in Daemons : Runs(b, q)' /\ Runs(c, q)' => b = c
    BY DEF OwnerInv
  <2>1. Kind(q) = "backoff"
    BY <1>5
  <2>2. \A c \in Daemons : Runs(c, q)' => c # d /\ Runs(c, q)
    BY <1>4 DEF Runs
  <2>3. CASE q = r
    <3>1. Runs(d, q)
      BY <1>1, <2>3 DEF Runs
    <3>2. \A c \in Daemons : ~Runs(c, q)'
      BY <2>1, <2>2, <3>1 DEF OwnerInv
    <3> QED
      BY <3>2
  <2>4. CASE q # r
    BY <1>2, <2>1, <2>2, <2>4 DEF OwnerInv
  <2> QED
    BY <2>3, <2>4
<1> QED
  BY <1>3, <1>6, <1>7

LEMMA CrashStep ==
    ASSUME IInv, NEW d \in Daemons, Crash(d)
    PROVE  IInv'
<1> USE DEF IInv
<1>1. /\ Goto(d, "idle") /\ Select(d, {}) /\ hand' = [hand EXCEPT ![d] = NoRow]
      /\ UNCHANGED <<table, history>>
  BY DEF Crash
<1>2. TypeOK'
  BY <1>1, SelectTypes DEF TypeOK, Crash, Event, Goto, Outcomes
<1>3. /\ \A c \in Daemons : c # d => pc'[c] = pc[c] /\ hand'[c] = hand[c] /\ list'[c] = list[c]
      /\ pc'[d] = "idle" /\ list'[d] = {} /\ row' = row
  BY <1>1, SelectTypes DEF TypeOK, Goto
<1>4. HandInv' /\ OwnerInv'
  BY <1>3 DEF HandInv, OwnerInv, Runs, Kind
<1> QED
  BY <1>2, <1>4

THEOREM NextIInv == IInv /\ [Next]_vars => IInv'
<1> SUFFICES ASSUME IInv, [Next]_vars PROVE IInv'
  OBVIOUS
<1>1. CASE Enqueue
  BY <1>1, InsertStep DEF Enqueue, Kinds
<1>2. CASE EnqueueDeferred
  BY <1>2, InsertStep DEF EnqueueDeferred, Kinds
<1>3. CASE Purge \/ \E r \in Rows : BecomesDue(r) \/ Ages(r)
  BY <1>3, TimeSteps
<1>4. ASSUME NEW d \in Daemons, Tick(d) PROVE IInv'
  BY <1>4, ExpireSteps, DeferredSteps, BackoffReadStep, ClaimStep, RunSteps, RecordSteps
  DEF Tick, Record
<1>5. CASE \E d \in Daemons : Crash(d)
  BY <1>5, CrashStep
<1>6. CASE UNCHANGED vars
  BY <1>6 DEF IInv, TypeOK, HandInv, OwnerInv, Runs, Kind
<1> QED
  BY <1>1, <1>2, <1>3, <1>4, <1>5, <1>6 DEF Next

(* The inductive invariant, for any number of daemons.                     *)
THEOREM QueueInvariant == Spec => []IInv
BY InitIInv, NextIInv, PTL DEF Spec

(* The variables of the queue keep their types.                            *)
THEOREM RetryTypes == Spec => []TypeOK
<1>1. IInv => TypeOK
  BY DEF IInv
<1> QED
  BY <1>1, QueueInvariant, PTL

(* No backoff row is run by two daemons at the same time (claim_row).      *)
THEOREM RunsAlone == Spec => []OneAtATime
<1>1. IInv => OneAtATime
  BY DEF IInv, OwnerInv, OneAtATime, Kind
<1> QED
  BY <1>1, QueueInvariant, PTL

-----------------------------------------------------------------------------
(* What is adrift: only a crash takes a claimed row out of the hand of its *)
(* daemon, and it takes one.                                               *)

LEMMA OneMore ==
    ASSUME NEW S, NEW T, NEW x, IsFiniteSet(S), T \subseteq S \cup {x}
    PROVE  /\ IsFiniteSet(T) /\ Cardinality(S) \in Nat /\ Cardinality(T) \in Nat
           /\ Cardinality(T) <= Cardinality(S) + 1
           /\ T \subseteq S => Cardinality(T) <= Cardinality(S)
<1>1. IsFiniteSet(S \cup {x}) /\ Cardinality(S \cup {x}) \in {Cardinality(S), Cardinality(S) + 1}
  BY FS_AddElement
<1>2. IsFiniteSet(T) /\ Cardinality(T) <= Cardinality(S \cup {x})
  BY <1>1, FS_Subset
<1> QED
  BY <1>1, <1>2, FS_Subset, FS_CardinalityType

AdriftInv == IsFiniteSet(Adrift) /\ Cardinality(Adrift) <= events

(* A row that is running after an insertion, or after the outcome of a run *)
(* is recorded, was running before, and is not the row of that run.        *)
LEMMA InsertLeaves ==
    ASSUME TypeOK, Enqueue \/ EnqueueDeferred, NEW r \in Rows, Status(r)' = "running"
    PROVE  Status(r) = "running"
<1>1. PICK k \in Kinds, a \in Nat : Insert(k, a)
  BY DEF Enqueue, EnqueueDeferred, Kinds
<1>2. PICK q \in Rows :
        /\ row'[q] = [status |-> "pending", kind |-> k, attempt |-> a]
        /\ \A s \in Rows : s # q => row'[s] = row[s]
  BY <1>1, InsertEffect
<1> QED
  BY <1>2

LEMMA RecordLeaves ==
    ASSUME IInv, NEW d \in Daemons, Record(d), NEW r \in Rows, Status(r)' = "running"
    PROVE  r # hand[d] /\ Status(r) = "running"
<1>1. hand[d] \in Rows /\ TypeOK
  BY RecordEffect DEF IInv
<1>2. PICK s \in {"pending", "done", "dead"}, a \in Nat : Update(hand[d], s, a)
  BY RecordEffect
<1>3. s \in Statuses
  BY DEF Statuses
<1>4. /\ Status(hand[d]) = "purged" => row'[hand[d]] = row[hand[d]]
      /\ Status(hand[d]) # "purged" => row'[hand[d]].status = s
      /\ \A q \in Rows : q # hand[d] => row'[q] = row[q]
  BY <1>1, <1>2, <1>3, UpdateEffect
<1>5. row'[hand[d]].status # "running"
  BY <1>4
<1> QED
  BY <1>4, <1>5

LEMMA NothingLost ==
    ASSUME IInv, [Next]_vars, \A d \in Daemons : ~Crash(d)
    PROVE  Adrift' \subseteq Adrift /\ events' >= events
<1> USE DEF IInv
<1>d. events' \in {events, events + 1}
  BY DEF Next, Enqueue, EnqueueDeferred, Purge, BecomesDue, Ages, Tick, ExpireRead, ExpireWrite,
     DeferredRead, DeferredNext, BackoffRead, Claim, RunReturns, RunRaises, RecordDone, RecordQuota,
     RecordFailure, Event
<1>e. events' >= events
  BY <1>d DEF TypeOK
<1> SUFFICES ASSUME NEW r \in Rows, Status(r)' = "running", \A d \in Daemons : ~Runs(d, r)',
                    Status(r) = "running" => \E d \in Daemons : Runs(d, r)
             PROVE  FALSE
  BY <1>e DEF Adrift
<1>1. ASSUME Status(r) = "running", UNCHANGED <<pc, hand>> PROVE FALSE
  BY <1>1 DEF Runs
<1>2. CASE Enqueue \/ EnqueueDeferred
  <2>1. Status(r) = "running"
    BY <1>2, InsertLeaves
  <2>2. UNCHANGED <<pc, hand>>
    BY <1>2 DEF Enqueue, EnqueueDeferred
  <2> QED
    BY <1>1, <2>1, <2>2
<1>3. CASE Purge \/ (\E q \in Rows : BecomesDue(q) \/ Ages(q)) \/ UNCHANGED vars
  <2>1. Status(r) = "running" /\ UNCHANGED <<pc, hand>>
    BY <1>3 DEF Purge, BecomesDue, Ages, TypeOK
  <2> QED
    BY <1>1, <2>1
<1>4. ASSUME NEW d \in Daemons,
             \/ ExpireRead(d) \/ ExpireWrite(d) \/ DeferredRead(d) \/ DeferredNext(d)
             \/ BackoffRead(d)
      PROVE  FALSE
  <2>1. Status(r) = "running"
    BY <1>4 DEF ExpireRead, ExpireWrite, DeferredRead, DeferredNext, BackoffRead, TypeOK
  <2>2. pc[d] \in {"idle", "expiring", "deferred", "next", "backoff"}
        /\ \A c \in Daemons \ {d} : pc'[c] = pc[c] /\ hand'[c] = hand[c]
    BY <1>4 DEF ExpireRead, ExpireWrite, DeferredRead, DeferredNext, Begin, BackoffRead, Goto, TypeOK
  <2> QED
    BY <2>1, <2>2 DEF Runs
<1>5. ASSUME NEW d \in Daemons, Claim(d) PROVE FALSE
  <2>1. /\ pc[d] = "claim" /\ hand[d] \in Rows
        /\ \A c \in Daemons \ {d} : pc'[c] = pc[c] /\ hand'[c] = hand[c]
    BY <1>5 DEF Claim, Begin, Goto, HandInv, TypeOK
  <2>2. CASE r = hand[d] /\ CanClaim(r)
    <3>1. pc'[d] = "run" /\ hand'[d] = r
      BY <1>5, <2>2 DEF Claim, Begin, Goto, TypeOK
    <3> QED
      BY <3>1 DEF Runs
  <2>3. CASE ~(r = hand[d] /\ CanClaim(r))
    <3>1. Status(r)' = Status(r)
      BY <1>5, <2>1, <2>3 DEF Claim, TypeOK
    <3> QED
      BY <2>1, <3>1 DEF Runs
  <2> QED
    BY <2>2, <2>3
<1>6. ASSUME NEW d \in Daemons, RunReturns(d) \/ RunRaises(d) PROVE FALSE
  <2>1. /\ UNCHANGED <<row, hand>> /\ pc'[d] = "record"
        /\ \A c \in Daemons \ {d} : pc'[c] = pc[c]
    BY <1>6 DEF RunReturns, RunRaises, Ends, Goto, TypeOK
  <2> QED
    BY <2>1 DEF Runs
<1>7. ASSUME NEW d \in Daemons, Record(d) PROVE FALSE
  <2>1. Recorded(d)
    BY <1>7, RecordEffect
  <2>2. r # hand[d] /\ Status(r) = "running"
    BY <1>7, RecordLeaves
  <2>3. PICK c \in Daemons : Runs(c, r)
    BY <2>2
  <2>4. c # d
    BY <2>2, <2>3 DEF Runs
  <2>5. pc'[c] = pc[c] /\ hand'[c] = hand[c]
    BY <2>1, <2>4, RecordedEffect
  <2> QED
    BY <2>3, <2>5 DEF Runs
<1> QED
  BY <1>2, <1>3, <1>4, <1>5, <1>6, <1>7 DEF Next, Tick, Record

LEMMA OneLost ==
    ASSUME IInv, NEW d \in Daemons, Crash(d)
    PROVE  Adrift' \subseteq Adrift \cup {hand[d]} /\ events' = events + 1
<1>1. /\ UNCHANGED row /\ events' = events + 1
      /\ \A c \in Daemons \ {d} : pc'[c] = pc[c] /\ hand'[c] = hand[c]
  BY DEF Crash, Event, Goto, IInv, TypeOK
<1> QED
  BY <1>1 DEF Adrift, Runs

(* Every crash leaves one row `running` at most that nobody will record,   *)
(* and nothing else leaves any, whatever other daemons expire or claim     *)
(* meanwhile (claim_row, mark_retry, mark_done, mark_dead).                *)
THEOREM LosesOneACrash == Spec => []CrashLosesOne
<1>1. Init => AdriftInv
  <2> SUFFICES ASSUME Init PROVE AdriftInv
    OBVIOUS
  <2>1. Adrift = {} /\ events = 0
    BY DEF Init, Adrift
  <2> QED
    BY <2>1, FS_EmptySet DEF AdriftInv
<1>2. IInv /\ IInv' /\ AdriftInv /\ [Next]_vars => AdriftInv'
  <2> SUFFICES ASSUME IInv, IInv', AdriftInv, [Next]_vars PROVE AdriftInv'
    OBVIOUS
  <2>1. events \in Nat /\ events' \in Nat /\ IsFiniteSet(Adrift) /\ Cardinality(Adrift) <= events
    BY DEF IInv, TypeOK, AdriftInv
  <2>2. CASE \E d \in Daemons : Crash(d)
    <3>1. PICK d \in Daemons : Crash(d)
      BY <2>2
    <3>2. Adrift' \subseteq Adrift \cup {hand[d]} /\ events' = events + 1
      BY <3>1, OneLost
    <3>3. IsFiniteSet(Adrift') /\ Cardinality(Adrift) \in Nat /\ Cardinality(Adrift') \in Nat
          /\ Cardinality(Adrift') <= Cardinality(Adrift) + 1
      BY <2>1, <3>2, OneMore
    <3> QED
      BY <2>1, <3>2, <3>3 DEF AdriftInv
  <2>3. CASE ~\E d \in Daemons : Crash(d)
    <3>1. Adrift' \subseteq Adrift /\ events' >= events
      BY <2>3, NothingLost
    <3>2. IsFiniteSet(Adrift') /\ Cardinality(Adrift') <= Cardinality(Adrift)
          /\ Cardinality(Adrift) \in Nat /\ Cardinality(Adrift') \in Nat
      BY <2>1, <3>1, FS_Subset, FS_CardinalityType
    <3> QED
      BY <2>1, <3>1, <3>2 DEF AdriftInv
  <2> QED
    BY <2>2, <2>3
<1>3. AdriftInv => CrashLosesOne
  BY DEF AdriftInv, CrashLosesOne
<1> QED
  BY <1>1, <1>2, <1>3, QueueInvariant, PTL DEF Spec
=============================================================================
