------------------------------ MODULE SwarmBus ------------------------------
(***************************************************************************)
(* The swarm bus: instances publish signed events into the table           *)
(* swarm_events, and one instance of the fleet claims each and runs its    *)
(* handler, which starts a pipeline (services/swarm_service.py,            *)
(* swarm/poll_transport.py, swarm/redis_transport.py).                     *)
(*                                                                         *)
(* Two transports carry an event from the publisher to the claimers: the   *)
(* table itself (poll) and a Redis stream with one consumer group (redis). *)
(* Whichever it is, a claim is a conditional update of the row.            *)
(*                                                                         *)
(* A worker is a caller of claim_next and of dispatch_claimed_event.  An   *)
(* action is one statement of the database or one command to Redis, with   *)
(* the local work that follows it.  The Redis server is modelled from the  *)
(* commands the transport sends.                                           *)
(***************************************************************************)
EXTENDS Integers, SequencesExt, FiniteSetsExt

CONSTANTS
    Events,         \* event ids; publishing the same work again gives the same id
    Tenants,
    Instances,      \* members of the fleet: swarm_instance_id
    Workers,        \* callers of claim_next in them
    InstanceOf,     \* ... and the instance each runs in
    Served,         \* swarm_served_tenants of an instance
    Transports,     \* the transports this instance of the model may start with
    Keys,           \* values of the fleet-wide signing key
    NoKey,          \* no usable key: unset, blank or unresolvable
    Window,         \* rows that one query of the table brings (50)
    Count,          \* messages that one XREADGROUP brings (50)
    MaxFaults,      \* bound: crashes, key changes, failed hand-offs, stray dispatches
    NoEvent, NoTenant, NoInstance

ASSUME FleetAssumption ==
    /\ InstanceOf \in [Workers -> Instances]
    /\ Served \in [Instances -> SUBSET Tenants]
    /\ Transports \subseteq {"poll", "redis"}
    /\ Window \in Nat \ {0} /\ Count \in Nat \ {0}
    /\ MaxFaults \in Nat
ASSUME MarksAssumption ==
    /\ NoEvent \notin Events
    /\ NoTenant \notin Tenants
    /\ NoInstance \notin Instances
    /\ NoKey \notin Keys

VARIABLES
    transport,            \* swarm_transport, the same all over the fleet
    key,                  \* what get_signing_key returns in an instance
    rows,                 \* ids in the table, oldest first
    status, tenant, sig,  \* of a row: its columns; `sig` is the key it was signed with
    claimedBy,
    handing,              \* of an instance: the event it inserted and has yet to hand off
    stream,               \* Redis: messages not yet delivered to the group
    pel,                  \* Redis: messages delivered to a consumer and not acknowledged
    pc, batch, event,     \* workers: control state, candidates left, event in hand
    runs,                 \* of an event: how often a handler was started for it
    faults                \* crashes, key changes and lost hand-offs so far

table == <<rows, status, tenant, sig, claimedBy>>
broker == <<handing, stream, pel>>
workerVars == <<pc, batch, event>>
vars == <<transport, key, table, broker, workerVars, runs, faults>>

Statuses == {"none", "pending", "claimed", "running", "done", "failed", "skipped"}

TypeOK ==
    /\ transport \in Transports
    /\ key \in [Instances -> Keys \cup {NoKey}]
    /\ rows \in Seq(Events)
    /\ status \in [Events -> Statuses]
    /\ tenant \in [Events -> Tenants \cup {NoTenant}]
    /\ sig \in [Events -> Keys \cup {NoKey}]
    /\ claimedBy \in [Events -> Instances \cup {NoInstance}]
    /\ handing \in [Instances -> Events \cup {NoEvent}]
    /\ stream \in Seq(Events)
    /\ pel \in [Instances -> SUBSET Events]
    /\ pc \in [Workers -> {"idle", "walk", "claimed", "handle", "ended"}]
    /\ batch \in [Workers -> Seq(Events)]
    /\ event \in [Workers -> Events \cup {NoEvent}]
    /\ runs \in [Events -> Nat]
    /\ faults \in Nat

Init ==
    /\ transport \in Transports
    /\ \E k \in Keys : key = [i \in Instances |-> k]
    /\ rows = <<>>
    /\ status = [e \in Events |-> "none"]
    /\ tenant = [e \in Events |-> NoTenant]
    /\ sig = [e \in Events |-> NoKey]
    /\ claimedBy = [e \in Events |-> NoInstance]
    /\ handing = [i \in Instances |-> NoEvent]
    /\ stream = <<>>
    /\ pel = [i \in Instances |-> {}]
    /\ pc = [w \in Workers |-> "idle"]
    /\ batch = [w \in Workers |-> <<>>]
    /\ event = [w \in Workers |-> NoEvent]
    /\ runs = [e \in Events |-> 0]
    /\ faults = 0

Fault == faults < MaxFaults /\ faults' = faults + 1

-----------------------------------------------------------------------------
(* Publishing.                                                             *)

(* publish_event, up to the insert.  Without a key nothing is published;   *)
(* a row that exists already answers the call (DEDUPED) and is not handed  *)
(* to the transport again.                                                 *)
Publish(i, e, t) ==
    /\ handing[i] = NoEvent
    /\ key[i] # NoKey
    /\ status[e] = "none"
    /\ rows' = Append(rows, e)
    /\ status' = [status EXCEPT ![e] = "pending"]
    /\ tenant' = [tenant EXCEPT ![e] = t]
    /\ sig' = [sig EXCEPT ![e] = key[i]]
    /\ handing' = [handing EXCEPT ![i] = e]
    /\ UNCHANGED <<transport, key, claimedBy, stream, pel, workerVars, runs, faults>>

(* The transport's publish: its own insert finds the row there, and Redis  *)
(* then gets the message (XADD).                                           *)
HandOff(i) ==
    /\ handing[i] # NoEvent
    /\ handing' = [handing EXCEPT ![i] = NoEvent]
    /\ stream' = IF transport = "redis" THEN Append(stream, handing[i]) ELSE stream
    /\ UNCHANGED <<transport, key, table, pel, workerVars, runs, faults>>

(* ... or it raises and the exception is logged, or the publisher dies     *)
(* before it: the row stays, and nobody hands it off again.                *)
HandOffLost(i) ==
    /\ Fault
    /\ handing[i] # NoEvent
    /\ handing' = [handing EXCEPT ![i] = NoEvent]
    /\ UNCHANGED <<transport, key, table, stream, pel, workerVars, runs>>

-----------------------------------------------------------------------------
(* subscribe.                                                              *)

At(w, label) == pc' = [pc EXCEPT ![w] = label]

(* claim_next may look at candidates only with a key.                      *)
MayLook(w) == pc[w] = "idle" /\ key[InstanceOf[w]] # NoKey

Take(w, candidates) ==
    /\ candidates # <<>>
    /\ At(w, "walk")
    /\ batch' = [batch EXCEPT ![w] = candidates]

(* list_pending_swarm_events(tenants=...): pending rows, oldest first, as  *)
(* many as the window holds.                                               *)
Listed(tenants) ==
    LET Wanted(e) == status[e] = "pending" /\ tenant[e] \in tenants
        all == SelectSeq(rows, Wanted)
    IN  SubSeq(all, 1, Min({Window, Len(all)}))

(* Slip: the tenants are compared after the query only.                    *)
ListsEveryTenant(w) ==
    /\ transport = "poll"
    /\ MayLook(w)
    /\ Take(w, Listed(Tenants))
    /\ UNCHANGED <<transport, key, table, broker, event, runs, faults>>

PollSubscribe(w) ==
    /\ transport = "poll"
    /\ MayLook(w)
    /\ Take(w, Listed(Served[InstanceOf[w]]))
    /\ UNCHANGED <<transport, key, table, broker, event, runs, faults>>

(* XREADGROUP with ">": messages no consumer of the group was given, which *)
(* become pending entries of this one.  Nothing reads those again.         *)
RedisSubscribe(w) ==
    LET i == InstanceOf[w]
        given == SubSeq(stream, 1, Min({Count, Len(stream)}))
    IN  /\ transport = "redis"
        /\ MayLook(w)
        /\ Take(w, given)
        /\ stream' = SubSeq(stream, Len(given) + 1, Len(stream))
        /\ pel' = [pel EXCEPT ![i] = @ \cup ToSet(given)]
        /\ UNCHANGED <<transport, key, table, handing, event, runs, faults>>

-----------------------------------------------------------------------------
(* The loop of claim_next.                                                 *)

Candidate(w) == pc[w] = "walk" /\ batch[w] # <<>>

(* Slip: the tenant is left to the transport.                              *)
AnyTenant(w, e) == e \in Events

ForThisInstance(w, e) == tenant[e] \in Served[InstanceOf[w]]

(* The key was read when claim_next began; it is taken to be the one the   *)
(* instance has now.                                                       *)
Verified(w, e) == sig[e] = key[InstanceOf[w]]

NextCandidate(w) ==
    /\ batch' = [batch EXCEPT ![w] = Tail(@)]
    /\ At(w, IF Len(batch[w]) = 1 THEN "idle" ELSE "walk")

(* An event for another tenant is passed over and stays `pending`.         *)
PassOver(w) ==
    /\ Candidate(w) /\ ~ForThisInstance(w, Head(batch[w]))
    /\ NextCandidate(w)
    /\ UNCHANGED <<transport, key, table, broker, event, runs, faults>>

(* Slip: the row of a forged event is marked whatever its status is.       *)
RejectsAnything(w) ==
    LET e == Head(batch[w])
    IN  /\ Candidate(w) /\ ForThisInstance(w, e) /\ ~Verified(w, e)
        /\ status' = [status EXCEPT ![e] = "skipped"]
        /\ NextCandidate(w)
        /\ UNCHANGED <<transport, key, rows, tenant, sig, claimedBy, broker, event, runs, faults>>

(* mark_swarm_event_skipped: pending -> skipped, for the whole fleet.      *)
Reject(w) ==
    LET e == Head(batch[w])
    IN  /\ Candidate(w) /\ ForThisInstance(w, e) /\ ~Verified(w, e)
        /\ status' = [status EXCEPT ![e] = IF @ = "pending" THEN "skipped" ELSE @]
        /\ NextCandidate(w)
        /\ UNCHANGED <<transport, key, rows, tenant, sig, claimedBy, broker, event, runs, faults>>

Examined(w, e) == Candidate(w) /\ e = Head(batch[w]) /\ ForThisInstance(w, e) /\ Verified(w, e)

ClaimedBy(w, e) ==
    LET i == InstanceOf[w]
    IN  /\ status' = [status EXCEPT ![e] = "claimed"]
        /\ claimedBy' = [claimedBy EXCEPT ![e] = i]
        /\ pel' = [pel EXCEPT ![i] = @ \ {e}]
        /\ batch' = [batch EXCEPT ![w] = <<>>]
        /\ event' = [event EXCEPT ![w] = e]
        /\ At(w, "claimed")
        /\ UNCHANGED <<transport, key, rows, tenant, sig, handing, stream, runs, faults>>

(* Slip: the update does not compare the status.                           *)
ClaimsAnything(w) == \E e \in Events : Examined(w, e) /\ ClaimedBy(w, e)

(* claim_swarm_event: the row is updated if it is still pending, the call  *)
(* returns the event, and the candidates after it are given up.            *)
Claim(w) ==
    \E e \in Events :
        /\ Examined(w, e)
        /\ status[e] = "pending"
        /\ ClaimedBy(w, e)

(* Another worker was faster: DEDUPED, again without the candidates left.  *)
ClaimLost(w) ==
    \E e \in Events :
        /\ Examined(w, e)
        /\ status[e] # "pending"
        /\ batch' = [batch EXCEPT ![w] = <<>>]
        /\ At(w, "idle")
        /\ UNCHANGED <<transport, key, table, broker, event, runs, faults>>

-----------------------------------------------------------------------------
(* dispatch_claimed_event.                                                 *)

(* mark_swarm_event_running: claimed -> running, and only for the owner.   *)
Owned(w, e) == status[e] = "claimed" /\ claimedBy[e] = InstanceOf[w]

BeginHandler(w) ==
    LET e == event[w]
    IN  /\ pc[w] = "claimed" /\ Owned(w, e)
        /\ status' = [status EXCEPT ![e] = "running"]
        /\ At(w, "handle")
        /\ UNCHANGED <<transport, key, rows, tenant, sig, claimedBy, broker, batch, event, runs,
                       faults>>

NotTheOwner(w) ==
    /\ pc[w] = "claimed" /\ ~Owned(w, event[w])
    /\ At(w, "idle")
    /\ event' = [event EXCEPT ![w] = NoEvent]
    /\ UNCHANGED <<transport, key, table, broker, batch, runs, faults>>

(* The handler starts its pipeline ...                                     *)
Handle(w) ==
    /\ pc[w] = "handle"
    /\ runs' = [runs EXCEPT ![event[w]] = @ + 1]
    /\ At(w, "ended")
    /\ UNCHANGED <<transport, key, table, broker, batch, event, faults>>

(* ... and returns or raises: running -> done | failed.  A raise before    *)
(* the pipeline is started (no project in the payload, no orchestrator)    *)
(* ends here as well.                                                      *)
Finish(w) ==
    LET e == event[w]
    IN  /\ pc[w] \in {"handle", "ended"}
        /\ \E outcome \in IF pc[w] = "handle" THEN {"failed"} ELSE {"done", "failed"} :
              status' = [status EXCEPT ![e] = IF @ = "running" THEN outcome ELSE @]
        /\ At(w, "idle")
        /\ event' = [event EXCEPT ![w] = NoEvent]
        /\ UNCHANGED <<transport, key, rows, tenant, sig, claimedBy, broker, batch, runs, faults>>

(* A caller dispatches an event it did not claim: the loser of a claim, or *)
(* one that is handed the same event again.                                *)
StrayDispatch(w) ==
    /\ Fault
    /\ pc[w] = "idle"
    /\ \E e \in ToSet(rows) : event' = [event EXCEPT ![w] = e]
    /\ At(w, "claimed")
    /\ UNCHANGED <<transport, key, table, broker, batch, runs>>

-----------------------------------------------------------------------------
(* The environment.                                                        *)

(* The worker's process dies and starts again with nothing in hand.        *)
Crash(w) ==
    /\ Fault
    /\ pc[w] # "idle"
    /\ At(w, "idle")
    /\ batch' = [batch EXCEPT ![w] = <<>>]
    /\ event' = [event EXCEPT ![w] = NoEvent]
    /\ UNCHANGED <<transport, key, table, broker, runs>>

(* The key of one instance is changed or becomes unresolvable.             *)
Rekey(i) ==
    /\ Fault
    /\ \E k \in Keys \cup {NoKey} : k # key[i] /\ key' = [key EXCEPT ![i] = k]
    /\ UNCHANGED <<transport, table, broker, workerVars, runs>>

Step(w) ==
    \/ PollSubscribe(w) \/ RedisSubscribe(w)
    \/ PassOver(w) \/ Reject(w) \/ Claim(w) \/ ClaimLost(w)
    \/ BeginHandler(w) \/ NotTheOwner(w) \/ Handle(w) \/ Finish(w)

Next ==
    \/ \E i \in Instances : \E e \in Events : \E t \in Tenants : Publish(i, e, t)
    \/ \E i \in Instances : HandOff(i) \/ HandOffLost(i) \/ Rekey(i)
    \/ \E w \in Workers : Step(w) \/ StrayDispatch(w) \/ Crash(w)

Spec == Init /\ [][Next]_vars

(* Workers keep calling claim_next and get on with what they claimed; what *)
(* was published is handed off.                                            *)
FairSpec ==
    /\ Spec
    /\ \A w \in Workers : WF_vars(Step(w))
    /\ \A i \in Instances : WF_vars(HandOff(i))

-----------------------------------------------------------------------------
(* Properties.                                                             *)

(* The pipeline of an event is started once at most, whoever claims it,    *)
(* whoever dispatches it a second time and whatever crashes: "ran twice"   *)
(* is the outcome process_claimed_event says is not acceptable.            *)
HandledAtMostOnce == \A e \in Events : runs[e] <= 1

(* A handler was started for an event only under a claim of an instance    *)
(* that serves its tenant.                                                 *)
HandledForServed ==
    \A e \in Events :
        runs[e] > 0 => claimedBy[e] \in Instances /\ tenant[e] \in Served[claimedBy[e]]

(* What became of an event is never overwritten: a signature found bad, or *)
(* a claim, after the row has gone on leaves its status alone.             *)
Settled == {"done", "failed", "skipped"}
NeverReopened ==
    [][\A e \in Events :
          /\ status[e] \in Settled => status'[e] = status[e]
          /\ status[e] \in {"claimed", "running"} =>
                /\ claimedBy'[e] = claimedBy[e]
                /\ status'[e] \notin {"pending", "skipped"}]_vars

(* What the table says of an event is what happened to it: `done` is said  *)
(* of one whose pipeline was started, `skipped` of one whose never was.    *)
OutcomeIsTrue ==
    \A e \in Events :
        /\ status[e] = "done" => runs[e] = 1
        /\ status[e] = "skipped" => runs[e] = 0

(* An event in flight is in the hand of a worker that can take it further: *)
(* each fault leaves at most one adrift, for good, for nothing takes up    *)
(* what a dead worker had claimed.                                         *)
InHand(e) ==
    \E w \in Workers :
        /\ event[w] = e
        /\ \/ status[e] = "claimed" /\ pc[w] = "claimed" /\ Owned(w, e)
           \/ status[e] = "running" /\ pc[w] \in {"handle", "ended"}

Adrift == {e \in Events : status[e] \in {"claimed", "running"} /\ ~InHand(e)}

FaultLosesOne == Cardinality(Adrift) <= faults

(* Poll: while every instance keeps its key and nothing crashes, an event  *)
(* for a tenant somebody serves is handled to the end, however many        *)
(* events of tenants nobody serves wait before it.                         *)
ServedBySome(t) == \E w \in Workers : t \in Served[InstanceOf[w]]
Delivered ==
    \A e \in Events :
        (transport = "poll" /\ status[e] = "pending" /\ ServedBySome(tenant[e]))
            ~> (status[e] \in Settled \/ faults > 0)

(* A comment in RedisTransport: a pending stream entry is redelivered, so  *)
(* losing the local map of message ids does no harm.  Checked in no run:   *)
(* the code reads new messages only, so it does not hold.                  *)
RedisDelivered ==
    \A e \in Events :
        (transport = "redis" /\ status[e] = "pending" /\ ServedBySome(tenant[e]))
            ~> (status[e] \in Settled \/ faults > 0)
=============================================================================
