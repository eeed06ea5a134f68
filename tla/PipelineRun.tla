---------------------------- MODULE PipelineRun -----------------------------
(***************************************************************************)
(* One run of a pipeline: its stages in order, the plan checkpoints at     *)
(* which it stops for a person, and the calls that take it up again        *)
(* (Orchestrator.run_pipeline, approve_run, resume_pipeline and            *)
(* human_challenge, with the tables runs and approvals of state_service).  *)
(*                                                                         *)
(* Everything a resumed run knows of what went before is in one row of     *)
(* `approvals`, written when the run stops.  Three kinds of callers act on *)
(* that row, none under a lock: the call that started the run, people who  *)
(* approve or deny it, and people who question it while it waits.          *)
(*                                                                         *)
(* An action is one statement of the database or one stage, with the       *)
(* local work up to the next.  A stage is a call of run_task; what its     *)
(* agents do is an outcome.  The flag `simulate`, under which no           *)
(* checkpoint stops the run, is off.                                       *)
(***************************************************************************)
EXTENDS Integers, FiniteSetsExt

CONSTANTS
    N,              \* stages 1..N
    Components,     \* members of the group; none: the run is not for a group
    Pipelines,      \* the pipelines the run may be of
    Origin,         \* the call that starts the run
    Approvers,      \* calls of approve_run
    Challengers,    \* calls of human_challenge
    Faults,         \* what goes wrong: "fail", "raise", "crash"
    MaxFaults,      \* bound: crashes and exceptions
    NoRow

Stages == 1..N
Callers == {Origin} \cup Approvers \cup Challengers
Walkers == {Origin} \cup Approvers

(* `gated`: pause_before; `scope`: only_components, nothing if it always   *)
(* runs; `tagged`: some stage has only_tags; `continues`:                  *)
(* continue_on_failure; `selector`: the stage whose output may drop some   *)
(* of the `optional` ones, by the team it composes or the SURFACES it      *)
(* names; `rules`: what the approval rules may say at its checkpoints.     *)
PipelineType ==
    [gated : SUBSET Stages, scope : [Stages -> SUBSET Components], tagged : BOOLEAN,
     continues : SUBSET Stages, selector : 0..N, optional : SUBSET Stages,
     rules : SUBSET {"approve", "deny"}]

ASSUME StagesAssumption == N \in Nat \ {0}
ASSUME PipelinesAssumption == Pipelines \subseteq PipelineType
ASSUME CallersAssumption ==
    /\ Origin \notin Approvers \cup Challengers
    /\ Approvers \cap Challengers = {}
ASSUME OutcomesAssumption ==
    /\ Faults \subseteq {"fail", "raise", "crash"}
    /\ MaxFaults \in Nat

VARIABLES
    pipeline,
    run,                \* the status column of the run's row
    approval,           \* the row of `approvals`, or NoRow
    pc, seen,           \* callers: control state, the row as it was read
    at, from,           \* walkers: the stage they are at, start_index
    comps,              \* ... selected_components
    context,            \* ... the stages whose output later stages are given
    dropped,            \* ... the stages that are not to run
    begun, again,       \* stages that were started, and those started again
    passed,             \* stages that ended and let the run go on
    licensed,           \* stages a person, or a rule, approved the start of
    chosen,             \* the first selection of components
    crossed,            \* writes to a row that had moved on since it was read
    faults

rows == <<run, approval>>
walk == <<at, from, comps, context, dropped>>
history == <<begun, again, passed, licensed, chosen, crossed>>
vars == <<pipeline, rows, pc, seen, walk, history, faults>>

RunStates == {"none", "running", "paused", "complete", "failed", "denied"}
Rows == [status : {"pending", "approved", "denied"}, index : Stages,
         comps : SUBSET Components, context : SUBSET (Stages \cup Challengers)]
Labels == {"idle", "start", "walk", "stage", "park", "ruleDeny", "deny", "decide", "resume",
           "answer", "over"}

ASSUME NoRowAssumption == NoRow \notin Rows

TypeOK ==
    /\ pipeline \in Pipelines
    /\ run \in RunStates
    /\ approval \in Rows \cup {NoRow}
    /\ pc \in [Callers -> Labels]
    /\ seen \in [Callers -> Rows \cup {NoRow}]
    /\ at \in [Walkers -> 1..(N + 1)]
    /\ from \in [Walkers -> Stages]
    /\ comps \in [Walkers -> SUBSET Components]
    /\ context \in [Walkers -> SUBSET (Stages \cup Challengers)]
    /\ dropped \in [Walkers -> SUBSET Stages]
    /\ {begun, again, passed, licensed} \subseteq SUBSET Stages
    /\ chosen \subseteq Components
    /\ crossed \subseteq {"decision", "challenge", "park"}
    /\ faults \in Nat

Init ==
    /\ pipeline \in Pipelines
    /\ run = "none"
    /\ approval = NoRow
    /\ pc = [c \in Callers |-> IF c = Origin THEN "start" ELSE "idle"]
    /\ seen = [c \in Callers |-> NoRow]
    /\ at = [w \in Walkers |-> 1]
    /\ from = [w \in Walkers |-> 1]
    /\ comps = [w \in Walkers |-> Components]
    /\ context = [w \in Walkers |-> {}]
    /\ dropped = [w \in Walkers |-> {}]
    /\ begun = {} /\ again = {} /\ passed = {} /\ licensed = {}
    /\ chosen = Components
    /\ crossed = {}
    /\ faults = 0

-----------------------------------------------------------------------------
(* The loop of _run_pipeline_body.                                         *)

To(c, label) == pc' = [pc EXCEPT ![c] = label]

(* The call returns, or its process dies: what it held is gone.            *)
Forgets(c) ==
    /\ seen' = [seen EXCEPT ![c] = NoRow]
    /\ IF c \in Walkers
       THEN /\ at' = [at EXCEPT ![c] = 1]
            /\ from' = [from EXCEPT ![c] = 1]
            /\ comps' = [comps EXCEPT ![c] = Components]
            /\ context' = [context EXCEPT ![c] = {}]
            /\ dropped' = [dropped EXCEPT ![c] = {}]
       ELSE UNCHANGED walk

Returns(c) == To(c, "idle") /\ Forgets(c)

PauseIndex == IF pipeline.gated = {} THEN N + 1 ELSE Min(pipeline.gated)

(* _parse_components: the planning agents name some of the components, or  *)
(* none that is known and all of them stay.                                *)
Picks(offered) == IF offered = {} THEN {{}} ELSE SUBSET offered \ {{}}

(* The loop comes to stage s.  At the first checkpoint the components are  *)
(* selected among those the walk began with; `chosen` is what the call     *)
(* that started the run selected.                                          *)
Arrive(w, s, offered) ==
    /\ at' = [at EXCEPT ![w] = s]
    /\ \E picked \in IF s = PauseIndex THEN Picks(offered) ELSE {offered} :
          /\ comps' = [comps EXCEPT ![w] = picked]
          /\ chosen' = IF w = Origin THEN picked ELSE chosen

(* record_run_start.  What is refused before it leaves no run.             *)
Start ==
    /\ pc[Origin] = "start"
    /\ run' = "running"
    /\ To(Origin, "walk")
    /\ Arrive(Origin, 1, Components)
    /\ UNCHANGED <<pipeline, approval, seen, from, context, dropped, begun, again, passed, licensed,
                   crossed, faults>>

Walking(w) == pc[w] = "walk" /\ at[w] \in Stages

OutOfScope(w) ==
    LET scope == pipeline.scope[at[w]]
    IN  scope # {} /\ scope \cap comps[w] = {}

Skipped(w) == at[w] \in dropped[w] \/ OutOfScope(w)

Skip(w) ==
    /\ Walking(w) /\ Skipped(w)
    /\ passed' = passed \cup {at[w]}
    /\ Arrive(w, at[w] + 1, comps[w])
    /\ UNCHANGED <<pipeline, rows, pc, seen, from, context, dropped, begun, again, licensed,
                   crossed, faults>>

(* Slip: a run that was taken up stops no more.                            *)
StopsOnce(w) == at[w] \in pipeline.gated /\ from[w] = 1 /\ at[w] # from[w]

(* A checkpoint: pause_before, at any stage but the one the call starts    *)
(* with.                                                                   *)
Checkpoint(w) == at[w] \in pipeline.gated /\ at[w] # from[w]

(* run_task of the stage, where there is no checkpoint or a rule approves  *)
(* it.                                                                     *)
BeginStage(w) ==
    /\ Walking(w) /\ ~Skipped(w)
    /\ Checkpoint(w) => "approve" \in pipeline.rules
    /\ licensed' = IF Checkpoint(w) THEN licensed \cup {at[w]} ELSE licensed
    /\ To(w, "stage")
    /\ begun' = begun \cup {at[w]}
    /\ again' = IF at[w] \in begun THEN again \cup {at[w]} ELSE again
    /\ UNCHANGED <<pipeline, rows, seen, walk, passed, chosen, crossed, faults>>

(* checkpoint_meta                                                         *)
Meta(w) == [status |-> "pending", index |-> at[w], comps |-> comps[w], context |-> context[w]]

(* record_approval_request replaces the row, whatever it says.             *)
AskApproval(w) ==
    /\ Walking(w) /\ ~Skipped(w) /\ Checkpoint(w)
    /\ approval' = Meta(w)
    /\ seen' = [seen EXCEPT ![w] = approval']
    /\ \/ To(w, "park")
       \/ "deny" \in pipeline.rules /\ To(w, "ruleDeny")
    /\ UNCHANGED <<pipeline, run, walk, history, faults>>

Pending == approval # NoRow /\ approval.status = "pending"

(* complete_run(PAUSED), after the people were told.                       *)
Park(w) ==
    /\ pc[w] = "park"
    /\ run' = "paused"
    /\ Returns(w)
    /\ crossed' = IF ~Pending THEN crossed \cup {"park"} ELSE crossed
    /\ UNCHANGED <<pipeline, approval, begun, again, passed, licensed, chosen, faults>>

(* The row is not the one that was read, or somebody decided it.           *)
MovedOn(c) == ~Pending \/ approval.index # seen[c].index

(* update_approval compares nothing.                                       *)
Write(c, decision) ==
    /\ approval' = [approval EXCEPT !.status = decision]
    /\ crossed' = IF MovedOn(c) THEN crossed \cup {"decision"} ELSE crossed

DenyByRule(w) ==
    /\ pc[w] = "ruleDeny"
    /\ Write(w, "denied")
    /\ To(w, "deny")
    /\ UNCHANGED <<pipeline, run, seen, walk, begun, again, passed, licensed, chosen, faults>>

(* complete_run(denied)                                                    *)
Denied(w) ==
    /\ pc[w] = "deny"
    /\ run' = "denied"
    /\ Returns(w)
    /\ UNCHANGED <<pipeline, approval, history, faults>>

(* The stage ended well, or its failure is one the pipeline tolerates.  A  *)
(* selector may drop stages.  `context` stands for prior_chunks, which a   *)
(* stage is given under context_routing_mode `full`.                       *)
StagePassed(w) ==
    LET s == at[w]
    IN  /\ pc[w] = "stage"
        /\ To(w, "walk")
        /\ passed' = passed \cup {s}
        /\ context' = [context EXCEPT ![w] = @ \cup {s}]
        /\ \E d \in IF s = pipeline.selector THEN SUBSET pipeline.optional ELSE {dropped[w]} :
              dropped' = [dropped EXCEPT ![w] = d]
        /\ Arrive(w, s + 1, comps[w])
        /\ UNCHANGED <<pipeline, rows, seen, from, begun, again, licensed, crossed, faults>>

Fault(kind) == kind \in Faults /\ faults < MaxFaults /\ faults' = faults + 1

(* Slip: any stage may fail.                                               *)
GoesOnAfterFailure(w) ==
    /\ "fail" \in Faults
    /\ pc[w] = "stage"
    /\ To(w, "walk")
    /\ context' = [context EXCEPT ![w] = @ \cup {at[w]}]
    /\ Arrive(w, at[w] + 1, comps[w])
    /\ UNCHANGED <<pipeline, rows, seen, from, dropped, begun, again, passed, licensed, crossed,
                   faults>>

(* Fail fast: complete_run with what _classify_stage_failure says.         *)
StageFailed(w) ==
    /\ "fail" \in Faults
    /\ pc[w] = "stage" /\ at[w] \notin pipeline.continues
    /\ run' = "failed"
    /\ Returns(w)
    /\ UNCHANGED <<pipeline, approval, history, faults>>

(* run_task, or something after it, raises: the row stays as it is.        *)
StageRaised(w) ==
    /\ Fault("raise")
    /\ pc[w] = "stage"
    /\ Returns(w)
    /\ UNCHANGED <<pipeline, rows, history>>

Finish(w) ==
    /\ pc[w] = "walk" /\ at[w] = N + 1
    /\ run' = "complete"
    /\ Returns(w)
    /\ UNCHANGED <<pipeline, approval, history, faults>>

-----------------------------------------------------------------------------
(* People.                                                                 *)

(* get_approval, here and in human_challenge: the row must be pending.     *)
ReadRow(c, label) ==
    /\ pc[c] = "idle"
    /\ Pending
    /\ seen' = [seen EXCEPT ![c] = approval]
    /\ To(c, label)
    /\ UNCHANGED <<pipeline, rows, walk, history, faults>>

Read(a) == a \in Approvers /\ ReadRow(a, "decide")

Deny(a) ==
    /\ pc[a] = "decide"
    /\ Write(a, "denied")
    /\ To(a, "deny")
    /\ UNCHANGED <<pipeline, run, seen, walk, begun, again, passed, licensed, chosen, faults>>

(* Slip: the decision is recorded, and nothing is resumed.                 *)
ApprovesOnly(a) ==
    /\ pc[a] = "decide"
    /\ Write(a, "approved")
    /\ licensed' = licensed \cup {seen[a].index}
    /\ Returns(a)
    /\ UNCHANGED <<pipeline, run, begun, again, passed, chosen, faults>>

Approve(a) ==
    /\ pc[a] = "decide"
    /\ Write(a, "approved")
    /\ licensed' = licensed \cup {seen[a].index}
    /\ To(a, "resume")
    /\ UNCHANGED <<pipeline, run, seen, walk, begun, again, passed, chosen, faults>>

ResumesWith(a, index, offered, planned) ==
    /\ pc[a] = "resume" /\ ~pipeline.tagged
    /\ from' = [from EXCEPT ![a] = index]
    /\ context' = [context EXCEPT ![a] = planned]
    /\ dropped' = [dropped EXCEPT ![a] = {}]
    /\ Arrive(a, index, offered)
    /\ seen' = [seen EXCEPT ![a] = NoRow]
    /\ To(a, "walk")
    /\ UNCHANGED <<pipeline, rows, begun, again, passed, licensed, crossed, faults>>

(* Slips: the stages start over; the plan is not handed on.                *)
ResumesFromTheStart(a) == ResumesWith(a, 1, seen[a].comps, seen[a].context)
ResumesBlank(a) == ResumesWith(a, seen[a].index, seen[a].comps, {})

(* run_pipeline with what the row said: its stage, its components and its  *)
(* context, under the same run id, whose status is not written.  What a    *)
(* selector had dropped is not in the row.                                 *)
Resume(a) == ResumesWith(a, seen[a].index, seen[a].comps, seen[a].context)

(* Nor is the group: _validate_stage_tags finds every tag undefined and    *)
(* raises, the approval given.                                             *)
ResumeRefused(a) ==
    /\ pc[a] = "resume" /\ pipeline.tagged
    /\ Returns(a)
    /\ UNCHANGED <<pipeline, rows, history, faults>>

(* human_challenge reads the row, has an agent answer ...                  *)
Challenge(c) == c \in Challengers /\ ReadRow(c, "answer")

(* ... and writes back all of the metadata it had read, the answer added.  *)
Answer(c) ==
    /\ pc[c] = "answer"
    /\ approval' = [seen[c] EXCEPT !.status = approval.status, !.context = @ \cup {c}]
    /\ crossed' = IF MovedOn(c) THEN crossed \cup {"challenge"} ELSE crossed
    /\ To(c, "over") /\ Forgets(c)
    /\ UNCHANGED <<pipeline, run, begun, again, passed, licensed, chosen, faults>>

(* The process of a caller dies.                                           *)
Crash(c) ==
    /\ Fault("crash")
    /\ pc[c] \notin {"idle", "start", "over"}
    /\ To(c, IF c \in Challengers THEN "over" ELSE "idle") /\ Forgets(c)
    /\ UNCHANGED <<pipeline, rows, history>>

Goes(w) ==
    \/ Skip(w) \/ BeginStage(w) \/ AskApproval(w) \/ Park(w) \/ DenyByRule(w) \/ Denied(w)
    \/ StagePassed(w) \/ StageFailed(w) \/ StageRaised(w) \/ Finish(w)

Decides(a) == Deny(a) \/ Approve(a) \/ Resume(a) \/ ResumeRefused(a)

Next ==
    \/ Start
    \/ \E w \in Walkers : Goes(w)
    \/ \E a \in Approvers : Read(a) \/ Decides(a)
    \/ \E c \in Challengers : Challenge(c) \/ Answer(c)
    \/ \E c \in Callers : Crash(c)

Spec == Init /\ [][Next]_vars

(* A call that has begun goes on; nobody has to decide.                    *)
FairSpec ==
    /\ Spec
    /\ \A w \in Walkers : WF_vars(Goes(w))
    /\ \A a \in Approvers : WF_vars(Decides(a))

-----------------------------------------------------------------------------
(* Properties.                                                             *)

(* "halts the run before that stage executes and waits for a human to      *)
(* approve the plan" (docs/PIPELINES-AND-ROLES.md:113), on a fresh run and *)
(* on one that was taken up, whatever decisions, challenges and crashes    *)
(* cross.  The first stage is the exception: no run stops before it.       *)
GateKept == \A s \in pipeline.gated \cap begun : s = 1 \/ s \in licensed

(* A run is `complete` only when every stage ended well, was skipped or    *)
(* had a failure the pipeline tolerates, however many calls walked it.     *)
CompleteMeansAll == run = "complete" => passed = Stages

(* While no decision and no answer is written to a row that had moved on,  *)
(* a stage is started once.                                                *)
Uncrossed == crossed \cap {"decision", "challenge"} = {}
OneRunThrough == Uncrossed => again = {}

(* A checkpoint hands on what went before it: a stage is never run for a   *)
(* component that the selection left out, whatever crosses; and while no   *)
(* decision and no answer is written to a row that had moved on, it is     *)
(* given the output of every stage that ran before it.                     *)
HandsOn ==
    \A w \in Walkers : pc[w] = "stage" =>
        /\ at[w] >= PauseIndex => comps[w] \subseteq chosen
        /\ Uncrossed => {s \in begun : s < at[w]} \subseteq context[w]

Endings == {"complete", "failed", "denied"}
Ended == run \in Endings

(* What people are promised who put checkpoints into a pipeline: every     *)
(* step this module takes is one of GatedWalk, or invisible to it.  That a *)
(* run ends once is part of it.                                            *)
GatesOfStages == [s \in Stages |-> IF s \in pipeline.gated \ {1} THEN {s} ELSE {}]

Outcome == IF Ended THEN run ELSE "open"

Promise == INSTANCE GatedWalk WITH
    Done <- "complete", Open <- "open",
    gates <- GatesOfStages, granted <- licensed, started <- begun, over <- passed,
    outcome <- Outcome, overtaken <- crossed # {}

KeepsPromise == Promise!Spec

(* A decision takes effect: the run ends or asks again.                    *)
DecisionTakesEffect ==
    (approval # NoRow /\ ~Pending)
        ~> \/ Ended \/ Pending
           \/ faults > 0 \/ "park" \in crossed \/ pipeline.tagged

(* A run is never left lying: one that has begun has ended, waits for a    *)
(* person, or has a call at work on it, whatever decisions and challenges  *)
(* cross.  It is lost by what stops a call, by a decision taken after the  *)
(* run asked and before it is parked, which then parks it for good, and by *)
(* a group whose tags nobody who takes the run up knows.                   *)
Active(w) == pc[w] \in {"walk", "stage", "park", "ruleDeny", "deny", "resume"}

Attended ==
    \/ run = "none" \/ Ended \/ Pending
    \/ \E w \in Walkers : Active(w)
    \/ faults > 0 \/ "park" \in crossed \/ pipeline.tagged

(* "On approve, continue run_pipeline from the saved resume point"         *)
(* (resume_pipeline): with nobody at work, a paused run waits for a        *)
(* decision.  With MaxFaults = 0 and no challenger it still does not, for  *)
(* ResumeRefused and for the crossing "park"; no run checks it.            *)
PausedIsPending ==
    run = "paused" /\ (\A w \in Walkers : ~Active(w)) => Pending
=============================================================================
