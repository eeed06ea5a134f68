------------------------- MODULE PipelineRunProofs --------------------------
(***************************************************************************)
(* What PipelineRun guarantees for any pipelines, groups, number of        *)
(* stages, of people who decide or question, and of faults.                *)
(*                                                                         *)
(* A stage that is gated starts either at a checkpoint a rule approved or  *)
(* as the first one of a call that resumes, and a call resumes at a stage  *)
(* only after somebody approved the row it read (Licences).  That no stage *)
(* is passed over rests on the rows: each hands on an index before which   *)
(* every stage was passed, whoever writes it, late challenges included     *)
(* (Behind).  Neither depends on when the decisions come.                  *)
(*                                                                         *)
(* While no write meets a row that had moved on, one call at most walks    *)
(* the run (OneHand): what was begun lies before the index of the row, so  *)
(* nothing is begun twice, and the row carries the output of all of it.    *)
(* Whoever may end the run has it alone (OneEnding): with that, its steps  *)
(* are those of GatedWalk.                                                 *)
(***************************************************************************)
EXTENDS PipelineRun, TLAPS

USE DEF vars, rows, walk, history

Deciding == {"decide", "resume", "answer", "ruleDeny"}

(* A caller with a decision in hand read a row, and there still is one.    *)
RowsRead ==
    \A c \in Callers :
        pc[c] \in Deciding => approval \in Rows /\ seen[c] \in Rows

AtStage == \A w \in Walkers : pc[w] = "stage" => at[w] \in Stages

Licences ==
    /\ \A w \in Walkers : from[w] = 1 \/ from[w] \in licensed
    /\ \A c \in Callers : pc[c] = "resume" => seen[c].index \in licensed

Before(x) == x \in Rows => 1..(x.index - 1) \subseteq passed

Behind ==
    /\ \A w \in Walkers : 1..(at[w] - 1) \subseteq passed
    /\ Before(approval)
    /\ \A c \in Callers : Before(seen[c])

IInv ==
    /\ TypeOK /\ RowsRead /\ AtStage /\ Licences /\ Behind
    /\ GateKept /\ CompleteMeansAll

-----------------------------------------------------------------------------
LEMMA WalkersCall == Walkers \subseteq Callers
BY DEF Walkers, Callers

LEMMA InitIInv == Init => IInv
<1> SUFFICES ASSUME Init PROVE IInv
  OBVIOUS
<1> USE DEF Init
<1>1. 1 \in Stages /\ 1 \in 1..(N + 1)
  BY StagesAssumption DEF Stages
<1>2. TypeOK
  BY <1>1 DEF TypeOK, RunStates, Labels
<1>3. RowsRead /\ AtStage /\ Licences
  BY WalkersCall DEF RowsRead, AtStage, Licences, Deciding
<1>4. Behind
  BY NoRowAssumption DEF Behind, Before
<1>5. GateKept /\ CompleteMeansAll
  BY DEF GateKept, CompleteMeansAll
<1> QED
  BY <1>2, <1>3, <1>4, <1>5 DEF IInv

(* What a caller holds when it has returned.                               *)
LEMMA Forgotten ==
    ASSUME TypeOK, Behind, NEW c \in Callers, Forgets(c)
    PROVE  /\ seen' \in [Callers -> Rows \cup {NoRow}]
           /\ \A b \in Callers : seen'[b] = IF b = c THEN NoRow ELSE seen[b]
           /\ at' \in [Walkers -> 1..(N + 1)]
           /\ \A w \in Walkers : at'[w] = at[w] \/ (w = c /\ at'[w] = 1)
           /\ from' \in [Walkers -> Stages]
           /\ \A w \in Walkers : from'[w] = from[w] \/ from'[w] = 1
           /\ comps' \in [Walkers -> SUBSET Components]
           /\ context' \in [Walkers -> SUBSET (Stages \cup Challengers)]
           /\ dropped' \in [Walkers -> SUBSET Stages]
<1>1. 1 \in Stages /\ 1 \in 1..(N + 1)
  BY StagesAssumption DEF Stages
<1>2. CASE c \in Walkers
  BY <1>1, <1>2 DEF Forgets, TypeOK
<1>3. CASE c \notin Walkers
  BY <1>3 DEF Forgets, TypeOK
<1> QED
  BY <1>2, <1>3

LEMMA Arrived ==
    ASSUME TypeOK, NEW w \in Walkers, NEW s \in 1..(N + 1), NEW offered \in SUBSET Components,
           Arrive(w, s, offered)
    PROVE  /\ at' \in [Walkers -> 1..(N + 1)]
           /\ \A v \in Walkers : at'[v] = IF v = w THEN s ELSE at[v]
           /\ comps' \in [Walkers -> SUBSET Components]
           /\ chosen' \subseteq Components
<1>1. PICK picked \in IF s = PauseIndex THEN Picks(offered) ELSE {offered} :
          /\ comps' = [comps EXCEPT ![w] = picked]
          /\ chosen' = IF w = Origin THEN picked ELSE chosen
  BY DEF Arrive
<1>2. picked \subseteq Components
  BY <1>1 DEF Picks
<1> QED
  BY <1>1, <1>2 DEF Arrive, TypeOK

(* A decision is written to a row, and leaves its stage as it is.          *)
LEMMA Written ==
    ASSUME TypeOK, RowsRead, Behind, NEW c \in Callers, pc[c] \in Deciding,
           NEW decision \in {"approved", "denied"}, Write(c, decision)
    PROVE  /\ approval' \in Rows
           /\ 1..(approval'.index - 1) \subseteq passed
           /\ crossed' \subseteq {"decision", "challenge", "park"}
<1>1. approval \in Rows
  BY DEF RowsRead
<1>2. approval' \in Rows /\ approval'.index = approval.index
  BY <1>1 DEF Write, Rows
<1>3. crossed' \subseteq {"decision", "challenge", "park"}
  BY DEF Write, TypeOK
<1> QED
  BY <1>1, <1>2, <1>3 DEF Behind, Before

-----------------------------------------------------------------------------
LEMMA StartIInv ==
    ASSUME IInv, Start
    PROVE  IInv'
<1> USE DEF IInv
<1>a. 1 \in 1..(N + 1) /\ Components \in SUBSET Components
  BY StagesAssumption DEF Walking, Stages, TypeOK, AtStage
<1>b. Arrive(Origin, 1, Components)
  BY DEF Start
<1>c. TypeOK
  OBVIOUS
<1>d. /\ at' \in [Walkers -> 1..(N + 1)]
      /\ \A v \in Walkers : at'[v] = IF v = Origin THEN 1 ELSE at[v]
      /\ comps' \in [Walkers -> SUBSET Components]
      /\ chosen' \subseteq Components
  BY <1>a, <1>b, <1>c, Arrived DEF Walkers
<1>1. TypeOK'
  BY <1>d, <1>a DEF Start, Walkers, Callers, To, TypeOK, RunStates, Labels, Stages
<1>2. RowsRead'
  BY <1>d, WalkersCall DEF Start, Walkers, Callers, To, TypeOK, RowsRead, Deciding
<1>3. AtStage' /\ Licences'
  BY <1>d, <1>a, WalkersCall DEF Start, Walkers, Callers, To, TypeOK, AtStage, Licences
<1>4. Behind'
  BY <1>d, <1>a, NoRowAssumption DEF Start, Walkers, Callers, To, TypeOK, Behind, Before
<1>5. GateKept' /\ CompleteMeansAll'
  BY <1>d, <1>a, StagesAssumption DEF Start, Walkers, Callers, To, TypeOK, GateKept, CompleteMeansAll
<1> QED
  BY <1>1, <1>2, <1>3, <1>4, <1>5

LEMMA SkipIInv ==
    ASSUME IInv, NEW w \in Walkers, Skip(w)
    PROVE  IInv'
<1> USE DEF IInv
<1>a. at[w] + 1 \in 1..(N + 1) /\ comps[w] \in SUBSET Components
  BY StagesAssumption DEF Skip, Walking, Stages, TypeOK, AtStage
<1>b. Arrive(w, at[w] + 1, comps[w])
  BY DEF Skip
<1>c. TypeOK
  OBVIOUS
<1>d. /\ at' \in [Walkers -> 1..(N + 1)]
      /\ \A v \in Walkers : at'[v] = IF v = w THEN at[w] + 1 ELSE at[v]
      /\ comps' \in [Walkers -> SUBSET Components]
      /\ chosen' \subseteq Components
  BY <1>a, <1>b, <1>c, Arrived
<1>1. TypeOK'
  BY <1>d, <1>a DEF Skip, Walking, To, TypeOK, RunStates, Labels, Stages
<1>2. RowsRead'
  BY <1>d, WalkersCall DEF Skip, Walking, To, TypeOK, RowsRead, Deciding
<1>3. AtStage' /\ Licences'
  BY <1>d, <1>a, WalkersCall DEF Skip, Walking, To, TypeOK, AtStage, Licences
<1>4. Behind'
  BY <1>d, <1>a, NoRowAssumption DEF Skip, Walking, To, TypeOK, Behind, Before
<1>5. GateKept' /\ CompleteMeansAll'
  BY <1>d, <1>a, StagesAssumption DEF Skip, Walking, To, TypeOK, GateKept, CompleteMeansAll
<1> QED
  BY <1>1, <1>2, <1>3, <1>4, <1>5

LEMMA BeginStageIInv ==
    ASSUME IInv, NEW w \in Walkers, BeginStage(w)
    PROVE  IInv'
<1> USE DEF IInv
<1>1. TypeOK'
  BY StagesAssumption DEF BeginStage, Walking, Checkpoint, To, TypeOK, RunStates, Labels, Stages
<1>2. RowsRead'
  BY WalkersCall DEF BeginStage, Walking, Checkpoint, To, TypeOK, RowsRead, Deciding
<1>3. AtStage' /\ Licences'
  BY WalkersCall DEF BeginStage, Walking, Checkpoint, To, TypeOK, AtStage, Licences
<1>4. Behind'
  BY NoRowAssumption DEF BeginStage, Walking, Checkpoint, To, TypeOK, Behind, Before
<1>5. GateKept' /\ CompleteMeansAll'
  BY StagesAssumption DEF Licences, Stages, BeginStage, Walking, Checkpoint, To, TypeOK, GateKept, CompleteMeansAll
<1> QED
  BY <1>1, <1>2, <1>3, <1>4, <1>5

LEMMA AskApprovalIInv ==
    ASSUME IInv, NEW w \in Walkers, AskApproval(w)
    PROVE  IInv'
<1> USE DEF IInv
<1>1. TypeOK'
  BY WalkersCall DEF AskApproval, Walking, Meta, To, Rows, TypeOK, RunStates, Labels, Stages
<1>2. RowsRead'
  BY WalkersCall DEF AskApproval, Walking, Meta, To, Rows, TypeOK, RowsRead, Deciding
<1>3. AtStage' /\ Licences'
  BY WalkersCall DEF AskApproval, Walking, Meta, To, Rows, TypeOK, AtStage, Licences
<1>4. Behind'
  BY NoRowAssumption DEF AskApproval, Walking, Meta, To, Rows, TypeOK, Behind, Before
<1>5. GateKept' /\ CompleteMeansAll'
  BY StagesAssumption DEF AskApproval, Walking, Meta, To, Rows, TypeOK, GateKept, CompleteMeansAll
<1> QED
  BY <1>1, <1>2, <1>3, <1>4, <1>5

LEMMA ParkIInv ==
    ASSUME IInv, NEW w \in Walkers, Park(w)
    PROVE  IInv'
<1> USE DEF IInv
<1>a. w \in Callers /\ Forgets(w)
  BY WalkersCall DEF Park, Returns, Callers
<1>b. TypeOK /\ Behind
  OBVIOUS
<1>c. /\ seen' \in [Callers -> Rows \cup {NoRow}]
      /\ \A b \in Callers : seen'[b] = IF b = w THEN NoRow ELSE seen[b]
      /\ at' \in [Walkers -> 1..(N + 1)]
      /\ \A v \in Walkers : at'[v] = at[v] \/ (v = w /\ at'[v] = 1)
      /\ from' \in [Walkers -> Stages]
      /\ \A v \in Walkers : from'[v] = from[v] \/ from'[v] = 1
      /\ comps' \in [Walkers -> SUBSET Components]
      /\ context' \in [Walkers -> SUBSET (Stages \cup Challengers)]
      /\ dropped' \in [Walkers -> SUBSET Stages]
  BY <1>a, <1>b, Forgotten
<1>1. TypeOK'
  BY <1>a, <1>c DEF Park, To, Returns, TypeOK, RunStates, Labels, Stages
<1>2. RowsRead'
  BY <1>a, <1>c, WalkersCall DEF Park, To, Returns, TypeOK, RowsRead, Deciding
<1>3. AtStage' /\ Licences'
  BY <1>a, <1>c, WalkersCall DEF Park, To, Returns, TypeOK, AtStage, Licences
<1>4. Behind'
  BY <1>a, <1>c, NoRowAssumption DEF Park, To, Returns, TypeOK, Behind, Before
<1>5. GateKept' /\ CompleteMeansAll'
  BY <1>a, <1>c, StagesAssumption DEF Park, To, Returns, TypeOK, GateKept, CompleteMeansAll
<1> QED
  BY <1>1, <1>2, <1>3, <1>4, <1>5

LEMMA DenyByRuleIInv ==
    ASSUME IInv, NEW w \in Walkers, DenyByRule(w)
    PROVE  IInv'
<1> USE DEF IInv
<1>a. /\ approval' \in Rows
      /\ 1..(approval'.index - 1) \subseteq passed
      /\ crossed' \subseteq {"decision", "challenge", "park"}
  BY Written, WalkersCall DEF DenyByRule, Deciding, Walkers, Callers
<1>1. TypeOK'
  BY <1>a, WalkersCall DEF DenyByRule, To, Walkers, Callers, TypeOK, RunStates, Labels, RowsRead, Deciding, Rows
<1>2. RowsRead'
  BY <1>a, WalkersCall DEF DenyByRule, To, Walkers, Callers, TypeOK, RowsRead, Deciding
<1>3. AtStage' /\ Licences'
  BY WalkersCall DEF DenyByRule, To, Walkers, Callers, TypeOK, AtStage, Licences
<1>4. Behind'
  BY <1>a, NoRowAssumption DEF DenyByRule, TypeOK, Behind, Before
<1>5. GateKept' /\ CompleteMeansAll'
  BY DEF DenyByRule, TypeOK, GateKept, CompleteMeansAll
<1> QED
  BY <1>1, <1>2, <1>3, <1>4, <1>5

LEMMA DeniedIInv ==
    ASSUME IInv, NEW w \in Walkers, Denied(w)
    PROVE  IInv'
<1> USE DEF IInv
<1>a. w \in Callers /\ Forgets(w)
  BY WalkersCall DEF Denied, Returns, Callers
<1>b. TypeOK /\ Behind
  OBVIOUS
<1>c. /\ seen' \in [Callers -> Rows \cup {NoRow}]
      /\ \A b \in Callers : seen'[b] = IF b = w THEN NoRow ELSE seen[b]
      /\ at' \in [Walkers -> 1..(N + 1)]
      /\ \A v \in Walkers : at'[v] = at[v] \/ (v = w /\ at'[v] = 1)
      /\ from' \in [Walkers -> Stages]
      /\ \A v \in Walkers : from'[v] = from[v] \/ from'[v] = 1
      /\ comps' \in [Walkers -> SUBSET Components]
      /\ context' \in [Walkers -> SUBSET (Stages \cup Challengers)]
      /\ dropped' \in [Walkers -> SUBSET Stages]
  BY <1>a, <1>b, Forgotten
<1>1. TypeOK'
  BY <1>a, <1>c DEF Denied, To, Returns, TypeOK, RunStates, Labels, Stages
<1>2. RowsRead'
  BY <1>a, <1>c, WalkersCall DEF Denied, To, Returns, TypeOK, RowsRead, Deciding
<1>3. AtStage' /\ Licences'
  BY <1>a, <1>c, WalkersCall DEF Denied, To, Returns, TypeOK, AtStage, Licences
<1>4. Behind'
  BY <1>a, <1>c, NoRowAssumption DEF Denied, To, Returns, TypeOK, Behind, Before
<1>5. GateKept' /\ CompleteMeansAll'
  BY <1>a, <1>c, StagesAssumption DEF Denied, To, Returns, TypeOK, GateKept, CompleteMeansAll
<1> QED
  BY <1>1, <1>2, <1>3, <1>4, <1>5

LEMMA StagePassedIInv ==
    ASSUME IInv, NEW w \in Walkers, StagePassed(w)
    PROVE  IInv'
<1> USE DEF IInv
<1>a. at[w] + 1 \in 1..(N + 1) /\ comps[w] \in SUBSET Components
  BY StagesAssumption DEF StagePassed, Walking, Stages, TypeOK, AtStage
<1>b. Arrive(w, at[w] + 1, comps[w])
  BY DEF StagePassed
<1>c. TypeOK
  OBVIOUS
<1>d. /\ at' \in [Walkers -> 1..(N + 1)]
      /\ \A v \in Walkers : at'[v] = IF v = w THEN at[w] + 1 ELSE at[v]
      /\ comps' \in [Walkers -> SUBSET Components]
      /\ chosen' \subseteq Components
  BY <1>a, <1>b, <1>c, Arrived
<1>e. dropped' \in [Walkers -> SUBSET Stages]
  <2>1. pipeline.optional \subseteq Stages
    BY PipelinesAssumption DEF TypeOK, PipelineType
  <2> QED
    BY <2>1 DEF StagePassed, TypeOK
<1>1. TypeOK'
  BY <1>d, <1>e, WalkersCall DEF StagePassed, To, TypeOK, Labels, AtStage
<1>2. RowsRead'
  BY <1>d, WalkersCall DEF StagePassed, To, TypeOK, RowsRead, Deciding
<1>3. AtStage' /\ Licences'
  BY <1>d, <1>a, WalkersCall DEF StagePassed, To, TypeOK, AtStage, Licences
<1>4. Behind'
  BY <1>d, <1>a, NoRowAssumption DEF StagePassed, To, TypeOK, Behind, Before
<1>5. GateKept' /\ CompleteMeansAll'
  BY <1>d, <1>a, StagesAssumption DEF AtStage, Stages, StagePassed, To, TypeOK, GateKept, CompleteMeansAll
<1> QED
  BY <1>1, <1>2, <1>3, <1>4, <1>5

LEMMA StageFailedIInv ==
    ASSUME IInv, NEW w \in Walkers, StageFailed(w)
    PROVE  IInv'
<1> USE DEF IInv
<1>a. w \in Callers /\ Forgets(w)
  BY WalkersCall DEF StageFailed, Returns, Callers
<1>b. TypeOK /\ Behind
  OBVIOUS
<1>c. /\ seen' \in [Callers -> Rows \cup {NoRow}]
      /\ \A b \in Callers : seen'[b] = IF b = w THEN NoRow ELSE seen[b]
      /\ at' \in [Walkers -> 1..(N + 1)]
      /\ \A v \in Walkers : at'[v] = at[v] \/ (v = w /\ at'[v] = 1)
      /\ from' \in [Walkers -> Stages]
      /\ \A v \in Walkers : from'[v] = from[v] \/ from'[v] = 1
      /\ comps' \in [Walkers -> SUBSET Components]
      /\ context' \in [Walkers -> SUBSET (Stages \cup Challengers)]
      /\ dropped' \in [Walkers -> SUBSET Stages]
  BY <1>a, <1>b, Forgotten
<1>1. TypeOK'
  BY <1>a, <1>c DEF StageFailed, To, Returns, TypeOK, RunStates, Labels, Stages
<1>2. RowsRead'
  BY <1>a, <1>c, WalkersCall DEF StageFailed, To, Returns, TypeOK, RowsRead, Deciding
<1>3. AtStage' /\ Licences'
  BY <1>a, <1>c, WalkersCall DEF StageFailed, To, Returns, TypeOK, AtStage, Licences
<1>4. Behind'
  BY <1>a, <1>c, NoRowAssumption DEF StageFailed, To, Returns, TypeOK, Behind, Before
<1>5. GateKept' /\ CompleteMeansAll'
  BY <1>a, <1>c, StagesAssumption DEF StageFailed, To, Returns, TypeOK, GateKept, CompleteMeansAll
<1> QED
  BY <1>1, <1>2, <1>3, <1>4, <1>5

LEMMA StageRaisedIInv ==
    ASSUME IInv, NEW w \in Walkers, StageRaised(w)
    PROVE  IInv'
<1> USE DEF IInv
<1>a. w \in Callers /\ Forgets(w)
  BY WalkersCall DEF StageRaised, Returns, Callers
<1>b. TypeOK /\ Behind
  OBVIOUS
<1>c. /\ seen' \in [Callers -> Rows \cup {NoRow}]
      /\ \A b \in Callers : seen'[b] = IF b = w THEN NoRow ELSE seen[b]
      /\ at' \in [Walkers -> 1..(N + 1)]
      /\ \A v \in Walkers : at'[v] = at[v] \/ (v = w /\ at'[v] = 1)
      /\ from' \in [Walkers -> Stages]
      /\ \A v \in Walkers : from'[v] = from[v] \/ from'[v] = 1
      /\ comps' \in [Walkers -> SUBSET Components]
      /\ context' \in [Walkers -> SUBSET (Stages \cup Challengers)]
      /\ dropped' \in [Walkers -> SUBSET Stages]
  BY <1>a, <1>b, Forgotten
<1>d. faults' \in Nat
  BY DEF StageRaised, Fault, TypeOK
<1>1. TypeOK'
  BY <1>a, <1>c, <1>d, WalkersCall DEF StageRaised, To, Returns, TypeOK, Labels
<1>2. RowsRead'
  BY <1>a, <1>c, WalkersCall DEF StageRaised, Fault, To, Returns, TypeOK, RowsRead, Deciding
<1>3. AtStage' /\ Licences'
  BY <1>a, <1>c, WalkersCall DEF StageRaised, Fault, To, Returns, TypeOK, AtStage, Licences
<1>4. Behind'
  BY <1>a, <1>c, NoRowAssumption DEF StageRaised, Fault, To, Returns, TypeOK, Behind, Before
<1>5. GateKept' /\ CompleteMeansAll'
  BY <1>a, <1>c, StagesAssumption DEF StageRaised, Fault, To, Returns, TypeOK, GateKept, CompleteMeansAll
<1> QED
  BY <1>1, <1>2, <1>3, <1>4, <1>5

LEMMA FinishIInv ==
    ASSUME IInv, NEW w \in Walkers, Finish(w)
    PROVE  IInv'
<1> USE DEF IInv
<1>a. w \in Callers /\ Forgets(w)
  BY WalkersCall DEF Finish, Returns, Callers
<1>b. TypeOK /\ Behind
  OBVIOUS
<1>c. /\ seen' \in [Callers -> Rows \cup {NoRow}]
      /\ \A b \in Callers : seen'[b] = IF b = w THEN NoRow ELSE seen[b]
      /\ at' \in [Walkers -> 1..(N + 1)]
      /\ \A v \in Walkers : at'[v] = at[v] \/ (v = w /\ at'[v] = 1)
      /\ from' \in [Walkers -> Stages]
      /\ \A v \in Walkers : from'[v] = from[v] \/ from'[v] = 1
      /\ comps' \in [Walkers -> SUBSET Components]
      /\ context' \in [Walkers -> SUBSET (Stages \cup Challengers)]
      /\ dropped' \in [Walkers -> SUBSET Stages]
  BY <1>a, <1>b, Forgotten
<1>1. TypeOK'
  BY <1>a, <1>c DEF Finish, To, Returns, TypeOK, RunStates, Labels, Stages
<1>2. RowsRead'
  BY <1>a, <1>c, WalkersCall DEF Finish, To, Returns, TypeOK, RowsRead, Deciding
<1>3. AtStage' /\ Licences'
  BY <1>a, <1>c, WalkersCall DEF Finish, To, Returns, TypeOK, AtStage, Licences
<1>4. Behind'
  BY <1>a, <1>c, NoRowAssumption DEF Finish, To, Returns, TypeOK, Behind, Before
<1>5. GateKept' /\ CompleteMeansAll'
  <2>1. at[w] - 1 = N
    BY StagesAssumption DEF Finish
  <2>2. passed = Stages
    BY <2>1 DEF Behind, TypeOK, Stages
  <2> QED
    BY <2>2 DEF Finish, GateKept, CompleteMeansAll, Stages
<1> QED
  BY <1>1, <1>2, <1>3, <1>4, <1>5

LEMMA ReadRowIInv ==
    ASSUME IInv, NEW c \in Callers, NEW label, pc[c] = "idle", label \in {"decide", "answer"}, ReadRow(c, label)
    PROVE  IInv'
<1> USE DEF IInv
<1>1. TypeOK'
  BY WalkersCall DEF ReadRow, Pending, To, TypeOK, RunStates, Labels, Stages
<1>2. RowsRead'
  BY WalkersCall DEF ReadRow, Pending, To, TypeOK, RowsRead, Deciding
<1>3. AtStage' /\ Licences'
  BY WalkersCall DEF ReadRow, Pending, To, TypeOK, AtStage, Licences
<1>4. Behind'
  BY NoRowAssumption DEF ReadRow, Pending, To, TypeOK, Behind, Before
<1>5. GateKept' /\ CompleteMeansAll'
  BY StagesAssumption DEF ReadRow, Pending, To, TypeOK, GateKept, CompleteMeansAll
<1> QED
  BY <1>1, <1>2, <1>3, <1>4, <1>5

LEMMA DenyIInv ==
    ASSUME IInv, NEW a \in Approvers, Deny(a)
    PROVE  IInv'
<1> USE DEF IInv
<1>a. /\ approval' \in Rows
      /\ 1..(approval'.index - 1) \subseteq passed
      /\ crossed' \subseteq {"decision", "challenge", "park"}
  BY Written, WalkersCall DEF Deny, Deciding, Walkers, Callers
<1>1. TypeOK'
  BY <1>a, WalkersCall DEF Deny, To, Walkers, Callers, TypeOK, RunStates, Labels, RowsRead, Deciding, Rows
<1>2. RowsRead'
  BY <1>a, WalkersCall DEF Deny, To, Walkers, Callers, TypeOK, RowsRead, Deciding
<1>3. AtStage' /\ Licences'
  BY WalkersCall DEF Deny, To, Walkers, Callers, TypeOK, AtStage, Licences
<1>4. Behind'
  BY <1>a, NoRowAssumption DEF Deny, TypeOK, Behind, Before
<1>5. GateKept' /\ CompleteMeansAll'
  BY DEF Deny, TypeOK, GateKept, CompleteMeansAll
<1> QED
  BY <1>1, <1>2, <1>3, <1>4, <1>5

LEMMA ApproveIInv ==
    ASSUME IInv, NEW a \in Approvers, Approve(a)
    PROVE  IInv'
<1> USE DEF IInv
<1>a. /\ approval' \in Rows
      /\ 1..(approval'.index - 1) \subseteq passed
      /\ crossed' \subseteq {"decision", "challenge", "park"}
  BY Written, WalkersCall DEF Approve, Deciding, Walkers, Callers
<1>1. TypeOK'
  BY <1>a, WalkersCall DEF Approve, To, Walkers, Callers, TypeOK, RunStates, Labels, RowsRead, Deciding, Rows
<1>2. RowsRead'
  BY <1>a, WalkersCall DEF Approve, To, Walkers, Callers, TypeOK, RowsRead, Deciding
<1>3. AtStage' /\ Licences'
  BY WalkersCall DEF Approve, To, Walkers, Callers, TypeOK, AtStage, Licences
<1>4. Behind'
  BY <1>a, NoRowAssumption DEF Approve, TypeOK, Behind, Before
<1>5. GateKept' /\ CompleteMeansAll'
  BY DEF Approve, TypeOK, GateKept, CompleteMeansAll
<1> QED
  BY <1>1, <1>2, <1>3, <1>4, <1>5

LEMMA ResumeIInv ==
    ASSUME IInv, NEW a \in Approvers, Resume(a)
    PROVE  IInv'
<1> USE DEF IInv
<1>a. seen[a].index \in 1..(N + 1) /\ seen[a].comps \in SUBSET Components
  BY StagesAssumption DEF Resume, ResumesWith, RowsRead, Deciding, Rows, Callers, Stages
<1>b. Arrive(a, seen[a].index, seen[a].comps)
  BY DEF Resume, ResumesWith
<1>c. TypeOK
  OBVIOUS
<1>d. /\ at' \in [Walkers -> 1..(N + 1)]
      /\ \A v \in Walkers : at'[v] = IF v = a THEN seen[a].index ELSE at[v]
      /\ comps' \in [Walkers -> SUBSET Components]
      /\ chosen' \subseteq Components
  BY <1>a, <1>b, <1>c, Arrived DEF Walkers
<1>1. TypeOK'
  BY <1>d, <1>a, StagesAssumption DEF RowsRead, Deciding, Resume, ResumesWith, Walkers, Callers, Rows, To, TypeOK, RunStates, Labels, Stages
<1>2. RowsRead'
  BY <1>d, WalkersCall DEF Resume, ResumesWith, Walkers, Callers, Rows, To, TypeOK, RowsRead, Deciding
<1>3. AtStage' /\ Licences'
  BY <1>d, <1>a, WalkersCall DEF Resume, ResumesWith, Walkers, Callers, Rows, To, TypeOK, AtStage, Licences
<1>4. Behind'
  BY <1>d, <1>a, NoRowAssumption DEF RowsRead, Deciding, Resume, ResumesWith, Walkers, Callers, Rows, To, TypeOK, Behind, Before
<1>5. GateKept' /\ CompleteMeansAll'
  BY <1>d, <1>a, StagesAssumption DEF Resume, ResumesWith, Walkers, Callers, Rows, To, TypeOK, GateKept, CompleteMeansAll
<1> QED
  BY <1>1, <1>2, <1>3, <1>4, <1>5

LEMMA ResumeRefusedIInv ==
    ASSUME IInv, NEW a \in Approvers, ResumeRefused(a)
    PROVE  IInv'
<1> USE DEF IInv
<1>a. a \in Callers /\ Forgets(a)
  BY WalkersCall DEF ResumeRefused, Walkers, Returns, Callers
<1>b. TypeOK /\ Behind
  OBVIOUS
<1>c. /\ seen' \in [Callers -> Rows \cup {NoRow}]
      /\ \A b \in Callers : seen'[b] = IF b = a THEN NoRow ELSE seen[b]
      /\ at' \in [Walkers -> 1..(N + 1)]
      /\ \A v \in Walkers : at'[v] = at[v] \/ (v = a /\ at'[v] = 1)
      /\ from' \in [Walkers -> Stages]
      /\ \A v \in Walkers : from'[v] = from[v] \/ from'[v] = 1
      /\ comps' \in [Walkers -> SUBSET Components]
      /\ context' \in [Walkers -> SUBSET (Stages \cup Challengers)]
      /\ dropped' \in [Walkers -> SUBSET Stages]
  BY <1>a, <1>b, Forgotten
<1>1. TypeOK'
  BY <1>a, <1>c DEF ResumeRefused, Walkers, To, Returns, TypeOK, RunStates, Labels, Stages
<1>2. RowsRead'
  BY <1>a, <1>c, WalkersCall DEF ResumeRefused, Walkers, To, Returns, TypeOK, RowsRead, Deciding
<1>3. AtStage' /\ Licences'
  BY <1>a, <1>c, WalkersCall DEF ResumeRefused, Walkers, To, Returns, TypeOK, AtStage, Licences
<1>4. Behind'
  BY <1>a, <1>c, NoRowAssumption DEF ResumeRefused, Walkers, To, Returns, TypeOK, Behind, Before
<1>5. GateKept' /\ CompleteMeansAll'
  BY <1>a, <1>c, StagesAssumption DEF ResumeRefused, Walkers, To, Returns, TypeOK, GateKept, CompleteMeansAll
<1> QED
  BY <1>1, <1>2, <1>3, <1>4, <1>5

LEMMA AnswerIInv ==
    ASSUME IInv, NEW c \in Challengers, Answer(c)
    PROVE  IInv'
<1> USE DEF IInv
<1>a. c \in Callers /\ Forgets(c)
  BY WalkersCall DEF Answer, Returns, Callers
<1>b. TypeOK /\ Behind
  OBVIOUS
<1>c. /\ seen' \in [Callers -> Rows \cup {NoRow}]
      /\ \A b \in Callers : seen'[b] = IF b = c THEN NoRow ELSE seen[b]
      /\ at' \in [Walkers -> 1..(N + 1)]
      /\ \A v \in Walkers : at'[v] = at[v] \/ (v = c /\ at'[v] = 1)
      /\ from' \in [Walkers -> Stages]
      /\ \A v \in Walkers : from'[v] = from[v] \/ from'[v] = 1
      /\ comps' \in [Walkers -> SUBSET Components]
      /\ context' \in [Walkers -> SUBSET (Stages \cup Challengers)]
      /\ dropped' \in [Walkers -> SUBSET Stages]
  BY <1>a, <1>b, Forgotten
<1>d. /\ approval' \in Rows /\ approval'.index = seen[c].index
      /\ crossed' \subseteq {"decision", "challenge", "park"}
  BY <1>a DEF Answer, RowsRead, Deciding, Rows, TypeOK
<1>1. TypeOK'
  BY <1>a, <1>c, <1>d DEF Answer, To, TypeOK, Labels
<1>2. RowsRead'
  BY <1>a, <1>c, <1>d DEF Answer, To, TypeOK, RowsRead, Deciding
<1>3. AtStage' /\ Licences'
  BY <1>a, <1>c, WalkersCall DEF Answer, To, TypeOK, AtStage, Licences
<1>4. Behind'
  <2>1. seen[c] \in Rows
    BY <1>a DEF Answer, RowsRead, Deciding
  <2> QED
    BY <1>a, <1>c, <1>d, <2>1, NoRowAssumption DEF Answer, TypeOK, Behind, Before
<1>5. GateKept' /\ CompleteMeansAll'
  BY DEF Answer, GateKept, CompleteMeansAll
<1> QED
  BY <1>1, <1>2, <1>3, <1>4, <1>5

LEMMA CrashIInv ==
    ASSUME IInv, NEW c \in Callers, Crash(c)
    PROVE  IInv'
<1> USE DEF IInv
<1>a. c \in Callers /\ Forgets(c)
  BY WalkersCall DEF Crash, Returns, Callers
<1>b. TypeOK /\ Behind
  OBVIOUS
<1>c. /\ seen' \in [Callers -> Rows \cup {NoRow}]
      /\ \A b \in Callers : seen'[b] = IF b = c THEN NoRow ELSE seen[b]
      /\ at' \in [Walkers -> 1..(N + 1)]
      /\ \A v \in Walkers : at'[v] = at[v] \/ (v = c /\ at'[v] = 1)
      /\ from' \in [Walkers -> Stages]
      /\ \A v \in Walkers : from'[v] = from[v] \/ from'[v] = 1
      /\ comps' \in [Walkers -> SUBSET Components]
      /\ context' \in [Walkers -> SUBSET (Stages \cup Challengers)]
      /\ dropped' \in [Walkers -> SUBSET Stages]
  BY <1>a, <1>b, Forgotten
<1>d. faults' \in Nat
  BY DEF Crash, Fault, TypeOK
<1>1. TypeOK'
  BY <1>a, <1>c, <1>d, WalkersCall DEF Crash, To, Returns, TypeOK, Labels
<1>2. RowsRead'
  BY <1>a, <1>c, WalkersCall DEF Crash, Fault, To, Returns, TypeOK, RowsRead, Deciding
<1>3. AtStage' /\ Licences'
  BY <1>a, <1>c, WalkersCall DEF Crash, Fault, To, Returns, TypeOK, AtStage, Licences
<1>4. Behind'
  BY <1>a, <1>c, NoRowAssumption DEF Crash, Fault, To, Returns, TypeOK, Behind, Before
<1>5. GateKept' /\ CompleteMeansAll'
  BY <1>a, <1>c, StagesAssumption DEF Crash, Fault, To, Returns, TypeOK, GateKept, CompleteMeansAll
<1> QED
  BY <1>1, <1>2, <1>3, <1>4, <1>5

-----------------------------------------------------------------------------
LEMMA NextIInv == IInv /\ [Next]_vars => IInv'
<1> SUFFICES ASSUME IInv, [Next]_vars PROVE IInv'
  OBVIOUS
<1>1. CASE Start
  BY <1>1, StartIInv
<1>2. CASE \E w \in Walkers : Goes(w)
  BY <1>2, SkipIInv, BeginStageIInv, AskApprovalIInv, ParkIInv, DenyByRuleIInv, DeniedIInv,
     StagePassedIInv, StageFailedIInv, StageRaisedIInv, FinishIInv DEF Goes
<1>3. CASE \E a \in Approvers : Read(a) \/ Decides(a)
  <2>1. ASSUME NEW a \in Approvers, Read(a) PROVE IInv'
    BY <2>1, ReadRowIInv DEF Read, ReadRow, Callers
  <2>2. ASSUME NEW a \in Approvers, Deny(a) PROVE IInv'
    BY <2>2, DenyIInv
  <2>3. ASSUME NEW a \in Approvers, Denied(a) PROVE IInv'
    BY <2>3, DeniedIInv DEF Walkers
  <2>4. ASSUME NEW a \in Approvers, Approve(a) \/ Resume(a) \/ ResumeRefused(a) PROVE IInv'
    BY <2>4, ApproveIInv, ResumeIInv, ResumeRefusedIInv
  <2> QED
    BY <1>3, <2>1, <2>2, <2>3, <2>4 DEF Decides
<1>4. CASE \E c \in Challengers : Challenge(c) \/ Answer(c)
  BY <1>4, ReadRowIInv, AnswerIInv DEF Challenge, ReadRow, Callers
<1>5. CASE \E c \in Callers : Crash(c)
  BY <1>5, CrashIInv
<1>6. CASE UNCHANGED vars
  BY <1>6 DEF IInv, TypeOK, RowsRead, AtStage, Licences, Behind, Before, GateKept, CompleteMeansAll
<1> QED
  BY <1>1, <1>2, <1>3, <1>4, <1>5, <1>6 DEF Next

(* The inductive invariant: what the rows say of the stages before them,   *)
(* and whose approval a call that resumes acts on.                         *)
THEOREM IInvAlways == Spec => []IInv
BY InitIInv, NextIInv, PTL DEF Spec

(* Every variable keeps its type.                                          *)
THEOREM TypeCorrect == Spec => []TypeOK
BY IInvAlways, PTL DEF IInv

(* No gated stage but the first is started unless a person or a rule       *)
(* approved the start of that stage (_run_pipeline_body, resume_pipeline). *)
THEOREM KeepsGates == Spec => []GateKept
BY IInvAlways, PTL DEF IInv

(* A run is called complete only when every stage was passed               *)
(* (complete_run at the end of _run_pipeline_body).                        *)
THEOREM CompletesAll == Spec => []CompleteMeansAll
BY IInvAlways, PTL DEF IInv

-----------------------------------------------------------------------------
(* One run through.  The call that starts a run is alone until it asks for *)
(* approval (First), and from then on what is handed over is within its    *)
(* choice of components (Narrow).                                          *)

Working == {"start", "walk", "stage"}

First ==
    pc[Origin] \in Working =>
        /\ approval = NoRow /\ comps[Origin] = chosen
        /\ \A c \in Callers : seen[c] = NoRow /\ (c # Origin => pc[c] = "idle")

Narrow ==
    /\ \A w \in Walkers : pc[w] \in {"walk", "stage"} => comps[w] \subseteq chosen
    /\ approval # NoRow => approval.comps \subseteq chosen
    /\ \A c \in Callers : seen[c] # NoRow => seen[c].comps \subseteq chosen

Order == from[Origin] = 1 /\ \A w \in Walkers : from[w] <= at[w]

Chosen == First /\ Narrow /\ Order

(* What one caller does leaves the locals of the others alone.             *)
Acts(c) ==
    \/ c = Origin /\ Start
    \/ c \in Walkers /\ Goes(c)
    \/ c \in Approvers /\ (Read(c) \/ Decides(c))
    \/ c \in Challengers /\ (Challenge(c) \/ Answer(c))
    \/ Crash(c)

Others(c) ==
    \A b \in Callers \ {c} :
        /\ pc'[b] = pc[b] /\ seen'[b] = seen[b]
        /\ b \in Walkers => /\ at'[b] = at[b] /\ from'[b] = from[b]
                            /\ comps'[b] = comps[b] /\ context'[b] = context[b]

LEMMA NextActs == ASSUME Next PROVE \E c \in Callers : Acts(c)
BY DEF Next, Acts, Walkers, Callers, Goes, Decides

LEMMA Gone ==
    ASSUME TypeOK, NEW c \in Callers, Returns(c) \/ ((\E l : To(c, l)) /\ Forgets(c))
    PROVE  /\ Others(c) /\ seen'[c] = NoRow
           /\ c \in Walkers => at'[c] = 1 /\ from'[c] = 1
           /\ Returns(c) => pc'[c] = "idle"
BY DEF TypeOK, Returns, Forgets, To, Others

LEMMA ArrivesAlone ==
    ASSUME TypeOK, NEW w \in Walkers, NEW s, NEW offered \in SUBSET Components,
           Arrive(w, s, offered)
    PROVE  /\ at'[w] = s /\ comps'[w] \subseteq offered
           /\ chosen' = IF w = Origin THEN comps'[w] ELSE chosen
           /\ \A v \in Walkers \ {w} : at'[v] = at[v] /\ comps'[v] = comps[v]
BY DEF TypeOK, Arrive, Picks

LEMMA Frame == ASSUME TypeOK, AtStage, RowsRead, NEW c \in Callers, Acts(c) PROVE Others(c)
<1>1. CASE c = Origin /\ Start
  BY <1>1, ArrivesAlone DEF Start, Others, To, TypeOK, Walkers
<1>2. CASE c \in Walkers /\ Goes(c)
  <2>1. CASE Skip(c) \/ StagePassed(c)
    BY <1>2, <2>1, ArrivesAlone DEF Skip, StagePassed, Others, To, TypeOK
  <2>2. CASE Park(c) \/ Denied(c) \/ StageFailed(c) \/ StageRaised(c) \/ Finish(c)
    BY <2>2, Gone DEF Park, Denied, StageFailed, StageRaised, Finish
  <2>3. CASE BeginStage(c) \/ AskApproval(c) \/ DenyByRule(c)
    BY <2>3 DEF BeginStage, AskApproval, DenyByRule, Others, To, TypeOK, walk
  <2> QED
    BY <1>2, <2>1, <2>2, <2>3 DEF Goes
<1>3. CASE c \in Approvers /\ (Read(c) \/ Decides(c))
  <2>1. CASE Read(c) \/ Deny(c) \/ Approve(c)
    BY <2>1 DEF Read, ReadRow, Deny, Approve, Others, To, TypeOK
  <2>2. CASE Resume(c)
    <3>1. seen[c].comps \in SUBSET Components
      BY <2>2 DEF Resume, ResumesWith, RowsRead, Deciding, Rows
    <3> QED
      BY <1>3, <2>2, <3>1, ArrivesAlone DEF Resume, ResumesWith, Others, To, TypeOK, Walkers
  <2>3. CASE ResumeRefused(c)
    BY <2>3, Gone DEF ResumeRefused
  <2> QED
    BY <1>3, <2>1, <2>2, <2>3 DEF Decides
<1>4. CASE c \in Challengers /\ (Challenge(c) \/ Answer(c))
  <2>1. CASE Challenge(c)
    BY <2>1 DEF Challenge, ReadRow, Others, To, TypeOK
  <2>2. CASE Answer(c)
    BY <2>2, Gone DEF Answer
  <2> QED
    BY <1>4, <2>1, <2>2
<1>5. CASE Crash(c)
  BY <1>5, Gone DEF Crash
<1> QED
  BY <1>1, <1>2, <1>3, <1>4, <1>5 DEF Acts

(* While the first call is at work nobody else can do anything.            *)
LEMMA Alone ==
    ASSUME IInv, First, NEW c \in Callers, Acts(c), c # Origin
    PROVE  pc[Origin] \notin Working
<1> SUFFICES ASSUME pc[Origin] \in Working PROVE FALSE
  OBVIOUS
<1>1. pc[c] = "idle" /\ ~Pending
  BY DEF First, Pending
<1>2. ~Crash(c) /\ (c \in Walkers => ~Goes(c))
  BY <1>1 DEF Crash, Goes, Skip, Walking, BeginStage, AskApproval, Park, DenyByRule, Denied,
     StagePassed, StageFailed, StageRaised, Finish
<1>3. ~Read(c) /\ ~Decides(c) /\ ~Challenge(c) /\ ~Answer(c)
  BY <1>1 DEF Read, ReadRow, Decides, Deny, Approve, Resume, ResumesWith, ResumeRefused, Challenge,
     Answer
<1> QED
  BY <1>2, <1>3 DEF Acts

LEMMA ChosenFirst == ASSUME IInv, Chosen, Acts(Origin) PROVE Chosen'
<1> USE CallersAssumption DEF IInv, TypeOK
<1>a. Origin \in Walkers /\ Origin \in Callers /\ Others(Origin)
  BY Frame DEF Walkers, Callers
<1>b. \A w \in Walkers \ {Origin} : w \in Callers
  BY WalkersCall
<1>1. CASE Start \/ Skip(Origin) \/ StagePassed(Origin)
  <2>0. /\ pc[Origin] \in Working /\ pc'[Origin] = "walk" /\ from'[Origin] = from[Origin]
        /\ UNCHANGED <<approval, seen>>
    BY <1>1, <1>a DEF Start, Skip, Walking, StagePassed, To, Working, Walkers
  <2>1. \E s \in Nat : \E offered \in SUBSET Components :
            Arrive(Origin, s, offered) /\ from[Origin] <= s
    <3>1. CASE Start
      BY <3>1 DEF Start, Order, Chosen
    <3>2. CASE Skip(Origin) \/ StagePassed(Origin)
      <4>1. Arrive(Origin, at[Origin] + 1, comps[Origin])
        BY <3>2 DEF Skip, StagePassed
      <4>2. at[Origin] + 1 \in Nat /\ comps[Origin] \in SUBSET Components
            /\ from[Origin] <= at[Origin] + 1
        BY <1>a, StagesAssumption DEF Order, Chosen
      <4> QED
        BY <4>1, <4>2
    <3> QED
      BY <1>1, <3>1, <3>2
  <2>a. PICK s \in Nat : \E offered \in SUBSET Components :
            Arrive(Origin, s, offered) /\ from[Origin] <= s
    BY <2>1
  <2>2. at'[Origin] = s /\ comps'[Origin] = chosen'
    BY <1>a, <2>a, ArrivesAlone
  <2>3. First'
    BY <1>a, <2>0, <2>2 DEF Others, First, Chosen
  <2>4. Narrow'
    BY <1>a, <1>b, <2>0, <2>2, <2>3 DEF Narrow, First, Chosen, Working
  <2>5. Order'
    BY <1>a, <1>b, <2>0, <2>a, <2>2 DEF Others, Order, Chosen
  <2> QED
    BY <2>3, <2>4, <2>5 DEF Chosen
<1>2. CASE BeginStage(Origin)
  <2>1. First' /\ Narrow'
    BY <1>2, <1>a, <1>b DEF BeginStage, Walking, To, First, Narrow, Chosen, Working, walk
  <2>2. Order'
    BY <1>2 DEF BeginStage, walk, Order, Chosen
  <2> QED
    BY <2>1, <2>2 DEF Chosen
<1>3. CASE AskApproval(Origin)
  <2>1. pc'[Origin] \notin Working /\ approval'.comps = chosen
    BY <1>3, <1>a DEF AskApproval, Walking, Meta, To, First, Chosen, Working
  <2>2. First' /\ Narrow'
    BY <1>3, <1>a, <1>b, <2>1 DEF AskApproval, Others, First, Narrow, Chosen, Working, history
  <2>3. Order'
    BY <1>3 DEF AskApproval, walk, Order, Chosen
  <2> QED
    BY <2>2, <2>3 DEF Chosen
<1>4. CASE Park(Origin) \/ Denied(Origin) \/ StageFailed(Origin) \/ StageRaised(Origin)
           \/ Finish(Origin) \/ Crash(Origin)
  <2>1. /\ pc'[Origin] \notin Working /\ seen'[Origin] = NoRow /\ UNCHANGED <<approval, chosen>>
        /\ at'[Origin] = 1 /\ from'[Origin] = 1
    BY <1>4, <1>a, Gone, CallersAssumption
       DEF Park, Denied, StageFailed, StageRaised, Finish, Crash, To, Working
  <2>2. First' /\ Narrow' /\ Order'
    BY <1>a, <1>b, <2>1 DEF Others, First, Narrow, Order, Chosen, Working
  <2> QED
    BY <2>2 DEF Chosen
<1>5. CASE DenyByRule(Origin)
  <2>1. approval \in Rows /\ approval'.comps = approval.comps
    BY <1>5, <1>a DEF DenyByRule, Write, RowsRead, Deciding, Rows
  <2>2. pc'[Origin] = "deny" /\ approval # NoRow /\ UNCHANGED <<seen, walk, chosen>>
    BY <1>5, <1>a, <2>1, NoRowAssumption DEF DenyByRule, To
  <2>3. First' /\ Narrow' /\ Order'
    BY <1>a, <1>b, <2>1, <2>2 DEF Others, First, Narrow, Order, Chosen, Working
  <2> QED
    BY <2>3 DEF Chosen
<1> QED
  BY <1>1, <1>2, <1>3, <1>4, <1>5 DEF Acts, Goes

LEMMA ChosenNext == ASSUME IInv, Chosen, NEW c \in Callers, Acts(c), c # Origin PROVE Chosen'
<1> USE CallersAssumption DEF IInv, TypeOK
<1>a. Others(c) /\ First' /\ (c \in Approvers => c \in Walkers) /\ Origin \in Walkers
  BY Frame, Alone DEF Others, First, Chosen, Callers, Walkers
<1>b. \A w \in Walkers : w \in Callers
  BY WalkersCall
<1>1. CASE c \in Walkers /\ (Skip(c) \/ StagePassed(c))
  <2>1. Arrive(c, at[c] + 1, comps[c]) /\ UNCHANGED <<approval, seen, from>> /\ pc[c] \in Working
    BY <1>1 DEF Skip, Walking, StagePassed, Working
  <2>2. at'[c] = at[c] + 1 /\ comps'[c] \subseteq comps[c] /\ chosen' = chosen
    BY <1>1, <2>1, ArrivesAlone
  <2>3. Narrow' /\ Order'
    BY <1>1, <1>a, <1>b, <2>1, <2>2 DEF Skip, Walking, StagePassed, Others, Narrow, Order, Chosen,
       Stages
  <2> QED
    BY <1>a, <2>3 DEF Chosen
<1>2. CASE c \in Walkers /\ BeginStage(c)
  <2>1. Narrow' /\ Order'
    BY <1>2, <1>a, <1>b DEF BeginStage, Walking, To, Narrow, Order, Chosen, walk
  <2> QED
    BY <1>a, <2>1 DEF Chosen
<1>3. CASE c \in Walkers /\ AskApproval(c)
  <2>1. approval'.comps = comps[c] /\ pc[c] = "walk" /\ seen'[c] = approval'
    BY <1>3 DEF AskApproval, Walking, Meta
  <2>2. pc'[c] \in {"park", "ruleDeny"} /\ UNCHANGED <<walk, chosen>>
    BY <1>3, <1>a DEF AskApproval, To, history
  <2>3. Narrow' /\ Order'
    BY <1>3, <1>a, <1>b, <2>1, <2>2 DEF Others, Narrow, Order, Chosen
  <2> QED
    BY <1>a, <2>3 DEF Chosen
<1>4. CASE \/ c \in Walkers /\ (\/ Park(c) \/ Denied(c) \/ StageFailed(c) \/ StageRaised(c)
                                \/ Finish(c))
           \/ Crash(c) \/ (c \in Approvers /\ ResumeRefused(c))
  <2>1. /\ pc'[c] \in {"idle", "over"} /\ seen'[c] = NoRow /\ UNCHANGED <<approval, chosen>>
        /\ c \in Walkers => at'[c] = 1 /\ from'[c] = 1
    BY <1>4, <1>a, Gone
       DEF Park, Denied, StageFailed, StageRaised, Finish, Crash, ResumeRefused, To
  <2>2. Narrow' /\ Order'
    BY <1>a, <1>b, <2>1 DEF Others, Narrow, Order, Chosen
  <2> QED
    BY <1>a, <2>2 DEF Chosen
<1>5. CASE (c \in Walkers /\ DenyByRule(c)) \/ (c \in Approvers /\ (Deny(c) \/ Approve(c)))
  <2>1. approval \in Rows /\ approval'.comps = approval.comps
    BY <1>5, <1>a, <1>b DEF DenyByRule, Deny, Approve, Write, RowsRead, Deciding, Rows
  <2>2. pc'[c] \in {"deny", "resume"} /\ approval # NoRow /\ UNCHANGED <<seen, walk, chosen>>
    BY <1>5, <1>a, <2>1, NoRowAssumption DEF DenyByRule, Deny, Approve, To
  <2>3. Narrow' /\ Order'
    BY <1>a, <1>b, <2>1, <2>2 DEF Others, Narrow, Order, Chosen
  <2> QED
    BY <1>a, <2>3 DEF Chosen
<1>6. CASE c \in Approvers /\ Resume(c)
  <2>1. seen[c] \in Rows /\ seen[c] # NoRow
    BY <1>6, <1>a, <1>b, NoRowAssumption DEF Resume, ResumesWith, RowsRead, Deciding
  <2>2. /\ Arrive(c, seen[c].index, seen[c].comps) /\ seen'[c] = NoRow /\ UNCHANGED approval
        /\ from'[c] = seen[c].index
    BY <1>6, <1>a DEF Resume, ResumesWith
  <2>3. at'[c] = seen[c].index /\ comps'[c] \subseteq seen[c].comps /\ chosen' = chosen
    BY <1>6, <1>a, <2>1, <2>2, ArrivesAlone DEF Rows
  <2>4. Narrow' /\ Order'
    BY <1>6, <1>a, <1>b, <2>1, <2>2, <2>3, StagesAssumption
       DEF Others, Narrow, Order, Chosen, Rows, Stages
  <2> QED
    BY <1>a, <2>4 DEF Chosen
<1>7. CASE (c \in Approvers /\ Read(c)) \/ (c \in Challengers /\ Challenge(c))
  <2>1. /\ seen'[c] = approval /\ approval # NoRow /\ pc'[c] \in {"decide", "answer"}
        /\ UNCHANGED <<approval, walk, chosen>>
    BY <1>7 DEF Read, Challenge, ReadRow, Pending, To, history
  <2>2. Narrow' /\ Order'
    BY <1>a, <1>b, <2>1 DEF Others, Narrow, Order, Chosen
  <2> QED
    BY <1>a, <2>2 DEF Chosen
<1>8. CASE c \in Challengers /\ Answer(c)
  <2>1. seen[c] \in Rows /\ seen[c] # NoRow
    BY <1>8, NoRowAssumption DEF Answer, RowsRead, Deciding
  <2>2. approval'.comps = seen[c].comps /\ seen'[c] = NoRow /\ UNCHANGED chosen
    BY <1>8, <2>1, Gone DEF Answer, Rows
  <2>3. c \notin Walkers
    BY <1>8 DEF Walkers
  <2>4. Narrow' /\ Order'
    BY <1>a, <1>b, <2>1, <2>2, <2>3 DEF Others, Narrow, Order, Chosen
  <2> QED
    BY <1>a, <2>4 DEF Chosen
<1> QED
  BY <1>1, <1>2, <1>3, <1>4, <1>5, <1>6, <1>7, <1>8 DEF Acts, Goes, Decides

-----------------------------------------------------------------------------
(* While nothing is written to a row that had moved on, the run is in one  *)
(* hand at a time: a walker's, or the row's while that is pending.         *)

Holds(c) == pc[c] \in {"start", "walk", "stage", "resume"}

(* Who has it has every started stage behind it, and its output in hand.   *)
Past(w) ==
    /\ pc[w] = "start" => begun = {}
    /\ pc[w] = "walk" => \A s \in begun : s < at[w] /\ s \in context[w]
    /\ pc[w] = "stage" => \A s \in begun : s <= at[w] /\ (s < at[w] => s \in context[w])
    /\ pc[w] = "resume" => \A s \in begun : s < seen[w].index /\ s \in seen[w].context

Newest(w) ==
    approval # NoRow =>
        /\ pc[w] \in {"walk", "stage"} => approval.index <= from[w]
        /\ pc[w] = "resume" => approval.index <= seen[w].index

PastRow == Pending => \A s \in begun : s < approval.index /\ s \in approval.context

(* A row that was read and names the stage of the present one hands on the *)
(* same outputs.                                                           *)
Latest ==
    \A c \in Callers : seen[c] # NoRow =>
        /\ approval # NoRow /\ seen[c].index <= approval.index
        /\ Pending /\ seen[c].index = approval.index => begun \subseteq seen[c].context

OneHand ==
    /\ \A v, w \in Walkers : Holds(v) /\ Holds(w) => v = w
    /\ \A w \in Walkers : Holds(w) => ~Pending /\ Past(w) /\ Newest(w)
    /\ PastRow /\ Latest
    /\ again = {}

HandInv == Uncrossed => OneHand

LEMMA Hand ==
    ASSUME OneHand, NEW w \in Walkers, Holds(w), Others(w),
           again' = {}, PastRow', Latest',
           Holds(w)' => ~Pending' /\ Past(w)' /\ Newest(w)'
    PROVE  OneHand'
<1>1. \A v \in Walkers \ {w} : ~Holds(v)'
  BY WalkersCall DEF OneHand, Others, Holds
<1> QED
  BY <1>1 DEF OneHand

(* A caller that does not have the run, and does not get it.               *)
LEMMA Rests ==
    ASSUME IInv, OneHand, NEW c \in Callers, Others(c), ~Holds(c)',
           UNCHANGED <<approval, begun, again>>,
           seen'[c] \in {NoRow, seen[c]} \/ (seen'[c] = approval /\ Pending)
    PROVE  OneHand'
<1> USE WalkersCall DEF IInv, TypeOK
<1>1. Pending' = Pending /\ PastRow'
  BY DEF Pending, PastRow, OneHand
<1>2. Latest'
  <2> SUFFICES ASSUME NEW b \in Callers, seen'[b] # NoRow
               PROVE  /\ approval # NoRow /\ seen'[b].index <= approval.index
                      /\ Pending /\ seen'[b].index = approval.index => begun \subseteq seen'[b].context
    BY <1>1 DEF Latest
  <2>1. CASE seen'[b] = seen[b]
    BY <2>1 DEF OneHand, Latest
  <2>2. CASE seen'[b] # seen[b]
    <3>1. seen'[b] = approval /\ Pending /\ approval \in Rows
      BY <2>2 DEF Others, Pending
    <3> QED
      BY <3>1 DEF OneHand, PastRow, Pending, Rows, Stages
  <2> QED
    BY <2>1, <2>2
<1>3. \A v \in Walkers : Holds(v)' => Holds(v) /\ Past(v)' /\ Newest(v)'
  <2> SUFFICES ASSUME NEW v \in Walkers, Holds(v)' PROVE Holds(v) /\ Past(v)' /\ Newest(v)'
    OBVIOUS
  <2>1. v \in Callers \ {c}
    OBVIOUS
  <2>2. /\ pc'[v] = pc[v] /\ seen'[v] = seen[v] /\ at'[v] = at[v] /\ from'[v] = from[v]
        /\ context'[v] = context[v]
    BY <2>1 DEF Others
  <2>3. Holds(v)
    BY <2>2 DEF Holds
  <2>4. Past(v) /\ Newest(v)
    BY <2>3 DEF OneHand
  <2> QED
    BY <2>2, <2>3, <2>4 DEF Past, Newest
<1> QED
  BY <1>1, <1>2, <1>3 DEF OneHand

(* A decision, or an answer, that crosses nothing.                         *)
LEMMA NotMoved ==
    ASSUME IInv, OneHand, NEW c \in Callers, pc[c] \in Deciding, ~MovedOn(c)
    PROVE  /\ \A w \in Walkers : ~Holds(w)
           /\ Pending /\ approval \in Rows /\ seen[c] \in Rows /\ seen[c] # NoRow
           /\ \A s \in begun : s < seen[c].index /\ s \in seen[c].context
<1>1. Pending /\ approval.index = seen[c].index /\ approval \in Rows /\ seen[c] \in Rows
  BY DEF MovedOn, IInv, RowsRead
<1>2. \A w \in Walkers : ~Holds(w)
  BY <1>1 DEF OneHand
<1>3. seen[c] # NoRow
  BY <1>1, NoRowAssumption
<1> QED
  BY <1>1, <1>2, <1>3 DEF OneHand, PastRow, Latest

LEMMA WalkKeepsHand ==
    ASSUME IInv, Chosen, OneHand, NEW c \in Walkers, Others(c),
           (c = Origin /\ Start) \/ Skip(c) \/ BeginStage(c) \/ AskApproval(c) \/ StagePassed(c)
    PROVE  OneHand'
<1> USE DEF IInv, TypeOK
<1>a. c \in Callers /\ Holds(c)
  BY WalkersCall DEF Holds, Start, Skip, BeginStage, AskApproval, StagePassed, Walking
<1>b. ~Pending /\ Past(c) /\ Newest(c) /\ again = {} /\ Latest
  BY <1>a DEF OneHand
<1>c. begun \subseteq Stages /\ at[c] \in Nat /\ from[c] \in Nat /\ from[c] <= at[c]
  BY StagesAssumption DEF Order, Chosen, Stages
<1>1. CASE c = Origin /\ Start
  <2>1. approval = NoRow /\ \A b \in Callers : seen[b] = NoRow
    BY <1>1 DEF Start, First, Chosen, Working
  <2>2. PastRow' /\ Latest' /\ ~Pending' /\ again' = {} /\ Newest(c)'
    BY <1>1, <1>b, <2>1 DEF Start, PastRow, Latest, Pending, Newest
  <2>3. Past(c)'
    BY <1>1, <1>a, <1>b DEF Start, Past, To
  <2> QED
    BY <1>a, <2>2, <2>3, Hand
<1>2. CASE Skip(c) \/ StagePassed(c)
  <2>1. at'[c] = at[c] + 1
    <3>1. Arrive(c, at[c] + 1, comps[c]) /\ comps[c] \in SUBSET Components
      BY <1>2 DEF Skip, StagePassed
    <3> QED
      BY <3>1, ArrivesAlone
  <2>2. /\ UNCHANGED <<approval, seen, begun, again>> /\ from'[c] = from[c] /\ pc'[c] = "walk"
        /\ pc[c] \in {"walk", "stage"}
    BY <1>2, <1>a DEF Skip, Walking, StagePassed, To
  <2>3. PastRow' /\ Latest' /\ ~Pending' /\ again' = {} /\ Newest(c)'
    BY <1>b, <2>2 DEF PastRow, Latest, Pending, Newest
  <2>4. Past(c)'
    <3>1. context'[c] = IF Skip(c) THEN context[c] ELSE context[c] \cup {at[c]}
      BY <1>2 DEF Skip, Walking, StagePassed
    <3>2. Skip(c) => pc[c] = "walk"
      BY DEF Skip, Walking
    <3>3. \A s \in begun : s < at[c] + 1 /\ s \in context'[c]
      BY <1>b, <1>c, <2>2, <3>1, <3>2 DEF Past, Stages
    <3> QED
      BY <2>1, <2>2, <3>3 DEF Past
  <2> QED
    BY <1>a, <2>3, <2>4, Hand
<1>3. CASE BeginStage(c)
  <2>1. again' = {} /\ \A s \in begun : s < at[c] /\ s \in context[c]
    BY <1>3, <1>b, <1>c DEF BeginStage, Walking, Past, Stages
  <2>2. PastRow' /\ Latest' /\ ~Pending' /\ Newest(c)'
    BY <1>3, <1>a, <1>b DEF BeginStage, Walking, PastRow, Latest, Pending, Newest, To
  <2>3. Past(c)'
    BY <1>3, <1>a, <1>c, <2>1 DEF BeginStage, Past, To, Stages
  <2> QED
    BY <1>a, <2>1, <2>2, <2>3, Hand
<1>4. CASE AskApproval(c)
  <2>1. /\ approval'.index = at[c] /\ approval'.context = context[c] /\ approval' \in Rows
        /\ seen'[c] = approval' /\ approval' # NoRow
        /\ UNCHANGED <<begun, again>> /\ ~Holds(c)' /\ pc[c] = "walk" /\ from[c] < at[c]
    BY <1>4, <1>a, <1>c, NoRowAssumption
       DEF AskApproval, Walking, Checkpoint, Meta, Rows, Holds, To, history
  <2>2. \A s \in begun : s < at[c] /\ s \in context[c]
    BY <1>b, <2>1 DEF Past
  <2>3. ASSUME NEW b \in Callers \ {c}, seen'[b] # NoRow PROVE seen'[b].index < at[c]
    <3>1. seen'[b] = seen[b] /\ seen[b] \in Rows /\ approval # NoRow /\ approval \in Rows
          /\ seen[b].index <= approval.index
      BY <1>b, <2>3 DEF Others, Latest
    <3>2. approval.index <= from[c]
      BY <1>b, <2>1, <3>1 DEF Newest
    <3> QED
      BY <1>c, <2>1, <3>1, <3>2 DEF Rows, Stages
  <2>4. Latest'
    <3>0. at[c] \in Stages /\ \A b \in Callers \ {c} : seen'[b] = seen[b]
      BY <1>4 DEF AskApproval, Walking, Others
    <3>1. at[c] \in Stages /\ \A b \in Callers : seen'[b] # NoRow => seen'[b] \in Rows
      BY <2>1, <3>0
    <3> QED
      BY <2>1, <2>2, <2>3, <1>c, <3>1 DEF Latest, Rows, Stages
  <2>5. PastRow'
    BY <2>1, <2>2 DEF PastRow
  <2> QED
    BY <1>a, <1>b, <2>1, <2>4, <2>5, Hand
<1> QED
  BY <1>1, <1>2, <1>3, <1>4

LEMMA DecisionKeepsHand ==
    ASSUME IInv, OneHand, Uncrossed', NEW c \in Callers, Others(c),
           \/ DenyByRule(c) /\ c \in Walkers
           \/ c \in Approvers /\ (Deny(c) \/ Approve(c))
           \/ c \in Challengers /\ Answer(c)
    PROVE  OneHand'
<1> USE DEF IInv, TypeOK
<1>1. pc[c] \in Deciding /\ ~MovedOn(c)
  BY DEF DenyByRule, Deny, Approve, Answer, Write, Deciding, Uncrossed
<1>2. /\ \A w \in Walkers : ~Holds(w)
      /\ Pending /\ approval \in Rows /\ seen[c] \in Rows /\ seen[c] # NoRow
      /\ \A s \in begun : s < seen[c].index /\ s \in seen[c].context
  BY <1>1, NotMoved
<1>3. approval.index = seen[c].index /\ UNCHANGED <<begun, again>> /\ again = {}
  BY <1>1 DEF MovedOn, DenyByRule, Deny, Approve, Answer, OneHand
<1>4. CASE DenyByRule(c) \/ Deny(c) \/ Approve(c)
  <2>1. approval' \in Rows /\ approval'.index = approval.index /\ ~Pending'
        /\ approval' # NoRow /\ UNCHANGED seen /\ pc'[c] \in {"deny", "resume"}
    <3>1. \E d \in {"denied", "approved"} : Write(c, d)
      BY <1>4 DEF DenyByRule, Deny, Approve
    <3>2. approval' \in Rows /\ approval'.index = approval.index /\ ~Pending'
      BY <1>2, <3>1 DEF Write, Rows, Pending
    <3> QED
      BY <1>4, <3>2, NoRowAssumption DEF DenyByRule, Deny, Approve, To
  <2>2. PastRow' /\ Latest'
    BY <2>1, <1>3 DEF PastRow, Latest, OneHand
  <2>3. \A w \in Walkers : Holds(w)' => w = c
    BY <1>2, WalkersCall DEF Others, Holds
  <2>4. Holds(c)' => Past(c)' /\ Newest(c)'
    BY <1>2, <1>3, <2>1 DEF Holds, Past, Newest, Rows, Stages
  <2> QED
    BY <1>3, <2>1, <2>2, <2>3, <2>4 DEF OneHand
<1>5. CASE Answer(c) /\ c \in Challengers
  <2>1. approval' = [seen[c] EXCEPT !.status = approval.status, !.context = @ \cup {c}]
    BY <1>5 DEF Answer
  <2>2. /\ approval' \in Rows /\ approval'.index = approval.index /\ Pending'
        /\ approval'.context = seen[c].context \cup {c}
    <3>1. c \in Callers /\ approval.status = "pending"
      BY <1>2 DEF Pending
    <3>2. approval' = [status |-> "pending", index |-> seen[c].index, comps |-> seen[c].comps,
                       context |-> seen[c].context \cup {c}]
      BY <1>2, <2>1, <3>1 DEF Rows
    <3>3. approval' \in Rows
      BY <1>2, <1>5, <3>2 DEF Rows
    <3> QED
      BY <1>3, <3>2, <3>3, NoRowAssumption DEF Pending
  <2>3. seen'[c] = NoRow /\ approval' # NoRow /\ approval # NoRow
    BY <1>2, <1>5, <2>2, Gone, NoRowAssumption DEF Answer
  <2>4. PastRow'
    BY <1>2, <1>3, <2>2 DEF PastRow
  <2>5. Latest'
    BY <1>2, <1>3, <2>2, <2>3 DEF Latest, OneHand, Others
  <2>6. \A w \in Walkers : ~Holds(w)'
    <3>1. c \notin Walkers
      BY <1>5, CallersAssumption DEF Walkers
    <3> QED
      BY <1>2, <3>1, WalkersCall DEF Others, Holds
  <2> QED
    BY <1>3, <2>4, <2>5, <2>6 DEF OneHand
<1> QED
  BY <1>4, <1>5

LEMMA HandKept == ASSUME IInv, Chosen, OneHand, Uncrossed', NEW c \in Callers, Acts(c) PROVE OneHand'
<1> USE DEF IInv, TypeOK
<1>a. Others(c)
  BY Frame
<1>b. c \in Approvers \/ c = Origin => c \in Walkers
  BY DEF Walkers
<1>1. CASE \/ c = Origin /\ Start
           \/ c \in Walkers /\ (Skip(c) \/ BeginStage(c) \/ AskApproval(c) \/ StagePassed(c))
  BY <1>1, <1>a, <1>b, WalkKeepsHand
<1>2. CASE \/ c \in Walkers /\ DenyByRule(c)
           \/ c \in Approvers /\ (Deny(c) \/ Approve(c))
           \/ c \in Challengers /\ Answer(c)
  BY <1>2, <1>a, DecisionKeepsHand
<1>3. CASE \/ c \in Walkers /\ (Park(c) \/ Denied(c))
           \/ c \in Walkers /\ (StageFailed(c) \/ StageRaised(c) \/ Finish(c))
           \/ c \in Approvers /\ ResumeRefused(c)
           \/ Crash(c)
  <2>1. pc'[c] \in {"idle", "over"} /\ seen'[c] = NoRow /\ UNCHANGED <<approval, begun, again>>
    BY <1>3, Gone DEF Park, Denied, StageFailed, StageRaised, Finish, ResumeRefused, Crash, To
  <2> QED
    BY <1>a, <2>1, Rests DEF Holds
<1>4. CASE (c \in Approvers /\ Read(c)) \/ (c \in Challengers /\ Challenge(c))
  <2>1. /\ pc'[c] \in {"decide", "answer"} /\ seen'[c] = approval /\ Pending
        /\ UNCHANGED <<approval, begun, again>>
    BY <1>4 DEF Read, Challenge, ReadRow, To
  <2> QED
    BY <1>a, <2>1, Rests DEF Holds
<1>5. CASE c \in Approvers /\ Resume(c)
  <2>1. pc[c] = "resume" /\ seen[c] \in Rows
    BY <1>5 DEF Resume, ResumesWith, RowsRead, Deciding
  <2>2. Arrive(c, seen[c].index, seen[c].comps)
    BY <1>5 DEF Resume, ResumesWith
  <2>3. at'[c] = seen[c].index
    BY <1>b, <1>5, <2>1, <2>2, ArrivesAlone DEF Rows
  <2>4. /\ from'[c] = seen[c].index /\ context'[c] = seen[c].context /\ seen'[c] = NoRow
        /\ pc'[c] = "walk" /\ UNCHANGED <<approval, begun, again>>
    BY <1>b, <1>5 DEF Resume, ResumesWith, To
  <2>5. Holds(c) /\ Past(c) /\ Newest(c) /\ ~Pending /\ again = {} /\ Latest
    BY <1>b, <1>5, <2>1 DEF Holds, OneHand
  <2>6. Past(c)' /\ Newest(c)' /\ PastRow' /\ Latest' /\ ~Pending'
    BY <1>a, <2>1, <2>3, <2>4, <2>5 DEF Past, Newest, PastRow, Latest, Pending, Others
  <2> QED
    BY <1>a, <1>b, <1>5, <2>4, <2>5, <2>6, Hand
<1> QED
  BY <1>1, <1>2, <1>3, <1>4, <1>5 DEF Acts, Goes, Decides

LEMMA CrossedGrows == IInv /\ Next => crossed \subseteq crossed'
BY DEF Next, Start, Goes, Skip, BeginStage, AskApproval, Park, DenyByRule, Denied, StagePassed,
       StageFailed, StageRaised, Finish, Read, ReadRow, Decides, Deny, Approve, Resume, ResumesWith,
       ResumeRefused, Challenge, Answer, Crash, Write

LEMMA HandAlways == Spec => [](Chosen /\ HandInv)
<1>1. Init => Chosen /\ HandInv
  <2>1. Init => Chosen
    BY WalkersCall, StagesAssumption, CallersAssumption
       DEF Init, Chosen, First, Narrow, Order, Working, Walkers, Stages
  <2>2. Init => OneHand
    BY WalkersCall, CallersAssumption
       DEF Init, OneHand, Holds, Past, Newest, PastRow, Latest, Pending
  <2> QED
    BY <2>1, <2>2 DEF HandInv
<1>2. IInv /\ Chosen /\ HandInv /\ [Next]_vars => (Chosen /\ HandInv)'
  <2> SUFFICES ASSUME IInv, Chosen, HandInv, [Next]_vars PROVE Chosen' /\ HandInv'
    OBVIOUS
  <2>1. ASSUME Next PROVE Chosen' /\ HandInv'
    <3>1. PICK c \in Callers : Acts(c)
      BY <2>1, NextActs
    <3>2. Chosen'
      BY <3>1, ChosenFirst, ChosenNext
    <3>3. Uncrossed' => Uncrossed
      BY <2>1, CrossedGrows DEF Uncrossed
    <3> QED
      BY <3>1, <3>2, <3>3, HandKept DEF HandInv
  <2>2. CASE UNCHANGED vars
    BY <2>2 DEF Chosen, First, Narrow, Order, HandInv, Uncrossed, OneHand, Holds, Past, Newest,
       PastRow, Latest, Pending
  <2> QED
    BY <2>1, <2>2
<1> QED
  BY <1>1, <1>2, IInvAlways, PTL DEF Spec

(* While no decision and no answer is written to a row that had moved on,  *)
(* no stage is started twice, however many people approve, question or     *)
(* crash (resume_pipeline takes the run up at the stage that asked).       *)
THEOREM RunsThroughOnce == Spec => []OneRunThrough
<1>1. HandInv => OneRunThrough
  BY DEF HandInv, OneHand, OneRunThrough
<1> QED
  BY <1>1, HandAlways, PTL

(* A resumed run keeps to the components that were chosen and, while       *)
(* nothing crosses, has the output of every stage that ran                 *)
(* (checkpoint_meta, seed_context).                                        *)
THEOREM HandsOnAll == Spec => []HandsOn
<1>1. Chosen /\ HandInv => HandsOn
  <2> SUFFICES ASSUME Chosen, HandInv, NEW w \in Walkers, pc[w] = "stage"
               PROVE  /\ comps[w] \subseteq chosen
                      /\ Uncrossed => {s \in begun : s < at[w]} \subseteq context[w]
    BY DEF HandsOn
  <2> QED
    BY DEF Chosen, Narrow, HandInv, OneHand, Holds, Past
<1> QED
  BY <1>1, HandAlways, PTL

-----------------------------------------------------------------------------
(* Never left lying.  A call that is at work leaves the run ended, or with *)
(* a row that waits; whoever decides that row is at work himself.  None of *)
(* this asks for the run to be in one hand.                                *)

Excused == faults > 0 \/ "park" \in crossed \/ pipeline.tagged

Settled == run = "none" \/ Ended \/ Pending

LEMMA AttendedNext == ASSUME IInv, Attended, NEW c \in Callers, Acts(c) PROVE Attended'
<1> USE DEF IInv, TypeOK
<1>a. Others(c)
  BY Frame
<1>b. Excused => Excused'
  BY DEF Excused, Acts, Start, Goes, Skip, BeginStage, AskApproval, Park, DenyByRule, Denied,
     StagePassed, StageFailed, StageRaised, Finish, Read, ReadRow, Decides, Deny, Approve, Resume,
     ResumesWith, ResumeRefused, Challenge, Answer, Crash, Fault, Write
<1>c. c \in Approvers \/ c = Origin => c \in Walkers
  BY DEF Walkers
<1>d. SUFFICES ASSUME ~Excused' PROVE Settled' \/ \E w \in Walkers : Active(w)'
  BY DEF Attended, Excused, Settled
<1>e. Settled \/ \E w \in Walkers : Active(w)
  BY <1>b, <1>d DEF Attended, Excused, Settled
<1>f. \A w \in Walkers \ {c} : Active(w)' = Active(w)
  BY <1>a, WalkersCall DEF Others, Active
<1>1. CASE c = Origin /\ Start
  BY <1>1, <1>c DEF Start, To, Active
<1>2. CASE c \in Walkers /\ (Skip(c) \/ BeginStage(c) \/ AskApproval(c) \/ StagePassed(c))
  <2>1. pc'[c] \in {"walk", "stage", "park", "ruleDeny"}
    BY <1>2, WalkersCall DEF Skip, Walking, BeginStage, AskApproval, StagePassed, To
  <2> QED
    BY <1>2, <2>1 DEF Active
<1>3. CASE c \in Walkers /\ Park(c)
  BY <1>3, <1>d DEF Park, Excused, Settled, Pending
<1>4. CASE c \in Walkers /\ (Denied(c) \/ StageFailed(c) \/ Finish(c))
  BY <1>4 DEF Denied, StageFailed, Finish, Settled, Ended, Endings
<1>5. CASE \/ c \in Walkers /\ StageRaised(c)
           \/ c \in Approvers /\ ResumeRefused(c)
           \/ Crash(c)
  BY <1>5, <1>d DEF StageRaised, ResumeRefused, Crash, Fault, Excused
<1>6. CASE \/ c \in Walkers /\ DenyByRule(c)
           \/ c \in Approvers /\ (Deny(c) \/ Approve(c) \/ Resume(c))
  <2>1. pc'[c] \in {"deny", "resume", "walk"}
    BY <1>6, WalkersCall DEF DenyByRule, Deny, Approve, Resume, ResumesWith, To
  <2> QED
    BY <1>6, <1>c, <2>1 DEF Active
<1>7. CASE (c \in Approvers /\ Read(c)) \/ (c \in Challengers /\ Challenge(c))
  <2>1. ~Active(c) /\ UNCHANGED <<run, approval>>
    BY <1>7 DEF Read, Challenge, ReadRow, Active
  <2> QED
    BY <1>e, <1>f, <2>1 DEF Settled, Ended, Pending
<1>8. CASE c \in Challengers /\ Answer(c)
  <2>1. seen[c] \in Rows /\ approval \in Rows
    BY <1>8 DEF Answer, RowsRead, Deciding
  <2>2. ~Active(c) /\ UNCHANGED run /\ Pending' = Pending
    <3>1. approval'.status = approval.status /\ approval' \in Rows
      BY <1>8, <2>1 DEF Answer, Rows
    <3> QED
      BY <1>8, <2>1, <3>1, NoRowAssumption DEF Answer, Active, Pending
  <2> QED
    BY <1>e, <1>f, <2>2 DEF Settled, Ended
<1> QED
  BY <1>1, <1>2, <1>3, <1>4, <1>5, <1>6, <1>7, <1>8 DEF Acts, Goes, Decides

(* A run that has begun has ended, waits for a person or has a call at     *)
(* work on it, unless something stopped a call, its tags are no longer     *)
(* known, or it was parked after it had been decided (_run_pipeline_body,  *)
(* approve_run, resume_pipeline).                                          *)
THEOREM NeverLeftLying == Spec => []Attended
<1>1. Init => Attended
  BY DEF Init, Attended
<1>2. IInv /\ Attended /\ [Next]_vars => Attended'
  <2>1. ASSUME IInv, Attended, Next PROVE Attended'
    BY <2>1, NextActs, AttendedNext
  <2>2. ASSUME Attended, UNCHANGED vars PROVE Attended'
    BY <2>2 DEF Attended, Ended, Pending, Active
  <2> QED
    BY <2>1, <2>2
<1> QED
  BY <1>1, <1>2, IInvAlways, PTL DEF Spec

-----------------------------------------------------------------------------
(* The promise.  While nothing crosses, whoever may write the run's end    *)
(* has it alone, and nobody has it once it is written.                     *)

Ender(c) == Holds(c) \/ pc[c] = "deny"

OneEnding ==
    /\ \A v, w \in Walkers : Ender(v) /\ Ender(w) => v = w
    /\ \A w \in Walkers : Ender(w) => ~Pending
    /\ Ended => ~Pending /\ \A w \in Walkers : ~Ender(w)

EndInv == crossed = {} => OneEnding

LEMMA EndingKept ==
    ASSUME IInv, OneEnding, crossed' = {}, NEW c \in Callers, Acts(c)
    PROVE  OneEnding'
<1> USE WalkersCall DEF IInv, TypeOK
<1>a. Others(c) /\ \A w \in Walkers \ {c} : Ender(w)' = Ender(w)
  BY Frame DEF Others, Ender, Holds
<1>b. c \in Approvers \/ c = Origin => c \in Walkers
  BY DEF Walkers
<1>1. CASE \/ c = Origin /\ Start
           \/ c \in Walkers /\ (Skip(c) \/ BeginStage(c) \/ StagePassed(c))
           \/ c \in Approvers /\ Resume(c)
  <2>1. c \in Walkers /\ Ender(c) /\ UNCHANGED approval /\ (run' = run \/ run' = "running")
    BY <1>1, <1>b DEF Start, Skip, Walking, BeginStage, StagePassed, Resume, ResumesWith, Ender,
       Holds
  <2> QED
    BY <1>a, <2>1 DEF OneEnding, Pending, Ended, Endings
<1>2. CASE c \in Walkers /\ AskApproval(c)
  <2>1. Ender(c) /\ ~Ender(c)' /\ UNCHANGED run
    BY <1>2 DEF AskApproval, Walking, Ender, Holds, To
  <2> QED
    BY <1>2, <1>a, <2>1 DEF OneEnding, Ended
<1>3. CASE \/ c \in Walkers /\ DenyByRule(c)
           \/ c \in Approvers /\ (Deny(c) \/ Approve(c))
  <2>1. Pending /\ UNCHANGED run /\ c \in Walkers
    BY <1>3, <1>b DEF DenyByRule, Deny, Approve, Write, MovedOn
  <2>2. ~Pending'
    <3>1. approval \in Rows
      BY <1>3 DEF DenyByRule, Deny, Approve, RowsRead, Deciding
    <3> QED
      BY <1>3, <3>1 DEF DenyByRule, Deny, Approve, Write, Rows, Pending
  <2> QED
    BY <1>a, <2>1, <2>2 DEF OneEnding, Ended
<1>4. CASE c \in Walkers /\ Park(c)
  <2>1. UNCHANGED approval /\ run' = "paused" /\ ~Ender(c)'
    BY <1>4, Gone DEF Park, Ender, Holds
  <2> QED
    BY <1>4, <1>a, <2>1 DEF OneEnding, Ended, Endings, Pending
<1>5. CASE c \in Walkers /\ (Denied(c) \/ StageFailed(c) \/ StageRaised(c) \/ Finish(c))
  <2>1. UNCHANGED approval /\ Ender(c) /\ ~Ender(c)'
    BY <1>5, Gone DEF Denied, StageFailed, StageRaised, Finish, Ender, Holds
  <2> QED
    BY <1>5, <1>a, <2>1 DEF OneEnding, Pending
<1>6. CASE \/ c \in Approvers /\ (Read(c) \/ ResumeRefused(c))
           \/ c \in Challengers /\ Challenge(c)
           \/ Crash(c)
  <2>1. UNCHANGED <<run, approval>> /\ (c \in Walkers => ~Ender(c)')
    <3>1. pc'[c] \in {"decide", "answer", "idle", "over"} /\ UNCHANGED <<run, approval>>
      BY <1>6, Gone DEF Read, Challenge, ReadRow, ResumeRefused, Crash, To
    <3> QED
      BY <3>1 DEF Ender, Holds
  <2> QED
    BY <1>a, <2>1 DEF OneEnding, Ended, Pending
<1>7. CASE c \in Challengers /\ Answer(c)
  <2>1. Pending /\ UNCHANGED run /\ c \notin Walkers
    BY <1>7, CallersAssumption DEF Answer, MovedOn, Walkers
  <2>2. \A w \in Walkers : Ender(w)' = Ender(w)
    BY <1>a, <2>1
  <2> QED
    BY <2>1, <2>2 DEF OneEnding, Ended
<1> QED
  BY <1>1, <1>2, <1>3, <1>4, <1>5, <1>6, <1>7 DEF Acts, Goes, Decides

PromiseStep == [Promise!Next]_Promise!vars

(* A step that starts, ends and grants nothing, or parks what had moved on.*)
LEMMA Unseen ==
    ASSUME UNCHANGED <<pipeline, licensed, begun, passed>>, crossed \subseteq crossed',
           Outcome' = Outcome \/ (Outcome' = "open" /\ crossed' # {})
    PROVE  PromiseStep
<1>1. GatesOfStages' = GatesOfStages
  BY DEF GatesOfStages
<1>2. CASE crossed' = {}
  BY <1>1, <1>2 DEF PromiseStep, Promise!vars
<1>3. CASE crossed' # {}
  BY <1>1, <1>3 DEF PromiseStep, Promise!Next, Promise!Overtake
<1> QED
  BY <1>2, <1>3

LEMMA Ends ==
    ASSUME UNCHANGED <<pipeline, licensed, begun, passed>>, crossed \subseteq crossed',
           run' \in Endings, run' = "complete" => passed = Stages, ~Ended \/ crossed' # {}
    PROVE  PromiseStep
<1>1. GatesOfStages' = GatesOfStages /\ Outcome' = run'
  BY DEF GatesOfStages, Outcome, Ended
<1>2. Promise!End(run')
  BY <1>1 DEF Promise!End, Promise!Notes, Promise!Positions, Outcome, Stages
<1> QED
  BY <1>2 DEF PromiseStep, Promise!Next

LEMMA PromiseGoes ==
    ASSUME IInv, HandInv, EndInv, NEW w \in Walkers, Goes(w), crossed \subseteq crossed'
    PROVE  PromiseStep
<1> USE DEF IInv, TypeOK
<1>a. 1..(at[w] - 1) \subseteq passed
  BY DEF Behind
<1>b. crossed = {} /\ Holds(w) => ~Ended /\ Past(w)
  BY DEF HandInv, Uncrossed, OneHand, EndInv, OneEnding, Ender
<1>1. CASE BeginStage(w)
  <2>1. /\ at[w] \in Stages /\ pc[w] = "walk" /\ UNCHANGED <<pipeline, passed, run, crossed>>
        /\ begun' = begun \cup {at[w]} /\ licensed' \in {licensed, licensed \cup {at[w]}}
    BY <1>1 DEF BeginStage, Walking
  <2>2. crossed = {} => ~Ended /\ begun \subseteq 1..(at[w] - 1)
    BY <1>b, <2>1 DEF Holds, Past, Stages
  <2>3. GatesOfStages[at[w]] \subseteq licensed'
    BY <1>1, <2>1 DEF GatesOfStages, BeginStage, Checkpoint, Licences
  <2>4. GatesOfStages' = GatesOfStages /\ Outcome' = Outcome
    BY <2>1 DEF GatesOfStages, Outcome, Ended
  <2>5. Promise!Start(at[w])
    BY <1>a, <2>1, <2>2, <2>3, <2>4
       DEF Promise!Start, Promise!Notes, Promise!Reached, Promise!StandsAt, Outcome
  <2> QED
    BY <2>1, <2>5 DEF PromiseStep, Promise!Next, Promise!Positions, Stages
<1>2. CASE Skip(w) \/ StagePassed(w)
  <2>1. /\ at[w] \in Stages /\ pc[w] \in {"walk", "stage"} /\ passed' = passed \cup {at[w]}
        /\ UNCHANGED <<pipeline, licensed, begun, run, crossed>>
    BY <1>2 DEF Skip, Walking, StagePassed, AtStage
  <2>2. crossed = {} => ~Ended /\ begun \subseteq 1..at[w]
    BY <1>b, <2>1 DEF Holds, Past, Stages
  <2>3. GatesOfStages' = GatesOfStages /\ Outcome' = Outcome
    BY <2>1 DEF GatesOfStages, Outcome, Ended
  <2>4. Promise!Pass(at[w])
    BY <1>a, <2>1, <2>2, <2>3
       DEF Promise!Pass, Promise!Notes, Promise!Reached, Promise!NotBeyond, Outcome
  <2> QED
    BY <2>1, <2>4 DEF PromiseStep, Promise!Next, Promise!Positions, Stages
<1>3. CASE Denied(w) \/ StageFailed(w) \/ Finish(w)
  <2>1. /\ UNCHANGED <<pipeline, licensed, begun, passed>> /\ run' \in Endings
        /\ Ender(w)
    BY <1>3 DEF Denied, StageFailed, Finish, Endings, Ender, Holds
  <2>2. run' = "complete" => passed = Stages
    <3>1. CASE Finish(w)
      <4>1. at[w] - 1 = N
        BY <3>1, StagesAssumption DEF Finish
      <4> QED
        BY <1>a, <4>1 DEF Stages
    <3>2. CASE ~Finish(w)
      BY <1>3, <3>2 DEF Denied, StageFailed
    <3> QED
      BY <3>1, <3>2
  <2>3. crossed' = {} => ~Ended
    BY <2>1 DEF EndInv, OneEnding
  <2> QED
    BY <2>1, <2>2, <2>3, Ends
<1>4. CASE Park(w)
  <2>1. UNCHANGED <<pipeline, licensed, begun, passed>> /\ Outcome' = "open"
    BY <1>4 DEF Park, Outcome, Ended, Endings
  <2>2. crossed' = {} => Outcome = "open"
    BY <1>4 DEF Park, EndInv, OneEnding, Outcome
  <2> QED
    BY <2>1, <2>2, Unseen
<1>5. CASE AskApproval(w) \/ DenyByRule(w) \/ StageRaised(w)
  BY <1>5, Unseen DEF AskApproval, DenyByRule, StageRaised, Outcome, Ended
<1> QED
  BY <1>1, <1>2, <1>3, <1>4, <1>5 DEF Goes

LEMMA PromiseApproves ==
    ASSUME IInv, HandInv, EndInv, NEW a \in Approvers, Approve(a), crossed \subseteq crossed'
    PROVE  PromiseStep
<1> USE DEF IInv, TypeOK
<1>1. /\ UNCHANGED <<pipeline, begun, passed, run>> /\ pc[a] = "decide" /\ Write(a, "approved")
      /\ licensed' = licensed \cup {seen[a].index} /\ a \in Callers
  BY DEF Approve, Callers
<1>2. seen[a].index \in Stages /\ 1..(seen[a].index - 1) \subseteq passed
  BY <1>1 DEF RowsRead, Deciding, Rows, Behind, Before
<1>3. crossed' = {} => ~Ended /\ begun \subseteq 1..(seen[a].index - 1)
  <2> SUFFICES ASSUME crossed' = {} PROVE ~Ended /\ begun \subseteq 1..(seen[a].index - 1)
    OBVIOUS
  <2>1. OneHand /\ ~MovedOn(a)
    BY <1>1 DEF Write, HandInv, Uncrossed
  <2>2. Pending /\ \A s \in begun : s < seen[a].index
    BY <1>1, <2>1, NotMoved DEF Deciding
  <2> QED
    BY <1>2, <2>2 DEF EndInv, OneEnding, Stages
<1>4. GatesOfStages' = GatesOfStages /\ Outcome' = Outcome
  BY <1>1 DEF GatesOfStages, Outcome, Ended
<1>5. Promise!Grant(seen[a].index)
  BY <1>1, <1>2, <1>3, <1>4
     DEF Promise!Grant, Promise!Notes, Promise!Reached, Promise!StandsAt, Outcome
<1> QED
  BY <1>2, <1>5 DEF PromiseStep, Promise!Next, Promise!Grants, Stages

(* Whatever the walks, decisions, questions and crashes do, a person who   *)
(* puts checkpoints into a pipeline sees a walk in order, through gates,   *)
(* once (run_pipeline, approve_run, resume_pipeline, human_challenge and   *)
(* their one loop, _run_pipeline_body).                                    *)
THEOREM PromiseIsKept == Spec => KeepsPromise
<1>1. Init => Promise!Init /\ EndInv
  <2> SUFFICES ASSUME Init PROVE Promise!Init /\ EndInv
    OBVIOUS
  <2>1. GatesOfStages \in [Stages -> SUBSET (0..N)]
    BY StagesAssumption DEF GatesOfStages, Stages
  <2>2. EndInv
    BY WalkersCall DEF Init, EndInv, OneEnding, Ender, Holds, Pending, Ended, Endings
  <2> QED
    BY <2>1, <2>2 DEF Init, Promise!Init, Promise!Positions, Promise!Grants, Outcome, Ended,
       Endings, Stages
<1>2. IInv /\ Chosen /\ HandInv /\ EndInv /\ [Next]_vars => EndInv' /\ PromiseStep
  <2> SUFFICES ASSUME IInv, Chosen, HandInv, EndInv, [Next]_vars PROVE EndInv' /\ PromiseStep
    OBVIOUS
  <2>1. CASE UNCHANGED vars
    BY <2>1, Unseen DEF EndInv, OneEnding, Ender, Holds, Pending, Ended, Outcome
  <2>2. ASSUME Next PROVE EndInv' /\ PromiseStep
    <3>1. PICK c \in Callers : Acts(c)
      BY <2>2, NextActs
    <3>2. crossed \subseteq crossed'
      BY <2>2, CrossedGrows
    <3>3. EndInv'
      BY <3>1, <3>2, EndingKept DEF EndInv
    <3>4. CASE (c \in Walkers /\ Goes(c)) \/ (c \in Approvers /\ Approve(c))
      BY <3>2, <3>3, <3>4, PromiseGoes, PromiseApproves
    <3>5. CASE \/ c = Origin /\ Start
               \/ c \in Approvers /\ (Read(c) \/ Deny(c) \/ Resume(c) \/ ResumeRefused(c))
               \/ c \in Challengers /\ (Challenge(c) \/ Answer(c))
               \/ Crash(c)
      <4>1. UNCHANGED <<pipeline, licensed, begun, passed>> /\ (run' = run \/ Start)
        BY <3>5 DEF Start, Read, ReadRow, Deny, Resume, ResumesWith, ResumeRefused, Challenge,
           Answer, Crash
      <4>2. Start => run' = "running" /\ (crossed = {} => ~Ended)
        BY DEF Start, EndInv, OneEnding, Ender, Holds, Walkers
      <4>3. Outcome' = Outcome \/ (Outcome' = "open" /\ crossed' # {})
        BY <3>2, <4>1, <4>2 DEF Outcome, Ended, Endings
      <4> QED
        BY <3>2, <3>3, <4>1, <4>3, Unseen
    <3> QED
      BY <3>1, <3>3, <3>4, <3>5 DEF Acts, Decides
  <2> QED
    BY <2>1, <2>2
<1> QED
  BY <1>1, <1>2, IInvAlways, HandAlways, PTL DEF Spec, KeepsPromise, Promise!Spec, PromiseStep
=============================================================================
