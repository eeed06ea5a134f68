--------------------------- MODULE StepRunProofs ----------------------------
(***************************************************************************)
(* What StepRun guarantees for any tasks, number of steps, of approvers    *)
(* and of crashes: no step is started that should have been approved and   *)
(* was not, nothing is committed before every step is over, at most one    *)
(* step begins after a cancel until that is forgotten, no step is started  *)
(* that a gate of the caller found against, and no run is left lying;      *)
(* while no decision crosses another step, every step is started once, and *)
(* a run ends once, but for a cancellation that run_approved takes for a   *)
(* failure; and the whole is a walk as GatedWalk promises it.              *)
(*                                                                         *)
(* The first two rest on what the rows of `approvals` say, since a run     *)
(* that is taken up knows of its past by its row alone.  A row that names  *)
(* a step was written from inside the task, so the task was admitted, and  *)
(* every step before that one is over (Backed); this survives any          *)
(* decision, whether it comes twice, early or after a crash.  What holds   *)
(* only while nothing crosses rests on the run being in one hand at a time *)
(* (OneHand, further down).                                                *)
(*                                                                         *)
(* Most actions either end a call (Ended) or take it from one label to     *)
(* another without touching a row or the steps (Moved).                    *)
(***************************************************************************)
EXTENDS StepRun, TLAPS

USE DEF vars, rows, local, history

Inside == {"boundary", "gate", "park", "attempt", "review", "git", "succeed", "raised", "enqueue"}
AtLabels == {"gate", "park", "attempt"}
After == {"review", "git", "succeed"}
Deciding == {"decide", "admitApproved", "ruleDeny"}

(* A caller with a decision in hand read a row, and there still is one.    *)
RowsRead ==
    \A w \in Executors :
        pc[w] \in Deciding => approval \in Rows /\ seen[w] \in Rows

AtStep == \A w \in Executors : pc[w] \in AtLabels => at[w] \in Steps

Licences ==
    \A w \in Executors :
        /\ pardoned[w] \in licensed \cup {0}
        /\ pc[w] = "admitApproved" => seen[w].index \in licensed
        /\ task.approval /\ pc[w] \in Inside => 0 \in licensed

Backed(x) ==
    x \in Rows => /\ 1..(x.index - 1) \subseteq settled
                  /\ task.approval /\ x.index # 0 => 0 \in licensed

RowsBacked == Backed(approval) /\ \A w \in Executors : Backed(seen[w])

Behind ==
    \A w \in Executors :
        /\ 1..(at[w] - 1) \subseteq settled
        /\ pc[w] \in After => settled = Steps

IInv ==
    /\ TypeOK /\ RowsRead /\ AtStep /\ Licences /\ RowsBacked /\ Behind
    /\ GatesKept /\ GitAfterAll

-----------------------------------------------------------------------------
LEMMA InitIInv == Init => IInv
<1> SUFFICES ASSUME Init PROVE IInv
  OBVIOUS
<1> USE DEF Init
<1>1. TypeOK
  <2>1. pc \in [Executors -> Labels] /\ error \in [Executors -> Errors]
    BY DEF Labels, Errors
  <2>2. at \in [Executors -> 1..(M + 1)] /\ pardoned \in [Executors -> 0..M]
    BY StepsAssumption
  <2>3. left \in [Executors -> 0..MaxFallbacks]
    BY OutcomesAssumption
  <2> QED
    BY <2>1, <2>2, <2>3, StepsAssumption DEF TypeOK, RunStates
<1>2. RowsRead /\ AtStep /\ Licences
  BY DEF RowsRead, AtStep, AtLabels, Licences, Deciding, Inside
<1>3. RowsBacked /\ Behind
  BY NoRowAssumption DEF RowsBacked, Backed, Behind, After
<1>4. GatesKept /\ GitAfterAll
  BY DEF GatesKept, GitAfterAll
<1> QED
  BY <1>1, <1>2, <1>3, <1>4 DEF IInv

(* A call that ends leaves nothing behind but what it wrote.               *)
LEMMA Ended ==
    ASSUME IInv, NEW w \in Executors, NEW l \in {"idle", "leave"}, To(w, l), Forgets(w),
           run' \in RunStates, registry' \in {"absent", "clear", "set"},
           queued' \in BOOLEAN, crashes' \in Nat,
           UNCHANGED <<task, entry, approval, accepted, pushed, history>>
    PROVE  IInv'
<1> USE DEF IInv, To, Forgets
<1>1. TypeOK'
  BY StepsAssumption, OutcomesAssumption DEF TypeOK, Labels, Errors
<1>2. RowsRead' /\ AtStep'
  BY DEF TypeOK, RowsRead, AtStep, AtLabels, Deciding
<1>3. Licences'
  BY DEF TypeOK, Licences, Inside
<1>4. RowsBacked' /\ Behind'
  BY NoRowAssumption DEF TypeOK, RowsBacked, Backed, Behind, After
<1>5. GatesKept' /\ GitAfterAll'
  BY DEF GatesKept, GitAfterAll
<1> QED
  BY <1>1, <1>2, <1>3, <1>4, <1>5

(* A call goes from one label to another.                                  *)
LEMMA Moved ==
    ASSUME IInv, NEW w \in Executors, NEW l \in Labels \ Deciding, To(w, l),
           l \in Inside => pc[w] \in Inside,
           l \in AtLabels => at[w] \in Steps,
           l \in After => settled = Steps,
           run' \in RunStates, registry' \in {"absent", "clear", "set"},
           error' \in [Executors -> Errors], left' \in [Executors -> 0..MaxFallbacks],
           queued' \in BOOLEAN, pushed' \in BOOLEAN, pushed' => settled = Steps,
           crossed' \subseteq {"decision", "early", "cancel"},
           UNCHANGED <<task, entry, approval, accepted, seen, at, pardoned, ran, again, settled,
                       licensed, late, crashes>>
    PROVE  IInv'
<1> USE DEF IInv, To
<1>1. TypeOK'
  BY DEF TypeOK
<1>2. RowsRead' /\ AtStep'
  BY DEF TypeOK, RowsRead, AtStep
<1>3. Licences'
  BY DEF TypeOK, Licences, Deciding
<1>4. RowsBacked' /\ Behind'
  BY DEF TypeOK, RowsBacked, Backed, Behind
<1>5. GatesKept' /\ GitAfterAll'
  BY DEF GatesKept, GitAfterAll
<1> QED
  BY <1>1, <1>2, <1>3, <1>4, <1>5

-----------------------------------------------------------------------------
(* The gates before the first step.                                        *)

LEMMA WorkerExecutes == Worker \in Executors /\ Approvers \subseteq Executors
BY DEF Executors

LEMMA StartIInv == IInv /\ Start => IInv'
<1> SUFFICES ASSUME IInv, Start PROVE IInv'
  OBVIOUS
<1>1. PICK l \in {"idle", "admit"} : To(Worker, l)
  BY DEF Start
<1>2. run' \in RunStates /\ registry' \in {"absent", "clear", "set"}
  BY DEF Start, RunStates, Terminal, IInv, TypeOK
<1>3. l \in Labels \ Deciding /\ l \notin Inside \cup AtLabels \cup After
  BY DEF Labels, Deciding, Inside, AtLabels, After
<1> QED
  BY <1>1, <1>2, <1>3, WorkerExecutes, Moved DEF Start, IInv, TypeOK, GitAfterAll

(* The row that asks for the whole task names no step.                     *)
LEMMA AskForTaskIInv == IInv /\ AskForTask => IInv'
<1> SUFFICES ASSUME IInv, AskForTask PROVE IInv'
  OBVIOUS
<1> USE DEF IInv
<1>1. /\ approval' \in Rows /\ approval'.index = 0
      /\ seen' \in [Executors -> Rows \cup {NoRow}]
      /\ \A w \in Executors : seen'[w] = seen[w] \/ seen'[w] = approval' \/ seen'[w] = NoRow
  BY StepsAssumption, WorkerExecutes DEF AskForTask, Rows, Returns, Forgets, TypeOK
<1>2. /\ at' \in [Executors -> 1..(M + 1)]
      /\ \A w \in Executors : at'[w] = at[w] \/ at'[w] = 1
      /\ pardoned' \in [Executors -> 0..M]
      /\ \A w \in Executors : pardoned'[w] = pardoned[w] \/ pardoned'[w] = 0
      /\ left' \in [Executors -> 0..MaxFallbacks]
      /\ error' \in [Executors -> Errors]
  BY StepsAssumption, OutcomesAssumption DEF AskForTask, Returns, Forgets, TypeOK, Errors
<1>3. /\ pc' \in [Executors -> Labels]
      /\ \A w \in Executors : IF w = Worker THEN pc'[w] \in {"idle", "leave", "ruleDeny"}
                                            ELSE pc'[w] = pc[w]
      /\ pc'[Worker] = "ruleDeny" => seen'[Worker] = approval'
      /\ \A w \in Executors : w # Worker => seen'[w] = seen[w] /\ at'[w] = at[w]
  BY WorkerExecutes DEF AskForTask, Returns, Forgets, To, TypeOK, Labels
<1>4. TypeOK'
  BY <1>1, <1>2, <1>3 DEF AskForTask, Outside, TypeOK
<1>5. RowsRead' /\ AtStep'
  BY <1>1, <1>3 DEF RowsRead, AtStep, AtLabels, Deciding, AskForTask, Outside
<1>6. Licences'
  BY <1>2, <1>3 DEF Licences, Inside, AskForTask, Outside
<1>7. RowsBacked'
  BY <1>1, NoRowAssumption DEF RowsBacked, Backed, AskForTask, Outside
<1>8. Behind'
  BY <1>2, <1>3 DEF Behind, After, AskForTask, Outside
<1>9. GatesKept' /\ GitAfterAll'
  BY DEF GatesKept, GitAfterAll, AskForTask, Outside
<1> QED
  BY <1>4, <1>5, <1>6, <1>7, <1>8, <1>9

(* A decision is written to a row, and leaves its step as it is.           *)
LEMMA Written ==
    ASSUME IInv, NEW w \in Executors, pc[w] \in Deciding,
           NEW decision \in {"approved", "denied"}, Write(w, decision)
    PROVE  /\ approval' \in Rows /\ approval'.index = approval.index
           /\ crossed' \subseteq {"decision", "early", "cancel"}
<1>1. approval \in Rows
  BY DEF IInv, RowsRead
<1>2. approval' \in Rows /\ approval'.index = approval.index
  BY <1>1 DEF Write, Rows
<1>3. crossed' \subseteq {"decision", "early", "cancel"}
  BY DEF Write, IInv, TypeOK
<1> QED
  BY <1>2, <1>3

LEMMA DenyByRuleIInv == IInv /\ DenyByRule => IInv'
<1> SUFFICES ASSUME IInv, DenyByRule PROVE IInv'
  OBVIOUS
<1> USE DEF IInv
<1>1. /\ approval' \in Rows /\ approval'.index = approval.index /\ approval \in Rows
      /\ crossed' \subseteq {"decision", "early", "cancel"}
  BY Written, WorkerExecutes DEF DenyByRule, Deciding, RowsRead
<1>2. TypeOK'
  BY <1>1, WorkerExecutes DEF DenyByRule, Outside, To, TypeOK, Labels
<1>3. RowsRead' /\ AtStep' /\ Licences'
  BY <1>1, WorkerExecutes
     DEF DenyByRule, Outside, To, TypeOK, RowsRead, AtStep, AtLabels, Licences, Inside, Deciding
<1>4. RowsBacked' /\ Behind'
  BY <1>1, WorkerExecutes DEF DenyByRule, Outside, To, TypeOK, RowsBacked, Backed, Behind, After
<1>5. GatesKept' /\ GitAfterAll'
  BY DEF DenyByRule, Outside, GatesKept, GitAfterAll
<1> QED
  BY <1>2, <1>3, <1>4, <1>5

LEMMA RefuseIInv == IInv /\ Refuse => IInv'
<1> SUFFICES ASSUME IInv, Refuse PROVE IInv'
  OBVIOUS
<1>1. PICK l \in {"idle", "leave"} : To(Worker, l)
  BY DEF Refuse, Completes, Returns
<1> QED
  BY <1>1, WorkerExecutes, Ended
     DEF Refuse, Completes, Returns, Outside, RunStates, Terminal, IInv, TypeOK

LEMMA DeferBatchIInv == IInv /\ DeferBatch => IInv'
<1> SUFFICES ASSUME IInv, DeferBatch PROVE IInv'
  OBVIOUS
<1>1. PICK l \in {"idle", "leave"} : To(Worker, l)
  BY DEF DeferBatch, Returns
<1> QED
  BY <1>1, WorkerExecutes, Ended DEF DeferBatch, Opens, Returns, RunStates, IInv, TypeOK

(* A call enters the loop over the steps.                                  *)
LEMMA Entered ==
    ASSUME IInv, NEW w \in Executors, NEW s \in 1..(M + 1), NEW index \in 0..M,
           Enter(w, s, index),
           index \in licensed' \cup {0}, task.approval => 0 \in licensed',
           1..(s - 1) \subseteq settled,
           run' \in RunStates, licensed \subseteq licensed', licensed' \subseteq 0..M,
           UNCHANGED <<task, entry, approval, registry, accepted, seen, left, queued, pushed, crashes,
                       ran, again, settled, late, crossed>>
    PROVE  IInv'
<1> USE DEF IInv
<1>1. PICK l \in {"boundary", "raised"} :
          To(w, l) /\ error' \in [Executors -> Errors]
  BY DEF Enter, Raises, TypeOK, Errors
<1>2. /\ at' \in [Executors -> 1..(M + 1)] /\ at' = [at EXCEPT ![w] = s]
      /\ pardoned' \in [Executors -> 0..M] /\ pardoned' = [pardoned EXCEPT ![w] = index]
  BY DEF Enter, TypeOK
<1>3. TypeOK'
  BY <1>1, <1>2 DEF To, TypeOK, Labels
<1>4. RowsRead' /\ AtStep'
  BY <1>1, <1>2 DEF To, TypeOK, RowsRead, AtStep, AtLabels, Deciding
<1>5. Licences'
  BY <1>1, <1>2 DEF To, TypeOK, Licences
<1>6. RowsBacked'
  BY DEF RowsBacked, Backed
<1>7. Behind'
  BY <1>1, <1>2 DEF To, TypeOK, Behind, After
<1>8. GatesKept' /\ GitAfterAll'
  BY DEF GatesKept, GitAfterAll
<1> QED
  BY <1>3, <1>4, <1>5, <1>6, <1>7, <1>8

LEMMA ExecuteIInv == IInv /\ Execute => IInv'
<1> SUFFICES ASSUME IInv, Execute PROVE IInv'
  OBVIOUS
<1>1. Enter(Worker, 1, 0) /\ run' \in RunStates
  BY DEF Execute, Opens, RunStates, IInv, TypeOK
<1>2. /\ licensed \subseteq licensed' /\ licensed' \subseteq 0..M
      /\ task.approval => 0 \in licensed'
  BY StepsAssumption DEF Execute, IInv, TypeOK
<1>3. 1 \in 1..(M + 1) /\ 0 \in 0..M /\ 1..(1 - 1) \subseteq settled
  BY StepsAssumption
<1>4. UNCHANGED <<task, entry, approval, registry, accepted, seen, left, queued, pushed, crashes,
                  ran, again, settled, late, crossed>>
  BY DEF Execute, Outside
<1> QED
  BY <1>1, <1>2, <1>3, <1>4, WorkerExecutes, Entered

LEMMA AdmitsIInv == IInv /\ Admits => IInv'
BY StartIInv, AskForTaskIInv, DenyByRuleIInv, RefuseIInv, DeferBatchIInv, ExecuteIInv DEF Admits

-----------------------------------------------------------------------------
(* The loop over the steps.                                                *)

LEMMA CancelledIInv == ASSUME IInv, NEW w \in Executors, Cancelled(w) PROVE IInv'
<1>1. To(w, "raised") /\ "raised" \in Labels \ Deciding
  BY DEF Cancelled, Raises, Labels, Deciding
<1>2. /\ run' \in RunStates /\ error' \in [Executors -> Errors]
      /\ crossed' \subseteq {"decision", "early", "cancel"}
  BY DEF Cancelled, Raises, RunStates, Terminal, Errors, IInv, TypeOK
<1>3. "raised" \notin AtLabels \cup After /\ pc[w] \in Inside
  BY DEF Cancelled, AtBoundary, AtLabels, After, Inside
<1> QED
  BY <1>1, <1>2, <1>3, Moved DEF Cancelled, Outside, IInv, TypeOK, GitAfterAll

LEMMA NotCancelledIInv == ASSUME IInv, NEW w \in Executors, NotCancelled(w) PROVE IInv'
<1>1. To(w, "gate") /\ "gate" \in (Labels \ Deciding) \ After
  BY DEF NotCancelled, Labels, Deciding, After
<1>2. pc[w] \in Inside /\ at[w] \in Steps
  BY DEF NotCancelled, AtBoundary, Inside
<1> QED
  BY <1>1, <1>2, Moved DEF NotCancelled, Outside, IInv, TypeOK, GitAfterAll

(* The row is written inside the task, with the steps before it over.      *)
LEMMA AskForStepIInv == ASSUME IInv, NEW w \in Executors, AskForStep(w) PROVE IInv'
<1> USE DEF IInv
<1>1. at[w] \in Steps /\ pc[w] \in Inside
  BY DEF AskForStep, AtStep, AtLabels, Inside
<1>2. approval' \in Rows /\ approval'.index = at[w]
  BY <1>1 DEF AskForStep, Rows, Steps
<1>3. TypeOK'
  BY <1>2 DEF AskForStep, Outside, To, TypeOK, Labels
<1>4. RowsRead' /\ AtStep'
  BY <1>1, <1>2 DEF AskForStep, Outside, To, TypeOK, RowsRead, AtStep, Deciding
<1>5. Licences'
  BY <1>1 DEF AskForStep, Outside, To, TypeOK, Licences, Inside
<1>6. RowsBacked'
  BY <1>1, <1>2 DEF AskForStep, Outside, RowsBacked, Backed, Behind, Licences
<1>7. Behind'
  BY DEF AskForStep, Outside, To, TypeOK, Behind, After
<1>8. GatesKept' /\ GitAfterAll'
  BY DEF AskForStep, Outside, GatesKept, GitAfterAll
<1> QED
  BY <1>3, <1>4, <1>5, <1>6, <1>7, <1>8

LEMMA RaisesIInv ==
    ASSUME IInv, NEW w \in Executors, NEW kind \in Errors, Raises(w, kind), pc[w] \in Inside,
           run' \in RunStates, Outside,
           UNCHANGED <<approval, seen, at, pardoned, left, history>>
    PROVE  IInv'
<1>1. To(w, "raised") /\ "raised" \in ((Labels \ Deciding) \ After) \ AtLabels
  BY DEF Raises, Labels, Deciding, AtLabels, After
<1>2. error' \in [Executors -> Errors]
  BY DEF Raises, IInv, TypeOK
<1> QED
  BY <1>1, <1>2, Moved DEF Outside, IInv, TypeOK, GitAfterAll

LEMMA ParkIInv == ASSUME IInv, NEW w \in Executors, Park(w) PROVE IInv'
BY RaisesIInv DEF Park, Errors, Inside, RunStates

LEMMA DeferredIInv == ASSUME IInv, NEW w \in Executors, Deferred(w) PROVE IInv'
BY RaisesIInv DEF Deferred, Errors, Inside, IInv, TypeOK

LEMMA PrepareFailsIInv == ASSUME IInv, NEW w \in Executors, PrepareFails(w) PROVE IInv'
BY RaisesIInv DEF PrepareFails, Errors, Inside, IInv, TypeOK

LEMMA StepFailedIInv == ASSUME IInv, NEW w \in Executors, StepFailed(w) PROVE IInv'
BY RaisesIInv DEF StepFailed, Breaks, Errors, Inside, IInv, TypeOK

(* The step is not gated, or it is the one the approval names.             *)
LEMMA BeginStepIInv == ASSUME IInv, NEW w \in Executors, BeginStep(w) PROVE IInv'
<1> USE DEF IInv
<1>1. at[w] \in Steps /\ pc[w] \in Inside
  BY DEF BeginStep, AtStep, AtLabels, Inside
<1>2. left' \in [Executors -> 0..MaxFallbacks]
  BY OutcomesAssumption DEF BeginStep, Begins, TypeOK
<1>3. TypeOK'
  BY <1>1, <1>2 DEF BeginStep, Begins, Outside, To, TypeOK, Labels
<1>4. RowsRead' /\ AtStep'
  BY <1>1 DEF BeginStep, Begins, Outside, To, TypeOK, RowsRead, AtStep, Deciding
<1>5. Licences'
  BY <1>1 DEF BeginStep, Begins, Outside, To, TypeOK, Licences
<1>6. RowsBacked' /\ Behind'
  BY DEF BeginStep, Begins, Outside, To, TypeOK, RowsBacked, Backed, Behind, After
<1>7. GatesKept'
  <2>1. at[w] \in task.gated => at[w] \in licensed
    BY <1>1 DEF BeginStep, MustAsk, Licences, Steps
  <2>2. task.approval => 0 \in licensed
    BY <1>1 DEF Licences
  <2> QED
    BY <2>1, <2>2 DEF BeginStep, Begins, Outside, GatesKept
<1>8. GitAfterAll'
  BY DEF BeginStep, Outside, GitAfterAll
<1> QED
  BY <1>3, <1>4, <1>5, <1>6, <1>7, <1>8

(* A step ends, or is passed over.                                         *)
LEMMA NextStepIInv ==
    ASSUME IInv, NEW w \in Executors, pc[w] \in AtLabels, NextStep(w), Outside,
           UNCHANGED <<rows, seen, pardoned, ran, again, licensed, late, crossed>>
    PROVE  IInv'
<1> USE DEF IInv
<1>1. at[w] \in 1..M /\ pc[w] \in Inside
  BY DEF AtStep, AtLabels, Inside, Steps
<1>2. /\ at' \in [Executors -> 1..(M + 1)]
      /\ at'[w] = at[w] + 1 /\ \A v \in Executors \ {w} : at'[v] = at[v]
  BY <1>1, StepsAssumption DEF NextStep, TypeOK
<1>3. settled' = settled \cup {at[w]} /\ settled' \subseteq Steps
  BY <1>1 DEF NextStep, TypeOK, Steps
<1>4. TypeOK'
  <2>1. left' \in [Executors -> 0..MaxFallbacks]
    BY OutcomesAssumption DEF NextStep, TypeOK
  <2> QED
    BY <1>2, <1>3, <2>1 DEF NextStep, Outside, To, TypeOK, Labels
<1>5. RowsRead' /\ AtStep'
  BY <1>2 DEF NextStep, Outside, To, TypeOK, RowsRead, AtStep, AtLabels, Deciding
<1>6. Licences'
  BY <1>1 DEF NextStep, Outside, To, TypeOK, Licences, Inside
<1>7. RowsBacked'
  BY <1>3 DEF NextStep, Outside, RowsBacked, Backed
<1>8. Behind'
  <2>1. \A v \in Executors : 1..(at'[v] - 1) \subseteq settled'
    BY <1>1, <1>2, <1>3 DEF Behind, TypeOK
  <2>2. \A v \in Executors : pc'[v] \in After => settled' = Steps
    BY <1>3 DEF NextStep, To, TypeOK, Behind, After
  <2> QED
    BY <2>1, <2>2 DEF Behind
<1>9. GatesKept' /\ GitAfterAll'
  BY <1>3 DEF NextStep, Outside, GatesKept, GitAfterAll
<1> QED
  BY <1>4, <1>5, <1>6, <1>7, <1>8, <1>9

LEMMA StepOverIInv == ASSUME IInv, NEW w \in Executors, StepOver(w) \/ PassOver(w) PROVE IInv'
BY NextStepIInv DEF StepOver, PassOver, AtLabels

LEMMA FallbackIInv == ASSUME IInv, NEW w \in Executors, Fallback(w) PROVE IInv'
<1>1. To(w, "attempt") /\ "attempt" \in (Labels \ Deciding) \ After
  BY DEF Fallback, To, Labels, Deciding, After, IInv, TypeOK
<1>2. left' \in [Executors -> 0..MaxFallbacks]
  BY OutcomesAssumption DEF Fallback, IInv, TypeOK
<1>3. pc[w] \in Inside /\ at[w] \in Steps
  BY DEF Fallback, Inside, IInv, AtStep, AtLabels
<1> QED
  BY <1>1, <1>2, <1>3, Moved DEF Fallback, Outside, IInv, TypeOK, GitAfterAll

(* Past the last step, every step is over.                                 *)
LEMMA AllOverIInv == ASSUME IInv, NEW w \in Executors, AllOver(w) PROVE IInv'
<1>1. PICK l \in {"review", "git"} : To(w, l)
  BY DEF AllOver
<1>2. l \in Labels \ Deciding /\ l \notin AtLabels
  BY DEF Labels, Deciding, AtLabels
<1>3. settled = Steps
  <2>1. at[w] - 1 = M
    BY StepsAssumption DEF AllOver
  <2> QED
    BY <2>1 DEF IInv, Behind, TypeOK, Steps
<1>4. pc[w] \in Inside
  BY DEF AllOver, Inside
<1> QED
  BY <1>1, <1>2, <1>3, <1>4, Moved DEF AllOver, Outside, IInv, TypeOK

LEMMA ReviewIInv == ASSUME IInv, NEW w \in Executors, Review(w) PROVE IInv'
<1>1. CASE Raises(w, "error")
  BY <1>1, RaisesIInv DEF Review, Errors, Inside, IInv, TypeOK
<1>2. CASE To(w, "git") /\ UNCHANGED error
  <2>1. "git" \in (Labels \ Deciding) \ AtLabels /\ settled = Steps /\ pc[w] \in Inside
    BY DEF Labels, Deciding, AtLabels, Review, IInv, Behind, After, Inside
  <2> QED
    BY <1>2, <2>1, Moved DEF Review, Outside, IInv, TypeOK
<1> QED
  BY <1>1, <1>2 DEF Review

LEMMA GitActionsIInv == ASSUME IInv, NEW w \in Executors, GitActions(w) PROVE IInv'
<1>1. settled = Steps /\ pc[w] \in Inside
  BY DEF GitActions, IInv, Behind, After, Inside
<1>2. CASE Raises(w, "error")
  <2>1. UNCHANGED pushed
    BY <1>2 DEF GitActions, Raises, To, IInv, TypeOK
  <2> QED
    BY <1>1, <1>2, <2>1, RaisesIInv DEF GitActions, Outside, Errors, IInv, TypeOK
<1>3. CASE To(w, "succeed") /\ pushed' = (pushed \/ task.git) /\ UNCHANGED error
  <2>1. "succeed" \in (Labels \ Deciding) \ AtLabels /\ pushed' \in BOOLEAN
    BY <1>3 DEF Labels, Deciding, AtLabels
  <2> QED
    BY <1>1, <1>3, <2>1, Moved DEF GitActions, IInv, TypeOK
<1> QED
  BY <1>2, <1>3 DEF GitActions

-----------------------------------------------------------------------------
(* What the callers make of the outcome.                                   *)

LEMMA ReturnsIInv ==
    ASSUME IInv, NEW w \in Executors, Returns(w), run' \in RunStates, Outside,
           UNCHANGED <<approval, history>>
    PROVE  IInv'
<1>1. PICK l \in {"idle", "leave"} : To(w, l)
  BY DEF Returns
<1> QED
  BY <1>1, Ended DEF Returns, Outside, IInv, TypeOK

LEMMA OutcomeIInv ==
    ASSUME IInv, NEW w \in Executors,
           \/ Succeed(w) \/ LeavePaused(w) \/ LeaveCancelled(w) \/ CompleteDeferred(w)
           \/ Fail(w) \/ Denied(w) \/ RefuseApproved(w)
    PROVE  IInv'
BY ReturnsIInv
   DEF Succeed, LeavePaused, LeaveCancelled, CompleteDeferred, Fail, Denied, RefuseApproved,
       Completes, RunStates, Terminal, IInv, TypeOK

LEMMA EnqueueDeferredIInv == ASSUME IInv, NEW w \in Executors, EnqueueDeferred(w) PROVE IInv'
<1>1. To(w, "enqueue") /\ "enqueue" \in ((Labels \ Deciding) \ After) \ AtLabels
  BY DEF EnqueueDeferred, Labels, Deciding, After, AtLabels
<1>2. pc[w] \in Inside
  BY DEF EnqueueDeferred, Inside
<1> QED
  BY <1>1, <1>2, Moved DEF EnqueueDeferred, IInv, TypeOK, GitAfterAll

LEMMA LeaveIInv == ASSUME IInv, NEW w \in Executors, Leave(w) PROVE IInv'
<1>1. To(w, "idle") /\ "idle" \in (((Labels \ Deciding) \ After) \ AtLabels) \ Inside
  BY DEF Leave, Labels, Deciding, After, AtLabels, Inside
<1> QED
  BY <1>1, Moved DEF Leave, IInv, TypeOK, GitAfterAll

LEMMA CrashIInv == ASSUME IInv, NEW w \in Executors, Crash(w) PROVE IInv'
<1>1. To(w, "idle") /\ Forgets(w) /\ crashes' \in Nat /\ registry' \in {"absent", "clear", "set"}
  BY DEF Crash, IInv, TypeOK
<1> QED
  BY <1>1, Ended DEF Crash, IInv, TypeOK

LEMMA WalksIInv == ASSUME IInv, NEW w \in Executors, Walks(w) PROVE IInv'
BY CancelledIInv, NotCancelledIInv, AskForStepIInv, ParkIInv, PrepareFailsIInv, BeginStepIInv,
   StepOverIInv, FallbackIInv, DeferredIInv, StepFailedIInv, AllOverIInv, ReviewIInv,
   GitActionsIInv, OutcomeIInv, EnqueueDeferredIInv, LeaveIInv
   DEF Walks

-----------------------------------------------------------------------------
(* run_approved                                                            *)

LEMMA ReadIInv == ASSUME IInv, NEW a \in Approvers, Read(a) PROVE IInv'
<1> USE DEF IInv
<1>1. a \in Executors /\ approval \in Rows
  BY WorkerExecutes DEF Read, Pending, TypeOK
<1>2. TypeOK'
  BY <1>1 DEF Read, Outside, To, TypeOK, Labels
<1>3. RowsRead' /\ AtStep' /\ Licences'
  BY <1>1 DEF Read, Outside, To, TypeOK, RowsRead, AtStep, AtLabels, Licences, Inside
<1>4. RowsBacked' /\ Behind'
  BY <1>1 DEF Read, Outside, To, TypeOK, RowsBacked, Backed, Behind, After
<1>5. GatesKept' /\ GitAfterAll'
  BY DEF Read, Outside, GatesKept, GitAfterAll
<1> QED
  BY <1>2, <1>3, <1>4, <1>5

LEMMA DenyIInv == ASSUME IInv, NEW a \in Approvers, Deny(a) PROVE IInv'
<1> USE DEF IInv
<1>a. a \in Executors
  BY WorkerExecutes
<1>1. /\ approval' \in Rows /\ approval'.index = approval.index /\ approval \in Rows
      /\ crossed' \subseteq {"decision", "early", "cancel"}
  BY <1>a, Written DEF Deny, Deciding, RowsRead
<1>2. TypeOK'
  BY <1>a, <1>1 DEF Deny, Outside, To, TypeOK, Labels
<1>3. RowsRead' /\ AtStep' /\ Licences'
  BY <1>a, <1>1
     DEF Deny, Outside, To, TypeOK, RowsRead, AtStep, AtLabels, Licences, Inside, Deciding
<1>4. RowsBacked' /\ Behind'
  BY <1>a, <1>1 DEF Deny, Outside, To, TypeOK, RowsBacked, Backed, Behind, After
<1>5. GatesKept' /\ GitAfterAll'
  BY DEF Deny, Outside, GatesKept, GitAfterAll
<1> QED
  BY <1>2, <1>3, <1>4, <1>5

LEMMA ApproveIInv == ASSUME IInv, NEW a \in Approvers, Approve(a) PROVE IInv'
<1> USE DEF IInv
<1>a. a \in Executors
  BY WorkerExecutes
<1>1. /\ approval' \in Rows /\ approval'.index = approval.index /\ approval \in Rows
      /\ crossed' \subseteq {"decision", "early", "cancel"}
      /\ seen[a] \in Rows
  BY <1>a, Written DEF Approve, Deciding, RowsRead
<1>2. licensed' = licensed \cup {seen[a].index} /\ licensed' \subseteq 0..M
  BY <1>1 DEF Approve, Rows, TypeOK
<1>3. TypeOK'
  BY <1>a, <1>1, <1>2 DEF Approve, Outside, To, TypeOK, Labels
<1>4. RowsRead' /\ AtStep'
  BY <1>a, <1>1 DEF Approve, Outside, To, TypeOK, RowsRead, AtStep, AtLabels, Deciding
<1>5. Licences'
  BY <1>a, <1>2 DEF Approve, Outside, To, TypeOK, Licences, Inside
<1>6. RowsBacked' /\ Behind'
  BY <1>a, <1>1, <1>2 DEF Approve, Outside, To, TypeOK, RowsBacked, Backed, Behind, After
<1>7. GatesKept' /\ GitAfterAll'
  BY <1>2 DEF Approve, Outside, GatesKept, GitAfterAll
<1> QED
  BY <1>3, <1>4, <1>5, <1>6, <1>7

(* A row that names a step vouches for the task and for the steps before.  *)
LEMMA ExecuteApprovedIInv == ASSUME IInv, NEW a \in Approvers, ExecuteApproved(a) PROVE IInv'
<1> DEFINE index == seen[a].index
           first == IF index = 0 THEN 1 ELSE index
<1>1. a \in Executors /\ seen[a] \in Rows /\ index \in 0..M
  BY WorkerExecutes DEF ExecuteApproved, IInv, RowsRead, Deciding, Rows
<1>2. index \in licensed
  BY <1>1 DEF ExecuteApproved, IInv, Licences
<1>3. task.approval => 0 \in licensed
  BY <1>1, <1>2 DEF IInv, RowsBacked, Backed
<1>4. first \in 1..(M + 1) /\ 1..(first - 1) \subseteq settled
  BY <1>1, StepsAssumption DEF IInv, RowsBacked, Backed
<1>5. Enter(a, first, index)
  BY DEF ExecuteApproved
<1>6. UNCHANGED <<task, entry, run, approval, registry, accepted, seen, left, queued, pushed,
                  crashes, ran, again, settled, licensed, late, crossed>>
  BY DEF ExecuteApproved, Outside
<1>7. run' \in RunStates /\ licensed' \subseteq 0..M
  BY <1>6 DEF IInv, TypeOK
<1> HIDE DEF index, first
<1> QED
  BY <1>1, <1>2, <1>3, <1>4, <1>5, <1>6, <1>7, Entered

-----------------------------------------------------------------------------
LEMMA CancelIInv == IInv /\ Cancel => IInv'
BY DEF Cancel, IInv, TypeOK, RowsRead, AtStep, Licences, RowsBacked, Backed, Behind, GatesKept,
       GitAfterAll

LEMMA NextIInv == IInv /\ [Next]_vars => IInv'
<1> SUFFICES ASSUME IInv, [Next]_vars PROVE IInv'
  OBVIOUS
<1>1. CASE Admits
  BY <1>1, AdmitsIInv
<1>2. CASE \E w \in Executors : Walks(w) \/ Crash(w)
  BY <1>2, WalksIInv, CrashIInv
<1>3. CASE \E a \in Approvers : Read(a) \/ Decides(a)
  BY <1>3, ReadIInv, DenyIInv, ApproveIInv, OutcomeIInv, ExecuteApprovedIInv, WorkerExecutes
     DEF Decides
<1>4. CASE Cancel
  BY <1>4, CancelIInv
<1>5. CASE UNCHANGED vars
  BY <1>5 DEF IInv, TypeOK, RowsRead, AtStep, Licences, RowsBacked, Backed, Behind, GatesKept,
              GitAfterAll
<1> QED
  BY <1>1, <1>2, <1>3, <1>4, <1>5 DEF Next

(* The inductive invariant: what a row of `approvals` vouches for.         *)
THEOREM IInvAlways == Spec => []IInv
BY InitIInv, NextIInv, PTL DEF Spec

(* Every variable keeps its type.                                          *)
THEOREM TypeCorrect == Spec => []TypeOK
BY IInvAlways, PTL DEF IInv

(* A step that needs approval, or any step of a task that does, is never   *)
(* started before that approval was given (_execute_task_body,             *)
(* run_approved).                                                          *)
THEOREM KeepsGates == Spec => []GatesKept
BY IInvAlways, PTL DEF IInv

(* Git actions are performed only when every step is over, whichever calls *)
(* walked them (perform_git_actions at the end of _execute_task_body).     *)
THEOREM CommitsAfterAll == Spec => []GitAfterAll
BY IInvAlways, PTL DEF IInv

-----------------------------------------------------------------------------
(* The gates that look at the repository.  A call that one of them stops   *)
(* never gets to the steps, so that no row ever names a step; and what     *)
(* stands behind the approval of a task is all of them (run_approved).     *)

Shut ==
    /\ ran = {}
    /\ \A w \in Executors : pc[w] \notin Inside
    /\ \A w \in Executors : seen[w] \in Rows => seen[w].index = 0
    /\ approval \in Rows => approval.index = 0

ShutInv == Blocked(GatesOf(entry)) => Shut

LEMMA ShutAdmits == ASSUME IInv, Shut, Admits, Blocked(GatesOf(entry)) PROVE Shut'
<1> USE DEF Shut
<1>0. TypeOK /\ Worker \in Executors
  BY WorkerExecutes DEF IInv
<1>1. Start \/ AskForTask \/ DenyByRule \/ Refuse
  BY DEF Admits, DeferBatch, Execute
<1>2. CASE Start
  BY <1>0, <1>2 DEF TypeOK, Start, To, Inside
<1>3. CASE AskForTask
  BY <1>0, <1>3, NoRowAssumption DEF TypeOK, AskForTask, Returns, Forgets, To, Inside, Outside
<1>4. CASE DenyByRule
  <2>1. approval' \in Rows /\ approval'.index = approval.index /\ approval \in Rows
    BY <1>0, <1>4, Written DEF DenyByRule, Deciding, IInv, RowsRead
  <2> QED
    BY <1>0, <1>4, <2>1 DEF TypeOK, DenyByRule, To, Inside, Outside
<1>5. CASE Refuse
  BY <1>0, <1>5, NoRowAssumption
     DEF TypeOK, Refuse, Completes, Returns, Forgets, To, Inside, Outside
<1> QED
  BY <1>1, <1>2, <1>3, <1>4, <1>5

LEMMA ShutWalks == ASSUME IInv, Shut, NEW w \in Executors, Walks(w) \/ Crash(w) PROVE Shut'
<1> USE DEF Shut
<1>0. TypeOK
  BY DEF IInv
<1>1. Denied(w) \/ Leave(w) \/ Crash(w)
  <2>1. pc[w] \notin Inside
    OBVIOUS
  <2> QED
    BY <2>1
       DEF Walks, Inside, Cancelled, NotCancelled, AtBoundary, AskForStep, Park, PrepareFails,
           PassOver, BeginStep, StepOver, Fallback, Deferred, StepFailed, Breaks, AllOver,
           Review, GitActions, Succeed, LeavePaused, LeaveCancelled, EnqueueDeferred,
           CompleteDeferred, Fail
<1>2. CASE Denied(w)
  BY <1>0, <1>2, NoRowAssumption
     DEF TypeOK, Denied, Completes, Returns, Forgets, To, Inside, Outside
<1>3. CASE Leave(w)
  BY <1>0, <1>3 DEF TypeOK, Leave, To, Inside
<1>4. CASE Crash(w)
  BY <1>0, <1>4, NoRowAssumption DEF TypeOK, Crash, Forgets, To, Inside
<1> QED
  BY <1>1, <1>2, <1>3, <1>4

LEMMA ShutDecides ==
    ASSUME IInv, Shut, NEW a \in Approvers, Read(a) \/ Decides(a), Blocked(GatesOf(entry))
    PROVE  Shut'
<1> USE DEF Shut
<1>0. TypeOK /\ a \in Executors
  BY WorkerExecutes DEF IInv
<1>1. CASE Read(a)
  BY <1>0, <1>1 DEF TypeOK, Read, To, Inside, Outside
<1>2. CASE Deny(a) \/ Approve(a)
  <2>1. approval' \in Rows /\ approval'.index = approval.index /\ approval \in Rows
    BY <1>0, <1>2, Written DEF Deny, Approve, Deciding, IInv, RowsRead
  <2> QED
    BY <1>0, <1>2, <2>1 DEF TypeOK, Deny, Approve, To, Inside, Outside
<1>3. CASE RefuseApproved(a)
  BY <1>0, <1>3, NoRowAssumption
     DEF TypeOK, RefuseApproved, Completes, Returns, Forgets, To, Inside, Outside
<1>4. ~ExecuteApproved(a)
  <2>1. Blocked({"cve", "licence"})
    BY DEF Blocked, GatesOf
  <2>2. pc[a] = "admitApproved" => seen[a].index = 0
    BY <1>0 DEF IInv, RowsRead, Deciding
  <2> QED
    BY <2>1, <2>2 DEF ExecuteApproved
<1> QED
  BY <1>1, <1>2, <1>3, <1>4 DEF Decides

LEMMA NextShut == IInv /\ ShutInv /\ [Next]_vars => ShutInv'
<1> SUFFICES ASSUME IInv, ShutInv, [Next]_vars, Blocked(GatesOf(entry))' PROVE Shut'
  BY DEF ShutInv
<1>1. Blocked(GatesOf(entry)) /\ Shut
  BY DEF ShutInv, Blocked, GatesOf, Next, Admits, Start, AskForTask, DenyByRule, Refuse,
         DeferBatch, Execute, Walks, Crash, Read, Decides, Cancel, Outside, Cancelled,
         NotCancelled, AskForStep, Park, PrepareFails, PassOver, BeginStep, StepOver,
         Fallback, Deferred, StepFailed, AllOver, Review, GitActions, Succeed, LeavePaused,
         LeaveCancelled, EnqueueDeferred, CompleteDeferred, Fail, Denied, Leave, Deny,
         Approve, RefuseApproved, ExecuteApproved
<1>2. CASE Cancel \/ UNCHANGED vars
  BY <1>1, <1>2 DEF Cancel, Shut
<1> QED
  BY <1>1, <1>2, ShutAdmits, ShutWalks, ShutDecides DEF Next

(* A task that a gate of its caller finds against is never started, by     *)
(* that caller or by one that takes the run up after an approval: for POST *)
(* /v1/runs, which does not look at licences, that is the CVE gate         *)
(* (_run_task_body, _run_async_task, run_approved).                        *)
THEOREM GateOfCallerHolds == Spec => [](Blocked(GatesOf(entry)) => ran = {})
<1>1. Init => ShutInv
  BY NoRowAssumption DEF Init, ShutInv, Shut, Inside
<1>2. ShutInv => (Blocked(GatesOf(entry)) => ran = {})
  BY DEF ShutInv, Shut
<1> QED
  BY <1>1, <1>2, NextShut, IInvAlways, PTL DEF Spec

(* What is said of every caller, "no run-level gate is weaker than sync    *)
(* POST /v1/run", holds of the synchronous one and of run_approved after   *)
(* it.                                                                     *)
THEOREM NoGateIsWeakerSync == Spec => [](entry = "sync" => NoGateIsWeaker)
<1>1. (Blocked(GatesOf(entry)) => ran = {}) => (entry = "sync" => NoGateIsWeaker)
  BY DEF GatesOf, NoGateIsWeaker
<1> QED
  BY <1>1, GateOfCallerHolds, PTL

-----------------------------------------------------------------------------
(* How late a cancel may be met.  The event is set once: when the registry *)
(* has lost the run it never has it again, and the cancel is forgotten.    *)
(* Until then an executor that began a step since the cancel is past the   *)
(* check, and comes to it before the next.                                 *)

LateInv ==
    /\ registry # "absent" => pc[Worker] # "start"
    /\ registry = "set" => accepted
    /\ pc[Worker] = "start" \/ registry = "clear" => ~accepted
    /\ ~accepted => \A w \in Executors : late[w] = {}
    /\ ~Forgotten =>
          \A w \in Executors : (late[w] # {} => pc[w] # "gate") /\ \A s, t \in late[w] : s = t

(* The steps but four add nothing to `late`, do not let an executor reach  *)
(* the gate while the event is set, and do not set it.                     *)
LEMMA LateKept ==
    ASSUME LateInv, UNCHANGED <<late, accepted>>, registry' \in {registry, "absent"},
           accepted \in BOOLEAN, registry \in {"absent", "clear", "set"},
           pc'[Worker] = "start" => pc[Worker] = "start",
           \A w \in Executors : pc'[w] = "gate" => pc[w] = "gate" \/ registry # "set"
    PROVE  LateInv'
<1>1. ASSUME ~Forgotten', NEW w \in Executors
      PROVE  (late[w] # {} => pc'[w] # "gate") /\ \A s, t \in late[w] : s = t
  <2>1. CASE ~accepted
    BY <2>1 DEF LateInv
  <2>2. CASE accepted
    <3>1. registry = "set" /\ ~Forgotten
      BY <1>1, <2>2 DEF Forgotten, LateInv
    <3> QED
      BY <3>1 DEF LateInv
  <2> QED
    BY <2>1, <2>2
<1> QED
  BY <1>1 DEF LateInv

LEMMA NextLate == IInv /\ LateInv /\ [Next]_vars => LateInv'
<1> SUFFICES ASSUME IInv, LateInv, [Next]_vars PROVE LateInv'
  OBVIOUS
<1> USE WorkerExecutes DEF IInv, TypeOK
<1>1. CASE Start
  BY <1>1 DEF Start, To, LateInv, Forgotten
<1>2. CASE AskForTask \/ DenyByRule \/ Refuse \/ DeferBatch \/ Execute
  <2>1. UNCHANGED <<late, accepted, registry>>
    BY <1>2 DEF AskForTask, DenyByRule, Refuse, DeferBatch, Execute, Outside
  <2>2. /\ pc'[Worker] # "start" /\ pc'[Worker] # "gate"
        /\ \A w \in Executors \ {Worker} : pc'[w] = pc[w]
    BY <1>2 DEF AskForTask, DenyByRule, Refuse, DeferBatch, Execute, Completes, Returns, To,
                Enter, Raises
  <2> QED
    BY <2>1, <2>2, LateKept
<1>3. ASSUME NEW w \in Executors, BeginStep(w) PROVE LateInv'
  <2>1. pc[w] = "gate" /\ UNCHANGED <<accepted, registry>>
    BY <1>3 DEF BeginStep, Outside
  <2>2. pc' = [pc EXCEPT ![w] = "attempt"]
    BY <1>3 DEF BeginStep, Begins, To
  <2>3. late' = IF accepted THEN [late EXCEPT ![w] = @ \cup {at[w]}] ELSE late
    BY <1>3 DEF BeginStep, Begins
  <2>4. Forgotten' = Forgotten
    BY <2>1 DEF Forgotten
  <2> QED
    BY <2>1, <2>2, <2>3, <2>4 DEF LateInv
<1>4. ASSUME NEW w \in Executors, NotCancelled(w) PROVE LateInv'
  BY <1>4, LateKept DEF NotCancelled, Outside, To
<1>5. ASSUME NEW w \in Executors, Walks(w), ~BeginStep(w), ~NotCancelled(w) PROVE LateInv'
  <2>1. UNCHANGED <<late, accepted>> /\ registry' \in {registry, "absent"}
    BY <1>5
       DEF Walks, Cancelled, AskForStep, Park, PrepareFails, PassOver, StepOver, Fallback,
           Deferred, StepFailed, AllOver, Review, GitActions, Succeed, LeavePaused,
           LeaveCancelled, EnqueueDeferred, CompleteDeferred, Fail, Denied, Leave, Outside
  <2>2. /\ pc'[w] \notin {"start", "gate"} /\ \A v \in Executors \ {w} : pc'[v] = pc[v]
    BY <1>5
       DEF Walks, Cancelled, AskForStep, Park, PrepareFails, PassOver, StepOver, NextStep,
           Fallback, Deferred, StepFailed, AllOver, Review, GitActions, Succeed, LeavePaused,
           LeaveCancelled, EnqueueDeferred, CompleteDeferred, Fail, Denied, Leave, Completes,
           Returns, Raises, To
  <2> QED
    BY <2>1, <2>2, LateKept
<1>6. ASSUME NEW w \in Executors, Crash(w) PROVE LateInv'
  BY <1>6, LateKept DEF Crash, To
<1>7. ASSUME NEW a \in Approvers, Read(a) \/ Decides(a) PROVE LateInv'
  <2>1. UNCHANGED <<late, accepted, registry>>
    BY <1>7 DEF Read, Decides, Deny, Approve, RefuseApproved, ExecuteApproved, Outside
  <2>2. /\ pc'[a] \notin {"start", "gate"} /\ \A v \in Executors \ {a} : pc'[v] = pc[v]
    BY <1>7 DEF Read, Decides, Deny, Approve, RefuseApproved, ExecuteApproved, Completes,
       Returns, Enter, Raises, To
  <2> QED
    BY <2>1, <2>2, LateKept
<1>8. CASE Cancel
  BY <1>8 DEF Cancel, LateInv, Forgotten
<1>9. CASE UNCHANGED vars
  BY <1>9, LateKept
<1> QED
  BY <1>1, <1>2, <1>3, <1>4, <1>5, <1>6, <1>7, <1>8, <1>9 DEF Next, Admits

(* Once a cancel of its run was accepted, an executor begins at most one   *)
(* step, the one whose check it had passed (is_cancel_requested in         *)
(* _execute_task_body), whatever crashes and decisions come in between --  *)
(* until the cancel is forgotten: when the thread of POST /v1/runs, which  *)
(* holds the event, has returned or died.                                  *)
THEOREM CancelledInTime == Spec => []CancelWithinOneStep
<1>1. Init => LateInv
  BY DEF Init, LateInv, Forgotten
<1>2. LateInv => CancelWithinOneStep
  BY DEF LateInv, CancelWithinOneStep
<1> QED
  BY <1>1, <1>2, IInvAlways, NextLate, PTL DEF Spec

-----------------------------------------------------------------------------
(* Once only.  While no decision crosses another step, the run is in one   *)
(* hand at a time: an executor's, or the row's while that is pending.  Who *)
(* has it has every started step behind it, and a run that has ended is in *)
(* no hand that writes its status, but that of an executor on whom it was  *)
(* cancelled.                                                              *)

Waits(w) == pc[w] = "raised" /\ error[w] = "pending"

Holds(w) ==
    /\ pc[w] \in Inside \cup {"start", "admit", "ruleDeny", "deny", "admitApproved"}
    /\ ~Waits(w)

Parks(w) == pc[w] \in {"park", "ruleDeny"}

(* Cancelled, an executor has nothing to write any more, but for           *)
(* run_approved, which takes it for a failure.                             *)
Withdrawn(w) == pc[w] = "raised" /\ error[w] = "cancelled"

(* Every started step is before the one the executor is at.                *)
Past(w) ==
    /\ pc[w] \in {"start", "admit", "ruleDeny"} => ran = {}
    /\ pc[w] \in {"boundary", "gate", "park"} => \A s \in ran : s < at[w]
    /\ pc[w] = "attempt" => \A s \in ran : s <= at[w]
    /\ pc[w] = "admitApproved" =>
          /\ \A s \in ran : s < seen[w].index
          /\ seen[w].index = 0 => ran = {}

PastRow ==
    Pending => (\A s \in ran : s < approval.index) /\ (approval.index = 0 => ran = {})

OneHand ==
    /\ \A v, w \in Executors : Holds(v) /\ Holds(w) => v = w
    /\ \A w \in Executors : Holds(w) /\ Pending => Parks(w)
    /\ \A w \in Executors : Holds(w) => Past(w)
    /\ PastRow
    /\ run \in Terminal => ~Pending /\ \A w \in Executors : Holds(w) => Withdrawn(w)
    /\ \A w \in Executors :
        Withdrawn(w) => run = "cancelled" /\ (w # Worker => "cancel" \in crossed)
    /\ again = {}

OnceInv ==
    /\ registry # "absent" => entry = "async"
    /\ \A w \in Executors : pc[w] \in {"decide", "ruleDeny"} => seen[w].status = "pending"
    /\ Uncrossed => OneHand

(* What crossed once has crossed.                                          *)
LEMMA CrossedGrows == IInv /\ [Next]_vars => crossed \subseteq crossed'
BY DEF Next, Admits, Start, AskForTask, DenyByRule, Refuse, DeferBatch, Execute, Walks,
       Cancelled, NotCancelled, AskForStep, Park, PrepareFails, PassOver, BeginStep, StepOver,
       Fallback, Deferred, StepFailed, AllOver, Review, GitActions, Succeed, LeavePaused,
       LeaveCancelled, EnqueueDeferred, CompleteDeferred, Fail, Denied, Leave, Crash, Read,
       Decides, Deny, Approve, RefuseApproved, ExecuteApproved, Cancel, Outside, Write

(* What the executor that has the run does: the others are left alone, and *)
(* what it has in the end is told by its own state and the row.            *)
LEMMA Hand ==
    ASSUME IInv, OnceInv, Uncrossed, Uncrossed', NEW w \in Executors, Holds(w),
           \A v \in Executors \ {w} : /\ pc'[v] = pc[v] /\ at'[v] = at[v]
                                      /\ seen'[v] = seen[v] /\ error'[v] = error[v],
           UNCHANGED entry, again' = {},
           registry' # "absent" => entry = "async",
           pc'[w] \in {"decide", "ruleDeny"} => seen'[w].status = "pending",
           Holds(w)' /\ Pending' => Parks(w)',
           Holds(w)' => Past(w)',
           PastRow',
           run' \in Terminal => ~Pending' /\ (Holds(w)' => Withdrawn(w)'),
           Withdrawn(w)' => run' = "cancelled" /\ (w # Worker => "cancel" \in crossed')
    PROVE  OnceInv'
<1>1. \A v \in Executors \ {w} : ~Holds(v) /\ ~Holds(v)' /\ ~Withdrawn(v)'
  BY DEF OnceInv, OneHand, Holds, Waits, Withdrawn, Inside
<1>2. OneHand'
  BY <1>1 DEF OneHand
<1> QED
  BY <1>2 DEF OnceInv

(* A step that leaves the run where it is.                                 *)
LEMMA Idle ==
    ASSUME IInv, OnceInv, crossed' = crossed, NEW w \in Executors,
           \A v \in Executors \ {w} : /\ pc'[v] = pc[v] /\ at'[v] = at[v]
                                      /\ seen'[v] = seen[v] /\ error'[v] = error[v],
           ~Holds(w)', pc'[w] = "decide" => seen'[w].status = "pending", pc'[w] # "ruleDeny",
           UNCHANGED <<entry, run, approval, ran, again>>,
           registry' # "absent" => entry = "async"
    PROVE  OnceInv'
<1>a. ~Withdrawn(w)' /\ \A v \in Executors \ {w} : Withdrawn(v)' = Withdrawn(v)
  BY DEF Holds, Waits, Inside, Withdrawn
<1>1. \A v \in Executors : Holds(v)' => v # w /\ Holds(v) /\ Past(v)' = Past(v) /\ Parks(v)' = Parks(v)
                                     /\ Withdrawn(v)' = Withdrawn(v)
  BY DEF Holds, Waits, Past, Parks, Withdrawn
<1>2. Pending' = Pending /\ PastRow' = PastRow
  BY DEF Pending, PastRow
<1>3. ASSUME Uncrossed' PROVE OneHand'
  BY <1>a, <1>1, <1>2, <1>3 DEF OnceInv, OneHand, Uncrossed
<1> QED
  BY <1>3 DEF OnceInv

(* The executor that has the run goes on to what needs no step behind it,  *)
(* or returns.                                                             *)
LEMMA Onward ==
    ASSUME IInv, OnceInv, Uncrossed, Uncrossed', NEW w \in Executors, Holds(w), ~Parks(w),
           NEW l \in {"review", "git", "succeed", "raised", "enqueue", "idle", "leave"}, To(w, l),
           \A v \in Executors \ {w} : /\ at'[v] = at[v] /\ seen'[v] = seen[v]
                                      /\ error'[v] = error[v],
           UNCHANGED <<entry, approval, registry, ran, again>>,
           run' = run \/ l \in {"idle", "leave"} \/ Withdrawn(w)',
           Withdrawn(w) => l \in {"idle", "leave"},
           Withdrawn(w)' => run' = "cancelled" /\ (w # Worker => "cancel" \in crossed')
    PROVE  OnceInv'
<1>1. pc'[w] = l /\ \A v \in Executors \ {w} : pc'[v] = pc[v]
  BY DEF To, IInv, TypeOK
<1>2. ~Pending /\ ~Pending' /\ again' = {} /\ PastRow'
  BY DEF OnceInv, OneHand, Pending, PastRow
<1>3. Holds(w)' => Past(w)' /\ l \notin {"idle", "leave"}
  BY <1>1 DEF Holds, Inside, Past
<1>4. run' \in Terminal => (Holds(w)' => Withdrawn(w)')
  BY <1>3 DEF OnceInv, OneHand
<1>5. pc'[w] \notin {"decide", "ruleDeny"}
  BY <1>1
<1>6. registry' # "absent" => entry = "async"
  BY DEF OnceInv
<1> QED
  BY <1>1, <1>2, <1>3, <1>4, <1>5, <1>6, Hand

LEMMA HolderOpen ==
    ASSUME IInv, OnceInv, Uncrossed, NEW w \in Executors, Holds(w)
    PROVE  /\ ~Parks(w) => ~Pending
           /\ ~Withdrawn(w) => run \notin Terminal
           /\ Past(w) /\ again = {}
BY DEF OnceInv, OneHand

LEMMA OnceAdmits == ASSUME IInv, OnceInv, Admits, Uncrossed, Uncrossed' PROVE OnceInv'
<1> USE WorkerExecutes DEF IInv, TypeOK
<1>a. Holds(Worker)
  BY DEF Admits, Start, AskForTask, DenyByRule, Refuse, DeferBatch, Execute, Holds, Waits,
         Inside
<1>b. ~Withdrawn(Worker) /\ run \notin Terminal /\ ran = {} /\ again = {}
  BY <1>a, HolderOpen DEF Admits, Start, AskForTask, DenyByRule, Refuse, DeferBatch, Execute,
     Withdrawn, Past
<1>c. ~Withdrawn(Worker)'
  <2>1. pc'[Worker] # "raised" \/ error'[Worker] = "error"
    BY DEF Admits, Start, AskForTask, DenyByRule, Refuse, DeferBatch, Execute, Completes,
           Returns, Enter, Raises, To
  <2> QED
    BY <2>1 DEF Withdrawn
<1>1. CASE Start
  <2>1. ~Pending /\ ~Pending' /\ PastRow'
    BY <1>1, <1>a, HolderOpen DEF Start, Parks, Pending, PastRow
  <2>2. pc'[Worker] \in {"idle", "admit"} /\ \A v \in Executors \ {Worker} : pc'[v] = pc[v]
    BY <1>1 DEF Start, To
  <2>3. run' \in Terminal => pc'[Worker] = "idle"
    BY <1>1 DEF Start, To, Terminal
  <2>4. registry' # "absent" => entry = "async"
    BY <1>1 DEF Start, OnceInv
  <2>5. Past(Worker)' /\ (Holds(Worker)' => pc'[Worker] = "admit")
    BY <1>1, <1>b, <2>2 DEF Start, Past, Holds, Inside
  <2> QED
    BY <1>1, <1>a, <1>b, <1>c, <2>1, <2>2, <2>3, <2>4, <2>5, Hand DEF Start
<1>2. CASE AskForTask
  <2>1. approval' = [status |-> "pending", index |-> 0] /\ PastRow' /\ UNCHANGED run
    BY <1>2, <1>b DEF AskForTask, PastRow
  <2>2. /\ pc'[Worker] \in {"idle", "leave", "ruleDeny"}
        /\ pc'[Worker] = "ruleDeny" => seen'[Worker].status = "pending"
        /\ \A v \in Executors \ {Worker} : /\ pc'[v] = pc[v] /\ at'[v] = at[v]
                                           /\ seen'[v] = seen[v] /\ error'[v] = error[v]
    BY <1>2, <2>1 DEF AskForTask, Returns, Forgets, To
  <2>3. Past(Worker)' /\ (Holds(Worker)' => Parks(Worker)')
    BY <1>2, <1>b, <2>2 DEF AskForTask, Past, Holds, Inside, Parks
  <2> QED
    BY <1>2, <1>a, <1>b, <1>c, <2>1, <2>2, <2>3, Hand DEF AskForTask, Outside, OnceInv
<1>3. CASE DenyByRule
  <2>1. ~Pending' /\ PastRow'
    <3>1. approval \in Rows
      BY <1>3 DEF DenyByRule, RowsRead, Deciding
    <3> QED
      BY <1>3, <3>1 DEF DenyByRule, Write, Pending, PastRow, Rows
  <2>2. pc'[Worker] = "deny" /\ \A v \in Executors \ {Worker} : pc'[v] = pc[v]
    BY <1>3 DEF DenyByRule, To
  <2>3. Past(Worker)'
    BY <2>2 DEF Past
  <2> QED
    BY <1>3, <1>a, <1>b, <1>c, <2>1, <2>2, <2>3, Hand DEF DenyByRule, Outside, OnceInv
<1>4. CASE Refuse \/ DeferBatch
  <2>1. PICK l \in {"idle", "leave"} : To(Worker, l)
    BY <1>4 DEF Refuse, DeferBatch, Completes, Returns
  <2> QED
    BY <1>4, <1>a, <1>b, <1>c, <2>1, Onward
       DEF Refuse, DeferBatch, Completes, Returns, Forgets, Outside, Parks
<1>5. CASE Execute
  <2>1. ~Pending /\ ~Pending' /\ PastRow'
    BY <1>5, <1>a, HolderOpen DEF Execute, Outside, Parks, Pending, PastRow
  <2>2. /\ pc'[Worker] \in {"boundary", "raised"}
        /\ \A v \in Executors \ {Worker} : /\ pc'[v] = pc[v] /\ at'[v] = at[v]
                                           /\ seen'[v] = seen[v] /\ error'[v] = error[v]
    BY <1>5 DEF Execute, Enter, Raises, To
  <2>3. Past(Worker)' /\ run' \notin Terminal
    BY <1>5, <1>b, <2>2 DEF Execute, Past, Opens, Terminal
  <2> QED
    BY <1>5, <1>a, <1>b, <1>c, <2>1, <2>2, <2>3, Hand DEF Execute, Outside, OnceInv
<1> QED
  BY <1>1, <1>2, <1>3, <1>4, <1>5 DEF Admits

(* The loop over the steps.                                                *)
LEMMA OnceLoop ==
    ASSUME IInv, OnceInv, Uncrossed, Uncrossed', NEW w \in Executors,
           \/ NotCancelled(w) \/ AskForStep(w) \/ Park(w) \/ BeginStep(w) \/ StepOver(w)
           \/ PassOver(w) \/ Fallback(w)
    PROVE  OnceInv'
<1> USE DEF IInv, TypeOK
<1>a. Holds(w) /\ ~Withdrawn(w) /\ pc[w] \in {"boundary", "gate", "park", "attempt"}
  BY DEF NotCancelled, AtBoundary, AskForStep, Park, PassOver, BeginStep, StepOver, Fallback,
         Holds, Waits, Inside, Withdrawn
<1>b. run \notin Terminal /\ Past(w) /\ again = {} /\ (pc[w] # "park" => ~Pending)
  BY <1>a, HolderOpen DEF Parks
<1>c. at[w] \in Nat /\ ran \subseteq Nat
  BY DEF Steps
<1>d. /\ \A v \in Executors \ {w} : /\ pc'[v] = pc[v] /\ at'[v] = at[v]
                                    /\ seen'[v] = seen[v] /\ error'[v] = error[v]
      /\ UNCHANGED <<entry, registry>>
  BY DEF NotCancelled, AskForStep, Park, Raises, PassOver, BeginStep, Begins, StepOver,
         NextStep, Fallback, Outside, To
<1>e. registry' # "absent" => entry = "async"
  BY <1>d DEF OnceInv
<1>f. ~Withdrawn(w)'
  <2>1. pc'[w] # "raised" \/ error'[w] = "pending"
    BY <1>a DEF NotCancelled, AskForStep, Park, Raises, PassOver, BeginStep, Begins, StepOver,
       NextStep, Fallback, To
  <2> QED
    BY <2>1 DEF Withdrawn
<1>1. CASE NotCancelled(w) \/ Fallback(w)
  <2>1. ~Pending' /\ PastRow' /\ Past(w)' /\ UNCHANGED <<run, again>> /\ pc'[w] \in {"gate", "attempt"}
    BY <1>1, <1>a, <1>b
       DEF NotCancelled, AtBoundary, Fallback, Outside, To, Pending, PastRow, Past
  <2> QED
    BY <1>a, <1>b, <1>d, <1>e, <1>f, <2>1, Hand
<1>2. CASE AskForStep(w)
  <2>1. approval'.index = at[w] /\ at[w] # 0 /\ \A s \in ran : s < at[w]
    BY <1>2, <1>b, <1>c DEF AskForStep, Past
  <2>2. PastRow' /\ Past(w)' /\ UNCHANGED <<run, again>> /\ pc'[w] = "park"
    BY <1>2, <2>1 DEF AskForStep, Outside, To, PastRow, Past
  <2> QED
    BY <1>a, <1>b, <1>d, <1>e, <1>f, <2>2, Hand DEF Parks
<1>3. CASE Park(w)
  <2>1. PastRow' /\ ~Holds(w)' /\ UNCHANGED again /\ run' \notin Terminal /\ pc'[w] = "raised"
    BY <1>3, <1>b DEF Park, Raises, Outside, To, PastRow, Pending, Holds, Waits, Terminal,
       OnceInv, OneHand
  <2> QED
    BY <1>a, <1>b, <1>d, <1>e, <1>f, <2>1, Hand
<1>4. CASE BeginStep(w)
  <2>1. again' = {} /\ ~Pending' /\ PastRow' /\ UNCHANGED run /\ pc'[w] = "attempt"
    BY <1>4, <1>a, <1>b, <1>c DEF BeginStep, Begins, Outside, To, Pending, PastRow, Past
  <2>2. Past(w)'
    BY <1>4, <1>b, <1>c DEF BeginStep, Begins, To, Past
  <2> QED
    BY <1>a, <1>b, <1>d, <1>e, <1>f, <2>1, <2>2, Hand
<1>5. CASE StepOver(w) \/ PassOver(w)
  <2>1. ~Pending' /\ PastRow' /\ UNCHANGED <<run, again>> /\ pc'[w] = "boundary"
    BY <1>5, <1>a, <1>b DEF StepOver, PassOver, NextStep, Outside, To, Pending, PastRow
  <2>2. Past(w)'
    <3>1. /\ pc[w] \in {"gate", "attempt"} /\ pc'[w] = "boundary"
          /\ at'[w] = at[w] + 1 /\ UNCHANGED ran
      BY <1>5 DEF StepOver, PassOver, NextStep, To
    <3>2. \A s \in ran : s <= at[w]
      BY <1>b, <1>c, <3>1 DEF Past
    <3> QED
      BY <1>c, <3>1, <3>2 DEF Past
  <2> QED
    BY <1>a, <1>b, <1>d, <1>e, <1>f, <2>1, <2>2, Hand
<1> QED
  BY <1>1, <1>2, <1>3, <1>4, <1>5

(* What ends a walk.                                                       *)
LEMMA OnceEnds ==
    ASSUME IInv, OnceInv, Uncrossed, Uncrossed', NEW w \in Executors,
           \/ Cancelled(w) \/ PrepareFails(w) \/ Deferred(w) \/ StepFailed(w) \/ AllOver(w)
           \/ Review(w)
           \/ GitActions(w) \/ Succeed(w) \/ LeaveCancelled(w) \/ EnqueueDeferred(w)
           \/ CompleteDeferred(w) \/ Fail(w) \/ Denied(w) \/ RefuseApproved(w)
    PROVE  OnceInv'
<1> USE DEF IInv, TypeOK
<1>a. Holds(w) /\ ~Parks(w) /\ UNCHANGED <<entry, approval, registry, ran, again>>
  BY DEF Cancelled, AtBoundary, PrepareFails, Deferred, StepFailed, Breaks, AllOver, Review,
         GitActions, Succeed, LeaveCancelled, EnqueueDeferred, CompleteDeferred, Fail, Denied,
         RefuseApproved, Completes, Returns, Outside, Holds, Waits, Inside, Parks
<1>1. CASE \/ PrepareFails(w) \/ Deferred(w) \/ StepFailed(w) \/ AllOver(w) \/ Review(w)
           \/ GitActions(w) \/ EnqueueDeferred(w)
  <2>1. PICK l \in {"review", "git", "succeed", "raised", "enqueue"} : To(w, l)
    BY <1>1
       DEF PrepareFails, Deferred, StepFailed, AllOver, Review, GitActions, EnqueueDeferred,
           Raises
  <2>2. ~Withdrawn(w) /\ UNCHANGED run
    BY <1>1
       DEF PrepareFails, Deferred, StepFailed, Breaks, AllOver, Review, GitActions,
           EnqueueDeferred, Withdrawn, Outside
  <2>3. \A v \in Executors \ {w} : /\ at'[v] = at[v] /\ seen'[v] = seen[v] /\ error'[v] = error[v]
    BY <1>1
       DEF PrepareFails, Deferred, StepFailed, AllOver, Review, GitActions, EnqueueDeferred,
           Raises
  <2>4. ~Withdrawn(w)'
    <3>1. pc'[w] # "raised" \/ error'[w] \in {"deferred", "error"}
      BY <1>1
         DEF PrepareFails, Deferred, StepFailed, AllOver, Review, GitActions, EnqueueDeferred,
             Raises, To
    <3> QED
      BY <3>1 DEF Withdrawn
  <2> QED
    BY <1>a, <2>1, <2>2, <2>3, <2>4, Onward
<1>2. CASE Cancelled(w)
  <2>1. To(w, "raised") /\ Withdrawn(w)' /\ ~Withdrawn(w)
    BY <1>2 DEF Cancelled, AtBoundary, Raises, To, Withdrawn
  <2>2. run' = "cancelled" /\ (w # Worker => "cancel" \in crossed')
    BY <1>2 DEF Cancelled
  <2>3. \A v \in Executors \ {w} : /\ at'[v] = at[v] /\ seen'[v] = seen[v] /\ error'[v] = error[v]
    BY <1>2 DEF Cancelled, Raises
  <2> QED
    BY <1>a, <2>1, <2>2, <2>3, Onward
<1>3. CASE \/ Succeed(w) \/ LeaveCancelled(w) \/ CompleteDeferred(w) \/ Fail(w) \/ Denied(w)
           \/ RefuseApproved(w)
  <2>1. PICK l \in {"idle", "leave"} : To(w, l)
    BY <1>3
       DEF Succeed, LeaveCancelled, CompleteDeferred, Fail, Denied, RefuseApproved, Completes,
           Returns
  <2>2. \A v \in Executors \ {w} : /\ at'[v] = at[v] /\ seen'[v] = seen[v] /\ error'[v] = error[v]
    BY <1>3
       DEF Succeed, LeaveCancelled, CompleteDeferred, Fail, Denied, RefuseApproved, Completes,
           Returns, Forgets
  <2>3. ~Withdrawn(w)'
    BY <2>1 DEF To, Withdrawn
  <2> QED
    BY <1>a, <2>1, <2>2, <2>3, Onward
<1> QED
  BY <1>1, <1>2, <1>3

(* A decision that crosses nothing finds the run in no executor's hand.    *)
LEMMA NobodyHolds ==
    ASSUME IInv, OnceInv, Uncrossed, Uncrossed', NEW a \in Approvers, pc[a] = "decide",
           NEW decision, Write(a, decision)
    PROVE  /\ \A v \in Executors : ~Holds(v)
           /\ Pending /\ approval = seen[a]
<1>1. a \in Executors /\ seen[a] \in Rows /\ seen[a].status = "pending"
  BY WorkerExecutes DEF IInv, RowsRead, Deciding, OnceInv
<1>2. approval = seen[a] /\ ~\E v \in Executors \ {a} : pc[v] \in {"park", "ruleDeny"}
  BY DEF Write, Uncrossed
<1>3. Pending
  BY <1>1, <1>2, NoRowAssumption DEF Pending
<1>4. \A v \in Executors : ~Holds(v)
  BY <1>2, <1>3 DEF OnceInv, OneHand, Parks, Holds, Inside
<1> QED
  BY <1>2, <1>3, <1>4

LEMMA OnceDecides ==
    ASSUME IInv, OnceInv, Uncrossed, Uncrossed', NEW a \in Approvers, Deny(a) \/ Approve(a)
    PROVE  OnceInv'
<1> USE DEF IInv, TypeOK
<1>1. a \in Executors /\ pc[a] = "decide" /\ \E decision : Write(a, decision)
  BY WorkerExecutes DEF Deny, Approve
<1>2. (\A v \in Executors : ~Holds(v)) /\ Pending /\ approval = seen[a]
  BY <1>1, NobodyHolds
<1>3. /\ pc'[a] \in {"deny", "admitApproved"}
      /\ \A v \in Executors \ {a} : pc'[v] = pc[v]
      /\ UNCHANGED <<entry, registry, run, at, seen, error, ran, again>>
  BY <1>1 DEF Deny, Approve, Outside, To
<1>4. ~Pending' /\ PastRow'
  <2>1. approval \in Rows
    BY <1>2 DEF Pending
  <2> QED
    BY <2>1 DEF Deny, Approve, Write, Pending, PastRow, Rows
<1>5. run \notin Terminal /\ again = {} /\ PastRow
  BY <1>2 DEF OnceInv, OneHand
<1>6. \A v \in Executors : (Holds(v)' => v = a) /\ ~Withdrawn(v)'
  BY <1>2, <1>3 DEF Holds, Waits, Withdrawn, Inside
<1>7. Past(a)'
  BY <1>2, <1>3, <1>5 DEF Past, PastRow
<1>8. OneHand'
  BY <1>3, <1>4, <1>5, <1>6, <1>7 DEF OneHand
<1> QED
  BY <1>3, <1>8 DEF OnceInv

LEMMA OnceResumes ==
    ASSUME IInv, OnceInv, Uncrossed, Uncrossed', NEW a \in Approvers, ExecuteApproved(a)
    PROVE  OnceInv'
<1> USE DEF IInv, TypeOK
<1>1. a \in Executors /\ Holds(a) /\ ~Withdrawn(a) /\ ~Parks(a) /\ seen[a] \in Rows
  BY WorkerExecutes DEF ExecuteApproved, Holds, Waits, Withdrawn, Parks, RowsRead, Deciding
<1>2. run \notin Terminal /\ Past(a) /\ again = {} /\ ~Pending
  BY <1>1, HolderOpen
<1>3. /\ pc'[a] \in {"boundary", "raised"}
      /\ at'[a] = IF seen[a].index = 0 THEN 1 ELSE seen[a].index
      /\ \A v \in Executors \ {a} : /\ pc'[v] = pc[v] /\ at'[v] = at[v]
                                    /\ seen'[v] = seen[v] /\ error'[v] = error[v]
      /\ UNCHANGED <<entry, registry, run, approval, ran, again>>
  BY <1>1 DEF ExecuteApproved, Enter, Raises, Outside, To
<1>4. ~Pending' /\ PastRow'
  BY <1>2, <1>3 DEF Pending, PastRow
<1>5. Past(a)'
  BY <1>2, <1>3 DEF Past, ExecuteApproved
<1>6. ~Withdrawn(a)'
  <2>1. pc'[a] # "raised" \/ error'[a] = "error"
    BY <1>1 DEF ExecuteApproved, Enter, Raises, To
  <2> QED
    BY <2>1 DEF Withdrawn
<1> QED
  BY <1>1, <1>2, <1>3, <1>4, <1>5, <1>6, Hand DEF OnceInv

LEMMA OnceElse ==
    ASSUME IInv, OnceInv, NEW w \in Executors,
           LeavePaused(w) \/ Leave(w) \/ Crash(w) \/ Read(w)
    PROVE  OnceInv'
<1> USE DEF IInv, TypeOK
<1>1. /\ crossed' = crossed /\ UNCHANGED <<entry, run, approval, ran, again>>
      /\ registry' \in {registry, "absent"}
  BY DEF LeavePaused, Leave, Crash, Read, Returns, Outside
<1>2. /\ pc'[w] \in {"idle", "leave", "decide"}
      /\ pc'[w] = "decide" => seen'[w].status = "pending"
      /\ \A v \in Executors \ {w} : /\ pc'[v] = pc[v] /\ at'[v] = at[v]
                                    /\ seen'[v] = seen[v] /\ error'[v] = error[v]
  BY DEF LeavePaused, Leave, Crash, Read, Returns, Forgets, To, Pending
<1>3. ~Holds(w)'
  BY <1>2 DEF Holds, Inside
<1>4. registry' # "absent" => entry = "async"
  BY <1>1 DEF OnceInv
<1> QED
  BY <1>1, <1>2, <1>3, <1>4, Idle

(* The parts of OnceInv that do not depend on `crossed`.                   *)
LEMMA OnceAlways ==
    ASSUME IInv, OnceInv, Next
    PROVE  /\ registry' # "absent" => entry' = "async"
           /\ \A w \in Executors : pc'[w] \in {"decide", "ruleDeny"} => seen'[w].status = "pending"
<1> USE WorkerExecutes DEF IInv, TypeOK, OnceInv
<1>1. CASE Admits
  BY <1>1 DEF Admits, Start, AskForTask, DenyByRule, Refuse, DeferBatch, Execute, Completes,
     Returns, Forgets, Enter, Raises, Outside, To
<1>2. ASSUME NEW w \in Executors, Walks(w) \/ Crash(w)
      PROVE  /\ registry' # "absent" => entry' = "async"
             /\ pc'[w] \notin {"decide", "ruleDeny"}
             /\ \A v \in Executors \ {w} : pc'[v] = pc[v] /\ seen'[v] = seen[v]
  BY <1>2
     DEF Walks, Cancelled, NotCancelled, AskForStep, Park, PrepareFails, PassOver, BeginStep,
         Begins, StepOver, NextStep, Fallback, Deferred, StepFailed, Breaks, AllOver, Review,
         GitActions, Succeed, LeavePaused, LeaveCancelled, EnqueueDeferred, CompleteDeferred,
         Fail, Denied, Leave, Crash, Completes, Returns, Forgets, Raises, Outside, To
<1>3. ASSUME NEW a \in Approvers, Read(a) \/ Decides(a)
      PROVE  /\ registry' # "absent" => entry' = "async"
             /\ pc'[a] \in {"decide", "ruleDeny"} => seen'[a].status = "pending"
             /\ \A v \in Executors \ {a} : pc'[v] = pc[v] /\ seen'[v] = seen[v]
  BY <1>3 DEF Read, Pending, Decides, Deny, Approve, RefuseApproved, ExecuteApproved, Completes,
     Returns, Forgets, Enter, Raises, Outside, To
<1>4. CASE Cancel
  BY <1>4 DEF Cancel
<1> QED
  BY <1>1, <1>2, <1>3, <1>4 DEF Next

LEMMA NextOnce == IInv /\ OnceInv /\ [Next]_vars => OnceInv'
<1> SUFFICES ASSUME IInv, OnceInv, [Next]_vars PROVE OnceInv'
  OBVIOUS
<1>1. CASE Next /\ ~Uncrossed'
  BY <1>1, OnceAlways DEF OnceInv
<1>2. CASE Next /\ Uncrossed'
  <2>1. Uncrossed
    BY <1>2, CrossedGrows DEF Uncrossed
  <2>2. CASE Admits
    BY <1>2, <2>1, <2>2, OnceAdmits
  <2>3. CASE \E w \in Executors : Walks(w) \/ Crash(w)
    BY <1>2, <2>1, <2>3, OnceLoop, OnceEnds, OnceElse DEF Walks
  <2>4. CASE \E a \in Approvers : Read(a) \/ Decides(a)
    BY <1>2, <2>1, <2>4, OnceDecides, OnceResumes, OnceEnds, OnceElse, WorkerExecutes
       DEF Decides
  <2>5. CASE Cancel
    BY <2>5
       DEF Cancel, Uncrossed, OnceInv, OneHand, Holds, Waits, Parks, Withdrawn, Past, PastRow,
           Pending
  <2> QED
    BY <1>2, <2>2, <2>3, <2>4, <2>5 DEF Next
<1>3. CASE UNCHANGED vars
  BY <1>3
     DEF Uncrossed, OnceInv, OneHand, Holds, Waits, Parks, Withdrawn, Past, PastRow, Pending
<1> QED
  BY <1>1, <1>2, <1>3

LEMMA OnceAlwaysHolds == Spec => []OnceInv
<1>1. Init => OnceInv
  BY WorkerExecutes
     DEF Init, OnceInv, OneHand, Holds, Waits, Inside, Parks, Withdrawn, Past, PastRow,
         Pending, Terminal
<1> QED
  BY <1>1, IInvAlways, NextOnce, PTL DEF Spec

(* While decisions are taken on the row as it was read and on a run that   *)
(* is parked, no step is started twice (run_approved resumes at the step   *)
(* that asked), with any number of approvers and crashes, and whenever the *)
(* run is cancelled.                                                       *)
THEOREM StartsOnce == Spec => []StepsOnce
<1>1. OnceInv => StepsOnce
  BY DEF OnceInv, OneHand, StepsOnce
<1> QED
  BY <1>1, OnceAlwaysHolds, PTL

(* ... and what a run ended with is not overwritten (complete_run in       *)
(* run_task, _run_async_task and run_approved), but for one case: a run    *)
(* that was cancelled under run_approved is said to have failed.           *)
THEOREM EndsForGood == Spec => EndsOnce
<1>1. IInv /\ OnceInv /\ [Next]_vars =>
         [(run \in Terminal /\ Uncrossed') => (run' = run \/ TakenForFailure)]_vars
  <2> SUFFICES ASSUME IInv, OnceInv, Next, run \in Terminal, Uncrossed', ~TakenForFailure
               PROVE  run' = run
    OBVIOUS
  <2>0. OneHand
    BY CrossedGrows DEF OnceInv, Uncrossed
  <2>1. \A w \in Executors : Holds(w) => Withdrawn(w)
    BY <2>0 DEF OneHand
  <2>2. CASE Admits
    BY <2>1, <2>2, WorkerExecutes
       DEF Admits, Start, AskForTask, DenyByRule, Refuse, DeferBatch, Execute, Holds, Waits,
           Inside, Withdrawn
  <2>3. ASSUME NEW w \in Executors, Fail(w) PROVE FALSE
    <3>1. Holds(w) /\ run' = "failed"
      BY <2>3 DEF Fail, Completes, Holds, Waits, Inside
    <3>2. Withdrawn(w) /\ w # Worker
      BY <2>1, <2>3, <3>1 DEF Fail, Withdrawn
    <3> QED
      BY <2>0, <3>1, <3>2 DEF OneHand, TakenForFailure
  <2>4. ASSUME NEW w \in Executors, Walks(w) \/ Crash(w) PROVE run' = run
    BY <2>1, <2>3, <2>4
       DEF Walks, Cancelled, AtBoundary, NotCancelled, AskForStep, Park, PrepareFails,
           PassOver, BeginStep, StepOver, Fallback, Deferred, StepFailed, AllOver, Review,
           GitActions, Succeed, LeavePaused, LeaveCancelled, EnqueueDeferred,
           CompleteDeferred, Denied, Leave, Crash, Outside, Holds, Waits, Inside, Withdrawn
  <2>5. ASSUME NEW a \in Approvers, Read(a) \/ Decides(a) PROVE run' = run
    BY <2>1, <2>5, WorkerExecutes
       DEF Read, Decides, Deny, Approve, RefuseApproved, ExecuteApproved, Outside, Holds, Waits,
           Inside, Withdrawn
  <2> QED
    BY <2>2, <2>4, <2>5 DEF Next, Cancel
<1> QED
  BY <1>1, IInvAlways, OnceAlwaysHolds, PTL DEF Spec, EndsOnce

-----------------------------------------------------------------------------
(* Never left lying.  An executor that neither waits for a person nor was  *)
(* cancelled leaves its call only with a status that ends the run, or with *)
(* a row that waits; whoever decides that row is at work himself.  None of *)
(* this asks for the run to be in one hand.                                *)

Excused == crashes > 0 \/ "early" \in crossed \/ task.batched

(* The cancelled worker does nothing more.                                 *)
Spent(w) == w = Worker /\ entry = "async" /\ pc[w] = "raised" /\ error[w] = "cancelled"

Busy(w) == AtWork(w) /\ ~Waits(w) /\ ~Spent(w)

Settled == run = "none" \/ run \in Terminal \/ Pending

Tended ==
    /\ run = "none" => pc[Worker] = "start"
    /\ \A w \in Executors : pc[w] = "park" => Pending
    /\ Settled \/ \E w \in Executors : Busy(w)

TendedInv == Excused \/ Tended

(* One executor acts: it is busy then, or the run has ended or waits, or   *)
(* it was not what kept the run.                                           *)
LEMMA Tends ==
    ASSUME Tended, NEW w \in Executors,
           \A v \in Executors \ {w} : pc'[v] = pc[v] /\ error'[v] = error[v],
           UNCHANGED entry,
           run' = "none" => run = "none" /\ pc[w] # "start",
           pc'[w] = "park" => Pending',
           Pending' \/ ~Pending \/ \A v \in Executors \ {w} : pc[v] # "park",
           Busy(w)' \/ Settled' \/ (~Busy(w) /\ (Settled => Settled'))
    PROVE  Tended'
<1>1. \A v \in Executors \ {w} : Busy(v)' = Busy(v)
  BY DEF Busy, AtWork, Waits, Spent
<1>2. Settled' \/ \E v \in Executors : Busy(v)'
  BY <1>1 DEF Tended
<1>3. \A v \in Executors : pc'[v] = "park" => Pending'
  BY DEF Tended, Settled
<1> QED
  BY <1>2, <1>3, WorkerExecutes DEF Tended

LEMMA TendsAdmits == ASSUME IInv, Tended, Admits, ~Excused' PROVE Tended'
<1> USE WorkerExecutes DEF IInv, TypeOK
<1>1. UNCHANGED entry /\ \A v \in Executors \ {Worker} : pc'[v] = pc[v] /\ error'[v] = error[v]
  BY DEF Admits, Start, AskForTask, DenyByRule, Refuse, DeferBatch, Execute, Completes, Returns,
         Forgets, Enter, Raises, Outside, To
<1>2. CASE Start
  <2>1. run' # "none" /\ pc'[Worker] \in {"idle", "admit"} /\ (run' \in Terminal \/ pc'[Worker] = "admit")
    BY <1>2 DEF Start, To, Terminal
  <2>2. Settled' \/ Busy(Worker)'
    BY <2>1 DEF Settled, Busy, AtWork, Waits, Spent
  <2>3. Pending' = Pending
    BY <1>2 DEF Start, Pending
  <2> QED
    BY <1>1, <2>1, <2>2, <2>3, Tends
<1>3. CASE AskForTask
  <2>1. Pending' /\ UNCHANGED run /\ pc[Worker] # "start"
    BY <1>3, NoRowAssumption, StepsAssumption DEF AskForTask, Pending, Rows
  <2> QED
    BY <1>1, <2>1, Tends DEF Settled
<1>4. CASE DenyByRule
  <2>1. UNCHANGED run /\ pc[Worker] # "start" /\ pc'[Worker] = "deny"
    BY <1>4 DEF DenyByRule, Outside, To
  <2>2. \A v \in Executors \ {Worker} : pc[v] # "park"
    BY <1>4 DEF DenyByRule, Write, Excused
  <2> QED
    BY <1>1, <2>1, <2>2, Tends DEF Busy, AtWork, Waits, Spent
<1>5. CASE Refuse
  <2>1. run' = "failed" /\ pc'[Worker] # "park" /\ UNCHANGED approval
    BY <1>5 DEF Refuse, Completes, Returns, To
  <2> QED
    BY <1>1, <2>1, Tends DEF Settled, Terminal, Pending
<1>6. CASE DeferBatch
  BY <1>6 DEF DeferBatch, Excused
<1>7. CASE Execute
  <2>1. pc[Worker] # "start" /\ pc'[Worker] \in {"boundary", "raised"} /\ UNCHANGED approval
    BY <1>7 DEF Execute, Enter, Raises, Outside, To
  <2>2. run' = "none" => run = "none"
    BY <1>7 DEF Execute, Opens
  <2>3. pc'[Worker] = "raised" => error'[Worker] = "error"
    BY <1>7 DEF Execute, Enter, Raises, To
  <2> QED
    BY <1>1, <2>1, <2>2, <2>3, Tends DEF Busy, AtWork, Waits, Spent, Pending
<1> QED
  BY <1>2, <1>3, <1>4, <1>5, <1>6, <1>7 DEF Admits

LEMMA TendsWalks == ASSUME IInv, Tended, NEW w \in Executors, Walks(w), ~Excused' PROVE Tended'
<1> USE DEF IInv, TypeOK
<1>1. /\ UNCHANGED entry /\ \A v \in Executors \ {w} : pc'[v] = pc[v] /\ error'[v] = error[v]
      /\ pc[w] # "start"
  BY DEF Walks, Cancelled, AtBoundary, NotCancelled, AskForStep, Park, PrepareFails, PassOver,
         BeginStep, Begins, StepOver, NextStep, Fallback, Deferred, StepFailed, Breaks,
         AllOver, Review, GitActions, Succeed, LeavePaused, LeaveCancelled, EnqueueDeferred,
         CompleteDeferred, Fail, Denied, Leave, Completes, Returns, Forgets, Raises, Outside,
         To
<1>2. CASE AskForStep(w)
  <2>1. Pending' /\ UNCHANGED run
    <3>1. at[w] \in Steps
      BY <1>2 DEF AskForStep, AtStep, AtLabels
    <3>2. approval' \in Rows /\ approval'.status = "pending" /\ UNCHANGED run
      BY <1>2, <3>1 DEF AskForStep, Outside, Rows, Steps
    <3> QED
      BY <3>2, NoRowAssumption DEF Pending
  <2> QED
    BY <1>1, <2>1, Tends DEF Settled
<1>3. CASE Park(w)
  <2>1. Pending /\ Pending' /\ run' = "paused" /\ pc'[w] = "raised"
    BY <1>3 DEF Park, Raises, Outside, To, Pending, Tended
  <2> QED
    BY <1>1, <2>1, Tends DEF Settled
<1>4. CASE \/ NotCancelled(w) \/ PassOver(w) \/ BeginStep(w) \/ StepOver(w) \/ Fallback(w)
           \/ AllOver(w)
  <2>1. /\ UNCHANGED <<run, approval>>
        /\ pc'[w] \in {"gate", "attempt", "boundary", "review", "git"}
    BY <1>4
       DEF NotCancelled, PassOver, BeginStep, Begins, StepOver, NextStep, Fallback, AllOver,
           Outside, To
  <2> QED
    BY <1>1, <2>1, Tends DEF Busy, AtWork, Waits, Spent, Pending
<1>5. CASE \/ PrepareFails(w) \/ Deferred(w) \/ StepFailed(w) \/ Review(w) \/ GitActions(w)
           \/ EnqueueDeferred(w)
  <2>1. /\ UNCHANGED <<run, approval>>
        /\ pc'[w] \in {"raised", "git", "succeed", "enqueue"}
        /\ pc'[w] = "raised" => error'[w] \in {"deferred", "error"}
    BY <1>5
       DEF PrepareFails, Deferred, StepFailed, Review, GitActions, EnqueueDeferred, Raises,
           Outside, To
  <2> QED
    BY <1>1, <2>1, Tends DEF Busy, AtWork, Waits, Spent, Pending
<1>6. CASE \/ Cancelled(w) \/ Succeed(w) \/ CompleteDeferred(w) \/ Fail(w) \/ Denied(w)
  <2>1. run' \in Terminal /\ UNCHANGED approval /\ pc'[w] # "park" /\ run' # "none"
    BY <1>6 DEF Cancelled, Succeed, CompleteDeferred, Fail, Denied, Completes, Returns, Raises,
       Outside, To, Terminal
  <2> QED
    BY <1>1, <2>1, Tends DEF Settled, Pending
<1>7. CASE LeavePaused(w) \/ LeaveCancelled(w) \/ Leave(w)
  <2>1. ~Busy(w) /\ pc'[w] # "park" /\ UNCHANGED <<run, approval>>
    BY <1>7
       DEF LeavePaused, LeaveCancelled, Leave, Returns, Outside, To, Busy, AtWork, Waits,
           Spent
  <2> QED
    BY <1>1, <2>1, Tends DEF Settled, Pending
<1> QED
  BY <1>2, <1>3, <1>4, <1>5, <1>6, <1>7 DEF Walks

LEMMA TendsDecides ==
    ASSUME IInv, Tended, NEW a \in Approvers, Read(a) \/ Decides(a), ~Excused' PROVE Tended'
<1> USE WorkerExecutes DEF IInv, TypeOK
<1>1. /\ UNCHANGED entry /\ \A v \in Executors \ {a} : pc'[v] = pc[v] /\ error'[v] = error[v]
      /\ pc[a] # "start" /\ pc'[a] # "park" /\ a \in Executors
  BY DEF Read, Decides, Deny, Approve, RefuseApproved, ExecuteApproved, Completes, Returns,
         Forgets, Enter, Raises, Outside, To
<1>2. CASE Read(a)
  <2>1. ~Busy(a) /\ UNCHANGED <<run, approval>>
    BY <1>2 DEF Read, Outside, Busy, AtWork
  <2> QED
    BY <1>1, <2>1, Tends DEF Settled, Pending
<1>3. CASE Deny(a) \/ Approve(a)
  <2>1. UNCHANGED run /\ pc'[a] \in {"deny", "admitApproved"}
    BY <1>1, <1>3 DEF Deny, Approve, Outside, To
  <2>2. \A v \in Executors \ {a} : pc[v] # "park"
    BY <1>3 DEF Deny, Approve, Write, Excused
  <2> QED
    BY <1>1, <2>1, <2>2, Tends DEF Busy, AtWork, Waits, Spent
<1>4. CASE RefuseApproved(a)
  <2>1. run' = "failed" /\ UNCHANGED approval
    BY <1>4 DEF RefuseApproved, Completes
  <2> QED
    BY <1>1, <2>1, Tends DEF Settled, Terminal, Pending
<1>5. CASE ExecuteApproved(a)
  <2>1. /\ pc'[a] \in {"boundary", "raised"} /\ UNCHANGED <<run, approval>>
        /\ pc'[a] = "raised" => error'[a] = "error"
    BY <1>1, <1>5 DEF ExecuteApproved, Enter, Raises, Outside, To
  <2> QED
    BY <1>1, <2>1, Tends DEF Busy, AtWork, Waits, Spent, Pending
<1> QED
  BY <1>2, <1>3, <1>4, <1>5 DEF Decides

LEMMA NextTended == IInv /\ TendedInv /\ [Next]_vars => TendedInv'
<1> SUFFICES ASSUME IInv, TendedInv, [Next]_vars, ~Excused' PROVE Tended'
  BY DEF TendedInv
<1>1. CASE UNCHANGED vars
  BY <1>1 DEF TendedInv, Tended, Excused, Settled, Pending, Busy, AtWork, Waits, Spent
<1>2. CASE Next
  <2>1. ASSUME NEW w \in Executors, Crash(w) PROVE FALSE
    BY <2>1 DEF Crash, Excused, IInv, TypeOK
  <2>2. UNCHANGED <<task, crashes>> /\ crossed \subseteq crossed'
    <3>1. UNCHANGED task
      BY <1>2
         DEF Next, Admits, Start, AskForTask, DenyByRule, Refuse, DeferBatch, Execute, Walks,
             Cancelled, NotCancelled, AskForStep, Park, PrepareFails, PassOver, BeginStep,
             StepOver, Fallback, Deferred, StepFailed, AllOver, Review, GitActions, Succeed,
             LeavePaused, LeaveCancelled, EnqueueDeferred, CompleteDeferred, Fail, Denied,
             Leave, Crash, Read, Decides, Deny, Approve, RefuseApproved, ExecuteApproved,
             Cancel, Outside
    <3>2. UNCHANGED crashes
      BY <1>2, <2>1
         DEF Next, Admits, Start, AskForTask, DenyByRule, Refuse, DeferBatch, Execute, Walks,
             Cancelled, NotCancelled, AskForStep, Park, PrepareFails, PassOver, BeginStep,
             StepOver, Fallback, Deferred, StepFailed, AllOver, Review, GitActions, Succeed,
             LeavePaused, LeaveCancelled, EnqueueDeferred, CompleteDeferred, Fail, Denied,
             Leave, Read, Decides, Deny, Approve, RefuseApproved, ExecuteApproved, Cancel,
             Outside
    <3> QED
      BY <1>2, <3>1, <3>2, CrossedGrows
  <2>3. Tended
    BY <2>2 DEF TendedInv, Excused
  <2>4. CASE Cancel
    BY <2>3, <2>4 DEF Cancel, Tended, Settled, Pending, Busy, AtWork, Waits, Spent
  <2> QED
    BY <1>2, <2>1, <2>3, <2>4, TendsAdmits, TendsWalks, TendsDecides DEF Next
<1> QED
  BY <1>1, <1>2

(* A run that has begun has ended, waits for a person or is at work, but   *)
(* for a crash, a decision between the asking and the parking, and the     *)
(* batch (complete_run and record_approval_request in their order).        *)
THEOREM NeverLeftLying == Spec => []Attended
<1>1. Init => TendedInv
  BY WorkerExecutes DEF Init, TendedInv, Tended, Settled
<1>2. TendedInv => Attended
  BY DEF TendedInv, Excused, Tended, Settled, Busy, Attended
<1> QED
  BY <1>1, <1>2, IInvAlways, NextTended, PTL DEF Spec
-----------------------------------------------------------------------------
(* The promise.  What GatedWalk does not see leaves the approvals, the     *)
(* steps and the way the run ended alone (Unseen); every other step is one *)
(* of its actions, and what it asks of a walk that was not overtaken is    *)
(* what OneHand says of the executor that takes the step.                  *)

PromiseStep == [Promise!Next]_Promise!vars

LEMMA Unseen ==
    ASSUME UNCHANGED <<task, licensed, ran, settled>>, crossed \subseteq crossed',
           Outcome' = Outcome \/ (Outcome' = "open" /\ crossed' # {})
    PROVE  PromiseStep
<1>1. GatesOfSteps' = GatesOfSteps
  BY DEF GatesOfSteps
<1>2. CASE crossed' = {}
  BY <1>1, <1>2 DEF PromiseStep, Promise!vars
<1>3. CASE crossed' # {}
  BY <1>1, <1>3 DEF PromiseStep, Promise!Next, Promise!Overtake
<1> QED
  BY <1>2, <1>3

LEMMA Ends ==
    ASSUME UNCHANGED <<task, licensed, ran, settled>>, crossed \subseteq crossed',
           run' \in Terminal, run' = "success" => settled = Steps,
           run \notin Terminal \/ crossed' # {}
    PROVE  PromiseStep
<1>1. GatesOfSteps' = GatesOfSteps /\ Outcome' = run'
  BY DEF GatesOfSteps, Outcome
<1>2. Promise!End(run')
  BY <1>1 DEF Promise!End, Promise!Notes, Promise!Positions, Outcome, Steps
<1> QED
  BY <1>2 DEF PromiseStep, Promise!Next

(* Something is approved while the walk stands before it.                  *)
LEMMA Grants ==
    ASSUME NEW p \in 0..M, UNCHANGED <<task, ran, settled>>, Outcome' = Outcome,
           crossed \subseteq crossed', licensed' = licensed \cup {p}, 1..(p - 1) \subseteq settled,
           crossed' # {} \/ (run \notin Terminal /\ ran \subseteq 1..(p - 1))
    PROVE  PromiseStep
<1>1. GatesOfSteps' = GatesOfSteps
  BY DEF GatesOfSteps
<1>2. Promise!Grant(p)
  BY <1>1 DEF Promise!Grant, Promise!Notes, Promise!Reached, Promise!StandsAt, Outcome
<1> QED
  BY <1>2 DEF PromiseStep, Promise!Next, Promise!Grants

(* Before the worker has asked or entered the task nobody else can act.    *)
FirstInv ==
    pc[Worker] \in {"start", "admit"} =>
        crossed = {} /\ approval = NoRow /\ \A a \in Approvers : pc[a] = "idle"

LEMMA NextFirst == IInv /\ FirstInv /\ [Next]_vars => FirstInv'
<1> SUFFICES ASSUME IInv, FirstInv, [Next]_vars PROVE FirstInv'
  OBVIOUS
<1> USE WorkerExecutes, CallersAssumption DEF IInv, TypeOK
<1>1. CASE UNCHANGED vars \/ Cancel
  BY <1>1 DEF FirstInv, Cancel
<1>2. CASE Admits
  <2>1. CASE Start
    BY <2>1 DEF Start, To, FirstInv
  <2>2. CASE ~Start
    <3>1. pc'[Worker] \notin {"start", "admit"}
      BY <1>2, <2>2 DEF Admits, AskForTask, DenyByRule, Refuse, DeferBatch, Execute, Completes,
         Returns, Enter, Raises, To
    <3> QED
      BY <3>1 DEF FirstInv
  <2> QED
    BY <2>1, <2>2
<1>3. ASSUME NEW w \in Executors, Walks(w) \/ Crash(w) PROVE FirstInv'
  <2>1. /\ \/ pc'[w] \notin {"start", "admit"} /\ pc[w] \notin {"idle", "start", "admit"}
           \/ Crash(w)
        /\ \A v \in Executors \ {w} : pc'[v] = pc[v]
    BY <1>3
       DEF Walks, Cancelled, AtBoundary, NotCancelled, AskForStep, Park, PrepareFails,
           PassOver, BeginStep, Begins, StepOver, NextStep, Fallback, Deferred, StepFailed,
           Breaks, AllOver, Review, GitActions, Succeed, LeavePaused, LeaveCancelled,
           EnqueueDeferred, CompleteDeferred, Fail, Denied, Leave, Crash, Completes, Returns,
           Raises, To
  <2>2. Crash(w) => pc[w] # "idle" /\ pc'[w] = "idle"
    BY DEF Crash, To
  <2>3. CASE w = Worker
    BY <2>1, <2>2, <2>3 DEF FirstInv
  <2>4. CASE w # Worker
    BY <2>1, <2>2, <2>4 DEF FirstInv, Executors
  <2> QED
    BY <2>3, <2>4
<1>4. ASSUME NEW a \in Approvers, Read(a) \/ Decides(a) PROVE FirstInv'
  <2>1. /\ a # Worker /\ pc'[Worker] = pc[Worker]
        /\ Pending \/ pc[a] # "idle"
    BY <1>4
       DEF Read, Decides, Deny, Approve, RefuseApproved, ExecuteApproved, Completes, Returns,
           Enter, Raises, To
  <2> QED
    BY <2>1 DEF FirstInv, Pending
<1> QED
  BY <1>1, <1>2, <1>3, <1>4 DEF Next

LEMMA PromiseAdmits ==
    ASSUME IInv, OnceInv, FirstInv, Admits, crossed \subseteq crossed' PROVE PromiseStep
<1> USE WorkerExecutes DEF IInv, TypeOK
<1>a. Holds(Worker) /\ ~Withdrawn(Worker)
  BY DEF Admits, Start, AskForTask, DenyByRule, Refuse, DeferBatch, Execute, Holds, Waits,
         Inside, Withdrawn
<1>b. crossed' = {} => run \notin Terminal /\ Past(Worker)
  BY <1>a, HolderOpen DEF Uncrossed
<1>c. pc[Worker] \in {"start", "admit"} => run \notin Terminal /\ ran = {}
  BY <1>a, HolderOpen DEF FirstInv, Past, Uncrossed
<1>1. CASE AskForTask \/ DenyByRule
  BY <1>1, Unseen DEF AskForTask, DenyByRule, Outside, Outcome
<1>2. CASE Refuse
  BY <1>2, <1>b, Ends DEF Refuse, Completes, Outside, Terminal
<1>3. CASE Start
  <2>1. UNCHANGED <<task, licensed, ran, settled, crossed>> /\ run \notin Terminal
    BY <1>3, <1>c DEF Start
  <2>2. run' = "failed" \/ run' \notin Terminal
    BY <1>3 DEF Start, Terminal
  <2> QED
    BY <2>1, <2>2, Ends, Unseen DEF Outcome, Terminal
<1>4. CASE DeferBatch
  <2>1. UNCHANGED <<task, licensed, ran, settled, crossed>> /\ {run, run'} \cap Terminal = {}
    BY <1>4, <1>c DEF DeferBatch, Opens, Terminal
  <2> QED
    BY <2>1, Unseen DEF Outcome
<1>5. CASE Execute
  <2>1. /\ UNCHANGED <<task, ran, settled, crossed>> /\ {run, run'} \cap Terminal = {}
        /\ licensed' = IF task.approval THEN licensed \cup {0} ELSE licensed
        /\ ran = {} /\ Outcome' = Outcome
    BY <1>5, <1>c DEF Execute, Opens, Outside, Terminal, Outcome
  <2>2. CASE task.approval
    <3>1. 0 \in 0..M /\ 1..(0 - 1) \subseteq settled /\ ran \subseteq 1..(0 - 1)
      BY <2>1, StepsAssumption
    <3> QED
      BY <2>1, <2>2, <3>1, Grants
  <2>3. CASE ~task.approval
    BY <2>1, <2>3, Unseen
  <2> QED
    BY <2>2, <2>3
<1> QED
  BY <1>1, <1>2, <1>3, <1>4, <1>5 DEF Admits

LEMMA PromiseWalks ==
    ASSUME IInv, OnceInv, NEW w \in Executors, Walks(w), crossed \subseteq crossed'
    PROVE PromiseStep
<1> USE DEF IInv, TypeOK
<1>1. CASE BeginStep(w)
  <2>1. at[w] \in Steps /\ pc[w] = "gate" /\ UNCHANGED <<task, settled, licensed, run, crossed>>
        /\ ran' = ran \cup {at[w]}
    BY <1>1 DEF BeginStep, Begins, Outside, AtStep, AtLabels
  <2>2. Holds(w) /\ ~Withdrawn(w)
    BY <2>1 DEF Holds, Waits, Inside, Withdrawn
  <2>3. 1..(at[w] - 1) \subseteq settled
    BY DEF Behind
  <2>4. crossed = {} => run \notin Terminal /\ ran \subseteq 1..(at[w] - 1)
    BY <2>1, <2>2, HolderOpen DEF Past, Steps, Uncrossed
  <2>5. GatesOfSteps[at[w]] \subseteq licensed
    <3>1. at[w] \in task.gated => at[w] \in licensed
      BY <1>1, <2>1 DEF BeginStep, MustAsk, Licences, Steps
    <3>2. task.approval => 0 \in licensed
      BY <2>1 DEF Licences, Inside
    <3> QED
      BY <2>1, <3>1, <3>2 DEF GatesOfSteps
  <2>6. GatesOfSteps' = GatesOfSteps /\ Outcome' = Outcome
    BY <2>1 DEF GatesOfSteps, Outcome
  <2>7. Promise!Start(at[w])
    BY <2>1, <2>3, <2>4, <2>5, <2>6
       DEF Promise!Start, Promise!Notes, Promise!Reached, Promise!StandsAt, Outcome
  <2> QED
    BY <2>1, <2>7 DEF PromiseStep, Promise!Next, Promise!Positions, Steps
<1>2. CASE StepOver(w) \/ PassOver(w)
  <2>1. /\ at[w] \in Steps /\ pc[w] \in {"gate", "attempt"}
        /\ UNCHANGED <<task, ran, licensed, run, crossed>>
        /\ settled' = settled \cup {at[w]}
    BY <1>2 DEF StepOver, PassOver, NextStep, Outside, AtStep, AtLabels
  <2>2. Holds(w) /\ ~Withdrawn(w)
    BY <2>1 DEF Holds, Waits, Inside, Withdrawn
  <2>3. 1..(at[w] - 1) \subseteq settled
    BY DEF Behind
  <2>4. crossed = {} => run \notin Terminal /\ ran \subseteq 1..at[w]
    BY <2>1, <2>2, HolderOpen DEF Past, Steps, Uncrossed
  <2>5. GatesOfSteps' = GatesOfSteps /\ Outcome' = Outcome
    BY <2>1 DEF GatesOfSteps, Outcome
  <2>6. Promise!Pass(at[w])
    BY <2>1, <2>3, <2>4, <2>5
       DEF Promise!Pass, Promise!Notes, Promise!Reached, Promise!NotBeyond, Outcome
  <2> QED
    BY <2>1, <2>6 DEF PromiseStep, Promise!Next, Promise!Positions, Steps
<1>3. CASE Succeed(w) \/ CompleteDeferred(w) \/ Fail(w) \/ Denied(w) \/ Cancelled(w)
  <2>1. /\ UNCHANGED <<task, licensed, ran, settled>> /\ run' \in Terminal
        /\ run' = "success" => pc[w] = "succeed"
        /\ Holds(w) /\ (Withdrawn(w) => Fail(w) /\ w # Worker)
    BY <1>3
       DEF Succeed, CompleteDeferred, Fail, Denied, Cancelled, AtBoundary, Completes, Outside,
           Terminal, Holds, Waits, Inside, Withdrawn
  <2>2. run' = "success" => settled = Steps
    BY <2>1 DEF Behind, After
  <2>3. ASSUME crossed' = {} PROVE run \notin Terminal
    <3>1. Uncrossed /\ crossed = {}
      BY <2>3 DEF Uncrossed
    <3>2. ~Withdrawn(w)
      BY <2>1, <3>1 DEF OnceInv, OneHand
    <3> QED
      BY <2>1, <3>1, <3>2, HolderOpen
  <2> QED
    BY <2>1, <2>2, <2>3, Ends
<1>4. CASE Park(w)
  <2>1. UNCHANGED <<task, licensed, ran, settled, crossed>> /\ Outcome' = "open"
    BY <1>4 DEF Park, Raises, Outside, Outcome, Terminal
  <2>2. Holds(w) /\ ~Withdrawn(w)
    BY <1>4 DEF Park, Holds, Waits, Inside, Withdrawn
  <2>3. crossed = {} => Outcome = "open"
    BY <2>2, HolderOpen DEF Outcome, Uncrossed
  <2> QED
    BY <2>1, <2>3, Unseen
<1>5. CASE \/ NotCancelled(w) \/ AskForStep(w) \/ Fallback(w) \/ Deferred(w) \/ StepFailed(w)
           \/ PrepareFails(w) \/ AllOver(w) \/ Review(w) \/ GitActions(w) \/ LeavePaused(w) \/ LeaveCancelled(w)
           \/ EnqueueDeferred(w) \/ Leave(w)
  <2>1. UNCHANGED <<task, licensed, ran, settled, run, crossed>>
    BY <1>5
       DEF NotCancelled, AskForStep, PrepareFails, Fallback, Deferred, StepFailed, AllOver,
           Review, GitActions, LeavePaused, LeaveCancelled, EnqueueDeferred, Leave, Outside
  <2> QED
    BY <2>1, Unseen DEF Outcome
<1> QED
  BY <1>1, <1>2, <1>3, <1>4, <1>5 DEF Walks

LEMMA PromiseDecides ==
    ASSUME IInv, OnceInv, NEW a \in Approvers, Read(a) \/ Decides(a), crossed \subseteq crossed'
    PROVE PromiseStep
<1> USE WorkerExecutes DEF IInv, TypeOK
<1>1. CASE Read(a) \/ Deny(a) \/ ExecuteApproved(a)
  <2>1. UNCHANGED <<task, licensed, ran, settled, run>>
    BY <1>1 DEF Read, Deny, ExecuteApproved, Outside
  <2> QED
    BY <2>1, Unseen DEF Outcome
<1>2. CASE Approve(a)
  <2>1. /\ UNCHANGED <<task, ran, settled, run>> /\ licensed' = licensed \cup {seen[a].index}
        /\ pc[a] = "decide" /\ Write(a, "approved") /\ a \in Executors
    BY <1>2 DEF Approve, Outside
  <2>2. seen[a] \in Rows /\ seen[a].index \in 0..M /\ 1..(seen[a].index - 1) \subseteq settled
    BY <2>1 DEF RowsRead, Deciding, Rows, RowsBacked, Backed
  <2>3. ASSUME crossed' = {} PROVE run \notin Terminal /\ ran \subseteq 1..(seen[a].index - 1)
    <3>1. Pending /\ approval = seen[a] /\ Uncrossed
      BY <2>1, <2>3, NobodyHolds DEF Uncrossed
    <3>2. run \notin Terminal /\ PastRow
      BY <3>1 DEF OnceInv, OneHand
    <3> QED
      BY <2>2, <3>1, <3>2 DEF PastRow, Steps
  <2> QED
    BY <2>1, <2>2, <2>3, Grants DEF Outcome
<1>3. CASE RefuseApproved(a)
  <2>1. UNCHANGED <<task, licensed, ran, settled>> /\ run' = "failed" /\ a \in Executors
        /\ pc[a] = "admitApproved"
    BY <1>3 DEF RefuseApproved, Completes, Outside
  <2>2. crossed' = {} => run \notin Terminal
    BY <2>1, HolderOpen DEF Holds, Waits, Withdrawn, Uncrossed
  <2> QED
    BY <2>1, <2>2, Ends DEF Terminal
<1> QED
  BY <1>1, <1>2, <1>3 DEF Decides

(* Whatever the executors, decisions, cancels and crashes do, a person who *)
(* gates steps or the task sees a walk in order, through gates, once       *)
(* (run_task, run_approved, _run_async_task and their one loop,            *)
(* _execute_task_body).                                                    *)
THEOREM PromiseIsKept == Spec => KeepsPromise
<1>1. Init => Promise!Init
  <2> SUFFICES ASSUME Init PROVE Promise!Init
    OBVIOUS
  <2>1. GatesOfSteps \in [Steps -> SUBSET (0..M)]
    BY StepsAssumption, TasksAssumption DEF Init, GatesOfSteps, TaskType, Steps
  <2> QED
    BY <2>1 DEF Init, Promise!Init, Promise!Positions, Promise!Grants, Outcome, Terminal, Steps
<1>2. Init => FirstInv
  BY CallersAssumption, WorkerExecutes DEF Init, FirstInv
<1>3. IInv /\ OnceInv /\ FirstInv /\ [Next]_vars => PromiseStep
  <2> SUFFICES ASSUME IInv, OnceInv, FirstInv, [Next]_vars PROVE PromiseStep
    OBVIOUS
  <2>1. crossed \subseteq crossed'
    BY CrossedGrows
  <2>2. CASE UNCHANGED vars \/ Cancel \/ \E w \in Executors : Crash(w)
    BY <2>2, Unseen DEF Cancel, Crash, Outcome
  <2> QED
    BY <2>1, <2>2, PromiseAdmits, PromiseWalks, PromiseDecides DEF Next
<1> QED
  BY <1>1, <1>2, <1>3, IInvAlways, OnceAlwaysHolds, NextFirst, PTL
     DEF Spec, KeepsPromise, Promise!Spec, PromiseStep
=============================================================================
