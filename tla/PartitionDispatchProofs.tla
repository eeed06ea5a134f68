---------------------- MODULE PartitionDispatchProofs -----------------------
(***************************************************************************)
(* What PartitionDispatch guarantees, for any plans, threads and faults.   *)
(*                                                                         *)
(* TypeOK is not inductive: a dispatcher past the gate must have a plan.   *)
(* Nor is OneSubmission: a submission is safe because the row of the task  *)
(* names the job (RowInv) and a job in hand has no worker (JobInv); a      *)
(* start is safe because a task found ready in a snapshot stays so         *)
(* (SnapshotInv), no step taking `committed` back.  IInv is their          *)
(* conjunction.  One lemma per group of actions shows that they preserve   *)
(* it; the properties follow from it, HistoryIsKept and PromiseIsKept from *)
(* what a single step may do to the journal (StepSeen).                    *)
(*                                                                         *)
(* Most of the others assume what the shipped call path or a less          *)
(* disturbed run gives.  ShipInv adds that the rows of the plan are there  *)
(* before any dispatch, SoleInv that a task once claimed has one holder or *)
(* one job, CapInv counts the tasks a dispatcher is busy with.  That no    *)
(* task is left adrift (NothingAdrift) asks only that nobody has died.     *)
(***************************************************************************)
EXTENDS PartitionDispatch, FiniteSetTheorems, TLAPS

USE DEF vars, journal, ratVars, waveVars, chunkVars, dispVars, jobVars, workVars, cancelVars,
        reconVars, envVars, RestOfDispatch, RestOfWork, RestOfCancel, RestOfRecon

(* What the update of a task row does, field by field.                     *)
RowStep(t, status, by, run) ==
    /\ JournalTypeOK'
    /\ UNCHANGED <<pstatus, ratified>>
    /\ \A u \in Tasks : u # t => rows'[u] = rows[u]
    /\ rows'[t].status = status
    /\ rows'[t].by = by
    /\ rows'[t].run = run

(* An UPDATE of the status alone (mark_task_committed and its siblings).   *)
LEMMA SetStatusStep ==
    ASSUME JournalTypeOK, NEW t \in Tasks, NEW s \in TaskStatuses, SetStatus(t, s)
    PROVE  RowStep(t, s, rows[t].by, rows[t].run)
BY DEF JournalTypeOK, SetStatus, SetRow, TaskRow, RowStep

(* claim_task sets the status and claimed_by.                              *)
LEMMA ClaimStep ==
    ASSUME JournalTypeOK, NEW t \in Tasks, NEW o \in Owners, ClaimTask(t, o)
    PROVE  RowStep(t, "claimed", o, rows[t].run)
BY DEF JournalTypeOK, ClaimTask, SetRow, TaskRow, RowStep, TaskStatuses

(* mark_task_running sets the status and run_id.                           *)
LEMMA RunningStep ==
    ASSUME JournalTypeOK, NEW t \in Tasks, NEW j \in Jobs, MarkTaskRunning(t, j)
    PROVE  RowStep(t, "running", rows[t].by, j)
BY DEF JournalTypeOK, MarkTaskRunning, SetRow, TaskRow, RowStep, TaskStatuses

(* release_stale_claim sets the status back and clears claimed_by.         *)
LEMMA ReleaseStep ==
    ASSUME JournalTypeOK, NEW t \in Tasks, ReleaseClaim(t)
    PROVE  RowStep(t, "pending", NULL, rows[t].run)
BY DEF JournalTypeOK, ReleaseClaim, SetRow, TaskRow, RowStep, TaskStatuses

(* A claim that grows old keeps its status, owner and run.                 *)
LEMMA AgeStep ==
    ASSUME JournalTypeOK, NEW t \in Tasks, ClaimAges(t)
    PROVE  RowStep(t, Status(t), rows[t].by, rows[t].run)
BY DEF JournalTypeOK, ClaimAges, SetRow, TaskRow, RowStep, TaskStatuses, Status

(* insert_task_rows (ON CONFLICT DO NOTHING) touches no existing row.      *)
LEMMA InsertStep ==
    ASSUME JournalTypeOK, NEW plan \in Plans, InsertTaskRows(plan)
    PROVE  /\ JournalTypeOK'
           /\ \A t \in Tasks : rows[t].status # "absent" => rows'[t] = rows[t]
           /\ \A t \in Tasks : rows[t].status = "absent" =>
                rows'[t] = rows[t] \/ (rows'[t].status = "pending" /\ rows'[t].run = NULL)
<1>1. PendingRow \in TaskRow /\ PendingRow.status = "pending" /\ PendingRow.run = NULL
  BY DEF PendingRow, AbsentRow, TaskRow, TaskStatuses
<1>2. \A t \in Tasks : rows'[t] = IF t \in plan.tasks /\ rows[t].status = "absent"
                                 THEN PendingRow ELSE rows[t]
  BY DEF InsertTaskRows, Status
<1>3. rows' \in [Tasks -> TaskRow]
  <2> DEFINE row(t) == IF t \in plan.tasks /\ Status(t) = "absent" THEN PendingRow ELSE rows[t]
  <2>1. \A t \in Tasks : row(t) \in TaskRow
    BY <1>1 DEF JournalTypeOK
  <2>2. rows' = [t \in Tasks |-> row(t)]
    BY DEF InsertTaskRows
  <2> HIDE DEF row
  <2>3. QED
    BY <2>1, <2>2
<1>4. QED
  BY <1>1, <1>2, <1>3 DEF JournalTypeOK, InsertTaskRows

(* The plan a journal holds is closed under depends_on.                    *)
LEMMA PlanClosed ==
    ASSUME NEW plan \in Plans, NEW t \in plan.tasks
    PROVE  t \in Tasks /\ plan.tasks \subseteq Tasks /\ plan.deps[t] \subseteq plan.tasks
BY PlansAssumption DEF PlanDocument

(* A task stays ready as long as no committed row changes its status.      *)
LEMMA ReadyStays ==
    ASSUME TypeOK, ratified # NULL => ratified' = ratified,
           \A t \in Tasks : rows[t].status = "committed" => rows'[t].status = "committed",
           NEW t, Ready(t)
    PROVE  Ready(t)'
BY PlanClosed, PlansAssumption DEF TypeOK, JournalTypeOK, Ready, Status, PlanDocument

(* A partition that was just proposed satisfies the inductive invariant.   *)
THEOREM InitIInv == Init => IInv
<1> SUFFICES ASSUME Init PROVE IInv
  OBVIOUS
<1>1. AbsentRow \in TaskRow /\ AbsentRow.status = "absent" /\ AbsentRow.run = NULL
  BY DEF AbsentRow, TaskRow, TaskStatuses
<1>2. TypeOK
  BY <1>1 DEF Init, TypeOK, JournalInit, JournalTypeOK, PartitionStatuses
<1>3. \A t \in Tasks : Status(t) = "absent" /\ rows[t].run = NULL
  BY <1>1 DEF Init, JournalInit, Status
<1>4. QED
  BY <1>2, <1>3 DEF Init, JournalInit, IInv, RatifyInv, GateInv, SnapshotInv, JobInv, RowInv,
     WorkInv, Holding, WithJob

(* The steps of ratify_partition preserve the inductive invariant.         *)
LEMMA RatifyStep ==
    ASSUME IInv, NEW r \in Ratifiers, Ratify(r) \/ RatifyCrash(r)
    PROVE  IInv'
<1> USE DEF IInv, TypeOK
<1>1. CASE RatifyAdmit(r) \/ RatifyDeny(r) \/ RatifyLose(r) \/ RatifyCrash(r)
  <2>1. TypeOK'
    <3>1. JournalTypeOK'
      BY <1>1 DEF RatifyAdmit, RatifyDeny, RatifyLose, RatifyCrash, JournalTypeOK
    <3>2. rdoc' \in [Ratifiers -> Plans \cup {NULL}]
      BY <1>1 DEF RatifyAdmit, RatifyDeny, RatifyLose, RatifyCrash
    <3>3. crashes' \in Nat
      BY <1>1 DEF RatifyAdmit, RatifyDeny, RatifyLose, RatifyCrash
    <3>4. QED
      BY <1>1, <3>1, <3>2, <3>3 DEF RatifyAdmit, RatifyDeny, RatifyLose, RatifyCrash
  <2>2. RatifyInv'
    BY <1>1 DEF RatifyAdmit, RatifyDeny, RatifyLose, RatifyCrash, RatifyInv, Status
  <2>3. GateInv' /\ SnapshotInv' /\ JobInv' /\ RowInv' /\ WorkInv'
    BY <1>1 DEF RatifyAdmit, RatifyDeny, RatifyLose, RatifyCrash, GateInv, SnapshotInv,
       JobInv, RowInv,
       WorkInv, RecordedStatus, Ready, Status, Holding, WithJob, Started
  <2>4. QED
    BY <2>1, <2>2, <2>3
<1>2. CASE RatifyWin(r)
  <2>1. TypeOK'
    BY <1>2 DEF RatifyWin, RatifyRow, JournalTypeOK, RatifyInv, PartitionStatuses
  <2>2. RatifyInv'
    BY <1>2, NullAssumption DEF RatifyWin, RatifyRow, JournalTypeOK, RatifyInv, Status
  <2>3. GateInv'
    BY <1>2, NullAssumption DEF RatifyWin, RatifyRow, RatifyInv, GateInv, Started
  <2>4. SnapshotInv' /\ JobInv' /\ RowInv' /\ WorkInv'
    BY <1>2, NullAssumption DEF RatifyWin, RatifyRow, RatifyInv, SnapshotInv, JobInv, RowInv,
       WorkInv, RecordedStatus, Ready, Status, Started
  <2>5. QED
    BY <2>1, <2>2, <2>3, <2>4
<1>3. CASE RatifyInsert(r)
  <2>1. rdoc[r] \in Plans /\ ratified = rdoc[r] /\ InsertTaskRows(rdoc[r])
    BY <1>3 DEF RatifyInsert, RatifyInv
  <2>2. /\ JournalTypeOK'
        /\ \A t \in Tasks : rows[t].status # "absent" => rows'[t] = rows[t]
        /\ \A t \in Tasks : rows[t].status = "absent" =>
             rows'[t] = rows[t] \/ (rows'[t].status = "pending" /\ rows'[t].run = NULL)
    BY <2>1, InsertStep
  <2>3. TypeOK'
    BY <2>2, <1>3 DEF RatifyInsert
  <2>4. \A t : Ready(t) => Ready(t)'
    BY <2>1, <2>2, ReadyStays DEF InsertTaskRows
  <2>5. RatifyInv'
    BY <2>1, <2>2, <1>3, NullAssumption DEF RatifyInsert, InsertTaskRows, RatifyInv, Status
  <2>6. GateInv' /\ SnapshotInv' /\ JobInv'
    BY <2>1, <2>4, <1>3 DEF RatifyInsert, InsertTaskRows, GateInv, SnapshotInv, JobInv,
       Holding, WithJob
  <2>7. RowInv'
    BY <2>2, <1>3, <2>1 DEF RatifyInsert, InsertTaskRows, RowInv, SnapshotInv, Status,
       Holding, JobInv, WithJob
  <2>8. WorkInv'
    BY <2>2, <1>3, <2>1, <2>4, NullAssumption DEF RatifyInsert, InsertTaskRows, RowInv,
       WorkInv, RecordedStatus, Status
  <2>9. QED
    BY <2>3, <2>5, <2>6, <2>7, <2>8
<1>4. QED
  BY <1>1, <1>2, <1>3 DEF Ratify

(* Past the gate a dispatcher works on the ratified plan.                  *)
LEMMA WaveOfPlan ==
    ASSUME IInv, NEW d \in Dispatchers, pc[d] \notin {"idle", "refused", "crashed"}
    PROVE  /\ doc[d] \in Plans
           /\ doc[d] = ratified
           /\ doc[d].tasks \subseteq Tasks
           /\ Wave(d) \subseteq doc[d].tasks
<1>1. doc[d] \in Plans /\ doc[d] = ratified
  BY DEF IInv, TypeOK, GateInv
<1>2. QED
  BY <1>1, PlansAssumption DEF PlanDocument, Wave, NextWave

(* A task that the snapshot does not find blocked is ready.                *)
LEMMA UnblockedIsReady ==
    ASSUME IInv, NEW d \in Dispatchers, pc[d] = "read", NEW t \in Wave(d), ~Blocked(doc[d], t)
    PROVE  Ready(t)
<1>1. pc[d] \notin {"idle", "refused", "crashed"}
  OBVIOUS
<1>2. doc[d] = ratified /\ doc[d] \in Plans /\ t \in doc[d].tasks
  BY <1>1, WaveOfPlan
<1>3. QED
  BY <1>2, NullAssumption DEF Blocked, Ready

(* The steps of a dispatcher that write nothing but its own locals.        *)
LEMMA LocalStep ==
    ASSUME IInv, NEW d \in Dispatchers,
           \/ Begin(d) \/ GateLose(d) \/ GateReread(d) \/ WaveProceed(d) \/ WaveHalt(d)
           \/ ReadWave(d) \/ TakeChunk(d) \/ WaitNext(d) \/ WaveEnd(d) \/ CreateFails(d)
           \/ MarkRunningLost(d) \/ FinalRead(d)
    PROVE  IInv'
<1> USE DEF IInv, TypeOK, Goto
<1>1. CASE Begin(d)
  <2>1. TypeOK'
    BY <1>1 DEF Begin, JournalTypeOK
  <2>2. GateInv' /\ SnapshotInv'
    BY <1>1 DEF Begin, GateInv, SnapshotInv, RatifyInv, Ready, Status, Started, Holding
  <2>3. RatifyInv' /\ JobInv' /\ RowInv' /\ WorkInv'
    BY <1>1 DEF Begin, RatifyInv, JobInv, RowInv, WorkInv, RecordedStatus, Ready, Status,
       WithJob
  <2>4. QED
    BY <2>1, <2>2, <2>3
<1>2. CASE GateLose(d)
  <2>1. TypeOK'
    BY <1>2 DEF GateLose, JournalTypeOK
  <2>2. GateInv' /\ SnapshotInv'
    BY <1>2 DEF GateLose, GateInv, SnapshotInv, RatifyInv, Ready, Status, Started, Holding
  <2>3. RatifyInv' /\ JobInv' /\ RowInv' /\ WorkInv'
    BY <1>2 DEF GateLose, RatifyInv, JobInv, RowInv, WorkInv, RecordedStatus, Ready, Status,
       WithJob
  <2>4. QED
    BY <2>1, <2>2, <2>3
<1>3. CASE GateReread(d)
  <2>1. TypeOK'
    BY <1>3 DEF GateReread, JournalTypeOK
  <2>2. GateInv' /\ SnapshotInv'
    BY <1>3 DEF GateReread, GateInv, SnapshotInv, RatifyInv, Ready, Status, Started, Holding
  <2>3. RatifyInv' /\ JobInv' /\ RowInv' /\ WorkInv'
    BY <1>3 DEF GateReread, RatifyInv, JobInv, RowInv, WorkInv, RecordedStatus, Ready, Status,
       WithJob
  <2>4. QED
    BY <2>1, <2>2, <2>3
<1>4. CASE WaveProceed(d)
  <2>1. TypeOK'
    BY <1>4 DEF WaveProceed, JournalTypeOK
  <2>2. GateInv' /\ SnapshotInv'
    BY <1>4 DEF WaveProceed, GateInv, SnapshotInv, RatifyInv, Ready, Status, Started, Holding
  <2>3. RatifyInv' /\ JobInv' /\ RowInv' /\ WorkInv'
    BY <1>4 DEF WaveProceed, RatifyInv, JobInv, RowInv, WorkInv, RecordedStatus, Ready,
       Status, WithJob
  <2>4. QED
    BY <2>1, <2>2, <2>3
<1>5. CASE WaveHalt(d)
  <2>1. TypeOK'
    BY <1>5 DEF WaveHalt, JournalTypeOK
  <2>2. GateInv' /\ SnapshotInv'
    BY <1>5 DEF WaveHalt, GateInv, SnapshotInv, RatifyInv, Ready, Status, Started, Holding
  <2>3. RatifyInv' /\ JobInv' /\ RowInv' /\ WorkInv'
    BY <1>5 DEF WaveHalt, RatifyInv, JobInv, RowInv, WorkInv, RecordedStatus, Ready, Status,
       WithJob
  <2>4. QED
    BY <2>1, <2>2, <2>3
<1>6. CASE ReadWave(d)
  <2> USE <1>6 DEF ReadWave
  <2>0. Wave(d) \subseteq Tasks
    BY WaveOfPlan
  <2>1. TypeOK'
    <3>1. {t \in Wave(d) : Blocked(doc[d], t)} \subseteq Tasks
      BY <2>0
    <3>2. {t \in Wave(d) : ~Blocked(doc[d], t) /\ Status(t) = "pending"} \subseteq Tasks
      BY <2>0
    <3>3. skip' \in [Dispatchers -> SUBSET Tasks] /\ todo' \in [Dispatchers -> SUBSET Tasks]
      BY <3>1, <3>2
    <3>4. QED
      BY <3>3 DEF JournalTypeOK
  <2>2. GateInv' /\ SnapshotInv'
    <3>1. \A t \in {u \in Wave(d) : ~Blocked(doc[d], u) /\ Status(u) = "pending"} : Ready(t)
      BY UnblockedIsReady
    <3>2. \A t \in todo'[d] : Ready(t)
      BY <3>1
    <3>3. SnapshotInv'
      BY <3>2 DEF SnapshotInv, Ready, Status, Holding
    <3>4. GateInv'
      BY DEF GateInv, Started
    <3>5. QED
      BY <3>3, <3>4
  <2>3. RatifyInv' /\ JobInv' /\ RowInv' /\ WorkInv'
    BY <1>6 DEF ReadWave, RatifyInv, JobInv, RowInv, WorkInv, RecordedStatus, Ready, Status,
       WithJob
  <2>4. QED
    BY <2>1, <2>2, <2>3
<1>7. CASE TakeChunk(d)
  <2>0. PICK c \in SUBSET todo[d] :
          chunk' = [chunk EXCEPT ![d] = c] /\ todo' = [todo EXCEPT ![d] = @ \ c]
    BY <1>7 DEF TakeChunk, Chunks
  <2>1. TypeOK'
    BY <1>7, <2>0 DEF TakeChunk, JournalTypeOK
  <2>2. GateInv' /\ SnapshotInv'
    <3>1. \A e \in Dispatchers : todo'[e] \cup chunk'[e] \subseteq todo[e] \cup chunk[e]
      BY <2>0
    <3>2. QED
      BY <1>7, <3>1 DEF TakeChunk, GateInv, SnapshotInv, Ready, Status, Started, Holding
  <2>3. RatifyInv' /\ JobInv' /\ RowInv' /\ WorkInv'
    BY <1>7 DEF TakeChunk, RatifyInv, JobInv, RowInv, WorkInv, RecordedStatus, Ready, Status,
       WithJob
  <2>4. QED
    BY <2>1, <2>2, <2>3
<1>8. CASE WaitNext(d)
  <2>1. TypeOK'
    BY <1>8 DEF WaitNext, JournalTypeOK
  <2>2. GateInv' /\ SnapshotInv'
    BY <1>8 DEF WaitNext, GateInv, SnapshotInv, RatifyInv, Ready, Status, Started, Holding
  <2>3. RatifyInv' /\ JobInv' /\ RowInv' /\ WorkInv'
    BY <1>8 DEF WaitNext, RatifyInv, JobInv, RowInv, WorkInv, RecordedStatus, Ready, Status,
       WithJob
  <2>4. QED
    BY <2>1, <2>2, <2>3
<1>9. CASE WaveEnd(d)
  <2>1. TypeOK'
    <3>1. Wave(d) \subseteq Tasks
      BY <1>9, WaveOfPlan DEF WaveEnd
    <3>2. seen' \in [Dispatchers -> SUBSET Tasks]
      BY <3>1, <1>9 DEF WaveEnd
    <3>3. halted' \in [Dispatchers -> BOOLEAN]
      BY <1>9 DEF WaveEnd
    <3>4. pc' = [pc EXCEPT ![d] = "sweep"] \/ pc' = [pc EXCEPT ![d] = "head"]
      BY <1>9 DEF WaveEnd
    <3>5. QED
      BY <1>9, <3>2, <3>3, <3>4 DEF WaveEnd, JournalTypeOK
  <2>2. GateInv' /\ SnapshotInv'
    BY <1>9 DEF WaveEnd, GateInv, SnapshotInv, RatifyInv, Ready, Status, Started, Holding
  <2>3. RatifyInv' /\ JobInv' /\ RowInv' /\ WorkInv'
    BY <1>9 DEF WaveEnd, RatifyInv, JobInv, RowInv, WorkInv, RecordedStatus, Ready, Status,
       WithJob
  <2>4. QED
    BY <2>1, <2>2, <2>3
<1>10. CASE CreateFails(d)
  <2>1. TypeOK'
    BY <1>10 DEF CreateFails, JournalTypeOK
  <2>2. GateInv' /\ SnapshotInv'
    BY <1>10 DEF CreateFails, GateInv, SnapshotInv, RatifyInv, Ready, Status, Started, Holding
  <2>3. RatifyInv' /\ JobInv' /\ RowInv' /\ WorkInv'
    BY <1>10 DEF CreateFails, RatifyInv, JobInv, RowInv, WorkInv, RecordedStatus, Ready,
       Status, WithJob
  <2>4. QED
    BY <2>1, <2>2, <2>3
<1>11. CASE MarkRunningLost(d)
  <2>1. TypeOK'
    BY <1>11 DEF MarkRunningLost, JournalTypeOK
  <2>2. GateInv' /\ SnapshotInv'
    BY <1>11 DEF MarkRunningLost, GateInv, SnapshotInv, RatifyInv, Ready, Status, Started,
       Holding
  <2>3. RatifyInv' /\ JobInv' /\ RowInv' /\ WorkInv'
    BY <1>11 DEF MarkRunningLost, RatifyInv, JobInv, RowInv, WorkInv, RecordedStatus, Ready,
       Status, WithJob
  <2>4. QED
    BY <2>1, <2>2, <2>3
<1>12. CASE FinalRead(d)
  <2>1. TypeOK'
    BY <1>12 DEF FinalRead, JournalTypeOK
  <2>2. GateInv' /\ SnapshotInv'
    BY <1>12 DEF FinalRead, GateInv, SnapshotInv, RatifyInv, Ready, Status, Started, Holding
  <2>3. RatifyInv' /\ JobInv' /\ RowInv' /\ WorkInv'
    BY <1>12 DEF FinalRead, RatifyInv, JobInv, RowInv, WorkInv, RecordedStatus, Ready, Status,
       WithJob
  <2>4. QED
    BY <2>1, <2>2, <2>3
<1>13. QED
  BY <1>1, <1>2, <1>3, <1>4, <1>5, <1>6, <1>7, <1>8, <1>9, <1>10, <1>11, <1>12

(* A step that leaves alone everything that has started.                   *)
Kept ==
    /\ JournalTypeOK' /\ RatifyInv' /\ WorkInv'
    /\ UNCHANGED <<pstatus, ratified>>
    /\ \A u : Ready(u) => Ready(u)'
    /\ \A u \in Tasks : Status(u) = "running" => rows'[u] = rows[u]
    /\ \A u \in Tasks :
         (rows[u].run # NULL)' => (Status(u) \in {"running", "committed", "failed"})'

(* A step that leaves the journal and the workers alone.                   *)
LEMMA StillKept ==
    ASSUME IInv, UNCHANGED <<journal, ratVars, jobVars, wpc, result>>
    PROVE  Kept
BY DEF IInv, TypeOK, JournalTypeOK, RatifyInv, RowInv, WorkInv, RecordedStatus, Ready, Status,
   Kept

(* Whatever happens to a row that waits, it disturbs nothing that started. *)
LEMMA WaitingStep ==
    ASSUME IInv, NEW t \in Tasks, NEW by, NEW s \in {"pending", "claimed", "skipped", "cancelled"},
           Status(t) \in {"pending", "claimed"}, RowStep(t, s, by, rows[t].run),
           UNCHANGED <<ratVars, jobVars, wpc, result>>
    PROVE  Kept
<1>1. \A u \in Tasks : u # t => rows'[u] = rows[u]
  BY DEF RowStep
<1>2. rows[t].run = NULL /\ rows'[t].run = NULL /\ rows'[t].status = s
  BY DEF RowStep, IInv, RowInv, Status
<1>3. JournalTypeOK' /\ UNCHANGED <<pstatus, ratified>>
  BY DEF RowStep
<1>4. \A u : Ready(u) => Ready(u)'
  BY <1>1, <1>3, ReadyStays DEF IInv, Status
<1>5. RatifyInv'
  BY <1>1, <1>2, <1>3 DEF IInv, RatifyInv, Status
<1>6. \A u \in Tasks : Status(u) = "running" => rows'[u] = rows[u]
  BY <1>1 DEF Status
<1>7. \A u \in Tasks :
        (rows[u].run # NULL)' => (Status(u) \in {"running", "committed", "failed"})'
  BY <1>1, <1>2 DEF IInv, RowInv, Status
<1>8. ASSUME NEW j \in Jobs, wpc[j] # "none"
      PROVE  taskOf[j] \in Tasks /\ rows'[taskOf[j]] = rows[taskOf[j]]
  BY <1>1, <1>2, <1>8, NullAssumption DEF IInv, WorkInv
<1>9. WorkInv'
  BY <1>3, <1>4, <1>8 DEF IInv, WorkInv, RecordedStatus, Status
<1>10. QED
  BY <1>3, <1>4, <1>5, <1>6, <1>7, <1>9 DEF Kept

(* The conditional updates of a row that waits, won or lost.               *)
LEMMA SkipKept ==
    ASSUME IInv, NEW t \in Tasks, IF CanSkip(t) THEN SetStatus(t, "skipped") ELSE UNCHANGED journal,
           UNCHANGED <<ratVars, jobVars, wpc, result>>
    PROVE  Kept
<1>1. CASE CanSkip(t)
  <2>1. RowStep(t, "skipped", rows[t].by, rows[t].run)
    BY <1>1, SetStatusStep DEF IInv, TypeOK, TaskStatuses, TerminalTaskStatuses
  <2>2. QED
    BY <1>1, <2>1, WaitingStep DEF CanSkip
<1>2. QED
  BY <1>1, StillKept

(* mark_task_cancelled, for a row that is or is not waiting.               *)
LEMMA CancelKept ==
    ASSUME IInv, NEW t \in Tasks, CancelTask(t), UNCHANGED <<ratVars, jobVars, wpc, result>>
    PROVE  Kept
<1>1. CASE CanCancel(t)
  <2>1. RowStep(t, "cancelled", rows[t].by, rows[t].run)
    BY <1>1, SetStatusStep DEF CancelTask, IInv, TypeOK, TaskStatuses, TerminalTaskStatuses
  <2>2. QED
    BY <1>1, <2>1, WaitingStep DEF CanCancel
<1>2. QED
  BY <1>1, StillKept DEF CancelTask

(* release_stale_claim, for a row that is or is not claimed.               *)
LEMMA ReleaseKept ==
    ASSUME IInv, NEW t \in Tasks, IF CanRelease(t) THEN ReleaseClaim(t) ELSE UNCHANGED journal,
           UNCHANGED <<ratVars, jobVars, wpc, result>>
    PROVE  Kept
<1>1. CASE CanRelease(t)
  <2>1. RowStep(t, "pending", NULL, rows[t].run)
    BY <1>1, ReleaseStep DEF IInv, TypeOK
  <2>2. QED
    BY <1>1, <2>1, WaitingStep DEF CanRelease
<1>2. QED
  BY <1>1, StillKept

(* The steps of a dispatcher on the row of a task that waits.              *)
LEMMA RowOfWaitingStep ==
    ASSUME IInv, NEW d \in Dispatchers,
           SkipNext(d) \/ ClaimNext(d) \/ ReleaseOwnClaim(d) \/ SweepNext(d)
    PROVE  IInv'
<1> USE DEF IInv, TypeOK, Goto
<1>1. CASE SkipNext(d)
  <2>1. PICK t \in First(skip[d]) :
          /\ skip' = [skip EXCEPT ![d] = @ \ {t}]
          /\ IF CanSkip(t) THEN SetStatus(t, "skipped") ELSE UNCHANGED journal
    BY <1>1 DEF SkipNext
  <2>2. t \in Tasks
    BY DEF First
  <2>3. Kept
    BY <1>1, <2>1, <2>2, SkipKept DEF SkipNext
  <2>4. TypeOK'
    BY <1>1, <2>1, <2>3 DEF SkipNext, Kept
  <2>5. GateInv' /\ SnapshotInv' /\ JobInv' /\ RowInv'
    BY <1>1, <2>3 DEF SkipNext, Kept, GateInv, SnapshotInv, JobInv, RowInv, Status, Started,
       Holding, WithJob
  <2>6. QED
    BY <2>3, <2>4, <2>5 DEF Kept
<1>2. CASE ClaimNext(d)
  <2>1. PICK t \in First(chunk[d]) :
          /\ chunk' = [chunk EXCEPT ![d] = @ \ {t}]
          /\ \/ /\ CanClaim(t)
                /\ ClaimTask(t, OwnerOf[d])
                /\ cur' = [cur EXCEPT ![d] = t]
                /\ pc' = [pc EXCEPT ![d] = "create"]
             \/ UNCHANGED <<journal, cur, pc>>
    BY <1>2 DEF ClaimNext
  <2>2. t \in Tasks /\ t \in chunk[d]
    BY DEF First
  <2>3. Ready(t)
    BY <2>2 DEF SnapshotInv
  <2>4. Kept
    <3>1. CASE UNCHANGED journal
      BY <1>2, <3>1, StillKept DEF ClaimNext
    <3>2. CASE CanClaim(t) /\ ClaimTask(t, OwnerOf[d])
      <4>1. RowStep(t, "claimed", OwnerOf[d], rows[t].run)
        BY <2>2, <3>2, ClaimStep, ActorsAssumption
      <4>2. QED
        BY <1>2, <2>2, <3>2, <4>1, WaitingStep DEF ClaimNext, CanClaim
    <3>3. QED
      BY <2>1, <3>1, <3>2
  <2>5. /\ cur' \in [Dispatchers -> Tasks \cup {NULL}]
        /\ chunk' \in [Dispatchers -> SUBSET Tasks]
        /\ pc' = pc \/ pc' = [pc EXCEPT ![d] = "create"]
    BY <2>1, <2>2
  <2>6. TypeOK'
    BY <1>2, <2>4, <2>5 DEF ClaimNext, Kept
  <2>7. GateInv' /\ JobInv' /\ RowInv'
    BY <1>2, <2>1, <2>4 DEF ClaimNext, Kept, GateInv, SnapshotInv, JobInv, RowInv, Status,
       Started,
       Holding, WithJob
  <2>8. SnapshotInv'
    BY <1>2, <2>1, <2>2, <2>3, <2>4 DEF ClaimNext, Kept, SnapshotInv, Holding
  <2>9. QED
    BY <2>4, <2>6, <2>7, <2>8 DEF Kept
<1>3. CASE ReleaseOwnClaim(d)
  <2>1. cur[d] \in Tasks
    BY <1>3 DEF ReleaseOwnClaim, SnapshotInv, Holding
  <2>2. Kept
    BY <1>3, <2>1, ReleaseKept DEF ReleaseOwnClaim
  <2>3. TypeOK'
    BY <1>3, <2>2 DEF ReleaseOwnClaim, Kept
  <2>4. GateInv' /\ SnapshotInv' /\ JobInv' /\ RowInv'
    BY <1>3, <2>2 DEF ReleaseOwnClaim, Kept, GateInv, SnapshotInv, JobInv, RowInv, Status,
       Started,
       Holding, WithJob
  <2>5. QED
    BY <2>2, <2>3, <2>4 DEF Kept
<1>4. CASE SweepNext(d)
  <2>1. PICK t \in First(drop[d]) : drop' = [drop EXCEPT ![d] = @ \ {t}] /\ CancelTask(t)
    BY <1>4 DEF SweepNext
  <2>2. t \in Tasks
    BY DEF First
  <2>3. Kept
    BY <1>4, <2>1, <2>2, CancelKept DEF SweepNext
  <2>4. TypeOK'
    BY <1>4, <2>1, <2>3 DEF SweepNext, Kept
  <2>5. GateInv' /\ SnapshotInv' /\ JobInv' /\ RowInv'
    BY <1>4, <2>3 DEF SweepNext, Kept, GateInv, SnapshotInv, JobInv, RowInv, Status, Started,
       Holding, WithJob
  <2>6. QED
    BY <2>3, <2>4, <2>5 DEF Kept
<1>5. QED
  BY <1>1, <1>2, <1>3, <1>4

(* The steps of a dispatcher on its job, before it has a worker.           *)
LEMMA JobStep ==
    ASSUME IInv, NEW d \in Dispatchers,
           \/ CreateQueueRow(d) \/ CreateRunRow(d) \/ CloseOrphanRun(d) \/ CloseOrphanQueueRow(d)
           \/ Submit(d)
    PROVE  IInv'
<1> USE DEF IInv, TypeOK, Goto
<1>1. CASE CreateQueueRow(d)
  <2>1. PICK j \in First({i \in Jobs : queue[i] = "none"}) :
          /\ queue' = [queue EXCEPT ![j] = "running"]
          /\ taskOf' = [taskOf EXCEPT ![j] = cur[d]]
          /\ madeBy' = [madeBy EXCEPT ![j] = d]
          /\ job' = [job EXCEPT ![d] = j]
    BY <1>1 DEF CreateQueueRow
  <2>2. j \in Jobs /\ queue[j] = "none" /\ wpc[j] = "none"
    BY DEF First, JobInv
  <2>3. TypeOK'
    BY <1>1, <2>1, <2>2 DEF CreateQueueRow, JournalTypeOK
  <2>4. RatifyInv' /\ GateInv' /\ SnapshotInv'
    BY <1>1 DEF CreateQueueRow, RatifyInv, GateInv, SnapshotInv, Ready, Status, Holding
  <2>5. JobInv'
    BY <1>1, <2>1, <2>2 DEF CreateQueueRow, JobInv, WithJob
  <2>6. RowInv' /\ WorkInv'
    BY <1>1, <2>1, <2>2 DEF CreateQueueRow, RowInv, WorkInv, RecordedStatus, Ready, Status
  <2>7. QED
    BY <2>3, <2>4, <2>5, <2>6
<1>2. CASE CreateRunRow(d)
  <2>1. job[d] \in Jobs
    BY <1>2 DEF CreateRunRow, JobInv, WithJob
  <2>2. TypeOK'
    BY <1>2, <2>1 DEF CreateRunRow, JournalTypeOK
  <2>3. RatifyInv' /\ GateInv' /\ SnapshotInv'
    BY <1>2 DEF CreateRunRow, RatifyInv, GateInv, SnapshotInv, Ready, Status, Holding
  <2>4. JobInv' /\ RowInv' /\ WorkInv'
    BY <1>2 DEF CreateRunRow, JobInv, RowInv, WorkInv, RecordedStatus, Ready, Status, WithJob
  <2>5. QED
    BY <2>2, <2>3, <2>4
<1>3. CASE CloseOrphanRun(d)
  <2>1. job[d] \in Jobs
    BY <1>3 DEF CloseOrphanRun, JobInv, WithJob
  <2>2. TypeOK'
    BY <1>3, <2>1 DEF CloseOrphanRun, JournalTypeOK
  <2>3. RatifyInv' /\ GateInv' /\ SnapshotInv'
    BY <1>3 DEF CloseOrphanRun, RatifyInv, GateInv, SnapshotInv, Ready, Status, Holding
  <2>4. JobInv' /\ RowInv' /\ WorkInv'
    BY <1>3 DEF CloseOrphanRun, JobInv, RowInv, WorkInv, RecordedStatus, Ready, Status, WithJob
  <2>5. QED
    BY <2>2, <2>3, <2>4
<1>4. CASE CloseOrphanQueueRow(d)
  <2>1. job[d] \in Jobs
    BY <1>4 DEF CloseOrphanQueueRow, JobInv, WithJob
  <2>2. TypeOK'
    BY <1>4, <2>1 DEF CloseOrphanQueueRow, JournalTypeOK
  <2>3. RatifyInv' /\ GateInv' /\ SnapshotInv'
    BY <1>4 DEF CloseOrphanQueueRow, RatifyInv, GateInv, SnapshotInv, Ready, Status, Holding
  <2>4. JobInv' /\ RowInv' /\ WorkInv'
    BY <1>4 DEF CloseOrphanQueueRow, JobInv, RowInv, WorkInv, RecordedStatus, Ready, Status,
       WithJob
  <2>5. QED
    BY <2>2, <2>3, <2>4
<1>5. CASE Submit(d)
  <2>1. /\ job[d] \in Jobs /\ queue[job[d]] # "none" /\ madeBy[job[d]] = d
        /\ taskOf[job[d]] = cur[d] /\ wpc[job[d]] = "none"
    BY <1>5 DEF Submit, JobInv, WithJob
  <2>2. /\ cur[d] \in Tasks /\ Ready(cur[d]) /\ rows[cur[d]].run = job[d]
        /\ rows[cur[d]].by = OwnerOf[d] /\ Status(cur[d]) = "running"
    BY <1>5 DEF Submit, SnapshotInv, RowInv, Holding
  <2>3. wpc' \in [Jobs -> LiveWork \cup {"none", "done", "dead"}]
    BY <1>5, <2>1 DEF Submit, LiveWork
  <2>4. waits' \in [Dispatchers -> SUBSET Jobs]
    BY <1>5, <2>1 DEF Submit
  <2>5. TypeOK'
    BY <1>5, <2>3, <2>4 DEF Submit, JournalTypeOK
  <2>6. RatifyInv' /\ GateInv' /\ SnapshotInv'
    BY <1>5 DEF Submit, RatifyInv, GateInv, SnapshotInv, Ready, Status, Holding
  <2>7. pstatus \in Started
    BY <1>5 DEF Submit, GateInv
  <2>8. RowInv' /\ WorkInv'
    BY <1>5, <2>1, <2>2, <2>7 DEF Submit, RowInv, WorkInv, RecordedStatus, Ready, Status
  <2>9. ASSUME NEW e \in Dispatchers, e # d, pc[e] \in WithJob PROVE job[e] # job[d]
    BY <2>1, <2>9 DEF JobInv
  <2>10. JobInv'
    BY <1>5, <2>1, <2>9 DEF Submit, JobInv, WithJob
  <2>11. QED
    BY <2>5, <2>6, <2>8, <2>10
<1>6. QED
  BY <1>1, <1>2, <1>3, <1>4, <1>5

(* mark_task_running: the row of a claimed task becomes the job's own.     *)
LEMMA MarkStep ==
    ASSUME IInv, NEW d \in Dispatchers, MarkRunningWon(d)
    PROVE  IInv'
<1> USE DEF IInv, TypeOK, Goto
<1> DEFINE t == cur[d]
<1>1. /\ t \in Tasks /\ Ready(t)
      /\ job[d] \in Jobs /\ madeBy[job[d]] = d /\ taskOf[job[d]] = t /\ wpc[job[d]] = "none"
  BY DEF MarkRunningWon, SnapshotInv, JobInv, Holding, WithJob
<1>2. Status(t) = "claimed" /\ rows[t].by = OwnerOf[d] /\ rows[t].run = NULL
  BY <1>1 DEF MarkRunningWon, CanMarkRunning, RowInv
<1>3. RowStep(t, "running", rows[t].by, job[d])
  BY <1>1, RunningStep DEF MarkRunningWon
<1>4. /\ JournalTypeOK' /\ UNCHANGED <<pstatus, ratified>>
      /\ \A u \in Tasks : u # t => rows'[u] = rows[u]
      /\ rows'[t].status = "running" /\ rows'[t].by = OwnerOf[d] /\ rows'[t].run = job[d]
  BY <1>2, <1>3 DEF RowStep
<1>5. TypeOK'
  BY <1>4 DEF MarkRunningWon
<1>6. \A u : Ready(u) => Ready(u)'
  BY <1>2, <1>4, ReadyStays DEF Status
<1>7. RatifyInv' /\ GateInv' /\ SnapshotInv'
  BY <1>1, <1>2, <1>4, <1>6 DEF MarkRunningWon, RatifyInv, GateInv, SnapshotInv, Started,
     Holding, Status
<1>8. JobInv'
  BY DEF MarkRunningWon, JobInv, WithJob
<1>9. \A e \in Dispatchers : pc[e] = "submit" => cur[e] \in Tasks /\ rows'[cur[e]] = rows[cur[e]]
  BY <1>2, <1>4 DEF RowInv, SnapshotInv, Holding
<1>10. RowInv'
  BY <1>1, <1>4, <1>9 DEF MarkRunningWon, RowInv, Status
<1>11. \A j \in Jobs : wpc[j] # "none" => taskOf[j] \in Tasks /\ rows'[taskOf[j]] = rows[taskOf[j]]
  BY <1>2, <1>4, NullAssumption DEF WorkInv
<1>12. WorkInv'
  BY <1>4, <1>6, <1>11 DEF MarkRunningWon, WorkInv, RecordedStatus, Status
<1>13. QED
  BY <1>5, <1>7, <1>8, <1>10, <1>12

(* The steps of a dispatcher on the partition row, and its death.          *)
LEMMA StatusStep ==
    ASSUME IInv, NEW d \in Dispatchers, GateWin(d) \/ SweepRead(d) \/ Settle(d) \/ Crash(d)
    PROVE  IInv'
<1> USE DEF IInv, TypeOK, Goto
<1>1. CASE GateWin(d)
  <2>1. pstatus = "ratified" /\ pstatus' = "dispatching" /\ UNCHANGED <<ratified, rows>>
    BY <1>1 DEF GateWin, Transition
  <2>2. TypeOK'
    BY <1>1, <2>1 DEF GateWin, JournalTypeOK, PartitionStatuses
  <2>3. RatifyInv' /\ GateInv' /\ SnapshotInv'
    BY <1>1, <2>1 DEF GateWin, RatifyInv, GateInv, SnapshotInv, Started, Ready, Status, Holding
  <2>4. JobInv' /\ RowInv' /\ WorkInv'
    BY <1>1, <2>1 DEF GateWin, JobInv, RowInv, WorkInv, RecordedStatus, Started, Ready,
       Status, WithJob
  <2>5. QED
    BY <2>2, <2>3, <2>4
<1>2. CASE SweepRead(d)
  <2> DEFINE left == CancelSnapshot(doc[d].tasks \ seen[d])
  <2>1. /\ drop' = [drop EXCEPT ![d] = left]
        /\ flagged' \subseteq Jobs
    BY <1>2 DEF SweepRead, RequestCancel
  <2>2. left \subseteq Tasks
    BY <1>2, WaveOfPlan DEF SweepRead, CancelSnapshot
  <2>3. drop' \in [Dispatchers -> SUBSET Tasks]
    BY <2>1, <2>2
  <2>4. TypeOK'
    BY <1>2, <2>1, <2>3 DEF SweepRead, JournalTypeOK
  <2>5. RatifyInv' /\ GateInv' /\ SnapshotInv'
    BY <1>2 DEF SweepRead, RatifyInv, GateInv, SnapshotInv, Ready, Status, Holding
  <2>6. JobInv' /\ RowInv' /\ WorkInv'
    BY <1>2 DEF SweepRead, JobInv, RowInv, WorkInv, RecordedStatus, Ready, Status, WithJob
  <2>7. QED
    BY <2>4, <2>5, <2>6
<1>3. CASE Settle(d)
  <2>1. /\ UNCHANGED <<ratified, rows>>
        /\ \/ pstatus' = pstatus
           \/ pstatus = "dispatching" /\ pstatus' \in {"completed", "failed"}
    BY <1>3 DEF Settle, Transition
  <2>2. TypeOK'
    BY <1>3, <2>1 DEF Settle, JournalTypeOK, PartitionStatuses
  <2>3. RatifyInv' /\ GateInv' /\ SnapshotInv'
    BY <1>3, <2>1 DEF Settle, RatifyInv, GateInv, SnapshotInv, Started, Ready, Status, Holding
  <2>4. JobInv' /\ RowInv' /\ WorkInv'
    BY <1>3, <2>1 DEF Settle, JobInv, RowInv, WorkInv, RecordedStatus, Started, Ready, Status,
       WithJob
  <2>5. QED
    BY <2>2, <2>3, <2>4
<1>4. CASE Crash(d)
  <2>1. \A j \in Jobs : wpc'[j] = wpc[j] \/ (wpc[j] \in LiveWork /\ wpc'[j] = "dead")
    BY <1>4 DEF Crash
  <2>2. wpc' \in [Jobs -> LiveWork \cup {"none", "done", "dead"}]
    BY <1>4 DEF Crash
  <2>3. TypeOK'
    BY <1>4, <2>2 DEF Crash, JournalTypeOK
  <2>4. RatifyInv' /\ GateInv' /\ SnapshotInv'
    BY <1>4 DEF Crash, RatifyInv, GateInv, SnapshotInv, Ready, Status, Holding
  <2>5. JobInv' /\ RowInv'
    BY <1>4, <2>1 DEF Crash, JobInv, RowInv, Status, WithJob, LiveWork
  <2>6. WorkInv'
    BY <1>4, <2>1 DEF Crash, WorkInv, RecordedStatus, Ready, Status, LiveWork
  <2>7. QED
    BY <2>3, <2>4, <2>5, <2>6
<1>5. QED
  BY <1>1, <1>2, <1>3, <1>4

(* The steps of a worker.                                                  *)
LEMMA WorkStep ==
    ASSUME IInv, NEW j \in Jobs, Work(j)
    PROVE  IInv'
<1> USE DEF IInv, TypeOK
<1>1. CASE StepBoundary(j)
  <2>1. TypeOK'
    BY <1>1 DEF StepBoundary, JournalTypeOK, LiveWork
  <2>2. RatifyInv' /\ GateInv' /\ SnapshotInv'
    BY <1>1 DEF StepBoundary, RatifyInv, GateInv, SnapshotInv, Ready, Status, Holding
  <2>3. JobInv' /\ RowInv' /\ WorkInv'
    BY <1>1 DEF StepBoundary, JobInv, RowInv, WorkInv, RecordedStatus, Ready, Status, WithJob
  <2>4. QED
    BY <2>1, <2>2, <2>3
<1>2. ASSUME NEW outcome \in Outcomes, PipelineReturns(j, outcome) PROVE IInv'
  <2>1. result' \in [Jobs -> {"none", "success", "checkpoint", "failure"}]
    BY <1>2 DEF PipelineReturns, Outcomes
  <2>2. wpc' \in [Jobs -> LiveWork \cup {"none", "done", "dead"}]
    BY <1>2 DEF PipelineReturns, LiveWork
  <2>3. TypeOK'
    BY <1>2, <2>1, <2>2 DEF PipelineReturns, JournalTypeOK
  <2>4. RatifyInv' /\ GateInv' /\ SnapshotInv'
    BY <1>2 DEF PipelineReturns, RatifyInv, GateInv, SnapshotInv, Ready, Status, Holding
  <2>5. JobInv' /\ RowInv'
    BY <1>2 DEF PipelineReturns, JobInv, RowInv, Status, WithJob
  <2>6. WorkInv'
    BY <1>2 DEF PipelineReturns, WorkInv, RecordedStatus, Ready, Status
  <2>7. QED
    BY <2>3, <2>4, <2>5, <2>6
<1>3. CASE RecordSuccess(j) \/ RecordFailure(j)
  <2> DEFINE t == taskOf[j]
             end == IF wpc[j] = "passed" THEN "committed" ELSE "failed"
  <2>1. /\ t \in Tasks /\ madeBy[j] \in Dispatchers
        /\ rows[t].run = j /\ rows[t].by = OwnerOf[madeBy[j]] /\ Status(t) = "running"
        /\ wpc[j] = "passed" => result[j] # "failure"
        /\ wpc[j] = "broken" => result[j] = "failure"
    BY <1>3 DEF RecordSuccess, RecordFailure, WorkInv, RecordedStatus
  <2>2. SetStatus(t, end)
    BY <1>3, <2>1 DEF RecordSuccess, RecordFailure, CanCommit, CanFail
  <2>3. RowStep(t, end, rows[t].by, rows[t].run)
    BY <2>1, <2>2, SetStatusStep DEF TaskStatuses, TerminalTaskStatuses
  <2>4. /\ JournalTypeOK' /\ UNCHANGED <<pstatus, ratified>>
        /\ \A u \in Tasks : u # t => rows'[u] = rows[u]
        /\ rows'[t].status = end /\ rows'[t].by = rows[t].by /\ rows'[t].run = j
    BY <2>1, <2>3 DEF RowStep
  <2>5. wpc[j] \in {"passed", "broken"} /\ wpc' = [wpc EXCEPT ![j] = "mirror"]
    BY <1>3 DEF RecordSuccess, RecordFailure
  <2>6. UNCHANGED <<jobVars, result, flagged, RestOfWork>>
    BY <1>3 DEF RecordSuccess, RecordFailure
  <2>7. TypeOK'
    BY <2>4, <2>5, <2>6 DEF LiveWork
  <2>8. \A u : Ready(u) => Ready(u)'
    BY <2>1, <2>4, ReadyStays DEF Status
  <2>9. RatifyInv' /\ GateInv' /\ SnapshotInv'
    BY <2>1, <2>4, <2>6, <2>8 DEF RatifyInv, GateInv, SnapshotInv, Started, Holding, Status
  <2>10. JobInv'
    BY <2>5, <2>6 DEF JobInv, WithJob
  <2>11. \A e \in Dispatchers : pc[e] = "submit" => cur[e] \in Tasks /\ cur[e] # t
    BY <2>1, <2>5 DEF RowInv, SnapshotInv, JobInv, Holding, WithJob
  <2>12. RowInv'
    BY <2>4, <2>6, <2>11 DEF RowInv, Status
  <2>13. \A i \in Jobs : wpc[i] # "none" /\ i # j => taskOf[i] \in Tasks /\ taskOf[i] # t
    BY <2>1 DEF WorkInv
  <2>14. WorkInv'
    BY <2>1, <2>4, <2>5, <2>6, <2>8, <2>13 DEF WorkInv, RecordedStatus, Status
  <2>15. QED
    BY <2>7, <2>9, <2>10, <2>12, <2>14
<1>4. CASE MirrorQueueRow(j)
  <2>1. TypeOK'
    BY <1>4 DEF MirrorQueueRow, JournalTypeOK
  <2>2. RatifyInv' /\ GateInv' /\ SnapshotInv'
    BY <1>4 DEF MirrorQueueRow, RatifyInv, GateInv, SnapshotInv, Ready, Status, Holding
  <2>3. JobInv' /\ RowInv'
    BY <1>4 DEF MirrorQueueRow, JobInv, RowInv, Status, WithJob
  <2>4. WorkInv'
    BY <1>4 DEF MirrorQueueRow, WorkInv, RecordedStatus, Ready, Status
  <2>5. QED
    BY <2>1, <2>2, <2>3, <2>4
<1>5. QED
  BY <1>1, <1>2, <1>3, <1>4 DEF Work

(* What cancellation, reconciliation and the environment leave to prove.   *)
LEMMA OutsideStep ==
    ASSUME IInv, Kept, UNCHANGED <<ratVars, dispVars, jobVars, wpc, result>>
    PROVE  RatifyInv' /\ GateInv' /\ SnapshotInv' /\ JobInv' /\ RowInv' /\ WorkInv'
BY DEF Kept, IInv, TypeOK, GateInv, SnapshotInv, JobInv, RowInv, Status, Started, Holding,
   WithJob

(* The steps of cancel_partition preserve the inductive invariant.         *)
LEMMA CancelStep ==
    ASSUME IInv, NEW c \in Cancellers, Cancel(c)
    PROVE  IInv'
<1> USE DEF IInv, TypeOK
<1>1. CASE CancelRead(c) \/ CancelList(c)
  <2>1. Kept
    BY <1>1, StillKept DEF CancelRead, CancelList
  <2>2. cdrop' \in [Cancellers -> SUBSET Tasks] /\ flagged' \subseteq Jobs
    BY <1>1 DEF CancelRead, CancelList, CancelSnapshot, RequestCancel
  <2>3. csaw' \in [Cancellers -> PartitionStatuses \cup {NULL}]
    BY <1>1 DEF CancelRead, CancelList, JournalTypeOK
  <2>4. cpc' \in [Cancellers -> {"idle", "veto", "list", "done"}]
    BY <1>1 DEF CancelRead, CancelList
  <2>5. TypeOK'
    BY <1>1, <2>1, <2>2, <2>3, <2>4 DEF CancelRead, CancelList, Kept
  <2>6. QED
    BY <1>1, <2>1, <2>5, OutsideStep DEF CancelRead, CancelList
<1>2. CASE CancelVeto(c)
  <2>1. /\ UNCHANGED <<ratified, rows>>
        /\ \/ pstatus' = pstatus
           \/ pstatus = "proposed" /\ pstatus' = "vetoed"
    BY <1>2 DEF CancelVeto, Transition
  <2>2. TypeOK'
    BY <1>2, <2>1 DEF CancelVeto, JournalTypeOK, PartitionStatuses
  <2>3. RatifyInv' /\ GateInv' /\ SnapshotInv'
    BY <1>2, <2>1 DEF CancelVeto, RatifyInv, GateInv, SnapshotInv, Started, Ready, Status,
       Holding
  <2>4. JobInv' /\ RowInv' /\ WorkInv'
    BY <1>2, <2>1 DEF CancelVeto, JobInv, RowInv, WorkInv, RecordedStatus, Started, Ready,
       Status,
       WithJob
  <2>5. QED
    BY <2>2, <2>3, <2>4
<1>3. CASE CancelNext(c)
  <2>1. PICK t \in First(cdrop[c]) : cdrop' = [cdrop EXCEPT ![c] = @ \ {t}] /\ CancelTask(t)
    BY <1>3 DEF CancelNext
  <2>2. t \in Tasks
    BY DEF First
  <2>3. Kept
    BY <1>3, <2>1, <2>2, CancelKept DEF CancelNext
  <2>4. TypeOK'
    BY <1>3, <2>1, <2>3 DEF CancelNext, Kept
  <2>5. QED
    BY <1>3, <2>3, <2>4, OutsideStep DEF CancelNext
<1>4. QED
  BY <1>1, <1>2, <1>3 DEF Cancel

(* The steps of reconcile_stale_claims preserve the inductive invariant.   *)
LEMMA ReconcileStep ==
    ASSUME IInv, NEW x \in Reconcilers, Reconcile(x)
    PROVE  IInv'
<1> USE DEF IInv, TypeOK
<1>1. CASE ReconcileRead(x)
  <2>1. Kept
    BY <1>1, StillKept DEF ReconcileRead
  <2>2. TypeOK'
    BY <1>1 DEF ReconcileRead, StaleClaims, JournalTypeOK
  <2>3. QED
    BY <1>1, <2>1, <2>2, OutsideStep DEF ReconcileRead
<1>2. CASE ReconcileNext(x)
  <2>1. PICK t \in xlist[x] :
          /\ xlist' = [xlist EXCEPT ![x] = @ \ {t}]
          /\ IF CanRelease(t) THEN ReleaseClaim(t) ELSE UNCHANGED journal
    BY <1>2 DEF ReconcileNext
  <2>2. t \in Tasks
    OBVIOUS
  <2>3. Kept
    BY <1>2, <2>1, <2>2, ReleaseKept DEF ReconcileNext
  <2>4. TypeOK'
    BY <1>2, <2>1, <2>3 DEF ReconcileNext, Kept
  <2>5. QED
    BY <1>2, <2>3, <2>4, OutsideStep DEF ReconcileNext
<1>3. QED
  BY <1>1, <1>2 DEF Reconcile

(* Ageing, expiry and the kill switch preserve the inductive invariant.    *)
LEMMA EnvironmentStep ==
    ASSUME IInv, (\E t \in Tasks : Age(t)) \/ Expire \/ KillSwitch
    PROVE  IInv'
<1> USE DEF IInv, TypeOK
<1>1. ASSUME NEW t \in Tasks, Age(t) PROVE IInv'
  <2>1. RowStep(t, "claimed", rows[t].by, rows[t].run)
    BY <1>1, AgeStep DEF Age, ClaimAges
  <2>2. Kept
    BY <1>1, <2>1, WaitingStep DEF Age, ClaimAges
  <2>3. TypeOK'
    BY <1>1, <2>2 DEF Age, Kept
  <2>4. QED
    BY <1>1, <2>2, <2>3, OutsideStep DEF Age
<1>2. CASE Expire
  <2>1. pstatus = "proposed" /\ pstatus' = "expired" /\ UNCHANGED <<ratified, rows>>
    BY <1>2 DEF Expire, Transition
  <2>2. TypeOK'
    BY <1>2, <2>1 DEF Expire, JournalTypeOK, PartitionStatuses
  <2>3. RatifyInv' /\ GateInv' /\ SnapshotInv'
    BY <1>2, <2>1 DEF Expire, RatifyInv, GateInv, SnapshotInv, Started, Ready, Status, Holding
  <2>4. JobInv' /\ RowInv' /\ WorkInv'
    BY <1>2, <2>1 DEF Expire, JobInv, RowInv, WorkInv, RecordedStatus, Started, Ready, Status,
       WithJob
  <2>5. QED
    BY <2>2, <2>3, <2>4
<1>3. CASE KillSwitch
  <2>1. Kept
    BY <1>3, StillKept DEF KillSwitch
  <2>2. TypeOK'
    BY <1>3 DEF KillSwitch, JournalTypeOK
  <2>3. QED
    BY <1>3, <2>1, <2>2, OutsideStep DEF KillSwitch
<1>4. QED
  BY <1>1, <1>2, <1>3

(* So does a step that changes nothing.                                    *)
LEMMA StutterStep ==
    ASSUME IInv, UNCHANGED vars
    PROVE  IInv'
<1>1. Kept
  BY StillKept
<1>2. TypeOK'
  BY DEF IInv, TypeOK, JournalTypeOK
<1>3. QED
  BY <1>1, <1>2, OutsideStep DEF IInv

(* Every step of the system preserves the inductive invariant.             *)
THEOREM NextIInv == IInv /\ [Next]_vars => IInv'
<1> SUFFICES ASSUME IInv, [Next]_vars PROVE IInv'
  OBVIOUS
<1>1. ASSUME NEW d \in Dispatchers, Dispatch(d) \/ Crash(d) PROVE IInv'
  BY <1>1, LocalStep, RowOfWaitingStep, JobStep, MarkStep, StatusStep DEF Dispatch
<1>2. CASE UNCHANGED vars
  BY <1>2, StutterStep
<1>3. QED
  BY <1>1, <1>2, RatifyStep, WorkStep, CancelStep, ReconcileStep, EnvironmentStep DEF Next

(* The inductive invariant holds throughout, whatever the plans, the       *)
(* number of threads, the faults and the crashes.                          *)
THEOREM IInvAlways == Spec => []IInv
BY InitIInv, NextIInv, PTL DEF Spec

-----------------------------------------------------------------------------
(* Every variable of the dispatch keeps its type (TypeOK).                 *)
THEOREM TypeCorrect == Spec => []TypeOK
<1>1. IInv => TypeOK
  BY DEF IInv
<1>2. QED
  BY <1>1, IInvAlways, PTL

(* No task reaches two workers: claim_task, mark_task_running and          *)
(* release_stale_claim together let one job own a task's row (OneSubmission). *)
THEOREM SubmittedOnce == Spec => []OneSubmission
<1>1. IInv => OneSubmission
  BY DEF IInv, WorkInv, OneSubmission
<1>2. QED
  BY <1>1, IInvAlways, PTL

(* Only tasks of the ratified plan start, and only after the commit of     *)
(* every prerequisite, though the snapshot dispatch_partition decided from *)
(* may be old (StartedAsRatified).                                         *)
THEOREM StartsAsRatified == Spec => []StartedAsRatified
<1>1. IInv => StartedAsRatified
  BY DEF IInv, WorkInv, Ready, Started, StartedAsRatified
<1>2. QED
  BY <1>1, IInvAlways, PTL

(* mark_task_cancelled and mark_task_skipped never hit a task that was     *)
(* submitted (AbandonedNeverRan).                                          *)
THEOREM NeverRunsAbandoned == Spec => []AbandonedNeverRan
<1>1. IInv => AbandonedNeverRan
  BY NullAssumption DEF IInv, WorkInv, RowInv, AbandonedNeverRan
<1>2. QED
  BY <1>1, IInvAlways, PTL

(* The conditional UPDATE by which a worker records its outcome never      *)
(* misses the row (OutcomeRecorded).                                       *)
THEOREM RecordsOutcomes == Spec => []OutcomeRecorded
<1>1. IInv => OutcomeRecorded
  BY DEF IInv, WorkInv, RecordedStatus, OutcomeRecorded
<1>2. QED
  BY <1>1, IInvAlways, PTL

-----------------------------------------------------------------------------
(* What a step of anyone does to the journal, as the plan's owner sees it. *)

Waiting == {"absent", "pending", "claimed"}

Silent ==
    /\ UNCHANGED ratified
    /\ \A t \in Tasks : rows'[t] = rows[t] \/ (Status(t) \in Waiting /\ rows'[t].status \in Waiting)

Moves(t, from, to) ==
    /\ UNCHANGED ratified
    /\ \A u \in Tasks : u # t => rows'[u] = rows[u]
    /\ Status(t) \in from /\ rows'[t].status \in to

Visible ==
    \/ ratified = NULL /\ ratified' \in Plans /\ UNCHANGED rows
    \/ \E t \in Tasks : Ready(t) /\ Moves(t, Waiting, {"running"})
    \/ \E t \in Tasks : Moves(t, {"running"}, {"committed", "failed"})
    \/ \E t \in Tasks : ratified # NULL /\ Moves(t, Waiting, {"skipped", "cancelled"})

(* A conditional update of a waiting row is silent or a task's abandoning. *)
LEMMA UpdateSeen ==
    ASSUME IInv, NEW t \in Tasks,
           \/ IF CanSkip(t) THEN SetStatus(t, "skipped") ELSE UNCHANGED journal
           \/ IF CanRelease(t) THEN ReleaseClaim(t) ELSE UNCHANGED journal
           \/ CancelTask(t)
           \/ ClaimAges(t)
           \/ \E o \in Owners : CanClaim(t) /\ ClaimTask(t, o)
    PROVE  Silent \/ Visible
<1> USE DEF IInv, TypeOK
<1>1. CASE UNCHANGED journal
  BY <1>1 DEF Silent
<1>2. CASE \/ CanSkip(t) /\ SetStatus(t, "skipped")
           \/ CanCancel(t) /\ SetStatus(t, "cancelled")
  <2>1. PICK s \in {"skipped", "cancelled"} :
          SetStatus(t, s) /\ Status(t) \in {"pending", "claimed"}
    BY <1>2 DEF CanSkip, CanCancel
  <2>2. RowStep(t, s, rows[t].by, rows[t].run)
    BY <2>1, SetStatusStep DEF TaskStatuses, TerminalTaskStatuses
  <2>3. Moves(t, Waiting, {"skipped", "cancelled"}) /\ ratified # NULL
    BY <2>1, <2>2 DEF RowStep, Moves, Waiting, RatifyInv
  <2>4. QED
    BY <2>3 DEF Visible
<1>3. CASE \/ CanRelease(t) /\ ReleaseClaim(t)
           \/ ClaimAges(t)
           \/ \E o \in Owners : CanClaim(t) /\ ClaimTask(t, o)
  <2>1. Status(t) \in Waiting
    BY <1>3 DEF CanRelease, CanClaim, ClaimAges, Waiting
  <2>2. PICK s \in Waiting, by \in Owners \cup {NULL} : RowStep(t, s, by, rows[t].run)
    <3>1. CASE CanRelease(t) /\ ReleaseClaim(t)
      BY <3>1, ReleaseStep DEF Waiting
    <3>2. CASE ClaimAges(t)
      BY <2>1, <3>2, AgeStep DEF JournalTypeOK, TaskRow
    <3>3. ASSUME NEW o \in Owners, ClaimTask(t, o) PROVE RowStep(t, "claimed", o, rows[t].run)
      BY <3>3, ClaimStep
    <3>4. QED
      BY <1>3, <3>1, <3>2, <3>3 DEF Waiting
  <2>3. QED
    BY <2>1, <2>2 DEF RowStep, Silent
<1>4. QED
  BY <1>1, <1>2, <1>3 DEF CancelTask

(* So every step of the system is silent or one of four visible ones.      *)
LEMMA StepSeen ==
    ASSUME IInv, [Next]_vars
    PROVE  Silent \/ Visible
<1> USE DEF IInv, TypeOK
<1>1. CASE UNCHANGED <<ratified, rows>>
  BY <1>1 DEF Silent
<1>2. ASSUME NEW r \in Ratifiers, Ratify(r) \/ RatifyCrash(r) PROVE Silent \/ Visible
  <2>1. CASE RatifyWin(r)
    <3>1. ratified = NULL /\ ratified' = rdoc[r] /\ rdoc[r] \in Plans /\ UNCHANGED rows
      BY <2>1 DEF RatifyWin, RatifyRow, RatifyInv
    <3>2. QED
      BY <3>1 DEF Visible
  <2>2. CASE RatifyInsert(r)
    <3>1. InsertTaskRows(rdoc[r]) /\ rdoc[r] \in Plans
      BY <2>2 DEF RatifyInsert, RatifyInv
    <3>2. QED
      BY <3>1, InsertStep DEF InsertTaskRows, Silent, Waiting, Status
  <2>3. QED
    BY <1>1, <1>2, <2>1, <2>2 DEF Ratify, RatifyAdmit, RatifyDeny, RatifyLose, RatifyCrash
<1>3. ASSUME NEW d \in Dispatchers, Dispatch(d) \/ Crash(d) PROVE Silent \/ Visible
  <2>1. CASE SkipNext(d)
    BY <2>1, UpdateSeen DEF SkipNext, First
  <2>2. CASE ClaimNext(d)
    <3>1. OwnerOf[d] \in Owners
      BY ActorsAssumption
    <3>2. PICK t \in First(chunk[d]) :
            (CanClaim(t) /\ ClaimTask(t, OwnerOf[d])) \/ UNCHANGED journal
      BY <2>2 DEF ClaimNext
    <3>3. t \in Tasks
      BY DEF First
    <3>4. QED
      BY <1>1, <3>1, <3>2, <3>3, UpdateSeen
  <2>3. CASE ReleaseOwnClaim(d)
    <3>1. cur[d] \in Tasks
      BY <2>3 DEF ReleaseOwnClaim, SnapshotInv, Holding
    <3>2. QED
      BY <2>3, <3>1, UpdateSeen DEF ReleaseOwnClaim
  <2>4. CASE SweepNext(d)
    BY <2>4, UpdateSeen DEF SweepNext, First
  <2>5. CASE MarkRunningWon(d)
    <3>1. cur[d] \in Tasks /\ Ready(cur[d]) /\ job[d] \in Jobs /\ Status(cur[d]) = "claimed"
      BY <2>5 DEF MarkRunningWon, CanMarkRunning, SnapshotInv, JobInv, Holding, WithJob
    <3>2. RowStep(cur[d], "running", rows[cur[d]].by, job[d])
      BY <2>5, <3>1, RunningStep DEF MarkRunningWon
    <3>3. Moves(cur[d], Waiting, {"running"})
      BY <3>1, <3>2 DEF RowStep, Moves, Waiting
    <3>4. QED
      BY <3>1, <3>3 DEF Visible
  <2>6. CASE GateWin(d) \/ Settle(d)
    BY <1>1, <2>6 DEF GateWin, Settle, Transition
  <2>7. QED
    BY <1>1, <1>3, <2>1, <2>2, <2>3, <2>4, <2>5, <2>6
    DEF Dispatch, Begin, GateLose, GateReread, WaveProceed, WaveHalt, ReadWave, TakeChunk,
        CreateQueueRow, CreateRunRow, CreateFails, MarkRunningLost, CloseOrphanRun,
        CloseOrphanQueueRow, Submit, WaitNext, WaveEnd, SweepRead, FinalRead, Crash
<1>4. ASSUME NEW j \in Jobs, Work(j) PROVE Silent \/ Visible
  <2>1. CASE RecordSuccess(j) \/ RecordFailure(j)
    <3>1. taskOf[j] \in Tasks /\ Status(taskOf[j]) = "running"
      BY <2>1 DEF RecordSuccess, RecordFailure, WorkInv, RecordedStatus
    <3>2. CASE UNCHANGED journal
      BY <1>1, <3>2
    <3>3. ASSUME NEW s \in {"committed", "failed"}, SetStatus(taskOf[j], s) PROVE Visible
      <4>1. RowStep(taskOf[j], s, rows[taskOf[j]].by, rows[taskOf[j]].run)
        BY <3>1, <3>3, SetStatusStep DEF TaskStatuses, TerminalTaskStatuses
      <4>2. Moves(taskOf[j], {"running"}, {"committed", "failed"})
        BY <3>1, <4>1 DEF RowStep, Moves
      <4>3. QED
        BY <3>1, <4>2 DEF Visible
    <3>4. QED
      BY <2>1, <3>2, <3>3 DEF RecordSuccess, RecordFailure
  <2>2. QED
    BY <1>1, <1>4, <2>1 DEF Work, StepBoundary, PipelineReturns, MirrorQueueRow
<1>5. ASSUME NEW c \in Cancellers, Cancel(c) PROVE Silent \/ Visible
  <2>1. CASE CancelNext(c)
    BY <2>1, UpdateSeen DEF CancelNext, First
  <2>2. QED
    BY <1>1, <1>5, <2>1 DEF Cancel, CancelRead, CancelVeto, CancelList, Transition
<1>6. ASSUME NEW x \in Reconcilers, Reconcile(x) PROVE Silent \/ Visible
  <2>1. CASE ReconcileNext(x)
    BY <2>1, UpdateSeen DEF ReconcileNext
  <2>2. QED
    BY <1>1, <1>6, <2>1 DEF Reconcile, ReconcileRead
<1>7. ASSUME NEW t \in Tasks, Age(t) PROVE Silent \/ Visible
  BY <1>7, UpdateSeen DEF Age
<1>8. CASE Expire \/ KillSwitch
  BY <1>1, <1>8 DEF Expire, KillSwitch, Transition
<1>9. QED
  BY <1>1, <1>2, <1>3, <1>4, <1>5, <1>6, <1>7, <1>8 DEF Next

(* No step rewrites a terminal task row or the ratified document           *)
(* (HistoryStands).                                                        *)
THEOREM HistoryIsKept == Spec => HistoryStands
<1> DEFINE Stands == /\ ratified # NULL => ratified' = ratified
                     /\ \A t \in Tasks : Status(t) \in TerminalTaskStatuses => rows'[t] = rows[t]
<1>1. IInv /\ [Next]_vars => [Stands]_vars
  BY StepSeen DEF Silent, Visible, Moves, Waiting, TerminalTaskStatuses
<1>2. QED
  BY <1>1, IInvAlways, PTL DEF Spec, HistoryStands

(* The dispatch implements the promise: every step is a step of it or      *)
(* invisible to it.                                                        *)
THEOREM PromiseIsKept == Spec => KeepsPromise
<1>1. Init => Promise!Init
  BY DEF Init, JournalInit, AbsentRow, Stage, Status, Promise!Init
<1>2. IInv /\ [Next]_vars => [Promise!Next]_Promise!vars
  <2> SUFFICES ASSUME IInv, [Next]_vars PROVE [Promise!Next]_Promise!vars
    OBVIOUS
  <2>1. CASE Silent
    <3>1. UNCHANGED Stage
      BY <2>1 DEF Silent, Waiting, Stage, Status
    <3>2. QED
      BY <2>1, <3>1 DEF Silent, Promise!vars
  <2>2. ASSUME NEW t \in Tasks, NEW from, NEW to, Moves(t, from, to)
        PROVE  /\ Stage' = [Stage EXCEPT ![t] = Stage'[t]]
               /\ UNCHANGED ratified
    BY <2>2 DEF Moves, Stage, Status
  <2>3. ASSUME NEW t \in Tasks, Ready(t), Moves(t, Waiting, {"running"}) PROVE Promise!Start(t)
    <3>1. Stage[t] = "waiting" /\ Stage'[t] = "live"
      BY <2>3 DEF Moves, Waiting, Stage, Status
    <3>2. \A dep \in ratified.deps[t] : Stage[dep] = "committed"
      BY <2>3, PlanClosed DEF Ready, Stage, IInv, TypeOK, JournalTypeOK
    <3>3. QED
      BY <2>2, <2>3, <3>1, <3>2 DEF Ready, Promise!Start
  <2>4. ASSUME NEW t \in Tasks, Moves(t, {"running"}, {"committed", "failed"})
        PROVE  \E outcome \in {"committed", "failed"} : Promise!End(t, outcome)
    <3>1. Stage[t] = "live" /\ Stage'[t] \in {"committed", "failed"}
      BY <2>4 DEF Moves, Stage, Status
    <3>2. QED
      BY <2>2, <2>4, <3>1 DEF Promise!End
  <2>5. ASSUME NEW t \in Tasks, ratified # NULL, Moves(t, Waiting, {"skipped", "cancelled"})
        PROVE  \E outcome \in {"skipped", "cancelled"} : Promise!Abandon(t, outcome)
    <3>1. Stage[t] = "waiting" /\ Stage'[t] \in {"skipped", "cancelled"}
      BY <2>5 DEF Moves, Waiting, Stage, Status
    <3>2. QED
      BY <2>2, <2>5, <3>1 DEF Promise!Abandon
  <2>6. ASSUME ratified = NULL, ratified' \in Plans, UNCHANGED rows
        PROVE  \E plan \in Plans : Promise!Approve(plan)
    <3>1. UNCHANGED Stage
      BY <2>6 DEF Stage, Status
    <3>2. QED
      BY <2>6, <3>1 DEF Promise!Approve
  <2>7. CASE Visible
    BY <2>3, <2>4, <2>5, <2>6, <2>7 DEF Visible, Promise!Next
  <2>8. QED
    BY <2>1, <2>7, StepSeen
<1>3. QED
  BY <1>1, <1>2, IInvAlways, PTL DEF Spec, KeepsPromise, Promise!Spec

-----------------------------------------------------------------------------
(* What holds beyond that where every dispatch follows a ratification, as  *)
(* in the API and the CLI: the rows of the plan are there before anybody   *)
(* claims, skips or counts one.                                            *)

(* A row that is there stays, and one that runs or has ended waits no more. *)
Lawful ==
    \A t \in Tasks :
        \/ rows'[t].status = Status(t)
        \/ Status(t) \in {"pending", "claimed"} /\ rows'[t].status # "absent"
        \/ Status(t) = "running" /\ rows'[t].status \in {"committed", "failed"}

LEMMA UpdateLawful ==
    ASSUME IInv, NEW t \in Tasks,
           \/ IF CanSkip(t) THEN SetStatus(t, "skipped") ELSE UNCHANGED journal
           \/ IF CanRelease(t) THEN ReleaseClaim(t) ELSE UNCHANGED journal
           \/ CancelTask(t)
           \/ ClaimAges(t)
           \/ \E o \in Owners : CanClaim(t) /\ ClaimTask(t, o)
    PROVE  Lawful
<1> USE DEF IInv, TypeOK
<1>1. CASE UNCHANGED journal
  BY <1>1 DEF Lawful, Status
<1>2. ASSUME Status(t) \in {"pending", "claimed"}, NEW s, NEW by, s # "absent",
             RowStep(t, s, by, rows[t].run)
      PROVE  Lawful
  BY <1>2 DEF RowStep, Lawful, Status
<1>3. CASE \/ CanSkip(t) /\ SetStatus(t, "skipped")
           \/ CanCancel(t) /\ SetStatus(t, "cancelled")
  <2>1. PICK s \in {"skipped", "cancelled"} :
          SetStatus(t, s) /\ Status(t) \in {"pending", "claimed"}
    BY <1>3 DEF CanSkip, CanCancel
  <2>2. RowStep(t, s, rows[t].by, rows[t].run)
    BY <2>1, SetStatusStep DEF TaskStatuses, TerminalTaskStatuses
  <2> QED
    BY <1>2, <2>1, <2>2
<1>4. CASE CanRelease(t) /\ ReleaseClaim(t)
  BY <1>2, <1>4, ReleaseStep DEF CanRelease
<1>5. CASE ClaimAges(t)
  BY <1>2, <1>5, AgeStep DEF ClaimAges
<1>6. ASSUME NEW o \in Owners, CanClaim(t), ClaimTask(t, o) PROVE Lawful
  BY <1>2, <1>6, ClaimStep DEF CanClaim
<1> QED
  BY <1>1, <1>3, <1>4, <1>5, <1>6 DEF CancelTask

(* Only insert_task_rows brings rows.                                      *)
LEMMA StepLawful ==
    ASSUME IInv, [Next]_vars
    PROVE  Lawful \/ \E r \in Ratifiers : RatifyInsert(r)
<1> USE DEF IInv, TypeOK
<1>1. ASSUME UNCHANGED rows PROVE Lawful
  BY <1>1 DEF Lawful, Status
<1>2. ASSUME NEW r \in Ratifiers, Ratify(r) \/ RatifyCrash(r), ~RatifyInsert(r) PROVE Lawful
  BY <1>1, <1>2 DEF Ratify, RatifyAdmit, RatifyDeny, RatifyLose, RatifyCrash, RatifyWin, RatifyRow
<1>3. ASSUME NEW d \in Dispatchers, Dispatch(d) \/ Crash(d) PROVE Lawful
  <2>1. CASE SkipNext(d)
    BY <2>1, UpdateLawful DEF SkipNext, First
  <2>2. CASE ClaimNext(d)
    <3>1. PICK t \in First(chunk[d]) :
            (CanClaim(t) /\ ClaimTask(t, OwnerOf[d])) \/ UNCHANGED journal
      BY <2>2 DEF ClaimNext
    <3>2. t \in Tasks /\ OwnerOf[d] \in Owners
      BY ActorsAssumption DEF First
    <3> QED
      BY <1>1, <3>1, <3>2, UpdateLawful
  <2>3. CASE ReleaseOwnClaim(d)
    <3>1. cur[d] \in Tasks
      BY <2>3 DEF ReleaseOwnClaim, SnapshotInv, Holding
    <3> QED
      BY <2>3, <3>1, UpdateLawful DEF ReleaseOwnClaim
  <2>4. CASE SweepNext(d)
    BY <2>4, UpdateLawful DEF SweepNext, First
  <2>5. CASE MarkRunningWon(d)
    <3>1. cur[d] \in Tasks /\ job[d] \in Jobs /\ Status(cur[d]) = "claimed"
      BY <2>5 DEF MarkRunningWon, CanMarkRunning, SnapshotInv, JobInv, Holding, WithJob
    <3>2. RowStep(cur[d], "running", rows[cur[d]].by, job[d])
      BY <2>5, <3>1, RunningStep DEF MarkRunningWon
    <3> QED
      BY <3>1, <3>2 DEF RowStep, Lawful, Status
  <2>6. CASE GateWin(d) \/ Settle(d)
    BY <1>1, <2>6 DEF GateWin, Settle, Transition
  <2> QED
    BY <1>1, <1>3, <2>1, <2>2, <2>3, <2>4, <2>5, <2>6
    DEF Dispatch, Begin, GateLose, GateReread, WaveProceed, WaveHalt, ReadWave, TakeChunk,
        CreateQueueRow, CreateRunRow, CreateFails, MarkRunningLost, CloseOrphanRun,
        CloseOrphanQueueRow, Submit, WaitNext, WaveEnd, SweepRead, FinalRead, Crash
<1>4. ASSUME NEW j \in Jobs, Work(j) PROVE Lawful
  <2>1. CASE RecordSuccess(j) \/ RecordFailure(j)
    <3>1. taskOf[j] \in Tasks /\ Status(taskOf[j]) = "running"
      BY <2>1 DEF RecordSuccess, RecordFailure, WorkInv, RecordedStatus
    <3>2. ASSUME NEW s \in {"committed", "failed"}, SetStatus(taskOf[j], s) PROVE Lawful
      <4>1. RowStep(taskOf[j], s, rows[taskOf[j]].by, rows[taskOf[j]].run)
        BY <3>1, <3>2, SetStatusStep DEF TaskStatuses, TerminalTaskStatuses
      <4> QED
        BY <3>1, <4>1 DEF RowStep, Lawful, Status
    <3> QED
      BY <1>1, <2>1, <3>2 DEF RecordSuccess, RecordFailure
  <2> QED
    BY <1>1, <1>4, <2>1 DEF Work, StepBoundary, PipelineReturns, MirrorQueueRow
<1>5. ASSUME NEW c \in Cancellers, Cancel(c) PROVE Lawful
  <2>1. CASE CancelNext(c)
    BY <2>1, UpdateLawful DEF CancelNext, First
  <2> QED
    BY <1>1, <1>5, <2>1 DEF Cancel, CancelRead, CancelVeto, CancelList, Transition
<1>6. ASSUME NEW x \in Reconcilers, Reconcile(x) PROVE Lawful
  <2>1. CASE ReconcileNext(x)
    BY <2>1, UpdateLawful DEF ReconcileNext
  <2> QED
    BY <1>1, <1>6, <2>1 DEF Reconcile, ReconcileRead
<1>7. ASSUME NEW t \in Tasks, Age(t) PROVE Lawful
  BY <1>7, UpdateLawful DEF Age
<1>8. CASE Expire \/ KillSwitch
  BY <1>1, <1>8 DEF Expire, KillSwitch, Transition
<1> QED
  BY <1>1, <1>2, <1>3, <1>4, <1>5, <1>6, <1>7, <1>8 DEF Next

Launched == \A d \in Dispatchers : LauncherOf[d] # NULL

Open == \E r \in Ratifiers : rpc[r] = "ratified"
Whole ==
    /\ ratified # NULL
    /\ \A t \in ratified.tasks : Status(t) \in TerminalTaskStatuses \ {"failed"}
Quiet == {"absent", "running"} \cup TerminalTaskStatuses

(* One handler wins, and it has inserted the rows before any dispatch.     *)
WinInv ==
    /\ \A q, r \in Ratifiers : {rpc[q], rpc[r]} \subseteq {"insert", "ratified"} => q = r
    /\ \A r \in Ratifiers : rpc[r] = "ratified" => ratified # NULL
    /\ Open => \A t \in ratified.tasks : Status(t) # "absent"

OpenInv ==
    /\ \A d \in Dispatchers : pc[d] # "idle" => Open
    /\ pstatus \in Started => Open
    /\ \A c \in Cancellers : cpc[c] # "idle" /\ csaw[c] = "dispatching" => Open

WholeInv ==
    /\ \A d \in Dispatchers : pc[d] = "complete" => Whole
    /\ pstatus = "completed" => Whole

(* What a cancellation that saw `dispatching` has gone through.            *)
QuietInv ==
    \A c \in Cancellers :
        /\ cpc[c] = "veto" => csaw[c] = "proposed"
        /\ cpc[c] = "done" /\ csaw[c] = "dispatching" =>
             \A t \in Tasks \ cdrop[c] : Status(t) \in Quiet

ShipInv == WinInv /\ OpenInv /\ WholeInv /\ QuietInv

(* What a step changes besides the rows, by the process that takes it.     *)
Elsewhere ==
    /\ UNCHANGED <<rpc, pc, cpc, csaw, cdrop>>
    /\ pstatus' \in {pstatus, "expired"}

LEMMA NextByProcess ==
    ASSUME IInv, [Next]_vars
    PROVE  \/ \E r \in Ratifiers : Ratify(r) \/ RatifyCrash(r)
           \/ \E d \in Dispatchers : Dispatch(d) \/ Crash(d)
           \/ \E c \in Cancellers : Cancel(c)
           \/ Elsewhere
<1>1. ASSUME NEW j \in Jobs, Work(j) PROVE Elsewhere
  BY <1>1 DEF Work, StepBoundary, PipelineReturns, RecordSuccess, RecordFailure, MirrorQueueRow,
     SetStatus, SetRow, Elsewhere
<1>2. ASSUME NEW x \in Reconcilers, Reconcile(x) PROVE Elsewhere
  BY <1>2 DEF Reconcile, ReconcileRead, ReconcileNext, ReleaseClaim, SetRow, Elsewhere
<1>3. ASSUME NEW t \in Tasks, Age(t) PROVE Elsewhere
  BY <1>3 DEF Age, ClaimAges, SetRow, Elsewhere
<1>4. CASE Expire \/ KillSwitch \/ UNCHANGED vars
  BY <1>4 DEF Expire, KillSwitch, Transition, Elsewhere
<1> QED
  BY <1>1, <1>2, <1>3, <1>4 DEF Next

(* Whole is for good, and so is a document.                                *)
LEMMA WholeStays ==
    ASSUME IInv, [Next]_vars, ratified # NULL
    PROVE  UNCHANGED ratified /\ (Whole => Whole')
<1>1. /\ UNCHANGED ratified
      /\ \A t \in Tasks : Status(t) \in TerminalTaskStatuses => rows'[t] = rows[t]
  BY StepSeen DEF Silent, Visible, Moves, Waiting, TerminalTaskStatuses
<1>2. ratified.tasks \subseteq Tasks
  BY PlansAssumption DEF IInv, TypeOK, JournalTypeOK, PlanDocument
<1> QED
  BY <1>1, <1>2 DEF Whole, Status

LEMMA WinKept == ASSUME IInv, ShipInv, [Next]_vars PROVE WinInv'
<1> USE DEF IInv, TypeOK, ShipInv, WinInv, Open
<1>1. ASSUME NEW r \in Ratifiers, Ratify(r) \/ RatifyCrash(r) PROVE WinInv'
  <2>1. CASE RatifyWin(r)
    <3>1. ratified = NULL /\ ratified' = rdoc[r] /\ rdoc[r] \in Plans /\ rpc' = [rpc EXCEPT ![r] = "insert"]
      BY <2>1 DEF RatifyWin, RatifyRow, RatifyInv
    <3>2. \A q \in Ratifiers : rpc[q] \notin {"insert", "ratified"}
      BY <3>1, NullAssumption DEF RatifyInv
    <3> QED
      BY <3>1, <3>2
  <2>2. CASE RatifyInsert(r)
    <3>1. /\ rpc[r] = "insert" /\ rpc' = [rpc EXCEPT ![r] = "ratified"]
          /\ ratified = rdoc[r] /\ ratified \in Plans /\ UNCHANGED ratified
      BY <2>2 DEF RatifyInsert, InsertTaskRows, RatifyInv
    <3>2. \A t \in ratified.tasks : Status(t)' # "absent"
      <4>1. ratified.tasks \subseteq Tasks
        BY <3>1, PlansAssumption DEF PlanDocument
      <4>2. PendingRow.status = "pending"
        BY DEF PendingRow, AbsentRow
      <4> QED
        BY <2>2, <3>1, <4>1, <4>2 DEF RatifyInsert, InsertTaskRows, Status
    <3> QED
      BY <3>1, <3>2, NullAssumption
  <2>3. CASE ~RatifyWin(r) /\ ~RatifyInsert(r)
    <3>1. /\ UNCHANGED journal
          /\ \A q \in Ratifiers : rpc'[q] \in {"insert", "ratified"} => rpc'[q] = rpc[q]
      BY <1>1, <2>3 DEF Ratify, RatifyAdmit, RatifyDeny, RatifyLose, RatifyCrash
    <3> QED
      BY <3>1 DEF Status
  <2> QED
    BY <2>1, <2>2, <2>3
<1>2. CASE UNCHANGED rpc /\ ~\E r \in Ratifiers : RatifyInsert(r)
  <2>1. Open => ratified # NULL /\ UNCHANGED ratified
    BY WholeStays
  <2>2. Open => \A t \in ratified.tasks : Status(t)' # "absent"
    <3>1. Lawful
      BY <1>2, StepLawful
    <3>2. Open => ratified.tasks \subseteq Tasks
      BY <2>1, PlansAssumption DEF JournalTypeOK, PlanDocument
    <3> QED
      BY <3>1, <3>2 DEF Lawful, Status
  <2> QED
    BY <1>2, <2>1, <2>2
<1>3. ASSUME ~\E r \in Ratifiers : Ratify(r) \/ RatifyCrash(r)
      PROVE  UNCHANGED rpc /\ ~\E r \in Ratifiers : RatifyInsert(r)
  <2>1. ASSUME NEW d \in Dispatchers, Dispatch(d) \/ Crash(d) PROVE UNCHANGED rpc
    BY <2>1 DEF Dispatch, Begin, GateWin, GateLose, GateReread, WaveProceed, WaveHalt, ReadWave,
       SkipNext, TakeChunk, ClaimNext, CreateQueueRow, CreateRunRow, CreateFails, ReleaseOwnClaim,
       MarkRunningWon, MarkRunningLost, CloseOrphanRun, CloseOrphanQueueRow, Submit, WaitNext,
       WaveEnd, SweepRead, SweepNext, FinalRead, Settle, Crash
  <2>2. ASSUME NEW c \in Cancellers, Cancel(c) PROVE UNCHANGED rpc
    BY <2>2 DEF Cancel, CancelRead, CancelVeto, CancelList, CancelNext
  <2> QED
    BY <1>3, <2>1, <2>2, NextByProcess DEF Elsewhere, Ratify
<1> QED
  BY <1>1, <1>2, <1>3

(* What a step of a dispatcher does to its control state and the           *)
(* partition's status.                                                     *)
LEMMA DispatcherMoves ==
    ASSUME IInv, NEW d \in Dispatchers, Dispatch(d) \/ Crash(d)
    PROVE  /\ UNCHANGED <<rpc, cpc, csaw, cdrop>>
           /\ \A e \in Dispatchers : e # d => pc'[e] = pc[e]
           /\ pc[d] # "idle" \/ Begin(d) \/ Crash(d)
           /\ pc'[d] = "complete" => FinalRead(d) \/ pc[d] = "complete"
           /\ \/ pstatus' = pstatus
              \/ pc[d] = "cas" /\ pstatus' = "dispatching"
              \/ pstatus = "dispatching" /\ pstatus' \in {"completed", "failed"}
           /\ pstatus' = "completed" => pstatus = "completed" \/ pc[d] = "complete"
<1> USE DEF IInv, TypeOK, Goto
<1>1. CASE \/ Begin(d) \/ GateWin(d) \/ GateLose(d) \/ GateReread(d) \/ WaveProceed(d)
           \/ WaveHalt(d) \/ ReadWave(d) \/ TakeChunk(d) \/ WaitNext(d) \/ WaveEnd(d)
  BY <1>1 DEF Begin, GateWin, GateLose, GateReread, WaveProceed, WaveHalt, ReadWave, TakeChunk,
     WaitNext, WaveEnd, Transition
<1>2. CASE SkipNext(d) \/ ClaimNext(d) \/ ReleaseOwnClaim(d) \/ MarkRunningWon(d) \/ SweepNext(d)
  <2>1. UNCHANGED pstatus
    BY <1>2 DEF SkipNext, ClaimNext, ReleaseOwnClaim, MarkRunningWon, SweepNext, SetStatus,
       ClaimTask, ReleaseClaim, MarkTaskRunning, CancelTask, SetRow, journal
  <2>2. pc[d] # "idle"
    BY <1>2 DEF SkipNext, ClaimNext, ReleaseOwnClaim, MarkRunningWon, SweepNext
  <2>3. CASE SkipNext(d) \/ SweepNext(d)
    BY <2>1, <2>2, <2>3 DEF SkipNext, SweepNext
  <2>4. CASE ClaimNext(d)
    BY <2>1, <2>2, <2>4 DEF ClaimNext
  <2>5. CASE ReleaseOwnClaim(d) \/ MarkRunningWon(d)
    BY <2>1, <2>2, <2>5 DEF ReleaseOwnClaim, MarkRunningWon
  <2> QED
    BY <1>2, <2>3, <2>4, <2>5
<1>3. CASE \/ CreateQueueRow(d) \/ CreateRunRow(d) \/ CreateFails(d) \/ MarkRunningLost(d)
           \/ CloseOrphanRun(d) \/ CloseOrphanQueueRow(d) \/ Submit(d) \/ SweepRead(d)
  BY <1>3 DEF CreateQueueRow, CreateRunRow, CreateFails, MarkRunningLost, CloseOrphanRun,
     CloseOrphanQueueRow, Submit, SweepRead
<1>4. CASE FinalRead(d)
  BY <1>4 DEF FinalRead
<1>5. CASE Settle(d)
  BY <1>5 DEF Settle, Transition
<1>6. CASE Crash(d)
  BY <1>6 DEF Crash
<1> QED
  BY <1>1, <1>2, <1>3, <1>4, <1>5, <1>6 DEF Dispatch

(* The handlers of ratification and cancellation.                          *)
LEMMA HandlerMoves ==
    ASSUME IInv,
           \/ \E r \in Ratifiers : Ratify(r) \/ RatifyCrash(r)
           \/ \E c \in Cancellers : Cancel(c)
    PROVE  /\ UNCHANGED pc
           /\ \/ pstatus' = pstatus
              \/ pstatus = "proposed" /\ pstatus' \in {"ratified", "vetoed"}
           /\ \A r \in Ratifiers : rpc[r] = "ratified" => rpc'[r] = "ratified"
<1> USE DEF IInv, TypeOK
<1>1. ASSUME NEW r \in Ratifiers, Ratify(r) \/ RatifyCrash(r)
      PROVE  /\ UNCHANGED pc
             /\ pstatus' = pstatus \/ (pstatus = "proposed" /\ pstatus' = "ratified")
             /\ \A q \in Ratifiers : rpc[q] = "ratified" => rpc'[q] = "ratified"
  BY <1>1 DEF Ratify, RatifyAdmit, RatifyDeny, RatifyWin, RatifyLose, RatifyInsert, RatifyCrash,
     RatifyRow, InsertTaskRows
<1>2. ASSUME NEW c \in Cancellers, Cancel(c)
      PROVE  /\ UNCHANGED <<pc, rpc>>
             /\ pstatus' = pstatus \/ (pstatus = "proposed" /\ pstatus' = "vetoed")
  BY <1>2 DEF Cancel, CancelRead, CancelVeto, CancelList, CancelNext, Transition, CancelTask,
     SetStatus, SetRow
<1> QED
  BY <1>1, <1>2

LEMMA OpenKept == ASSUME Launched, IInv, ShipInv, [Next]_vars PROVE OpenInv'
<1> USE DEF IInv, TypeOK, ShipInv, OpenInv
<1>1. Open => Open'
  <2>1. \A r \in Ratifiers : rpc[r] = "ratified" => rpc'[r] = "ratified"
    BY NextByProcess, DispatcherMoves, HandlerMoves DEF Elsewhere
  <2> QED
    BY <2>1 DEF Open
<1>2. ASSUME NEW d \in Dispatchers, Dispatch(d) \/ Crash(d) PROVE OpenInv'
  <2>1. Open
    <3>1. CASE Begin(d)
      <4>1. LauncherOf[d] # NULL
        BY DEF Launched
      <4>2. LauncherOf[d] \in Ratifiers
        BY <4>1, ActorsAssumption
      <4>3. rpc[LauncherOf[d]] = "ratified"
        BY <3>1, <4>1 DEF Begin
      <4> QED
        BY <4>2, <4>3 DEF Open
    <3>2. CASE Crash(d) /\ pc[d] = "idle"
      <4>1. PICK j \in Jobs : wpc[j] \in LiveWork
        BY <3>2 DEF Crash
      <4>2. pstatus \in Started
        BY <4>1 DEF WorkInv, LiveWork
      <4> QED
        BY <4>2
    <3> QED
      BY <1>2, <3>1, <3>2, DispatcherMoves
  <2>2. UNCHANGED <<cpc, csaw>>
    BY <1>2, DispatcherMoves
  <2> QED
    BY <1>1, <2>1
<1>3. CASE (\E r \in Ratifiers : Ratify(r) \/ RatifyCrash(r)) \/ (\E c \in Cancellers : Cancel(c))
  <2>1. /\ UNCHANGED pc
        /\ pstatus' \in Started => pstatus \in Started
    BY <1>3, HandlerMoves DEF Started
  <2>2. \A c \in Cancellers :
            cpc'[c] # "idle" /\ csaw'[c] = "dispatching" =>
                (cpc[c] # "idle" /\ csaw[c] = "dispatching") \/ pstatus = "dispatching"
    BY <1>3 DEF Ratify, RatifyAdmit, RatifyDeny, RatifyWin, RatifyLose, RatifyInsert, RatifyCrash,
       Cancel, CancelRead, CancelVeto, CancelList, CancelNext
  <2> QED
    BY <1>1, <2>1, <2>2 DEF Started
<1>4. CASE Elsewhere
  <2>1. pstatus' \in Started => pstatus \in Started
    BY <1>4 DEF Elsewhere, Started
  <2> QED
    BY <1>1, <1>4, <2>1 DEF Elsewhere
<1> QED
  BY <1>2, <1>3, <1>4, NextByProcess

(* The final reading counts the rows of every task of the plan.            *)
LEMMA WholeKept == ASSUME Launched, IInv, ShipInv, [Next]_vars PROVE WholeInv'
<1> USE DEF IInv, TypeOK, ShipInv, WholeInv
<1>1. Whole => Whole'
  BY WholeStays DEF Whole
<1>2. ASSUME NEW d \in Dispatchers, Dispatch(d) \/ Crash(d) PROVE WholeInv'
  <2>1. CASE FinalRead(d)
    <3>1. UNCHANGED journal /\ \A e \in Dispatchers \ {d} : pc'[e] = pc[e]
      BY <2>1 DEF FinalRead, Goto
    <3>2. ASSUME pc'[d] = "complete" PROVE Whole
      <4>1. RowsWith({"pending", "claimed", "running"}) = {} /\ RowsWith({"failed"}) = {}
            /\ pc[d] # "idle"
        BY <2>1, <3>2 DEF FinalRead, Goto
      <4>2. Open /\ ratified # NULL /\ \A t \in ratified.tasks : Status(t) # "absent"
        BY <4>1 DEF OpenInv, WinInv, Open
      <4>3. ratified.tasks \subseteq Tasks
        BY <4>2, PlansAssumption DEF JournalTypeOK, PlanDocument
      <4>4. \A t \in Tasks : Status(t) \in TaskStatuses
        BY DEF JournalTypeOK, TaskRow, Status
      <4> QED
        BY <4>1, <4>2, <4>3, <4>4 DEF RowsWith, Whole, TaskStatuses, TerminalTaskStatuses
    <3> QED
      BY <1>1, <3>1, <3>2
  <2>2. CASE ~FinalRead(d)
    <3>1. /\ \A e \in Dispatchers : pc'[e] = "complete" => pc[e] = "complete"
          /\ pstatus' = "completed" => pstatus = "completed" \/ pc[d] = "complete"
      BY <1>2, <2>2, DispatcherMoves
    <3> QED
      BY <1>1, <3>1
  <2> QED
    BY <2>1, <2>2
<1>3. CASE (\E r \in Ratifiers : Ratify(r) \/ RatifyCrash(r)) \/ (\E c \in Cancellers : Cancel(c))
  BY <1>1, <1>3, HandlerMoves
<1>4. CASE Elsewhere
  BY <1>1, <1>4 DEF Elsewhere
<1> QED
  BY <1>2, <1>3, <1>4, NextByProcess

(* A row that a cancellation has gone through runs or has ended.           *)
LEMMA QuietKept == ASSUME Launched, IInv, ShipInv, [Next]_vars PROVE QuietInv'
<1> USE DEF IInv, TypeOK, ShipInv
<1>0. ASSUME NEW c \in Cancellers, cpc'[c] = "veto" PROVE csaw'[c] = "proposed"
  <2>1. CASE UNCHANGED <<cpc, csaw>>
    BY <1>0, <2>1 DEF QuietInv
  <2>2. ASSUME NEW b \in Cancellers, Cancel(b) PROVE csaw'[c] = "proposed"
    BY <1>0, <2>2 DEF QuietInv, Cancel, CancelRead, CancelVeto, CancelList, CancelNext
  <2> QED
    BY <2>1, <2>2, NextByProcess, DispatcherMoves
       DEF Elsewhere, Ratify, RatifyAdmit, RatifyDeny, RatifyWin, RatifyLose, RatifyInsert,
           RatifyCrash
<1> SUFFICES ASSUME NEW c \in Cancellers, cpc'[c] = "done", csaw'[c] = "dispatching",
                    NEW t \in Tasks \ cdrop'[c]
             PROVE  Status(t)' \in Quiet
  BY <1>0 DEF QuietInv
<1>1. csaw[c] = "dispatching" \/ CancelRead(c)
  <2>1. CASE csaw'[c] = csaw[c]
    BY <2>1
  <2>2. CASE csaw'[c] # csaw[c]
    <3>1. \E b \in Cancellers : Cancel(b)
      BY <2>2, NextByProcess, DispatcherMoves
         DEF Elsewhere, Ratify, RatifyAdmit, RatifyDeny, RatifyWin, RatifyLose, RatifyInsert,
             RatifyCrash
    <3> QED
      BY <2>2, <3>1 DEF Cancel, CancelRead, CancelVeto, CancelList, CancelNext
  <2> QED
    BY <2>1, <2>2
<1>2. ~CancelRead(c)
  BY DEF CancelRead
<1>3. Open /\ csaw[c] = "dispatching"
  <2>1. csaw[c] = "dispatching"
    BY <1>1, <1>2
  <2>2. CASE cpc[c] = "done"
    BY <2>1, <2>2 DEF OpenInv
  <2>3. CASE cpc[c] # "done"
    <3>1. \E b \in Cancellers : Cancel(b)
      BY <2>3, NextByProcess, DispatcherMoves
         DEF Elsewhere, Ratify, RatifyAdmit, RatifyDeny, RatifyWin, RatifyLose, RatifyInsert,
             RatifyCrash
    <3>2. cpc[c] # "idle"
      BY <1>2, <2>3, <3>1 DEF Cancel, CancelRead, CancelVeto, CancelList, CancelNext
    <3> QED
      BY <2>1, <3>2 DEF OpenInv
  <2> QED
    BY <2>2, <2>3
<1>4. ~\E r \in Ratifiers : RatifyInsert(r)
  BY <1>3 DEF Open, WinInv, RatifyInsert
<1>5. Lawful
  BY <1>4, StepLawful
<1>6. Status(t) \in Quiet => Status(t)' \in Quiet
  BY <1>5 DEF Lawful, Quiet, TerminalTaskStatuses, Status
<1>7. Status(t) \in TaskStatuses
  BY DEF JournalTypeOK, TaskRow, Status
<1>8. CASE cpc[c] = "done" /\ t \notin cdrop[c]
  BY <1>3, <1>6, <1>8 DEF QuietInv
<1>9. CASE cpc[c] # "done" \/ t \in cdrop[c]
  <2>1. PICK b \in Cancellers : Cancel(b)
    BY <1>9, NextByProcess, DispatcherMoves
       DEF Elsewhere, Ratify, RatifyAdmit, RatifyDeny, RatifyWin, RatifyLose, RatifyInsert,
           RatifyCrash
  <2>2. CASE CancelList(c)
    <3>1. t \notin CancelSnapshot(Tasks)
      BY <2>2 DEF CancelList
    <3> QED
      BY <1>6, <1>7, <3>1 DEF CancelSnapshot, Quiet
  <2>3. CASE CancelNext(c)
    <3>1. cpc[c] = "done"
      BY <2>3 DEF CancelNext
    <3>2. CancelTask(t)
      BY <1>9, <2>3, <3>1 DEF CancelNext, First
    <3>3. CASE CanCancel(t)
      BY <3>2, <3>3, SetStatusStep
         DEF CancelTask, RowStep, Quiet, TaskStatuses, TerminalTaskStatuses, Status
    <3>4. CASE ~CanCancel(t)
      BY <1>6, <1>7, <3>4 DEF CanCancel, Quiet, TaskStatuses
    <3> QED
      BY <3>3, <3>4
  <2>4. CASE CancelVeto(c)
    BY <1>3, <2>4 DEF CancelVeto, QuietInv
  <2>5. CASE b # c
    BY <1>9, <2>1, <2>5 DEF Cancel, CancelRead, CancelVeto, CancelList, CancelNext
  <2> QED
    BY <1>2, <2>1, <2>2, <2>3, <2>4, <2>5 DEF Cancel
<1> QED
  BY <1>8, <1>9

LEMMA ShipInit == Init => ShipInv
<1> SUFFICES ASSUME Init PROVE ShipInv
  OBVIOUS
<1>1. /\ \A r \in Ratifiers : rpc[r] = "idle"
      /\ \A d \in Dispatchers : pc[d] = "idle"
      /\ \A c \in Cancellers : cpc[c] = "idle"
      /\ pstatus = "proposed"
  BY DEF Init, JournalInit
<1> QED
  BY <1>1, InitIInv DEF ShipInv, WinInv, OpenInv, WholeInv, QuietInv, Open, Started

LEMMA ShipAlways == ASSUME Launched PROVE Spec => []ShipInv
<1>1. IInv /\ ShipInv /\ [Next]_vars => ShipInv'
  <2> SUFFICES ASSUME IInv, ShipInv, [Next]_vars PROVE ShipInv'
    OBVIOUS
  <2> QED
    BY WinKept, OpenKept, WholeKept, QuietKept DEF ShipInv
<1> QED
  BY <1>1, ShipInit, IInvAlways, PTL DEF Spec

(* Where every dispatch follows a ratification, a partition marked         *)
(* completed has a committed, skipped or cancelled row for every task of   *)
(* its plan (CompletedIsComplete).                                         *)
THEOREM CompletesWhole == ASSUME Launched PROVE Spec => []CompletedIsComplete
<1>1. ShipInv => CompletedIsComplete
  BY DEF ShipInv, WholeInv, Whole, CompletedIsComplete
<1> QED
  BY <1>1, ShipAlways, PTL

(* ... and when cancel_partition returns for a partition it saw            *)
(* `dispatching`, no task starts any more (CancelOfDispatchingStops).      *)
THEOREM CancelsForGood == ASSUME Launched PROVE Spec => CancelOfDispatchingStops
<1> DEFINE Stops ==
      (\E c \in Cancellers : Returned(c) /\ csaw[c] = "dispatching") => \A t \in Tasks : ~Starts(t)
<1>1. IInv /\ ShipInv /\ [Next]_vars => [Stops]_vars
  <2> SUFFICES ASSUME IInv, ShipInv, [Next]_vars,
                      NEW c \in Cancellers, Returned(c), csaw[c] = "dispatching",
                      NEW t \in Tasks, Starts(t)
               PROVE  FALSE
    OBVIOUS
  <2>1. Status(t) \in Quiet
    BY DEF ShipInv, QuietInv, Returned
  <2>2. Status(t)' = "running" /\ Status(t) # "running"
    BY DEF Starts, Status
  <2>3. CASE Lawful
    BY <2>1, <2>2, <2>3 DEF Lawful, Quiet, Status, TerminalTaskStatuses
  <2>4. ASSUME NEW r \in Ratifiers, RatifyInsert(r) PROVE FALSE
    BY <2>2, <2>4 DEF RatifyInsert, InsertTaskRows, PendingRow, AbsentRow, Status, IInv, TypeOK,
       JournalTypeOK
  <2> QED
    BY <2>3, <2>4, StepLawful
<1> QED
  BY <1>1, IInvAlways, ShipAlways, PTL DEF Spec, CancelOfDispatchingStops

-----------------------------------------------------------------------------
(* Until a process dies, somebody holds every task that is claimed or      *)
(* running.  NothingAdrift is preserved because nobody takes up a claim or *)
(* a run but the one who will hold it, and nobody lets one go before the   *)
(* row says something else.                                                *)

(* No row comes to be claimed or running, nor changes its claimant.        *)
Unraised(t) ==
    Status(t)' \in {"claimed", "running"} =>
        Status(t)' = Status(t) /\ rows'[t].by = rows[t].by

Claiming == {"create", "record", "mark", "release"}

(* Who holds a task goes on holding it.                                    *)
HoldersStay(t) ==
    /\ \A d \in Dispatchers : cur[d] = t =>
         /\ pc[d] \in Claiming => cur'[d] = t /\ pc'[d] \in Claiming
         /\ pc[d] = "submit" => cur'[d] = t /\ pc'[d] = "submit"
    /\ \A j \in Jobs : taskOf[j] = t /\ wpc[j] \in LiveWork =>
         taskOf'[j] = t /\ wpc'[j] \in LiveWork

LEMMA StillHeld ==
    ASSUME NEW t \in Tasks, Held(t), Unraised(t), HoldersStay(t)
    PROVE  Held(t)'
<1>1. CASE Status(t)' = "claimed"
  <2>1. Status(t) = "claimed" /\ rows'[t].by = rows[t].by
    BY <1>1 DEF Unraised
  <2>2. PICK d \in Dispatchers : cur[d] = t /\ pc[d] \in Claiming /\ rows[t].by = OwnerOf[d]
    BY <2>1 DEF Held, ClaimHeld, Claiming
  <2>3. cur'[d] = t /\ pc'[d] \in Claiming /\ rows'[t].by = OwnerOf[d]
    BY <2>1, <2>2 DEF HoldersStay
  <2> QED
    BY <1>1, <2>3 DEF Held, ClaimHeld, Claiming
<1>2. CASE Status(t)' = "running"
  <2>1. Status(t) = "running"
    BY <1>2 DEF Unraised
  <2>2. RunHeld(t)'
    BY <2>1 DEF Held, RunHeld, HoldersStay
  <2> QED
    BY <1>2, <2>2 DEF Held
<1> QED
  BY <1>1, <1>2 DEF Held

LEMMA NoneRaised ==
    ASSUME TypeOK, NEW u \in Tasks,
           \/ UNCHANGED rows
           \/ IF CanSkip(u) THEN SetStatus(u, "skipped") ELSE UNCHANGED journal
           \/ IF CanRelease(u) THEN ReleaseClaim(u) ELSE UNCHANGED journal
           \/ CancelTask(u)
           \/ ClaimAges(u)
           \/ \E s \in {"committed", "failed"} : SetStatus(u, s)
    PROVE  \A t \in Tasks : Unraised(t)
<1> USE DEF TypeOK
<1>1. CASE UNCHANGED rows
  BY <1>1 DEF Unraised, Status
<1>2. ASSUME NEW s \in {"skipped", "cancelled", "committed", "failed"}, SetStatus(u, s)
      PROVE  \A t \in Tasks : Unraised(t)
  <2>1. RowStep(u, s, rows[u].by, rows[u].run)
    BY <1>2, SetStatusStep DEF TaskStatuses, TerminalTaskStatuses
  <2> QED
    BY <2>1 DEF RowStep, Unraised, Status
<1>3. CASE ReleaseClaim(u)
  BY <1>3, ReleaseStep DEF RowStep, Unraised, Status
<1>4. CASE ClaimAges(u)
  BY <1>4, AgeStep DEF RowStep, Unraised, Status
<1> QED
  BY <1>1, <1>2, <1>3, <1>4 DEF CancelTask

(* The steps of a dispatcher: only the claim, its release, the mark and    *)
(* the submission change who holds a task.                                 *)
LEMMA DispatchHolds ==
    ASSUME IInv, NEW d \in Dispatchers, Dispatch(d), \A t \in Tasks : Held(t),
           NEW t \in Tasks
    PROVE  Held(t)'
<1> USE DEF IInv, TypeOK, Goto
<1>0. TypeOK
  OBVIOUS
<1>1. CASE /\ pc[d] \notin Claiming \cup {"submit"}
           /\ \A e \in Dispatchers : e # d => pc'[e] = pc[e] /\ cur'[e] = cur[e]
           /\ UNCHANGED <<taskOf, wpc>> /\ Unraised(t)
  BY <1>1, StillHeld DEF HoldersStay, Claiming
<1>2. CASE \/ Begin(d) \/ GateWin(d) \/ GateLose(d) \/ GateReread(d) \/ WaveProceed(d)
           \/ WaveHalt(d) \/ ReadWave(d) \/ TakeChunk(d) \/ WaitNext(d) \/ WaveEnd(d)
           \/ SweepRead(d) \/ FinalRead(d) \/ Settle(d) \/ CloseOrphanRun(d)
           \/ CloseOrphanQueueRow(d)
  <2>1. UNCHANGED rows
    BY <1>2 DEF Begin, GateWin, GateLose, GateReread, WaveProceed, WaveHalt, ReadWave, TakeChunk,
       WaitNext, WaveEnd, SweepRead, FinalRead, Settle, CloseOrphanRun, CloseOrphanQueueRow,
       Transition
  <2>2. Unraised(t)
    BY <2>1, <1>0, NoneRaised
  <2>3. UNCHANGED <<cur, taskOf, wpc>>
    BY <1>2 DEF Begin, GateWin, GateLose, GateReread, WaveProceed, WaveHalt, ReadWave, TakeChunk,
       WaitNext, WaveEnd, SweepRead, FinalRead, Settle, CloseOrphanRun, CloseOrphanQueueRow
  <2>4. pc[d] \notin Claiming \cup {"submit"}
    BY <1>2 DEF Begin, GateWin, GateLose, GateReread, WaveProceed, WaveHalt, ReadWave, TakeChunk,
       WaitNext, WaveEnd, SweepRead, FinalRead, Settle, CloseOrphanRun, CloseOrphanQueueRow,
       Claiming
  <2>5. \A e \in Dispatchers : e # d => pc'[e] = pc[e]
    BY <1>2 DEF Begin, GateWin, GateLose, GateReread, WaveProceed, WaveHalt, ReadWave, TakeChunk,
       WaitNext, WaveEnd, SweepRead, FinalRead, Settle, CloseOrphanRun, CloseOrphanQueueRow
  <2> QED
    BY <1>1, <2>2, <2>3, <2>4, <2>5
<1>3. CASE SkipNext(d) \/ SweepNext(d)
  <2>1. Unraised(t)
    BY <1>0, <1>3, NoneRaised DEF SkipNext, SweepNext, First
  <2> QED
    BY <1>1, <1>3, <2>1 DEF SkipNext, SweepNext, Claiming
<1>4. CASE ClaimNext(d)
  <2>1. PICK u \in Tasks :
          \/ ClaimTask(u, OwnerOf[d]) /\ cur' = [cur EXCEPT ![d] = u]
             /\ pc' = [pc EXCEPT ![d] = "create"]
          \/ UNCHANGED <<journal, cur, pc>>
    BY <1>4 DEF ClaimNext, First
  <2>2. pc[d] = "wave" /\ UNCHANGED <<taskOf, wpc>>
    BY <1>4 DEF ClaimNext
  <2>3. CASE UNCHANGED <<journal, cur, pc>>
    <3>1. Unraised(t)
      BY <1>0, <2>3, NoneRaised
    <3> QED
      BY <1>1, <2>2, <2>3, <3>1 DEF Claiming
  <2>4. CASE /\ ClaimTask(u, OwnerOf[d]) /\ cur' = [cur EXCEPT ![d] = u]
             /\ pc' = [pc EXCEPT ![d] = "create"]
    <3>1. RowStep(u, "claimed", OwnerOf[d], rows[u].run)
      BY <2>4, ClaimStep, ActorsAssumption
    <3>2. CASE t = u
      <4>1. Status(t)' = "claimed" /\ rows'[t].by = OwnerOf[d]
        BY <3>1, <3>2 DEF RowStep, Status
      <4>2. cur'[d] = t /\ pc'[d] = "create"
        BY <2>4, <3>2
      <4> QED
        BY <4>1, <4>2 DEF Held, ClaimHeld
    <3>3. CASE t # u
      <4>1. Unraised(t)
        BY <3>1, <3>3 DEF RowStep, Unraised, Status
      <4> QED
        BY <1>1, <2>2, <2>4, <4>1 DEF Claiming
    <3> QED
      BY <3>2, <3>3
  <2> QED
    BY <2>1, <2>3, <2>4
<1>5. CASE CreateQueueRow(d)
  <2>1. PICK j \in Jobs : queue[j] = "none" /\ taskOf' = [taskOf EXCEPT ![j] = cur[d]]
    BY <1>5 DEF CreateQueueRow, First
  <2>2. wpc[j] = "none"
    BY <2>1 DEF JobInv
  <2>3. /\ pc[d] = "create" /\ pc' = [pc EXCEPT ![d] = "record"]
        /\ UNCHANGED <<rows, cur, wpc>>
    BY <1>5 DEF CreateQueueRow
  <2>4. HoldersStay(t)
    BY <2>1, <2>2, <2>3 DEF HoldersStay, Claiming, LiveWork
  <2>5. Unraised(t)
    BY <1>0, <2>3, NoneRaised
  <2> QED
    BY <2>4, <2>5, StillHeld
<1>6. CASE CreateRunRow(d) \/ CreateFails(d)
  <2>1. /\ pc[d] \in Claiming /\ UNCHANGED <<rows, cur, taskOf, wpc>>
        /\ pc'[d] \in Claiming /\ \A e \in Dispatchers : e # d => pc'[e] = pc[e]
    BY <1>6 DEF CreateRunRow, CreateFails, Claiming
  <2>2. HoldersStay(t)
    BY <2>1 DEF HoldersStay, Claiming
  <2>3. Unraised(t)
    BY <1>0, <2>1, NoneRaised
  <2> QED
    BY <2>2, <2>3, StillHeld
<1>7. CASE ReleaseOwnClaim(d)
  <2>1. /\ pc[d] = "release" /\ cur[d] \in Tasks /\ UNCHANGED <<cur, taskOf, wpc>>
        /\ \A e \in Dispatchers : e # d => pc'[e] = pc[e]
        /\ IF CanRelease(cur[d]) THEN ReleaseClaim(cur[d]) ELSE UNCHANGED journal
    BY <1>7 DEF ReleaseOwnClaim, SnapshotInv, Holding
  <2>2. Unraised(t)
    BY <1>0, <2>1, NoneRaised
  <2>3. CASE cur[d] # t
    <3>1. HoldersStay(t)
      BY <2>1, <2>3 DEF HoldersStay
    <3> QED
      BY <2>2, <3>1, StillHeld
  <2>4. CASE cur[d] = t
    <3>1. Status(t)' # "claimed"
      <4>1. CASE CanRelease(t)
        BY <2>1, <2>4, <4>1, ReleaseStep DEF RowStep, Status
      <4>2. CASE ~CanRelease(t)
        BY <2>1, <2>4, <4>2 DEF CanRelease, RowInv, Status
      <4> QED
        BY <4>1, <4>2
    <3>2. Status(t)' = "running" => RunHeld(t)'
      BY <2>1, <2>2 DEF Unraised, Held, RunHeld
    <3> QED
      BY <3>1, <3>2 DEF Held
  <2> QED
    BY <2>3, <2>4
<1>8. CASE MarkRunningWon(d)
  <2>1. /\ pc[d] = "mark" /\ cur[d] \in Tasks /\ job[d] \in Jobs
        /\ pc' = [pc EXCEPT ![d] = "submit"] /\ UNCHANGED <<cur, taskOf, wpc>>
    BY <1>8 DEF MarkRunningWon, SnapshotInv, JobInv, Holding, WithJob
  <2>2. RowStep(cur[d], "running", rows[cur[d]].by, job[d])
    BY <1>8, <2>1, RunningStep DEF MarkRunningWon
  <2>3. CASE cur[d] = t
    <3>1. Status(t)' = "running" /\ cur'[d] = t /\ pc'[d] = "submit"
      BY <2>1, <2>2, <2>3 DEF RowStep, Status
    <3> QED
      BY <3>1 DEF Held, RunHeld
  <2>4. CASE cur[d] # t
    <3>1. Unraised(t) /\ HoldersStay(t)
      BY <2>1, <2>2, <2>4 DEF RowStep, Unraised, Status, HoldersStay
    <3> QED
      BY <3>1, StillHeld
  <2> QED
    BY <2>3, <2>4
<1>9. CASE MarkRunningLost(d)
  <2>1. /\ pc[d] = "mark" /\ UNCHANGED <<rows, cur, taskOf, wpc>>
        /\ ~(Status(cur[d]) = "claimed" /\ rows[cur[d]].by = OwnerOf[d])
        /\ \A e \in Dispatchers : e # d => pc'[e] = pc[e]
    BY <1>9 DEF MarkRunningLost, CanMarkRunning
  <2>2. CASE Status(t)' = "claimed"
    <3>1. PICK e \in Dispatchers : cur[e] = t /\ pc[e] \in Claiming /\ rows[t].by = OwnerOf[e]
      BY <2>1, <2>2 DEF Held, ClaimHeld, Claiming, Status
    <3>2. e # d
      BY <2>1, <2>2, <3>1 DEF Status
    <3> QED
      BY <2>1, <2>2, <3>1, <3>2 DEF Held, ClaimHeld, Claiming
  <2>3. Status(t)' = "running" => RunHeld(t)'
    <3>1. Status(t)' = "running" => RunHeld(t)
      BY <2>1 DEF Held, Status
    <3>2. ASSUME NEW e \in Dispatchers, pc[e] = "submit" PROVE pc'[e] = "submit"
      BY <2>1, <3>2
    <3> QED
      BY <2>1, <3>1, <3>2 DEF RunHeld
  <2> QED
    BY <2>2, <2>3 DEF Held
<1>10. CASE Submit(d)
  <2>1. /\ pc[d] = "submit" /\ UNCHANGED <<rows, cur, taskOf>>
        /\ job[d] \in Jobs /\ taskOf[job[d]] = cur[d]
        /\ wpc' = [wpc EXCEPT ![job[d]] = "early"]
        /\ \A e \in Dispatchers : e # d => pc'[e] = pc[e]
    BY <1>10 DEF Submit, JobInv, WithJob
  <2>2. Status(t)' = "claimed" => ClaimHeld(t)'
    BY <2>1 DEF Held, ClaimHeld, Status
  <2>3. \A j \in Jobs : wpc[j] \in LiveWork => wpc'[j] \in LiveWork
    BY <2>1 DEF LiveWork
  <2>4. wpc'[job[d]] \in LiveWork
    BY <2>1 DEF LiveWork
  <2>5. Status(t)' = "running" => RunHeld(t)'
    BY <2>1, <2>3, <2>4 DEF Held, RunHeld, Status
  <2> QED
    BY <2>2, <2>5 DEF Held
<1> QED
  BY <1>2, <1>3, <1>4, <1>5, <1>6, <1>7, <1>8, <1>9, <1>10 DEF Dispatch

(* A worker lets its task go when the row says how it ended; the others    *)
(* hold none.                                                              *)
LEMMA OthersHold ==
    ASSUME IInv, \A t \in Tasks : Held(t), NEW t \in Tasks,
           \/ \E j \in Jobs : Work(j)
           \/ \E r \in Ratifiers : Ratify(r)
           \/ \E c \in Cancellers : Cancel(c)
           \/ \E x \in Reconcilers : Reconcile(x)
           \/ (\E u \in Tasks : Age(u)) \/ Expire \/ KillSwitch \/ UNCHANGED vars
    PROVE  Held(t)'
<1> USE DEF IInv, TypeOK
<1>0. TypeOK
  OBVIOUS
<1>1. CASE UNCHANGED <<pc, cur, taskOf, wpc>> /\ Unraised(t)
  BY <1>1, StillHeld DEF HoldersStay
<1>2. CASE UNCHANGED <<pc, cur, taskOf, wpc, rows>>
  BY <1>0, <1>1, <1>2, NoneRaised
<1>3. ASSUME NEW j \in Jobs, Work(j) PROVE Held(t)'
  <2>1. UNCHANGED <<pc, cur, taskOf>>
    BY <1>3 DEF Work, StepBoundary, PipelineReturns, RecordSuccess, RecordFailure, MirrorQueueRow
  <2>2. CASE StepBoundary(j) \/ \E o \in Outcomes : PipelineReturns(j, o)
    <3>1. UNCHANGED rows /\ \A i \in Jobs : wpc[i] \in LiveWork => wpc'[i] \in LiveWork
      BY <2>2 DEF StepBoundary, PipelineReturns, LiveWork
    <3>2. Unraised(t) /\ HoldersStay(t)
      BY <1>0, <2>1, <3>1, NoneRaised DEF HoldersStay
    <3> QED
      BY <3>2, StillHeld
  <2>3. CASE RecordSuccess(j) \/ RecordFailure(j)
    <3>1. taskOf[j] \in Tasks
      BY <2>3 DEF RecordSuccess, RecordFailure, WorkInv
    <3>2. Unraised(t)
      BY <1>0, <2>3, <3>1, NoneRaised DEF RecordSuccess, RecordFailure
    <3>3. \A i \in Jobs : wpc[i] \in LiveWork => wpc'[i] \in LiveWork
      BY <2>3 DEF RecordSuccess, RecordFailure, LiveWork
    <3> QED
      BY <2>1, <3>2, <3>3, StillHeld DEF HoldersStay
  <2>4. CASE MirrorQueueRow(j)
    <3>1. UNCHANGED rows /\ wpc[j] = "mirror" /\ wpc' = [wpc EXCEPT ![j] = "done"]
      BY <2>4 DEF MirrorQueueRow
    <3>2. Status(taskOf[j]) # "running"
      BY <3>1 DEF WorkInv, RecordedStatus
    <3>3. Status(t)' = "claimed" => ClaimHeld(t)'
      BY <2>1, <3>1 DEF Held, ClaimHeld, Status
    <3>4. ASSUME Status(t)' = "running" PROVE RunHeld(t)'
      <4>1. RunHeld(t) /\ taskOf[j] # t
        BY <3>1, <3>2, <3>4 DEF Held, Status
      <4> QED
        BY <2>1, <3>1, <4>1 DEF RunHeld
    <3> QED
      BY <3>3, <3>4 DEF Held
  <2> QED
    BY <1>3, <2>2, <2>3, <2>4 DEF Work
<1>4. ASSUME NEW r \in Ratifiers, Ratify(r) PROVE Held(t)'
  <2>1. CASE RatifyInsert(r)
    <3>1. InsertTaskRows(rdoc[r]) /\ rdoc[r] \in Plans
      BY <2>1 DEF RatifyInsert, RatifyInv
    <3>2. Unraised(t)
      BY <3>1, InsertStep DEF Unraised, Status
    <3> QED
      BY <1>1, <2>1, <3>2 DEF RatifyInsert
  <2> QED
    BY <1>2, <1>4, <2>1
    DEF Ratify, RatifyAdmit, RatifyDeny, RatifyWin, RatifyLose, RatifyRow
<1>5. ASSUME NEW c \in Cancellers, Cancel(c) PROVE Held(t)'
  <2>1. CASE CancelNext(c)
    <3>1. Unraised(t)
      BY <1>0, <2>1, NoneRaised DEF CancelNext, First
    <3> QED
      BY <1>1, <2>1, <3>1 DEF CancelNext
  <2> QED
    BY <1>2, <1>5, <2>1 DEF Cancel, CancelRead, CancelVeto, CancelList, Transition
<1>6. ASSUME NEW x \in Reconcilers, Reconcile(x) PROVE Held(t)'
  <2>1. CASE ReconcileNext(x)
    <3>1. Unraised(t)
      BY <1>0, <2>1, NoneRaised DEF ReconcileNext
    <3> QED
      BY <1>1, <2>1, <3>1 DEF ReconcileNext
  <2> QED
    BY <1>2, <1>6, <2>1 DEF Reconcile, ReconcileRead
<1>7. ASSUME NEW u \in Tasks, Age(u) PROVE Held(t)'
  <2>1. Unraised(t)
    BY <1>0, <1>7, NoneRaised DEF Age
  <2> QED
    BY <1>1, <1>7, <2>1 DEF Age
<1>8. CASE Expire \/ KillSwitch \/ UNCHANGED vars
  BY <1>2, <1>8 DEF Expire, KillSwitch, Transition
<1> QED
  BY <1>3, <1>4, <1>5, <1>6, <1>7, <1>8

(* Whoever reconciles, cancels, resumes or shares a claim, and whether or  *)
(* not an insert fails: before the first crash no task is left claimed or  *)
(* running with nobody to end it (NothingAdrift).                          *)
THEOREM LeavesNoneAdrift == Spec => []NothingAdrift
<1>1. Init => NothingAdrift
  BY DEF Init, JournalInit, AbsentRow, NothingAdrift, Held, Status
<1>2. IInv /\ NothingAdrift /\ [Next]_vars => NothingAdrift'
  <2> SUFFICES ASSUME IInv, NothingAdrift, [Next]_vars, crashes' = 0, NEW t \in Tasks
               PROVE  Held(t)'
    BY DEF NothingAdrift
  <2>1. /\ \A d \in Dispatchers : ~Crash(d)
        /\ \A r \in Ratifiers : ~RatifyCrash(r)
    BY DEF Crash, RatifyCrash, IInv, TypeOK
  <2>2. CASE \E d \in Dispatchers : Dispatch(d)
    <3>1. crashes = 0
      BY <2>2 DEF Dispatch, Begin, GateWin, GateLose, GateReread, WaveProceed, WaveHalt, ReadWave,
         SkipNext, TakeChunk, ClaimNext, CreateQueueRow, CreateRunRow, CreateFails,
         ReleaseOwnClaim, MarkRunningWon, MarkRunningLost, CloseOrphanRun, CloseOrphanQueueRow,
         Submit, WaitNext, WaveEnd, SweepRead, SweepNext, FinalRead, Settle
    <3> QED
      BY <2>2, <3>1, DispatchHolds DEF NothingAdrift
  <2>3. CASE ~\E d \in Dispatchers : Dispatch(d)
    <3>1. \/ \E j \in Jobs : Work(j)
          \/ \E r \in Ratifiers : Ratify(r)
          \/ \E c \in Cancellers : Cancel(c)
          \/ \E x \in Reconcilers : Reconcile(x)
          \/ (\E u \in Tasks : Age(u)) \/ Expire \/ KillSwitch \/ UNCHANGED vars
      BY <2>1, <2>3 DEF Next
    <3>2. crashes = 0
      BY <3>1 DEF Work, StepBoundary, PipelineReturns, RecordSuccess, RecordFailure,
         MirrorQueueRow, Ratify, RatifyAdmit, RatifyDeny, RatifyWin, RatifyLose, RatifyInsert,
         Cancel, CancelRead, CancelVeto, CancelList, CancelNext, Reconcile, ReconcileRead,
         ReconcileNext, Age, Expire, KillSwitch
    <3> QED
      BY <3>1, <3>2, OthersHold DEF NothingAdrift
  <2> QED
    BY <2>2, <2>3
<1> QED
  BY <1>1, <1>2, IInvAlways, PTL DEF Spec

-----------------------------------------------------------------------------
(* Where nobody dies, no insert fails and no claim lasts for the time that *)
(* makes it stale, a claim is never given back, so that a task is claimed, *)
(* and run, once (claim before create).                                    *)

Unclaimed == {"absent", "pending"}

Prompt ==
    /\ crashes = 0
    /\ \A t \in Tasks : ~rows[t].old
    /\ \A x \in Reconcilers : xlist[x] = {}
    /\ \A d \in Dispatchers : pc[d] # "release"

(* No claim is old after the step, and none was given back in it.          *)
Steady ==
    \A t \in Tasks :
        /\ ~rows'[t].old
        /\ Status(t)' \in Unclaimed => Status(t) \in Unclaimed

(* The tasks that were claimed have one dispatcher in hand of them, then   *)
(* one job; and the others neither.                                        *)
SoleInv ==
    /\ \A t \in Tasks : Status(t) \in Unclaimed =>
         /\ \A j \in Jobs : taskOf[j] # t
         /\ \A d \in Dispatchers : pc[d] \in Holding => cur[d] # t
    /\ \A c, d \in Dispatchers :
         pc[c] \in Holding /\ pc[d] \in Holding /\ cur[c] = cur[d] => c = d
    /\ \A d \in Dispatchers : pc[d] = "create" => \A j \in Jobs : taskOf[j] # cur[d]
    /\ \A i, j \in Jobs : taskOf[i] = taskOf[j] /\ taskOf[i] # NULL => i = j
    /\ \A j \in Jobs : runrow[j] = "running" => taskOf[j] # NULL

LEMMA UpdateSteady ==
    ASSUME TypeOK, Prompt, NEW u \in Tasks,
           \/ UNCHANGED rows
           \/ IF CanSkip(u) THEN SetStatus(u, "skipped") ELSE UNCHANGED journal
           \/ CancelTask(u)
           \/ \E o \in Owners : ClaimTask(u, o)
           \/ \E j \in Jobs : MarkTaskRunning(u, j)
           \/ \E s \in {"committed", "failed"} : SetStatus(u, s)
    PROVE  Steady
<1>0. JournalTypeOK /\ \A t \in Tasks : ~rows[t].old
  BY DEF TypeOK, Prompt
<1>1. CASE UNCHANGED rows
  BY <1>0, <1>1 DEF Steady, Status
<1>2. ASSUME NEW s \in {"skipped", "cancelled", "committed", "failed"}, SetStatus(u, s)
      PROVE  Steady
  <2>1. /\ rows'[u].status = s /\ rows'[u].old = rows[u].old
        /\ \A t \in Tasks : t # u => rows'[t] = rows[t]
    BY <1>0, <1>2 DEF JournalTypeOK, SetStatus, SetRow, TaskRow
  <2> QED
    BY <1>0, <2>1 DEF Steady, Status, Unclaimed
<1>3. ASSUME NEW o \in Owners, ClaimTask(u, o) PROVE Steady
  <2>1. rows'[u].status = "claimed" /\ ~rows'[u].old /\ \A t \in Tasks : t # u => rows'[t] = rows[t]
    BY <1>0, <1>3 DEF JournalTypeOK, ClaimTask, SetRow, TaskRow
  <2> QED
    BY <1>0, <2>1 DEF Steady, Status, Unclaimed
<1>4. ASSUME NEW j \in Jobs, MarkTaskRunning(u, j) PROVE Steady
  <2>1. /\ rows'[u].status = "running" /\ rows'[u].old = rows[u].old
        /\ \A t \in Tasks : t # u => rows'[t] = rows[t]
    BY <1>0, <1>4 DEF JournalTypeOK, MarkTaskRunning, SetRow, TaskRow
  <2> QED
    BY <1>0, <2>1 DEF Steady, Status, Unclaimed
<1> QED
  BY <1>1, <1>2, <1>3, <1>4 DEF CancelTask

(* A claim has a holder at work on it, and does not become old.            *)
LEMMA PromptStep ==
    ASSUME Faults \cap {"crash", "create", "stall"} = {}, IInv, Prompt, NothingAdrift, [Next]_vars
    PROVE  Prompt' /\ Steady
<1> USE DEF IInv, TypeOK
<1>0. TypeOK /\ (UNCHANGED rows => Steady)
  <2>1. UNCHANGED rows => Steady
    BY DEF Steady, Prompt, Status
  <2> QED
    BY <2>1
<1>1. SUFFICES Steady /\ UNCHANGED <<xlist, crashes>> /\ \A d \in Dispatchers : pc'[d] # "release"
  BY DEF Prompt, Steady
<1>2. ASSUME NEW d \in Dispatchers, Dispatch(d)
      PROVE  Steady /\ UNCHANGED <<xlist, crashes>> /\ \A c \in Dispatchers : pc'[c] # "release"
  <2>1. ~CreateFails(d) /\ ~ReleaseOwnClaim(d)
    BY DEF CreateFails, ReleaseOwnClaim, Prompt
  <2>2. CASE \/ Begin(d) \/ GateWin(d) \/ GateLose(d) \/ GateReread(d) \/ WaveProceed(d)
             \/ WaveHalt(d) \/ ReadWave(d) \/ TakeChunk(d) \/ WaitNext(d) \/ WaveEnd(d)
             \/ SweepRead(d) \/ FinalRead(d) \/ Settle(d)
    BY <1>0, <2>2 DEF Begin, GateWin, GateLose, GateReread, WaveProceed, WaveHalt, ReadWave,
       TakeChunk, WaitNext, WaveEnd, SweepRead, FinalRead, Settle, Transition, Goto, Prompt
  <2>3. CASE \/ CreateQueueRow(d) \/ CreateRunRow(d) \/ MarkRunningLost(d) \/ CloseOrphanRun(d)
             \/ CloseOrphanQueueRow(d) \/ Submit(d)
    BY <1>0, <2>3 DEF CreateQueueRow, CreateRunRow, MarkRunningLost, CloseOrphanRun,
       CloseOrphanQueueRow, Submit, Goto, Prompt
  <2>4. CASE SkipNext(d) \/ SweepNext(d)
    BY <1>0, <2>4, UpdateSteady DEF SkipNext, SweepNext, First, Prompt
  <2>5. CASE ClaimNext(d)
    <3>1. Steady
      BY <1>0, <2>5, UpdateSteady, ActorsAssumption DEF ClaimNext, First
    <3> QED
      BY <2>5, <3>1 DEF ClaimNext, Goto, Prompt
  <2>6. CASE MarkRunningWon(d)
    <3>1. cur[d] \in Tasks /\ job[d] \in Jobs
      BY <2>6 DEF MarkRunningWon, SnapshotInv, JobInv, Holding, WithJob
    <3>2. Steady
      BY <1>0, <2>6, <3>1, UpdateSteady DEF MarkRunningWon
    <3> QED
      BY <2>6, <3>2 DEF MarkRunningWon, Goto, Prompt
  <2> QED
    BY <1>2, <2>1, <2>2, <2>3, <2>4, <2>5, <2>6 DEF Dispatch
<1>3. ASSUME UNCHANGED <<pc, xlist, crashes>>, Steady
      PROVE  Steady /\ UNCHANGED <<xlist, crashes>> /\ \A c \in Dispatchers : pc'[c] # "release"
  BY <1>3 DEF Prompt
<1>4. ASSUME NEW j \in Jobs, Work(j) PROVE UNCHANGED <<pc, xlist, crashes>> /\ Steady
  <2>1. CASE RecordSuccess(j) \/ RecordFailure(j)
    <3>1. taskOf[j] \in Tasks
      BY <2>1 DEF RecordSuccess, RecordFailure, WorkInv
    <3>2. Steady
      BY <1>0, <2>1, <3>1, UpdateSteady DEF RecordSuccess, RecordFailure
    <3> QED
      BY <2>1, <3>2 DEF RecordSuccess, RecordFailure
  <2> QED
    BY <1>0, <1>4, <2>1 DEF Work, StepBoundary, PipelineReturns, MirrorQueueRow
<1>5. ASSUME NEW r \in Ratifiers, Ratify(r) PROVE UNCHANGED <<pc, xlist, crashes>> /\ Steady
  <2>1. CASE RatifyInsert(r)
    <3>1. ASSUME NEW t \in Tasks
          PROVE  rows'[t] = rows[t] \/ (Status(t) = "absent" /\ rows'[t] = PendingRow)
      BY <2>1 DEF RatifyInsert, InsertTaskRows
    <3>2. Steady
      BY <3>1 DEF PendingRow, AbsentRow, Steady, Status, Prompt, Unclaimed
    <3> QED
      BY <2>1, <3>2 DEF RatifyInsert
  <2> QED
    BY <1>0, <1>5, <2>1 DEF Ratify, RatifyAdmit, RatifyDeny, RatifyWin, RatifyLose, RatifyRow
<1>6. ASSUME NEW c \in Cancellers, Cancel(c) PROVE UNCHANGED <<pc, xlist, crashes>> /\ Steady
  <2>1. CASE CancelNext(c)
    BY <1>0, <2>1, UpdateSteady DEF CancelNext, First
  <2> QED
    BY <1>0, <1>6, <2>1 DEF Cancel, CancelRead, CancelVeto, CancelList, Transition
<1>7. ASSUME NEW x \in Reconcilers, Reconcile(x) PROVE UNCHANGED <<pc, xlist, crashes>> /\ Steady
  <2>1. ~ReconcileNext(x)
    BY DEF ReconcileNext, Prompt
  <2>2. StaleClaims = {}
    BY DEF StaleClaims, Prompt
  <2>3. UNCHANGED <<pc, crashes, rows>> /\ xlist' = [xlist EXCEPT ![x] = {}] /\ xlist[x] = {}
    BY <1>7, <2>1, <2>2 DEF Reconcile, ReconcileRead, Prompt
  <2> QED
    BY <1>0, <2>3
<1>8. ASSUME NEW t \in Tasks PROVE ~Age(t)
  <2>1. Status(t) = "claimed" =>
          \E d \in Dispatchers : cur[d] = t /\ pc[d] \in {"create", "record", "mark", "release"}
    BY DEF Prompt, NothingAdrift, Held, ClaimHeld
  <2> QED
    BY <2>1 DEF Age, ClaimAges
<1>9. CASE Expire \/ KillSwitch \/ UNCHANGED vars
  <2>1. UNCHANGED <<pc, xlist, crashes, rows>>
    BY <1>9 DEF Expire, KillSwitch, Transition
  <2> QED
    BY <1>0, <1>3, <2>1
<1> QED
  BY <1>2, <1>3, <1>4, <1>5, <1>6, <1>7, <1>8, <1>9 DEF Next, Crash, RatifyCrash

(* Only what a dispatcher does from its claim to its submission counts.    *)
LEMMA SoleStep ==
    ASSUME IInv, SoleInv, Steady, [Next]_vars, \A d \in Dispatchers : ~CreateFails(d)
    PROVE  SoleInv'
<1> USE DEF IInv, TypeOK, Goto
<1>1. CASE /\ UNCHANGED <<taskOf, runrow, cur>>
           /\ \A d \in Dispatchers :
                /\ pc'[d] \in Holding => pc[d] \in Holding
                /\ pc'[d] = "create" => pc[d] = "create"
  BY <1>1 DEF SoleInv, Steady
<1>2. CASE UNCHANGED <<taskOf, runrow, cur, pc>>
  BY <1>1, <1>2
<1>3. ASSUME NEW d \in Dispatchers, Dispatch(d) PROVE SoleInv'
  <2>1. CASE ClaimNext(d)
    <3>1. PICK t \in Tasks :
            \/ /\ CanClaim(t) /\ cur' = [cur EXCEPT ![d] = t]
               /\ ClaimTask(t, OwnerOf[d])
               /\ pc' = [pc EXCEPT ![d] = "create"] /\ UNCHANGED <<taskOf, runrow>>
            \/ UNCHANGED <<taskOf, runrow, cur, pc>>
      BY <2>1 DEF ClaimNext, First
    <3>2. CASE /\ CanClaim(t) /\ cur' = [cur EXCEPT ![d] = t]
               /\ ClaimTask(t, OwnerOf[d])
               /\ pc' = [pc EXCEPT ![d] = "create"] /\ UNCHANGED <<taskOf, runrow>>
      <4>1. /\ \A j \in Jobs : taskOf[j] # t
            /\ \A c \in Dispatchers : pc[c] \in Holding => cur[c] # t
        BY <3>2 DEF SoleInv, CanClaim, Unclaimed
      <4>2. RowStep(t, "claimed", OwnerOf[d], rows[t].run)
        BY <3>2, ClaimStep, ActorsAssumption
      <4>3. Status(t)' \notin Unclaimed
        BY <4>2 DEF RowStep, Status, Unclaimed
      <4> QED
        BY <3>2, <4>1, <4>3 DEF SoleInv, Steady
    <3> QED
      BY <1>2, <3>1, <3>2
  <2>2. CASE CreateQueueRow(d)
    <3>1. PICK j \in Jobs : queue[j] = "none" /\ taskOf' = [taskOf EXCEPT ![j] = cur[d]]
      BY <2>2 DEF CreateQueueRow, First
    <3>2. /\ pc[d] = "create" /\ pc' = [pc EXCEPT ![d] = "record"]
          /\ UNCHANGED <<cur, runrow>>
      BY <2>2 DEF CreateQueueRow
    <3>3. /\ cur[d] \in Tasks /\ Status(cur[d]) \notin Unclaimed
          /\ \A i \in Jobs : taskOf[i] # cur[d]
          /\ \A c \in Dispatchers : pc[c] \in Holding /\ cur[c] = cur[d] => c = d
      BY <3>2 DEF SnapshotInv, SoleInv, Holding
    <3>4. NULL \notin Tasks
      BY NullAssumption
    <3> QED
      BY <3>1, <3>2, <3>3, <3>4 DEF SoleInv, Steady, Holding
  <2>3. CASE CreateRunRow(d) \/ CloseOrphanRun(d)
    <3>1. /\ job[d] \in Jobs /\ taskOf[job[d]] = cur[d] /\ cur[d] \in Tasks
          /\ pc[d] \in Holding
      BY <2>3 DEF CreateRunRow, CloseOrphanRun, SnapshotInv, JobInv, Holding, WithJob
    <3>2. PICK s \in {"mark", "unqueue"}, v \in {"running", "failed"} :
            /\ runrow' = [runrow EXCEPT ![job[d]] = v]
            /\ pc' = [pc EXCEPT ![d] = s] /\ UNCHANGED <<taskOf, cur>>
      BY <2>3 DEF CreateRunRow, CloseOrphanRun
    <3>3. NULL \notin Tasks
      BY NullAssumption
    <3> QED
      BY <3>1, <3>2, <3>3 DEF SoleInv, Steady
  <2>4. CASE \/ MarkRunningWon(d) \/ MarkRunningLost(d) \/ CloseOrphanQueueRow(d) \/ Submit(d)
             \/ ReleaseOwnClaim(d)
    BY <1>1, <2>4 DEF MarkRunningWon, MarkRunningLost, CloseOrphanQueueRow, Submit,
       ReleaseOwnClaim, Holding
  <2>5. CASE \/ Begin(d) \/ GateWin(d) \/ GateLose(d) \/ GateReread(d) \/ WaveProceed(d)
             \/ WaveHalt(d) \/ ReadWave(d) \/ TakeChunk(d) \/ WaitNext(d) \/ WaveEnd(d)
             \/ SweepRead(d) \/ SweepNext(d) \/ SkipNext(d) \/ FinalRead(d) \/ Settle(d)
    BY <1>1, <2>5 DEF Begin, GateWin, GateLose, GateReread, WaveProceed, WaveHalt, ReadWave,
       TakeChunk, WaitNext, WaveEnd, SweepRead, SweepNext, SkipNext, FinalRead, Settle, Holding
  <2> QED
    BY <1>3, <2>1, <2>2, <2>3, <2>4, <2>5 DEF Dispatch
<1>4. CASE \E d \in Dispatchers : Crash(d)
  BY <1>1, <1>4 DEF Crash, Holding
<1>5. CASE \/ \E j \in Jobs : Work(j)
           \/ \E r \in Ratifiers : Ratify(r) \/ RatifyCrash(r)
  BY <1>2, <1>5 DEF Work, StepBoundary, PipelineReturns, RecordSuccess, RecordFailure,
     MirrorQueueRow, Ratify, RatifyAdmit, RatifyDeny, RatifyWin, RatifyLose, RatifyInsert,
     RatifyCrash
<1>6. CASE \/ \E c \in Cancellers : Cancel(c)
           \/ \E x \in Reconcilers : Reconcile(x)
           \/ (\E t \in Tasks : Age(t)) \/ Expire \/ KillSwitch \/ UNCHANGED vars
  BY <1>2, <1>6 DEF Cancel, CancelRead, CancelVeto, CancelList, CancelNext, Reconcile,
     ReconcileRead, ReconcileNext, Age, Expire, KillSwitch
<1> QED
  BY <1>3, <1>4, <1>5, <1>6 DEF Next

(* "Never two runs" for one task: so it is, for any dispatchers that       *)
(* share claims, resume, lose them to a cancellation or fail to wait, as   *)
(* long as none of them dies, fails to insert or stalls.                   *)
THEOREM NeverTwoRunsWhilePrompt ==
    ASSUME Faults \cap {"crash", "create", "stall"} = {}
    PROVE  Spec => []NeverTwoRuns
<1>1. Init => Prompt /\ SoleInv
  <2> SUFFICES ASSUME Init PROVE Prompt /\ SoleInv
    OBVIOUS
  <2>1. Prompt
    BY DEF Init, JournalInit, AbsentRow, Prompt
  <2>2. \A j \in Jobs : taskOf[j] = NULL /\ runrow[j] = "none"
    BY DEF Init
  <2>3. \A d \in Dispatchers : pc[d] = "idle"
    BY DEF Init
  <2> QED
    BY <2>1, <2>2, <2>3, NullAssumption DEF SoleInv, Holding
<1>2. IInv /\ NothingAdrift /\ Prompt /\ SoleInv /\ [Next]_vars => Prompt' /\ SoleInv'
  BY PromptStep, SoleStep DEF CreateFails
<1>3. SoleInv => NeverTwoRuns
  BY DEF SoleInv, NeverTwoRuns
<1> QED
  BY <1>1, <1>2, <1>3, IInvAlways, LeavesNoneAdrift, PTL DEF Spec

(* What a pipeline reported, when none stops at a checkpoint.              *)
ReportInv ==
    \A j \in Jobs :
        /\ result[j] # "checkpoint"
        /\ wpc[j] \in {"passed", "broken", "mirror", "done"} => result[j] # "none"

LEMMA ReportStep ==
    ASSUME "checkpoint" \notin Faults, IInv, ReportInv, [Next]_vars
    PROVE  ReportInv'
<1> USE DEF IInv, TypeOK
<1>1. CASE UNCHANGED <<wpc, result>>
  BY <1>1 DEF ReportInv
<1>2. ASSUME NEW j \in Jobs, Work(j) PROVE ReportInv'
  <2>1. CASE \E o \in Outcomes : PipelineReturns(j, o)
    BY <2>1 DEF PipelineReturns, Outcomes, ReportInv
  <2> QED
    BY <1>2, <2>1 DEF Work, StepBoundary, RecordSuccess, RecordFailure, MirrorQueueRow, ReportInv
<1>3. ASSUME NEW d \in Dispatchers, Dispatch(d) \/ Crash(d) PROVE ReportInv'
  <2>1. CASE Submit(d) \/ Crash(d)
    BY <2>1 DEF Submit, Crash, ReportInv
  <2> QED
    BY <1>1, <1>3, <2>1 DEF Dispatch, Begin, GateWin, GateLose, GateReread, WaveProceed, WaveHalt,
       ReadWave, SkipNext, TakeChunk, ClaimNext, CreateQueueRow, CreateRunRow, CreateFails,
       ReleaseOwnClaim, MarkRunningWon, MarkRunningLost, CloseOrphanRun, CloseOrphanQueueRow,
       WaitNext, WaveEnd, SweepRead, SweepNext, FinalRead, Settle
<1>4. CASE \/ \E r \in Ratifiers : Ratify(r) \/ RatifyCrash(r)
           \/ \E c \in Cancellers : Cancel(c)
           \/ \E x \in Reconcilers : Reconcile(x)
           \/ (\E t \in Tasks : Age(t)) \/ Expire \/ KillSwitch \/ UNCHANGED vars
  BY <1>1, <1>4 DEF Ratify, RatifyAdmit, RatifyDeny, RatifyWin, RatifyLose, RatifyInsert,
     RatifyCrash, Cancel, CancelRead, CancelVeto, CancelList, CancelNext, Reconcile,
     ReconcileRead, ReconcileNext, Age, Expire, KillSwitch
<1> QED
  BY <1>2, <1>3, <1>4 DEF Next

(* A task is committed when its pipeline has reached its end: a stop at a  *)
(* plan checkpoint is all that is taken for one (_results_succeeded).      *)
THEOREM CommittedIsDoneUnlessStopped ==
    ASSUME "checkpoint" \notin Faults
    PROVE  Spec => []CommittedIsDone
<1>1. Init => ReportInv
  BY DEF Init, ReportInv
<1>2. IInv /\ ReportInv /\ [Next]_vars => ReportInv'
  BY ReportStep
<1>3. IInv /\ ReportInv => CommittedIsDone
  <2> SUFFICES ASSUME IInv, ReportInv, NEW j \in Jobs, wpc[j] = "done",
                      Status(taskOf[j]) = "committed"
               PROVE  result[j] = "success"
    BY DEF CommittedIsDone
  <2>1. Status(taskOf[j]) = (IF result[j] = "failure" THEN "failed" ELSE "committed")
    BY DEF IInv, WorkInv, RecordedStatus
  <2> QED
    BY <2>1 DEF IInv, TypeOK, ReportInv
<1> QED
  BY <1>1, <1>2, <1>3, IInvAlways, PTL DEF Spec

-----------------------------------------------------------------------------
(* Where rows can be created and nobody crashes, the handlers of           *)
(* _dispatch_chunk leave no queue row behind.                              *)

(* What concerns the jobs is done by workers, and by dispatchers with a    *)
(* job in hand, which is their own.                                        *)
LEMMA NoStrayStep ==
    ASSUME Faults \cap {"create", "crash"} = {}, IInv, NoStrayQueueRow, [Next]_vars
    PROVE  NoStrayQueueRow'
<1> USE DEF IInv, TypeOK
<1> SUFFICES ASSUME NEW j \in Jobs, queue'[j] = "running"
             PROVE  wpc'[j] \in LiveWork \cup {"dead"} \/ InHand(j)'
  BY DEF NoStrayQueueRow
<1>1. CASE UNCHANGED <<queue, wpc, job, pc>>
  BY <1>1 DEF NoStrayQueueRow, InHand
<1>2. ASSUME NEW d \in Dispatchers, Dispatch(d)
      PROVE  wpc'[j] \in LiveWork \cup {"dead"} \/ InHand(j)'
  <2>1. CASE CreateQueueRow(d)
    <3>1. PICK i \in Jobs : /\ queue' = [queue EXCEPT ![i] = "running"]
                            /\ job' = [job EXCEPT ![d] = i]
      BY <2>1 DEF CreateQueueRow, First
    <3>2. pc[d] = "create" /\ pc' = [pc EXCEPT ![d] = "record"] /\ UNCHANGED wpc
      BY <2>1 DEF CreateQueueRow, Goto
    <3>3. CASE i = j
      BY <3>1, <3>2, <3>3 DEF InHand
    <3>4. CASE i # j
      BY <3>1, <3>2, <3>4 DEF NoStrayQueueRow, InHand
    <3> QED
      BY <3>3, <3>4
  <2>2. CASE \/ CreateRunRow(d) \/ MarkRunningWon(d) \/ MarkRunningLost(d) \/ CloseOrphanRun(d)
    BY <2>2 DEF CreateRunRow, MarkRunningWon, MarkRunningLost, CloseOrphanRun, Goto,
       NoStrayQueueRow, InHand
  <2>3. CASE Submit(d)
    <3>1. /\ pc[d] = "submit" /\ job[d] \in Jobs
          /\ wpc' = [wpc EXCEPT ![job[d]] = "early"]
          /\ pc' = [pc EXCEPT ![d] = "wave"]
          /\ UNCHANGED <<queue, job>>
      BY <2>3 DEF Submit, Goto, JobInv, WithJob
    <3>2. CASE job[d] = j
      BY <3>1, <3>2 DEF LiveWork
    <3>3. CASE job[d] # j
      BY <3>1, <3>3 DEF NoStrayQueueRow, InHand
    <3> QED
      BY <3>2, <3>3
  <2>4. CASE CloseOrphanQueueRow(d)
    <3>1. /\ pc[d] = "unqueue" /\ job[d] \in Jobs
          /\ queue' = [queue EXCEPT ![job[d]] = "blocked"]
          /\ pc' = [pc EXCEPT ![d] = "wave"]
          /\ UNCHANGED <<wpc, job>>
      BY <2>4 DEF CloseOrphanQueueRow, Goto, JobInv, WithJob
    <3>2. job[d] # j
      BY <3>1
    <3> QED
      BY <3>1, <3>2 DEF NoStrayQueueRow, InHand
  <2>5. ~CreateFails(d)
    BY DEF CreateFails
  <2>6. CASE /\ UNCHANGED <<queue, wpc, job>>
             /\ pc[d] \notin WithJob
             /\ \A e \in Dispatchers : e # d => pc'[e] = pc[e]
    BY <2>6 DEF NoStrayQueueRow, InHand, WithJob
  <2>7. CASE \/ Begin(d) \/ GateWin(d) \/ GateLose(d) \/ GateReread(d) \/ WaveProceed(d)
             \/ WaveHalt(d) \/ ReadWave(d) \/ TakeChunk(d) \/ WaitNext(d) \/ WaveEnd(d)
             \/ SweepRead(d) \/ FinalRead(d) \/ Settle(d)
    BY <2>6, <2>7 DEF Begin, GateWin, GateLose, GateReread, WaveProceed, WaveHalt, ReadWave,
       TakeChunk, WaitNext, WaveEnd, SweepRead, FinalRead, Settle, Goto, WithJob
  <2>8. CASE SkipNext(d) \/ ClaimNext(d) \/ ReleaseOwnClaim(d) \/ SweepNext(d)
    <3>1. CASE ClaimNext(d)
      BY <2>6, <3>1 DEF ClaimNext, Goto, WithJob
    <3>2. CASE SkipNext(d) \/ ReleaseOwnClaim(d) \/ SweepNext(d)
      BY <2>6, <3>2 DEF SkipNext, ReleaseOwnClaim, SweepNext, Goto, WithJob
    <3> QED
      BY <2>8, <3>1, <3>2
  <2> QED
    BY <1>2, <2>1, <2>2, <2>3, <2>4, <2>5, <2>7, <2>8 DEF Dispatch
<1>3. ASSUME NEW i \in Jobs, Work(i)
      PROVE  wpc'[j] \in LiveWork \cup {"dead"} \/ InHand(j)'
  <2>1. UNCHANGED <<pc, job>>
    BY <1>3 DEF Work, StepBoundary, PipelineReturns, RecordSuccess, RecordFailure, MirrorQueueRow
  <2>2. CASE i # j
    <3>1. wpc'[j] = wpc[j] /\ queue'[j] = queue[j]
      BY <1>3, <2>2 DEF Work, StepBoundary, PipelineReturns, RecordSuccess, RecordFailure,
         MirrorQueueRow
    <3> QED
      BY <2>1, <3>1 DEF NoStrayQueueRow, InHand
  <2>3. CASE i = j
    <3>1. ~MirrorQueueRow(i)
      BY <2>3 DEF MirrorQueueRow
    <3> QED
      BY <1>3, <2>3, <3>1 DEF Work, StepBoundary, PipelineReturns, RecordSuccess, RecordFailure,
         LiveWork
  <2> QED
    BY <2>2, <2>3
<1>4. ASSUME NEW d \in Dispatchers PROVE ~Crash(d)
  BY DEF Crash
<1>5. ASSUME NEW r \in Ratifiers, Ratify(r) \/ RatifyCrash(r) PROVE UNCHANGED <<queue, wpc, job, pc>>
  BY <1>5 DEF Ratify, RatifyAdmit, RatifyDeny, RatifyWin, RatifyLose, RatifyInsert, RatifyCrash
<1>6. ASSUME NEW c \in Cancellers, Cancel(c) PROVE UNCHANGED <<queue, wpc, job, pc>>
  BY <1>6 DEF Cancel, CancelRead, CancelVeto, CancelList, CancelNext
<1>7. ASSUME NEW x \in Reconcilers, Reconcile(x) PROVE UNCHANGED <<queue, wpc, job, pc>>
  BY <1>7 DEF Reconcile, ReconcileRead, ReconcileNext
<1>8. CASE (\E t \in Tasks : Age(t)) \/ Expire \/ KillSwitch \/ UNCHANGED vars
  BY <1>1, <1>8 DEF Age, Expire, KillSwitch
<1> QED
  BY <1>1, <1>2, <1>3, <1>4, <1>5, <1>6, <1>7, <1>8 DEF Next

(* Without a crash or a failing insert, every queue row that says          *)
(* `running` has a worker or a dispatcher about to give it one or close it *)
(* (NoStrayQueueRow).                                                      *)
THEOREM LeavesNoStray ==
    ASSUME Faults \cap {"create", "crash"} = {}
    PROVE  Spec => []NoStrayQueueRow
<1>1. Init => NoStrayQueueRow
  BY DEF Init, NoStrayQueueRow
<1>2. IInv /\ NoStrayQueueRow /\ [Next]_vars => NoStrayQueueRow'
  BY NoStrayStep
<1> QED
  BY <1>1, <1>2, IInvAlways, PTL DEF Spec

-----------------------------------------------------------------------------
(* One dispatcher at a time, whose waits do not time out, keeps to its     *)
(* parallelism: the tasks of a chunk that are still to be claimed, the one *)
(* in hand and those waited for are never more than a chunk.               *)

OneDispatcher == \A d, e \in Dispatchers : d = e

InHandCount(d) == IF pc[d] \in Holding THEN 1 ELSE 0

CapInv ==
    \A d \in Dispatchers :
        /\ \A j \in Jobs : wpc[j] \in LiveWork => j \in waits[d]
        /\ IsFiniteSet(waits[d])
        /\ Cardinality(chunk[d]) + Cardinality(waits[d]) + InHandCount(d) <= Cap

LEMMA OneMore ==
    ASSUME NEW S, NEW x, IsFiniteSet(S)
    PROVE  /\ IsFiniteSet(S \cup {x})
           /\ Cardinality(S \cup {x}) \in {Cardinality(S), Cardinality(S) + 1}
BY FS_AddElement

LEMMA OneLess ==
    ASSUME NEW S, NEW x \in S, IsFiniteSet(S)
    PROVE  /\ IsFiniteSet(S \ {x})
           /\ Cardinality(S \ {x}) = Cardinality(S) - 1
BY FS_RemoveElement

LEMMA Counts ==
    ASSUME IsFiniteSet(Tasks), IInv, CapInv, NEW d \in Dispatchers
    PROVE  /\ IsFiniteSet(chunk[d])
           /\ Cardinality(chunk[d]) \in Nat /\ Cardinality(waits[d]) \in Nat
           /\ Cap \in Nat
<1>1. IsFiniteSet(chunk[d]) /\ IsFiniteSet(waits[d])
  BY FS_Subset DEF IInv, TypeOK, CapInv
<1> QED
  BY <1>1, FS_CardinalityType, BoundsAssumption

(* The steps of the dispatcher itself.                                     *)
LEMMA CapDispatch ==
    ASSUME OneDispatcher, IsFiniteSet(Tasks), "timeout" \notin Faults, IInv, CapInv,
           NEW d \in Dispatchers, Dispatch(d) \/ Crash(d)
    PROVE  CapInv'
<1> USE DEF IInv, TypeOK
<1>0. /\ \A j \in Jobs : wpc[j] \in LiveWork => j \in waits[d]
      /\ IsFiniteSet(waits[d])
      /\ Cardinality(chunk[d]) + Cardinality(waits[d]) + InHandCount(d) <= Cap
  BY DEF CapInv
<1>1. IsFiniteSet(chunk[d]) /\ Cardinality(chunk[d]) \in Nat /\ Cardinality(waits[d]) \in Nat
      /\ Cap \in Nat
  BY Counts
<1> SUFFICES /\ \A j \in Jobs : wpc'[j] \in LiveWork => j \in waits'[d]
             /\ IsFiniteSet(waits'[d])
             /\ Cardinality(chunk'[d]) + Cardinality(waits'[d]) + InHandCount(d)' <= Cap
  BY DEF CapInv, OneDispatcher
<1>2. ASSUME UNCHANGED <<wpc, waits, chunk>>, pc'[d] \in Holding => pc[d] \in Holding
      PROVE  /\ \A j \in Jobs : wpc'[j] \in LiveWork => j \in waits'[d]
             /\ IsFiniteSet(waits'[d])
             /\ Cardinality(chunk'[d]) + Cardinality(waits'[d]) + InHandCount(d)' <= Cap
  BY <1>0, <1>1, <1>2 DEF InHandCount
<1>3. CASE TakeChunk(d)
  <2>1. PICK c \in Chunks(todo[d]) : chunk' = [chunk EXCEPT ![d] = c]
    BY <1>3 DEF TakeChunk
  <2>2. c \subseteq Tasks /\ Cardinality(c) <= Cap /\ chunk'[d] = c
    <3>1. c \in SUBSET todo[d]
      BY <2>1 DEF Chunks
    <3>2. IsFiniteSet(c)
      BY <3>1, FS_Subset
    <3> QED
      BY <2>1, <3>1, <3>2 DEF Chunks
  <2>3. IsFiniteSet(c) /\ Cardinality(c) \in Nat
    BY <2>2, FS_Subset, FS_CardinalityType
  <2>4. waits[d] = {} /\ pc[d] = "wave" /\ UNCHANGED <<pc, wpc, waits>>
    BY <1>3 DEF TakeChunk
  <2>5. Cardinality(waits[d]) = 0
    BY <2>4, FS_EmptySet
  <2>6. InHandCount(d)' = 0 /\ Cardinality(chunk'[d]) = Cardinality(c) /\ waits'[d] = waits[d]
    BY <2>2, <2>4 DEF InHandCount, Holding
  <2>7. Cardinality(chunk'[d]) + Cardinality(waits'[d]) + InHandCount(d)' <= Cap
    BY <1>1, <2>2, <2>3, <2>5, <2>6
  <2> QED
    BY <1>0, <2>4, <2>6, <2>7
<1>4. CASE ClaimNext(d)
  <2>1. PICK t \in First(chunk[d]) : chunk' = [chunk EXCEPT ![d] = @ \ {t}]
    BY <1>4 DEF ClaimNext
  <2>2. t \in chunk[d] /\ chunk'[d] = chunk[d] \ {t}
    BY <2>1 DEF First
  <2>3. Cardinality(chunk'[d]) = Cardinality(chunk[d]) - 1
    <3>1. Cardinality(chunk[d] \ {t}) = Cardinality(chunk[d]) - 1
      BY <1>1, <2>2, OneLess
    <3> QED
      BY <2>2, <3>1
  <2>4. pc[d] = "wave" /\ UNCHANGED <<wpc, waits>>
    BY <1>4 DEF ClaimNext
  <2> QED
    BY <1>0, <1>1, <2>3, <2>4 DEF InHandCount, Holding
<1>5. CASE Submit(d)
  <2>1. /\ wpc' = [wpc EXCEPT ![job[d]] = "early"]
        /\ waits' = [waits EXCEPT ![d] = @ \cup {job[d]}]
        /\ pc[d] = "submit" /\ pc'[d] = "wave"
        /\ UNCHANGED chunk
    BY <1>5 DEF Submit, Goto
  <2>2. /\ IsFiniteSet(waits'[d])
        /\ Cardinality(waits'[d]) <= Cardinality(waits[d]) + 1
        /\ Cardinality(waits'[d]) \in Nat
    <3>1. /\ IsFiniteSet(waits[d] \cup {job[d]})
          /\ Cardinality(waits[d] \cup {job[d]}) \in {Cardinality(waits[d]), Cardinality(waits[d]) + 1}
      BY <1>0, OneMore
    <3>2. waits'[d] = waits[d] \cup {job[d]}
      BY <2>1
    <3> QED
      BY <1>1, <3>1, <3>2
  <2> QED
    BY <1>0, <1>1, <2>1, <2>2 DEF InHandCount, Holding
<1>6. CASE WaitNext(d)
  <2>1. PICK i \in First(waits[d]) : wpc[i] = "done" /\ waits' = [waits EXCEPT ![d] = @ \ {i}]
    BY <1>6 DEF WaitNext
  <2>2. i \in waits[d] /\ waits'[d] = waits[d] \ {i} /\ UNCHANGED <<pc, chunk, wpc>>
    BY <1>6, <2>1 DEF First, WaitNext
  <2>3. IsFiniteSet(waits'[d]) /\ Cardinality(waits'[d]) = Cardinality(waits[d]) - 1
    <3>1. /\ IsFiniteSet(waits[d] \ {i})
          /\ Cardinality(waits[d] \ {i}) = Cardinality(waits[d]) - 1
      BY <1>0, <2>2, OneLess
    <3> QED
      BY <2>2, <3>1
  <2>4. "done" \notin LiveWork
    BY DEF LiveWork
  <2> QED
    BY <1>0, <1>1, <2>1, <2>2, <2>3, <2>4 DEF InHandCount
<1>7. CASE Crash(d)
  <2>1. /\ \A j \in Jobs : wpc'[j] \in LiveWork => wpc[j] \in LiveWork
        /\ pc'[d] = "crashed"
        /\ UNCHANGED <<waits, chunk>>
    BY <1>7 DEF Crash, Goto, LiveWork
  <2> QED
    BY <1>0, <1>1, <2>1 DEF InHandCount, Holding
<1>8. CASE \/ Begin(d) \/ GateWin(d) \/ GateLose(d) \/ GateReread(d) \/ WaveProceed(d)
           \/ WaveHalt(d) \/ ReadWave(d) \/ WaveEnd(d) \/ SweepRead(d) \/ FinalRead(d) \/ Settle(d)
  BY <1>2, <1>8 DEF Begin, GateWin, GateLose, GateReread, WaveProceed, WaveHalt, ReadWave, WaveEnd,
     SweepRead, FinalRead, Settle, Goto, Holding
<1>9. CASE SkipNext(d) \/ SweepNext(d)
  BY <1>2, <1>9 DEF SkipNext, SweepNext
<1>10. CASE \/ CreateQueueRow(d) \/ CreateRunRow(d) \/ CreateFails(d) \/ ReleaseOwnClaim(d)
            \/ MarkRunningWon(d) \/ MarkRunningLost(d) \/ CloseOrphanRun(d)
            \/ CloseOrphanQueueRow(d)
  BY <1>2, <1>10 DEF CreateQueueRow, CreateRunRow, CreateFails, ReleaseOwnClaim, MarkRunningWon,
     MarkRunningLost, CloseOrphanRun, CloseOrphanQueueRow, Holding
<1> QED
  BY <1>3, <1>4, <1>5, <1>6, <1>7, <1>8, <1>9, <1>10 DEF Dispatch

LEMMA CapStep ==
    ASSUME OneDispatcher, IsFiniteSet(Tasks), "timeout" \notin Faults, IInv, CapInv, [Next]_vars
    PROVE  CapInv'
<1> USE DEF IInv, TypeOK
<1>1. ASSUME UNCHANGED <<pc, chunk, waits>>,
             \A j \in Jobs : wpc'[j] \in LiveWork => wpc[j] \in LiveWork
      PROVE  CapInv'
  BY <1>1 DEF CapInv, InHandCount
<1>2. ASSUME NEW j \in Jobs, Work(j) PROVE CapInv'
  BY <1>1, <1>2 DEF Work, StepBoundary, PipelineReturns, RecordSuccess, RecordFailure,
     MirrorQueueRow, LiveWork
<1>3. ASSUME NEW r \in Ratifiers, Ratify(r) \/ RatifyCrash(r) PROVE CapInv'
  BY <1>1, <1>3 DEF Ratify, RatifyAdmit, RatifyDeny, RatifyWin, RatifyLose, RatifyInsert,
     RatifyCrash
<1>4. ASSUME NEW c \in Cancellers, Cancel(c) PROVE CapInv'
  BY <1>1, <1>4 DEF Cancel, CancelRead, CancelVeto, CancelList, CancelNext
<1>5. ASSUME NEW x \in Reconcilers, Reconcile(x) PROVE CapInv'
  BY <1>1, <1>5 DEF Reconcile, ReconcileRead, ReconcileNext
<1>6. CASE (\E t \in Tasks : Age(t)) \/ Expire \/ KillSwitch \/ UNCHANGED vars
  BY <1>1, <1>6 DEF Age, Expire, KillSwitch
<1> QED
  BY <1>2, <1>3, <1>4, <1>5, <1>6, CapDispatch DEF Next

(* At most effective_parallelism tasks of a partition run at once, where   *)
(* one dispatcher works on it and no wait times out (WithinParallelism).   *)
THEOREM KeepsToParallelism ==
    ASSUME OneDispatcher, IsFiniteSet(Tasks), "timeout" \notin Faults
    PROVE  Spec => []WithinParallelism
<1>1. Init => CapInv
  <2> SUFFICES ASSUME Init, NEW d \in Dispatchers
               PROVE  /\ \A j \in Jobs : wpc[j] \in LiveWork => j \in waits[d]
                      /\ IsFiniteSet(waits[d])
                      /\ Cardinality(chunk[d]) + Cardinality(waits[d]) + InHandCount(d) <= Cap
    BY DEF CapInv
  <2>1. waits[d] = {} /\ chunk[d] = {} /\ pc[d] = "idle" /\ \A j \in Jobs : wpc[j] = "none"
    BY DEF Init
  <2>2. InHandCount(d) = 0
    BY <2>1 DEF InHandCount, Holding
  <2>3. Cardinality({}) = 0 /\ IsFiniteSet({}) /\ Cap \in Nat
    BY FS_EmptySet, BoundsAssumption
  <2> QED
    BY <2>1, <2>2, <2>3 DEF LiveWork
<1>2. IInv /\ CapInv /\ [Next]_vars => CapInv'
  BY CapStep
<1>3. IInv /\ CapInv => WithinParallelism
  <2> SUFFICES ASSUME IInv, CapInv PROVE WithinParallelism
    OBVIOUS
  <2> DEFINE Live == {j \in Jobs : wpc[j] \in LiveWork}
  <2>1. CASE Live = {}
    BY <2>1, FS_EmptySet, BoundsAssumption DEF WithinParallelism
  <2>2. ASSUME NEW j \in Live PROVE WithinParallelism
    <3>1. PICK d \in Dispatchers : TRUE
      BY <2>2 DEF IInv, WorkInv, LiveWork
    <3>2. Live \subseteq waits[d] /\ IsFiniteSet(waits[d])
      BY DEF CapInv
    <3>3. Cardinality(Live) <= Cardinality(waits[d]) /\ Cardinality(Live) \in Nat
      BY <3>2, FS_Subset, FS_CardinalityType
    <3>4. Cardinality(waits[d]) <= Cap
      BY Counts DEF CapInv, InHandCount
    <3> HIDE DEF Live
    <3>5. Cardinality(Live) <= Cap
      BY <3>3, <3>4, Counts
    <3> QED
      BY <3>5 DEF WithinParallelism, Live
  <2> QED
    BY <2>1, <2>2
<1> QED
  BY <1>1, <1>2, <1>3, IInvAlways, PTL DEF Spec
=============================================================================
