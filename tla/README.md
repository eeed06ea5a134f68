# Verification of HivePilot

HivePilot runs pipelines of AI agents over projects. Much of it is text, files
and calls of other programs. What has to be right without anybody watching is
the part that starts runs on its own, or on the strength of one human decision
taken earlier: partitions, the autopilot queue, the retry queue, the swarm bus,
the accept of a skill draft, and the runs of pipelines and tasks that stop for a
person and are taken up again. These parts share one shape. Several threads,
processes or daemons act on a row of a SQL table (or on a few directories), each
step of theirs is one statement or one system call, and between two of them
anything may happen: a second dispatcher, a human's veto, a crash, a timeout.

This directory holds TLA+ models of those parts, TLC instances of the models,
and theorems about them that TLAPS checks. Paths below are relative to the
repository; `hivepilot/services/` is written `services/`.

    tlc  -workers 2 -config MCService.cfg MCPartition    one run of section 4
    tlapm PartitionDispatchProofs.tla                    one module of proofs

`PROJECT.json` names, for each definition that models code, the lines it stands
for; for each property a plausible slip in the code that would break it; and the
hazards the properties are for.

## 1. Inventory

### 1.1 Partition dispatch: `PartitionDispatch`

`services/partition_service.py`. A *partition* is a plan: tasks with
`depends_on`, proposed by an agent or a file, approved by a human, then carried
out.

*State.* A row of `partitions` (status, the proposed and the ratified document)
and rows of `partition_tasks` (status, `claimed_by`, `claimed_at`, `run_id`,
`queue_id`). Outside of the journal: rows in `autopilot_queue` (kind
`partition_task`) and in `runs`; the registry of cancel events of
`async_run_service`, in memory; locals of the dispatcher.

*Operations.* `create_partition`; `ratify_partition` (checks, conditional
`UPDATE`, insertion of the task rows); `veto_partition`, `expire_partition`;
`dispatch_partition` (gate, waves, per wave skips and chunks, per task claim →
queue row → run row → `mark_task_running` → submit, wait for the chunk's
latches, halt policy, settling); the worker `_make_task_work`
(`run_pipeline`, record, mirror, `done.set()`); `cancel_partition`;
`reconcile_stale_claims`.

*Interactions.* API and CLI ratify and, when they win, start the dispatch on a
thread of their own process. The dispatcher submits workers to the pool of
`async_run_service` and waits for them. `dispatch_partition` is also a public
function that any code may call at any time, also with `resume=True`. The
reconciler runs at the start of the API server and is an ordinary reader and
writer of the same rows.

*Hard.* Two dispatchers over one journal; a snapshot that is used several
transactions later; a crash between any two transactions; a claim taken for
dead whose owner lives; a wait that times out while the task runs on; a
cancellation or veto that meets a ratification.

*Correct when* no task is submitted twice; a task starts only if the ratified
plan has it and its prerequisites committed; what the journal says of a task is
what happened to it; what has ended stays so; a partition is called completed
only if it is; a cancelled one starts nothing more; every dispatch returns.

### 1.2 Autopilot queue and kill switch: `AutopilotQueue`

`services/autopilot_queue.py`, `services/autopilot_policy.py`.

*State.* Rows of `autopilot_queue` (kind `objective`): proposed, queued,
running, done, blocked, vetoed, with a cost; the row of `autopilot_control`
(paused, stopped); policy and pipeline files; the tenant's spend of the last
day.

*Operations.* `enqueue`, `promote`, `veto`, `mark`, `pause`, `resume`, `stop`,
`drain_one` (is_paused → next_dispatchable → policy → spend → gate → claim →
`run_pipeline` → spend → mark).

*Interactions.* `drain_one` is called from a schedule entry with source
`autopilot`, by the daemon, the CLI or a webhook: nothing keeps these from
overlapping. People and pipelines write the queue and the switch.

*Hard.* Read in one query, used in another, with every other actor in between:
the candidate, the switch, the policy, the budget.

*Correct when* an objective runs at most once; what was vetoed before it started
does not start; a thrown switch halts dispatching; the budget is overdrawn at
most by what was under way; a queue the gate allows is drained.

### 1.3 Retry queue and the daemon that drains it: `RetryQueue`

`services/retry_service.py`, `services/scheduler_daemon.py`.

*State.* Rows of `retry_queue`: status, attempt, `next_retry_at`, `created_at`,
and a context that tells `deferred` rows (put off for a quota or by the batch
limit) from `backoff` rows (a scheduled task that raised).

*Operations.* `enqueue`, `enqueue_deferred`, `purge_dlq`, and in each tick:
`expire_stale`, `_process_deferred_rows` (all due rows, in one pass, unclaimed),
`_process_backoff_retries` (one row, claimed).

*Interactions.* Rows come from `schedule_service.run_entry` and
`Orchestrator.run_task`; the drain calls `run_task` again.

*Hard.* Attempts are computed from the row as it was selected, before a run of
any length; expiry reads and writes in two transactions; the success of a run is
not told by the absence of an exception.

*Correct when* a row is run by one daemon at a time, attempts count runs, a row
is dead only when its attempts are used up, settled rows stay settled, and
nothing waits for ever.

### 1.4 Swarm bus: `SwarmBus`

`services/swarm_service.py`, `swarm/`.

*State.* Rows of `swarm_events` (status, tenant, signature, owner); with the
Redis transport a stream, its consumer group and the group's pending entries;
the signing key that an instance resolves.

*Operations.* `publish_event` (insert, then hand-off to the transport),
`claim_next` (candidates one by one: tenant, signature, claim),
`dispatch_claimed_event` (claimed → running → handler → done or failed).

*Interactions.* Several instances share the table; each serves some tenants. A
handler starts a pipeline. Anyone may dispatch an event a second time.

*Hard.* Redelivery, an instance with another key, tenants nobody serves, a
window of candidates, the death of a worker that has claimed.

*Correct when* a pipeline is started at most once per event and only by an
instance that serves its tenant; what became of an event stays; an event that
somebody serves is handled.

### 1.5 Accept of a skill draft: `SkillAccept`

`skill_evolution_accept.py`, with the decision in `pass_store.py`.

*State.* The proposal's status and its `applied` mark in the database; on disk
the skill's directory, a staging tree, a backup and a journal.

*Operations.* `decide`; `accept_approved`: load, gate, compare digests, recover
from a journal, write the staging tree, swap by two renames, clean up, mark.

*Interactions.* Requests of `POST /v1/skill-evolutions/{id}/accept`, without a
lock between them; other code loads the directory.

*Hard.* A crash between any two of a dozen system calls, or in the middle of a
removal, and a next accept that may be of another draft.

*Correct when* only approved files are installed, the directory never holds
part of a tree, the skill is never lost, a mark tells the truth, and what an
interrupted accept took away comes back.

### 1.6 Run of a pipeline: `PipelineRun`

`orchestrator.py` (`run_pipeline`, `approve_run`, `resume_pipeline`,
`human_challenge`), `runs` and `approvals` of `services/state_service.py`.

*State.* The status of the run; the row of `approvals` with the metadata of the
checkpoint: next stage, components, context; the locals of each call that walks
the stages.

*Operations.* The loop over the stages: skip, checkpoint, run, failure or
tolerated failure, end; approval and denial, resumption, questions asked of the
plan while the run waits.

*Interactions.* CLI, API and bots call all of these. A stage is a run of a task.

*Hard.* All a resumed run knows is one row; several people may read it before
any of them writes; a question is answered minutes after the row was read.

*Correct when* no gated stage runs without its approval, a complete run ran all
its stages, a resumed run goes on where the other stopped and with what it knew,
and a decision has an effect.

### 1.7 Run of a task: `StepRun`

`orchestrator.py` (`_run_task_body`, `_execute_task_body`, `run_approved`),
`services/api_service.py` (`POST /v1/runs`, its worker and its cancel),
`services/async_run_service.py` (registry of cancel events).

*State.* The run's row, its approval, the cancel event, the steps done, an
exception on its way up, git actions.

*Operations.* The gates before a task, the steps, a step that stops for
approval, fallback runners, a deferral for quota, review, git, and what each of
the three callers makes of the outcome.

*Hard.* Three callers with gates and handlers of their own for the same steps;
a cancel at any moment; a decision on a row read earlier.

*Correct when* no caller's gates are weaker, steps run once and in order, git
comes last, a cancel stops the run at the next step, a run ends and ends once.

### 1.8 Not modelled

| part | why |
| --- | --- |
| partition contract (`partition.py`) | parsing and field checks; the levels that `plan_waves` computes are `NextWave` |
| side effects of PASS decisions, tool checkpoints (`pass_store.py`, `side_effects.py`, `checkpoints.py`) | `SkillAccept` has the decision; what a decision fires is not modelled. `decide` (`pass_store.py:441`) does not look at `rowcount`, so two approvals may both fire it: a reader sees that without a model |
| shutdown of asynchronous runs | `submit_background` and `wait_until_idle` drain the registry of `StepRun`; the rest of the process's exit is the interpreter's |
| runner throttle and runners | one semaphore around one call; a runner is a program, whose outcome is a choice |
| schedules, routines, drift scans | a due entry is read, run and stamped without a claim: overlapping callers fire it twice, and nothing promises otherwise |
| policies, gates, autonomy, outward permission, browser grants | functions of files and of one thread's context to a decision; the models choose the decision |
| state store | the statements that a component executes are in its module |
| HTTP API, CLI, web UI | arguments in front of the services; the calls they make are the models' callers |
| notifications, bots, streaming; memory, lessons; git, forges; analytics, telemetry; configuration, doctor; plugins | text, files and services outside; no state that two actors share |

That is by far the larger part of the repository's lines. It is sequential code
about formats, prompts and I/O, of which a model would repeat each line; the
models cover the parts whose errors are in the order of steps.

## 2. How the project is built

| modules | composes | proofs |
| --- | --- | --- |
| `PartitionJournal`, `PartitionDispatch` | the journal's transactions, and every process over it | `PartitionDispatchProofs` |
| `PartitionPromise` | what a partition promises, implemented by `PartitionDispatch` | the same |
| `AutopilotQueue` | drains, operators and the switch | `AutopilotQueueProofs` |
| `RetryQueue` | daemons over the queue; one daemon has theorems of its own | `RetryQueueProofs`, `RetrySoloProofs` |
| `SwarmBus` | publishers, both transports, workers | `SwarmBusProofs` |
| `SkillAccept` | inbox, disk, requests | `SkillAcceptProofs` |
| `PipelineRun` | the walk over the stages, approvers, challengers | `PipelineRunProofs` |
| `StepRun` | the walk over the steps under three callers, approvers, cancel | `StepRunProofs` |
| `GatedWalk` | what a person is promised who puts gates into a sequence; implemented by `PipelineRun` and by `StepRun` | theirs |

The modules are linked by what one reports to the other: a worker of
`PartitionDispatch` and a tick of the two queues call what `PipelineRun` and
`StepRun` describe, and take from it results, an exception or a pause; a stage
of `PipelineRun` is a run of `StepRun`. Each takes the other's outcomes as a
choice, which is more than the other does. An `MC` module gives each its plans,
pipelines, tasks or fleet; the `.cfg` files give constants, nothing else.

What would come next: the side effects of PASS decisions with an abstract
consent (approved once, done at most once); the shutdown of asynchronous runs.

## 3. The models and the code

The models take one statement or transaction of the database, one operation on
the file system or one command to Redis, with the local work up to the next one,
as one action. That is the grain at which other threads can come in between. A
stage or a step, which may take an hour, is an action that begins it and others
that end it. Values are reduced to what the properties tell
apart: a task is a number, whose order stands for `sorted()`; a document is its
task ids, dependencies and `on_task_failure`; a run is what its caller sees of
it. What the environment may do in an instance is the constant `Faults`.

Definitions commented "Slip" are plausible errors in the code, for instance an
`UPDATE` that lost a condition. No action uses them. They are there so that one
can see each property fail when the code has that error.

### 3.1 `PartitionJournal`

One transaction of `partition_service` on `partitions` and `partition_tasks` as
a test (`CanClaim`: would the `UPDATE` match?) and an update (`ClaimTask`).

| variable | code |
| --- | --- |
| `pstatus`, `ratified` | `partitions.status`, `.ratified_json` |
| `rows[t].status` / `.by` / `.run` | `partition_tasks.status`, `.claimed_by`, `.run_id` |
| `rows[t].old` | `claimed_at` is more than `STALE_CLAIM_SECONDS` back |

### 3.2 `PartitionDispatch`

The processes over the journal.

| process | variables | actions |
| --- | --- | --- |
| ratify handler | `rpc`, `rdoc` | `RatifyAdmit`, `RatifyDeny`, `RatifyWin`, `RatifyLose`, `RatifyInsert`, `RatifyCrash` |
| dispatcher, gate and waves | `pc`, `doc`, `seen`, `skip`, `todo`, `halted` | `Begin`, `GateWin`, `GateLose`, `GateReread`, `WaveProceed`, `WaveHalt`, `ReadWave`, `SkipNext`, `WaveEnd`, `SweepRead`, `SweepNext`, `FinalRead`, `Settle` |
| dispatcher, chunk | `chunk`, `cur`, `job`, `waits` | `TakeChunk`, `ClaimNext`, `CreateQueueRow`, `CreateRunRow`, `CreateFails`, `ReleaseOwnClaim`, `MarkRunningWon`, `MarkRunningLost`, `CloseOrphanRun`, `CloseOrphanQueueRow`, `Submit`, `WaitNext` |
| worker | `wpc`, `result` | `StepBoundary`, `PipelineReturns`, `RecordSuccess`, `RecordFailure`, `MirrorQueueRow` |
| cancel handler | `cpc`, `csaw`, `cdrop`, `flagged` | `CancelRead`, `CancelVeto`, `CancelList`, `CancelNext` |
| reconciler | `xpc`, `xlist` | `ReconcileRead`, `ReconcileNext` |
| environment | `paused`, `crashes` | `Age`, `KillSwitch`, `Expire`, `Crash` |

A *job* stands for the queue row and the run row that `_dispatch_chunk` creates
together for one claim; `queue`, `runrow`, `taskOf` and `madeBy` describe it and
`wpc` its worker. `NextWave` gives the topological levels one at a time, as the
loop over `plan_waves` uses them. `WaveHalt` leaves to chance whether the budget
admits a wave. `Crash` ends a dispatcher together with its workers, as they are
threads of one process; the rows stay.

`LauncherOf` is the call path. `FromRatify` is what API and CLI do: the handler
that won starts one dispatch. `FromAnywhere` lets `dispatch_partition` be called
at any time and several times, which its interface allows.

### 3.3 `PartitionPromise`

What the owner of a plan is promised: one document is approved and stays; only
its tasks start, at most once, on committed prerequisites; what ended stays as
it ended. `PartitionDispatch` implements it with `approved <- ratified` and
`stage <- Stage`, in which absent, pending and claimed rows all are `waiting`.

### 3.4 `AutopilotQueue`

| variable | code |
| --- | --- |
| `state`, `cost` | rows of `autopilot_queue` of kind `objective` |
| `paused`, `stopped` | `autopilot_control`; `command`, `saw`: a `_set_control` between its two transactions |
| `listed`, `merging` | what `get_autopilot_policy` and `pipeline_would_auto_merge` would answer for a row's project and pipeline |
| `spent` | what `spent_today_usd` would return |
| `pc`, `item`, `policy`, `before`, `charge` | the locals of a `drain_one` |
| `runs`, `own`, `overdue` | history: runs begun, their cost, drains that began one under a thrown switch |

A tick is `BeginTick`, `PickQueued`, `PickProposed`, `Gate`, `ClaimWon` or
`ClaimLost`, `RunEnds`, `Bill`, `MarkDone` or `MarkBlocked`. `Slide` makes costs
fall out of the window that is summed.

### 3.5 `RetryQueue`

| variable | code |
| --- | --- |
| `row` | status, kind (is the context NULL?) and attempt |
| `overdue`, `earlier` | rows whose `next_retry_at` is past, and which of them earlier |
| `aged` | rows older than the TTL |
| `pc`, `hand`, `list`, `seen`, `outcome` | the locals of a tick: the rows selected, the attempts they had then |
| `tries`, `result` | history: runs from the queue, how the last ended |

A tick is `ExpireRead`, `ExpireWrite`, `DeferredRead`, `DeferredNext` with a run
for each row, `BackoffRead`, `Claim` with a run. A run `RunReturns` with results
that may be failures, or `RunRaises`, and then `RecordDone`, `RecordQuota` or
`RecordFailure`.

### 3.6 `SwarmBus`

| variable | code |
| --- | --- |
| `rows`, `status`, `tenant`, `sig`, `claimedBy` | `swarm_events`, in the order of insertion; `sig` is the key an event was signed with |
| `key` | what `get_signing_key` would return in an instance |
| `handing` | `publish_event` between its insert and the transport's `publish` |
| `stream`, `pel` | Redis: messages not yet delivered to the group, entries pending with a consumer; modelled from the commands `redis_transport.py` sends |
| `pc`, `batch`, `event` | the locals of a worker in `claim_next` and `dispatch_claimed_event` |
| `runs` | history: handlers started for an event |

`PollSubscribe` and `RedisSubscribe` bring candidates; `PassOver`, `Reject`,
`Claim` and `ClaimLost` are the branches of the loop over them, `BeginHandler`,
`NotTheOwner`, `Handle` and `Finish` the dispatch. `StrayDispatch` is a second
dispatch of an event, by anybody; `Rekey` changes the key of one instance,
`HandOffLost` is a transport that raises or a publisher that dies.

### 3.7 `SkillAccept`

| variable | code |
| --- | --- |
| `decision`, `applied` | `pass_proposals.status`, and the mark in its payload |
| `dest`, `staging`, `backup` | the three directories: the tree that is in them, and whether it is whole |
| `journal` | the journal file |
| `pc`, `draft`, `resuming`, `done` | the locals of an `accept_approved` |
| `had` | history: there has been a skill |

The actions follow `_atomic_commit`, `_swap`, `_cleanup` and `_resume_journal`
call by call; `Crash` comes between two of them, `Tear` within an `rmtree`.
`RenameFails` is a rename whose target is there or whose source is not.

### 3.8 `PipelineRun`

| variable | code |
| --- | --- |
| `run`, `approval` | the status of the run's row, the row of `approvals` with its metadata (`checkpoint_meta`) |
| `pc`, `seen` | a caller, and the approval as it read it |
| `at`, `from`, `comps`, `context`, `dropped` | the locals of `_run_pipeline_body`: stage, `start_index`, selected components, what earlier stages gave, stages a composition or a SURFACES line left out; `context` is `prior_chunks` |
| `begun`, `again`, `passed`, `licensed`, `chosen`, `crossed` | history |

`Start`, `Skip`, `BeginStage`, `AskApproval`, `Park`, `StagePassed`,
`StageFailed`, `StageRaised` and `Finish` are the loop; `Read`, `Deny`,
`Approve`, `Resume` and `ResumeRefused` are `approve_run` and `resume_pipeline`;
`Challenge` and `Answer` are `human_challenge`. `crossed` records that a write
met a row that had moved on since it was read, or a run that was decided before
it was marked paused: `update_approval` compares nothing.

### 3.9 `StepRun`

| variable | code |
| --- | --- |
| `run`, `approval` | as above; the index of a step, or 0 for the task |
| `registry` | the cancel event of the run in `async_run_service` |
| `pc`, `seen`, `at`, `pardoned`, `left`, `error` | the locals of `_execute_task_body` and of its three callers: step, `approved_step_index`, fallback runners left, the exception on its way up |
| `queued`, `pushed` | a retry was enqueued, git actions were performed |
| `ran`, `again`, `settled`, `licensed`, `accepted`, `late`, `crossed` | history |

The gates are `Start`, `AskForTask`, `Refuse`, `DeferBatch`, `Execute` for
`run_task` and the worker of `POST /v1/runs`, and `RefuseApproved`,
`ExecuteApproved` for `run_approved`. The steps are `NotCancelled` or
`Cancelled`, `AskForStep` and `Park`, `BeginStep`, then `StepOver`, `Fallback`,
`Deferred` or `StepFailed`. What comes before the gate may fail as well: the
secrets are resolved outside the step's handler of failures (`PrepareFails`), the
rest inside it, so that `allow_failure` passes over a step of which nobody was
asked (`PassOver`). Each exception is met by the handler of the caller
at hand: `LeavePaused`, `LeaveCancelled`, `EnqueueDeferred`, `CompleteDeferred`,
`Fail`.

### 3.10 `GatedWalk`

What pipelines and tasks promise alike, without calls, rows or the order in
which they meet. There are positions 1..N, each with the grants it needs; a
position starts when those before it are over and it has its grants; a grant is
of the position where the walk stands; each position starts once; the walk ends
once, and well only when all of it is over. Both modules implement it, with

| `GatedWalk` | `PipelineRun` | `StepRun` |
| --- | --- | --- |
| positions | stages | steps |
| `gates` | `GatesOfStages`: a stage with `pause_before`, but the first | `GatesOfSteps`: a gated step, and 0 for a task that needs approval as a whole |
| `granted` | `licensed` | `licensed` |
| `started`, `over` | `begun`, `passed` | `ran`, `settled` |
| `outcome` | `Outcome`: how the run's row says it ended | the same |
| `overtaken` | `crossed # {}` | `crossed # {}` |

`overtaken` is part of the promise because the code does not prevent that a
decision meets a run that has moved on, nor that a cancellation meets
`run_approved`, which does not know of it. From then on a position may start twice
and an ended walk may be open again; that a position starts only with its grants
and after those before it, and that the walk ends well only at its end, holds
regardless.

## 4. What is checked

No action is guarded by a bound other than the named ones: `MaxCrashes` (crashes
of a partition's or a task's processes), `MaxEvents` (crashes, edits and slides;
crashes and quota refusals), `MaxFaults`, `MaxCost`, `MaxFallbacks` (a setting of
the program), and the number of ids.

All runs have `CHECK_DEADLOCK FALSE`: the systems do stop, when a partition, a
run or an event has ended, when every row is settled, when the switch stays
thrown or nobody decides.

| run | instance | states | what it shows |
| --- | --- | --- | --- |
| `service` | 2 dependent tasks, 3 jobs, 2 dispatchers called at any time of which one resumes, the reconciler, 1 crash, failing tasks, failing inserts, stalls, time outs | 909 000 | `OneSubmission`, `StartedAsRatified`, `OutcomeRecorded`, `NothingAdrift`, `KeepsPromise` |
| `shipped` | 5 tasks in 3 waves, cap 2, one ratification and its dispatch, one cancellation, both halt policies, failures, checkpoints, kill switch, budget | 616 000 | `AbandonedNeverRan`, `NoStrayQueueRow`, `CompletedIsComplete`, `WithinParallelism`, `CancelOfDispatchingStops` |
| `live` | 4 tasks in 3 waves, cap 2, failures, a cancellation, fairness | 14 000 | `DispatchReturns`, `RatifiedSettles` |
| `autopilot` | 2 objectives, 2 drains, an operator, every fault, 1 event | 2 534 000 | `DispatchedOnce`, `HaltsWithinOneTick` |
| `autopilot_live` | 3 objectives, 2 drains, a ceiling one run reaches, fairness | 388 000 | `SoftCap`, `DrainsTheQueue` |
| `retry` | 2 rows, 2 daemons, raising runs, fairness | 446 000 | `OneAtATime`, `Drained` |
| `retry_one` | 2 rows, 1 daemon, 3 attempts, every fault, 1 event | 211 000 | `DeadIsExhausted` |
| `swarm` | 2 events, 2 tenants of which nobody serves one, 2 instances with a worker each, a window of one row, both transports, 2 faults, fairness | 143 000 | `HandledAtMostOnce`, `HandledForServed`, `NeverReopened`, `Delivered` |
| `skill` | 2 drafts of a skill that may not exist yet, requests one at a time, 3 crashes or torn removals, fairness | 5 400 | `OnlyApproved`, `SurvivesOneFault`, `MarkedIsInstalled`, `PutBack` |
| `pipeline` | 3 stages, 3 pipelines (two checkpoints and a stage for one component; a composed team with rules; tags), a group of 2, 2 approvers, 1 challenger, failures, 1 fault, fairness | 606 000 | `GateKept`, `CompleteMeansAll`, `OneRunThrough`, `HandsOn`, `KeepsPromise`, `DecisionTakesEffect` |
| `steps` | 3 steps, both ways to start, 12 tasks (gated, lenient, developer, needing approval, stopped by each gate), 2 approvers, a cancel, 1 crash, fairness | 1 048 000 | `GatesKept`, `GitAfterAll`, `CancelWithinOneStep`, `StepsOnce`, `EndsOnce`, `KeepsPromise`, `Settles` |

No run repeats a type invariant: `TypeOK` is a theorem of each component, or part
of one, and was checked before it was proved. `autopilot` uses the symmetry of drains
and of operators; it checks no liveness, for which symmetry is not sound. The
twelfth run, `weaker_gate`, is expected to fail: see section 5.

*Why the bounds are enough.* The hazards of a partition need two claimants of
one task, a prerequisite, and a job more than there are tasks, so that a task
can be claimed again after its claim was lost: `service` has them, and 2 tasks
let a snapshot be stale for one task while the other moves. Chunks need a wave
wider than the cap, transitive skips three waves: `shipped` has both. A soft
budget needs one more row than there are drains. One row in hand and one that
competes for the next tick are what the retry queue's order and lists need.
Three attempts are the least with a first, a middle and a last one. One crash
reaches every control state, and recovery from it is then followed to the end.
For the properties of section 6 the bounds do not matter: they are proved.
`swarm` has an event that stays `pending` in a window of one before the one that
is served, and an instance that changes its key while another holds a claim. Two
drafts let an accept meet the journal of another draft; three faults are two in
the accepts and one in the recovery. A third stage, and in `steps` a third step,
lets a run that was taken up stop again; two approvers let both decide what both
have read, and one challenger writes back what it read before either.

*Fairness.* Liveness is checked under weak fairness of the threads that run:
`Ratify`, `Dispatch` and `Work` (threads of a live process, on a pool that has
room), `Tick` of a drain (fired by a schedule that goes on) and of a daemon (a
loop), `BecomesDue` (time passes). Nothing is assumed of people, nor of the
reconciler. `live` has no crash, pause or budget: after any of these a partition
stays `dispatching` on purpose, until someone resumes it. `autopilot_live`
assumes what the property says, that the gate allows every objective throughout;
with `Ceiling = 1` these are the behaviours whose runs are free, while the
safety half of the run is about those that cost. `retry` has no crash, since a
crash leaves a claimed row `running`, which no query selects.

`swarm`: workers keep calling `claim_next` and go on with what they claimed
(weak fairness of `Step`), and what was inserted is handed off (`HandOff`); the
property allows for faults by `faults > 0`, and asks nothing of Redis, see
section 5. `skill`: a request that began goes on and writes its tree to the end;
people repeat an accept whose proposal is not marked yet (strong fairness of
`Begin`, as the request that is under way disables it). Nobody has to decide a
proposal. `pipeline` and `steps`: a call that began goes on, and an agent ends
some time; nobody has to read an approval, to question a plan or to cancel. What
the liveness properties leave out is in their definition: a crash, a write that
met a row that had moved on, a pipeline with tags, a task beyond the batch.

## 5. Where the code and what is said of it differ

The modules state what the documentation, a comment or a test says; TLC finds
these statements violated.

One is kept as a run. `weaker_gate` checks `NoGateIsWeaker`: no gate of
`POST /v1/runs` is weaker than that of a synchronous run
(`services/api_service.py:919`). `run_task` and `run_approved` look at CVEs and
licences, the worker of `POST /v1/runs` at CVEs only (`services/api_service.py:981`):
a task whose dependencies the licence gate refuses runs when it is started this
way.

The others are seen by a change of a configuration. Put the property in the
place of those the file names (under `INVARIANTS`, or `PROPERTIES` for a
temporal one), and change what the second column says.

| property | configuration | what happens |
| --- | --- | --- |
| `EndedIsSettled` | `MCShipped`, `Plans <- HaltingPlan` | under `on_task_failure=halt` all tasks end, `halted_reason` is set, nothing settles the partition |
| `CancelStops` | `MCShipped` | `cancel_partition` reads `proposed`, a ratification wins, its veto loses and nobody looks |
| `CommittedIsDone` | `MCShipped` | a pipeline that stops at a plan checkpoint returns successes (`services/partition_service.py:1383`); the task is committed, its dependents start |
| `NoDanglingRun` | `MCShipped` | `run_pipeline` (1867) opens a run row of its own, the one the dispatcher made is never closed |
| `CancelReachesRun` | `MCShipped` | the cancel event (1450) is that of the dispatcher's run row, the step loop asks about its own |
| `WithinParallelism` | `MCShipped`, `Faults = {"timeout"}` | the next chunk starts beside a task that outlasted its wait (1621) |
| `NeverTwoRuns` | `MCService` | a crash comes between the run row and `mark_task_running`; the claim is rewound and the task gets a second run row |
| `CompletedIsComplete` | `MCService` | a dispatch between the ratifying `UPDATE` (935) and the insertion of the rows (958) finds `all()` of no rows true (1646) and completes the partition |
| `NoStrayQueueRow` | `MCService` | `_create_run_row` raises after the queue row was inserted (1731); that row stays `running` |
| `PermittedIsDispatched` | `MCAutopilotLive` | an older objective is denied, stays the oldest, and is the only one looked at |
| `DispatchesNothingWhilePaused` | `MCAutopilot` | the switch is thrown between `is_paused` and the claim (`services/autopilot_queue.py:626`, 658) |
| `CostIsOwn` | `MCAutopilot` | the cost of a run is a difference of sums other runs contribute to (688) |
| `DoneSucceeded` | `MCRetryOne` | `run_task` returns failed results, no exception: the row is `done` |
| `ExpiredNeverRan` | `MCRetryOne` | a row that was retried is pending again, and expires (`services/retry_service.py:278`) |
| `ExpiresPending` | `MCRetry`, `Faults = {"age"}`, `MaxEvents = 1` | the `UPDATE` does not compare the status again: a row another daemon claimed since is expired while it runs (278) |
| `RedisDelivered` | `MCSwarm`, `MaxFaults = 0` | a comment counts on redelivery of pending entries (`swarm/redis_transport.py:74`); entries are read with `>` only (109), so one that was delivered with others and not taken, or taken by an instance that does not serve its tenant, comes to nobody again |
| `NeverHalfApplied`, `NeverLost` | `MCSkill` | two interruptions: the second, while the staging tree of the first is removed, leaves a part of it under a journal that says `staged` (`skill_evolution_accept.py:14` promises otherwise) |
| `PausedIsPending` | `MCPipeline`, `MaxFaults = 0`, `Challengers = {}` | a decision comes before `complete_run(PAUSED)` and is overwritten by it; or the resumption of a pipeline with tags is refused after the approval was recorded (`orchestrator.py:5664`) |
| `CancelIsHeeded` | `MCSteps` | a cancel is accepted between a step's check and its gate, the run parks, and the registry forgets it with the worker's thread; who takes the run up begins all the steps that are left (`services/api_service.py:1109`: "resolves to `RunStatus.CANCELLED` at its NEXT step boundary") |
| `TerminalOnce` | `MCSteps`, as a property | a run is parked and approved before the worker's thread is gone; a cancel is accepted, the approver meets it and `cancelled` is written, then `failed` over it, as `run_approved` knows no `RunCancelled` (`orchestrator.py:6102`; `services/api_service.py:1023`: "must resolve to a terminal status exactly once") |

Each of these statements is wrong for a reason, and for thirteen of them it is a
theorem that there is no other: with the reason excluded the statement holds, for
every value of the constants.

| statement | holds | theorem |
| --- | --- | --- |
| `NoGateIsWeaker` | for a task started by `POST /v1/run`, and for `run_approved` after it | `NoGateIsWeakerSync` |
| `CommittedIsDone` | when no pipeline stops at a checkpoint | `CommittedIsDoneUnlessStopped` |
| `WithinParallelism` | for one dispatcher, when no wait times out | `KeepsToParallelism` |
| `NeverTwoRuns` | when no process dies, no insert fails and no claim gets old, for any dispatchers and cancellations | `NeverTwoRunsWhilePrompt` |
| `CompletedIsComplete` | when dispatches follow ratifications that won | `CompletesWhole` |
| `NoStrayQueueRow` | when no process dies and no insert fails | `LeavesNoStray` |
| `CostIsOwn` | for one drain, a spend that can be read and a window that does not slide while a run lasts | `CostsAreOwn` |
| `DoneSucceeded` | for one daemon, when `run_task` raises instead of returning failures | `DoneSucceededAlone` |
| `ExpiresPending` | for one daemon | `ExpiresPendingAlone` |
| `NeverHalfApplied` | for accepts one at a time, when no removal is torn, after any number of crashes | `CrashesNeverHalfApply` |
| `NeverHalfApplied`, `NeverLost` | for accepts one at a time and all of one draft, after any number of crashes and torn removals | `RetriesRecover` |
| `CancelIsHeeded` | until the accepted cancel is forgotten, because the worker's call returned or its process died (`Forgotten`); this is `CancelWithinOneStep` | `CancelledInTime` |
| `TerminalOnce` | but for a cancellation that `run_approved` takes for a failure (`TakenForFailure`); this is `EndsOnce` | `EndsForGood` |

## 6. What is proved

For every value of the constants that satisfies the named assumptions. Most are
type statements: `TasksAssumption`, `NullAssumption`, `PlansAssumption`,
`ActorsAssumption`, `BoundsAssumption`, `ItemsAssumption`, `DrainsAssumption`,
`RowsAssumption`, `FaultsAssumption`, `FleetAssumption`, `BasesAssumption`,
`StagesAssumption`, `PipelinesAssumption`, `CallersAssumption`,
`OutcomesAssumption`, `StepsAssumption`. `PlansAssumption` says also that a
plan's dependencies are tasks of the plan, which `load_partition` checks;
`MarksAssumption` and `NoRowAssumption` that the value for "none" is no event, no
tree, no journal, no row; `CallersAssumption` that a call has one role.

### 6.1 `PartitionDispatchProofs`

Any number of tasks, plans, dispatchers (also with equal `claimed_by`), resumes,
cancellations, reconcilers and crashes.

| theorem | says |
| --- | --- |
| `IInvAlways` | `IInv` is invariant |
| `TypeCorrect`, `SubmittedOnce`, `StartsAsRatified`, `NeverRunsAbandoned`, `RecordsOutcomes` | the invariants `TypeOK`, `OneSubmission`, `StartedAsRatified`, `AbandonedNeverRan`, `OutcomeRecorded` |
| `HistoryIsKept` | the action property `HistoryStands`, which no run repeats |
| `PromiseIsKept` | the dispatch implements `PartitionPromise` |
| `CompletesWhole` | `CompletedIsComplete`, where every dispatch follows a ratification (`Launched`) |
| `CancelsForGood` | the action property `CancelOfDispatchingStops`, under `Launched` |
| `LeavesNoneAdrift` | `NothingAdrift`: until a process dies, every claimed or running task is in the hand of somebody who will take it further |
| `NeverTwoRunsWhilePrompt` | `NeverTwoRuns`, where nobody crashes, both inserts succeed and no claim gets old |
| `CommittedIsDoneUnlessStopped` | `CommittedIsDone`, where no pipeline stops at a checkpoint |
| `LeavesNoStray` | `NoStrayQueueRow`, where nobody crashes and both inserts succeed |
| `KeepsToParallelism` | `WithinParallelism`, with one dispatcher, finitely many tasks and no time out |

*The argument.* `OneSubmission` is not inductive: it says nothing of a claim or
of a job that has no worker yet. `IInv` adds why it stays true.

- `RatifyInv`, `GateInv`: there is a document exactly from ratification on, and
  every dispatcher past the gate holds that one.
- `SnapshotInv`: a task that a snapshot found ready is ready when it is used.
  Readiness is stable, because prerequisites are only ever `committed` for good
  and the document stays. This is why dispatching from a stale snapshot is safe.
- `JobInv`: a job in hand is its dispatcher's own and has no worker.
- `RowInv`: a row has a `run` only from `running` on. So `release_stale_claim`,
  which asks for `run_id IS NULL`, cannot rewind a task that started, and
  `mark_task_running` succeeds once per row. This is the whole reason for
  `OneSubmission`: two dispatchers may both hold a claim on one task (a rewound
  claim, equal `claimed_by`), but one of them moves the row to `running`.
- `WorkInv`: a worker's task is ready, its row carries the worker's job and
  owner, and says what the worker recorded. So the worker's own `UPDATE`s never
  miss, and a row with a worker is neither cancelled nor skipped.

Each action preserves each conjunct; the refinement maps `RatifyWin` to
`Approve`, `MarkRunningWon` to `Start`, the workers' records to `End`, skips and
cancellations to `Abandon`, everything else to a stutter.

Where a theorem has assumptions, the property is false without them (section 5).
`Launched` says that a dispatcher is called by a handler whose ratification won,
as `api_service` and the CLI do; a dispatch by anybody else can find the
document before its rows are inserted and complete a partition with none.

- `ShipInv` is the invariant for the first two. At most one handler wins, and once
  it has returned, every task of the plan has a row (`WinInv`). Whoever is past
  `idle`, a partition that has started and a cancellation that saw `dispatching`
  come after that return (`OpenInv`). So the final reading, which counts the rows
  that are not over, has seen every task (`WholeInv`); and a row the cancellation
  has gone through runs or has ended, and cannot start again: `claimed` is the
  only way to `running`, and no row goes back to `pending` from an end (`QuietInv`,
  with `StepLawful`, which lists the transitions a row can make).
- `NothingAdrift` is inductive with `IInv`: a row becomes claimed or running by the
  hand of who holds it then (`HoldersStay`), and nobody lets a task go before its
  row says otherwise, reconcilers and cancellations included (`Unraised`).
- `SoleInv`: where no claim is ever given back (`Prompt`: nobody died, no claim is
  old, no insert failed), `pending` is left once. A task that was claimed then has
  one dispatcher in hand of it or one job, and one that was not has neither, so
  that a second run row has nobody to make it. The reconciler is harmless here
  because it rewinds old claims only; equal owners and resumes are harmless because
  the claim is an `UPDATE` of a pending row.
- `ReportInv`: a job whose pipeline has returned has a result, `success` or
  `failure` if it never stops at a checkpoint, and `WorkInv` ties the row to it.
- `LeavesNoStray` is inductive with `IInv`: `JobInv` says that a job in hand belongs
  to one dispatcher, so no other submits it or closes it.
- `CapInv` counts: the tasks left to claim in the chunk, the one in hand and those
  waited for are together at most `Cap`; a chunk is taken only when nobody is
  waited for. Live workers are among those waited for, unless a wait timed out.

### 6.2 `AutopilotQueueProofs`

Any number of objectives, drains, operators, any ceiling, costs and faults.

| theorem | says |
| --- | --- |
| `QueueTypes` | `TypeOK` |
| `RunsOnce` | `DispatchedOnce` |
| `StaysOut` | `NeverRedispatched`, which no run repeats |
| `HaltsInTime` | `HaltsWithinOneTick` |
| `SpendIsCapped` | `SoftCap` |
| `LosesOneACrash` | `CrashLosesOne`: no more rows are `running` in nobody's hand than there were events, of which a crash is one |
| `CostsAreOwn` | `CostIsOwn`, for one drain, no unreadable spend and no slide |

*The argument.* `RunInv`: a row that ran is neither waiting nor absent, and the
claim asks for a waiting row. `HaltInv`: a drain that began a run under the
switch cannot be past `is_paused` again while it is thrown. `CapInv` counts: what
is spent, and `MaxCost` for each drain that has been admitted and has not yet
paid, together stay within the cap; the gate admits only below the ceiling, and
the sum over the drains is bounded by their number. `AdriftInv` is about sizes of
sets: a step that is no crash leaves none adrift that was not (`NothingLost`), and
a crash adds at most the row in that drain's hand (`OneLost`). `CostInv`: from the
first reading of the spend on, `spent - before` is what the run in hand has cost
so far, for nobody else adds to it.

### 6.3 `RetryQueueProofs` and `RetrySoloProofs`

Any number of rows and daemons. `RetryTypes` is `TypeOK`; `RunsAlone` is
`OneAtATime`; `LosesOneACrash` is `CrashLosesOne`: a row that is `running` has a
daemon that runs it, but for one row for each crash. *The argument*, `OwnerInv`:
while a daemon runs a backoff row, the row is `running`, or `expired` by another
daemon that read it before; in neither case can it be claimed.

Any number of rows and one daemon, which is what is deployed; the theorems have
`Solo` as a hypothesis. `AttemptsAreCounted`, `DeadAreExhausted` and
`SettlesForGood` are `AttemptsCounted`, `DeadIsExhausted` and `SettledForGood`.
*The argument*: `mark_done`, `mark_dead`, `mark_retry` and `expire_stale` write
what follows from a `SELECT` made earlier, and compare nothing. `FreshInv` says
that what was read is still so: nobody but the daemon writes to a pending or
running row, and a purge only to a dead one. `CountInv` relates attempts and
runs in every status, and says that a crash can only leave a deferred row with
fewer attempts than runs. With two daemons `FreshInv` fails, and with it
`ExpiresPending`, which `ExpiresPendingAlone` has for one. `DoneSucceededAlone` is
`DoneSucceeded` where runs raise when they fail. Both follow from one lemma, on the
ways in which one daemon changes a row (`Written`).

### 6.4 `SwarmBusProofs`

Any number of events, tenants, instances, workers, keys, faults, either
transport. `HandledOnce`, `HandledByServing` and `StaysSettled` are
`HandledAtMostOnce`, `HandledForServed` and `NeverReopened`. *The argument*: a row
is claimed once, because nothing goes back to `pending`, and the owner's update
from `claimed` to `running` succeeds once (`RunInv`); the worker between that and
its handler is the only one in that place (`HandlerInv`); the claim was made
after the tenant was compared (`ClaimInv`). Neither redelivery nor a stray
dispatch nor another key touches any of this.

`TellsOutcome` is `OutcomeIsTrue`: `done` is said only of events whose pipeline was
started, `skipped` only of those whose never was. `LosesOneAFault` is
`FaultLosesOne`: each fault leaves at most one event claimed or running with no
worker that can go on with it. A second delivery, a stray dispatch or a lost
hand-off leave none: whoever dispatches an event that is in another's hand is told
that he is not the owner, and lets go of nothing.

### 6.5 `SkillAcceptProofs`

Any number of drafts, requests at once, crashes and torn trees. `TypeCorrect` is
`TypeOK`; `InstallsOnlyApproved` is `OnlyApproved`, by `Vouched`: every request in
progress is for an approved draft, the trees staged and in place are of one or of
the original, and a decision is final. `MarksInstalled` is `MarkedIsInstalled`
for requests that come one at a time (`Alone`, a hypothesis); `Owned` says that
then the directory is as the request left it. With two requests it fails, see
section 7.

`SparesTheSkill` is `SurvivesOneFault`, under `Alone`, for any number of drafts and
wherever the fault strikes. *The argument*, `Spared`: outside the one rename that
installs the staged tree, a skill that is not in place is whole in the backup, and
at that rename the staged tree is whole. To keep this one has to know that the
journal tells the truth (`JournalTrue`: `staged` and `backup` say that the draft is
staged or installed, later states that a tree is in place), that each place of a
request finds what it expects (`Placed`), and that before the fault a request leaves
nothing behind (`Undisturbed`): no journal, and no draft in place whose mark is
missing. A second fault breaks `JournalTrue`: the next accept, of another draft,
removes the staged tree before it replaces the journal that speaks of it.

`CrashesNeverHalfApply` is `NeverHalfApplied`, under `Alone` and without torn
removals, for any number of crashes. *The argument*, `LoadInv`: a staging tree that
is not whole is under a journal that says `preparing`, with which a recovery throws
it away. The tear is what can break this, and only that: it leaves a part of a tree
that had been whole under a journal that says `staged`.

`RetriesRecover` is `NeverLost` and `NeverHalfApplied` for a skill with one draft,
accepted as often as it takes, with any number of crashes and torn removals. *The
argument*, `Recovers`: every journal an accept finds is then its own, so that it
never writes a staging tree anew while a journal speaks of the last one; a skill
that is not in place is staged in full under `staged` or `backup`; and a staging
tree is removed only without a journal, under `preparing`, or with the draft in
place. So it takes a second draft to lose a skill, as section 5 says.

### 6.6 `PipelineRunProofs`

Any pipelines, number of stages, of approvers and challengers, and faults.

| theorem | says |
| --- | --- |
| `TypeCorrect`, `KeepsGates`, `CompletesAll` | `TypeOK`, `GateKept`, `CompleteMeansAll` |
| `RunsThroughOnce`, `HandsOnAll` | `OneRunThrough`, `HandsOn`, of which what the selection left out holds whatever crosses |
| `NeverLeftLying` | `Attended`: until a fault stops a call, a run that has begun has ended, waits for a decision, or has a call at work on it |
| `PromiseIsKept` | the pipeline implements `GatedWalk` |

*The argument.* `Licences`: a call that resumes does so at the stage of the row
that it read and approved, and the first stage of a walk is either the pipeline's
first or approved. `Behind`: each row, whoever wrote it and however late, names
an index before which every stage was passed, and so does each walk. These hold
whatever crosses. The other two need that nothing crossed: then one walker at
most is past its decision (`OneHand`), what was begun lies before the index of
the newest row, and that row carries the output of all of it (`PastRow`,
`Latest`, `Newest`, `Past`). `Chosen` follows the selection through the rows.

`Attended` is inductive with `IInv` and asks for nothing to be in one hand: a call
that returns leaves the run ended or its row pending, and whoever takes a row from
pending is at work himself. Its excuses are a fault, a decision that came before
`complete_run(PAUSED)` (`"park" \in crossed`) and tags.

The refinement maps `BeginStage` to `Start` (at a checkpoint that a rule
approves, with its grant), `Approve` to `Grant`, skips and ends of stages to
`Pass`, what ends the run to `End`. Gates and order are `Licences` and `Behind`.
That a walk which nothing overtook ends once needs `OneEnding`: at most one call
may still write the end, it does so with no row pending, and once the end is
written there is no such call.

### 6.7 `StepRunProofs`

Any tasks, number of steps, approvers, fallbacks and crashes.

| theorem | says |
| --- | --- |
| `TypeCorrect`, `KeepsGates`, `CommitsAfterAll` | `TypeOK`, `GatesKept`, `GitAfterAll` |
| `CancelledInTime` | `CancelWithinOneStep`: of a cancel that is not forgotten |
| `StartsOnce`, `EndsForGood` | `StepsOnce`, `EndsOnce`: unless a decision crosses, whatever is cancelled |
| `GateOfCallerHolds` | a task that one of its caller's own gates finds against is never started, not after an approval either |
| `NoGateIsWeakerSync` | `NoGateIsWeaker` for `POST /v1/run` |
| `NeverLeftLying` | `Attended`, as for pipelines |
| `PromiseIsKept` | the execution of a task implements `GatedWalk` |

*The argument.* As for pipelines, rows are backed by what was done: an approval
of step `i` exists only when the steps before it were settled, and a call acts
on step `i` past its gate only with a licence. `LateInv`: between two steps lies
a check, which an executor does not pass while the event is set; an accepted
cancel is set until it is forgotten, and an event that is gone is not set again,
as only the start of a run makes one. `OnceInv`: while no decision crossed, one
executor at most holds the run (`OneHand`), and the only one that may hold a run
that has ended is one on whom it was cancelled (`Withdrawn`): the worker leaves
it at that, and `run_approved` makes it `failed`, which is the exception of
`EndsOnce`. `ShutInv`: while a gate finds against a task nobody is inside its
steps and no row names one, so that whoever takes an approval up takes up that
of the task, and `run_approved` looks at both gates then. `TendedInv` is why a
run is attended: the executor at work on it is neither one who waits for a
person nor a cancelled one on his way out, for these leave it as it is. The
refinement maps `BeginStep` to `Start`, `Approve` to `Grant`, `StepOver` and
`PassOver` to `Pass` and what ends the run to `End`.

### 6.8 Model-checked only

- Liveness: `DispatchReturns`, `RatifiedSettles`, `DrainsTheQueue`, `Drained`,
  `Delivered`, `PutBack`, `DecisionTakesEffect`, `Settles`. TLAPS 1.4 does not
  reason about `ENABLED`, which fairness is made of. Their safety half is proved
  where it can be told apart: what has to go on is always in the hand of somebody
  who can take it further (`NothingAdrift`, `Attended`), or is one of as many rows as
  there were faults (`CrashLosesOne`, `FaultLosesOne`). That he does take it, and
  arrives after finitely many steps, is what TLC checks.
- What section 5 lists and its second table does not: there the statement fails in
  the deployment itself, or is about liveness (`CancelReachesRun`,
  `PermittedIsDispatched`, `RedisDelivered`), and the condition that would save it
  assumes what it says.

Nothing recursive is used in a module with a theorem: induction over data is out
of the provers' reach here, and `NextWave` needs none, as it builds one level
from the previous ones.

## 7. Limits

- One partition, one tenant, one queue. Rows of different partitions share no
  transaction.
- Statements do not fail, except for the two inserts of `_dispatch_chunk`
  (`create`). A worker whose own journal write raises never sets its event; the
  dispatcher then waits for its time out.
- `ratify_partition` may refuse a document for any reason (`RatifyDeny`) and
  accepts any member of `Plans`.
- Budgets are a choice in `PartitionDispatch` and a sum in `AutopilotQueue`.
- The retry daemon's schedules, routines, drift scans, hot reload and signals
  are not in `RetryQueue`; its queue does not depend on them.
- `skill` has one request at a time. There is no lock, and two concurrent accepts
  can take each other's trees away and lose the skill. `recover_accept`, which
  tests alone call, takes a journal that says `staged` after the tree was
  installed to mean that it was not, and removes it.
- Agents, validation of drafts, `_classify_stage_failure` and the approval rules
  are choices over their outcomes. `simulate` and `dry_run` are off.
- The context of a stage is what `context_routing_mode` `full` gives it. In `keyed`
  mode it is given `outputs_by_key` instead (`orchestrator.py:2118`, 5092), which
  a checkpoint does not save (4835): whether a resumed run has it is not modelled.
- `services/swarm_service.py` reads the signature key once per `claim_next`; the
  model reads it for each candidate, which is more than the code does.
- A write-back that is stale is excused, not caught: `OneRunThrough`, `StepsOnce`,
  `EndsOnce` and the context of `HandsOn` are about runs in which no decision or
  challenge met a row that had moved on. What gates promise, the order and the
  selection of components hold whatever is written.

What the models of runs show without a property of their own, for a reader of
`orchestrator.py`:

- The first stage of a fresh run never stops, its `pause_before` notwithstanding
  (4833; docs/PIPELINES-AND-ROLES.md:113 knows no exception). `GateKept` says so.
- A gated stage that is skipped is no checkpoint; its components are still
  narrowed at the place where it would have been.
- What a composition or a SURFACES line dropped is not in the checkpoint's row
  (4694): after a resumption those stages run. Nor is the group, so that a
  pipeline with tags cannot be resumed.
- Two approvers may both resume a run, and run its stages twice (`OneRunThrough`
  excludes it by `Uncrossed`). The comment at 5796 speaks of a one-shot
  transition, which no statement enforces. A challenge may write an older stage
  index back.
- A crash between `update_approval` and the resumption leaves a run that is
  paused for good: the row says `approved`, and nobody may approve it again.
- A deferral for quota under `POST /v1/runs` sets `deferred` and enqueues no
  retry; under `run_approved` it is a failure, as is a cancellation
  (`TerminalOnce`, section 5). A task that is put off by the batch limit leaves
  a run row that says `running`.
- A cancel that comes between the check before a step and that step's pause is
  accepted and has no effect: the run is paused, and the registry forgets it
  (`CancelIsHeeded`, section 5). The same may happen to one accepted while
  the run is parked and the worker's call has not returned yet.
- A step that fails before its gate and has `allow_failure` is passed over
  without anybody being asked; `GatesKept` is about steps that start.
