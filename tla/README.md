# A verification of the Auto Dev OS workflow core

Auto Dev OS takes a task, lets CLI agents analyse, specify and implement it in git
worktrees, has the result cross-reviewed, and opens a pull request. The Go server under
`server/` does this with a database-backed job queue, a workflow engine, checkpoints and a
transition table for job statuses. This project models that core in TLA+, model-checks it
with TLC on small instances, and proves its main invariants with TLAPS for instances of
any size.

- [1. Inventory](#1-inventory)
- [2. Modules and how they correspond to the code](#2-modules-and-how-they-correspond-to-the-code)
- [3. Runs](#3-runs)
- [4. Bounds](#4-bounds)
- [5. Fairness](#5-fairness)
- [6. Proofs](#6-proofs)
- [7. Deviations](#7-deviations)
- [8. What is not modelled, and the plan](#8-what-is-not-modelled-and-the-plan)

Paths below are relative to `src/server/internal/` unless they say otherwise.

## 1. Inventory

| Component | State | Operations | What makes it correct |
|---|---|---|---|
| Workflow engine (`workflow/engine.go`, `graph.go`) | per call: statuses, outputs, the batch and its channel; per object: `CompletedSteps`, `MaxParallel` | `Run`, `Resume`: pick ready steps, start a goroutine each, collect results, emit events | no step before its dependencies; nothing lost from a batch; success is final; a call that reports success did everything; every call returns |
| Workflow run (`orchestrator/worker.go`) | locals of `run`: the job it read, the attempt, the filter on checkpoints | claim, prologue (agent, lock, clone), attempts, `OnEvent`, endings (fix loop, changed graph, cooldown, pause, failure) | agents build only on work really done; recorded work is not repeated; a fix loop really fixes and is bounded; the job comes to rest |
| Checkpoint store (`orchestrator/checkpoint/`) | `task_checkpoints`: step, status, output | save, list, count, recover a step's output | a checkpoint stands for work that was done, and for the work meant |
| Job table and its transition table (`repository/workflow.go`, `workflow/state_machine.go`) | `workflow_jobs` rows | `Enqueue`, `ClaimNext`, `UpdateJob`, `ResetStuckJobs`, `WakeSleepingJobs` | terminal statuses are terminal; at most one run per task; a dead run's row is recovered |
| Job queue (`orchestrator/queue.go`) | semaphore, wake channel, `jobCancels` | the worker loop, the run goroutines' deferred cleanup | no slot is lost or invented; a queued row is claimed; a cancel hits the run it is meant for |
| Requests (`orchestrator/orchestrator.go`) | none of their own | `Execute`, `RetryFromLastStep`, `PauseJob`, `CancelJob`, `ApproveMerge`, approvals, feedback | a request works on the row it read; a cancelled run stops |
| Pipeline steps (`orchestrator/steps/`, `step_registry.go`) | task analysis, PR metadata, worktrees | `cli_analyze`, `cli_spec`, `cli_implement` (one or two tracks), `merge`, `cross_review`, `cli_mr` | the review limit holds; `cli_mr` always hands over to a human |
| Cross review cycle (`orchestrator/steps/cross_review.go`, `review_verdict.go`) | the verdict file in the checkout, the outputs of accepted reviews | implement, review, decide, deliver | a verdict is about the code that is there; a violation that comes back reaches a human |
| Task lifecycle (`pkg/models/task.go`, `orchestrator/tracker.go`, `service/task_action.go`, `service/task_guardrail.go`, `handler/pr.go`) | task status, review loops, idempotency keys | status updates with guardrails, actions, PR approval and rejection | only legal transitions; the pipeline asks only for those; merged means merged |
| Decomposition (`orchestrator/decomposition.go`) | parent and child tasks | dispatch the next child, merge or block the parent | no child is forgotten; the parent ends when all children have |
| Pull request sync (`orchestrator/pr_sync.go`, `handler/webhook.go`) | PR state on the task | poll, merged, closed | as `ApproveMerge` |
| Workspaces (`orchestrator/wkspace/`) | advisory locks, lock file, clone, credentials on disk | acquire, renew, release, clone or reset, clean up, prune | one run per workspace; recorded code is not lost under a checkpoint |
| Agent pool (`orchestrator/agent_manager.go`, `repository/agent.go`) | agent status and current task | assign, release, watchdog, reset at start | an agent serves one run at a time and comes back |
| Credentials and execution router (`service/credential_pool.go`, `credential_router.go`, `orchestrator/execution_router.go`) | credentials, cooldowns, provider lists | select, report, cool down, re-authenticate, switch on | a report reaches the credential it is about; a refreshed login survives |
| CLI engine (`orchestrator/engine/cli.go`, `cli_spec_step.go`) | the runner shared by the steps of a run | resolve, preflight, run, write back, report | as above |
| Git delivery (`orchestrator/gitops/`, `repoutil/`, `steps/merge.go`, `steps/pr.go`) | clones, role worktrees, branches, remotes, pull requests | checkpoint commits, merge of tracks, squash, push, open | what agents wrote is in the pull requests |
| Patches (`orchestrator/patch/`) | files of several repositories | split, policy, apply, revert, search/replace | a repository is patched whole or not at all; edits keep indentation |
| Live feed (`handler/task_event.go`, `repository/task_event.go`, `src/web/src/lib/`) | stored entries, channels, the browser's lists | store, broadcast, catch up, reconnect, merge | a page at rest shows every entry |
| Memory and learning (`orchestrator/learning/`, `repository/memory.go`, `service/learning.go`) | memories by tier, suggestions, rules | record, promote, prune, detect, review, apply | errors of a session outlive its clean-up; a review is honoured |
| Prompts (`prompts/`) | none | skills, context directory, role and step prompts | the agent gets what was selected, within the budget |
| Context index (`context/`, `mcpcontext/`) | one index per workspace, shared caches | scan, extract, save, publish, copy, search | old tags never stand under a new time; answers match the files |
| Attestations (`service/attestation.go`) | keys, signed records | sign, first key, rotate, verify | a signed record verifies for good |
| HTTP decoding, chat, governance documents, web pages | I/O and storage | | |

**Interactions.** A request writes a `workflow_jobs` row and puts a token into the wake
channel. The worker loop takes a semaphore slot, claims the oldest queued row in one
transaction, stores a cancel function under the job's id and starts a goroutine. The
goroutine calls `run`, which assigns an agent, locks and clones the workspace, loads the
checkpoints and calls the engine. The engine starts one goroutine per step of a batch and
reports every status change through `OnEvent`, which writes a checkpoint and the row. The
engine's error decides how the run ends. A ticker takes rows that have not been updated for
ten minutes for stuck and queues them. Pause, cancel and retry write the row and call the
stored cancel function.

**Where it is hard.** Three kinds of actors write the same row (requests, runs, the ticker),
with a read and a write that are separate statements. A batch has several goroutines whose
results, events and errors come in any order. A crash leaves rows, checkpoints and worktrees
in any intermediate state. A run decides from locals it read at its start. `PROJECT.json`
lists the hazards with their lines and the properties that are about them.

## 2. Modules and how they correspond to the code

| Module | Models | Used by |
|---|---|---|
| `DagExecution` | abstract: what a call of the engine promises its owner | refined by `StepEngine` |
| `StepEngine` | `workflow/engine.go`, `graph.go` | instantiated by `WorkflowRun` |
| `JobStates` | the job part of `workflow/state_machine.go` | `WorkflowRun`, `JobQueue` |
| `WorkflowRun` | `orchestrator/worker.go` around the engine, checkpoints, the CLI pipelines, requests, crashes | |
| `JobQueue` | `orchestrator/queue.go`, the job repository, the requests as they act on rows | |
| `TaskLifecycle` | tasks and everything that moves them, statement by statement | |
| `Workspaces`, `AgentPool` | what a run holds: the directory of its task, its agents | composed by `MCResources` |
| `CliSteps` | the agent steps of a job over the credential pool and the router | |
| `ReviewCycle` | implement, review, decide, deliver | composed by `MCPlatform` |
| `GitDelivery`, `Patches` | code on its way to a pull request | composed by `MCPlatform` |
| `LiveFeed`, `Knowledge`, `Prompts`, `ContextCache`, `Attestations` | what surrounds a run | composed by `MCPlatform` |
| `Sublists` | the subsequence of a sequence at given positions, with no recursion behind it | `Knowledge`, `LiveFeed` |
| `StepEngineProofs`, `JobQueueProofs`, `WorkflowRunProofs`, `TaskProofs` | theorems about the module each extends | |
| `ResourcesProofs` | theorems about `AgentPool`, `Workspaces` and `CliSteps` | |
| `ContextCacheProofs`, `RunRecordProofs` (`Knowledge`, `LiveFeed`), `PlatformProofs` (`Attestations`, `ReviewCycle`, `Patches`, `GitDelivery`) | theorems about what surrounds a run | |
| `MCStepEngine`, `MCJobQueue`, `MCCliSteps`, `MCTaskLifecycle` | model values, definitions and symmetry for TLC | |
| `MCResources`, `MCPlatform` | compositions: modules that share no state are explored side by side, a variable `part` says which one moves | |

### StepEngine

One engine object and the sequence of calls its owner makes on it. The program counter is that
of `runInternal`: `loop` (head of the loop), `launch` (starting a batch, one iteration per
step, the `running` event of each included), `wait` (after the batch is started; when all
goroutines have ended the results are taken from the channel, one per step), `returned`.
`Return` drops the call's locals; goroutines that are still working then become `orphans`, as
happens in the code when the `running` event of a later step fails (`engine.go:132`).
`StepReturns` is a runner returning any of its errors; the engine tells apart the two pausing
errors and everything else. `DrainFailure` ignores the callback's error and `DrainSuccess` does
not, as in the code. Outputs are abstracted to the set of steps that have one. A definition is
a record of steps, dependencies and positions; ids are unique by construction, so the
duplicate-id check of `validateDefinition` has nothing to reject; unknown dependencies and
cycles are rejected. `ValidateDAG` (Kahn's algorithm) is modelled by what it accepts.

### WorkflowRun

One task with its latest job row (`job`), its checkpoints (`checkpointed`, `announced`,
`pausedCp`, `reviews`), the locals of `run`, and an engine (`INSTANCE StepEngine`) working on the
single-track or the parallel pipeline of `workflow/step.go`. Each engine action is conjoined
with what `OnEvent` does: `OnEvent` writes the checkpoint, then the row (a refused
transition or a database error in either is a possible outcome), and returns an error when a
write failed or when the analysis has asked for the other pipeline. `Cached` is
`WithCheckpointRecovery`: unless the state machine is enabled, a step with a success checkpoint
returns the stored output. `LoadCompleted` is the filter of `run` on checkpoints
(`isCLIImplementFixLoopCheckpoint`). Every way for a run to end is an action: `FixLoopRequeue`,
`GraphChangedRequeue`, `Cooldown`, `Pause`, `NextAttempt`, `GiveUp`, `PrologueFails`, `Crash`.
`ResetStuck` and `ResetWhileWorking` are the ticker's reset. The queue has one slot here, so
one run at a time. `FinishRun` of the engine is not among the actions: `cli_mr` never returns
success, so there is always a ready step.

`Cached` may also be refused: when the look-up of a step's checkpoint fails, the runner logs it and
runs the step although its success is on record. History variables `produced` (which step's own
work ever succeeded) and `sighted` (this run has read the list of checkpoints) exist for the
properties only.

### JobQueue

Rows of several tasks in order of creation, the worker loop, run goroutines and API requests as
separate processes. `UpdateJob` reads and validates in one statement and writes in another, so
every writer has a validating and a writing step. Claiming a row (one transaction) and starting
its goroutine are two steps. `NothingClaimed` covers an empty table, a locked row
(`SKIP LOCKED`) and a failed query. `Tick(old)` resets any subset of the rows whose run is gone;
`TickSlowStep` is the tick that also takes a working run's row for stuck. A run does what
`WorkflowRun` models; here it starts (`StartValidate`, `StartWrite`), may have its pause event
written (`StepPauses`, `EventValidate`, `EventWrite`), may notice a cancellation
(`RunCanceled`), and ends with one of the statuses `run` writes. Writes with the run's own context
fail once it is cancelled (`Deaf`, `StartWrite`, `EventWrite`); pause and failure are written
with a context that cannot be cancelled. `Leave` and `Unregister` are the two statements of the
deferred cleanup, in the code's order. The requests share a shape: read the latest row, validate,
write, call the cancel function, enqueue. `approve` stands for both `ApproveMerge` and
the pull-request sync. `RequestFails` is any call of a request that returns an error.

### TaskLifecycle

The rows of a parent task and its children, and the actors that move them: requests (the action
dispatcher, spec review, clarification, pull-request review, PATCH, a split), the run of each
task, the pull-request ticker and webhook, the guardrails. What an actor does is a list of
statements, `agenda`, worked off one at a time, so a read, the validation against
`ValidTaskTransitions` and the write of `updateTaskStatus` interleave with those of others. A
call puts its statements in front of the rest; a refused statement drops everything up to the
next `catch`, which stands where the code logs an error instead of returning it. `flow` chooses
the workflow of a task, `stage` is how far its checkpoints have got. A run is reduced to the
statuses its steps ask for; its job rows are the statuses `JobStates` allows.

### Workspaces, AgentPool

`Workspaces` follows a run through `AcquireWorkspaceLock` (advisory lock, lock file, heartbeat),
clone or reset, credentials, the coding step with its checkpoint, and its exits. The advisory
lock and the maps of the process are keyed by the task, the directory and the lock file by its
owner, which for a child is the parent; `ReleaseWorkspaceLock` acts by task id whoever holds it.
`PartialCleanupWorkspace` goes on in the background after a final state. `AgentPool` has the rows
of the agents: one transaction claims an idle row, every other write is unconditional. The
watchdog reads its list and resets it in two steps, as the code does. `MCResources` explores both.

### CliSteps

Two parallel tracks and the review of one job, on one `cliStepRunner`. `ResolveConfig` asks the router
(the project's list or the organization's, pinned or pooled credentials, cooldowns, the coder's
profile last), then preflight, process, write-back of refreshed files and the report. The pool
lives on meanwhile: cooldowns end, other runs report, people create, repair and delete. Three
scenarios keep the product apart: creation of credentials, failure reports, refreshes.

### ReviewCycle

`cli_implement` and `cross_review` in the state-machine mode. The verdict file is at most one record
`[of, text]` in the checkout, `of` the version the reviewer looked at. A step fails, the process
stops or a command fails after any of them. `accepted` are the outputs of successful reviews: the
only ones later decisions read, because an error of a step leaves no output. Requirements are
sets of words, compared as `SameRequirement` does (Jaccard at least 0.6).

### GitDelivery

Repositories with their clone, two role worktrees, branches and remote. A commit is the set of its
ancestors and the set of edits in its tree, so that ancestry, fast forwards and `reset --soft` are
set operations. Every git command is a step; the run may fail after any of them and is retried
from the start of its workflow step. Conflicts are any choice.

### Patches

Repositories with files of one or more hunks. A hunk is `old` where its context stands in the
file, `new` where its result does, `alien` where neither does. `git apply`, `patch --batch` and
their reverse forms are modelled from what they do with such hunks (external). The policy check is
the boundaries with their capabilities. Two pure parts run on enumerated inputs: attribution of
paths, and search/replace with its tiers. A line is its indentation, the character of that, its text
and whether blanks follow; blank lines are left out.

### LiveFeed

One feed (events, logs in the database or in a file), a writer, the hub with its bounded channel,
the stream handler in its phases (subscribe, read, send, send the buffer, live) and the browser's
store. Entries are numbers. A connection breaks at any point; the browser reconnects with its
cursor, and reads all logs when the job has ended. `ProcessLine` is applied to enumerated lines.

### Knowledge, Prompts, ContextCache, Attestations

`Knowledge`: memories in order of creation with tier and session; the end of a session promotes
them one by one and prunes whatever is oldest; scans and reviews run beside the next session.
`Prompts`: one step that builds the context of an instruction from an enumerated world of
skills. `ContextCache`: databases with one row per file, `mtime` the time at the scan and `of` the
content the parser read; worker, prewarmer and context server fill them statement by
statement while agents edit. `Attestations`: look-up, key and record as separate statements of
several signers, with rotation. `MCPlatform` explores these, `ReviewCycle`, `GitDelivery` and
`Patches` one at a time: no statement of one reads the state of another.

Each mapped definition has its source lines in `PROJECT.json`. A definition whose comment
begins with "Mutant" is used by nothing: it is a plausible wrong version of the definition after
it, there to show that the property it belongs to notices the difference.

## 3. Runs

| Run | Configuration | Result | What it shows |
|---|---|---|---|
| `engine` | `MCStepEngine` | holds, 59 thousand states | any call on six definitions (chain, join, three independent, two, a cycle, an unknown dependency) with any seed, resumed step and errors: dependencies are met (`DependenciesReady`), statuses, outputs and `CompletedSteps` agree (`ResultsCoherent`), no step of a batch is forgotten (`BatchAccounted`), no call ends incomplete (`NeverIncomplete`), `SuccessIsFinal`, every call returns (`CallReturns`), and the engine implements `DagExecution` (`ImplementsDagExecution`) |
| `run_default` | `RunDefault` | holds, 1.2 million states | default configuration, two attempts, one crash, one refused database call, one review with findings, one cooldown, two requests: an agent only builds on work some agent has done (`InputsDelivered`) |
| `run_state_machine` | `RunStateMachine` | holds, 737 thousand states | `state_machine_enabled`, a crash, two refused calls, a stall, one review with findings: a run that has read its checkpoints does not give recorded work to an agent again unless it was claimed at `cli_implement` (`NoRepeatedWork`), and a queued or running job comes to rest (`RunSettles`) |
| `queue_safe` | `QueueSafe` | holds, 2.4 million states | two tasks, two slots, three goroutines, all requests: `SlotsBounded`, `CancelHitsOwnJob`, and the typing, which says that "sleeping" is never in a row |
| `queue_live` | `QueueLive` | holds, 77 thousand states | with pause, cancel, a requeue and a crash: `QueuedIsClaimed`, `DeadRunRecovered` |
| `tasks` | `Tasks` | holds, 1.2 million states | a task alone or a parent with two children, two callers, two requests (one where the parent starts in spec review), every kind of step outcome: a parent whose children are merged is merged (`ParentCompletes`), the next child has been dispatched (`NoChildForgotten`), a family at rest names the child to retry (`StuckParentHasCulprit`, for up to two requests and children that have ended or not begun), and merged means that a pull request was (`MergedMeansMerged`) |
| `resources` | `Resources` | holds, 259 thousand states | `AgentExclusive`, `WorkspaceExclusive`: two runs share an agent or a workspace only where it was taken away under its run; `ResumeKeepsWork`: recorded code leaves a workspace only with the whole clone or under a reset made for the parent; `AgentsReturn`: a taken agent comes back |
| `cli_steps` | `CliSteps` | holds, 664 thousand states | a report reaches the credential the step ran on unless two steps resolved the shared runner at once (`BlameIsRight`); a refreshed login is lost only to an overlapping write-back, a new login or a deletion (`RefreshSurvives`) |
| `platform` | `Platform` | holds, 2.0 million states | delivery: `Shipped`; patches: `PatchAllOrNothing`, `EditKeepsIndentation`, `PathFound`; pages: `TimelineComplete`, `LogsComplete`; learning: `ErrorsRemembered`, `ReviewHonoured`; `ContextMaterialized`; index: `CachesHonest`, `AnswersFresh`; `AttestedForGood`; review: `VerdictAboutThisCode`, `RepeatsEscalate` |
| `retry_keeps_work` | `RetryKeepsWork` | violated | `CheckpointedCodePresent`, deviation 1 |
| `delivery` | `Delivery` | violated | `PipelineStatusAccepted`, deviation 2 |
| `easy_delivered` | `EasyShipped` | violated | `EasyShipped`, deviation 3 |

Several properties name exceptions (`taken`, `reclaimed`, `crossed`, `confused`,
`excused`, `astray`, `unread`, ...). Each is a history variable set by one particular step of the
code that is known to break the guarantee; the property says that nothing else does. The steps are
listed in section 7.

`CHECK_DEADLOCK FALSE` stands in the configurations where the system really rests: a task that is
paused, failed or done and no request comes (`WorkflowRun`, `TaskLifecycle`), a job whose steps
are done (`CliSteps`), a delivery that waits for approval, a page at rest, no further edit or
session (`MCResources`, `MCPlatform`). `JobQueue` and `StepEngine` have no
deadlock: the ticker always ticks, and the owner may always call again.

## 4. Bounds

Three steps are enough for the engine to have a chain, a fork and a join, and with
`MaxParallel = 2` a batch that is cut; one orphan per step at the start of a call covers a
retry beside a goroutine left behind. In `WorkflowRun` two attempts give a retry after a failed
attempt, and one crash, the refused calls and one stall, placed anywhere, are combined freely; with
two refused calls and one attempt `run_state_machine` has a run that never reads its checkpoints.
One review with findings gives a fix loop between two runs of its job. In `JobQueue` two requests per instance are two writers on the
same row besides the run and the ticker; three goroutines with two slots allow one run that has
left its slot but not yet deleted its cancel function beside two others. `MaxRequeues` limits the
runs that end with their job still to be done (fix loop, changed graph, cooldown). The safety
part of these bounds is lifted by the proofs of section 6. `queue_safe` uses symmetry
(goroutines, clients, tasks), `tasks` and `delivery` that of the callers; they check no liveness.

`TaskLifecycle` has the smallest family in which children end at once while a third statement
dispatches (a parent, two children), two callers with one idempotency key, and at most one fix loop,
failure, question and guardrail disturbance, in any order; a lone task starts new or with its spec
already waiting for a person, so that two requests reach the limit of spec reviews. `Workspaces` has a parent and a child,
which share a directory and not a lock, two runs, and one disturbance besides the retries;
`AgentPool` two runs and two agents of different roles, so that a run may hold the agent another
run's track wants. `CliSteps` has two profiles with a credential each, one pinned: enough for a swap
and for two steps that resolve differently. `GitDelivery` has two repositories, one with an empty
remote, two rounds and two failures: a rejected delivery that is implemented, merged and pushed
again. `Patches` has two repositories, files of one and two hunks, four calls and two hunks made
to fit in between. `LiveFeed` has limits of one and two entries instead of 100, 500 and 5000, so
that three entries overflow each of them; `Knowledge` keeps one memory and finds a pattern at
two; `Prompts` has slugs that collide and a budget that some skills exceed. `ContextCache` has
two tasks that share a repository, two commits and three writes. `Attestations` has two signers,
two commits, and keys for two rotations beside two first keys. `ReviewCycle` has a limit of one
cycle, two attempts, four versions and three faults; its writings are no verdict, a pass, a
quality issue, and three violations of which two are one in other words.

## 5. Fairness

- Engine: weak fairness of the engine's own steps, runners included: agents are killed at
  their timeout, so every runner returns.
- `WorkflowRun`: weak fairness of the worker, of the reset of stuck rows (it runs on the ticker)
  and of goroutines left behind. Nothing is assumed of users.
- `JobQueue`: weak fairness of the loop, of each run goroutine and each request. The loop as a
  whole being fair says nothing about which branch of `select` it takes or whether a query fails,
  so two strong fairness assumptions are added. A dead row is updated by nobody, so some tick
  finds it ten minutes old: `SF(Dead # {} /\ Tick(Dead))`. And `ClaimNext` does not fail at every
  one of infinitely many tries: `SF(ClaimNext(j))`. Without the first, a row could be young at
  every tick; without the second, the database could be down for ever.

- `AgentPool`: weak fairness of each run (a run ends, by its result or by its timeout), of the
  ageing of a row nobody has, and of the two halves of the watchdog, which runs on a ticker.
- The other modules are checked for safety only.

## 6. Proofs

All proofs hold for every value of the constants that satisfies the named assumptions of the modules:
finite sets of steps, goroutines and clients, a positive number of slots, natural bounds
(`StepsAssumption`, `DefinitionsAssumption`, `QueueAssumption`, `RunAssumption`, ...); an empty session
name belongs to no session (`KnowledgeAssumption`), the repositories of a task and the children of a
parent are sequences (`ContextCacheAssumption`, `LifecycleAssumption`). The others say what the code
checks or fixes, or which inputs a pure part is about: a split has at least two children (`ApproveSplit`
refuses fewer, `LifecycleAssumption`), an attempt and a stored payload have a positive limit
(`CliAssumption`, `FeedAssumption`), a file and a search text consist of lines that are not blank and
the text has one (`EditAssumption`), a path relative to its repository does not begin with a name that
is stripped, such as `worktrees` or a role (`PathAssumption`; the code cuts such a path too far), and
the value that stands for "none" is no task status, no profile and no credential (`NoneAssumption`,
`CliAssumption`). Bounds such as `MaxCrashes` are constants of the specification, so a theorem holds for
any of their values. Nothing is assumed besides; TLC evaluates the assumptions in the runs.

**StepEngineProofs** — `EngineTypeCorrect`, `EngineSafety` (`DependenciesReady`), `EngineResults`
(`ResultsCoherent`), `EngineBatches` (`BatchAccounted`), `EngineNeverIncomplete`,
`EngineSuccessIsFinal`, `EngineParallelBound`, `EngineRefinesDagExecution`. The inductive invariant
`EngineInv` adds `CallShape` to the properties: what the batch, the channel and the statuses look
like at each program counter, and that a definition under execution was validated. It is needed
because, for example, `NeverIncomplete` rests on there being no failed step whenever the head of
the loop is reached. The heart of that argument is the lemma `ReadyOrDone`: in an acyclic definition
whose steps are pending or successful, something is ready or all is done. `ParallelBound` needs the
counting lemma `BatchSmall` about `ready[:MaxParallel]`; it is stated by the theorem alone and by no
run. `EngineRefinesDagExecution` is the refinement `ImplementsDagExecution`, step by step: a call,
a success, a failure and a return of the engine are those of `DagExecution`, what happens to a batch
between them is a stutter. A failed call blames a step that really failed (`CulpritInv`).

**JobQueueProofs** — `QueueTypeCorrect`, `QueueSlots` (`SlotsBounded`), `QueueCancels`
(`CancelHitsOwnJob`). The inductive invariant `QueueInv` has a part per owner of state.
`RowsInv` counts requests that may still create a row (`Busy`), so that there is never a row
without its request. `RunInv` says that a goroutine has a job exactly when it is not free, and
that what it is about to write was accepted by the table; that is why no row becomes
`sleeping`. `SlotInv` counts the goroutines that hold a slot and the loop's own token; each
action either leaves that set alone or changes it by one together with the semaphore.
`CancelInv` is inductive because a goroutine is given a job only when it is free, and no
stored cancel function is a free goroutine's. The lemmas `LoopMoves`, `RunMoves` and
`RequestMoves` say once what a step of each kind leaves alone.

**WorkflowRunProofs** — `RunTypes`, `InputsAreDelivered`, `WorkIsNotRepeated`. The engine's own
theorems do not apply inside a run: a crash erases its call and `OnEvent` decides how its steps
end. `RunInv` therefore carries what of the engine survives (`EngineAtRest`: no step is under way
when no engine runs; `BatchMarked`: what is launched, working or in the channel belongs to the
definition and is marked running), and relates it to the database. `WorkDone` says that whatever
counts as success anywhere, a checkpoint, a status, a result in the channel or `CompletedSteps`, is
work some agent did; dependencies of a step that is working were all done. `RecordKnown` says that
a run which has read the checkpoints knows each of them, except the two its marker excuses.
`WorkIsNotRepeated` is a case where the proof corrected the model: the property was first stated
for every run, and TLC agreed with one refused call; the proof stopped at an attempt whose reads
are all refused, which starts from nothing and repeats recorded work (`worker.go:503`). With two
refused calls TLC shows it, and the property now says what the code does guarantee.

**TaskProofs** — `MergedIsMerged` (`MergedMeansMerged`), `FamiliesComplete` (`ParentCompletes`),
`ChildrenAreStarted` (`NoChildForgotten`). A task may become merged when its pull
request was or when it is split: those are `Backed`. The invariant is about statements that are not
executed yet. `PlansOK` says of every agenda, the handlers of its `catch` entries included, that it
asks for merged only where the task is backed, lists children only for a parent that is split, and
never takes the mark of a split away. It survives because each statement puts a plan in front of
the rest, an error unwinds to a handler which is itself a plan, and what is backed stays backed. The
one agenda that is no plan is that of a split being approved (`SplitPlan`): it ends with listing
children of a parent that is marked only by the statement before. `MergesBacked` admits the writes
that pass no check (`astray`).

A family needs more: not only what may not be asked, also who will still ask. `FamilyInv` says that
the family is being made by `ApproveSplit` (`Splitting`: some rows exist, nobody else does anything)
or is whole (`Grown`), and then: `GoesOn`, the first child that is not merged has left todo or the
*next* statement of somebody who cannot be cut short starts it (a listing, an execute, the write of
its status); `Closes`, when all are merged the parent is, or somebody's next statement merges it.
"Cannot be cut short" are the requests and the handler of the split, and never the run of a child,
which `CancelRun` may kill between its write and its listing; that is why the invariant also says
that a child's run never asks for its own merge, only requests do. That a next statement is not
refused rests on the statuses: a parent is coding, blocked or merged, or stays in spec review, from
where the table admits neither; a child in todo has no job, no run and no time limit, so no
guardrail trips. `KinPlan` says of every agenda what it may hold for that to last, relative to
what is `Known` and only grows (children that have begun, children whose run has ended a step,
statuses a parent may be asked for). A write decided on an older status may violate all of it:
`updateTaskStatus` does not lock. Such families are `astray` and excepted (deviations, section 7).
The proof has one lemma per statement (`...Keeps`), over four that say what a move of an agenda, of
a child's row and of the parent's row does (`FamilyProceeds`, `KidMoves`, `ParentMoves`, `PutKeeps`).

**ResourcesProofs** — `AgentsExclusive` (`AgentExclusive`), `WorkspacesExclusive`
(`WorkspaceExclusive`), `ResumesKeepWork` (`ResumeKeepsWork`, an action property), `CliTypeCorrect`
(`CliTypeOK`), `ReportsBlameTheirCredential` (`BlameIsRight`), `RefreshedFilesSurvive`
(`RefreshSurvives`, an action property). For agents,
`RowsRight`: unless the watchdog freed it, the row of an agent that a run has says so, and the run is
the only one; that a run never has one agent twice (`UserShape`) keeps the two exits of a run apart. For
workspaces, `LocksRight`: unless it was taken away, a run past the advisory lock has it alone among
the runs of its task, and the lock file of the owner names the run inside. Two runs in one
directory would be both named there. `ClonesAtOwners`, no clone in the directory of a child, is
what makes a removal by task name miss the directories of others. For `CliSteps`, `BlameInv`: unless two
steps were busy with different candidates (`confused`), what the shared runner points at is what each
busy step was resolved to, and a step that is about to report still runs on it. The refresh property
follows from the types alone: only a write-back, a login or a deletion touches the files of a row.

**ContextCacheProofs** — `CachesAreHonest` (`CachesHonest`), `AnswersAreFresh` (`AnswersFresh`). The
invariant `CacheInv` rests on `GoodRow`: a row whose tags are not of its time has a time no file
has now, since every write has a new stamp. It is kept for rows and for what a worker has scanned
and not yet saved (`WorkGood`). For answers, what a request indexed is followed to its reply: a row
it refreshed is of the present content unless the file was edited meanwhile.

**RunRecordProofs** (`Knowledge`, `LiveFeed`) — `MemoriesSurvive` (`ErrorsRemembered`),
`ReviewsAreHonoured` (`ReviewHonoured`), `TimelineIsComplete` (`TimelineComplete`), `ConsoleIsComplete`
(`LogsComplete`). `MemoryInv` says of each important memory where its promotion stands (`Kept`):
until its session lists it, it is the session's; then it is on the list or recorded as refused; after
the clean-up it is recorded. A prune of another session finds it promoted or excused. `SuggestionInv`
follows each reviewer through its statements (`InStep`); without overlap a suggestion has one
(`OneReviewer`), which is why a rule is created once. For the feed, `FeedInv` follows every stored event to
the page (`Flow`): it is in the hub's channel, in what the stream has read or holds back, on the wire, or
shown, unless it was dropped or a later one was broadcast first; and no list on the way has an event
ahead of one whose place the cursor would then skip (`Tight`), which is what lets a reconnect start at the
cursor. The console's claim is inductive with `Unlike` (no log twice).

**PlatformProofs** — `AttestationsHold` (`AttestedForGood`), `ReviewsAreCurrent`
(`VerdictAboutThisCode`), `RepeatsReachAHuman` (`RepeatsEscalate`), `PatchesAreWhole`
(`PatchAllOrNothing`), `EditsKeepIndentation` (`EditKeepsIndentation`), `PathsFindTheirRepository`
(`PathFound`), `ImplementedIsShipped` (`Shipped`). For attestations: a signer about to store and every
record name a key that exists, and keys are retired but never removed. For reviews, `LeftFileIsCurrent`:
a file left in the checkout comes from a server that stopped during a review, so the job is not claimed
at `cli_implement` before that file is consumed. `RepeatsEscalate` needs that accepted reviews are only
ever appended (`Grows`). For patches, `PatchInv`: a repository with neither all of the patch nor none of
it (what it would hold `without` it) is the one about to be reverted, and holds exactly the hunks that
fitted; that makes the reverse of `patch --batch` take out what was put in. For search/replace: a text
that is counted once has an exact place, since without one the count stays at zero from the last line up
(`CountedIsFound`), and a place of any fuzzy tier agrees with the search text line by line
(`TiersAgree`); after the splice every line is where it was (`SpliceLines`, `LinesStay`), moved by the
depth it has in the file less the one it has in the search text, so back to where it was (`Back`). For
paths, each spelling of a path (`RenderedForms`) loses its prefix at the first rule that knows it
(`CheckoutStripped`, `OwnPrefixStripped`) and meets no other one (`RelativeKept`, `PathNormalized`):
that is what the assumption on its first segment is for. For delivery, `GitRest`: a track's branch is
its own chain, and what the trunk has of it came by a merge (`TrackOK`), so a merge that finds nothing
to do misses nothing; `MergeOK` follows the merge command by command; from then on what was implemented
is in the commit or the index of the clone (`WorkOK`) and, where the pull-request step is done, in the
pushed branch (`PushedOK`), except for a repository whose status could not be read (`unread`).

The proofs share a discipline: a definition with `CHOOSE`, such as the least position in a list,
is opened in one lemma (`LeastNatural`, `PreviousIsLast`), and an action is opened in the lemma
about that action only. Where a module had an operator the prover cannot open, it was replaced by
an equal one: `Updated` stands in `TaskLifecycle` for the function override of the TLC module, and
`Sublists` takes subsequences by counting positions instead of by recursion.

**Left to TLC.** Liveness under fairness (`CallReturns`, `RunSettles`, `QueuedIsClaimed`,
`DeadRunRecovered`, `AgentsReturn`) and anything about ENABLED are out of the prover's reach, and so is
what a recursive definition or a fold computes for every input: the budget that `MaterializeCLIContext`
hands from skill to skill in `Prompts` (`ContextMaterialized`). `StuckParentHasCulprit` is a claim about
at most two requests and is false for three (section 7), so there is nothing to prove for every value of
`MaxRequests`; TLC explores all orders of the two.

## 7. Deviations

Differences between the code and what its own comments, tests or documents say. Three are kept as
runs; `PROJECT.json` quotes the lines.

1. **A retry delivers without the code** (`retry_keeps_work`, `CheckpointedCodePresent`). `fail()`
   ends in a background clean-up that deletes the clone. A retry clones anew and skips the coding
   step by its checkpoint; the patches it would restore do not exist, since no step saves an
   artifact of type patch (`wkspace/create.go:246`).
2. **The pipeline asks for statuses the table refuses** (`delivery`, `PipelineStatusAccepted`).
   `ValidTaskTransitions` lacks reviewing → human_review, pr_ready and coding, coding → pr_ready,
   fixing → pr_ready, human_review → coding. So a parallel workflow never delivers, a task with an
   approved spec and no cross review is refused after its pull request was opened, and a rejected
   pull request fails at its second delivery (`steps/cross_review.go:319`).
3. **An easy task is delivered empty** (`easy_delivered`, `EasyShipped`). The pull-request step skips
   a clean working tree, and `cli_implement` has committed everything (`steps/pr.go:197`). An easy
   task with parallel tracks skips the merge as well (`steps/merge.go:55`).

The rest was met while modelling, by TLC counterexamples to stronger properties than the ones
kept or by reading; the models have the behaviour and the properties name it as an exception.

**Run and queue.**
- With checkpoint recovery on, the default, the implement step a fix loop wants to repeat is
  answered from its checkpoint (`checkpoint/recovery.go:46`), so unmodified code is reviewed. With
  `state_machine_enabled` one crash has the same effect: `worker.go:142` overwrites the fix-loop
  marker in `job.step` before the fix is done.
- `CountSuccessful` counts success checkpoints of `cross_review`, and a review with findings leaves a
  failed one: the review limit does not bite (`checkpoint/checkpoint.go:63`).
- A failed `running` event of the second track ends the attempt while the first track works on: two
  agents in one worktree after a retry (`workflow/engine.go:132`).
- The write of `UpdateJob` does not look at the status again, so a cancelled job may run again
  (`repository/workflow.go:150`). "sleeping" is not in the transition table, so a cooldown leaves
  the row running until the stuck-job reset (`worker.go:614`). Nothing updates the row during a
  step, so a slow step gets its job claimed twice (`repository/workflow.go:225`). The cleanup of a
  run deletes the cancel function of the next run of its job (`queue.go:57`).
- After a crash in or after `cli_implement` the row's step reads as a fix-loop marker and recorded
  work is discarded (`worker.go:50`); the second attempt of a fix-loop run forgets the success of
  the first (`worker.go:503`, `529`); a crash around the change of pipeline leaves checkpoints of
  both (`worker.go:350`); two `Execute` requests at once create two rows (`orchestrator.go:457`).

**Review.**
- A review that asks for fixes returns an error, so its verdict is never checkpointed: the next
  implementation gets no feedback from it (or that of an older accepted review), the cycle count
  does not grow, and a repeated violation is recognised only after an accepted review.
- An accepted review survives the reimplementation of its code when the run is claimed at
  `cli_implement`, the new review crashes or escalates, and the job is resumed: `cli_mr` then
  delivers code nobody reviewed.
- `previousReviewViolations` skips reviews without violations, so "consecutive" is not exact;
  `previousSelfReviewFallback` reads the checkpoint of the review that is running and is always
  false. A missing, invalid or old-style `review.json` passes as approval.
- Which harness wrote the code is known only in memory (`cli_spec_step.go:46`): a resumed review may
  use the coder's.

**Tasks.**
- The retry guardrail is dead; a task it blocked cannot be retried although `models/task.go` says it
  "retries back into TaskStatusFixing". A guardrail during `RetryBlockedParent` leaves the parent
  coding with no blocked child, and a guardrail block is refused from many statuses.
- A `pr_rejection` marker is deleted with the checkpoints like `pr_%`, so its limit never bites
  (`handler/pr.go:78`). Validation and write of a status are separate statements
  (`tracker.go:222`): a parent that reads coding and decides on blocked may overwrite the merge
that came between, which is the exception of `ParentCompletes`. So are the look-up and the storing of an idempotency key: one key may be
  executed twice. The webhook completes a task on one merged pull request, the sync requires all.
  A rerun may open a second pull request after a merge.
- A blocked family is not always left with a child to retry (`decomposition.go:124`): a cancellation that
  comes while `Execute` has moved the child and not yet queued its job leaves the child in
  context_loading with no job in hand; and of three requests at once one may name a child as the failing
  one that another has merged by then.

**Workspaces and git.**
- Lock and agent are released by task or row whoever has them (`wkspace/locking.go:177`,
  `agent_manager.go:105`).
- On an empty remote the squash falls back to the local base, which holds the checkpoints, and
  `CommitAndPush` pushes that base first: code is on the remote base before anyone approved it. A
  crash between merge and commit, or a second round of tracks, makes the merge step fail on every
  retry. Tracks of a child name branches after the owner of the workspace, merge and pull request
  after the child. A repository whose status cannot be read is skipped silently (`steps/pr.go:193`).

**Patches.** `patch --batch` takes a file out again whose first hunk is in already and reports
success, and the revert may apply likewise; earlier repositories of a patch over several stay
patched when a later one fails; `ApplySearchReplace` writes earlier files before a later one
fails, and validates against the original what it applies in sequence; an exact match at the end
of a more indented line does not reindent what follows; anchored critical patterns never match a
path that carries its repository; a relative path that begins with `main/` or
`worktrees/<name>/`, or with a role in a workspace of one repository, loses that part
(`patch/path_normalizer.go:138`). Only the workspace restore reaches the patch engine
(`wkspace/create.go:257`).

**Pages.** `CreateEvent` locks an aggregate with `FOR UPDATE`, which PostgreSQL refuses
(`repository/task_event.go:84`). An event that is broadcast after a later one is dropped by
the reader, and so is one that meets a full channel, though `handler/task_event.go:54` says that a
client "never misses an event". The step prefix of a log line keeps JSON lines from being parsed.
`appendUniqueLogs` appends trimmed logs again and counts them twice; `replaceLogs` has no limit.

**Learning and prompts.** No pipeline has the steps that report changed files or load the context, so
skills are never suggested; the content of a prompt-patch suggestion is not what its reader parses;
overlapping approvals create two rules, and approve beside reject leaves a rejected suggestion with
a rule; a running session's memories may be pruned by another run. A numbered slug may be
clobbered by a skill whose own name ends in that number (`prompts/cli_context.go:69`); a registry
skill seen under its id is loaded again under its file name; nothing calls the section builder.

**Index and attestations.** Definition tags are named "dir/file: Name", so an exact look-up of a
symbol never matches (`context/symbol/extractor.go:92`); tag lines are counted from 0 and read from 1; the error
of `SaveTags` is ignored, so a search may serve old tags; rows of deleted files are kept and count
against the limit; two builders share one temporary name; the caches are keyed by absolute paths
and never hit in another workspace. Authors of an attestation are read from the step "review"
while the pipeline has "cross_review" (`steps/pr.go:425`); two first signers create two active keys.

## 8. What is not modelled, and the plan

Not modelled:

- HTTP decoding and the rate limiter, chat, pipeline configurations and other governance documents,
  web pages: I/O and storage that takes no part in the runs of a task.
- Agents, the sandbox and the wording of prompts: a step that works, writes files and returns some
  error.
- Scores: full-text search, PageRank, token budgets and decay; a search is any subset of what it may
  return.
- Code nothing calls: the section builder of `prompts/`, `RestoreGitCheckpoint`'s commit hashes, the
  knowledge edges.
- Of the modelled files: telemetry, attempt rows, listings, encryption.

What joins the modules is described and not explored: a run of `WorkflowRun` does not hold an agent
of `AgentPool` or a clone of `GitDelivery`; each module has the other's effect as a
nondeterministic outcome (a failing prologue, a lost clone, an error of a step). The product of two of
these state spaces is past what TLC finishes.

Of the safety properties the runs check, the theorems leave two: those named under "Left to TLC" in
section 6. The next steps would be about the joints:

1. a specification of a run's effect on its agent and its workspace, to be implemented by
   `WorkflowRun`, so that `Workspaces` and `AgentPool` need no nondeterministic run of their own;
2. induction over the skills given to the context materializer, with a prover that
   can instantiate an induction rule.
