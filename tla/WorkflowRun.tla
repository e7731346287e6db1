------------------------------ MODULE WorkflowRun ------------------------------
(***************************************************************************)
(* One task worked off by Orchestrator.run (server/internal/orchestrator/   *)
(* worker.go): a queued job row is claimed, the checkpoints are loaded, the  *)
(* StepEngine executes the CLI pipeline in up to MaxRetries attempts with    *)
(* run's OnEvent callback persisting a checkpoint and the job row at every   *)
(* status change, and the engine's error decides what becomes of the job.    *)
(* The process may crash anywhere, the database may refuse a call, and a     *)
(* user may execute, retry or merge.                                         *)
(*                                                                          *)
(* The worker has one slot (QUEUE_WORKER_CONCURRENCY = 1), so a run ends      *)
(* before the job is claimed again; what several slots, cancellations and     *)
(* non-atomic row updates do to each other is the subject of JobQueue.        *)
(***************************************************************************)
EXTENDS Integers, Sequences, FiniteSets, JobStates

CONSTANTS
    StateMachineEnabled,  \* execution.state_machine_enabled (FALSE by default)
    IncludeCrossReview,   \* review_harness_policy # "same"
    MaxRetries,           \* project.MaxRetries
    MaxCycles,            \* project.MaxReviewFixCycles
    MaxCrashes,           \* bound: process crashes
    MaxFaults,            \* bound: refused database calls
    MaxStalls,            \* bound: steps silent for longer than the stuck-job limit
    MaxRequests,          \* bound: Execute and Retry requests
    MaxFindings,          \* bound: reviews that end with findings
    MaxCooldowns          \* bound: times all credentials are cooling down

ASSUME RunAssumption ==
    /\ {StateMachineEnabled, IncludeCrossReview} \subseteq BOOLEAN
    /\ {MaxRetries, MaxCycles} \subseteq Nat \ {0}
    /\ {MaxCrashes, MaxFaults, MaxStalls, MaxRequests, MaxFindings, MaxCooldowns} \subseteq Nat

-----------------------------------------------------------------------------
(***************************************************************************)
(* The two pipelines of workflow/step.go.                                   *)
(***************************************************************************)
ImplementSteps == {"cli_implement", "cli_implement_backend", "cli_implement_frontend"}

CLISteps == {"cli_analyze", "cli_spec", "merge", "cross_review", "cli_mr"} \cup ImplementSteps

\* The pipeline whose stages, in order, are the sets of the sequence q.
Staged(q) ==
    LET stageOf(s) == {i \in 1..Len(q) : s \in q[i]}
        IN  [steps     |-> UNION {q[i] : i \in 1..Len(q)},
             dependsOn |-> [s \in CLISteps |-> UNION {q[i - 1] : i \in stageOf(s) \ {1}}],
             pos       |-> [s \in CLISteps |->
                              CASE s = "cli_analyze" -> 1  [] s = "cli_spec" -> 2
                                [] s = "cli_implement" -> 3
                                [] s = "cli_implement_backend" -> 4
                                [] s = "cli_implement_frontend" -> 5
                                [] s = "merge" -> 6  [] s = "cross_review" -> 7
                                [] s = "cli_mr" -> 8]]

ReviewStage == IF IncludeCrossReview THEN <<{"cross_review"}>> ELSE <<>>

CLISpecFirstWorkflow ==
    Staged(<<{"cli_analyze"}, {"cli_spec"}, {"cli_implement"}>>
           \o ReviewStage \o <<{"cli_mr"}>>)

CLISpecFirstParallelWorkflow ==
    Staged(<<{"cli_analyze"}, {"cli_spec"},
             {"cli_implement_backend", "cli_implement_frontend"}, {"merge"}>>
           \o ReviewStage \o <<{"cli_mr"}>>)

\* The steps whose success isCLIImplementFixLoopCheckpoint discards.
FixLoopSteps == ImplementSteps \cup {"merge", "cross_review"}

-----------------------------------------------------------------------------
VARIABLES
    \* durable: the database
    job,           \* the task's latest workflow_jobs row: its status and step
    checkpointed,  \* steps with a success checkpoint
    reviews,       \* number of cross_review successes, counted up to MaxCycles
    announced,     \* steps with a checkpoint of any status
    pausedCp,      \* the step of the last paused or waiting_approval checkpoint
    analysis,      \* the tracks task.Analysis asks for: "none", "single", "parallel"
    delivered,     \* pull request metadata is recorded on the task
    \* the locals of run
    wpc,           \* "off", "claimed", "attempt" or "engine"
    claimedStep,   \* job.Step as run read it when it started
    resumed,       \* resumedStepID
    attempt,       \* the attempt counter
    \* the engine object
    pc, def, pausedStep, status, outputs, completed, toLaunch, live, ch,
    errToReturn, retErr, orphans,
    \* what the environment has done so far
    crashes, faults, stalls, requests, cooldowns,
    findings,      \* reviews that ended with findings
    \* history, for the properties only
    produced,      \* steps whose own work has ever succeeded
    sighted        \* this run has read the list of checkpoints at least once

durable  == <<job, checkpointed, reviews, announced, pausedCp, analysis, delivered>>
locals   == <<wpc, claimedStep, resumed, attempt>>
engine   == <<pc, def, pausedStep, status, outputs, completed, toLaunch, live, ch,
              errToReturn, retErr, orphans>>
counters == <<crashes, faults, stalls, requests, cooldowns, findings>>
history  == <<produced, sighted>>
runVars  == <<durable, locals, engine, counters, history>>

Engine == INSTANCE StepEngine WITH
    AllSteps    <- CLISteps,
    Definitions <- {CLISpecFirstWorkflow, CLISpecFirstParallelWorkflow},
    MaxParallel <- 2,
    NoStep      <- "",
    MaxOrphans  <- MaxFaults

-----------------------------------------------------------------------------
RunInit ==
    /\ job = [status |-> "none", step |-> ""]
    /\ checkpointed = {} /\ reviews = 0 /\ announced = {} /\ pausedCp = ""
    /\ analysis = "none" /\ delivered = FALSE
    /\ wpc = "off" /\ claimedStep = "" /\ resumed = "" /\ attempt = 0
    /\ Engine!EngineInit /\ def = CLISpecFirstWorkflow
    /\ crashes = 0 /\ faults = 0 /\ stalls = 0 /\ requests = 0 /\ cooldowns = 0 /\ findings = 0
    /\ produced = {} /\ sighted = FALSE

\* The engine object is unreachable: run has returned or the process is gone.
\* Goroutines it left behind survive run, but not the process.
DropEngine(left) ==
    /\ pc' = "idle" /\ pausedStep' = "" /\ outputs' = {} /\ completed' = {}
    /\ status' = [s \in CLISteps |-> "pending"]
    /\ toLaunch' = {} /\ live' = {} /\ ch' = {}
    /\ errToReturn' = "nil" /\ retErr' = "nil"
    /\ def' = CLISpecFirstWorkflow
    /\ orphans' = left

LeaveRun ==
    /\ wpc' = "off" /\ claimedStep' = "" /\ resumed' = "" /\ attempt' = 0
    /\ DropEngine(orphans)
    /\ sighted' = FALSE /\ UNCHANGED produced

\* UpdateJob: the row is written if the transition table allows it; otherwise,
\* or when the database refuses, the code goes on without.
WriteJob(row) ==
    \/ /\ job' = IF ValidJobTransition(job.status, row.status) THEN row ELSE job
       /\ UNCHANGED faults
    \/ faults < MaxFaults /\ faults' = faults + 1 /\ UNCHANGED job

-----------------------------------------------------------------------------
\* Execute: resume a paused job, enqueue a row when there is none in hand.
Execute ==
    /\ requests < MaxRequests
    /\ job.status \in {"none", "failed", "done", "paused"}
    /\ job' = IF job.status = "paused" THEN [job EXCEPT !.status = "queued"]
              ELSE [status |-> "queued", step |-> "analyze"]
    /\ requests' = requests + 1
    /\ UNCHANGED <<checkpointed, reviews, announced, pausedCp, analysis, delivered, locals,
                   engine, crashes, faults, stalls, cooldowns, findings, history>>

\* RetryFromLastStep: the old row is failed and a new one queued.  (The retry of
\* a job whose run is still going on cancels that run: see JobQueue.)
Retry ==
    /\ requests < MaxRequests
    /\ job.status \in {"failed", "paused"}
    /\ wpc = "off"
    /\ job' = [status |-> "queued", step |-> "analyze"]
    /\ requests' = requests + 1
    /\ UNCHANGED <<checkpointed, reviews, announced, pausedCp, analysis, delivered, locals,
                   engine, crashes, faults, stalls, cooldowns, findings, history>>

\* ApproveMerge, or the sync worker finding the pull request merged.
MergeApproved ==
    /\ job.status = "paused" /\ delivered
    /\ job' = [status |-> "done", step |-> "done"]
    /\ UNCHANGED <<checkpointed, reviews, announced, pausedCp, analysis, delivered, locals,
                   engine, counters, history>>

\* ClaimNext, and run's first write, which returns the row it will work from.
Claim ==
    /\ wpc = "off" /\ job.status = "queued"
    /\ job' = [job EXCEPT !.status = "running"]
    /\ wpc' = "claimed"
    /\ claimedStep' = job.step
    /\ UNCHANGED <<checkpointed, reviews, announced, pausedCp, analysis, delivered,
                   resumed, attempt, engine, counters, history>>

\* Mutants: a paused step counts as completed; the fix-loop steps are discarded
\* whatever job.Step says.
LoadCompletedPaused ==
    {s \in CLISteps : \/ s = pausedCp
                      \/ /\ s \in checkpointed
                         /\ ~(claimedStep = "cli_implement" /\ s \in FixLoopSteps)}

LoadCompletedUnguarded == checkpointed \ FixLoopSteps

\* The success checkpoints that count as completed for this run.
LoadCompleted ==
    {s \in checkpointed : ~(claimedStep = "cli_implement" /\ s \in FixLoopSteps)}

\* Assign an agent, lock and clone the workspace, write step "assign" to the
\* row, choose the pipeline and load the checkpoints (a refused list is ignored).
Prologue(listed) ==
    /\ wpc = "claimed"
    /\ job' = [job EXCEPT !.step = "assign"]
    /\ def' = IF analysis = "parallel" THEN CLISpecFirstParallelWorkflow
              ELSE CLISpecFirstWorkflow
    /\ completed' = IF listed THEN LoadCompleted ELSE {}
    /\ resumed' = IF listed THEN pausedCp ELSE ""
    /\ wpc' = "attempt" /\ attempt' = 1
    /\ listed \/ faults < MaxFaults
    /\ faults' = IF listed THEN faults ELSE faults + 1
    /\ sighted' = listed
    /\ UNCHANGED <<checkpointed, reviews, announced, pausedCp, analysis, delivered, claimedStep,
                   pc, pausedStep, status, outputs, toLaunch, live, ch, errToReturn, retErr,
                   orphans, crashes, stalls, requests, cooldowns, findings, produced>>

\* One of those steps fails: no agent, no lock, no clone.
PrologueFails ==
    /\ wpc = "claimed"
    /\ WriteJob([job EXCEPT !.status = "failed"])
    /\ LeaveRun
    /\ UNCHANGED <<checkpointed, reviews, announced, pausedCp, analysis, delivered,
                   crashes, stalls, requests, cooldowns, findings>>

\* Reload the checkpoints, keeping the engine's own map when they cannot be
\* listed, and call Run or Resume.
StartAttempt(listed) ==
    /\ wpc = "attempt"
    /\ Engine!StartRun(def, resumed, IF listed THEN LoadCompleted ELSE completed)
    /\ wpc' = "engine"
    /\ listed \/ faults < MaxFaults
    /\ faults' = IF listed THEN faults ELSE faults + 1
    /\ sighted' = (sighted \/ listed)
    /\ UNCHANGED <<durable, claimedStep, resumed, attempt, crashes, stalls, requests, cooldowns,
                   findings, produced>>

-----------------------------------------------------------------------------
(***************************************************************************)
(* OnEvent: the checkpoint is written first, then the job row; r says which  *)
(* of the two writes was refused, if any.                                    *)
(***************************************************************************)
EventResults == {"ok", "checkpoint_refused", "update_refused"}

OnEvent(s, st, r) ==
    /\ r = "ok" \/ faults < MaxFaults
    /\ faults' = IF r = "ok" THEN faults ELSE faults + 1
    /\ IF r = "checkpoint_refused"
       THEN UNCHANGED <<announced, checkpointed, reviews, pausedCp>>
       ELSE /\ announced' = announced \cup {s}
            /\ checkpointed' = IF st = "success" THEN checkpointed \cup {s} ELSE checkpointed
            /\ reviews' = IF st = "success" /\ s = "cross_review" /\ reviews < MaxCycles
                          THEN reviews + 1 ELSE reviews
            /\ pausedCp' = IF st \in Engine!PauseErrors THEN s ELSE pausedCp
    /\ LET newStatus == IF st = "paused" THEN "paused" ELSE job.status
       IN  job' = IF r = "ok" /\ ValidJobTransition(job.status, newStatus)
                  THEN [status |-> newStatus, step |-> s] ELSE job

EventError(s, st, r) ==
    CASE r # "ok" -> "db_error"
      [] r = "ok" /\ s = "cli_analyze" /\ st = "success" /\ analysis = "parallel" -> "graph_changed"
      [] OTHER -> "nil"

\* WithCheckpointRecovery returns the stored output instead of running the step.
Cached(s) == ~StateMachineEnabled /\ s \in checkpointed

PickBatch ==
    /\ Engine!PickBatch
    /\ UNCHANGED <<durable, locals, counters, history>>

\* The resumed step is started without an event.
Launch(s, r) ==
    /\ IF s = resumed
       THEN /\ r = "ok"
            /\ Engine!Launch(s, "nil")
            /\ UNCHANGED <<job, checkpointed, reviews, announced, pausedCp, faults>>
       ELSE /\ Engine!Launch(s, EventError(s, "running", r))
            /\ OnEvent(s, "running", r)
    /\ UNCHANGED <<analysis, delivered, locals, crashes, stalls, requests, cooldowns, findings, history>>

\* What the step itself may return.
Outcomes(s) ==
    CASE s = "merge"        -> {"nil", "paused", "error"}
      [] s = "cli_mr"       -> {"waiting_approval", "error"}
      [] s = "cross_review" -> {"nil", "error", "cooldown"}
                               \cup (IF reviews < MaxCycles THEN {"fix_loop"} ELSE {})
                               \cup (IF reviews > 0 THEN {"paused"} ELSE {})
      [] OTHER              -> {"nil", "paused", "error", "cooldown"}

CachedReturns(s) ==
    /\ Cached(s)
    /\ Engine!StepReturns(s, "nil")
    /\ UNCHANGED <<durable, locals, counters, history>>

\* The step itself is run; on a step whose success is on record only because
\* the lookup of its checkpoint was refused.
StepWorks(s, err) ==
    /\ Cached(s) => faults < MaxFaults
    /\ faults' = IF Cached(s) THEN faults + 1 ELSE faults
    /\ err \in Outcomes(s)
    /\ Engine!StepReturns(s, err)
    /\ err = "cooldown" => cooldowns < MaxCooldowns
    /\ err = "fix_loop" => findings < MaxFindings
    /\ cooldowns' = IF err = "cooldown" THEN cooldowns + 1 ELSE cooldowns
    /\ findings' = IF err = "fix_loop" THEN findings + 1 ELSE findings
    /\ analysis' \in IF s = "cli_analyze" /\ err = "nil" THEN {"single", "parallel"}
                     ELSE {analysis}
    /\ delivered' = (delivered \/ err = "waiting_approval")
    /\ produced' = IF err = "nil" THEN produced \cup {s} ELSE produced
    /\ UNCHANGED <<job, checkpointed, reviews, announced, pausedCp, locals, crashes,
                   stalls, requests, sighted>>

OrphanReturns(s) ==
    /\ Engine!OrphanReturns(s)
    /\ UNCHANGED <<durable, locals, counters, history>>

\* The engine ignores what the callback returns for a failed step.
DrainFailure(item, r) ==
    /\ Engine!DrainFailure(item)
    /\ OnEvent(item.id, Engine!StatusOfError(item.err), r)
    /\ UNCHANGED <<analysis, delivered, locals, crashes, stalls, requests, cooldowns, findings, history>>

DrainSuccess(item, r) ==
    /\ Engine!DrainSuccess(item, EventError(item.id, "success", r))
    /\ OnEvent(item.id, "success", r)
    /\ UNCHANGED <<analysis, delivered, locals, crashes, stalls, requests, cooldowns, findings, history>>

EndBatch ==
    /\ Engine!EndBatch
    /\ UNCHANGED <<durable, locals, counters, history>>

-----------------------------------------------------------------------------
(***************************************************************************)
(* What run does with the engine's error.                                   *)
(***************************************************************************)
Returned(errs) == wpc = "engine" /\ pc = "returned" /\ retErr \in errs

FixLoopRequeue ==
    /\ Returned({"fix_loop"})
    /\ WriteJob([status |-> "queued", step |-> "cli_implement"])
    /\ LeaveRun
    /\ UNCHANGED <<checkpointed, reviews, announced, pausedCp, analysis, delivered,
                   crashes, stalls, requests, cooldowns, findings>>

GraphChangedRequeue ==
    /\ Returned({"graph_changed"})
    /\ WriteJob([job EXCEPT !.status = "queued"])
    /\ LeaveRun
    /\ UNCHANGED <<checkpointed, reviews, announced, pausedCp, analysis, delivered,
                   crashes, stalls, requests, cooldowns, findings>>

\* "sleeping" is in no row of ValidWorkflowJobTransitions, so UpdateJob refuses
\* the write and run leaves the job as it is.
Cooldown ==
    /\ Returned({"cooldown"})
    /\ LeaveRun
    /\ UNCHANGED <<durable, counters>>

Pause ==
    /\ Returned(Engine!PauseErrors)
    /\ WriteJob([job EXCEPT !.status = "paused"])
    /\ LeaveRun
    /\ UNCHANGED <<checkpointed, reviews, announced, pausedCp, analysis, delivered,
                   crashes, stalls, requests, cooldowns, findings>>

NextAttempt ==
    /\ Returned({"error", "db_error"})
    /\ attempt < MaxRetries
    /\ attempt' = attempt + 1
    /\ wpc' = "attempt"
    /\ UNCHANGED <<durable, claimedStep, resumed, engine, counters, history>>

\* Mutant: run returns without failing the job.
GiveUpSilently ==
    /\ Returned({"error", "db_error"})
    /\ attempt = MaxRetries
    /\ LeaveRun
    /\ UNCHANGED <<durable, counters>>

GiveUp ==
    /\ Returned({"error", "db_error"})
    /\ attempt = MaxRetries
    /\ WriteJob([job EXCEPT !.status = "failed"])
    /\ LeaveRun
    /\ UNCHANGED <<checkpointed, reviews, announced, pausedCp, analysis, delivered,
                   crashes, stalls, requests, cooldowns, findings>>

\* The process dies and restarts: everything but the database is gone.
Crash ==
    /\ wpc # "off" /\ crashes < MaxCrashes
    /\ crashes' = crashes + 1
    /\ wpc' = "off" /\ claimedStep' = "" /\ resumed' = "" /\ attempt' = 0
    /\ DropEngine([s \in CLISteps |-> 0])
    /\ sighted' = FALSE
    /\ UNCHANGED <<durable, faults, stalls, requests, cooldowns, findings, produced>>

\* ResetStuckJobs: a row that has been running without an update for ten
\* minutes, because no worker is left or because a step takes that long.
ResetStuck ==
    /\ job.status = "running" /\ wpc = "off"
    /\ job' = [job EXCEPT !.status = "queued"]
    /\ UNCHANGED <<checkpointed, reviews, announced, pausedCp, analysis, delivered, locals,
                   engine, counters, history>>

ResetWhileWorking ==
    /\ job.status = "running" /\ live # {} /\ stalls < MaxStalls
    /\ stalls' = stalls + 1
    /\ job' = [job EXCEPT !.status = "queued"]
    /\ UNCHANGED <<checkpointed, reviews, announced, pausedCp, analysis, delivered, locals,
                   engine, crashes, faults, requests, cooldowns, findings, history>>

-----------------------------------------------------------------------------
HandleReturn == FixLoopRequeue \/ GraphChangedRequeue \/ Cooldown \/ Pause \/ NextAttempt \/ GiveUp

EngineWork ==
    \/ PickBatch
    \/ \E s \in toLaunch, r \in EventResults : Launch(s, r)
    \/ \E s \in live : CachedReturns(s)
    \/ \E s \in live, err \in Engine!StepErrors \cup {"nil"} : StepWorks(s, err)
    \/ \E item \in ch, r \in EventResults : DrainFailure(item, r)
    \/ \E item \in ch, r \in EventResults : DrainSuccess(item, r)
    \/ EndBatch

WorkerStep ==
    \/ Claim
    \/ \E listed \in BOOLEAN : Prologue(listed)
    \/ PrologueFails
    \/ \E listed \in BOOLEAN : StartAttempt(listed)
    \/ EngineWork
    \/ HandleReturn

RunNext ==
    \/ Execute \/ Retry \/ MergeApproved
    \/ WorkerStep
    \/ \E s \in CLISteps : OrphanReturns(s)
    \/ Crash \/ ResetStuck \/ ResetWhileWorking

\* The worker loop polls on a ticker, agents are killed at their timeout, and
\* ResetStuckJobs runs on every idle tick.
RunFairness ==
    /\ WF_runVars(WorkerStep)
    /\ WF_runVars(ResetStuck)
    /\ WF_runVars(\E s \in CLISteps : OrphanReturns(s))

RunSpec == RunInit /\ [][RunNext]_runVars /\ RunFairness

-----------------------------------------------------------------------------
\* The state is well typed: no row holds a status outside the table, a run makes
\* at most MaxRetries attempts, and no success checkpoint comes without a running one.
RunTypeOK ==
    /\ job \in [status : (JobStatus \ {"sleeping"}) \cup {"none"},
                step   : CLISteps \cup {"", "analyze", "assign", "done"}]
    /\ checkpointed \subseteq announced /\ announced \subseteq CLISteps
    /\ reviews \in 0..MaxCycles
    /\ {pausedCp, resumed} \subseteq CLISteps \cup {""}
    /\ analysis \in {"none", "single", "parallel"}
    /\ delivered \in BOOLEAN
    /\ wpc \in {"off", "claimed", "attempt", "engine"}
    /\ claimedStep \in CLISteps \cup {"", "analyze", "assign"}
    /\ attempt \in 0..MaxRetries
    /\ Engine!EngineTypeOK
    /\ produced \subseteq CLISteps /\ sighted \in BOOLEAN

\* Across crashes, retries, resumed jobs and refused reads a step is started only
\* on top of what other agents have really produced: a checkpoint never stands for
\* work that was not done (OnEvent, the checkpoint loading of run).
InputsDelivered == \A s \in live : def.dependsOn[s] \subseteq produced

\* A run that has read the checkpoints, if only in one of its attempts, starts no
\* step whose success is on record, except the implement and review steps of a run
\* that was claimed at cli_implement.  A run whose reads are all refused starts
\* from nothing.
NoRepeatedWork ==
    sighted => \A s \in live \cap checkpointed :
                  claimedStep = "cli_implement" /\ s \in FixLoopSteps

\* A queued or running job comes to rest: paused for a human, failed or done.
RunSettles == job.status \in {"queued", "running"} ~> job.status \in {"paused", "failed", "done"}

================================================================================
