--------------------------- MODULE WorkflowRunProofs ---------------------------
(***************************************************************************)
(* What run promises across attempts, crashes, refused database calls and    *)
(* resumed jobs, for every configuration and every value of the bounds: a    *)
(* step is started only on top of work that was really done, and a run that  *)
(* has read its checkpoints does not start again what they record.           *)
(***************************************************************************)
EXTENDS WorkflowRun, SequenceTheorems, TLAPS

\* A row of the job table as the orchestrator writes it; MergeApproved alone
\* writes the step "done".
RowOK(row) ==
    /\ row \in [status : (JobStatus \ {"sleeping"}) \cup {"none"},
                step   : CLISteps \cup {"", "analyze", "assign", "done"}]
    /\ row.step = "done" => row.status = "done"

\* What the database and the history hold.
RecordsOK ==
    /\ RowOK(job)
    /\ checkpointed \subseteq announced /\ announced \subseteq CLISteps
    /\ reviews \in 0..MaxCycles
    /\ pausedCp \in CLISteps \cup {""}
    /\ analysis \in {"none", "single", "parallel"}
    /\ delivered \in BOOLEAN
    /\ produced \subseteq CLISteps /\ sighted \in BOOLEAN

\* The locals of run.
LocalsOK ==
    /\ resumed \in CLISteps \cup {""}
    /\ wpc \in {"off", "claimed", "attempt", "engine"}
    /\ claimedStep \in CLISteps \cup {"", "analyze", "assign"}
    /\ attempt \in 0..MaxRetries

\* The engine is at work only inside an attempt, and between two calls nothing
\* of a batch is left over.
EngineAtRest ==
    /\ wpc # "engine" => pc \in {"idle", "returned"}
    /\ pc \in {"idle", "returned"} => toLaunch = {} /\ live = {} /\ ch = {}

\* A step of the batch is pending until it is launched and running until its one
\* result is drained.
BatchMarked ==
    /\ \A s \in toLaunch : s \in def.steps /\ status[s] = "pending"
    /\ \A s \in live : s \in def.steps /\ status[s] = "running"
    /\ \A i \in ch : i.id \in def.steps /\ status[i.id] = "running" /\ i.id \notin live
    /\ \A i, j \in ch : i.id = j.id => i = j

\* Whatever says that a step has succeeded - a checkpoint, CompletedSteps, a
\* status, a result under way - says so of a step whose own work has succeeded.
WorkDone ==
    /\ checkpointed \cup completed \subseteq produced
    /\ \A s \in CLISteps : status[s] # "skipped" /\ (status[s] = "success" => s \in produced)
    /\ \A i \in ch : i.err = "nil" => i.id \in produced
    /\ \A s \in toLaunch \cup live : def.dependsOn[s] \subseteq produced

\* A run that has read the record once carries it along: in CompletedSteps while
\* it lasts, and in the statuses while a call is going on.
Excused(s) == claimedStep = "cli_implement" /\ s \in FixLoopSteps

RecordKnown ==
    /\ pc \in {"loop", "launch", "wait"} => \A s \in def.steps \cap completed : status[s] = "success"
    /\ sighted => wpc \in {"attempt", "engine"}
    /\ sighted => \A s \in checkpointed \ completed : Excused(s)

RunInv ==
    /\ RecordsOK
    /\ LocalsOK
    /\ Engine!EngineTypeOK
    /\ EngineAtRest
    /\ BatchMarked
    /\ WorkDone
    /\ RecordKnown

-----------------------------------------------------------------------------
(***************************************************************************)
(* The pipelines.                                                           *)
(***************************************************************************)
\* The stages of a pipeline draw on CLISteps, so do its steps and dependencies.
LEMMA StagedType ==
    ASSUME NEW q \in Seq(SUBSET CLISteps)
    PROVE  /\ Staged(q).steps \subseteq CLISteps
           /\ Staged(q).dependsOn \in [CLISteps -> SUBSET CLISteps]
<1> DEFINE stageOf(s) == {i \in 1..Len(q) : s \in q[i]}
<1>1. \A i \in 1..Len(q) : q[i] \subseteq CLISteps
    OBVIOUS
<1>2. \A s \in CLISteps : UNION {q[i - 1] : i \in stageOf(s) \ {1}} \subseteq CLISteps
  <2> TAKE s \in CLISteps
  <2>1. \A i \in stageOf(s) \ {1} : q[i - 1] \subseteq CLISteps
    <3> TAKE i \in stageOf(s) \ {1}
    <3>1. i - 1 \in 1..Len(q)
        BY LenProperties
    <3> QED  BY <1>1, <3>1
  <2> HIDE DEF stageOf
  <2> QED  BY <2>1
<1>3. UNION {q[i] : i \in 1..Len(q)} \subseteq CLISteps
    BY <1>1
<1>4. Staged(q).steps = UNION {q[i] : i \in 1..Len(q)}
    BY DEF Staged
<1>5. Staged(q).dependsOn = [s \in CLISteps |-> UNION {q[i - 1] : i \in stageOf(s) \ {1}}]
    BY DEF Staged
<1> QED  BY <1>2, <1>3, <1>4, <1>5

\* Both pipelines of workflow/step.go have their steps and dependencies in CLISteps.
LEMMA PipelineTypes ==
    \A d \in {CLISpecFirstWorkflow, CLISpecFirstParallelWorkflow} :
        /\ d.steps \subseteq CLISteps
        /\ d.dependsOn \in [CLISteps -> SUBSET CLISteps]
<1>1. {{"cli_analyze"}, {"cli_spec"}, {"cli_implement"}, {"cross_review"}, {"cli_mr"}, {"merge"},
       {"cli_implement_backend", "cli_implement_frontend"}} \subseteq SUBSET CLISteps
    BY DEF CLISteps, ImplementSteps
<1>2. ReviewStage \in Seq(SUBSET CLISteps)
  <2>1. <<{"cross_review"}>> \in Seq(SUBSET CLISteps)
      BY <1>1
  <2>2. <<>> \in Seq(SUBSET CLISteps)
      OBVIOUS
  <2> QED  BY <2>1, <2>2 DEF ReviewStage
<1>3. <<{"cli_analyze"}, {"cli_spec"}, {"cli_implement"}>> \in Seq(SUBSET CLISteps)
    BY <1>1
<1>4. <<{"cli_analyze"}, {"cli_spec"}, {"cli_implement_backend", "cli_implement_frontend"},
        {"merge"}>> \in Seq(SUBSET CLISteps)
    BY <1>1
<1>5. <<{"cli_mr"}>> \in Seq(SUBSET CLISteps)
    BY <1>1
<1>6. CLISpecFirstWorkflow.steps \subseteq CLISteps
      /\ CLISpecFirstWorkflow.dependsOn \in [CLISteps -> SUBSET CLISteps]
  <2> DEFINE q == <<{"cli_analyze"}, {"cli_spec"}, {"cli_implement"}>> \o ReviewStage \o <<{"cli_mr"}>>
  <2>1. q \in Seq(SUBSET CLISteps)
      BY <1>2, <1>3, <1>5, ConcatProperties
  <2>2. CLISpecFirstWorkflow = Staged(q)
      BY DEF CLISpecFirstWorkflow
  <2> HIDE DEF q
  <2> QED  BY <2>1, <2>2, StagedType
<1>7. CLISpecFirstParallelWorkflow.steps \subseteq CLISteps
      /\ CLISpecFirstParallelWorkflow.dependsOn \in [CLISteps -> SUBSET CLISteps]
  <2> DEFINE q == <<{"cli_analyze"}, {"cli_spec"},
                    {"cli_implement_backend", "cli_implement_frontend"}, {"merge"}>>
                  \o ReviewStage \o <<{"cli_mr"}>>
  <2>1. q \in Seq(SUBSET CLISteps)
      BY <1>2, <1>4, <1>5, ConcatProperties
  <2>2. CLISpecFirstParallelWorkflow = Staged(q)
      BY DEF CLISpecFirstParallelWorkflow
  <2> HIDE DEF q
  <2> QED  BY <2>1, <2>2, StagedType
<1> QED  BY <1>6, <1>7
-----------------------------------------------------------------------------
(***************************************************************************)
(* What several actions have in common.                                     *)
(***************************************************************************)
\* Both limits are at least one.
LEMMA Limits == /\ MaxRetries \in Nat /\ MaxRetries >= 1
                /\ MaxCycles \in Nat /\ MaxCycles >= 1
<1>1. MaxRetries \in Nat \ {0} /\ MaxCycles \in Nat \ {0}
    BY RunAssumption DEF RunAssumption
<1> QED  BY <1>1

\* A step that touches only the job row, and leaves a sound one.
LEMMA RowStep ==
    ASSUME RunInv, RowOK(job'),
           UNCHANGED <<checkpointed, reviews, announced, pausedCp, analysis, delivered>>,
           UNCHANGED <<locals, engine, history>>
    PROVE  RunInv'
<1> USE DEF RunInv, locals, engine, history
<1>1. RecordsOK'
    BY DEF RecordsOK
<1>2. LocalsOK'
    BY DEF LocalsOK
<1>3. Engine!EngineTypeOK'
    BY DEF Engine!EngineTypeOK
<1>4. EngineAtRest'
    BY DEF EngineAtRest
<1>5. BatchMarked'
    BY DEF BatchMarked
<1>6. WorkDone'
    BY DEF WorkDone
<1>7. RecordKnown'
    BY DEF RecordKnown, Excused
<1> QED  BY <1>1, <1>2, <1>3, <1>4, <1>5, <1>6, <1>7

\* Run returns, or its process dies: nothing is left that could claim success.
RunIsOver ==
    /\ wpc' = "off" /\ claimedStep' = "" /\ resumed' = "" /\ attempt' = 0 /\ sighted' = FALSE
    /\ \E left \in [CLISteps -> Nat] : DropEngine(left)

LEMMA LeaveStep ==
    ASSUME RunInv, RowOK(job'), RunIsOver,
           UNCHANGED <<checkpointed, reviews, announced, pausedCp, analysis, delivered, produced>>
    PROVE  RunInv'
<1>0. 0 \in 0..MaxRetries
    BY Limits
<1> USE DEF RunInv, RunIsOver, DropEngine
<1>1. RecordsOK'
    BY DEF RecordsOK
<1>2. LocalsOK'
    BY <1>0 DEF LocalsOK
<1>3. Engine!EngineTypeOK'
    BY DEF Engine!EngineTypeOK, Engine!StepStatus, Engine!StepErrors, Engine!RunResults
<1>4. EngineAtRest'
    BY DEF EngineAtRest
<1>5. BatchMarked'
    BY DEF BatchMarked
<1>6. WorkDone'
    BY DEF WorkDone, RecordsOK
<1>7. RecordKnown'
    BY DEF RecordKnown
<1> QED  BY <1>1, <1>2, <1>3, <1>4, <1>5, <1>6, <1>7

\* OnEvent writes a sound row, and a success checkpoint for the step it is
\* called with and for no other.
LEMMA EventStep ==
    ASSUME RecordsOK, NEW s \in CLISteps, NEW r \in EventResults,
           NEW st \in {"running", "success", "failed", "paused", "waiting_approval"},
           OnEvent(s, st, r),
           UNCHANGED <<analysis, delivered, produced, sighted>>
    PROVE  /\ RecordsOK'
           /\ checkpointed' \subseteq checkpointed \cup (IF st = "success" THEN {s} ELSE {})
<1>1. RowOK(job')
  <2>1. CASE job' = job
      BY <2>1 DEF RecordsOK
  <2>2. CASE job' = [status |-> IF st = "paused" THEN "paused" ELSE job.status, step |-> s]
    <3>1. s # "done"
        BY DEF CLISteps, ImplementSteps
    <3> QED  BY <2>2, <3>1 DEF RecordsOK, RowOK, JobStatus
  <2> QED  BY <2>1, <2>2 DEF OnEvent
<1>2. checkpointed' \subseteq checkpointed \cup (IF st = "success" THEN {s} ELSE {})
    BY DEF OnEvent
<1>3. checkpointed' \subseteq announced' /\ announced' \subseteq CLISteps
    BY DEF OnEvent, RecordsOK
<1>4. reviews' \in 0..MaxCycles
  <2>1. reviews \in 0..MaxCycles
      BY DEF RecordsOK
  <2>2. reviews' = reviews \/ (reviews < MaxCycles /\ reviews' = reviews + 1)
      BY DEF OnEvent
  <2> QED  BY <2>1, <2>2, Limits
<1>5. pausedCp' \in CLISteps \cup {""}
    BY DEF OnEvent, RecordsOK
<1> QED  BY <1>1, <1>2, <1>3, <1>4, <1>5 DEF RecordsOK

\* A call that returns leaves nothing of its batch behind.
LEMMA ReturnTypes ==
    ASSUME Engine!EngineTypeOK, NEW err \in Engine!RunResults, Engine!Return(err)
    PROVE  /\ pc' = "returned" /\ toLaunch' = {} /\ live' = {} /\ ch' = {}
           /\ errToReturn' \in Engine!StepErrors \cup {"nil"}
           /\ retErr' \in Engine!RunResults
           /\ orphans' \in [CLISteps -> Nat]
<1>1. orphans' = [s \in CLISteps |-> orphans[s] + IF s \in live THEN 1 ELSE 0]
    BY DEF Engine!Return
<1>2. \A s \in CLISteps : orphans[s] \in Nat
    BY DEF Engine!EngineTypeOK
<1>3. \A s \in CLISteps : orphans[s] + (IF s \in live THEN 1 ELSE 0) \in Nat
    BY <1>2
<1>4. orphans' \in [CLISteps -> Nat]
    BY <1>1, <1>3
<1> QED  BY <1>4 DEF Engine!Return

-----------------------------------------------------------------------------
(***************************************************************************)
(* Requests, the queue, and the returns of run.                             *)
(***************************************************************************)
\* Nothing but "done" leads on from a row that is done.
LEMMA DoneIsFinal ==
    ASSUME NEW st \in {"failed", "paused", "queued"}
    PROVE  ~ValidJobTransition("done", st)
BY DEF ValidJobTransition, ValidWorkflowJobTransitions

\* A write that the transition table may refuse leaves a sound row.
LEMMA RowWritten ==
    ASSUME RecordsOK, NEW st \in {"failed", "paused", "queued"},
           WriteJob([job EXCEPT !.status = st])
    PROVE  RowOK(job')
<1>1. RowOK(job)
    BY DEF RecordsOK
<1>2. job' = job \/ (job' = [job EXCEPT !.status = st] /\ ValidJobTransition(job.status, st))
  <2> DEFINE row == [job EXCEPT !.status = st]
  <2>1. row.status = st
      BY <1>1 DEF RowOK
  <2> HIDE DEF row
  <2>2. job' = job \/ (job' = row /\ ValidJobTransition(job.status, st))
      BY <2>1 DEF WriteJob, row
  <2> QED  BY <2>2 DEF row
<1>3. CASE job' = [job EXCEPT !.status = st] /\ ValidJobTransition(job.status, st)
  <2>1. job.status # "done"
      BY <1>3, DoneIsFinal
  <2> QED  BY <1>1, <1>3, <2>1 DEF RowOK, JobStatus
<1> QED  BY <1>1, <1>2, <1>3

\* A user, the sync worker or the queue's ticker touches the row only.
LEMMA RequestKeeps ==
    ASSUME RunInv, Execute \/ Retry \/ MergeApproved \/ ResetStuck \/ ResetWhileWorking
    PROVE  RunInv'
<1>1. RecordsOK
    BY DEF RunInv
<1>2. RowOK(job')
  <2>1. CASE Execute
      BY <1>1, <2>1 DEF Execute, RecordsOK, RowOK, JobStatus
  <2>2. CASE Retry
      BY <1>1, <2>2 DEF Retry, RecordsOK, RowOK, JobStatus
  <2>3. CASE MergeApproved
      BY <1>1, <2>3 DEF MergeApproved, RecordsOK, RowOK, JobStatus
  <2>4. CASE ResetStuck
      BY <1>1, <2>4 DEF ResetStuck, RecordsOK, RowOK, JobStatus
  <2>5. CASE ResetWhileWorking
      BY <1>1, <2>5 DEF ResetWhileWorking, RecordsOK, RowOK, JobStatus
  <2> QED  BY <2>1, <2>2, <2>3, <2>4, <2>5
<1>3. /\ UNCHANGED <<checkpointed, reviews, announced, pausedCp, analysis, delivered>>
      /\ UNCHANGED <<locals, engine, history>>
    BY DEF Execute, Retry, MergeApproved, ResetStuck, ResetWhileWorking
<1> QED  BY <1>2, <1>3, RowStep

\* The end of a run, however it ends, and the death of its process.
LEMMA ReturnKeeps ==
    ASSUME RunInv, PrologueFails \/ FixLoopRequeue \/ GraphChangedRequeue \/ Cooldown \/ Pause
                   \/ GiveUp \/ Crash
    PROVE  RunInv'
<1>1. RecordsOK
    BY DEF RunInv
<1>2. RowOK(job')
  <2>1. CASE PrologueFails
      BY <1>1, <2>1, RowWritten DEF PrologueFails
  <2>2. CASE FixLoopRequeue
    <3>1. job' = job \/ job' = [status |-> "queued", step |-> "cli_implement"]
        BY <2>2 DEF FixLoopRequeue, WriteJob
    <3>2. RowOK([status |-> "queued", step |-> "cli_implement"])
        BY DEF RowOK, JobStatus, CLISteps, ImplementSteps
    <3> QED  BY <1>1, <3>1, <3>2 DEF RecordsOK
  <2>3. CASE GraphChangedRequeue
      BY <1>1, <2>3, RowWritten DEF GraphChangedRequeue
  <2>4. CASE Cooldown
      BY <1>1, <2>4 DEF Cooldown, durable, RecordsOK
  <2>5. CASE Pause
      BY <1>1, <2>5, RowWritten DEF Pause
  <2>6. CASE GiveUp
      BY <1>1, <2>6, RowWritten DEF GiveUp
  <2>7. CASE Crash
      BY <1>1, <2>7 DEF Crash, durable, RecordsOK
  <2> QED  BY <2>1, <2>2, <2>3, <2>4, <2>5, <2>6, <2>7
<1>3. UNCHANGED <<checkpointed, reviews, announced, pausedCp, analysis, delivered, produced>>
    BY DEF PrologueFails, FixLoopRequeue, GraphChangedRequeue, Cooldown, Pause, GiveUp, Crash,
           LeaveRun, durable
<1>4. RunIsOver
  <2>1. CASE Crash
    <3>1. [s \in CLISteps |-> 0] \in [CLISteps -> Nat]
        OBVIOUS
    <3> QED  BY <2>1, <3>1 DEF Crash, RunIsOver
  <2>2. CASE LeaveRun
    <3>1. orphans \in [CLISteps -> Nat]
        BY DEF RunInv, Engine!EngineTypeOK
    <3> QED  BY <2>2, <3>1 DEF LeaveRun, RunIsOver
  <2> QED  BY <2>1, <2>2 DEF PrologueFails, FixLoopRequeue, GraphChangedRequeue, Cooldown, Pause, GiveUp
<1> QED  BY <1>2, <1>3, <1>4, LeaveStep

\* A claim reads the row it will work from.
LEMMA ClaimKeeps == ASSUME RunInv, Claim PROVE RunInv'
<1> USE DEF RunInv, Claim, engine, history
<1>1. RecordsOK'
    BY DEF RecordsOK, RowOK, JobStatus
<1>2. LocalsOK'
    BY DEF LocalsOK, RecordsOK, RowOK
<1>3. Engine!EngineTypeOK'
    BY DEF Engine!EngineTypeOK
<1>4. EngineAtRest'
    BY DEF EngineAtRest
<1>5. BatchMarked'
    BY DEF BatchMarked
<1>6. WorkDone'
    BY DEF WorkDone
<1>7. RecordKnown'
    BY DEF RecordKnown, RecordsOK
<1> QED  BY <1>1, <1>2, <1>3, <1>4, <1>5, <1>6, <1>7

\* What is loaded from the checkpoints is all of them but the excused ones.
LEMMA LoadedRecord ==
    /\ LoadCompleted \subseteq checkpointed
    /\ \A s \in checkpointed \ LoadCompleted : Excused(s)
BY DEF LoadCompleted, Excused

\* The pipeline is chosen while the engine is at rest.
LEMMA PrologueKeeps == ASSUME RunInv, NEW listed \in BOOLEAN, Prologue(listed) PROVE RunInv'
<1>0. 1 \in 0..MaxRetries
    BY Limits
<1> USE DEF RunInv, Prologue
<1>1. RecordsOK'
    BY DEF RecordsOK, RowOK, JobStatus
<1>2. LocalsOK'
    BY <1>0 DEF LocalsOK, RecordsOK
<1>3. Engine!EngineTypeOK'
  <2>1. completed' \subseteq CLISteps
      BY LoadedRecord DEF RecordsOK
  <2> QED  BY <2>1 DEF Engine!EngineTypeOK
<1>4. pc \in {"idle", "returned"} /\ toLaunch = {} /\ live = {} /\ ch = {}
    BY DEF EngineAtRest
<1>5. EngineAtRest'
    BY <1>4 DEF EngineAtRest
<1>6. BatchMarked'
    BY <1>4 DEF BatchMarked
<1>7. WorkDone'
  <2>1. completed' \subseteq checkpointed
      BY LoadedRecord
  <2> QED  BY <1>4, <2>1 DEF WorkDone
<1>8. RecordKnown'
  <2>1. sighted' => completed' = LoadCompleted
      OBVIOUS
  <2>2. sighted' => \A s \in checkpointed' \ completed' : Excused(s)'
      BY <2>1, LoadedRecord DEF Excused
  <2> QED  BY <1>4, <2>2 DEF RecordKnown
<1> QED  BY <1>1, <1>2, <1>3, <1>5, <1>6, <1>7, <1>8

\* A failed attempt leaves CompletedSteps to the next one.
LEMMA NextAttemptKeeps == ASSUME RunInv, NextAttempt PROVE RunInv'
<1>0. attempt' \in 0..MaxRetries
  <2>1. attempt \in 0..MaxRetries
      BY DEF RunInv, LocalsOK
  <2>2. attempt < MaxRetries /\ attempt' = attempt + 1
      BY DEF NextAttempt
  <2> QED  BY <2>1, <2>2, Limits
<1> USE DEF RunInv, NextAttempt, Returned, durable, engine, history
<1>1. RecordsOK'
    BY DEF RecordsOK
<1>2. LocalsOK'
    BY <1>0 DEF LocalsOK
<1>3. Engine!EngineTypeOK'
    BY DEF Engine!EngineTypeOK
<1>4. EngineAtRest'
    BY DEF EngineAtRest
<1>5. BatchMarked'
    BY DEF BatchMarked
<1>6. WorkDone'
    BY DEF WorkDone
<1>7. RecordKnown'
    BY DEF RecordKnown, Excused
<1> QED  BY <1>1, <1>2, <1>3, <1>4, <1>5, <1>6, <1>7

-----------------------------------------------------------------------------
(***************************************************************************)
(* The engine's steps.                                                      *)
(***************************************************************************)
\* The engine's own variables but pc, which EngineAtRest ties to run.
LEMMA RestKept ==
    ASSUME EngineAtRest, wpc' = wpc, wpc = "engine",
           pc' \in {"idle", "returned"} => toLaunch' = {} /\ live' = {} /\ ch' = {}
    PROVE  EngineAtRest'
BY DEF EngineAtRest

\* A dependency belongs to the pipelines' steps.
LEMMA Dependencies ==
    ASSUME Engine!EngineTypeOK
    PROVE  /\ def.steps \subseteq CLISteps
           /\ \A s \in CLISteps : def.dependsOn[s] \subseteq CLISteps
BY PipelineTypes DEF Engine!EngineTypeOK

\* The attempt starts from the record, or from what the attempt before it knew.
LEMMA StartKeeps == ASSUME RunInv, NEW listed \in BOOLEAN, StartAttempt(listed) PROVE RunInv'
<1> DEFINE seed == IF listed THEN LoadCompleted ELSE completed
<1>0. /\ Engine!StartRun(def, resumed, seed)
      /\ wpc = "attempt" /\ wpc' = "engine"
      /\ UNCHANGED <<durable, claimedStep, resumed, attempt, produced>>
      /\ sighted' = (sighted \/ listed)
    BY DEF StartAttempt
<1>1. seed \subseteq CLISteps /\ seed \subseteq produced
    BY LoadedRecord DEF RunInv, RecordsOK, WorkDone, Engine!EngineTypeOK
<1>2. sighted' => \A s \in checkpointed \ seed : Excused(s)
    BY <1>0, LoadedRecord DEF RunInv, RecordKnown
<1>3. pc \in {"idle", "returned"} /\ toLaunch = {} /\ live = {} /\ ch = {}
    BY <1>0 DEF RunInv, EngineAtRest
<1> HIDE DEF seed
<1>4. /\ def' = def /\ pausedStep' = resumed /\ completed' = seed
      /\ toLaunch' = {} /\ live' = {} /\ ch' = {}
      /\ \/ /\ pc' = "loop"
            /\ status' = [s \in CLISteps |-> IF s \in def.steps \cap seed THEN "success" ELSE "pending"]
            /\ outputs' = def.steps \cap seed
            /\ UNCHANGED <<errToReturn, retErr, orphans>>
         \/ /\ pc' = "returned" /\ Engine!Return("invalid")
            /\ status' = [s \in CLISteps |-> "pending"]
            /\ outputs' = {}
    BY <1>0, <1>3 DEF Engine!StartRun, Engine!Return
<1>5. RecordsOK'
    BY <1>0 DEF durable, RunInv, RecordsOK
<1>6. LocalsOK'
    BY <1>0 DEF RunInv, LocalsOK
<1>7. Engine!EngineTypeOK'
  <2>1. Engine!EngineTypeOK
      BY DEF RunInv
  <2>2. /\ errToReturn' \in Engine!StepErrors \cup {"nil"}
        /\ retErr' \in Engine!RunResults
        /\ orphans' \in [CLISteps -> Nat]
    <3>1. "invalid" \in Engine!RunResults
        BY DEF Engine!RunResults
    <3>2. CASE Engine!Return("invalid")
        BY <2>1, <3>1, <3>2, ReturnTypes
    <3>3. CASE UNCHANGED <<errToReturn, retErr, orphans>>
        BY <2>1, <3>3 DEF Engine!EngineTypeOK
    <3> QED  BY <1>4, <3>2, <3>3
  <2>3. status' \in [CLISteps -> Engine!StepStatus]
      BY <1>4 DEF Engine!StepStatus
  <2>4. outputs' \subseteq CLISteps
      BY <1>1, <1>4
  <2>5. resumed \in CLISteps \cup {""}
      BY DEF RunInv, LocalsOK
  <2> QED  BY <1>1, <1>4, <2>1, <2>2, <2>3, <2>4, <2>5 DEF Engine!EngineTypeOK
<1>8. EngineAtRest'
    BY <1>0, <1>4 DEF EngineAtRest
<1>9. BatchMarked'
    BY <1>4 DEF BatchMarked
<1>10. WorkDone'
  <2>1. checkpointed' = checkpointed /\ produced' = produced
      BY <1>0 DEF durable
  <2>2. \A s \in CLISteps : status'[s] # "skipped" /\ (status'[s] = "success" => s \in produced)
      BY <1>1, <1>4
  <2> QED  BY <1>1, <1>4, <2>1, <2>2 DEF RunInv, WorkDone
<1>11. RecordKnown'
  <2>1. Engine!EngineTypeOK
      BY DEF RunInv
  <2>2. pc' \in {"loop", "launch", "wait"} => \A s \in def.steps \cap seed : status'[s] = "success"
      BY <1>4, <2>1, Dependencies
  <2>3. checkpointed' = checkpointed /\ claimedStep' = claimedStep
      BY <1>0 DEF durable
  <2> QED  BY <1>0, <1>2, <1>4, <2>2, <2>3 DEF RecordKnown, Excused
<1> QED  BY <1>5, <1>6, <1>7, <1>8, <1>9, <1>10, <1>11 DEF RunInv

\* A batch is chosen among pending steps whose dependencies have all succeeded.
LEMMA PickKeeps == ASSUME RunInv, PickBatch PROVE RunInv'
<1> USE DEF RunInv, durable, locals, history
<1>0. /\ pc = "loop" /\ pc' = "launch"
      /\ toLaunch' \subseteq Engine!ReadySteps(def, status)
      /\ UNCHANGED <<def, pausedStep, status, outputs, completed, live, ch,
                     errToReturn, retErr, orphans>>
      /\ UNCHANGED <<durable, locals, history>>
    BY DEF PickBatch, Engine!PickBatch, Engine!Batch
<1>1. \A s \in toLaunch' : /\ s \in def.steps /\ status[s] = "pending"
                           /\ \A t \in def.dependsOn[s] : status[t] \in {"success", "skipped"}
    BY <1>0 DEF Engine!ReadySteps, Engine!IsDone
<1>2. def.steps \subseteq CLISteps /\ \A s \in CLISteps : def.dependsOn[s] \subseteq CLISteps
    BY Dependencies
<1>3. RecordsOK' /\ LocalsOK'
    BY <1>0 DEF RecordsOK, LocalsOK
<1>4. Engine!EngineTypeOK'
    BY <1>0, <1>1, <1>2 DEF Engine!EngineTypeOK
<1>5. EngineAtRest'
    BY <1>0 DEF EngineAtRest
<1>6. BatchMarked'
    BY <1>0, <1>1 DEF BatchMarked
<1>7. WorkDone'
  <2>1. \A s \in toLaunch' : def.dependsOn[s] \subseteq produced
      BY <1>1, <1>2 DEF WorkDone
  <2> QED  BY <1>0, <2>1 DEF WorkDone
<1>8. RecordKnown'
    BY <1>0 DEF RecordKnown, Excused
<1> QED  BY <1>3, <1>4, <1>5, <1>6, <1>7, <1>8

\* A pending step of the batch is marked running and given a goroutine, or the
\* call ends because its event was not recorded.
LEMMA LaunchKeeps ==
    ASSUME RunInv, NEW s \in toLaunch, NEW r \in EventResults, Launch(s, r)
    PROVE  RunInv'
<1>1. s \in CLISteps
    BY DEF RunInv, Engine!EngineTypeOK
<1>2. UNCHANGED <<analysis, delivered, locals, history>>
    BY DEF Launch
<1>3. PICK err \in {"nil", "db_error"} : Engine!Launch(s, err)
  <2>1. EventError(s, "running", r) \in {"nil", "db_error"}
      BY DEF EventError
  <2> QED  BY <2>1 DEF Launch
<1>4. RecordsOK' /\ checkpointed' \subseteq checkpointed
  <2>1. CASE s = resumed
      BY <1>2, <2>1 DEF Launch, RunInv, RecordsOK, history
  <2>2. CASE s # resumed
    <3>1. OnEvent(s, "running", r) /\ UNCHANGED <<analysis, delivered, produced, sighted>>
        BY <1>2, <2>2 DEF Launch, history
    <3>2. RecordsOK
        BY DEF RunInv
    <3> QED  BY <1>1, <3>1, <3>2, EventStep
  <2> QED  BY <2>1, <2>2
<1>5. /\ pc = "launch"
      /\ status' = [status EXCEPT ![s] = "running"]
      /\ UNCHANGED <<def, pausedStep, outputs, completed>>
      /\ \/ /\ pc' \in {"launch", "wait"}
            /\ toLaunch' = toLaunch \ {s} /\ live' = live \cup {s}
            /\ UNCHANGED <<ch, errToReturn, retErr, orphans>>
         \/ Engine!Return(err) /\ err = "db_error"
    BY <1>3 DEF Engine!Launch
<1>6. /\ errToReturn' \in Engine!StepErrors \cup {"nil"}
      /\ retErr' \in Engine!RunResults
      /\ orphans' \in [CLISteps -> Nat]
      /\ pc' \in {"launch", "wait", "returned"}
      /\ pc' = "returned" => toLaunch' = {} /\ live' = {} /\ ch' = {}
      /\ toLaunch' \subseteq toLaunch \ {s} /\ live' \subseteq live \cup {s} /\ ch' \subseteq ch
  <2>1. Engine!EngineTypeOK
      BY DEF RunInv
  <2>2. CASE Engine!Return(err) /\ err = "db_error"
    <3>1. err \in Engine!RunResults
        BY <2>2 DEF Engine!RunResults, Engine!Errors, Engine!EmitErrors
    <3> QED  BY <2>1, <2>2, <3>1, ReturnTypes
  <2>3. CASE /\ pc' \in {"launch", "wait"}
             /\ toLaunch' = toLaunch \ {s} /\ live' = live \cup {s}
             /\ UNCHANGED <<ch, errToReturn, retErr, orphans>>
      BY <2>1, <2>3 DEF Engine!EngineTypeOK
  <2> QED  BY <1>5, <2>2, <2>3
<1>7. LocalsOK'
    BY <1>2 DEF RunInv, LocalsOK, locals
<1>8. Engine!EngineTypeOK'
    BY <1>1, <1>5, <1>6 DEF RunInv, Engine!EngineTypeOK, Engine!StepStatus
<1>9. EngineAtRest'
    BY <1>2, <1>5, <1>6 DEF RunInv, EngineAtRest, locals
<1>10. \A t \in CLISteps : t # s => status'[t] = status[t]
    BY <1>1, <1>5 DEF RunInv, Engine!EngineTypeOK
<1>11. status'[s] = "running" /\ status[s] = "pending" /\ s \in def.steps
    BY <1>1, <1>5 DEF RunInv, BatchMarked, Engine!EngineTypeOK
<1>12. \A t \in live : t \in CLISteps /\ t # s
    BY <1>11 DEF RunInv, BatchMarked, Engine!EngineTypeOK
<1>13. \A i \in ch : i.id \in CLISteps /\ i.id # s
    BY <1>11 DEF RunInv, BatchMarked, Engine!EngineTypeOK
<1>14. \A t \in toLaunch : t \in CLISteps
    BY DEF RunInv, Engine!EngineTypeOK
<1>15. BatchMarked'
  <2>1. \A t \in toLaunch' : t \in def'.steps /\ status'[t] = "pending"
      BY <1>5, <1>6, <1>10, <1>14 DEF RunInv, BatchMarked
  <2>2. \A t \in live' : t \in def'.steps /\ status'[t] = "running"
      BY <1>5, <1>6, <1>10, <1>11, <1>12 DEF RunInv, BatchMarked
  <2>3. \A i \in ch' : i.id \in def'.steps /\ status'[i.id] = "running" /\ i.id \notin live'
      BY <1>5, <1>6, <1>10, <1>13 DEF RunInv, BatchMarked
  <2>4. \A i, j \in ch' : i.id = j.id => i = j
      BY <1>6 DEF RunInv, BatchMarked
  <2> QED  BY <2>1, <2>2, <2>3, <2>4 DEF BatchMarked
<1>16. WorkDone'
  <2>1. produced' = produced /\ completed' = completed /\ def' = def
      BY <1>2, <1>5 DEF history
  <2>2. toLaunch' \cup live' \subseteq toLaunch \cup live
      BY <1>6
  <2>3. \A t \in CLISteps : status'[t] # "skipped" /\ (status'[t] = "success" => t \in produced)
      BY <1>10, <1>11 DEF RunInv, WorkDone
  <2> QED  BY <1>4, <1>6, <2>1, <2>2, <2>3 DEF RunInv, WorkDone
<1>17. RecordKnown'
  <2>1. s \notin completed
      BY <1>5, <1>11 DEF RunInv, RecordKnown
  <2>2. def.steps \subseteq CLISteps
      BY Dependencies DEF RunInv
  <2>3. \A t \in def.steps \cap completed : status'[t] = "success"
      BY <1>5, <1>10, <2>1, <2>2 DEF RunInv, RecordKnown
  <2> QED  BY <1>2, <1>4, <1>5, <2>3 DEF RunInv, RecordKnown, Excused, locals, history
<1> QED  BY <1>4, <1>7, <1>8, <1>9, <1>15, <1>16, <1>17 DEF RunInv

\* A goroutine reports: nil only for work that is done.
LEMMA ReportKeeps ==
    ASSUME RunInv, NEW s \in live, NEW err \in Engine!StepErrors \cup {"nil"},
           Engine!StepReturns(s, err), RecordsOK',
           UNCHANGED <<checkpointed, locals, sighted>>,
           produced \subseteq produced', err = "nil" => s \in produced'
    PROVE  RunInv'
<1>1. /\ live' = live \ {s} /\ ch' = ch \cup {[id |-> s, err |-> err]}
      /\ UNCHANGED <<pc, def, pausedStep, status, outputs, completed, toLaunch,
                     errToReturn, retErr, orphans>>
    BY DEF Engine!StepReturns
<1>2. s \in CLISteps
    BY DEF RunInv, Engine!EngineTypeOK
<1>3. LocalsOK'
    BY DEF RunInv, LocalsOK, locals
<1>4. Engine!EngineTypeOK'
  <2>1. [id |-> s, err |-> err] \in [id : CLISteps, err : Engine!StepErrors \cup {"nil"}]
      BY <1>2
  <2>2. ch' \subseteq [id : CLISteps, err : Engine!StepErrors \cup {"nil"}]
      BY <1>1, <2>1 DEF RunInv, Engine!EngineTypeOK
  <2>3. live' \subseteq CLISteps
      BY <1>1 DEF RunInv, Engine!EngineTypeOK
  <2> QED  BY <1>1, <2>2, <2>3 DEF RunInv, Engine!EngineTypeOK
<1>5. EngineAtRest'
    BY <1>1 DEF RunInv, EngineAtRest, locals
<1>6. BatchMarked'
    BY <1>1 DEF RunInv, BatchMarked
<1>7. WorkDone'
    BY <1>1 DEF RunInv, WorkDone
<1>8. RecordKnown'
    BY <1>1 DEF RunInv, RecordKnown, Excused, locals
<1> QED  BY <1>3, <1>4, <1>5, <1>6, <1>7, <1>8 DEF RunInv

\* The stored output of a step is returned only when its success is on record.
LEMMA CachedKeeps == ASSUME RunInv, NEW s \in live, CachedReturns(s) PROVE RunInv'
<1>1. /\ s \in checkpointed
      /\ Engine!StepReturns(s, "nil")
      /\ UNCHANGED <<durable, locals, history>>
    BY DEF CachedReturns, Cached
<1>2. RecordsOK'
    BY <1>1 DEF RunInv, RecordsOK, durable, history
<1>3. s \in produced'
    BY <1>1 DEF RunInv, WorkDone, history
<1>4. UNCHANGED <<checkpointed, locals, sighted>> /\ produced' = produced
    BY <1>1 DEF durable, history
<1> QED  BY <1>1, <1>2, <1>3, <1>4, ReportKeeps

LEMMA WorksKeeps ==
    ASSUME RunInv, NEW s \in live, NEW err \in Engine!StepErrors \cup {"nil"}, StepWorks(s, err)
    PROVE  RunInv'
<1>1. s \in CLISteps
    BY DEF RunInv, Engine!EngineTypeOK
<1>2. /\ Engine!StepReturns(s, err)
      /\ UNCHANGED <<checkpointed, locals, sighted>>
      /\ produced' = IF err = "nil" THEN produced \cup {s} ELSE produced
    BY DEF StepWorks
<1>3. RecordsOK'
  <2>1. analysis' \in {"none", "single", "parallel"}
      BY DEF StepWorks, RunInv, RecordsOK
  <2>2. delivered' \in BOOLEAN
      BY DEF StepWorks, RunInv, RecordsOK
  <2>3. UNCHANGED <<job, checkpointed, reviews, announced, pausedCp, sighted>>
      BY DEF StepWorks
  <2> QED  BY <1>1, <1>2, <2>1, <2>2, <2>3 DEF RunInv, RecordsOK
<1> QED  BY <1>2, <1>3, ReportKeeps

\* What a drained failure is recorded as.
LEMMA FailureStatus ==
    ASSUME NEW err \in Engine!StepErrors
    PROVE  Engine!StatusOfError(err) \in {"failed", "paused", "waiting_approval"}
BY DEF Engine!StatusOfError, Engine!PauseErrors

\* A failed result is drained: its step was running, so nothing on record is undone.
LEMMA FailureKeeps ==
    ASSUME RunInv, NEW item \in ch, NEW r \in EventResults, DrainFailure(item, r)
    PROVE  RunInv'
<1> DEFINE st == Engine!StatusOfError(item.err)
<1>1. item.id \in CLISteps /\ item.err \in Engine!StepErrors \cup {"nil"}
    BY DEF RunInv, Engine!EngineTypeOK
<1>2. /\ pc = "wait" /\ live = {} /\ item.err # "nil"
      /\ ch' = ch \ {item}
      /\ status' = [status EXCEPT ![item.id] = st]
      /\ errToReturn' = item.err
      /\ UNCHANGED <<pc, def, pausedStep, outputs, completed, toLaunch, live, retErr, orphans>>
    BY DEF DrainFailure, Engine!DrainFailure
<1>3. st \in {"failed", "paused", "waiting_approval"}
    BY <1>1, <1>2, FailureStatus
<1>4. OnEvent(item.id, st, r) /\ UNCHANGED <<analysis, delivered, locals, history>>
    BY DEF DrainFailure
<1> HIDE DEF st
<1>5. RecordsOK' /\ checkpointed' \subseteq checkpointed
  <2>1. UNCHANGED <<analysis, delivered, produced, sighted>>
      BY <1>4 DEF history
  <2> QED  BY <1>1, <1>3, <1>4, <2>1, EventStep DEF RunInv
<1>6. LocalsOK'
    BY <1>4 DEF RunInv, LocalsOK, locals
<1>7. \A t \in CLISteps : t # item.id => status'[t] = status[t]
    BY <1>1, <1>2 DEF RunInv, Engine!EngineTypeOK
<1>8. status'[item.id] = st /\ status[item.id] = "running"
    BY <1>1, <1>2 DEF RunInv, Engine!EngineTypeOK, BatchMarked
<1>9. Engine!EngineTypeOK'
    BY <1>1, <1>2, <1>3 DEF RunInv, Engine!EngineTypeOK, Engine!StepStatus
<1>10. EngineAtRest'
    BY <1>2, <1>4 DEF RunInv, EngineAtRest, locals
<1>11. \A i \in ch' : i \in ch /\ i.id \in CLISteps /\ i.id # item.id
    BY <1>2 DEF RunInv, BatchMarked, Engine!EngineTypeOK
<1>12. BatchMarked'
  <2>1. \A t \in toLaunch : t \in CLISteps /\ t # item.id
      BY <1>8 DEF RunInv, BatchMarked, Engine!EngineTypeOK
  <2>2. \A t \in toLaunch' : t \in def'.steps /\ status'[t] = "pending"
      BY <1>2, <1>7, <2>1 DEF RunInv, BatchMarked
  <2>3. \A i \in ch' : i.id \in def'.steps /\ status'[i.id] = "running" /\ i.id \notin live'
      BY <1>2, <1>7, <1>11 DEF RunInv, BatchMarked
  <2> QED  BY <1>2, <1>11, <2>2, <2>3 DEF RunInv, BatchMarked
<1>13. WorkDone'
  <2>1. \A t \in CLISteps : status'[t] # "skipped" /\ (status'[t] = "success" => t \in produced)
      BY <1>3, <1>7, <1>8 DEF RunInv, WorkDone
  <2>2. produced' = produced
      BY <1>4 DEF history
  <2> QED  BY <1>2, <1>5, <1>11, <2>1, <2>2 DEF RunInv, WorkDone
<1>14. RecordKnown'
  <2>1. item.id \notin def.steps \cap completed
      BY <1>2, <1>8 DEF RunInv, RecordKnown
  <2>2. def.steps \subseteq CLISteps
      BY Dependencies DEF RunInv
  <2>3. \A t \in def.steps \cap completed : status'[t] = "success"
      BY <1>2, <1>7, <2>1, <2>2 DEF RunInv, RecordKnown
  <2> QED  BY <1>2, <1>4, <1>5, <2>3 DEF RunInv, RecordKnown, Excused, locals, history
<1> QED  BY <1>5, <1>6, <1>9, <1>10, <1>12, <1>13, <1>14 DEF RunInv

\* A successful result is drained: CompletedSteps learns of it with the checkpoint.
LEMMA SuccessKeeps ==
    ASSUME RunInv, NEW item \in ch, NEW r \in EventResults, DrainSuccess(item, r)
    PROVE  RunInv'
<1>1. item.id \in CLISteps
    BY DEF RunInv, Engine!EngineTypeOK
<1>2. PICK err \in {"nil", "db_error", "graph_changed"} : Engine!DrainSuccess(item, err)
  <2>1. EventError(item.id, "success", r) \in {"nil", "db_error", "graph_changed"}
      BY DEF EventError
  <2> QED  BY <2>1 DEF DrainSuccess
<1>3. /\ pc = "wait" /\ live = {} /\ item.err = "nil"
      /\ status' = [status EXCEPT ![item.id] = "success"]
      /\ outputs' = outputs \cup {item.id}
      /\ completed' = completed \cup {item.id}
      /\ UNCHANGED <<def, pausedStep>>
      /\ \/ /\ ch' = ch \ {item}
            /\ UNCHANGED <<pc, toLaunch, live, errToReturn, retErr, orphans>>
         \/ Engine!Return(err) /\ err \in {"db_error", "graph_changed"}
    BY <1>2 DEF Engine!DrainSuccess
<1>4. OnEvent(item.id, "success", r) /\ UNCHANGED <<analysis, delivered, locals, history>>
    BY DEF DrainSuccess
<1>5. item.id \in produced
    BY <1>3 DEF RunInv, WorkDone
<1>6. RecordsOK' /\ checkpointed' \subseteq checkpointed \cup {item.id}
  <2>1. UNCHANGED <<analysis, delivered, produced, sighted>>
      BY <1>4 DEF history
  <2> QED  BY <1>1, <1>4, <2>1, EventStep DEF RunInv
<1>7. /\ errToReturn' \in Engine!StepErrors \cup {"nil"}
      /\ retErr' \in Engine!RunResults
      /\ orphans' \in [CLISteps -> Nat]
      /\ pc' \in {"wait", "returned"}
      /\ pc' = "returned" => toLaunch' = {} /\ live' = {} /\ ch' = {}
      /\ toLaunch' \subseteq toLaunch /\ live' = {} /\ ch' \subseteq ch \ {item}
  <2>1. Engine!EngineTypeOK
      BY DEF RunInv
  <2>2. CASE Engine!Return(err) /\ err \in {"db_error", "graph_changed"}
    <3>1. err \in Engine!RunResults
        BY <2>2 DEF Engine!RunResults, Engine!Errors, Engine!EmitErrors
    <3> QED  BY <2>1, <2>2, <3>1, ReturnTypes
  <2>3. CASE /\ ch' = ch \ {item}
             /\ UNCHANGED <<pc, toLaunch, live, errToReturn, retErr, orphans>>
      BY <1>3, <2>1, <2>3 DEF Engine!EngineTypeOK
  <2> QED  BY <1>3, <2>2, <2>3
<1>8. LocalsOK'
    BY <1>4 DEF RunInv, LocalsOK, locals
<1>9. \A t \in CLISteps : t # item.id => status'[t] = status[t]
    BY <1>1, <1>3 DEF RunInv, Engine!EngineTypeOK
<1>10. status'[item.id] = "success" /\ status[item.id] = "running"
    BY <1>1, <1>3 DEF RunInv, Engine!EngineTypeOK, BatchMarked
<1>11. Engine!EngineTypeOK'
    BY <1>1, <1>3, <1>7 DEF RunInv, Engine!EngineTypeOK, Engine!StepStatus
<1>12. EngineAtRest'
    BY <1>3, <1>4, <1>7 DEF RunInv, EngineAtRest, locals
<1>13. \A i \in ch' : i \in ch /\ i.id \in CLISteps /\ i.id # item.id
    BY <1>7 DEF RunInv, BatchMarked, Engine!EngineTypeOK
<1>14. BatchMarked'
  <2>1. \A t \in toLaunch' : t \in toLaunch /\ t \in CLISteps /\ t # item.id
      BY <1>7, <1>10 DEF RunInv, BatchMarked, Engine!EngineTypeOK
  <2>2. \A t \in toLaunch' : t \in def'.steps /\ status'[t] = "pending"
      BY <1>3, <1>9, <2>1 DEF RunInv, BatchMarked
  <2>3. \A i \in ch' : i.id \in def'.steps /\ status'[i.id] = "running" /\ i.id \notin live'
      BY <1>3, <1>7, <1>9, <1>13 DEF RunInv, BatchMarked
  <2> QED  BY <1>7, <1>13, <2>2, <2>3 DEF RunInv, BatchMarked
<1>15. WorkDone'
  <2>1. \A t \in CLISteps : status'[t] # "skipped" /\ (status'[t] = "success" => t \in produced)
      BY <1>5, <1>9, <1>10 DEF RunInv, WorkDone
  <2>2. produced' = produced
      BY <1>4 DEF history
  <2>3. toLaunch' \cup live' \subseteq toLaunch
      BY <1>7
  <2> QED  BY <1>3, <1>5, <1>6, <1>13, <2>1, <2>2, <2>3 DEF RunInv, WorkDone
<1>16. RecordKnown'
  <2>1. def.steps \subseteq CLISteps
      BY Dependencies DEF RunInv
  <2>2. \A t \in def.steps \cap completed' : status'[t] = "success"
      BY <1>3, <1>9, <1>10, <2>1 DEF RunInv, RecordKnown
  <2> QED  BY <1>3, <1>4, <1>6, <2>2 DEF RunInv, RecordKnown, Excused, locals, history
<1> QED  BY <1>6, <1>8, <1>11, <1>12, <1>14, <1>15, <1>16 DEF RunInv

\* The batch ends, and with a step's error the call.
LEMMA EndKeeps == ASSUME RunInv, EndBatch PROVE RunInv'
<1>1. /\ pc = "wait" /\ live = {} /\ ch = {}
      /\ UNCHANGED <<def, pausedStep, status, outputs, completed>>
      /\ UNCHANGED <<durable, locals, counters, history>>
      /\ \/ Engine!Return(errToReturn)
         \/ pc' = "loop" /\ UNCHANGED <<toLaunch, live, ch, errToReturn, retErr, orphans>>
    BY DEF EndBatch, Engine!EndBatch
<1>2. /\ errToReturn' \in Engine!StepErrors \cup {"nil"}
      /\ retErr' \in Engine!RunResults
      /\ orphans' \in [CLISteps -> Nat]
      /\ pc' \in {"loop", "returned"}
      /\ pc' = "returned" => toLaunch' = {} /\ live' = {} /\ ch' = {}
      /\ toLaunch' \subseteq toLaunch /\ live' = {} /\ ch' = {}
  <2>1. Engine!EngineTypeOK
      BY DEF RunInv
  <2>2. CASE Engine!Return(errToReturn)
    <3>1. errToReturn \in Engine!RunResults
        BY <2>1 DEF Engine!EngineTypeOK, Engine!RunResults, Engine!Errors
    <3> QED  BY <2>1, <2>2, <3>1, ReturnTypes
  <2>3. CASE pc' = "loop" /\ UNCHANGED <<toLaunch, live, ch, errToReturn, retErr, orphans>>
      BY <1>1, <2>1, <2>3 DEF Engine!EngineTypeOK
  <2> QED  BY <1>1, <2>2, <2>3
<1>3. RecordsOK' /\ LocalsOK'
    BY <1>1 DEF RunInv, RecordsOK, LocalsOK, durable, locals, history
<1>4. Engine!EngineTypeOK'
    BY <1>1, <1>2 DEF RunInv, Engine!EngineTypeOK
<1>5. EngineAtRest'
    BY <1>1, <1>2 DEF RunInv, EngineAtRest, locals
<1>6. BatchMarked'
    BY <1>1, <1>2 DEF RunInv, BatchMarked
<1>7. WorkDone'
    BY <1>1, <1>2 DEF RunInv, WorkDone, durable, history
<1>8. RecordKnown'
    BY <1>1 DEF RunInv, RecordKnown, Excused, durable, locals, history
<1> QED  BY <1>3, <1>4, <1>5, <1>6, <1>7, <1>8 DEF RunInv

\* A goroutine that nobody waits for ends.
LEMMA OrphanKeeps == ASSUME RunInv, NEW s \in CLISteps, OrphanReturns(s) PROVE RunInv'
<1>1. /\ orphans[s] > 0 /\ orphans' = [orphans EXCEPT ![s] = @ - 1]
      /\ UNCHANGED <<pc, def, pausedStep, status, outputs, completed, toLaunch,
                     live, ch, errToReturn, retErr>>
      /\ UNCHANGED <<durable, locals, history>>
    BY DEF OrphanReturns, Engine!OrphanReturns
<1>2. orphans' \in [CLISteps -> Nat]
  <2>0. orphans[s] \in Nat /\ orphans[s] > 0
      BY <1>1 DEF RunInv, Engine!EngineTypeOK
  <2>1. orphans[s] - 1 \in Nat
      BY <2>0
  <2> QED  BY <1>1, <2>1 DEF RunInv, Engine!EngineTypeOK
<1>3. RecordsOK' /\ LocalsOK'
    BY <1>1 DEF RunInv, RecordsOK, LocalsOK, durable, locals, history
<1>4. Engine!EngineTypeOK'
    BY <1>1, <1>2 DEF RunInv, Engine!EngineTypeOK
<1>5. EngineAtRest' /\ BatchMarked'
    BY <1>1 DEF RunInv, EngineAtRest, BatchMarked, locals
<1>6. WorkDone' /\ RecordKnown'
    BY <1>1 DEF RunInv, WorkDone, RecordKnown, Excused, durable, locals, history
<1> QED  BY <1>3, <1>4, <1>5, <1>6 DEF RunInv

-----------------------------------------------------------------------------
LEMMA InitRun == RunInit => RunInv
<1> SUFFICES ASSUME RunInit PROVE RunInv
    OBVIOUS
<1>0. 0 \in 0..MaxCycles /\ 0 \in 0..MaxRetries
    BY Limits
<1>1. [s \in CLISteps |-> 0] \in [CLISteps -> Nat]
    OBVIOUS
<1> USE DEF RunInit, Engine!EngineInit
<1>2. RecordsOK
    BY <1>0 DEF RecordsOK, RowOK, JobStatus
<1>3. LocalsOK
    BY <1>0 DEF LocalsOK
<1>4. Engine!EngineTypeOK
    BY <1>1 DEF Engine!EngineTypeOK, Engine!StepStatus, Engine!RunResults
<1>5. EngineAtRest
    BY DEF EngineAtRest
<1>6. BatchMarked
    BY DEF BatchMarked
<1>7. WorkDone
    BY DEF WorkDone
<1>8. RecordKnown
    BY DEF RecordKnown
<1> QED  BY <1>2, <1>3, <1>4, <1>5, <1>6, <1>7, <1>8 DEF RunInv

LEMMA StutterKeeps == ASSUME RunInv, UNCHANGED runVars PROVE RunInv'
<1>1. RowOK(job')
    BY DEF RunInv, RecordsOK, runVars, durable
<1>2. /\ UNCHANGED <<checkpointed, reviews, announced, pausedCp, analysis, delivered>>
      /\ UNCHANGED <<locals, engine, history>>
    BY DEF runVars, durable
<1> QED  BY <1>1, <1>2, RowStep

LEMMA NextRun == RunInv /\ [RunNext]_runVars => RunInv'
<1> SUFFICES ASSUME RunInv, [RunNext]_runVars PROVE RunInv'
    OBVIOUS
<1>1. CASE Execute \/ Retry \/ MergeApproved \/ ResetStuck \/ ResetWhileWorking
    BY <1>1, RequestKeeps
<1>2. CASE PrologueFails \/ FixLoopRequeue \/ GraphChangedRequeue \/ Cooldown \/ Pause
           \/ GiveUp \/ Crash
    BY <1>2, ReturnKeeps
<1>3. CASE Claim
    BY <1>3, ClaimKeeps
<1>4. CASE \E listed \in BOOLEAN : Prologue(listed)
    BY <1>4, PrologueKeeps
<1>5. CASE \E listed \in BOOLEAN : StartAttempt(listed)
    BY <1>5, StartKeeps
<1>6. CASE NextAttempt
    BY <1>6, NextAttemptKeeps
<1>7. CASE EngineWork
  <2>1. CASE PickBatch
      BY <2>1, PickKeeps
  <2>2. CASE \E s \in toLaunch, r \in EventResults : Launch(s, r)
      BY <2>2, LaunchKeeps
  <2>3. CASE \E s \in live : CachedReturns(s)
      BY <2>3, CachedKeeps
  <2>4. CASE \E s \in live, err \in Engine!StepErrors \cup {"nil"} : StepWorks(s, err)
      BY <2>4, WorksKeeps
  <2>5. CASE \E item \in ch, r \in EventResults : DrainFailure(item, r)
      BY <2>5, FailureKeeps
  <2>6. CASE \E item \in ch, r \in EventResults : DrainSuccess(item, r)
      BY <2>6, SuccessKeeps
  <2>7. CASE EndBatch
      BY <2>7, EndKeeps
  <2> QED  BY <1>7, <2>1, <2>2, <2>3, <2>4, <2>5, <2>6, <2>7 DEF EngineWork
<1>8. CASE \E s \in CLISteps : OrphanReturns(s)
    BY <1>8, OrphanKeeps
<1>9. CASE UNCHANGED runVars
    BY <1>9, StutterKeeps
<1> QED  BY <1>1, <1>2, <1>3, <1>4, <1>5, <1>6, <1>7, <1>8, <1>9
         DEF RunNext, WorkerStep, HandleReturn

LEMMA RunInvariant == RunSpec => []RunInv
BY InitRun, NextRun, PTL DEF RunSpec

\* The state of run, of its engine and of the database stays well typed.
THEOREM RunTypes == RunSpec => []RunTypeOK
<1>1. RunInv => RunTypeOK
    BY DEF RunInv, RecordsOK, RowOK, LocalsOK, RunTypeOK
<1> QED  BY <1>1, RunInvariant, PTL

\* A step is started only on top of what agents have really produced, through
\* every crash, retry, resume, refused read and refused write (run, OnEvent).
THEOREM InputsAreDelivered == RunSpec => []InputsDelivered
<1>1. RunInv => InputsDelivered
    BY DEF RunInv, WorkDone, InputsDelivered
<1> QED  BY <1>1, RunInvariant, PTL

\* A run that has read its checkpoints does not start again what they record.
THEOREM WorkIsNotRepeated == RunSpec => []NoRepeatedWork
<1>1. RunInv => NoRepeatedWork
  <2> SUFFICES ASSUME RunInv, sighted, NEW s \in live \cap checkpointed
               PROVE  Excused(s)
      BY DEF NoRepeatedWork, Excused
  <2>1. pc \in {"loop", "launch", "wait"}
      BY DEF RunInv, EngineAtRest, Engine!EngineTypeOK
  <2>2. s \in def.steps /\ status[s] = "running"
      BY DEF RunInv, BatchMarked
  <2>3. s \notin completed
      BY <2>1, <2>2 DEF RunInv, RecordKnown
  <2> QED  BY <2>3 DEF RunInv, RecordKnown
<1> QED  BY <1>1, RunInvariant, PTL

================================================================================
