------------------------------ MODULE StepEngine ------------------------------
(***************************************************************************)
(* The workflow engine of server/internal/workflow/engine.go: one call of   *)
(* Engine.Run or Engine.Resume executes a definition (a DAG of steps) in    *)
(* batches of at most MaxParallel ready steps, one goroutine per step, and  *)
(* hands every status change to the OnEvent callback.                       *)
(*                                                                          *)
(* The engine object outlives one call: its owner calls Run again on the    *)
(* same object after a failed attempt, with CompletedSteps reloaded from    *)
(* the checkpoints.  Outputs are abstracted to the set of steps that have   *)
(* one; what OnEvent does is abstracted to the error it returns (WorkflowRun *)
(* composes the engine with the real callback).                             *)
(***************************************************************************)
EXTENDS Integers, FiniteSets

CONSTANTS
    AllSteps,      \* every step id that some definition mentions
    Definitions,   \* the definitions Run may be called with
    MaxParallel,   \* Engine.MaxParallel as the owner sets it
    NoStep,        \* the empty string: no paused step
    MaxOrphans     \* bound: goroutines one step may have left behind when a call starts

(***************************************************************************)
(* A definition.  pos is the index of a step in def.Steps; dependsOn is     *)
(* total on AllSteps so that the record has one type.                       *)
(***************************************************************************)
Definition == [steps     : SUBSET AllSteps,
               dependsOn : [AllSteps -> SUBSET AllSteps],
               pos       : [AllSteps -> Nat]]

ASSUME StepsAssumption ==
    /\ IsFiniteSet(AllSteps)
    /\ NoStep \notin AllSteps
    /\ MaxParallel \in Int
    /\ MaxOrphans \in Nat

ASSUME DefinitionsAssumption ==
    /\ Definitions \subseteq Definition
    /\ \A d \in Definitions : \A s, t \in d.steps : d.pos[s] = d.pos[t] => s = t

StepStatus == {"pending", "running", "success", "failed", "skipped",
               "paused", "waiting_approval"}

(***************************************************************************)
(* What a step runner returns: "nil" is success; the two pausing errors     *)
(* are recognised by the engine, every other error means "failed".          *)
(***************************************************************************)
PauseErrors == {"paused", "waiting_approval"}
StepErrors  == PauseErrors \cup {"error", "fix_loop", "cooldown"}
EmitErrors  == {"db_error", "graph_changed"}
Errors      == StepErrors \cup EmitErrors
RunResults  == Errors \cup {"nil", "invalid", "incomplete"}

VARIABLES
    pc,          \* "idle", "loop", "launch", "wait" or "returned"
    def,         \* the definition of the current call
    pausedStep,  \* pausedStepID of the current call
    status,      \* result.Status (steps outside def stay pending)
    outputs,     \* the keys of result.Outputs
    completed,   \* the keys of Engine.CompletedSteps
    toLaunch,    \* ready steps of this batch not launched yet
    live,        \* steps of this batch whose goroutine is running
    ch,          \* results sent and not yet received
    errToReturn, \* the last step error of this batch
    retErr,      \* the error of the last call that returned
    orphans      \* goroutines left behind by calls that returned early

engineVars == <<pc, def, pausedStep, status, outputs, completed, toLaunch,
                live, ch, errToReturn, retErr, orphans>>

-----------------------------------------------------------------------------
\* MaxParallel <= 0 selects the default of 4.
ParallelLimit == IF MaxParallel <= 0 THEN 4 ELSE MaxParallel

IsDone(st) == st \in {"success", "skipped"}

(***************************************************************************)
(* validateDefinition and ValidateDAG, by what they accept: known            *)
(* dependencies and no cycle.  (Ids are unique because steps is a set.)      *)
(***************************************************************************)
Acyclic(d) == \A S \in SUBSET d.steps :
                 S # {} => \E s \in S : d.dependsOn[s] \cap S = {}

\* Mutant: a cycle is not looked for.
ValidDefinitionCyclic(d) == \A s \in d.steps : d.dependsOn[s] \subseteq d.steps

ValidDefinition(d) ==
    /\ \A s \in d.steps : d.dependsOn[s] \subseteq d.steps
    /\ Acyclic(d)

\* Mutants: one finished dependency is enough; the status is not compared with
\* pending.
ReadyStepsAnyDependency(d, st) ==
    {s \in d.steps : /\ st[s] = "pending"
                     /\ \/ d.dependsOn[s] = {}
                        \/ \E t \in d.dependsOn[s] : IsDone(st[t])}

ReadyStepsAgain(d, st) ==
    {s \in d.steps : st[s] # "running" /\ \A t \in d.dependsOn[s] : IsDone(st[t])}

ReadySteps(d, st) ==
    {s \in d.steps : st[s] = "pending" /\ \A t \in d.dependsOn[s] : IsDone(st[t])}

\* ready[:MaxParallel]: the first ParallelLimit ready steps in definition order.
Batch(d, st) ==
    LET ready == ReadySteps(d, st)
    IN  {s \in ready : Cardinality({t \in ready : d.pos[t] < d.pos[s]}) < ParallelLimit}

\* The step the launching loop takes next.
IsFirst(s, S) == s \in S /\ \A t \in S : def.pos[s] <= def.pos[t]

\* Mutant: the error is stored as it is.
StatusOfErrorRaw(err) == err

StatusOfError(err) == IF err \in PauseErrors THEN err ELSE "failed"

-----------------------------------------------------------------------------
EngineInit ==
    /\ pc = "idle"
    /\ def \in Definitions
    /\ pausedStep = NoStep
    /\ status = [s \in AllSteps |-> "pending"]
    /\ outputs = {}
    /\ completed = {}
    /\ toLaunch = {}
    /\ live = {}
    /\ ch = {}
    /\ errToReturn = "nil"
    /\ retErr = "nil"
    /\ orphans = [s \in AllSteps |-> 0]

\* The call returns err; its local channel and batch go out of scope, and any
\* goroutine still running is nobody's.
Return(err) ==
    /\ pc' = "returned"
    /\ retErr' = err
    /\ toLaunch' = {}
    /\ live' = {}
    /\ ch' = {}
    /\ errToReturn' = "nil"
    /\ orphans' = [s \in AllSteps |-> orphans[s] + IF s \in live THEN 1 ELSE 0]

\* Run and Resume: seed is what the owner left in CompletedSteps.
StartRun(d, paused, seed) ==
    /\ pc \in {"idle", "returned"}
    /\ def' = d
    /\ pausedStep' = paused
    /\ completed' = seed
    /\ IF ValidDefinition(d)
       THEN /\ pc' = "loop"
            /\ status' = [s \in AllSteps |->
                            IF s \in d.steps \cap seed THEN "success" ELSE "pending"]
            /\ outputs' = d.steps \cap seed
            /\ UNCHANGED <<toLaunch, live, ch, errToReturn, retErr, orphans>>
       ELSE /\ Return("invalid")
            /\ status' = [s \in AllSteps |-> "pending"]
            /\ outputs' = {}

\* The head of the loop: choose the batch, or leave the loop when nothing is
\* ready and judge the statuses.
PickBatch ==
    /\ pc = "loop"
    /\ ReadySteps(def, status) # {}
    /\ toLaunch' = Batch(def, status)
    /\ pc' = "launch"
    /\ UNCHANGED <<def, pausedStep, status, outputs, completed, live, ch,
                   errToReturn, retErr, orphans>>

FinishRun ==
    /\ pc = "loop"
    /\ ReadySteps(def, status) = {}
    /\ Return(IF \A s \in def.steps : IsDone(status[s]) THEN "nil" ELSE "incomplete")
    /\ UNCHANGED <<def, pausedStep, status, outputs, completed>>

\* One iteration of the launching loop; err is what emit(running) returned.
\* The step being resumed is not announced, so it cannot fail here.
Launch(s, err) ==
    /\ pc = "launch"
    /\ IsFirst(s, toLaunch)
    /\ err \in EmitErrors => s # pausedStep
    /\ status' = [status EXCEPT ![s] = "running"]
    /\ IF err = "nil"
       THEN /\ toLaunch' = toLaunch \ {s}
            /\ live' = live \cup {s}
            /\ pc' = IF toLaunch = {s} THEN "wait" ELSE "launch"
            /\ UNCHANGED <<ch, errToReturn, retErr, orphans>>
       ELSE Return(err)
    /\ UNCHANGED <<def, pausedStep, outputs, completed>>

\* A goroutine's runner returns err and its result is sent on the channel.
StepReturns(s, err) ==
    /\ s \in live
    /\ live' = live \ {s}
    /\ ch' = ch \cup {[id |-> s, err |-> err]}
    /\ UNCHANGED <<pc, def, pausedStep, status, outputs, completed, toLaunch,
                   errToReturn, retErr, orphans>>

OrphanReturns(s) ==
    /\ orphans[s] > 0
    /\ orphans' = [orphans EXCEPT ![s] = @ - 1]
    /\ UNCHANGED <<pc, def, pausedStep, status, outputs, completed, toLaunch,
                   live, ch, errToReturn, retErr>>

\* Mutants: the failed step keeps its status; the failed step is tried again
\* within the call.
DrainFailureUnmarked(item) ==
    /\ pc = "wait" /\ live = {} /\ item \in ch /\ item.err # "nil"
    /\ ch' = ch \ {item}
    /\ errToReturn' = item.err
    /\ UNCHANGED <<pc, def, pausedStep, status, outputs, completed, toLaunch,
                   live, retErr, orphans>>

DrainFailureRetried(item) ==
    /\ pc = "wait" /\ live = {} /\ item \in ch /\ item.err # "nil"
    /\ ch' = ch \ {item}
    /\ status' = [status EXCEPT ![item.id] = "pending"]
    /\ UNCHANGED <<pc, def, pausedStep, outputs, completed, toLaunch, live,
                   errToReturn, retErr, orphans>>

\* After wg.Wait: receive a failed result.  The event's error is ignored.
DrainFailure(item) ==
    /\ pc = "wait"
    /\ live = {}
    /\ item \in ch
    /\ item.err # "nil"
    /\ ch' = ch \ {item}
    /\ status' = [status EXCEPT ![item.id] = StatusOfError(item.err)]
    /\ errToReturn' = item.err
    /\ UNCHANGED <<pc, def, pausedStep, outputs, completed, toLaunch, live,
                   retErr, orphans>>

\* Mutant: CompletedSteps is not kept up to date.
DrainSuccessUnrecorded(item, err) ==
    /\ pc = "wait" /\ live = {} /\ item \in ch /\ item.err = "nil"
    /\ status' = [status EXCEPT ![item.id] = "success"]
    /\ outputs' = outputs \cup {item.id}
    /\ IF err = "nil"
       THEN /\ ch' = ch \ {item}
            /\ UNCHANGED <<pc, toLaunch, live, errToReturn, retErr, orphans>>
       ELSE Return(err)
    /\ UNCHANGED <<def, pausedStep, completed>>

\* Receive a successful result; if the callback fails the call returns at once
\* and the results still in the channel are lost.
DrainSuccess(item, err) ==
    /\ pc = "wait"
    /\ live = {}
    /\ item \in ch
    /\ item.err = "nil"
    /\ status' = [status EXCEPT ![item.id] = "success"]
    /\ outputs' = outputs \cup {item.id}
    /\ completed' = completed \cup {item.id}
    /\ IF err = "nil"
       THEN /\ ch' = ch \ {item}
            /\ UNCHANGED <<pc, toLaunch, live, errToReturn, retErr, orphans>>
       ELSE Return(err)
    /\ UNCHANGED <<def, pausedStep>>

\* Mutant: the step's error is forgotten and the loop goes on.
EndBatchGoesOn ==
    /\ pc = "wait" /\ live = {} /\ ch = {}
    /\ pc' = "loop"
    /\ errToReturn' = "nil"
    /\ UNCHANGED <<def, pausedStep, status, outputs, completed, toLaunch, live,
                   ch, retErr, orphans>>

EndBatch ==
    /\ pc = "wait"
    /\ live = {}
    /\ ch = {}
    /\ IF errToReturn # "nil"
       THEN Return(errToReturn)
       ELSE /\ pc' = "loop"
            /\ UNCHANGED <<toLaunch, live, ch, errToReturn, retErr, orphans>>
    /\ UNCHANGED <<def, pausedStep, status, outputs, completed>>

-----------------------------------------------------------------------------
(***************************************************************************)
(* The engine on its own: the owner may call it with any definition, paused *)
(* step and seed, as often as it likes; runners and the callback return     *)
(* anything.                                                                 *)
(***************************************************************************)
EngineStep ==
    \/ PickBatch
    \/ FinishRun
    \/ \E s \in toLaunch, err \in EmitErrors \cup {"nil"} : Launch(s, err)
    \/ \E s \in live, err \in StepErrors \cup {"nil"} : StepReturns(s, err)
    \/ \E item \in ch : DrainFailure(item)
    \/ \E item \in ch, err \in EmitErrors \cup {"nil"} : DrainSuccess(item, err)
    \/ EndBatch

OrphanStep == \E s \in AllSteps : OrphanReturns(s)

StartStep ==
    /\ \A s \in AllSteps : orphans[s] < MaxOrphans
    /\ \E d \in Definitions, paused \in AllSteps \cup {NoStep}, seed \in SUBSET AllSteps :
          StartRun(d, paused, seed)

EngineNext == StartStep \/ EngineStep \/ OrphanStep

EngineFairness == WF_engineVars(EngineStep) /\ WF_engineVars(OrphanStep)

EngineSpec == EngineInit /\ [][EngineNext]_engineVars /\ EngineFairness

-----------------------------------------------------------------------------
\* The state is well typed: no error of a runner ends up as a status the engine
\* does not know, and no result names a step outside the definitions.
EngineTypeOK ==
    /\ pc \in {"idle", "loop", "launch", "wait", "returned"}
    /\ def \in Definitions
    /\ pausedStep \in AllSteps \cup {NoStep}
    /\ status \in [AllSteps -> StepStatus]
    /\ outputs \subseteq AllSteps
    /\ completed \subseteq AllSteps
    /\ toLaunch \subseteq AllSteps
    /\ live \subseteq AllSteps
    /\ ch \subseteq [id : AllSteps, err : StepErrors \cup {"nil"}]
    /\ errToReturn \in StepErrors \cup {"nil"}
    /\ retErr \in RunResults
    /\ orphans \in [AllSteps -> Nat]

\* The steps whose outcome this call still has to learn or to record.
InProgress == live \cup {item.id : item \in ch}

\* A step's runner executes only when every step it depends on has succeeded
\* and its output can be read from result.Outputs (aggregateInputs).
DependenciesReady ==
    \A s \in InProgress : \A t \in def.dependsOn[s] :
        status[t] = "success" /\ t \in outputs

\* The statuses, the outputs and CompletedSteps agree: an output is kept for
\* exactly the steps that succeeded, and every one of them is in the map from
\* which the next attempt resumes.
ResultsCoherent ==
    /\ outputs = {s \in AllSteps : status[s] = "success"}
    /\ outputs \subseteq completed

\* While a batch is in flight no step is forgotten: the steps marked running
\* are those with a goroutine or an undelivered result, and each has exactly
\* one of the two (the channel never holds two results of one step).
BatchAccounted ==
    pc \in {"launch", "wait"} =>
        /\ {s \in AllSteps : status[s] = "running"} = InProgress
        /\ live \cap {item.id : item \in ch} = {}
        /\ \A i, j \in ch : i.id = j.id => i = j

\* A batch, launched or not, never exceeds MaxParallel.
ParallelBound == Cardinality(InProgress \cup toLaunch) <= ParallelLimit

\* ValidateDAG has done its work: a call never ends with "workflow ended with
\* incomplete steps", whatever the seed.  A call that reports no error has
\* every step of its definition done.
NeverIncomplete ==
    /\ retErr # "incomplete"
    /\ pc = "returned" /\ retErr = "nil" => \A s \in def.steps : status[s] = "success"

\* A step that has succeeded is not touched again by the same call, and only
\* a pending step is ever started.
SuccessIsFinal ==
    [][pc \notin {"idle", "returned"} =>
         \A s \in AllSteps :
            /\ status[s] = "success" => status'[s] = "success"
            /\ status[s] # "running" /\ status'[s] = "running" => status[s] = "pending"]_engineVars

\* Every call returns, provided every step runner does.
CallReturns == pc \in {"loop", "launch", "wait"} ~> pc = "returned"

\* The engine keeps the promise of DagExecution.
PhaseOf(st) ==
    CASE st = "pending" -> "todo"
      [] st = "running" -> "doing"
      [] st = "success" -> "done"
      [] OTHER          -> "stopped"

Abstract == INSTANCE DagExecution WITH
    Steps   <- AllSteps,
    Plans   <- Definitions,
    Limit   <- ParallelLimit,
    plan    <- def,
    phase   <- [s \in AllSteps |-> PhaseOf(status[s])],
    open    <- pc \in {"loop", "launch", "wait"},
    verdict <- IF retErr = "nil" THEN "complete" ELSE "aborted"

\* Every behaviour of the engine, seen through that mapping, is one of the
\* abstract specification.
ImplementsDagExecution == Abstract!AbsSpec

===============================================================================
