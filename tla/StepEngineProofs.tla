--------------------------- MODULE StepEngineProofs ---------------------------
(***************************************************************************)
(* Theorems about StepEngine for every set of steps, every definition and   *)
(* every MaxParallel.                                                        *)
(***************************************************************************)
EXTENDS StepEngine, FiniteSetTheorems, WellFoundedInduction, TLAPS

Stopped == {"failed", "paused", "waiting_approval"}

\* The shape of a call at each program counter: what makes the safety
\* properties inductive.
CallShape ==
    /\ \A s \in AllSteps : s \notin def.steps => status[s] = "pending"
    /\ \A s \in AllSteps : status[s] # "skipped"
    /\ pc \in {"idle", "loop", "returned"} =>
          toLaunch = {} /\ live = {} /\ ch = {} /\ errToReturn = "nil"
    /\ pc = "launch" => toLaunch # {} /\ errToReturn = "nil"
    /\ pc = "wait" => toLaunch = {}
    /\ toLaunch \subseteq ReadySteps(def, status)
    /\ pc \in {"loop", "launch", "wait"} => ValidDefinition(def)
    /\ pc = "loop" => \A s \in AllSteps : status[s] \in {"pending", "success"}
    /\ pc \in {"launch", "wait"} /\ errToReturn = "nil" =>
          \A s \in AllSteps : status[s] \notin Stopped

EngineInv ==
    /\ EngineTypeOK
    /\ CallShape
    /\ DependenciesReady
    /\ ResultsCoherent
    /\ BatchAccounted
    /\ NeverIncomplete

-----------------------------------------------------------------------------
\* In an acyclic definition in which every step is pending or has succeeded,
\* either some step is ready or all of them have succeeded: the loop of
\* runInternal cannot get stuck.
LEMMA ReadyOrDone ==
    ASSUME NEW d, ValidDefinition(d),
           NEW st, \A s \in d.steps : st[s] \in {"pending", "success"},
           ReadySteps(d, st) = {}
    PROVE  \A s \in d.steps : st[s] = "success"
<1> DEFINE P == {s \in d.steps : st[s] = "pending"}
<1>1. SUFFICES ASSUME P # {} PROVE FALSE
  OBVIOUS
<1>2. PICK s \in P : d.dependsOn[s] \cap P = {}
  BY <1>1 DEF ValidDefinition, Acyclic
<1>3. \A t \in d.dependsOn[s] : IsDone(st[t])
  BY <1>2 DEF ValidDefinition, IsDone
<1>4. s \in ReadySteps(d, st)
  BY <1>2, <1>3 DEF ReadySteps
<1> QED
  BY <1>4

\* A non-empty set of naturals has a least element.
LEMMA LeastNatural ==
    ASSUME NEW S, S \subseteq Nat, S # {}
    PROVE  \E n \in S : \A m \in S : n <= m
<1>1. PICK n \in S : \A m \in S : ~(<<m, n>> \in OpToRel(<, Nat))
  BY NatLessThanWellFounded, WFMin
<1>2. \A m \in S : <<m, n>> \in OpToRel(<, Nat) <=> m < n
  BY DEF OpToRel
<1>3. \A m \in S : ~(m < n)
  BY <1>1, <1>2, Zenon
<1> QED
  BY <1>3

\* The fields of a definition have the types the code's declarations give them.
LEMMA DefFields ==
    ASSUME NEW d \in Definitions
    PROVE  /\ d.steps \subseteq AllSteps
           /\ d.dependsOn \in [AllSteps -> SUBSET AllSteps]
           /\ d.pos \in [AllSteps -> Nat]
BY DefinitionsAssumption DEF Definition

\* ready[:MaxParallel] has at most MaxParallel elements: the step of a batch
\* with the most ready predecessors has all the others among them.
LEMMA BatchSmall ==
    ASSUME NEW d \in Definitions, NEW st
    PROVE  Cardinality(Batch(d, st)) <= ParallelLimit
<1> DEFINE R == ReadySteps(d, st)
           B == Batch(d, st)
           P(s) == {t \in R : d.pos[t] < d.pos[s]}
<1>1. /\ R \subseteq d.steps /\ d.steps \subseteq AllSteps
      /\ B = {s \in R : Cardinality(P(s)) < ParallelLimit}
      /\ d.pos \in [AllSteps -> Nat]
  BY DefFields DEF Batch, ReadySteps
<1>2. IsFiniteSet(R) /\ IsFiniteSet(B) /\ B \subseteq R
  BY <1>1, StepsAssumption, FS_Subset
<1>3. \A s \in R : P(s) \subseteq R /\ IsFiniteSet(P(s)) /\ Cardinality(P(s)) \in Nat
  BY <1>2, FS_Subset, FS_CardinalityType
<1>4. ParallelLimit \in Nat /\ ParallelLimit > 0
  BY StepsAssumption DEF ParallelLimit
<1>7. \A s \in R : \A t : t \in P(s) <=> t \in R /\ d.pos[t] < d.pos[s]
  OBVIOUS
<1>8. \A s \in B : Cardinality(P(s)) < ParallelLimit
  BY <1>1
<1> HIDE DEF B, R, P
<1>5. CASE B = {}
  BY <1>4, <1>5, FS_EmptySet DEF B
<1>6. CASE B # {}
  <2> DEFINE Room == {ParallelLimit - Cardinality(P(s)) : s \in B}
  <2>1. Room \subseteq Nat /\ Room # {}
    BY <1>2, <1>3, <1>4, <1>6, <1>8
  <2>2. PICK n \in Room : \A k \in Room : n <= k
    BY <2>1, LeastNatural
  <2>3. PICK m \in B : n = ParallelLimit - Cardinality(P(m))
    BY <2>2
  <2>4. \A t \in B : Cardinality(P(t)) <= Cardinality(P(m))
    <3> TAKE t \in B
    <3>1. n <= ParallelLimit - Cardinality(P(t))
      BY <2>2
    <3> QED
      BY <3>1, <2>3, <1>2, <1>3, <1>4
  <2>5. ASSUME NEW t \in B, t # m PROVE t \in P(m)
    <3>1. m \in R /\ t \in R /\ m \in AllSteps /\ t \in AllSteps /\ m \in d.steps /\ t \in d.steps
      BY <1>1, <1>2
    <3>2. d.pos[t] # d.pos[m]
      BY <2>5, <3>1, DefinitionsAssumption
    <3>3. ASSUME d.pos[m] < d.pos[t] PROVE FALSE
      <4>1. P(m) \cup {m} \subseteq P(t) /\ m \notin P(m)
        BY <1>1, <1>7, <3>1, <3>3
      <4>2. Cardinality(P(m) \cup {m}) = Cardinality(P(m)) + 1
        BY <1>3, <3>1, <4>1, FS_AddElement
      <4>3. Cardinality(P(m) \cup {m}) <= Cardinality(P(t))
        BY <1>3, <3>1, <4>1, FS_Subset
      <4> QED
        BY <2>4, <4>2, <4>3, <1>3, <3>1
    <3> QED
      BY <1>1, <1>7, <3>1, <3>2, <3>3
  <2>6. B \subseteq P(m) \cup {m} /\ m \in R
    BY <2>5, <1>2
  <2>7. m \notin P(m)
    BY <1>1, <1>7, <2>6
  <2>8. /\ IsFiniteSet(P(m) \cup {m})
        /\ Cardinality(P(m) \cup {m}) = Cardinality(P(m)) + 1
    BY <1>3, <2>6, <2>7, FS_AddElement
  <2>9. Cardinality(B) <= Cardinality(P(m)) + 1 /\ Cardinality(B) \in Nat
    BY <2>6, <2>8, <1>2, FS_Subset, FS_CardinalityType
  <2>10. Cardinality(P(m)) < ParallelLimit
    BY <1>8
  <2> QED
    BY <2>9, <2>10, <1>3, <1>4, <2>6 DEF B
<1> QED
  BY <1>5, <1>6

\* Leaving a call leaves nothing of its batch behind but orphans.
LEMMA ReturnShape ==
    ASSUME EngineTypeOK, NEW err \in RunResults, Return(err)
    PROVE  /\ pc' = "returned" /\ retErr' = err
           /\ toLaunch' = {} /\ live' = {} /\ ch' = {} /\ errToReturn' = "nil"
           /\ orphans' \in [AllSteps -> Nat]
<1>1. orphans' \in [AllSteps -> Nat]
  BY DEF EngineTypeOK, Return
<1> QED
  BY <1>1 DEF Return

\* The initial state satisfies the inductive invariant.
LEMMA EngineInitInv == EngineInit => EngineInv
<1> SUFFICES ASSUME EngineInit PROVE EngineInv
  OBVIOUS
<1> USE DEF EngineInit
<1>1. EngineTypeOK
  BY StepsAssumption DEF EngineTypeOK, StepStatus, RunResults, Errors
<1>2. CallShape
  BY <1>1 DEF CallShape, EngineTypeOK, ReadySteps
<1>3. DependenciesReady /\ ResultsCoherent /\ BatchAccounted /\ NeverIncomplete
  BY <1>1 DEF DependenciesReady, ResultsCoherent, BatchAccounted,
              NeverIncomplete, InProgress, EngineTypeOK
<1> QED
  BY <1>1, <1>2, <1>3 DEF EngineInv

\* A new call establishes the invariant from any finished one.
LEMMA StartInv == EngineInv /\ StartStep => EngineInv'
<1> SUFFICES ASSUME EngineInv,
                    NEW d \in Definitions, NEW p \in AllSteps \cup {NoStep},
                    NEW seed \in SUBSET AllSteps, StartRun(d, p, seed)
             PROVE  EngineInv'
  BY DEF StartStep
<1> USE DEF EngineInv
<1>1. /\ def' = d /\ pausedStep' = p /\ completed' = seed
      /\ toLaunch = {} /\ live = {} /\ ch = {} /\ errToReturn = "nil"
  BY DEF StartRun, CallShape
<1>2. CASE ValidDefinition(d)
  <2>1. /\ pc' = "loop"
        /\ status' = [s \in AllSteps |->
                        IF s \in d.steps \cap seed THEN "success" ELSE "pending"]
        /\ outputs' = d.steps \cap seed
        /\ UNCHANGED <<toLaunch, live, ch, errToReturn, retErr, orphans>>
    BY <1>2 DEF StartRun
  <2>2. EngineTypeOK'
    BY <1>1, <2>1 DEF EngineTypeOK, StepStatus
  <2>3. CallShape'
    BY <1>1, <1>2, <2>1 DEF CallShape, ReadySteps
  <2>4. ResultsCoherent'
    BY <1>1, <2>1, DefFields DEF ResultsCoherent
  <2>5. (DependenciesReady /\ BatchAccounted /\ NeverIncomplete)'
    BY <1>1, <2>1 DEF DependenciesReady, BatchAccounted, NeverIncomplete, InProgress
  <2> QED
    BY <2>2, <2>3, <2>4, <2>5
<1>3. CASE ~ValidDefinition(d)
  <2>1. /\ Return("invalid")
        /\ status' = [s \in AllSteps |-> "pending"]
        /\ outputs' = {}
    BY <1>3 DEF StartRun
  <2>2. /\ pc' = "returned" /\ retErr' = "invalid"
        /\ toLaunch' = {} /\ live' = {} /\ ch' = {} /\ errToReturn' = "nil"
        /\ orphans' \in [AllSteps -> Nat]
    BY <2>1, ReturnShape DEF RunResults
  <2>3. EngineTypeOK'
    BY <1>1, <2>1, <2>2 DEF EngineTypeOK, StepStatus, RunResults
  <2>4. (CallShape /\ ResultsCoherent)'
    BY <1>1, <2>1, <2>2 DEF CallShape, ReadySteps, ResultsCoherent
  <2>5. (DependenciesReady /\ BatchAccounted /\ NeverIncomplete)'
    BY <1>1, <2>1, <2>2 DEF DependenciesReady, BatchAccounted, NeverIncomplete, InProgress
  <2> QED
    BY <2>3, <2>4, <2>5
<1> QED
  BY <1>2, <1>3

-----------------------------------------------------------------------------
\* The head of the loop preserves the invariant; this is where acyclicity
\* rules out "incomplete".
LEMMA LoopInv == EngineInv /\ (PickBatch \/ FinishRun) => EngineInv'
<1> USE DEF EngineInv
<1>1. ASSUME EngineInv, PickBatch PROVE EngineInv'
  <2>0. /\ toLaunch' \subseteq ReadySteps(def, status)
        /\ ReadySteps(def, status) \subseteq AllSteps
    BY <1>1, DefFields DEF PickBatch, Batch, ReadySteps, EngineTypeOK
  <2>1. toLaunch' # {}
    <3> DEFINE R == ReadySteps(def, status)
    <3>1. def \in Definitions /\ R # {} /\ R \subseteq AllSteps
      BY <1>1, <2>0 DEF PickBatch, EngineTypeOK
    <3>2. PICK n \in Nat : /\ \E s \in R : def.pos[s] = n
                           /\ \A s \in R : n <= def.pos[s]
      <4> DEFINE Ns == {def.pos[s] : s \in R}
      <4>1. Ns \subseteq Nat /\ Ns # {}
        BY <3>1, DefFields
      <4>2. PICK n \in Ns : \A m \in Ns : n <= m
        BY <4>1, LeastNatural
      <4> QED
        BY <4>1, <4>2
    <3>3. PICK s \in R : def.pos[s] = n
      BY <3>2
    <3>4. {t \in R : def.pos[t] < def.pos[s]} = {}
      BY <3>1, <3>2, <3>3, DefFields
    <3>5. Cardinality({t \in R : def.pos[t] < def.pos[s]}) = 0
      BY <3>4, FS_EmptySet
    <3>6. s \in Batch(def, status)
      BY <3>3, <3>5, StepsAssumption DEF Batch, ParallelLimit
    <3> QED
      BY <3>6, <1>1 DEF PickBatch
  <2>2. EngineTypeOK'
    BY <1>1, <2>0 DEF PickBatch, EngineTypeOK
  <2>3. CallShape'
    BY <1>1, <2>0, <2>1 DEF PickBatch, CallShape, Stopped, ReadySteps
  <2>4. (DependenciesReady /\ ResultsCoherent /\ NeverIncomplete)'
    BY <1>1 DEF PickBatch, DependenciesReady, ResultsCoherent, NeverIncomplete, InProgress
  <2>5. BatchAccounted'
    BY <1>1 DEF PickBatch, BatchAccounted, InProgress, CallShape
  <2> QED
    BY <2>2, <2>3, <2>4, <2>5
<1>2. ASSUME EngineInv, FinishRun PROVE EngineInv'
  <2>1. \A s \in def.steps : status[s] = "success"
    BY <1>2, ReadyOrDone, DefFields DEF FinishRun, CallShape, EngineTypeOK
  <2>2. Return("nil")
    BY <1>2, <2>1 DEF FinishRun, IsDone
  <2>3. /\ pc' = "returned" /\ retErr' = "nil"
        /\ toLaunch' = {} /\ live' = {} /\ ch' = {} /\ errToReturn' = "nil"
        /\ orphans' \in [AllSteps -> Nat]
    BY <1>2, <2>2, ReturnShape DEF RunResults
  <2>4. UNCHANGED <<def, pausedStep, status, outputs, completed>>
    BY <1>2 DEF FinishRun
  <2>5. EngineTypeOK'
    BY <1>2, <2>3, <2>4 DEF EngineTypeOK, RunResults
  <2>6. (CallShape /\ ResultsCoherent)'
    BY <1>2, <2>3, <2>4 DEF CallShape, ResultsCoherent, ReadySteps
  <2>7. (DependenciesReady /\ BatchAccounted /\ NeverIncomplete)'
    BY <2>1, <2>3, <2>4 DEF DependenciesReady, BatchAccounted, NeverIncomplete, InProgress
  <2> QED
    BY <2>5, <2>6, <2>7
<1> QED
  BY <1>1, <1>2

-----------------------------------------------------------------------------
\* Launching a step keeps the books of the batch: it moves from toLaunch to
\* the goroutines, or the call is over.
LEMMA LaunchInv ==
    ASSUME EngineInv, NEW s \in toLaunch, NEW err \in EmitErrors \cup {"nil"},
           Launch(s, err)
    PROVE  EngineInv'
<1> USE DEF EngineInv
<1>1. /\ pc = "launch" /\ s \in AllSteps /\ status[s] = "pending" /\ s \in def.steps
      /\ \A t \in def.dependsOn[s] : t \in AllSteps /\ status[t] = "success"
      /\ status' = [status EXCEPT ![s] = "running"]
      /\ UNCHANGED <<def, pausedStep, outputs, completed>>
  BY DefFields DEF Launch, CallShape, ReadySteps, EngineTypeOK, IsDone
<1>2. def \in Definitions /\ def.dependsOn \in [AllSteps -> SUBSET AllSteps]
  BY DefFields DEF EngineTypeOK
<1>3. CASE err = "nil"
  <2>1. /\ toLaunch' = toLaunch \ {s}
        /\ live' = live \cup {s}
        /\ pc' = IF toLaunch = {s} THEN "wait" ELSE "launch"
        /\ UNCHANGED <<ch, errToReturn, retErr, orphans>>
    BY <1>3 DEF Launch
  <2>2. EngineTypeOK'
    BY <1>1, <2>1 DEF EngineTypeOK, StepStatus
  <2>3. CallShape'
    <3>1. toLaunch' \subseteq ReadySteps(def, status')
      BY <1>1, <1>2, <2>1 DEF CallShape, ReadySteps, EngineTypeOK, IsDone
    <3> QED
      BY <1>1, <2>1, <3>1 DEF CallShape, EngineTypeOK, Stopped
  <2>4. DependenciesReady'
    BY <1>1, <1>2, <2>1 DEF DependenciesReady, InProgress, EngineTypeOK, ResultsCoherent
  <2>5. (ResultsCoherent /\ NeverIncomplete)'
    BY <1>1, <2>1 DEF ResultsCoherent, NeverIncomplete, EngineTypeOK
  <2>6. BatchAccounted'
    BY <1>1, <2>1 DEF BatchAccounted, InProgress, EngineTypeOK
  <2> QED
    BY <2>2, <2>3, <2>4, <2>5, <2>6
<1>4. CASE err # "nil"
  <2>1. Return(err) /\ err \in EmitErrors
    BY <1>4 DEF Launch
  <2>2. /\ pc' = "returned" /\ retErr' = err
        /\ toLaunch' = {} /\ live' = {} /\ ch' = {} /\ errToReturn' = "nil"
        /\ orphans' \in [AllSteps -> Nat]
    BY <2>1, ReturnShape DEF RunResults, Errors
  <2>3. EngineTypeOK'
    BY <1>1, <2>1, <2>2 DEF EngineTypeOK, RunResults, Errors, StepStatus
  <2>4. CallShape'
    BY <1>1, <2>2 DEF CallShape, EngineTypeOK
  <2>5. ResultsCoherent'
    BY <1>1, <2>2 DEF ResultsCoherent, EngineTypeOK
  <2>6. (DependenciesReady /\ BatchAccounted /\ NeverIncomplete)'
    BY <2>1, <2>2 DEF DependenciesReady, BatchAccounted, NeverIncomplete, InProgress, EmitErrors
  <2> QED
    BY <2>3, <2>4, <2>5, <2>6
<1> QED
  BY <1>3, <1>4

\* A goroutine that ends turns into exactly one result in the channel.
LEMMA StepReturnsInv ==
    ASSUME EngineInv, NEW s \in live, NEW err \in StepErrors \cup {"nil"},
           StepReturns(s, err)
    PROVE  EngineInv'
<1> USE DEF EngineInv
<1>1. /\ live' = live \ {s} /\ ch' = ch \cup {[id |-> s, err |-> err]}
      /\ UNCHANGED <<pc, def, pausedStep, status, outputs, completed, toLaunch,
                     errToReturn, retErr, orphans>>
  BY DEF StepReturns
<1>2. EngineTypeOK'
  BY <1>1 DEF EngineTypeOK
<1>3. pc \in {"launch", "wait"}
  BY DEF CallShape, EngineTypeOK
<1>4. CallShape'
  <2>1. UNCHANGED ReadySteps(def, status) /\ UNCHANGED ValidDefinition(def)
    BY <1>1 DEF ReadySteps, ValidDefinition, Acyclic
  <2> QED
    BY <1>1, <1>3, <2>1 DEF CallShape
<1>5. InProgress' = InProgress
  <2>1. {item.id : item \in ch'} = {item.id : item \in ch} \cup {s}
    <3> DEFINE r == [id |-> s, err |-> err]
    <3>1. r.id = s /\ ch' = ch \cup {r}
      BY <1>1
    <3> HIDE DEF r
    <3> QED
      BY <3>1
  <2> QED
    BY <1>1, <2>1 DEF InProgress
<1>6. (DependenciesReady /\ ResultsCoherent /\ NeverIncomplete)'
  BY <1>1, <1>5 DEF DependenciesReady, ResultsCoherent, NeverIncomplete
<1>7. BatchAccounted'
  <2>1. s \notin {item.id : item \in ch}
    BY <1>3 DEF BatchAccounted
  <2>2. \A i, j \in ch' : i.id = j.id => i = j
    BY <1>1, <1>3, <2>1 DEF BatchAccounted
  <2>3. live' \cap {item.id : item \in ch'} = {}
    BY <1>1, <1>3, <2>1 DEF BatchAccounted
  <2> QED
    BY <1>1, <1>3, <1>5, <2>2, <2>3 DEF BatchAccounted
<1> QED
  BY <1>2, <1>4, <1>6, <1>7

\* Receiving a failed result: the step stops and its error is remembered.
LEMMA DrainFailureInv ==
    ASSUME EngineInv, NEW item \in ch, DrainFailure(item)
    PROVE  EngineInv'
<1> USE DEF EngineInv
<1> DEFINE s == item.id
<1>1. /\ pc = "wait" /\ live = {} /\ item.err # "nil"
      /\ ch' = ch \ {item}
      /\ status' = [status EXCEPT ![s] = StatusOfError(item.err)]
      /\ errToReturn' = item.err
      /\ UNCHANGED <<pc, def, pausedStep, outputs, completed, toLaunch, live,
                     retErr, orphans>>
  BY DEF DrainFailure
<1>2. s \in AllSteps /\ item.err \in StepErrors /\ status[s] = "running"
  BY <1>1 DEF EngineTypeOK, BatchAccounted, InProgress
<1>3. StatusOfError(item.err) \in Stopped
  BY <1>2 DEF StatusOfError, PauseErrors, Stopped
<1>4. {i.id : i \in ch'} = {i.id : i \in ch} \ {s}
  BY <1>1 DEF BatchAccounted
<1>5. EngineTypeOK'
  BY <1>1, <1>2, <1>3 DEF EngineTypeOK, StepStatus, Stopped
<1>6. s \in def.steps
  BY <1>2 DEF CallShape
<1>7. CallShape'
  <2>1. toLaunch' = {}
    BY <1>1 DEF CallShape
  <2>2. UNCHANGED ValidDefinition(def)
    BY <1>1 DEF ValidDefinition, Acyclic
  <2> QED
    BY <1>1, <1>2, <1>3, <1>6, <2>1, <2>2 DEF CallShape, EngineTypeOK, Stopped
<1>8. InProgress' = InProgress \ {s}
  BY <1>1, <1>4 DEF InProgress
<1>9. DependenciesReady'
  BY <1>1, <1>2, <1>8 DEF DependenciesReady, EngineTypeOK
<1>10. (ResultsCoherent /\ NeverIncomplete)'
  BY <1>1, <1>2, <1>3 DEF ResultsCoherent, NeverIncomplete, EngineTypeOK, Stopped
<1>11. BatchAccounted'
  BY <1>1, <1>2, <1>3, <1>4, <1>8 DEF BatchAccounted, EngineTypeOK, Stopped
<1> QED
  BY <1>5, <1>7, <1>9, <1>10, <1>11

\* Receiving a success: status, output and CompletedSteps change together,
\* also when the callback's error ends the call.
LEMMA DrainSuccessInv ==
    ASSUME EngineInv, NEW item \in ch, NEW err \in EmitErrors \cup {"nil"},
           DrainSuccess(item, err)
    PROVE  EngineInv'
<1> USE DEF EngineInv
<1> DEFINE s == item.id
<1>1. /\ pc = "wait" /\ live = {} /\ item.err = "nil"
      /\ status' = [status EXCEPT ![s] = "success"]
      /\ outputs' = outputs \cup {s} /\ completed' = completed \cup {s}
      /\ UNCHANGED <<def, pausedStep>>
  BY DEF DrainSuccess
<1>2. s \in AllSteps /\ status[s] = "running"
  BY <1>1 DEF EngineTypeOK, BatchAccounted, InProgress
<1>3. s \in def.steps
  BY <1>2 DEF CallShape
<1>4. ResultsCoherent'
  BY <1>1, <1>2 DEF ResultsCoherent, EngineTypeOK
<1>5. UNCHANGED ValidDefinition(def)
  BY <1>1 DEF ValidDefinition, Acyclic
<1>6. CASE err = "nil"
  <2>1. ch' = ch \ {item} /\ UNCHANGED <<pc, toLaunch, live, errToReturn, retErr, orphans>>
    BY <1>6 DEF DrainSuccess
  <2>2. {i.id : i \in ch'} = {i.id : i \in ch} \ {s}
    BY <1>1, <2>1 DEF BatchAccounted
  <2>3. InProgress' = InProgress \ {s}
    BY <1>1, <2>1, <2>2 DEF InProgress
  <2>4. EngineTypeOK'
    BY <1>1, <1>2, <2>1 DEF EngineTypeOK, StepStatus
  <2>5. CallShape'
    BY <1>1, <1>2, <1>3, <1>5, <2>1 DEF CallShape, EngineTypeOK, Stopped
  <2>6. DependenciesReady'
    BY <1>1, <1>2, <2>3 DEF DependenciesReady, EngineTypeOK
  <2>7. NeverIncomplete'
    BY <1>1, <2>1 DEF NeverIncomplete
  <2>8. BatchAccounted'
    BY <1>1, <1>2, <2>1, <2>2, <2>3 DEF BatchAccounted, EngineTypeOK
  <2> QED
    BY <1>4, <2>4, <2>5, <2>6, <2>7, <2>8
<1>7. CASE err # "nil"
  <2>1. Return(err) /\ err \in EmitErrors
    BY <1>7 DEF DrainSuccess
  <2>2. /\ pc' = "returned" /\ retErr' = err
        /\ toLaunch' = {} /\ live' = {} /\ ch' = {} /\ errToReturn' = "nil"
        /\ orphans' \in [AllSteps -> Nat]
    BY <2>1, ReturnShape DEF RunResults, Errors
  <2>3. EngineTypeOK'
    BY <1>1, <1>2, <2>1, <2>2 DEF EngineTypeOK, RunResults, Errors, StepStatus
  <2>4. CallShape'
    BY <1>1, <1>2, <1>3, <2>2 DEF CallShape, EngineTypeOK
  <2>5. (DependenciesReady /\ BatchAccounted /\ NeverIncomplete)'
    BY <2>1, <2>2 DEF DependenciesReady, BatchAccounted, NeverIncomplete, InProgress, EmitErrors
  <2> QED
    BY <1>4, <2>3, <2>4, <2>5
<1> QED
  BY <1>6, <1>7

\* The end of a batch: return the error, or go back to the head of the loop
\* with every step pending or successful.
LEMMA EndBatchInv == EngineInv /\ EndBatch => EngineInv'
<1> SUFFICES ASSUME EngineInv, EndBatch PROVE EngineInv'
  OBVIOUS
<1> USE DEF EngineInv
<1>1. /\ pc = "wait" /\ live = {} /\ ch = {}
      /\ UNCHANGED <<def, pausedStep, status, outputs, completed>>
  BY DEF EndBatch
<1>2. UNCHANGED ValidDefinition(def) /\ ResultsCoherent'
  BY <1>1 DEF ValidDefinition, Acyclic, ResultsCoherent
<1>3. CASE errToReturn = "nil"
  <2>1. pc' = "loop" /\ UNCHANGED <<toLaunch, live, ch, errToReturn, retErr, orphans>>
    BY <1>3 DEF EndBatch
  <2>2. EngineTypeOK'
    BY <1>1, <2>1 DEF EngineTypeOK
  <2>3. \A s \in AllSteps : status[s] \in {"pending", "success"}
    BY <1>1, <1>3 DEF BatchAccounted, InProgress, CallShape, Stopped, EngineTypeOK, StepStatus
  <2>4. CallShape'
    BY <1>1, <1>2, <1>3, <2>1, <2>3 DEF CallShape
  <2>5. (DependenciesReady /\ BatchAccounted /\ NeverIncomplete)'
    BY <1>1, <2>1 DEF DependenciesReady, BatchAccounted, NeverIncomplete, InProgress
  <2> QED
    BY <1>2, <2>2, <2>4, <2>5
<1>4. CASE errToReturn # "nil"
  <2>1. Return(errToReturn) /\ errToReturn \in StepErrors
    BY <1>4 DEF EndBatch, EngineTypeOK
  <2>2. /\ pc' = "returned" /\ retErr' = errToReturn
        /\ toLaunch' = {} /\ live' = {} /\ ch' = {} /\ errToReturn' = "nil"
        /\ orphans' \in [AllSteps -> Nat]
    BY <2>1, ReturnShape DEF RunResults, Errors
  <2>3. EngineTypeOK'
    BY <1>1, <2>1, <2>2 DEF EngineTypeOK, RunResults, Errors
  <2>4. CallShape'
    BY <1>1, <2>2 DEF CallShape
  <2>5. (DependenciesReady /\ BatchAccounted /\ NeverIncomplete)'
    BY <2>1, <2>2 DEF DependenciesReady, BatchAccounted, NeverIncomplete, InProgress,
                      StepErrors, PauseErrors
  <2> QED
    BY <1>2, <2>3, <2>4, <2>5
<1> QED
  BY <1>3, <1>4

\* An orphan that ends changes nothing the engine looks at.
LEMMA OrphanInv == EngineInv /\ OrphanStep => EngineInv'
<1> SUFFICES ASSUME EngineInv, NEW s \in AllSteps, OrphanReturns(s) PROVE EngineInv'
  BY DEF OrphanStep
<1>1. /\ orphans' \in [AllSteps -> Nat]
      /\ UNCHANGED <<pc, def, pausedStep, status, outputs, completed, toLaunch,
                     live, ch, errToReturn, retErr>>
  BY DEF OrphanReturns, EngineInv, EngineTypeOK
<1> QED
  BY <1>1 DEF EngineInv, EngineTypeOK, CallShape, DependenciesReady, ResultsCoherent,
              BatchAccounted, NeverIncomplete, InProgress, ReadySteps,
              ValidDefinition, Acyclic

-----------------------------------------------------------------------------
\* Every step of the engine preserves the inductive invariant.
LEMMA EngineNextInv == EngineInv /\ [EngineNext]_engineVars => EngineInv'
<1> SUFFICES ASSUME EngineInv, [EngineNext]_engineVars PROVE EngineInv'
  OBVIOUS
<1>1. CASE StartStep
  BY <1>1, StartInv
<1>2. CASE EngineStep
  BY <1>2, LoopInv, LaunchInv, StepReturnsInv, DrainFailureInv, DrainSuccessInv,
     EndBatchInv DEF EngineStep
<1>3. CASE OrphanStep
  BY <1>3, OrphanInv
<1>4. CASE UNCHANGED engineVars
  BY <1>4 DEF engineVars, EngineInv, EngineTypeOK, CallShape, DependenciesReady,
     ResultsCoherent, BatchAccounted, NeverIncomplete, InProgress, ReadySteps,
     ValidDefinition, Acyclic
<1> QED
  BY <1>1, <1>2, <1>3, <1>4 DEF EngineNext

\* The engine of workflow/engine.go is type-correct, for every workflow.
THEOREM EngineTypeCorrect == EngineSpec => []EngineTypeOK
<1>1. EngineInv => EngineTypeOK
  BY DEF EngineInv
<1> QED
  BY <1>1, EngineInitInv, EngineNextInv, PTL DEF EngineSpec

\* For every workflow, a step's runner executes only when each step it depends
\* on has succeeded and left an output that aggregateInputs can read.
THEOREM EngineSafety == EngineSpec => []DependenciesReady
<1>1. EngineInv => DependenciesReady
  BY DEF EngineInv
<1> QED
  BY <1>1, EngineInitInv, EngineNextInv, PTL DEF EngineSpec

\* For every workflow, result.Status, result.Outputs and CompletedSteps agree at
\* every moment, also when a call is cut short by its callback: the next attempt
\* resumes from every step that has succeeded.
THEOREM EngineResults == EngineSpec => []ResultsCoherent
<1>1. EngineInv => ResultsCoherent
  BY DEF EngineInv
<1> QED
  BY <1>1, EngineInitInv, EngineNextInv, PTL DEF EngineSpec

\* For every workflow, no goroutine's result is lost or counted twice while a
\* batch is in flight.
THEOREM EngineBatches == EngineSpec => []BatchAccounted
<1>1. EngineInv => BatchAccounted
  BY DEF EngineInv
<1> QED
  BY <1>1, EngineInitInv, EngineNextInv, PTL DEF EngineSpec

\* ValidateDAG makes the error "workflow ended with incomplete steps"
\* unreachable, for every definition and every set of completed steps; a nil
\* error means that the whole definition has succeeded.
THEOREM EngineNeverIncomplete == EngineSpec => []NeverIncomplete
<1>1. EngineInv => NeverIncomplete
  BY DEF EngineInv
<1> QED
  BY <1>1, EngineInitInv, EngineNextInv, PTL DEF EngineSpec

\* Within one call a step that has succeeded is never touched again, and only
\* pending steps are started: no step of a workflow is executed twice by a call.
THEOREM EngineSuccessIsFinal == EngineSpec => SuccessIsFinal
<1> DEFINE Final == pc \notin {"idle", "returned"} =>
       \A s \in AllSteps :
          /\ status[s] = "success" => status'[s] = "success"
          /\ status[s] # "running" /\ status'[s] = "running" => status[s] = "pending"
<1>1. EngineInv /\ [EngineNext]_engineVars => [Final]_engineVars
  <2> SUFFICES ASSUME EngineInv, EngineNext, pc \notin {"idle", "returned"}
               PROVE  Final
    BY DEF engineVars
  <2>1. status \in [AllSteps -> StepStatus]
    BY DEF EngineInv, EngineTypeOK
  <2>2. CASE StartStep
    BY <2>2 DEF StartStep, StartRun
  <2>3. CASE PickBatch \/ FinishRun \/ EndBatch \/ OrphanStep
    BY <2>3 DEF PickBatch, FinishRun, EndBatch, OrphanStep, OrphanReturns
  <2>4. ASSUME NEW s \in toLaunch, NEW err, Launch(s, err) PROVE Final
    <3>1. status[s] = "pending" /\ s \in AllSteps
      BY <2>4 DEF EngineInv, CallShape, ReadySteps, EngineTypeOK
    <3> QED
      BY <2>1, <2>4, <3>1 DEF Launch
  <2>5. ASSUME NEW s \in live, NEW err, StepReturns(s, err) PROVE Final
    BY <2>5 DEF StepReturns
  <2>6. ASSUME NEW item \in ch, DrainFailure(item) PROVE Final
    <3>1. status[item.id] = "running" /\ item.id \in AllSteps
      BY <2>6 DEF DrainFailure, EngineInv, BatchAccounted, InProgress, EngineTypeOK
    <3> QED
      BY <2>1, <2>6, <3>1 DEF DrainFailure
  <2>7. ASSUME NEW item \in ch, NEW err, DrainSuccess(item, err) PROVE Final
    BY <2>1, <2>7 DEF DrainSuccess
  <2> QED
    BY <2>2, <2>3, <2>4, <2>5, <2>6, <2>7 DEF EngineNext, EngineStep
<1> QED
  BY <1>1, EngineInitInv, EngineNextInv, PTL DEF EngineSpec, SuccessIsFinal

\* At most MaxParallel steps of a call are launched or about to be.
THEOREM EngineParallelBound == EngineSpec => []ParallelBound
<1> DEFINE W == InProgress \cup toLaunch
<1>1. EngineInit => ParallelBound
  <2> SUFFICES ASSUME EngineInit PROVE ParallelBound
    OBVIOUS
  <2>1. W = {}
    BY DEF EngineInit, InProgress
  <2>2. Cardinality(W) = 0
    BY <2>1, FS_EmptySet
  <2> QED
    BY <2>2, StepsAssumption DEF ParallelBound, ParallelLimit
<1>2. EngineInv /\ ParallelBound /\ [EngineNext]_engineVars => ParallelBound'
  <2> SUFFICES ASSUME EngineInv, ParallelBound, [EngineNext]_engineVars
               PROVE  ParallelBound'
    OBVIOUS
  <2>0. W \subseteq AllSteps /\ IsFiniteSet(W)
    <3>1. W \subseteq AllSteps
      BY DEF EngineInv, EngineTypeOK, InProgress
    <3> QED
      BY <3>1, StepsAssumption, FS_Subset
  <2>1. CASE W' \subseteq W
    BY <2>0, <2>1, FS_Subset, FS_CardinalityType, StepsAssumption DEF ParallelBound, ParallelLimit
  <2>2. CASE W' \subseteq Batch(def, status)
    <3>1. Batch(def, status) \subseteq AllSteps /\ def \in Definitions
      BY DefFields DEF EngineInv, EngineTypeOK, Batch, ReadySteps
    <3>2. IsFiniteSet(Batch(def, status))
      BY <3>1, StepsAssumption, FS_Subset
    <3> QED
      BY <2>2, <3>1, <3>2, BatchSmall, FS_Subset, FS_CardinalityType, StepsAssumption
         DEF ParallelBound, ParallelLimit
  <2>3. CASE StartStep \/ FinishRun \/ EndBatch \/ OrphanStep \/ UNCHANGED engineVars
    <3>1. W' \subseteq W
      BY <2>3 DEF StartStep, StartRun, FinishRun, EndBatch, OrphanStep, OrphanReturns,
                  Return, InProgress, engineVars
    <3> QED
      BY <2>1, <3>1
  <2>4. CASE PickBatch
    <3>1. W' \subseteq Batch(def, status)
      BY <2>4 DEF PickBatch, InProgress, EngineInv, CallShape
    <3> QED
      BY <2>2, <3>1
  <2>5. ASSUME NEW s \in toLaunch, NEW err, Launch(s, err) PROVE ParallelBound'
    <3>1. W' \subseteq W
      BY <2>5 DEF Launch, Return, InProgress
    <3> QED
      BY <2>1, <3>1
  <2>6. ASSUME NEW s \in live, NEW err, StepReturns(s, err) PROVE ParallelBound'
    <3>1. \A i \in ch' : i.id \in W
      BY <2>6 DEF StepReturns, InProgress
    <3>2. W' \subseteq W
      BY <2>6, <3>1 DEF StepReturns, InProgress
    <3> QED
      BY <2>1, <3>2
  <2>7. ASSUME NEW item \in ch, NEW err, DrainFailure(item) \/ DrainSuccess(item, err)
        PROVE  ParallelBound'
    <3>1. W' \subseteq W
      BY <2>7 DEF DrainFailure, DrainSuccess, Return, InProgress
    <3> QED
      BY <2>1, <3>1
  <2> QED
    BY <2>3, <2>4, <2>5, <2>6, <2>7 DEF EngineNext, EngineStep
<1> QED
  BY <1>1, <1>2, EngineInitInv, EngineNextInv, PTL DEF EngineSpec

-----------------------------------------------------------------------------
(***************************************************************************)
(* The engine implements DagExecution.  The mapping hides the batch: a step  *)
(* is taken up when it is launched and settled when its result is received,  *)
(* so the abstract state changes at Launch, DrainFailure, DrainSuccess and   *)
(* at the ends of a call only.                                               *)
(***************************************************************************)
\* A call that is going to return a step's error has a step that stopped.
ErrorHasCulprit ==
    pc = "wait" /\ errToReturn # "nil" => \E s \in def.steps : status[s] \in Stopped

\* What the mapping makes of each status.
LEMMA PhaseOfStatus ==
    ASSUME NEW st \in StepStatus
    PROVE  /\ PhaseOf(st) = "todo" <=> st = "pending"
           /\ PhaseOf(st) = "doing" <=> st = "running"
           /\ PhaseOf(st) = "done" <=> st = "success"
           /\ PhaseOf(st) = "stopped" <=> st \in Stopped \cup {"skipped"}
BY DEF PhaseOf, StepStatus, Stopped

\* The engine starts where the abstract specification does.
LEMMA RefinesInit == EngineInit => Abstract!AbsInit
<1> SUFFICES ASSUME EngineInit PROVE Abstract!AbsInit
  OBVIOUS
<1>1. [s \in AllSteps |-> PhaseOf(status[s])] = [s \in AllSteps |-> "todo"]
  BY DEF EngineInit, PhaseOf
<1>2. (pc \in {"loop", "launch", "wait"}) = FALSE
  BY DEF EngineInit
<1> QED
  BY <1>1, <1>2 DEF EngineInit, Abstract!AbsInit

\* An error to return is always the error of a step of this call.
LEMMA CulpritInv ==
    EngineInv /\ ErrorHasCulprit /\ [EngineNext]_engineVars => ErrorHasCulprit'
<1> SUFFICES ASSUME EngineInv, ErrorHasCulprit, [EngineNext]_engineVars
             PROVE  ErrorHasCulprit'
  OBVIOUS
<1>0. /\ status \in [AllSteps -> StepStatus] /\ def.steps \subseteq AllSteps
      /\ pc = "launch" => errToReturn = "nil"
  BY DefFields DEF EngineInv, EngineTypeOK, CallShape
<1>1. CASE StartStep
  BY <1>1 DEF StartStep, StartRun, Return, ErrorHasCulprit
<1>2. CASE PickBatch \/ FinishRun \/ EndBatch
  BY <1>2 DEF PickBatch, FinishRun, EndBatch, Return, ErrorHasCulprit
<1>3. CASE OrphanStep \/ UNCHANGED engineVars
  BY <1>3 DEF OrphanStep, OrphanReturns, engineVars, ErrorHasCulprit
<1>4. ASSUME NEW s \in toLaunch, NEW err, Launch(s, err) PROVE ErrorHasCulprit'
  BY <1>0, <1>4 DEF Launch, Return, ErrorHasCulprit
<1>5. ASSUME NEW s \in live, NEW err, StepReturns(s, err) PROVE ErrorHasCulprit'
  BY <1>5 DEF StepReturns, ErrorHasCulprit
<1>6. ASSUME NEW item \in ch, DrainFailure(item) PROVE ErrorHasCulprit'
  <2>1. item.id \in AllSteps /\ status[item.id] = "running" /\ item.id \in def.steps
    BY <1>6 DEF DrainFailure, EngineInv, EngineTypeOK, CallShape, BatchAccounted, InProgress
  <2>2. StatusOfError(item.err) \in Stopped
    BY DEF StatusOfError, PauseErrors, Stopped
  <2> QED
    BY <1>0, <1>6, <2>1, <2>2 DEF DrainFailure, ErrorHasCulprit
<1>7. ASSUME NEW item \in ch, NEW err, DrainSuccess(item, err) PROVE ErrorHasCulprit'
  <2>1. item.id \in AllSteps /\ status[item.id] = "running"
    BY <1>7 DEF DrainSuccess, EngineInv, EngineTypeOK, BatchAccounted, InProgress
  <2> QED
    BY <1>0, <1>7, <2>1 DEF DrainSuccess, Return, ErrorHasCulprit, Stopped
<1> QED
  BY <1>1, <1>2, <1>3, <1>4, <1>5, <1>6, <1>7 DEF EngineNext, EngineStep

\* DagExecution counts the way this module does.
LEMMA SameCardinality ==
    ASSUME NEW S PROVE Abstract!Cardinality(S) = Cardinality(S)
BY DEF Abstract!Cardinality, Cardinality

\* One step changes its status: the mapped phases change at that step only.
LEMMA PhaseUpdate ==
    ASSUME status \in [AllSteps -> StepStatus], NEW s \in AllSteps, NEW st,
           status' = [status EXCEPT ![s] = st]
    PROVE  [t \in AllSteps |-> PhaseOf(status'[t])]
             = [[t \in AllSteps |-> PhaseOf(status[t])] EXCEPT ![s] = PhaseOf(st)]
OBVIOUS

\* Launching a step is taking it up: its dependencies are done, nothing has
\* stopped, and the rest of the batch leaves room for it.
LEMMA RefinesLaunch ==
    ASSUME EngineInv, ParallelBound, NEW s \in toLaunch,
           NEW err \in EmitErrors \cup {"nil"}, Launch(s, err)
    PROVE  Abstract!TakeUp(s)
<1> DEFINE Ph == [t \in AllSteps |-> PhaseOf(status[t])]
<1>1. /\ pc = "launch" /\ s \in AllSteps /\ s \in def.steps /\ status[s] = "pending"
      /\ \A t \in def.dependsOn[s] : t \in AllSteps /\ status[t] = "success"
      /\ \A t \in AllSteps : status[t] \in StepStatus \ (Stopped \cup {"skipped"})
      /\ status \in [AllSteps -> StepStatus]
  BY DefFields DEF Launch, EngineInv, CallShape, ReadySteps, EngineTypeOK, IsDone
<1>2. \A t \in AllSteps : Ph[t] # "stopped"
  BY <1>1, PhaseOfStatus
<1>3. Ph[s] = "todo" /\ \A t \in def.dependsOn[s] : Ph[t] = "done"
  BY <1>1 DEF PhaseOf
<1>4. Cardinality(Abstract!Doing(Ph)) < ParallelLimit
  <2> DEFINE D == {t \in AllSteps : status[t] = "running"}
             W == InProgress \cup toLaunch
  <2>1. Abstract!Doing(Ph) = D
    BY <1>1, PhaseOfStatus DEF Abstract!Doing
  <2>2. D \cup {s} \subseteq W /\ s \notin D /\ W \subseteq AllSteps
    BY <1>1 DEF EngineInv, BatchAccounted, EngineTypeOK, InProgress
  <2>3. IsFiniteSet(W) /\ IsFiniteSet(D)
    BY <2>2, StepsAssumption, FS_Subset
  <2>4. Cardinality(D \cup {s}) = Cardinality(D) + 1
    BY <2>2, <2>3, FS_AddElement
  <2>5. Cardinality(D \cup {s}) <= Cardinality(W)
    BY <2>2, <2>3, FS_Subset
  <2>6. /\ Cardinality(D) \in Nat /\ Cardinality(W) \in Nat
        /\ ParallelLimit \in Nat /\ Cardinality(W) <= ParallelLimit
    BY <2>3, FS_CardinalityType, StepsAssumption DEF ParallelBound, ParallelLimit
  <2> HIDE DEF D, W
  <2> QED
    BY <2>1, <2>4, <2>5, <2>6
<1>5. [t \in AllSteps |-> PhaseOf(status'[t])] = [Ph EXCEPT ![s] = "doing"]
  BY <1>1, PhaseUpdate DEF Launch, PhaseOf
<1>6. /\ def' = def
      /\ \/ pc' \in {"launch", "wait"} /\ retErr' = retErr
         \/ pc' = "returned" /\ retErr' # "nil"
  BY DEF Launch, Return, EmitErrors
<1>7. Abstract!GoOnOrAbort
  BY <1>6 DEF Abstract!GoOnOrAbort
<1> QED
  BY <1>1, <1>2, <1>3, <1>4, <1>5, <1>6, <1>7, SameCardinality DEF Abstract!TakeUp

\* Receiving a result settles the step.
LEMMA RefinesDrain ==
    ASSUME EngineInv, NEW item \in ch, NEW err \in EmitErrors \cup {"nil"},
           DrainFailure(item) \/ DrainSuccess(item, err)
    PROVE  Abstract!Settle(item.id)
<1> DEFINE Ph == [t \in AllSteps |-> PhaseOf(status[t])]
           s == item.id
<1>1. /\ pc = "wait" /\ s \in AllSteps /\ status[s] = "running"
      /\ status \in [AllSteps -> StepStatus] /\ item.err \in StepErrors \cup {"nil"}
  BY DEF DrainFailure, DrainSuccess, EngineInv, EngineTypeOK, BatchAccounted, InProgress
<1>2. PICK st \in Stopped \cup {"success"} : status' = [status EXCEPT ![s] = st]
  BY DEF DrainFailure, DrainSuccess, StatusOfError, PauseErrors, Stopped
<1>3. PhaseOf(st) \in {"done", "stopped"}
  BY DEF PhaseOf, Stopped
<1>4. [t \in AllSteps |-> PhaseOf(status'[t])] = [Ph EXCEPT ![s] = PhaseOf(st)]
  BY <1>1, <1>2, PhaseUpdate
<1>5. Ph[s] = "doing"
  BY <1>1 DEF PhaseOf
<1>6. /\ def' = def
      /\ \/ pc' = "wait" /\ retErr' = retErr
         \/ pc' = "returned" /\ retErr' # "nil"
  BY <1>1 DEF DrainFailure, DrainSuccess, Return, EmitErrors
<1>7. Abstract!GoOnOrAbort
  BY <1>6 DEF Abstract!GoOnOrAbort
<1> QED
  BY <1>1, <1>3, <1>4, <1>5, <1>6, <1>7 DEF Abstract!Settle

\* Every step of the engine is a step of DagExecution or changes nothing there.
LEMMA RefinesNext ==
    EngineInv /\ ParallelBound /\ ErrorHasCulprit /\ [EngineNext]_engineVars
      => [Abstract!AbsNext]_(Abstract!absVars)
<1> SUFFICES ASSUME EngineInv, ParallelBound, ErrorHasCulprit, [EngineNext]_engineVars
             PROVE  [Abstract!AbsNext]_(Abstract!absVars)
  OBVIOUS
<1> DEFINE Ph == [t \in AllSteps |-> PhaseOf(status[t])]
<1>0. /\ status \in [AllSteps -> StepStatus] /\ def \in Definitions
      /\ def.steps \subseteq AllSteps
  BY DefFields DEF EngineInv, EngineTypeOK
<1>1. CASE StartStep
  <2>1. PICK d \in Definitions, p \in AllSteps \cup {NoStep}, seed \in SUBSET AllSteps :
           StartRun(d, p, seed)
    BY <1>1 DEF StartStep
  <2>2. /\ pc \notin {"loop", "launch", "wait"} /\ def' = d
        /\ \/ pc' = "loop" /\ retErr' = retErr
           \/ pc' = "returned" /\ retErr' # "nil"
    BY <2>1 DEF StartRun, Return
  <2>3. Ph' \in [AllSteps -> {"todo", "done"}]
    <3>1. \A t \in AllSteps : status'[t] \in {"pending", "success"}
      BY <2>1 DEF StartRun
    <3> QED
      BY <3>1 DEF PhaseOf
  <2>4. Abstract!Begin
    BY <2>2, <2>3 DEF Abstract!Begin
  <2> QED
    BY <2>4 DEF Abstract!AbsNext
<1>2. CASE FinishRun
  <2>1. \A s \in def.steps : status[s] = "success"
    BY <1>2, ReadyOrDone, DefFields DEF FinishRun, CallShape, EngineTypeOK, EngineInv
  <2>2. \A s \in def.steps : Ph[s] = "done"
    BY <1>0, <2>1 DEF PhaseOf
  <2>3. pc = "loop" /\ pc' = "returned" /\ retErr' = "nil" /\ UNCHANGED <<def, status>>
    BY <1>2, <2>1 DEF FinishRun, Return, IsDone
  <2>4. Abstract!Close
    BY <2>2, <2>3 DEF Abstract!Close
  <2> QED
    BY <2>4 DEF Abstract!AbsNext
<1>3. CASE EndBatch /\ errToReturn # "nil"
  <2>1. PICK s \in def.steps : status[s] \in Stopped
    BY <1>3 DEF EndBatch, ErrorHasCulprit
  <2>2. Ph[s] = "stopped"
    BY <1>0, <2>1 DEF PhaseOf, Stopped
  <2>3. pc = "wait" /\ pc' = "returned" /\ retErr' # "nil" /\ UNCHANGED <<def, status>>
    BY <1>3 DEF EndBatch, Return
  <2>4. Abstract!Close
    BY <2>1, <2>2, <2>3 DEF Abstract!Close
  <2> QED
    BY <2>4 DEF Abstract!AbsNext
<1>4. ASSUME NEW s \in toLaunch, NEW err \in EmitErrors \cup {"nil"}, Launch(s, err)
      PROVE  Abstract!AbsNext
  <2>1. s \in AllSteps
    BY DEF EngineInv, EngineTypeOK
  <2> QED
    BY <1>4, <2>1, RefinesLaunch DEF Abstract!AbsNext
<1>5. ASSUME NEW item \in ch, NEW err \in EmitErrors \cup {"nil"},
             DrainFailure(item) \/ DrainSuccess(item, err)
      PROVE  Abstract!AbsNext
  <2>1. item.id \in AllSteps
    BY DEF EngineInv, EngineTypeOK
  <2> QED
    BY <1>5, <2>1, RefinesDrain DEF Abstract!AbsNext
<1>6. CASE PickBatch \/ (EndBatch /\ errToReturn = "nil") \/ OrphanStep
           \/ (\E s \in live, err \in StepErrors \cup {"nil"} : StepReturns(s, err))
           \/ UNCHANGED engineVars
  <2>1. /\ UNCHANGED <<def, status, retErr>>
        /\ (pc \in {"loop", "launch", "wait"}) <=> (pc' \in {"loop", "launch", "wait"})
    BY <1>6 DEF PickBatch, EndBatch, OrphanStep, OrphanReturns, StepReturns, engineVars
  <2>2. UNCHANGED Abstract!absVars
    BY <2>1 DEF Abstract!absVars
  <2> QED
    BY <2>2
<1> QED
  BY <1>1, <1>2, <1>3, <1>4, <1>5, <1>6 DEF EngineNext, EngineStep

\* For every workflow and every MaxParallel the engine implements DagExecution:
\* what batches, goroutines and the channel do is invisible to its owner.
THEOREM EngineRefinesDagExecution == EngineSpec => ImplementsDagExecution
<1>1. EngineInit => ErrorHasCulprit
  BY DEF EngineInit, ErrorHasCulprit
<1> QED
  BY <1>1, RefinesInit, RefinesNext, CulpritInv, EngineInitInv, EngineNextInv,
     EngineParallelBound, PTL
     DEF EngineSpec, ImplementsDagExecution, Abstract!AbsSpec

=============================================================================
