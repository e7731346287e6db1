---------------------------- MODULE JobQueueProofs ----------------------------
(***************************************************************************)
(* Theorems about JobQueue for any numbers of tasks, goroutines, clients     *)
(* and slots.                                                                *)
(***************************************************************************)
EXTENDS JobQueue, FiniteSetTheorems, SequenceTheorems, WellFoundedInduction, TLAPS

Row  == [task : Tasks, status : JobStatus \ {"sleeping"}]
Ends == {"queued", "paused", "failed", "sleeping"}

RunRecord == [pc : RunPhases, job : Nat, to : Ends \cup {"none", "running"}]

\* Goroutine g, and it alone, goes to phase l.
Moved(g, l, to) ==
    /\ run' \in [Goroutines -> RunRecord]
    /\ run'[g].pc = l /\ run'[g].job = run[g].job /\ run'[g].to = to
    /\ \A h \in Goroutines : h # g => run'[h] = run[h]

\* The requests that may still create a row.
Busy == {c \in Clients : req[c].pc # "idle"}

RowsInv ==
    /\ rows \in Seq(Row)
    /\ requests \in Nat /\ requests <= MaxRequests
    /\ Len(rows) + Cardinality(Busy) <= requests

LoopInv ==
    /\ loop \in {"fill", "claim", "start", "wait", "reset"}
    /\ claimed \in BOOLEAN /\ wake \in BOOLEAN
    /\ taken \in 0..Len(rows) /\ (loop = "start" <=> taken # 0)
    /\ stuck \subseteq 1..Len(rows)

\* A goroutine has a job unless it is free, and what it is about to write is a
\* status the table knows.
RunInv ==
    /\ run \in [Goroutines -> RunRecord]
    /\ \A g \in Goroutines :
          /\ run[g].job <= Len(rows)
          /\ run[g].pc = "free" <=> run[g].job = 0
          /\ run[g].pc = "finish" => run[g].to \in Ends
          /\ run[g].pc = "finishWrite" => run[g].to \in Ends \ {"sleeping"}
    /\ canceled \subseteq Goroutines

ReqInv ==
    /\ req \in [Clients -> [pc : ReqPhases, op : Operations \cup {"none"},
                            task : Tasks \cup {None}, job : Nat]]
    /\ \A c \in Clients :
          /\ req[c].job <= Len(rows)
          /\ req[c].pc # "idle" => req[c].op \in Operations /\ req[c].task \in Tasks
          /\ req[c].pc \in {"validate", "write", "signal"} => req[c].job # 0

\* The semaphore counts the goroutines that hold a slot and the loop's own.
SlotInv ==
    /\ sem \in Nat /\ sem <= Concurrency
    /\ sem = Cardinality(Holding) + (IF loop \in {"claim", "start"} THEN 1 ELSE 0)

CancelInv ==
    /\ cancels \in [JobIds -> Goroutines \cup {None}]
    /\ CancelHitsOwnJob

QueueInv == RowsInv /\ LoopInv /\ RunInv /\ ReqInv /\ SlotInv /\ CancelInv

-----------------------------------------------------------------------------
\* A non-empty set of naturals has a least element.
LEMMA LeastNatural ==
    ASSUME NEW S, S \subseteq Nat, S # {}
    PROVE  \E n \in S : \A m \in S : n <= m
<1>1. PICK n \in S : \A m \in S : ~(<<m, n>> \in OpToRel(<, Nat))
  BY NatLessThanWellFounded, WFMin
<1>2. \A m \in S : <<m, n>> \in OpToRel(<, Nat) <=> m < n
  BY DEF OpToRel
<1>3. \A m \in S : ~(m < n)
  BY <1>1, <1>2, Zenon
<1> QED
  BY <1>3

\* LatestByTaskID returns a row of the table, of the task, or nothing.
LEMMA LatestIsARow ==
    ASSUME rows \in Seq(Row), NEW t
    PROVE  /\ Latest(t) \in 0..Len(rows)
           /\ Latest(t) # 0 => rows[Latest(t)].task = t
<1> DEFINE js == {j \in DOMAIN rows : rows[j].task = t}
<1>1. Len(rows) \in Nat /\ DOMAIN rows = 1..Len(rows)
  BY LenProperties
<1>2. CASE js = {}
  BY <1>1, <1>2 DEF Latest
<1>3. CASE js # {}
  <2> DEFINE room == {Len(rows) - j : j \in js}
  <2>1. room \subseteq Nat /\ room # {}
    BY <1>1, <1>3
  <2>2. PICK n \in room : \A k \in room : n <= k
    BY <2>1, LeastNatural
  <2>3. PICK j \in js : n = Len(rows) - j
    BY <2>2
  <2>4. \A k \in js : k <= j
    <3> TAKE k \in js
    <3>1. n <= Len(rows) - k
      BY <2>2
    <3> QED
      BY <1>1, <2>3, <3>1
  <2>5. Latest(t) \in js
    BY <1>3, <2>3, <2>4 DEF Latest
  <2> QED
    BY <1>1, <2>5
<1> QED
  BY <1>2, <1>3

\* Writing one row's status changes neither the number of rows nor their type.
LEMMA StatusWritten ==
    ASSUME rows \in Seq(Row), NEW j \in 1..Len(rows),
           NEW st \in JobStatus \ {"sleeping"}, SetStatus(j, st)
    PROVE  rows' \in Seq(Row) /\ Len(rows') = Len(rows)
<1>1. rows[j] \in Row
  BY ElementOfSeq
<1>2. [rows[j] EXCEPT !.status = st] \in Row
  BY <1>1 DEF Row
<1>3. rows' = [rows EXCEPT ![j] = [rows[j] EXCEPT !.status = st]]
  BY DEF SetStatus
<1> QED
  BY <1>2, <1>3, ExceptSeq

\* A transition the table accepts leads to a status of the table, unless the
\* row has the status already.
LEMMA AcceptedStatus ==
    ASSUME NEW from \in JobStatus \ {"sleeping"}, NEW to, ValidJobTransition(from, to)
    PROVE  to # "sleeping"
BY DEF ValidJobTransition, ValidWorkflowJobTransitions, JobStatus

LEMMA StatusOfARow ==
    ASSUME rows \in Seq(Row), NEW j \in 1..Len(rows)
    PROVE  StatusOf(j) \in JobStatus \ {"sleeping"}
<1>1. rows[j] \in Row
  BY ElementOfSeq
<1> QED
  BY <1>1 DEF StatusOf, Row

LEMMA HoldingFinite ==
    /\ IsFiniteSet(Holding) /\ Cardinality(Holding) \in Nat
    /\ IsFiniteSet(Busy) /\ Cardinality(Busy) \in Nat
<1>1. Holding \subseteq Goroutines /\ Busy \subseteq Clients
  BY DEF Holding, Busy
<1> QED
  BY <1>1, QueueAssumption, FS_Subset, FS_CardinalityType

\* The part of the invariant that a step of the worker loop cannot disturb as
\* long as it starts no goroutine.
LEMMA LoopMoves ==
    ASSUME QueueInv, rows' \in Seq(Row), Len(rows') = Len(rows),
           UNCHANGED <<run, canceled, cancels, req, requests>>
    PROVE  RowsInv' /\ RunInv' /\ ReqInv' /\ CancelInv' /\ Holding' = Holding
<1>1. Busy' = Busy /\ Holding' = Holding
  BY DEF Busy, Holding
<1>2. RowsInv'
  BY <1>1 DEF QueueInv, RowsInv
<1>3. RunInv'
  BY DEF QueueInv, RunInv
<1>4. ReqInv'
  BY DEF QueueInv, ReqInv
<1>5. CancelInv'
  BY DEF QueueInv, CancelInv, CancelHitsOwnJob
<1> QED
  BY <1>1, <1>2, <1>3, <1>4, <1>5

\* A goroutine that holds a slot goes on to another phase in which it holds it.
LEMMA RunMoves ==
    ASSUME QueueInv, NEW g \in Goroutines, g \in Holding,
           NEW l \in RunPhases \ {"free", "unregister"}, NEW to \in Ends \cup {"none", "running"},
           Moved(g, l, to),
           l = "finish" => to \in Ends,
           l = "finishWrite" => to \in Ends \ {"sleeping"},
           rows' \in Seq(Row), Len(rows') = Len(rows),
           UNCHANGED <<sem, canceled, cancels, loop, claimed, taken, wake, stuck, req, requests>>
    PROVE  QueueInv'
<1>1. Busy' = Busy
  BY DEF Busy
<1>2. RowsInv'
  BY <1>1 DEF QueueInv, RowsInv
<1>3. LoopInv'
  BY DEF QueueInv, LoopInv
<1>4. /\ run[g].pc # "free" /\ run[g].job \in Nat /\ run[g].job # 0 /\ run[g].job <= Len(rows)
      /\ run \in [Goroutines -> RunRecord]
  BY DEF QueueInv, RunInv, RunRecord, Holding
<1>5. /\ run' \in [Goroutines -> RunRecord]
      /\ run'[g].pc = l /\ run'[g].job = run[g].job /\ run'[g].to = to
      /\ \A h \in Goroutines : h # g => run'[h] = run[h]
      /\ \A h \in Goroutines : run'[h].job = run[h].job
  BY DEF Moved
<1>6. RunInv'
  BY <1>4, <1>5 DEF QueueInv, RunInv
<1>7. ReqInv'
  BY DEF QueueInv, ReqInv
<1>8. Holding' = Holding
  BY <1>5 DEF Holding
<1>9. SlotInv'
  BY <1>8 DEF QueueInv, SlotInv
<1>10. CancelInv'
  BY <1>5 DEF QueueInv, CancelInv, CancelHitsOwnJob
<1> QED
  BY <1>2, <1>3, <1>6, <1>7, <1>9, <1>10 DEF QueueInv

\* A request goes on or ends, without creating a row.
LEMMA RequestMoves ==
    ASSUME QueueInv, NEW c \in Clients, req[c].pc # "idle",
           NEW r \in [pc : ReqPhases, op : Operations \cup {"none"},
                      task : Tasks \cup {None}, job : 0..Len(rows)],
           r.pc # "idle" => r.op \in Operations /\ r.task \in Tasks,
           r.pc \in {"validate", "write", "signal"} => r.job # 0,
           req' = [req EXCEPT ![c] = r],
           wake' \in BOOLEAN, canceled' \subseteq Goroutines,
           rows' \in Seq(Row), Len(rows') = Len(rows),
           UNCHANGED <<loop, claimed, taken, sem, stuck, run, cancels, requests>>
    PROVE  QueueInv'
<1>1. /\ req' \in [Clients -> [pc : ReqPhases, op : Operations \cup {"none"},
                               task : Tasks \cup {None}, job : Nat]]
      /\ req'[c] = r
      /\ \A d \in Clients : d # c => req'[d] = req[d]
  BY DEF QueueInv, ReqInv, RowsInv
<1>2. Busy' \subseteq Busy
  BY <1>1 DEF Busy
<1>3. Cardinality(Busy') <= Cardinality(Busy) /\ Cardinality(Busy') \in Nat
  BY <1>2, HoldingFinite, FS_Subset, FS_CardinalityType
<1>4. Len(rows) \in Nat
  BY DEF QueueInv, RowsInv
<1>5. RowsInv'
  BY <1>3, <1>4, HoldingFinite DEF QueueInv, RowsInv
<1>6. LoopInv'
  BY DEF QueueInv, LoopInv
<1>7. RunInv'
  BY DEF QueueInv, RunInv
<1>8. ReqInv'
  BY <1>1, <1>4 DEF QueueInv, ReqInv
<1>9. SlotInv'
  <2>1. Holding' = Holding
    BY DEF Holding
  <2> QED
    BY <2>1 DEF QueueInv, SlotInv
<1>10. CancelInv'
  BY DEF QueueInv, CancelInv, CancelHitsOwnJob
<1> QED
  BY <1>5, <1>6, <1>7, <1>8, <1>9, <1>10 DEF QueueInv

-----------------------------------------------------------------------------
\* The invariant holds when the process starts.
LEMMA QueueInvInit == QueueInit => QueueInv
<1> SUFFICES ASSUME QueueInit PROVE QueueInv
  OBVIOUS
<1>1. Holding = {} /\ Busy = {}
  BY DEF QueueInit, Holding, Busy, IdleRun, IdleReq
<1>2. Cardinality(Holding) = 0 /\ Cardinality(Busy) = 0
  BY <1>1, FS_EmptySet
<1>3. rows \in Seq(Row) /\ Len(rows) = 0
  BY DEF QueueInit
<1>4. RowsInv
  BY <1>2, <1>3, QueueAssumption DEF QueueInit, RowsInv
<1>5. LoopInv
  <2>1. claimed \in BOOLEAN /\ wake \in BOOLEAN
    BY Zenon DEF QueueInit
  <2>2. /\ loop \in {"fill", "claim", "start", "wait", "reset"} /\ loop # "start"
        /\ taken = 0 /\ stuck = {}
    BY DEF QueueInit
  <2>3. taken \in 0..Len(rows) /\ stuck \subseteq 1..Len(rows)
    BY <1>3, <2>2
  <2> QED
    BY <2>1, <2>2, <2>3 DEF LoopInv
<1>6. RunInv
  BY <1>3 DEF QueueInit, RunInv, RunRecord, IdleRun, RunPhases
<1>7. ReqInv
  BY <1>3 DEF QueueInit, ReqInv, IdleReq, ReqPhases
<1>8. SlotInv
  BY <1>2, QueueAssumption DEF QueueInit, SlotInv
<1>9. CancelInv
  BY DEF QueueInit, CancelInv, CancelHitsOwnJob
<1> QED
  BY <1>4, <1>5, <1>6, <1>7, <1>8, <1>9 DEF QueueInv

\* The worker loop: slots are taken and given back in pairs.
LEMMA LoopKeepsInv == QueueInv /\ WorkerLoop => QueueInv'
<1> SUFFICES ASSUME QueueInv, WorkerLoop PROVE QueueInv'
  OBVIOUS
<1>0. /\ rows \in Seq(Row) /\ Len(rows) \in Nat /\ DOMAIN rows = 1..Len(rows)
      /\ Concurrency \in Nat /\ Concurrency # 0
      /\ Cardinality(Holding) \in Nat /\ IsFiniteSet(Holding)
  BY LenProperties, QueueAssumption, HoldingFinite DEF QueueInv, RowsInv
<1>1. CASE TakeSlot
  <2>1. RowsInv' /\ RunInv' /\ ReqInv' /\ CancelInv' /\ Holding' = Holding
    BY <1>0, <1>1, LoopMoves DEF TakeSlot, loopUnchanged, runs
  <2>2. LoopInv'
    BY <1>1 DEF TakeSlot, QueueInv, LoopInv
  <2>3. SlotInv'
    BY <1>0, <1>1, <2>1 DEF TakeSlot, QueueInv, SlotInv
  <2> QED
    BY <2>1, <2>2, <2>3 DEF QueueInv
<1>2. CASE NoSlot
  <2>1. RowsInv' /\ RunInv' /\ ReqInv' /\ CancelInv' /\ Holding' = Holding
    BY <1>0, <1>2, LoopMoves DEF NoSlot, loopUnchanged, runs
  <2>2. LoopInv'
    BY <1>2 DEF NoSlot, EndFill, QueueInv, LoopInv
  <2>3. SlotInv'
    BY <1>0, <1>2, <2>1 DEF NoSlot, EndFill, QueueInv, SlotInv
  <2> QED
    BY <2>1, <2>2, <2>3 DEF QueueInv
<1>3. CASE NothingClaimed
  <2>1. RowsInv' /\ RunInv' /\ ReqInv' /\ CancelInv' /\ Holding' = Holding
    BY <1>0, <1>3, LoopMoves DEF NothingClaimed, loopUnchanged, runs
  <2>2. LoopInv'
    BY <1>3 DEF NothingClaimed, EndFill, QueueInv, LoopInv
  <2>3. SlotInv'
    BY <1>0, <1>3, <2>1 DEF NothingClaimed, EndFill, QueueInv, SlotInv
  <2> QED
    BY <2>1, <2>2, <2>3 DEF QueueInv
<1>4. ASSUME NEW j \in DOMAIN rows, ClaimNext(j) PROVE QueueInv'
  <2>1. rows' \in Seq(Row) /\ Len(rows') = Len(rows)
    BY <1>0, <1>4, StatusWritten DEF ClaimNext, JobStatus
  <2>2. RowsInv' /\ RunInv' /\ ReqInv' /\ CancelInv' /\ Holding' = Holding
    BY <1>4, <2>1, LoopMoves DEF ClaimNext, loopUnchanged, runs
  <2>3. LoopInv'
    BY <1>0, <1>4, <2>1 DEF ClaimNext, QueueInv, LoopInv
  <2>4. SlotInv'
    BY <1>0, <1>4, <2>2 DEF ClaimNext, QueueInv, SlotInv
  <2> QED
    BY <2>2, <2>3, <2>4 DEF QueueInv
<1>5. ASSUME NEW g \in Goroutines, StartRun(g) PROVE QueueInv'
  <2>1. /\ run[g].pc = "free" /\ run[g].job = 0
        /\ taken \in 1..Len(rows) /\ taken \in JobIds
        /\ loop = "start" /\ loop' = "fill" /\ taken' = 0
    BY <1>0, <1>5, HoldingFinite, QueueAssumption
       DEF StartRun, QueueInv, RunInv, LoopInv, RowsInv, JobIds
  <2>2. run \in [Goroutines -> RunRecord]
    BY DEF QueueInv, RunInv
  <2>3. /\ run' \in [Goroutines -> RunRecord]
        /\ run'[g] = [pc |-> "start", job |-> taken, to |-> "running"]
        /\ \A h \in Goroutines : h # g => run'[h] = run[h]
    BY <1>0, <1>5, <2>1, <2>2 DEF StartRun, RunRecord, RunPhases
  <2>4. Busy' = Busy
    BY <1>5 DEF StartRun, loopUnchanged, Busy
  <2>5. RowsInv'
    BY <1>5, <2>4 DEF StartRun, loopUnchanged, QueueInv, RowsInv
  <2>6. LoopInv'
    BY <1>0, <1>5, <2>1 DEF StartRun, QueueInv, LoopInv
  <2>7. RunInv'
    BY <1>0, <1>5, <2>1, <2>3 DEF StartRun, QueueInv, RunInv
  <2>8. ReqInv'
    BY <1>5 DEF StartRun, loopUnchanged, QueueInv, ReqInv
  <2>9. SlotInv'
    <3>1. Holding' = Holding \cup {g} /\ g \notin Holding
      BY <2>1, <2>3 DEF Holding
    <3>2. Cardinality(Holding') = Cardinality(Holding) + 1
      BY <1>0, <3>1, FS_AddElement
    <3> QED
      BY <1>0, <1>5, <2>1, <3>2 DEF StartRun, QueueInv, SlotInv
  <2>10. CancelInv'
    <3>1. /\ cancels \in [JobIds -> Goroutines \cup {None}]
          /\ \A j \in JobIds : cancels[j] # None => run[cancels[j]].job = j
      BY DEF QueueInv, CancelInv, CancelHitsOwnJob
    <3>2. \A j \in JobIds : cancels[j] # None => cancels[j] # g
      BY <2>1, <3>1 DEF JobIds
    <3>3. cancels' = [cancels EXCEPT ![taken] = g]
      BY <1>5 DEF StartRun
    <3> QED
      BY <2>1, <2>3, <3>1, <3>2, <3>3 DEF CancelInv, CancelHitsOwnJob
  <2> QED
    BY <2>5, <2>6, <2>7, <2>8, <2>9, <2>10 DEF QueueInv
<1>6. CASE WakeUp
  <2>1. RowsInv' /\ RunInv' /\ ReqInv' /\ CancelInv' /\ Holding' = Holding
    BY <1>0, <1>6, LoopMoves DEF WakeUp, loopUnchanged, runs
  <2>2. LoopInv'
    BY <1>6 DEF WakeUp, QueueInv, LoopInv
  <2>3. SlotInv'
    BY <1>0, <1>6, <2>1 DEF WakeUp, QueueInv, SlotInv
  <2> QED
    BY <2>1, <2>2, <2>3 DEF QueueInv
<1>7. ASSUME NEW old \in SUBSET Dead, Tick(old) PROVE QueueInv'
  <2>1. RowsInv' /\ RunInv' /\ ReqInv' /\ CancelInv' /\ Holding' = Holding
    BY <1>0, <1>7, LoopMoves DEF Tick, loopUnchanged, runs
  <2>2. LoopInv'
    BY <1>0, <1>7 DEF Tick, Dead, QueueInv, LoopInv
  <2>3. SlotInv'
    BY <1>0, <1>7, <2>1 DEF Tick, QueueInv, SlotInv
  <2> QED
    BY <2>1, <2>2, <2>3 DEF QueueInv
<1>8. ASSUME NEW g \in Goroutines, TickSlowStep(g) PROVE QueueInv'
  <2>1. RowsInv' /\ RunInv' /\ ReqInv' /\ CancelInv' /\ Holding' = Holding
    BY <1>0, <1>8, LoopMoves DEF TickSlowStep, loopUnchanged, runs
  <2>2. run[g].job \in 1..Len(rows)
    BY <1>0, <1>8 DEF TickSlowStep, QueueInv, RunInv, RunRecord
  <2>3. LoopInv'
    BY <1>0, <1>8, <2>2 DEF TickSlowStep, Dead, QueueInv, LoopInv
  <2>4. SlotInv'
    BY <1>0, <1>8, <2>1 DEF TickSlowStep, QueueInv, SlotInv
  <2> QED
    BY <2>1, <2>3, <2>4 DEF QueueInv
<1>9. CASE ResetStuckJobs
  <2> DEFINE e(j) == IF j \in stuck THEN [rows[j] EXCEPT !.status = "queued"] ELSE rows[j]
  <2>1. \A j \in 1..Len(rows) : e(j) \in Row
    <3> TAKE j \in 1..Len(rows)
    <3>1. rows[j] \in Row
      BY <1>0, ElementOfSeq
    <3> QED
      BY <3>1 DEF Row, JobStatus
  <2>2. rows' = [j \in 1..Len(rows) |-> e(j)]
    BY <1>0, <1>9 DEF ResetStuckJobs
  <2> HIDE DEF e
  <2>3. rows' \in [1..Len(rows) -> Row]
    BY <2>1, <2>2
  <2>4. rows' \in Seq(Row)
    BY <1>0, <2>3, SeqDef
  <2>5. Len(rows') = Len(rows)
    <3>1. DOMAIN rows' = 1..Len(rows) /\ DOMAIN rows' = 1..Len(rows') /\ Len(rows') \in Nat
      BY <2>3, <2>4, LenProperties
    <3> QED
      BY <1>0, <3>1
  <2>6. RowsInv' /\ RunInv' /\ ReqInv' /\ CancelInv' /\ Holding' = Holding
    BY <1>9, <2>4, <2>5, LoopMoves DEF ResetStuckJobs, loopUnchanged, runs
  <2>7. LoopInv'
    BY <1>9, <2>5 DEF ResetStuckJobs, QueueInv, LoopInv
  <2>8. SlotInv'
    BY <1>0, <1>9, <2>6 DEF ResetStuckJobs, QueueInv, SlotInv
  <2> QED
    BY <2>6, <2>7, <2>8 DEF QueueInv
<1> QED
  BY <1>1, <1>2, <1>3, <1>4, <1>5, <1>6, <1>7, <1>8, <1>9 DEF WorkerLoop

\* A run goroutine: a slot is given back exactly once, and no status outside
\* the table is written.
LEMMA RunKeepsInv ==
    ASSUME NEW g \in Goroutines, QueueInv, RunStep(g)
    PROVE  QueueInv'
<1>0. /\ rows \in Seq(Row) /\ Len(rows) \in Nat
      /\ run \in [Goroutines -> RunRecord] /\ run[g] \in RunRecord
      /\ run[g].pc # "free" => run[g].job \in 1..Len(rows)
      /\ run[g].to \in Ends \cup {"none", "running"}
  BY LenProperties DEF QueueInv, RowsInv, RunInv, RunRecord
<1>1. ASSUME NEW l \in RunPhases, GoTo(g, l)
      PROVE  Moved(g, l, run[g].to)
  <2>1. [run[g] EXCEPT !.pc = l] \in RunRecord
    BY <1>0 DEF RunRecord
  <2>2. run' = [run EXCEPT ![g] = [run[g] EXCEPT !.pc = l]]
    BY <1>1 DEF GoTo
  <2> QED
    BY <1>0, <2>1, <2>2 DEF Moved, RunRecord
<1>2. ASSUME NEW l \in RunPhases, NEW to \in Ends,
             run' = [run EXCEPT ![g].pc = l, ![g].to = to]
      PROVE  Moved(g, l, to)
  <2> DEFINE r == [[run[g] EXCEPT !.pc = l] EXCEPT !.to = to]
  <2>1. r \in RunRecord /\ r.pc = l /\ r.job = run[g].job /\ r.to = to
    BY <1>0 DEF RunRecord
  <2>2. run' = [run EXCEPT ![g] = r]
    BY <1>0, <1>2
  <2> HIDE DEF r
  <2> QED
    BY <1>0, <2>1, <2>2 DEF Moved
<1>3. ASSUME NEW st \in JobStatus \ {"sleeping"}, run[g].pc # "free", SetStatus(run[g].job, st)
      PROVE  rows' \in Seq(Row) /\ Len(rows') = Len(rows)
  BY <1>0, <1>3, StatusWritten
<1>4. run[g].pc \notin {"free", "unregister"} => g \in Holding
  BY DEF Holding
<1>5. CASE StartValidate(g)
  BY <1>0, <1>1, <1>4, <1>5, RunMoves DEF StartValidate, runUnchanged, RunPhases
<1>6. CASE StartWrite(g)
  <2>1. rows' \in Seq(Row) /\ Len(rows') = Len(rows)
    BY <1>0, <1>3, <1>6 DEF StartWrite, JobStatus
  <2> QED
    BY <1>0, <1>1, <1>4, <1>6, <2>1, RunMoves DEF StartWrite, runUnchanged, RunPhases
<1>7. CASE StepPauses(g)
  BY <1>0, <1>2, <1>4, <1>7, RunMoves DEF StepPauses, runUnchanged, RunPhases, Ends
<1>8. CASE EventValidate(g)
  BY <1>0, <1>1, <1>4, <1>8, RunMoves DEF EventValidate, runUnchanged, RunPhases
<1>9. CASE EventWrite(g)
  <2>1. rows' \in Seq(Row) /\ Len(rows') = Len(rows)
    BY <1>0, <1>3, <1>9 DEF EventWrite, JobStatus
  <2> QED
    BY <1>0, <1>1, <1>4, <1>9, <2>1, RunMoves DEF EventWrite, runUnchanged, RunPhases
<1>10. ASSUME NEW to \in Ends, RunEnds(g, to) PROVE QueueInv'
  BY <1>0, <1>2, <1>4, <1>10, RunMoves DEF RunEnds, runUnchanged, RunPhases
<1>11. CASE RunCanceled(g)
  BY <1>0, <1>1, <1>2, <1>4, <1>11, RunMoves DEF RunCanceled, runUnchanged, RunPhases, Ends
<1>12. CASE FinishValidate(g)
  <2>1. run[g].pc = "finish" /\ run[g].to \in Ends
    BY <1>12 DEF FinishValidate, QueueInv, RunInv
  <2>2. StatusOf(run[g].job) \in JobStatus \ {"sleeping"}
    BY <1>0, <2>1, StatusOfARow
  <2>3. Accepted(g, run[g].to) => run[g].to # "sleeping"
    BY <2>2, AcceptedStatus DEF Accepted
  <2> QED
    BY <1>0, <1>1, <1>4, <1>12, <2>1, <2>3, RunMoves
       DEF FinishValidate, runUnchanged, RunPhases
<1>13. CASE FinishWrite(g)
  <2>1. run[g].pc = "finishWrite" /\ run[g].to \in Ends \ {"sleeping"}
    BY <1>13 DEF FinishWrite, QueueInv, RunInv
  <2>2. rows' \in Seq(Row) /\ Len(rows') = Len(rows)
    BY <1>0, <1>3, <1>13, <2>1 DEF FinishWrite, JobStatus, Ends
  <2> QED
    BY <1>0, <1>1, <1>4, <1>13, <2>1, <2>2, RunMoves DEF FinishWrite, runUnchanged, RunPhases
<1>14. CASE Leave(g)
  <2>1. run[g].pc = "leave" /\ run[g].job # 0 /\ Moved(g, "unregister", run[g].to)
    BY <1>0, <1>1, <1>14 DEF Leave, RunPhases
  <2>2. /\ run' \in [Goroutines -> RunRecord]
        /\ run'[g].pc = "unregister" /\ run'[g].job = run[g].job
        /\ \A h \in Goroutines : h # g => run'[h] = run[h]
        /\ \A h \in Goroutines : run'[h].job = run[h].job
    BY <2>1 DEF Moved
  <2>3. Busy' = Busy
    BY <1>14 DEF Leave, runUnchanged, Busy
  <2>4. RowsInv'
    BY <1>14, <2>3 DEF Leave, runUnchanged, QueueInv, RowsInv
  <2>5. LoopInv'
    BY <1>14 DEF Leave, runUnchanged, QueueInv, LoopInv
  <2>6. RunInv'
    BY <1>0, <1>14, <2>1, <2>2 DEF Leave, runUnchanged, QueueInv, RunInv
  <2>7. ReqInv'
    BY <1>14 DEF Leave, runUnchanged, QueueInv, ReqInv
  <2>8. SlotInv'
    <3>1. Holding' = Holding \ {g} /\ g \in Holding
      BY <2>1, <2>2 DEF Holding
    <3>2. Cardinality(Holding') = Cardinality(Holding) - 1 /\ Cardinality(Holding) \in Nat
      BY <3>1, HoldingFinite, FS_RemoveElement
    <3>3. Cardinality(Holding') \in Nat
      <4>1. IsFiniteSet(Holding')
        BY <3>1, HoldingFinite, FS_RemoveElement
      <4> QED
        BY <4>1, FS_CardinalityType
    <3>4. sem' = sem - 1 /\ loop' = loop
      BY <1>14 DEF Leave, runUnchanged
    <3> QED
      BY <3>2, <3>3, <3>4, QueueAssumption DEF QueueInv, SlotInv
  <2>9. CancelInv'
    BY <1>14, <2>2 DEF Leave, QueueInv, CancelInv, CancelHitsOwnJob
  <2> QED
    BY <2>4, <2>5, <2>6, <2>7, <2>8, <2>9 DEF QueueInv
<1>15. CASE Unregister(g)
  <2>1. run[g].pc = "unregister" /\ run[g].job \in 1..Len(rows) /\ run[g].job \in JobIds
    BY <1>0, <1>15, HoldingFinite, QueueAssumption DEF Unregister, QueueInv, RowsInv, JobIds
  <2>2. /\ run' \in [Goroutines -> RunRecord]
        /\ run'[g] = IdleRun /\ run'[g].pc = "free" /\ run'[g].job = 0
        /\ \A h \in Goroutines : h # g => run'[h] = run[h]
    BY <1>0, <1>15 DEF Unregister, IdleRun, RunRecord, RunPhases
  <2>3. Busy' = Busy
    BY <1>15 DEF Unregister, runUnchanged, Busy
  <2>4. RowsInv'
    BY <1>15, <2>3 DEF Unregister, runUnchanged, QueueInv, RowsInv
  <2>5. LoopInv'
    BY <1>15 DEF Unregister, runUnchanged, QueueInv, LoopInv
  <2>6. RunInv'
    BY <1>0, <1>15, <2>2 DEF Unregister, QueueInv, RunInv
  <2>7. ReqInv'
    BY <1>15 DEF Unregister, runUnchanged, QueueInv, ReqInv
  <2>8. SlotInv'
    <3>1. Holding' = Holding
      BY <2>1, <2>2 DEF Holding
    <3> QED
      BY <1>15, <3>1 DEF Unregister, runUnchanged, QueueInv, SlotInv
  <2>9. CancelInv'
    <3>1. /\ cancels \in [JobIds -> Goroutines \cup {None}]
          /\ \A j \in JobIds : cancels[j] # None => run[cancels[j]].job = j
      BY DEF QueueInv, CancelInv, CancelHitsOwnJob
    <3>2. cancels' = [cancels EXCEPT ![run[g].job] = None]
      BY <1>15 DEF Unregister
    <3>3. \A j \in JobIds : cancels'[j] # None => cancels'[j] = cancels[j] /\ cancels[j] # g
      BY <2>1, <3>1, <3>2
    <3> QED
      BY <2>1, <2>2, <3>1, <3>2, <3>3 DEF CancelInv, CancelHitsOwnJob
  <2> QED
    BY <2>4, <2>5, <2>6, <2>7, <2>8, <2>9 DEF QueueInv
<1> QED
  BY <1>5, <1>6, <1>7, <1>8, <1>9, <1>10, <1>11, <1>12, <1>13, <1>14, <1>15 DEF RunStep, Ends

\* A request: it names a row of the table when it writes one, and creates at
\* most one row before it ends.
LEMMA RequestKeepsInv ==
    ASSUME NEW c \in Clients, QueueInv, RequestStep(c)
    PROVE  QueueInv'
<1>0. /\ rows \in Seq(Row) /\ Len(rows) \in Nat
      /\ req \in [Clients -> [pc : ReqPhases, op : Operations \cup {"none"},
                              task : Tasks \cup {None}, job : Nat]]
      /\ req[c].job \in 0..Len(rows)
      /\ req[c].pc # "idle" => req[c].op \in Operations /\ req[c].task \in Tasks
      /\ req[c].pc \in {"validate", "write", "signal"} => req[c].job \in 1..Len(rows)
      /\ wake \in BOOLEAN /\ canceled \subseteq Goroutines
  BY LenProperties DEF QueueInv, RowsInv, ReqInv, LoopInv, RunInv
<1> DEFINE r(l, j) == [pc |-> l, op |-> req[c].op, task |-> req[c].task, job |-> j]
           KeepsRest == /\ wake' \in BOOLEAN /\ canceled' \subseteq Goroutines
                        /\ rows' \in Seq(Row) /\ Len(rows') = Len(rows)
                        /\ UNCHANGED <<loop, claimed, taken, sem, stuck, run, cancels, requests>>
<1>1. ASSUME NEW l \in ReqPhases, NEW j \in 0..Len(rows), req[c].pc # "idle",
             l \in {"validate", "write", "signal"} => j # 0,
             req' = [req EXCEPT ![c] = r(l, j)], KeepsRest
      PROVE  QueueInv'
  BY <1>0, <1>1, RequestMoves
<1>2. ASSUME NEW l \in ReqPhases, NEW j \in 0..Len(rows),
             req' = [req EXCEPT ![c].pc = l, ![c].job = j]
      PROVE  req' = [req EXCEPT ![c] = r(l, j)]
  <2>1. [[req[c] EXCEPT !.pc = l] EXCEPT !.job = j] = r(l, j)
    <3>1. [req[c] EXCEPT !.pc = l] = r(l, req[c].job)
      BY <1>0
    <3>2. [r(l, req[c].job) EXCEPT !.job = j] = r(l, j)
      OBVIOUS
    <3> QED
      BY <3>1, <3>2, Zenon
  <2>2. req' = [req EXCEPT ![c] = [[req[c] EXCEPT !.pc = l] EXCEPT !.job = j]]
    BY <1>0, <1>2
  <2> QED
    BY <2>1, <2>2
<1>3. ASSUME NEW l \in ReqPhases, NextReq(c, l)
      PROVE  req' = [req EXCEPT ![c] = r(l, req[c].job)]
  <2>1. [req[c] EXCEPT !.pc = l] = r(l, req[c].job)
    BY <1>0
  <2>2. req' = [req EXCEPT ![c] = [req[c] EXCEPT !.pc = l]]
    BY <1>3 DEF NextReq
  <2> QED
    BY <2>1, <2>2
<1>4. ASSUME EndReq(c), req[c].pc # "idle", KeepsRest
      PROVE  QueueInv'
  <2>1. /\ IdleReq \in [pc : ReqPhases, op : Operations \cup {"none"},
                         task : Tasks \cup {None}, job : 0..Len(rows)]
        /\ IdleReq.pc = "idle"
    BY <1>0 DEF IdleReq, ReqPhases
  <2> QED
    BY <1>4, <2>1, RequestMoves DEF EndReq
<1> HIDE DEF r
<1>5. CASE Read(c)
  <2>1. KeepsRest /\ req[c].pc = "read"
    BY <1>0, <1>5 DEF Read, reqUnchanged
  <2> DEFINE j == Latest(req[c].task)
  <2>2. j \in 0..Len(rows) /\ (StatusOf(j) # "none" => j # 0)
    BY <1>0, LatestIsARow DEF StatusOf
  <2>3. \/ EndReq(c)
        \/ \E l \in ReqPhases :
              /\ req' = [req EXCEPT ![c].pc = l, ![c].job = j]
              /\ l \in {"validate", "write", "signal"} => StatusOf(j) # "none"
    <3>1. req[c].op \in Requests
      BY <1>0, <2>1, QueueAssumption
    <3> HIDE DEF KeepsRest
    <3> QED
      BY <1>5, <3>1 DEF Read, ReqPhases, Requests, InHand
  <2> HIDE DEF KeepsRest, j
  <2> QED
    BY <1>1, <1>2, <1>4, <2>1, <2>2, <2>3
<1>6. CASE Decide(c)
  <2>1. KeepsRest /\ req[c].pc = "decide"
    BY <1>0, <1>6 DEF Decide, reqUnchanged
  <2> DEFINE j == Latest(req[c].task)
             l == IF StatusOf(j) = "paused" THEN "validate" ELSE "enqueue"
  <2>2. j \in 0..Len(rows) /\ (StatusOf(j) = "paused" => j # 0)
    BY <1>0, LatestIsARow DEF StatusOf
  <2>3. l \in ReqPhases /\ (l \in {"validate", "write", "signal"} => j # 0)
    BY <2>2 DEF ReqPhases
  <2>4. req' = [req EXCEPT ![c].pc = l, ![c].job = j]
    BY <1>0, <1>6 DEF Decide
  <2> HIDE DEF KeepsRest, j, l
  <2> QED
    BY <1>1, <1>2, <2>1, <2>2, <2>3, <2>4
<1>7. CASE Validate(c)
  <2>1. KeepsRest /\ req[c].pc = "validate" /\ req[c].job \in 1..Len(rows)
    BY <1>0, <1>7 DEF Validate, reqUnchanged
  <2>2. EndReq(c) \/ \E l \in ReqPhases : NextReq(c, l)
    BY <1>7 DEF Validate, ReqPhases
  <2> HIDE DEF KeepsRest
  <2> QED
    BY <1>0, <1>1, <1>3, <1>4, <2>1, <2>2
<1>8. CASE Write(c)
  <2>1. req[c].pc = "write" /\ req[c].job \in 1..Len(rows) /\ req[c].op \in Requests
    BY <1>0, <1>8, QueueAssumption DEF Write
  <2>2. Target(req[c].op) \in JobStatus \ {"sleeping"}
    BY <2>1 DEF Target, JobStatus, Requests
  <2>3. rows' \in Seq(Row) /\ Len(rows') = Len(rows)
    BY <1>0, <1>8, <2>1, <2>2, StatusWritten DEF Write
  <2>4. wake' \in BOOLEAN /\ (EndReq(c) \/ \E l \in ReqPhases : NextReq(c, l))
    BY <1>0, <1>8, <2>1 DEF Write, Requests, ReqPhases
  <2>5. KeepsRest
    BY <1>0, <1>8, <2>3, <2>4 DEF Write, reqUnchanged
  <2> HIDE DEF KeepsRest
  <2> QED
    BY <1>0, <1>1, <1>3, <1>4, <2>1, <2>4, <2>5
<1>9. CASE Signal(c)
  <2>1. req[c].pc = "signal" /\ req[c].job \in 1..Len(rows) /\ req[c].job \in JobIds
    BY <1>0, <1>9, HoldingFinite, QueueAssumption DEF Signal, QueueInv, RowsInv, JobIds
  <2>2. cancels[req[c].job] # None => cancels[req[c].job] \in Goroutines
    BY <2>1 DEF QueueInv, CancelInv
  <2>3. canceled' \subseteq Goroutines
    BY <1>0, <1>9, <2>2 DEF Signal
  <2>4. wake' \in BOOLEAN /\ (EndReq(c) \/ \E l \in ReqPhases : NextReq(c, l))
    BY <1>0, <1>9 DEF Signal, ReqPhases
  <2>5. KeepsRest
    BY <1>0, <1>9, <2>3, <2>4 DEF Signal, reqUnchanged
  <2> HIDE DEF KeepsRest
  <2> QED
    BY <1>0, <1>1, <1>3, <1>4, <2>1, <2>4, <2>5
<1>10. CASE RequestFails(c)
  BY <1>0, <1>4, <1>10 DEF RequestFails, reqUnchanged
<1>11. CASE Enqueue(c)
  <2>1. req[c].pc = "enqueue" /\ req[c].task \in Tasks
    BY <1>0, <1>11 DEF Enqueue
  <2>2. /\ rows' \in Seq(Row) /\ Len(rows') = Len(rows) + 1
    <3>1. [task |-> req[c].task, status |-> "queued"] \in Row
      BY <2>1 DEF Row, JobStatus
    <3> QED
      BY <1>0, <1>11, <3>1, AppendProperties DEF Enqueue
  <2>3. /\ req' \in [Clients -> [pc : ReqPhases, op : Operations \cup {"none"},
                                 task : Tasks \cup {None}, job : Nat]]
        /\ req'[c] = IdleReq /\ \A d \in Clients : d # c => req'[d] = req[d]
    BY <1>0, <1>11 DEF Enqueue, EndReq, IdleReq, ReqPhases
  <2>4. RowsInv'
    <3>1. Busy' = Busy \ {c} /\ c \in Busy
      BY <2>1, <2>3 DEF Busy, IdleReq
    <3>2. Cardinality(Busy') = Cardinality(Busy) - 1 /\ Cardinality(Busy) \in Nat
      BY <3>1, HoldingFinite, FS_RemoveElement
    <3>3. requests' = requests
      BY <1>11 DEF Enqueue, reqUnchanged
    <3> QED
      BY <1>0, <2>2, <3>2, <3>3 DEF QueueInv, RowsInv
  <2>5. LoopInv'
    <3>1. wake' \in BOOLEAN
      BY <1>11, Zenon DEF Enqueue
    <3> QED
      BY <1>0, <1>11, <2>2, <3>1 DEF Enqueue, reqUnchanged, QueueInv, LoopInv
  <2>6. RunInv'
    BY <1>0, <1>11, <2>2 DEF Enqueue, reqUnchanged, QueueInv, RunInv, RunRecord
  <2>7. ReqInv'
    <3>1. req'[c].pc = "idle" /\ req'[c].job = 0
      BY <2>3 DEF IdleReq
    <3>2. \A d \in Clients : req[d].job \in Nat /\ req[d].job <= Len(rows)
      BY <1>0 DEF QueueInv, ReqInv
    <3>3. \A d \in Clients : req'[d].job <= Len(rows')
      BY <1>0, <2>2, <2>3, <3>1, <3>2
    <3> QED
      BY <2>3, <3>1, <3>3 DEF QueueInv, ReqInv
  <2>8. SlotInv'
    <3>1. Holding' = Holding
      BY <1>11 DEF Enqueue, reqUnchanged, Holding
    <3> QED
      BY <1>11, <3>1 DEF Enqueue, reqUnchanged, QueueInv, SlotInv
  <2>9. CancelInv'
    BY <1>11 DEF Enqueue, reqUnchanged, QueueInv, CancelInv, CancelHitsOwnJob
  <2> QED
    BY <2>4, <2>5, <2>6, <2>7, <2>8, <2>9 DEF QueueInv
<1> QED
  BY <1>5, <1>6, <1>7, <1>8, <1>9, <1>10, <1>11 DEF RequestStep

\* A request that arrives is counted before it can create its row.
LEMMA ArrivesKeepsInv ==
    ASSUME NEW c \in Clients, NEW op \in Operations, NEW t \in Tasks,
           QueueInv, Arrives(c, op, t)
    PROVE  QueueInv'
<1>0. /\ rows \in Seq(Row) /\ Len(rows) \in Nat /\ MaxRequests \in Nat
      /\ req \in [Clients -> [pc : ReqPhases, op : Operations \cup {"none"},
                              task : Tasks \cup {None}, job : Nat]]
  BY LenProperties, QueueAssumption DEF QueueInv, RowsInv, ReqInv
<1> DEFINE r == [pc |-> "read", op |-> op, task |-> t, job |-> 0]
<1>1. /\ req[c].pc = "idle"
      /\ req' \in [Clients -> [pc : ReqPhases, op : Operations \cup {"none"},
                               task : Tasks \cup {None}, job : Nat]]
      /\ req'[c] = r /\ \A d \in Clients : d # c => req'[d] = req[d]
  BY <1>0 DEF Arrives, ReqPhases
<1>2. RowsInv'
  <2>1. Busy' = Busy \cup {c} /\ c \notin Busy
    BY <1>1 DEF Busy
  <2>2. Cardinality(Busy') = Cardinality(Busy) + 1 /\ Cardinality(Busy) \in Nat
    BY <2>1, HoldingFinite, FS_AddElement
  <2> QED
    BY <1>0, <2>2 DEF Arrives, QueueInv, RowsInv
<1>3. LoopInv'
  BY DEF Arrives, QueueInv, LoopInv
<1>4. RunInv'
  BY DEF Arrives, runs, QueueInv, RunInv
<1>5. ReqInv'
  BY <1>0, <1>1 DEF Arrives, QueueInv, ReqInv
<1>6. SlotInv'
  <2>1. Holding' = Holding
    BY DEF Arrives, runs, Holding
  <2> QED
    BY <2>1 DEF Arrives, QueueInv, SlotInv
<1>7. CancelInv'
  BY DEF Arrives, runs, QueueInv, CancelInv, CancelHitsOwnJob
<1> QED
  BY <1>2, <1>3, <1>4, <1>5, <1>6, <1>7 DEF QueueInv

\* A crash empties everything but the table.
LEMMA CrashKeepsInv == QueueInv /\ Crash => QueueInv'
<1> SUFFICES ASSUME QueueInv, Crash PROVE QueueInv'
  OBVIOUS
<1>0. rows \in Seq(Row) /\ Len(rows) \in Nat /\ rows' = rows
  BY LenProperties DEF QueueInv, RowsInv, Crash
<1>1. Holding' = {} /\ Busy' = {}
  BY DEF Crash, Holding, Busy, IdleRun, IdleReq
<1>2. Cardinality(Holding') = 0 /\ Cardinality(Busy') = 0
  BY <1>1, FS_EmptySet
<1>3. RowsInv'
  BY <1>0, <1>2, HoldingFinite DEF Crash, QueueInv, RowsInv
<1>4. LoopInv'
  <2>1. claimed' \in BOOLEAN /\ wake' \in BOOLEAN
    BY Zenon DEF Crash
  <2>2. /\ loop' = "fill" /\ taken' = 0 /\ stuck' = {}
    BY DEF Crash
  <2> QED
    BY <1>0, <2>1, <2>2 DEF LoopInv
<1>5. RunInv'
  BY <1>0 DEF Crash, RunInv, RunRecord, IdleRun, RunPhases
<1>6. ReqInv'
  BY <1>0 DEF Crash, ReqInv, IdleReq, ReqPhases
<1>7. SlotInv'
  BY <1>2, QueueAssumption DEF Crash, SlotInv
<1>8. CancelInv'
  BY DEF Crash, CancelInv, CancelHitsOwnJob
<1> QED
  BY <1>3, <1>4, <1>5, <1>6, <1>7, <1>8 DEF QueueInv

\* Every step of every actor keeps the invariant.
LEMMA QueueInvStep == QueueInv /\ [QueueNext]_queueVars => QueueInv'
<1> SUFFICES ASSUME QueueInv, [QueueNext]_queueVars PROVE QueueInv'
  OBVIOUS
<1>1. CASE UNCHANGED queueVars
  <2>1. Holding' = Holding /\ Busy' = Busy
    BY <1>1 DEF queueVars, Holding, Busy
  <2> QED
    BY <1>1, <2>1 DEF queueVars, QueueInv, RowsInv, LoopInv, RunInv, ReqInv, SlotInv, CancelInv,
                      CancelHitsOwnJob
<1> QED
  BY <1>1, LoopKeepsInv, RunKeepsInv, RequestKeepsInv, ArrivesKeepsInv, CrashKeepsInv
     DEF QueueNext

LEMMA QueueInvariant == QueueSpec => []QueueInv
BY QueueInvInit, QueueInvStep, PTL DEF QueueSpec

-----------------------------------------------------------------------------
\* For any numbers of tasks, clients, goroutines and slots the state stays well
\* typed: no interleaving of the loop, the runs, the requests and the crashes
\* makes UpdateJob write a status outside the table's or name a row that does not
\* exist, writes "sleeping", or creates two rows for one request.
THEOREM QueueTypeCorrect == QueueSpec => []QueueTypeOK
<1>1. QueueInv => QueueTypeOK
  <2> SUFFICES ASSUME QueueInv PROVE QueueTypeOK
    OBVIOUS
  <2>1. /\ rows \in Seq(Row) /\ Len(rows) \in Nat /\ DOMAIN rows = 1..Len(rows)
        /\ Cardinality(Busy) \in Nat
    BY LenProperties, HoldingFinite DEF QueueInv, RowsInv
  <2>2. /\ rows \in Seq([task : Tasks, status : JobStatus \ {"sleeping"}])
        /\ Len(rows) <= requests /\ requests \in 0..MaxRequests
    BY <2>1, QueueAssumption DEF QueueInv, RowsInv, Row
  <2>3. /\ loop \in {"fill", "claim", "start", "wait", "reset"}
        /\ taken \in 0..Len(rows) /\ (loop = "start" <=> taken # 0)
        /\ stuck \subseteq DOMAIN rows
    BY <2>1 DEF QueueInv, LoopInv
  <2>4. {claimed, wake} \subseteq BOOLEAN
    BY Zenon DEF QueueInv, LoopInv
  <2>5. sem \in 0..Concurrency
    BY QueueAssumption DEF QueueInv, SlotInv
  <2>6. /\ run \in [Goroutines -> [pc : RunPhases, job : 0..Len(rows),
                                  to : {"none", "running", "queued", "paused", "failed", "sleeping"}]]
        /\ \A g \in Goroutines : run[g].pc # "free" => run[g].job # 0
        /\ canceled \subseteq Goroutines
    BY <2>1 DEF QueueInv, RunInv, RunRecord, Ends
  <2>7. cancels \in [JobIds -> Goroutines \cup {None}]
    BY DEF QueueInv, CancelInv
  <2>8. req \in [Clients -> [pc : ReqPhases, op : Operations \cup {"none"},
                            task : Tasks \cup {None}, job : 0..Len(rows)]]
    BY <2>1 DEF QueueInv, ReqInv
  <2> QED
    BY <2>2, <2>3, <2>4, <2>5, <2>6, <2>7, <2>8 DEF QueueTypeOK
<1> QED
  BY <1>1, QueueInvariant, PTL

\* No exit path of StartWorker or of a run loses or invents a slot, and there are
\* never more runs at work than QUEUE_WORKER_CONCURRENCY allows.
THEOREM QueueSlots == QueueSpec => []SlotsBounded
<1>1. QueueInv => SlotsBounded
  BY HoldingFinite, QueueAssumption DEF QueueInv, SlotInv, SlotsBounded
<1> QED
  BY <1>1, QueueInvariant, PTL

\* The cancel function stored for a job is always that of a goroutine started
\* for this job, whatever the order of StartRun, Unregister and resets.
THEOREM QueueCancels == QueueSpec => []CancelHitsOwnJob
<1>1. QueueInv => CancelHitsOwnJob
  BY DEF QueueInv, CancelInv
<1> QED
  BY <1>1, QueueInvariant, PTL

================================================================================
