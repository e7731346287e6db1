-------------------------------- MODULE JobQueue --------------------------------
(***************************************************************************)
(* The workflow_jobs table and everything that writes it: the worker loop    *)
(* of orchestrator/queue.go with its semaphore and wake channel, the run      *)
(* goroutines it starts, the ticker's ResetStuckJobs, and the API requests    *)
(* Execute, Retry, Pause, Cancel and ApproveMerge.                            *)
(*                                                                          *)
(* UpdateJob is two statements: it reads the status, validates the            *)
(* transition, and writes without looking again.  Every writer is therefore   *)
(* modelled with a validating and a writing step, and other actors may come   *)
(* between.  What a run does between its start and its end is WorkflowRun's   *)
(* subject; here it only ends in some way.                                    *)
(***************************************************************************)
EXTENDS Integers, Sequences, FiniteSets, JobStates

CONSTANTS
    Tasks,          \* the tasks users ask for
    Goroutines,     \* identities of run goroutines
    Clients,        \* API requests that may be in progress at a time
    None,           \* no goroutine, no task
    Concurrency,    \* QUEUE_WORKER_CONCURRENCY
    Operations,     \* the requests users make, out of Requests
    MaxRequests,    \* bound: API requests
    MaxRequeues,    \* bound: runs that end with their job still to be done
    MaxEarlyResets, \* bound: jobs taken for stuck while their run is at work
    MaxCrashes      \* bound: process crashes

Requests == {"execute", "retry", "pause", "cancel", "approve"}

ASSUME QueueAssumption ==
    /\ IsFiniteSet(Goroutines) /\ IsFiniteSet(Clients)
    /\ None \notin Goroutines \cup Tasks
    /\ Concurrency \in Nat \ {0}
    /\ Operations \subseteq Requests
    /\ {MaxRequests, MaxRequeues, MaxEarlyResets, MaxCrashes} \subseteq Nat

VARIABLES
    rows,      \* the jobs in order of creation: task and status
    loop,      \* the worker loop: "fill", "claim", "start", "wait" or "reset"
    claimed,   \* the loop's local claimed
    taken,     \* the job just claimed, whose goroutine is not started yet
    wake,      \* wakeChan holds a token
    sem,       \* tokens in the semaphore
    stuck,     \* ids ResetStuckJobs has read and is about to reset
    run,       \* the goroutines: where each is, its job, the status it will write
    canceled,  \* goroutines whose context is cancelled
    cancels,   \* jobCancels: the goroutine whose cancel function is stored
    req,       \* the requests in progress
    requests, requeues, earlyResets, crashes

queueVars == <<rows, loop, claimed, taken, wake, sem, stuck, run, canceled, cancels, req,
               requests, requeues, earlyResets, crashes>>

JobIds == 1..MaxRequests

Latest(t) == LET js == {j \in DOMAIN rows : rows[j].task = t}
             IN  IF js = {} THEN 0 ELSE CHOOSE j \in js : \A k \in js : k <= j

StatusOf(j) == IF j = 0 THEN "none" ELSE rows[j].status

SetStatus(j, st) == rows' = [rows EXCEPT ![j].status = st]

IdleRun == [pc |-> "free", job |-> 0, to |-> "none"]
IdleReq == [pc |-> "idle", op |-> "none", task |-> None, job |-> 0]

QueueInit ==
    /\ rows = <<>>
    /\ loop = "fill" /\ claimed = FALSE /\ taken = 0 /\ wake = FALSE /\ sem = 0 /\ stuck = {}
    /\ run = [g \in Goroutines |-> IdleRun]
    /\ canceled = {}
    /\ cancels = [j \in JobIds |-> None]
    /\ req = [c \in Clients |-> IdleReq]
    /\ requests = 0 /\ requeues = 0 /\ earlyResets = 0 /\ crashes = 0

-----------------------------------------------------------------------------
(***************************************************************************)
(* The worker loop.                                                         *)
(***************************************************************************)
loopUnchanged == <<req, requests, requeues, crashes>>
runs          == <<run, canceled, cancels>>

\* The inner loop is over: start again if something was claimed.
EndFill == loop' = (IF claimed THEN "fill" ELSE "wait") /\ claimed' = FALSE

\* Mutant: one slot too many.
TakeSlotOffByOne ==
    /\ loop = "fill" /\ sem <= Concurrency
    /\ sem' = sem + 1
    /\ loop' = "claim"
    /\ UNCHANGED <<rows, claimed, taken, wake, stuck, earlyResets, runs, loopUnchanged>>

TakeSlot ==
    /\ loop = "fill" /\ sem < Concurrency
    /\ sem' = sem + 1
    /\ loop' = "claim"
    /\ UNCHANGED <<rows, claimed, taken, wake, stuck, earlyResets, runs, loopUnchanged>>

NoSlot ==
    /\ loop = "fill" /\ sem >= Concurrency
    /\ EndFill
    /\ UNCHANGED <<rows, taken, wake, sem, stuck, earlyResets, runs, loopUnchanged>>

Queued == {j \in DOMAIN rows : rows[j].status = "queued"}

\* ClaimNext, one transaction, oldest first.
ClaimNext(j) ==
    /\ loop = "claim"
    /\ j \in Queued /\ \A k \in Queued : j <= k
    /\ SetStatus(j, "running")
    /\ taken' = j /\ claimed' = TRUE /\ loop' = "start"
    /\ UNCHANGED <<wake, sem, stuck, earlyResets, runs, loopUnchanged>>

\* The cancel function is stored and the goroutine started.
StartRun(g) ==
    /\ loop = "start"
    /\ run[g].pc = "free"
    /\ cancels' = [cancels EXCEPT ![taken] = g]
    /\ run' = [run EXCEPT ![g] = [pc |-> "start", job |-> taken, to |-> "running"]]
    /\ taken' = 0 /\ loop' = "fill"
    /\ UNCHANGED <<rows, claimed, wake, sem, stuck, canceled, earlyResets, loopUnchanged>>

\* Mutant: the error path keeps the slot.
NothingClaimedKeepsSlot ==
    /\ loop = "claim"
    /\ EndFill
    /\ UNCHANGED <<rows, taken, wake, sem, stuck, earlyResets, runs, loopUnchanged>>

\* No row is queued, the one that is is locked (SKIP LOCKED), or the query fails.
NothingClaimed ==
    /\ loop = "claim"
    /\ sem' = sem - 1
    /\ EndFill
    /\ UNCHANGED <<rows, taken, wake, stuck, earlyResets, runs, loopUnchanged>>

WakeUp ==
    /\ loop = "wait" /\ wake
    /\ wake' = FALSE /\ loop' = "fill"
    /\ UNCHANGED <<rows, claimed, taken, sem, stuck, earlyResets, runs, loopUnchanged>>

\* Running rows nobody works on: their run ended without a final write, or with
\* the process.
Dead == {j \in DOMAIN rows : /\ rows[j].status = "running"
                             /\ \A g \in Goroutines : run[g].job # j}

\* A tick: ResetStuckJobs reads the rows not updated for ten minutes.
Tick(old) ==
    /\ loop = "wait"
    /\ old \subseteq Dead
    /\ stuck' = old /\ loop' = "reset"
    /\ UNCHANGED <<rows, claimed, taken, wake, sem, earlyResets, runs, loopUnchanged>>

\* A step may work that long without an update of the row.
TickSlowStep(g) ==
    /\ loop = "wait"
    /\ earlyResets < MaxEarlyResets /\ earlyResets' = earlyResets + 1
    /\ run[g].pc = "work" /\ StatusOf(run[g].job) = "running"
    /\ stuck' = Dead \cup {run[g].job} /\ loop' = "reset"
    /\ UNCHANGED <<rows, claimed, taken, wake, sem, runs, loopUnchanged>>

\* Mutant: the rows are read and not written.
ResetStuckJobsReadOnly ==
    /\ loop = "reset"
    /\ stuck' = {} /\ loop' = "fill"
    /\ UNCHANGED <<rows, claimed, taken, wake, sem, earlyResets, runs, loopUnchanged>>

\* It writes them by id; WakeSleepingJobs then finds no sleeping row.
ResetStuckJobs ==
    /\ loop = "reset"
    /\ rows' = [j \in DOMAIN rows |->
                  IF j \in stuck THEN [rows[j] EXCEPT !.status = "queued"] ELSE rows[j]]
    /\ stuck' = {} /\ loop' = "fill"
    /\ UNCHANGED <<claimed, taken, wake, sem, earlyResets, runs, loopUnchanged>>

WorkerLoop ==
    \/ TakeSlot \/ NoSlot \/ NothingClaimed
    \/ \E j \in DOMAIN rows : ClaimNext(j)
    \/ \E g \in Goroutines : StartRun(g)
    \/ WakeUp
    \/ \E old \in SUBSET Dead : Tick(old)
    \/ \E g \in Goroutines : TickSlowStep(g)
    \/ ResetStuckJobs

-----------------------------------------------------------------------------
(***************************************************************************)
(* A run goroutine.  A write with run's own context fails once that context  *)
(* is cancelled; the pause, the failure and the recovery from a panic are     *)
(* written with a context that cannot be cancelled.                           *)
(***************************************************************************)
runUnchanged == <<loop, claimed, taken, wake, stuck, req, requests, earlyResets, crashes>>

GoTo(g, l) == run' = [run EXCEPT ![g].pc = l]

Accepted(g, to) == ValidJobTransition(StatusOf(run[g].job), to)

\* run's first statement: UpdateJob(running).
StartValidate(g) ==
    /\ run[g].pc = "start"
    /\ GoTo(g, IF g \notin canceled /\ Accepted(g, "running") THEN "startWrite" ELSE "leave")
    /\ UNCHANGED <<rows, sem, canceled, cancels, requeues, runUnchanged>>

StartWrite(g) ==
    /\ run[g].pc = "startWrite"
    /\ IF g \in canceled THEN GoTo(g, "leave") /\ UNCHANGED rows
       ELSE GoTo(g, "work") /\ SetStatus(run[g].job, "running")
    /\ UNCHANGED <<sem, canceled, cancels, requeues, runUnchanged>>

\* A step pauses: OnEvent writes the row while the attempt still goes on, and
\* the engine ignores the callback's error.
StepPauses(g) ==
    /\ run[g].pc = "work" /\ run[g].to = "running"
    /\ run' = [run EXCEPT ![g].pc = "event", ![g].to = "paused"]
    /\ UNCHANGED <<rows, sem, canceled, cancels, requeues, runUnchanged>>

EventValidate(g) ==
    /\ run[g].pc = "event"
    /\ GoTo(g, IF g \notin canceled /\ Accepted(g, "paused") THEN "eventWrite" ELSE "work")
    /\ UNCHANGED <<rows, sem, canceled, cancels, requeues, runUnchanged>>

EventWrite(g) ==
    /\ run[g].pc = "eventWrite"
    /\ GoTo(g, "work")
    /\ IF g \in canceled THEN UNCHANGED rows ELSE SetStatus(run[g].job, "paused")
    /\ UNCHANGED <<sem, canceled, cancels, requeues, runUnchanged>>

\* The workflow ends: it is queued again (fix loop, changed graph), waits for a
\* human, fails, or all credentials are cooling down.  (A cancelled run fails
\* its job only when it panics.)
RunEnds(g, to) ==
    /\ run[g].pc = "work"
    /\ to \in {"queued", "sleeping"} => requeues < MaxRequeues
    /\ requeues' = IF to \in {"queued", "sleeping"} THEN requeues + 1 ELSE requeues
    /\ run' = [run EXCEPT ![g].pc = "finish", ![g].to = to]
    /\ UNCHANGED <<rows, sem, canceled, cancels, runUnchanged>>

\* The cancellation is noticed: run looks whether its task was paused, and
\* otherwise returns without a word (fail does nothing when cancelled).
RunCanceled(g) ==
    /\ run[g].pc = "work" /\ g \in canceled
    /\ IF StatusOf(Latest(rows[run[g].job].task)) = "paused"
       THEN run' = [run EXCEPT ![g].pc = "finish", ![g].to = "paused"]
       ELSE GoTo(g, "leave")
    /\ UNCHANGED <<rows, sem, canceled, cancels, requeues, runUnchanged>>

Deaf(g) == g \in canceled /\ run[g].to \in {"queued", "sleeping"}

FinishValidate(g) ==
    /\ run[g].pc = "finish"
    /\ GoTo(g, IF ~Deaf(g) /\ Accepted(g, run[g].to) THEN "finishWrite" ELSE "leave")
    /\ UNCHANGED <<rows, sem, canceled, cancels, requeues, runUnchanged>>

FinishWrite(g) ==
    /\ run[g].pc = "finishWrite"
    /\ IF Deaf(g) THEN UNCHANGED rows ELSE SetStatus(run[g].job, run[g].to)
    /\ GoTo(g, "leave")
    /\ UNCHANGED <<sem, canceled, cancels, requeues, runUnchanged>>

\* Mutant: the slot is released twice.
LeaveTwice(g) ==
    /\ run[g].pc = "leave"
    /\ sem' = sem - 2
    /\ GoTo(g, "unregister")
    /\ UNCHANGED <<rows, canceled, cancels, requeues, runUnchanged>>

\* The deferred function of StartWorker: the slot first, then the cancel entry.
Leave(g) ==
    /\ run[g].pc = "leave"
    /\ sem' = sem - 1
    /\ GoTo(g, "unregister")
    /\ UNCHANGED <<rows, canceled, cancels, requeues, runUnchanged>>

\* Mutant: the cancel entry outlives the run.
UnregisterForgotten(g) ==
    /\ run[g].pc = "unregister"
    /\ run' = [run EXCEPT ![g] = IdleRun]
    /\ canceled' = canceled \ {g}
    /\ UNCHANGED <<rows, sem, cancels, requeues, runUnchanged>>

\* jobCancels.Delete(jobID), whoever's cancel function is stored there now.
Unregister(g) ==
    /\ run[g].pc = "unregister"
    /\ cancels' = [cancels EXCEPT ![run[g].job] = None]
    /\ run' = [run EXCEPT ![g] = IdleRun]
    /\ canceled' = canceled \ {g}
    /\ UNCHANGED <<rows, sem, requeues, runUnchanged>>

RunStep(g) ==
    \/ StartValidate(g) \/ StartWrite(g)
    \/ \E to \in {"queued", "paused", "failed", "sleeping"} : RunEnds(g, to)
    \/ RunCanceled(g)
    \/ StepPauses(g) \/ EventValidate(g) \/ EventWrite(g)
    \/ FinishValidate(g) \/ FinishWrite(g)
    \/ Leave(g) \/ Unregister(g)

-----------------------------------------------------------------------------
(***************************************************************************)
(* The API requests.                                                        *)
(***************************************************************************)
reqUnchanged == <<loop, claimed, taken, sem, stuck, run, requests, requeues, earlyResets, crashes>>

NextReq(c, l) == req' = [req EXCEPT ![c].pc = l]
EndReq(c)     == req' = [req EXCEPT ![c] = IdleReq]

Arrives(c, op, t) ==
    /\ req[c].pc = "idle" /\ requests < MaxRequests
    /\ op \in Operations
    /\ requests' = requests + 1
    /\ req' = [req EXCEPT ![c] = [pc |-> "read", op |-> op, task |-> t, job |-> 0]]
    /\ UNCHANGED <<rows, loop, claimed, taken, wake, sem, stuck, runs, requeues, earlyResets,
                   crashes>>

InHand == {"queued", "running", "paused"}

\* Each request begins by reading the task's latest job.
Read(c) ==
    /\ req[c].pc = "read"
    /\ LET op == req[c].op
           j  == Latest(req[c].task)
           go(l) == req' = [req EXCEPT ![c].pc = l, ![c].job = j]
       IN  CASE op = "execute" -> IF StatusOf(j) \in {"queued", "running"} THEN EndReq(c)
                                  ELSE go("decide")
             [] op = "retry"   -> IF StatusOf(j) \in InHand THEN go("signal") ELSE go("enqueue")
             [] op = "pause"   -> IF StatusOf(j) = "running" THEN go("validate") ELSE EndReq(c)
             [] op = "cancel"  -> IF StatusOf(j) \in InHand THEN go("validate") ELSE EndReq(c)
             [] op = "approve" -> IF StatusOf(j) = "paused" THEN go("validate") ELSE EndReq(c)
    /\ UNCHANGED <<rows, wake, canceled, cancels, reqUnchanged>>

\* Execute reads a second time: a paused job is resumed, else a new one queued.
Decide(c) ==
    /\ req[c].pc = "decide"
    /\ LET j == Latest(req[c].task)
       IN  req' = [req EXCEPT ![c].job = j,
                              ![c].pc = IF StatusOf(j) = "paused" THEN "validate" ELSE "enqueue"]
    /\ UNCHANGED <<rows, wake, canceled, cancels, reqUnchanged>>

Target(op) == CASE op = "execute" -> "queued"
                [] op = "pause"   -> "paused"
                [] op = "approve" -> "done"
                [] OTHER          -> "failed"

\* UpdateJob, first half; only Retry goes on when it is refused.
Validate(c) ==
    /\ req[c].pc = "validate"
    /\ IF ValidJobTransition(StatusOf(req[c].job), Target(req[c].op)) THEN NextReq(c, "write")
       ELSE IF req[c].op = "retry" THEN NextReq(c, "enqueue") ELSE EndReq(c)
    /\ UNCHANGED <<rows, wake, canceled, cancels, reqUnchanged>>

\* UpdateJob, second half.
Write(c) ==
    /\ req[c].pc = "write"
    /\ SetStatus(req[c].job, Target(req[c].op))
    /\ CASE req[c].op \in {"pause", "cancel"} -> NextReq(c, "signal") /\ UNCHANGED wake
         [] req[c].op = "retry"               -> NextReq(c, "enqueue") /\ UNCHANGED wake
         [] req[c].op = "execute"             -> EndReq(c) /\ wake' = TRUE
         [] req[c].op = "approve"             -> EndReq(c) /\ UNCHANGED wake
    /\ UNCHANGED <<canceled, cancels, reqUnchanged>>

\* Call the cancel function stored for the job, if there is one.
Signal(c) ==
    /\ req[c].pc = "signal"
    /\ canceled' = IF cancels[req[c].job] = None THEN canceled
                   ELSE canceled \cup {cancels[req[c].job]}
    /\ IF req[c].op = "retry" THEN NextReq(c, "validate") /\ UNCHANGED wake
       ELSE EndReq(c) /\ wake' = TRUE
    /\ UNCHANGED <<rows, cancels, reqUnchanged>>

Enqueue(c) ==
    /\ req[c].pc = "enqueue"
    /\ rows' = Append(rows, [task |-> req[c].task, status |-> "queued"])
    /\ wake' = TRUE
    /\ EndReq(c)
    /\ UNCHANGED <<canceled, cancels, reqUnchanged>>

\* A call of the request fails: the database, or updateTaskStatus, which
\* CancelJob calls before it signals and Execute and Retry before they enqueue.
RequestFails(c) ==
    /\ req[c].pc # "idle"
    /\ req[c].pc = "signal" => req[c].op = "cancel"
    /\ EndReq(c)
    /\ UNCHANGED <<rows, wake, canceled, cancels, reqUnchanged>>

RequestStep(c) ==
    \/ Read(c) \/ Decide(c) \/ Validate(c) \/ Write(c) \/ Signal(c) \/ Enqueue(c)
    \/ RequestFails(c)

-----------------------------------------------------------------------------
\* The process dies and restarts: the rows are all that is left.
Crash ==
    /\ crashes < MaxCrashes /\ crashes' = crashes + 1
    /\ loop' = "fill" /\ claimed' = FALSE /\ taken' = 0 /\ wake' = FALSE /\ sem' = 0 /\ stuck' = {}
    /\ run' = [g \in Goroutines |-> IdleRun]
    /\ canceled' = {}
    /\ cancels' = [j \in JobIds |-> None]
    /\ req' = [c \in Clients |-> IdleReq]
    /\ UNCHANGED <<rows, requests, requeues, earlyResets>>

QueueNext ==
    \/ WorkerLoop
    \/ \E g \in Goroutines : RunStep(g)
    \/ \E c \in Clients : RequestStep(c)
    \/ \E c \in Clients, op \in Operations, t \in Tasks : Arrives(c, op, t)
    \/ Crash

\* The loop never stops, every started step ends (agents are killed at their
\* timeout) and every request does.  A dead row is updated no more, so it is ten
\* minutes old at some tick.  Ten minutes are dozens of ticks: ClaimNext does not
\* fail at every one of them.
QueueFairness ==
    /\ WF_queueVars(WorkerLoop)
    /\ SF_queueVars(Dead # {} /\ Tick(Dead))
    /\ \A j \in JobIds : SF_queueVars(ClaimNext(j))
    /\ \A g \in Goroutines : WF_queueVars(RunStep(g))
    /\ \A c \in Clients : WF_queueVars(RequestStep(c))

QueueSpec == QueueInit /\ [][QueueNext]_queueVars /\ QueueFairness

-----------------------------------------------------------------------------
RunPhases == {"free", "start", "startWrite", "work", "event", "eventWrite",
              "finish", "finishWrite", "leave", "unregister"}

ReqPhases == {"idle", "read", "decide", "validate", "write", "signal", "enqueue"}

\* The state is well typed: in particular no row is ever sleeping, and no request
\* creates more than one row.
QueueTypeOK ==
    /\ rows \in Seq([task : Tasks, status : JobStatus \ {"sleeping"}])
    /\ Len(rows) <= requests /\ requests \in 0..MaxRequests
    /\ loop \in {"fill", "claim", "start", "wait", "reset"}
    /\ {claimed, wake} \subseteq BOOLEAN
    /\ taken \in 0..Len(rows) /\ (loop = "start" <=> taken # 0)
    /\ sem \in 0..Concurrency
    /\ stuck \subseteq DOMAIN rows
    /\ run \in [Goroutines -> [pc : RunPhases, job : 0..Len(rows),
                               to : {"none", "running", "queued", "paused", "failed", "sleeping"}]]
    /\ \A g \in Goroutines : run[g].pc # "free" => run[g].job # 0
    /\ canceled \subseteq Goroutines
    /\ cancels \in [JobIds -> Goroutines \cup {None}]
    /\ req \in [Clients -> [pc : ReqPhases,
                            op : Operations \cup {"none"}, task : Tasks \cup {None},
                            job : 0..Len(rows)]]

\* The goroutines that hold a slot of the semaphore.
Holding == {g \in Goroutines : run[g].pc \notin {"free", "unregister"}}

\* No slot is lost or invented by any exit path: the semaphore holds one token
\* per run and one while the loop is claiming, and never more than Concurrency.
SlotsBounded ==
    /\ sem = Cardinality(Holding) + (IF loop \in {"claim", "start"} THEN 1 ELSE 0)
    /\ Cardinality(Holding) <= Concurrency

\* A cancel function found under a job's id is that of a goroutine started for
\* the job: no pause, cancel or retry hits the run of another task.
CancelHitsOwnJob ==
    \A j \in JobIds : cancels[j] # None => run[cancels[j]].job = j

\* A queued row is claimed or withdrawn, crashes and lost wake-ups included.
QueuedIsClaimed == \A j \in JobIds : j \in Queued ~> j \notin Queued

\* A row whose run is gone does not stay running.
DeadRunRecovered == \A j \in JobIds : j \in Dead ~> j \notin Dead

-----------------------------------------------------------------------------
(***************************************************************************)
(* What the comments and documents of the code say and the code does not do. *)
(***************************************************************************)

================================================================================
