------------------------------ MODULE Workspaces ------------------------------
(***************************************************************************)
(* The workspace directory of a task, with the lock, the clone and the        *)
(* credentials in it, as a run takes it and gives it back.  Others reach for  *)
(* it meanwhile: further runs, requests that cancel or retry the task, the     *)
(* clean-up that follows a final state, the pruner, a crash of the process.   *)
(*                                                                          *)
(* A workspace is named by the task that owns it: a decomposition child       *)
(* works in its parent's.  The advisory lock and the in-process lock maps are *)
(* keyed by the task itself, the lock file lies in the owner's directory.     *)
(***************************************************************************)
EXTENDS Integers, FiniteSets, Sequences

CONSTANTS
    Tasks, Runs,
    None,            \* no parent, no run
    ParentTaskID,    \* the parent of a decomposition child, None for others
    MaxJobs,         \* bound: jobs ever enqueued
    MaxFaults        \* bound: disturbances (a second run of a task that has one, a
                     \* cancellation, a removed workspace, a crash)

ASSUME WorkspaceAssumption ==
    /\ IsFiniteSet(Tasks) /\ IsFiniteSet(Runs)
    /\ None \notin Tasks \cup Runs
    /\ ParentTaskID \in [Tasks -> Tasks \cup {None}]
    /\ \A t \in Tasks : ParentTaskID[t] # None => ParentTaskID[ParentTaskID[t]] = None
    /\ {MaxJobs, MaxFaults} \subseteq Nat

VARIABLES
    run,          \* per run goroutine: where it is, its task and job, whether it is cancelled
    jobs,         \* the jobs enqueued so far: their task and whether they are still open
    lockConns,    \* the tasks whose advisory lock is held, its connection stored
    lockCancels,  \* task -> the heartbeat LockCancels can stop
    beating,      \* the heartbeat goroutines alive, each with its run and its job
    lockFile,     \* per workspace: job in .workspace.lock (0: no file), and whether its heartbeat expired
    clone,        \* per workspace: is it cloned, whose code it holds, whose is uncommitted
    creds,        \* workspaces with a .git-creds directory
    checkpoint,   \* per task: the checkpoint of its coding step
    final,        \* tasks whose status is failed or merged
    cleaning,     \* task -> how far its background PartialCleanupWorkspace is
    taken,        \* history: workspaces whose lock was taken away under a run
    faults

lockVars  == <<lockConns, lockCancels, beating, lockFile, creds, taken>>
fileVars  == <<clone, checkpoint, final, cleaning>>
faultVars == <<faults>>
wsVars == <<run, jobs, lockVars, fileVars, faultVars>>

WorkspaceOwnerID(t) == IF ParentTaskID[t] = None THEN t ELSE ParentTaskID[t]

Idle == [pc |-> "free", task |-> None, job |-> 0, cancelled |-> FALSE]
Live == {r \in Runs : run[r].pc # "free"}
Locked == {r \in Runs : run[r].pc \in {"read", "remove", "create", "prepare", "work"}}
Inside == {r \in Runs : run[r].pc \in {"prepare", "work"}}
NoFile == [job |-> 0, expired |-> FALSE]
NoClone == [there |-> FALSE, code |-> {}, loose |-> {}]
Heart(r) == <<r, run[r].job>>
Owner(r) == WorkspaceOwnerID(run[r].task)
Fault == faults < MaxFaults /\ faults' = faults + 1
Goto(r, pc) == run' = [run EXCEPT ![r].pc = pc]

WorkspaceInit ==
    /\ run = [r \in Runs |-> Idle]
    /\ jobs = <<>>
    /\ lockConns = {} /\ lockCancels = [t \in Tasks |-> None] /\ beating = {}
    /\ lockFile = [t \in Tasks |-> NoFile] /\ creds = {} /\ taken = {}
    /\ clone = [t \in Tasks |-> NoClone]
    /\ checkpoint = [t \in Tasks |-> "none"]
    /\ final = {} /\ cleaning = [t \in Tasks |-> "no"]
    /\ faults = 0

-----------------------------------------------------------------------------
(***************************************************************************)
(* ReleaseWorkspaceLock(t), called by `who` (a run or None).  It acts on      *)
(* whatever is stored under the task's id, and on the file of the owner's     *)
(* directory, whoever put them there.                                         *)
(***************************************************************************)
\* pg_try_advisory_lock on a connection of its own, which is kept only with the lock, and
\* pg_advisory_unlock, which gives both back.
TryAdvisoryLock(t) == t \notin lockConns
ReleaseAdvisoryLock(t) == lockConns' = lockConns \ {t}

Holds(t) == t \in lockConns \/ lockCancels[t] # None

ReleaseWorkspaceLock(t, who) ==
    LET w == WorkspaceOwnerID(t) IN
    /\ ReleaseAdvisoryLock(t)
    /\ lockCancels' = [lockCancels EXCEPT ![t] = None]
    /\ beating' = beating \ {lockCancels[t]}
    /\ lockFile' = IF Holds(t) THEN [lockFile EXCEPT ![w] = NoFile] ELSE lockFile
    /\ creds' = IF Holds(t) THEN creds \ {w} ELSE creds
    /\ taken' = IF Holds(t) /\ \E r \in Locked \ {who} : Owner(r) = w THEN taken \cup {w} ELSE taken

-----------------------------------------------------------------------------
(***************************************************************************)
(* A run: prologue, lock, workspace, work, deferred exit.                     *)
(***************************************************************************)
OpenJobs(t) == {j \in DOMAIN jobs : jobs[j].task = t /\ jobs[j].open}
RunsOf(t)   == {r \in Live : run[r].task = t}

StartRun(r, t) ==
    /\ run[r].pc = "free"
    /\ IF RunsOf(t) = {} THEN UNCHANGED faultVars ELSE Fault
    /\ \E j \in IF OpenJobs(t) = {} THEN {Len(jobs) + 1} ELSE OpenJobs(t) :
         /\ j <= MaxJobs
         /\ jobs' = IF j \in DOMAIN jobs THEN jobs ELSE Append(jobs, [task |-> t, open |-> TRUE])
         /\ run' = [run EXCEPT ![r] = [Idle EXCEPT !.pc = "lock", !.task = t, !.job = j]]
    /\ final' = final \ {t}
    /\ UNCHANGED <<lockVars, clone, checkpoint, cleaning>>

\* AcquireWorkspaceLock, 1: the advisory lock, tried 15 times.
AcquireAdvisoryLock(r) ==
    /\ run[r].pc = "lock"
    /\ IF TryAdvisoryLock(run[r].task)
       THEN Goto(r, "read") /\ lockConns' = lockConns \cup {run[r].task}
       ELSE Goto(r, "fail") /\ lockConns' = lockConns
    /\ UNCHANGED <<jobs, lockCancels, beating, lockFile, creds, taken, fileVars, faultVars>>

\* 2: the lock file of another job stops the run while its heartbeat is fresh.
ReadLockFile(r) ==
    LET f == lockFile[Owner(r)] IN
    /\ run[r].pc = "read"
    /\ CASE f.job = run[r].job -> Goto(r, "prepare") /\ lockConns' = lockConns
         [] f.job = 0          -> Goto(r, "create") /\ lockConns' = lockConns
         [] f.job \notin {0, run[r].job} /\ f.expired  -> Goto(r, "remove") /\ lockConns' = lockConns
         [] f.job \notin {0, run[r].job} /\ ~f.expired -> Goto(r, "fail") /\ ReleaseAdvisoryLock(run[r].task)
    /\ UNCHANGED <<jobs, lockCancels, beating, lockFile, creds, taken, fileVars, faultVars>>

RemoveStaleFile(r) ==
    /\ run[r].pc = "remove"
    /\ lockFile' = [lockFile EXCEPT ![Owner(r)] = NoFile]
    /\ taken' = taken \cup {Owner(q) : q \in {q \in Locked \ {r} : Owner(q) = Owner(r)}}
    /\ Goto(r, "create")
    /\ UNCHANGED <<jobs, lockConns, lockCancels, beating, creds, fileVars, faultVars>>

\* Mutant: the file is created without O_EXCL.
CreateOverFile(r) ==
    /\ run[r].pc = "create"
    /\ lockFile' = [lockFile EXCEPT ![Owner(r)] = [job |-> run[r].job, expired |-> FALSE]]
    /\ lockCancels' = [lockCancels EXCEPT ![run[r].task] = Heart(r)]
    /\ beating' = beating \cup {Heart(r)}
    /\ Goto(r, "prepare")
    /\ UNCHANGED <<jobs, lockConns, creds, taken, fileVars, faultVars>>

\* 3, 4: O_EXCL creation and the heartbeat.
CreateLockFile(r) ==
    /\ run[r].pc = "create"
    /\ IF lockFile[Owner(r)].job = 0
       THEN /\ lockFile' = [lockFile EXCEPT ![Owner(r)] = [job |-> run[r].job, expired |-> FALSE]]
            /\ lockCancels' = [lockCancels EXCEPT ![run[r].task] = Heart(r)]
            /\ beating' = beating \cup {Heart(r)}
            /\ lockConns' = lockConns
            /\ Goto(r, "prepare")
       ELSE /\ ReleaseAdvisoryLock(run[r].task)
            /\ Goto(r, "fail")
            /\ UNCHANGED <<lockFile, lockCancels, beating>>
    /\ UNCHANGED <<jobs, creds, taken, fileVars, faultVars>>

\* The heartbeat rewrites the file every 30 s; without one it expires after 300 s.
FileExpires(w) ==
    /\ lockFile[w].job # 0 /\ ~lockFile[w].expired
    /\ \A h \in beating : h[2] # lockFile[w].job
    /\ lockFile' = [lockFile EXCEPT ![w].expired = TRUE]
    /\ UNCHANGED <<run, jobs, lockConns, lockCancels, beating, creds, taken, fileVars, faultVars>>

\* Mutant: a paused step is not looked for.
HasCompletedWork(t) == checkpoint[t] = "success"

HasWorkToPreserve(t) == checkpoint[t] \in {"success", "paused"}

ResetExistingWorkspace(c) == [c EXCEPT !.code = c.code \ c.loose, !.loose = {}]

\* The artifacts of type "patch" that a fresh clone is rebuilt from: no step saves one.
PatchArtifacts(t) == {}

\* The rest of EnsureWorkspaceCloned.  A clone it finds is reset unless there is work to
\* preserve or the directory is shared; one it does not find is cloned anew.
EnsureWorkspaceCloned(r) ==
    LET t == run[r].task
        w == Owner(r)
    IN
    /\ run[r].pc = "prepare"
    /\ \/ /\ clone' = [clone EXCEPT ![w] =
                IF @.there
                THEN IF HasWorkToPreserve(t) \/ ParentTaskID[t] # None THEN @ ELSE ResetExistingWorkspace(@)
                ELSE [there |-> TRUE, loose |-> {},
                      code |-> IF HasWorkToPreserve(t) THEN PatchArtifacts(t) ELSE {}]]
          /\ creds' = creds \cup {w}
          /\ Goto(r, "work")
       \/ Goto(r, "fail") /\ UNCHANGED <<clone, creds>>
    /\ UNCHANGED <<jobs, lockConns, lockCancels, beating, lockFile, taken, checkpoint, final, cleaning,
                   faultVars>>

\* The coding step: it succeeds and its code is committed, or it pauses for a review with
\* the code uncommitted and the run ends.
CodingStep(r) ==
    LET t == run[r].task
        w == Owner(r)
    IN
    /\ run[r].pc = "work"
    /\ checkpoint[t] # "success"
    /\ clone[w].there
    /\ \/ /\ checkpoint' = [checkpoint EXCEPT ![t] = "success"]
          /\ clone' = [clone EXCEPT ![w].code = @ \cup {t}, ![w].loose = @ \ {t}]
          /\ run' = run
       \/ /\ checkpoint' = [checkpoint EXCEPT ![t] = "paused"]
          /\ clone' = [clone EXCEPT ![w].code = @ \cup {t}, ![w].loose = @ \cup {t}]
          /\ Goto(r, "exit")
    /\ UNCHANGED <<jobs, lockVars, final, cleaning, faultVars>>

\* CleanupWorkspaceAfterFinalState: release now, delete in the background.
CleanupWorkspaceAfterFinalState(t, who) ==
    /\ ReleaseWorkspaceLock(t, who)
    /\ cleaning' = IF ParentTaskID[t] = None THEN [cleaning EXCEPT ![t] = "release"] ELSE cleaning

CloseJob(r) == jobs' = [jobs EXCEPT ![run[r].job].open = FALSE]

\* The workflow is through, or fail() after an error: both end in the clean-up.  A run
\* whose context was cancelled leaves without it.
EndRun(r) ==
    /\ \/ run[r].pc = "work" /\ checkpoint[run[r].task] = "success" /\ final' = final
       \/ run[r].pc \in {"fail", "work"} /\ ~run[r].cancelled
          /\ final' = final \cup {run[r].task}
    /\ CloseJob(r)
    /\ CleanupWorkspaceAfterFinalState(run[r].task, r)
    /\ Goto(r, "exit")
    /\ UNCHANGED <<clone, checkpoint, faultVars>>

Abort(r) ==
    /\ run[r].cancelled
    /\ run[r].pc \notin {"free", "exit"}
    /\ Goto(r, "exit")
    /\ UNCHANGED <<jobs, lockVars, fileVars, faultVars>>

\* The deferred function of run releases the lock of the task on every exit.
ExitRun(r) ==
    /\ run[r].pc = "exit"
    /\ ReleaseWorkspaceLock(run[r].task, r)
    /\ run' = [run EXCEPT ![r] = Idle]
    /\ UNCHANGED <<jobs, fileVars, faultVars>>

RunStep(r) ==
    \/ AcquireAdvisoryLock(r) \/ ReadLockFile(r) \/ RemoveStaleFile(r) \/ CreateLockFile(r)
    \/ EnsureWorkspaceCloned(r) \/ CodingStep(r) \/ EndRun(r) \/ Abort(r) \/ ExitRun(r)

-----------------------------------------------------------------------------
(***************************************************************************)
(* The others.                                                               *)
(***************************************************************************)
\* CancelJob, and RetryFromLastStep superseding an open job: the run's context is
\* cancelled and the lock of the task released at once.
CancelJob(t) ==
    /\ Fault
    /\ OpenJobs(t) # {}
    /\ jobs' = [j \in DOMAIN jobs |-> IF j \in OpenJobs(t) THEN [jobs[j] EXCEPT !.open = FALSE] ELSE jobs[j]]
    /\ run' = [r \in Runs |-> IF r \in RunsOf(t) THEN [run[r] EXCEPT !.cancelled = TRUE] ELSE run[r]]
    /\ final' = final \cup {t}
    /\ ReleaseWorkspaceLock(t, None)
    /\ UNCHANGED <<clone, checkpoint, cleaning>>

\* PartialCleanupWorkspace: release the lock, then delete the clones of the directory.
CleanupReleases(t) ==
    /\ cleaning[t] = "release"
    /\ ReleaseWorkspaceLock(t, None)
    /\ cleaning' = [cleaning EXCEPT ![t] = "delete"]
    /\ UNCHANGED <<run, jobs, clone, checkpoint, final, faultVars>>

CleanupDeletes(t) ==
    /\ cleaning[t] = "delete"
    /\ clone' = [clone EXCEPT ![t] = NoClone]
    /\ cleaning' = [cleaning EXCEPT ![t] = "no"]
    /\ UNCHANGED <<run, jobs, lockVars, checkpoint, final, faultVars>>

\* PruneWorkspaces finds the task failed or merged: the same clean-up.
PruneFinal(t) ==
    /\ t \in final /\ cleaning[t] = "no" /\ clone[t].there
    /\ cleaning' = [cleaning EXCEPT ![t] = "release"]
    /\ UNCHANGED <<run, jobs, lockVars, clone, checkpoint, final, faultVars>>

\* RemoveWorkspace: the retention of the directory is over, or its task was deleted.
RemoveWorkspace(t) ==
    /\ Fault
    /\ clone[t].there
    /\ checkpoint' = [checkpoint EXCEPT ![t] = "none"]
    /\ clone' = [clone EXCEPT ![t] = NoClone]
    /\ ReleaseAdvisoryLock(t)
    /\ lockCancels' = [lockCancels EXCEPT ![t] = None]
    /\ beating' = beating \ {lockCancels[t]}
    /\ lockFile' = [lockFile EXCEPT ![t] = NoFile]
    /\ creds' = creds \ {t}
    /\ taken' = IF \E r \in Locked : Owner(r) = t THEN taken \cup {t} ELSE taken
    /\ UNCHANGED <<run, jobs, final, cleaning>>

\* The process dies and is started again: connections and goroutines are gone, files and
\* rows stay.
Crash ==
    /\ faults < MaxFaults /\ faults' = faults + 1
    /\ run' = [r \in Runs |-> Idle]
    /\ lockConns' = {} /\ lockCancels' = [t \in Tasks |-> None] /\ beating' = {}
    /\ cleaning' = [t \in Tasks |-> "no"]
    /\ taken' = {}
    /\ UNCHANGED <<jobs, lockFile, creds, clone, checkpoint, final>>

WorkspaceNext ==
    \/ \E r \in Runs, t \in Tasks : StartRun(r, t)
    \/ \E r \in Runs : RunStep(r)
    \/ \E t \in Tasks : \/ FileExpires(t) \/ CancelJob(t) \/ CleanupReleases(t) \/ CleanupDeletes(t)
                        \/ PruneFinal(t) \/ RemoveWorkspace(t)
    \/ Crash

WorkspaceSpec == WorkspaceInit /\ [][WorkspaceNext]_wsVars

-----------------------------------------------------------------------------
(***************************************************************************)
(* Properties.                                                               *)
(***************************************************************************)
WorkspaceTypeOK ==
    /\ run \in [Runs -> [pc : {"free", "lock", "read", "remove", "create", "prepare", "work",
                                "fail", "exit"},
                          task : Tasks \cup {None}, job : 0..MaxJobs, cancelled : BOOLEAN]]
    /\ lockConns \subseteq Tasks /\ lockCancels \in [Tasks -> (Runs \X (1..MaxJobs)) \cup {None}]
    /\ beating \subseteq Runs \X (1..MaxJobs)
    /\ lockFile \in [Tasks -> [job : 0..MaxJobs, expired : BOOLEAN]]
    /\ clone \in [Tasks -> [there : BOOLEAN, code : SUBSET Tasks, loose : SUBSET Tasks]]

\* Two runs are in one workspace at a time only where a lock was once taken away under
\* the run that had it (ReleaseWorkspaceLock acts by task id, a stale file is removed unseen).
WorkspaceExclusive ==
    \A r, q \in Inside : r # q /\ Owner(r) = Owner(q) => Owner(r) \in taken

\* Code whose step is checkpointed as successful or paused leaves a workspace only with
\* the whole clone, or uncommitted under a reset made for the parent of its task.
ResumeKeepsWork ==
    [][\A t \in Tasks : LET w == WorkspaceOwnerID(t) IN
          t \in clone[w].code /\ checkpoint[t] \in {"success", "paused"}
          => \/ t \in clone'[w].code
             \/ ~clone'[w].there
             \/ ParentTaskID[t] # None /\ t \in clone[w].loose]_wsVars

\* The steps after the coding step find its code in the workspace (what a retry from the
\* last successful checkpoint relies on).
CheckpointedCodePresent ==
    \A r \in Runs : run[r].pc = "work" /\ checkpoint[run[r].task] = "success"
                    => run[r].task \in clone[Owner(r)].code

================================================================================
