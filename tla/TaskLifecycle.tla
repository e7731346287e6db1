---------------------------- MODULE TaskLifecycle ----------------------------
(***************************************************************************)
(* The task rows and everything that moves them: the requests of people      *)
(* (actions, spec review, pull request review, clarification, a split into   *)
(* children), the run of each task, the pull request sync and the guardrails. *)
(*                                                                          *)
(* A request or a step of a run is a list of statements against the          *)
(* database, `agenda`, worked off one at a time; those of different actors    *)
(* interleave.  A statement may put others in front of the rest, as a call    *)
(* does.  A refused one drops the statements up to the next `catch`, which    *)
(* marks where the code logs an error and goes on instead of returning it.    *)
(***************************************************************************)
EXTENDS Integers, Sequences, FiniteSets, FiniteSetsExt, JobStates

CONSTANTS
    Parent,              \* a task that may be split
    Children,            \* its children, in the order of SequenceIndex
    Callers,             \* request goroutines
    RequestIds,          \* idempotency keys
    MaxReviewFixCycles,  \* of the project
    None,
    MaxRequests,         \* bound: requests that arrive: of a task on its own, of a family by its parent's status
    MaxJobs,             \* bound: jobs per task
    MaxFixLoops,         \* bound: cross review sends the code back
    MaxFailures,         \* bound: steps that fail for good
    MaxQuestions,        \* bound: steps that end with a question
    MaxDisturbances,     \* bound: time limits and event volumes reached
    PatchedStatuses      \* bound: the statuses a person sets with PATCH

Kids == {Children[i] : i \in 1..Len(Children)}
Tasks == {Parent} \cup Kids
Actors == Callers \cup Tasks      \* a task stands for the goroutine of its run

ASSUME LifecycleAssumption ==
    /\ Children \in Seq(Kids) /\ Len(Children) >= 2 /\ Parent \notin Kids /\ None \notin Tasks \cup RequestIds
    /\ Cardinality(Kids) = Len(Children) /\ Callers \cap Tasks = {}
    /\ MaxRequests \in [{"solo", "coding", "spec_review"} -> Nat]
    /\ {MaxReviewFixCycles, MaxJobs, MaxFixLoops, MaxFailures, MaxQuestions,
        MaxDisturbances} \subseteq Nat

VARIABLES
    task,      \* the rows of tasks
    jobs,      \* per task, the statuses of its workflow jobs, oldest first
    stage,     \* per task: how far the checkpoints of its run have got
    marks,     \* per task: pr_rejection and cli_spec_review_cycle checkpoints
    pr,        \* per task: its pull request at the provider; reopened: a second one, after a merge
    run,       \* per task: the job its run goroutine works on, 0 when there is none
    agenda,    \* per actor: the statements still to do
    recorded,  \* idempotency keys with a stored response
    scenario,  \* a task on its own, or a family
    flow,      \* per task: the workflow it takes, and whether a person approves its spec
    budget,    \* what is left of each bound
    astray,    \* history: tasks whose status was written by a run whose job had ended, over a status
               \* other than the one read, or to an end without updateTaskStatus
    refused    \* history: tasks whose run was refused the status of the step it had finished

rows == <<task, jobs, marks, recorded>>
conf == <<scenario, flow>>
hist == <<astray, refused>>
lifeVars == <<rows, stage, pr, run, agenda, conf, budget, hist>>

-----------------------------------------------------------------------------
ValidTaskTransitions ==
    [todo            |-> {"context_loading", "analyzing", "coding"},
     context_loading |-> {"analyzing", "spec_review", "coding", "reviewing", "testing", "pr_ready", "failed"},
     analyzing       |-> {"spec_review", "coding", "reviewing", "fixing", "testing", "human_review",
                          "pr_ready", "merged", "failed"},
     spec_review     |-> {"coding", "todo", "failed", "analyzing"},
     coding          |-> {"reviewing", "testing", "human_review", "failed", "analyzing", "blocked", "merged"},
     reviewing       |-> {"fixing", "testing", "failed", "analyzing", "blocked"},
     fixing          |-> {"reviewing", "testing", "failed", "analyzing", "blocked"},
     testing         |-> {"pr_ready", "fixing", "failed", "merged", "reviewing", "analyzing", "blocked"},
     pr_ready        |-> {"human_review", "merged", "failed", "fixing", "analyzing"},
     human_review    |-> {"pr_ready", "merged", "fixing", "failed", "analyzing"},
     merged          |-> {},
     failed          |-> {"todo", "context_loading", "analyzing", "spec_review", "coding", "reviewing",
                          "fixing", "testing", "pr_ready", "human_review"},
     blocked         |-> {"coding", "fixing", "merged", "failed"}]

TaskStatus == DOMAIN ValidTaskTransitions
ASSUME NoneAssumption == None \notin TaskStatus

ValidateTaskTransition(from, to) == from = to \/ to \in ValidTaskTransitions[from]

Created(status) ==
    [status |-> status, spec |-> "none", pausedStep |-> "", reason |-> "", blockedChild |-> None,
     split |-> FALSE, exists |-> TRUE, retries |-> 0, started |-> IF status = "todo" THEN "no" ELSE "yes"]

\* computeAvailableActions: what the dispatcher accepts in a status.
AvailableActions(s) ==
    CASE s = "spec_review"                -> {"approve_spec", "request_changes", "cancel"}
      [] s = "blocked"                    -> {"retry_blocked", "cancel"}
      [] s = "failed"                     -> {"retry"}
      [] s = "merged"                     -> {}
      [] s = "todo"                       -> {"execute"}
      [] s \in {"pr_ready", "human_review"} -> {"cancel"}
      [] OTHER                            -> {"pause", "cancel"}

Latest(t) == IF jobs[t] = <<>> THEN "none" ELSE jobs[t][Len(jobs[t])]
IsOpen(t) == Latest(t) \in {"queued", "running", "paused"}

-----------------------------------------------------------------------------
(***************************************************************************)
(* Statements.                                                              *)
(***************************************************************************)
S(op, t, v) == [op |-> op, t |-> t, v |-> v]
Catch == <<S("catch", None, <<>>)>>
Try(stmts) == stmts \o Catch
OrElse(stmts, handler) == stmts \o <<S("catch", None, handler)>>
Write(t, fields, tracked) == S("write", t, [fields |-> fields, tracked |-> tracked, read |-> task[t].status])
Put(t, fields) == S("write", t, [fields |-> fields, tracked |-> FALSE, read |-> None])

Settle(q) ==
    LET busy == {i \in 1..Len(q) : q[i].op # "catch"}
    IN  IF busy = {} THEN <<>> ELSE SubSeq(q, Min(busy), Len(q))
Unwind(q) ==
    LET caught == {i \in 1..Len(q) : q[i].op = "catch"}
    IN  IF caught = {} THEN <<>> ELSE q[Min(caught)].v \o SubSeq(q, Min(caught) + 1, Len(q))

Doing(a, op) == agenda[a] # <<>> /\ Head(agenda[a]).op = op
It(a) == Head(agenda[a])
Then(a, stmts) == agenda' = [agenda EXCEPT ![a] = Settle(stmts \o Tail(@))]
Raise(a) == agenda' = [agenda EXCEPT ![a] = Settle(Unwind(Tail(@)))]
Check(a, ok, stmts) == IF ok THEN Then(a, stmts) ELSE Raise(a)
OnlyAgenda == UNCHANGED <<rows, stage, pr, run, conf, budget, hist>>

\* A row, or an update of one, with some fields set.
Updated(row, fields) ==
    [f \in DOMAIN row \cup DOMAIN fields |-> IF f \in DOMAIN fields THEN fields[f] ELSE row[f]]

\* applyGuardrails.  Its counter of retries moves on a request for fixing, and
\* nothing asks updateTaskStatus for fixing.
ApplyGuardrails(row, s) ==
    LET retries == IF s = "fixing" /\ row.status \in {"testing", "reviewing"} THEN row.retries + 1
                   ELSE IF row.status = "testing" /\ s \in {"pr_ready", "merged", "human_review"} THEN 0
                   ELSE row.retries
        started == IF row.status = "todo" /\ row.started = "no" THEN "yes" ELSE row.started
        trips   == s \notin {"blocked", "failed", "merged"} /\ (retries >= 5 \/ started = "late")
        fields  == [status  |-> IF trips THEN "blocked" ELSE s,
                    reason  |-> IF trips THEN "guardrail" ELSE "",
                    retries |-> retries]
    IN  IF started = row.started THEN fields ELSE Updated(fields, [started |-> started])

\* updateTaskStatus, up to the validation: what it read decides what it will write.
ReadStatus(a) ==
    /\ Doing(a, "status")
    /\ LET t == It(a).t
           w == ApplyGuardrails(task[t], It(a).v)
       IN  Check(a, ValidateTaskTransition(task[t].status, w.status),
                 <<Write(t, w, TRUE)>>)
    /\ OnlyAgenda

\* A run goes on until it is cancelled, which follows the write of its job's status.
Outlived(a) == a \in Tasks /\ run[a] # 0 /\ jobs[a][run[a]] # "running"

\* The write of updateTaskStatus, or of one of the callers that go to the
\* repository directly.  A child that ends tells its parent.
WriteTask(a) ==
    /\ Doing(a, "write")
    /\ LET t == It(a).t
           w == It(a).v
           status == Updated(task[t], w.fields).status
       IN  /\ task' = [task EXCEPT ![t] = Updated(@, w.fields)]
           /\ astray' = IF /\ "status" \in DOMAIN w.fields
                           /\ \/ Outlived(a)
                              \/ w.read \notin {None, task[t].status}
                              \/ ~w.tracked /\ status \in {"merged", "failed"}
                        THEN astray \cup {t} ELSE astray
           /\ Then(a, IF w.tracked /\ t \in Kids /\ status \in {"merged", "failed"}
                      THEN <<S("terminal", t, status)>> ELSE <<>>)
    /\ UNCHANGED <<jobs, marks, recorded, stage, pr, run, conf, budget, refused>>

\* taskSvc.Update and its like: read, validate, write, with no guardrail.
ReadValidated(a) ==
    /\ Doing(a, "update")
    /\ Check(a, ValidateTaskTransition(task[It(a).t].status, It(a).v.status), <<Write(It(a).t, It(a).v, FALSE)>>)
    /\ OnlyAgenda

-----------------------------------------------------------------------------
(***************************************************************************)
(* Jobs and checkpoints.                                                    *)
(***************************************************************************)
SetJob(t, s) == S("job", t, [job |-> Len(jobs[t]), status |-> s])

UpdateJob(a) ==
    /\ Doing(a, "job")
    /\ LET t == It(a).t
           j == It(a).v.job
           ok == ValidJobTransition(jobs[t][j], It(a).v.status)
       IN  /\ jobs' = IF ok THEN [jobs EXCEPT ![t][j] = It(a).v.status] ELSE jobs
           /\ Check(a, ok, <<>>)
    /\ UNCHANGED <<task, marks, recorded, stage, pr, run, conf, budget, hist>>

Enqueue(a) ==
    /\ Doing(a, "enqueue")
    /\ Len(jobs[It(a).t]) < MaxJobs
    /\ jobs' = [jobs EXCEPT ![It(a).t] = Append(@, "queued")]
    /\ Then(a, <<>>)
    /\ UNCHANGED <<task, marks, recorded, stage, pr, run, conf, budget, hist>>

\* Execute: a job in hand answers, a paused one is resumed, else a new one is queued.
ExecuteBody(t) ==
    IF Latest(t) \in {"queued", "running"} THEN <<>>
    ELSE (IF Latest(t) = "paused" THEN <<SetJob(t, "queued")>> ELSE <<>>)
         \o (IF task[t].status \in {"todo", "failed"} THEN <<S("status", t, "context_loading")>> ELSE <<>>)
         \o (IF Latest(t) = "paused" THEN <<>> ELSE <<S("enqueue", t, None)>>)

Execute(a) == Doing(a, "execute") /\ Then(a, ExecuteBody(It(a).t)) /\ OnlyAgenda

\* The cancel function of a job's run: what the run was doing is cut short and
\* fail returns without writing.  A failure already being written is not cut:
\* fail writes with a context of its own.
Kill(t) == S("kill", t, Len(jobs[t]))

CancelRun(a) ==
    /\ Doing(a, "kill")
    /\ LET t == It(a).t
           failing == \E i \in 1..Len(agenda[t]) : agenda[t][i].op = "end" /\ agenda[t][i].v = "failed"
           hit == run[t] = It(a).v /\ ~failing
       IN  /\ run' = IF hit THEN [run EXCEPT ![t] = 0] ELSE run
           /\ agenda' = [agenda EXCEPT ![a] = Settle(Tail(@)), ![t] = IF hit THEN <<>> ELSE @]
    /\ UNCHANGED <<rows, stage, pr, conf, budget, hist>>

RetryFromLastStep(a) ==
    /\ Doing(a, "retry")
    /\ LET t == It(a).t
       IN  Check(a, task[t].status \in {"failed", "spec_review", "analyzing"},
                 (IF IsOpen(t) THEN <<Kill(t)>> \o Try(<<SetJob(t, "failed")>>) ELSE <<>>)
                 \o <<S("status", t, "analyzing"), S("enqueue", t, None)>>)
    /\ OnlyAgenda

PauseJob(a) ==
    /\ Doing(a, "pause")
    /\ Check(a, Latest(It(a).t) = "running", <<SetJob(It(a).t, "paused"), Kill(It(a).t)>>)
    /\ OnlyAgenda

\* The job first, the task after it, and the run only then.
CancelJob(a) ==
    /\ Doing(a, "cancel")
    /\ Check(a, IsOpen(It(a).t), <<SetJob(It(a).t, "failed"), S("status", It(a).t, "failed"), Kill(It(a).t)>>)
    /\ OnlyAgenda

\* SavePRRejectionFeedback and SaveSpecReviewCycle store a checkpoint each,
\* ClearCheckpointsForRepair deletes by the pattern pr_%, which the first matches.
SaveMark(a) ==
    /\ Doing(a, "mark")
    /\ marks' = [marks EXCEPT ![It(a).t][It(a).v] = @ + 1]
    /\ Then(a, <<>>)
    /\ UNCHANGED <<task, jobs, recorded, stage, pr, run, conf, budget, hist>>

ClearCheckpointsForRepair(a) ==
    /\ Doing(a, "clear")
    /\ marks' = [marks EXCEPT ![It(a).t].rejections = 0]
    /\ Then(a, <<>>)
    /\ UNCHANGED <<task, jobs, recorded, stage, pr, run, conf, budget, hist>>

\* CheckReviewLoopLimit and CheckSpecReviewLoopLimit.
CheckLoopLimit(a) ==
    /\ Doing(a, "limit")
    /\ Then(a, IF marks[It(a).t][It(a).v] < MaxReviewFixCycles THEN <<>>
               ELSE Try(<<S("status", It(a).t, "failed")>>) \o <<S("raise", None, None)>>)
    /\ OnlyAgenda

ReturnError(a) == Doing(a, "raise") /\ Raise(a) /\ OnlyAgenda

-----------------------------------------------------------------------------
(***************************************************************************)
(* Decomposition.                                                           *)
(***************************************************************************)
Siblings == {i \in 1..Len(Children) : task[Children[i]].exists}
Unmerged == {i \in Siblings : task[Children[i]].status # "merged"}

\* Mutant: only a failure reaches the parent.
OnlyFailures(c, status) ==
    IF task[Parent].split /\ status = "failed"
    THEN <<Put(Parent, [blockedChild |-> c])>> \o Try(<<S("status", Parent, "blocked")>>) ELSE <<>>

\* onChildTaskTerminal, for a parent that is decomposed: a failure blocks it, a
\* success moves on.
OnChildTaskTerminal(c, status) ==
    IF ~task[Parent].split THEN <<>>
    ELSE IF status = "failed" THEN <<Put(Parent, [blockedChild |-> c])>> \o Try(<<S("status", Parent, "blocked")>>)
    ELSE <<S("list", Parent, None)>>

ChildTerminal(a) == Doing(a, "terminal") /\ Then(a, OnChildTaskTerminal(It(a).t, It(a).v)) /\ OnlyAgenda

\* Mutant: only a child that never ran is looked for, and the family is never finished.
DispatchOnly == IF Unmerged = {} \/ task[Children[Min(Unmerged)]].status # "todo" THEN <<>>
                ELSE Try(<<S("execute", Children[Min(Unmerged)], None)>>)

\* dispatchNextChildOrReduce, and completeDecomposedParent when nothing is left.
DispatchNextChildOrReduce ==
    IF Unmerged # {}
    THEN LET c == Children[Min(Unmerged)]
         IN  IF task[c].status = "todo" THEN Try(<<S("execute", c, None)>>) ELSE <<>>
    ELSE IF Siblings = {} THEN <<>> ELSE Try(<<S("status", Parent, "merged")>>)

ListChildren(a) == Doing(a, "list") /\ Then(a, DispatchNextChildOrReduce) /\ OnlyAgenda

\* Mutant: the failing child is forgotten and not run again.
ForgetBlockedChild(c) == <<S("status", Parent, "coding"), Put(Parent, [blockedChild |-> None])>>

\* RetryBlockedParent, once the parent is found blocked with a failing child.
ResumeParent(c) ==
    <<S("status", Parent, "coding"), Put(Parent, [blockedChild |-> None]), S("retry", c, None)>>

RetryBlockedParent(a) ==
    /\ Doing(a, "retryParent")
    /\ Check(a, task[Parent].status = "blocked" /\ task[Parent].blockedChild # None,
             ResumeParent(task[Parent].blockedChild))
    /\ OnlyAgenda

\* ApproveSplit creates the children one after the other, then marks the parent;
\* the handler starts the first child.
SplitBody ==
    [i \in 1..Len(Children) |-> Put(Children[i], Created("todo"))]
    \o <<Put(Parent, [split |-> TRUE]), S("list", Parent, None)>>

-----------------------------------------------------------------------------
(***************************************************************************)
(* Pull requests.  The provider merges on its own or when asked.             *)
(***************************************************************************)
\* After the merge: a paused job is done.
FinishJob(a) ==
    /\ Doing(a, "finish")
    /\ Then(a, IF Latest(It(a).t) = "paused" THEN Try(<<SetJob(It(a).t, "done")>>) ELSE <<>>)
    /\ OnlyAgenda

Merged(t) == <<S("status", t, "merged"), S("finish", t, None)>>

\* Mutant: the provider's answer is not waited for.
MergeBlind(t) == pr' = pr

\* MergePullRequest, or IsPullRequestMerged after it failed, says that it is merged.
ProviderMerges(t) == pr' = [pr EXCEPT ![t] = "merged"]

ApproveMerge(a) ==
    /\ Doing(a, "approve")
    /\ LET t == It(a).t
           ready == task[t].status \in {"pr_ready", "human_review"} /\ pr[t] # "none"
       IN  \/ /\ ready /\ ProviderMerges(t)
              /\ Then(a, Merged(t))
           \/ /\ ~ready \/ pr[t] # "merged"    \* or the provider refuses
              /\ pr' = pr /\ Raise(a)
    /\ UNCHANGED <<rows, stage, run, conf, budget, hist>>

\* Somebody merges the pull request at the provider.
RemoteMerge(t) ==
    /\ pr[t] \in {"open", "reopened"}
    /\ pr' = [pr EXCEPT ![t] = "merged"]
    /\ UNCHANGED <<rows, stage, run, agenda, conf, budget, hist>>

StartReview(a) ==
    /\ Doing(a, "review")
    /\ Check(a, task[It(a).t].status = "pr_ready", <<S("status", It(a).t, "human_review")>>)
    /\ OnlyAgenda

\* SyncPRMerged from the webhook and syncPRStatuses from the ticker: the task is
\* looked up by its status and its pull request.
SyncMerged(a) ==
    /\ Doing(a, "sync")
    /\ LET t == It(a).t
       IN  Check(a, task[t].status \in {"pr_ready", "human_review"} /\ pr[t] = "merged", Merged(t))
    /\ OnlyAgenda

-----------------------------------------------------------------------------
(***************************************************************************)
(* Requests: the statements of each handler.                                 *)
(***************************************************************************)
SpecChanges(t) ==
    <<S("update", t, [status |-> "analyzing", spec |-> "changes_requested"])>>

\* TaskActionService.execute.
ActionBody(t, action) ==
    CASE action = "approve_spec"    -> <<S("update", t, [status |-> "coding", spec |-> "approved"]), S("execute", t, None)>>
      [] action = "request_changes" -> <<S("limit", t, "cycles")>> \o SpecChanges(t)
                                       \o <<S("mark", t, "cycles"), S("execute", t, None)>>
      [] action = "retry_blocked"   -> <<S(IF task[t].blockedChild # None THEN "retryParent" ELSE "retry", t, None)>>
      [] OTHER                      -> <<S(action, t, None)>>     \* execute, pause, cancel, retry

\* FindByRequestID, then the action's availability in the status read now.
Fresh(r) == r \notin recorded

Dispatch(a) ==
    /\ Doing(a, "dispatch")
    /\ LET t == It(a).t
           r == It(a).v.key
           action == It(a).v.action
       IN  IF ~Fresh(r) THEN Then(a, <<>>)
           ELSE IF action \notin AvailableActions(task[t].status) THEN Raise(a)
           ELSE Then(a, ActionBody(t, action) \o <<S("record", t, r)>>)
    /\ OnlyAgenda

\* requestRepo.Create; the index on the key refuses a second one.
Record(a) ==
    /\ Doing(a, "record")
    /\ Check(a, It(a).v \notin recorded, <<>>)
    /\ recorded' = recorded \cup {It(a).v}
    /\ UNCHANGED <<task, jobs, marks, stage, pr, run, conf, budget, hist>>

\* handler/pr.go Reject, after it found the task reviewable.
RejectBody(t) ==
    <<S("limit", t, "rejections"), S("update", t, [status |-> "fixing"]), S("mark", t, "rejections"),
      S("clear", t, None), S("execute", t, None)>>

\* Clarify checks no transition: the task goes back to where its run paused.
ClarifyBody(t) ==
    <<Put(t, [spec |-> "none", pausedStep |-> "",
              status |-> IF task[t].pausedStep = "implement" THEN "coding" ELSE "analyzing"]),
      S("execute", t, None)>>

\* Analyze: the heuristic analysis decides the gate and leaves the run to Execute.
AnalyzeBody(t, gate) ==
    IF gate = "auto_approved" THEN <<Put(t, [spec |-> gate, status |-> "coding"]), S("execute", t, None)>>
    ELSE IF gate = "ready_with_warnings" THEN <<Put(t, [spec |-> gate, status |-> "coding"])>>
    ELSE <<Put(t, [spec |-> gate, status |-> "spec_review"])>>

Arrives(c, stmts) ==
    /\ agenda[c] = <<>> /\ budget.requests > 0
    /\ budget' = [budget EXCEPT !.requests = @ - 1]
    /\ agenda' = [agenda EXCEPT ![c] = stmts]
    /\ UNCHANGED <<rows, stage, pr, run, conf, hist>>

\* The actions endpoint, and the endpoints that go to the orchestrator directly.
ActionArrives(c, t, action, r) == Arrives(c, <<S("dispatch", t, [key |-> r, action |-> action])>>)
RequestArrives(c, t, request) == Arrives(c, <<S(request, t, None)>>)

RejectArrives(c, t) == task[t].status \in {"pr_ready", "human_review"} /\ Arrives(c, RejectBody(t))
ReviewArrives(c, t) == task[t].status = "pr_ready" /\ RequestArrives(c, t, "review")
ClarifyArrives(c, t) == Arrives(c, ClarifyBody(t))
ChangesArrive(c, t) == Arrives(c, SpecChanges(t) \o <<S("execute", t, None)>>)
UpdateArrives(c, t, s) == Arrives(c, <<S("update", t, [status |-> s])>>)
AnalyzeArrives(c, t, gate) ==
    task[t].status \in {"todo", "analyzing", "spec_review", "failed"} /\ Arrives(c, AnalyzeBody(t, gate))

-----------------------------------------------------------------------------
(***************************************************************************)
(* The run of a task: cli_analyze and cli_spec, the implementation (with the  *)
(* merge of two tracks), the cross review, the merge request.  `stage` counts  *)
(* the steps whose checkpoint says success.                                    *)
(***************************************************************************)
Fails(t) == Try(<<S("status", t, "failed")>>) \o Try(<<S("job", t, [job |-> run[t], status |-> "failed"])>>)
            \o <<S("end", t, "failed")>>
Pauses(t) == Try(<<S("job", t, [job |-> run[t], status |-> "paused"])>>) \o <<S("end", t, "paused")>>
Advances(t, n) == <<S("stage", t, n)>>

\* The status that the run restores from the latest checkpoint before it goes on.
ResumeStatus(t) ==
    CASE stage[t] = 2 /\ flow[t].parallel  -> Try(<<S("status", t, "reviewing")>>)
      [] stage[t] = 2 /\ ~flow[t].parallel -> Try(<<S("status", t, "coding")>>)
      [] OTHER                             -> <<>>

Claim(t) ==
    /\ run[t] = 0 /\ agenda[t] = <<>>
    /\ \E j \in 1..Len(jobs[t]) :
          /\ jobs[t][j] = "queued"
          /\ jobs' = [jobs EXCEPT ![t][j] = "running"]
          /\ run' = [run EXCEPT ![t] = j]
          /\ agenda' = [agenda EXCEPT ![t] =
                 Settle(OrElse(IF task[t].status \in {"todo", "failed"}
                               THEN <<S("status", t, "context_loading")>> ELSE <<>>,
                               Try(<<S("status", t, "failed")>>)
                               \o Try(<<S("job", t, [job |-> j, status |-> "failed"])>>) \o <<S("end", t, "failed")>>)
                        \o ResumeStatus(t))]
    /\ UNCHANGED <<task, marks, recorded, stage, pr, conf, budget, hist>>

Working(t) == run[t] # 0 /\ agenda[t] = <<>>
Steps(t, stmts) ==
    /\ agenda' = [agenda EXCEPT ![t] = Settle(OrElse(stmts, <<S("refused", t, None)>> \o Fails(t)))]
    /\ UNCHANGED <<rows, stage, pr, run, conf, hist>>

\* cli_analyze and cli_spec: they write analyzing themselves, then the gate.
SpecStep(t) ==
    /\ Working(t) /\ stage[t] = 0
    /\ LET entry == IF task[t].status \in {"context_loading", "todo"}
                    THEN <<Put(t, [status |-> "analyzing"])>> ELSE <<>>
       IN  \/ /\ task[t].spec = "approved"
              /\ Steps(t, entry \o Advances(t, 1)) /\ budget' = budget
           \/ /\ task[t].spec # "approved" /\ ~flow[t].gated
              /\ Steps(t, entry \o <<Put(t, [spec |-> "auto_approved"])>> \o Advances(t, 1)) /\ budget' = budget
           \/ /\ task[t].spec # "approved" /\ flow[t].gated
              /\ Steps(t, entry \o <<Put(t, [spec |-> "pending_review", status |-> "spec_review"])>> \o Pauses(t))
              /\ budget' = budget

\* A step of the command line tool that ends with a question.
ClarificationStep(t) ==
    /\ Working(t) /\ stage[t] \in {0, 1} /\ budget.questions > 0
    /\ budget' = [budget EXCEPT !.questions = @ - 1]
    /\ Steps(t, <<Put(t, [spec |-> "clarification_required",
                          pausedStep |-> IF stage[t] = 0 THEN "spec" ELSE "implement"])>> \o Pauses(t))

ImplementStep(t) ==
    /\ Working(t) /\ stage[t] = 1
    /\ Steps(t, (IF flow[t].parallel THEN <<S("status", t, "reviewing")>> ELSE <<>>)
                \o Advances(t, IF flow[t].reviewed THEN 2 ELSE 3))
    /\ budget' = budget

\* cross_review: findings send the code back, anything else goes on to the merge request.
CrossReviewStep(t) ==
    /\ Working(t) /\ stage[t] = 2
    /\ \/ /\ Steps(t, <<S("status", t, "human_review")>> \o Advances(t, 3))
          /\ budget' = budget
       \/ /\ budget.loops > 0
          /\ budget' = [budget EXCEPT !.loops = @ - 1]
          /\ Steps(t, <<S("status", t, "coding")>> \o Advances(t, 1))

\* cli_mr: push, open or find the pull request, then wait for its review.
MergeRequestStep(t) ==
    /\ Working(t) /\ stage[t] = 3
    /\ Steps(t, <<S("open", t, None), S("status", t, "pr_ready")>> \o Pauses(t))
    /\ budget' = budget

OpenPullRequest(a) ==
    /\ Doing(a, "open")
    /\ \/ pr' = [pr EXCEPT ![It(a).t] = IF @ \in {"merged", "reopened"} THEN "reopened" ELSE "open"]
       \/ pr' = pr                                \* nothing changed since, or nothing at all
    /\ Then(a, <<>>)
    /\ UNCHANGED <<rows, stage, run, conf, budget, hist>>

\* A step fails for good, or panics.
StepFails(t) ==
    /\ Working(t) /\ budget.failures > 0
    /\ budget' = [budget EXCEPT !.failures = @ - 1]
    /\ agenda' = [agenda EXCEPT ![t] = Fails(t)]
    /\ UNCHANGED <<rows, stage, pr, run, conf, hist>>

SaveStage(a) ==
    /\ Doing(a, "stage")
    /\ stage' = [stage EXCEPT ![It(a).t] = It(a).v]
    /\ Then(a, <<>>)
    /\ UNCHANGED <<rows, pr, run, conf, budget, hist>>

StepRefused(a) ==
    /\ Doing(a, "refused")
    /\ refused' = refused \cup {It(a).t}
    /\ Then(a, <<>>)
    /\ UNCHANGED <<rows, stage, pr, run, conf, budget, astray>>

EndRun(a) ==
    /\ Doing(a, "end")
    /\ run' = [run EXCEPT ![It(a).t] = 0]
    /\ Then(a, <<>>)
    /\ UNCHANGED <<rows, stage, pr, conf, budget, hist>>

-----------------------------------------------------------------------------
\* The clock passes a task's time limit.
TimeLimitPasses(t) ==
    /\ task[t].started = "yes" /\ budget.disturbances > 0
    /\ budget' = [budget EXCEPT !.disturbances = @ - 1]
    /\ task' = [task EXCEPT ![t].started = "late"]
    /\ UNCHANGED <<jobs, marks, recorded, stage, pr, run, agenda, conf, hist>>

\* checkEventVolumeGuardrail, called from log: blockTask, where the table allows it.
EventVolumeTrips(t) ==
    /\ run[t] # 0 /\ budget.disturbances > 0
    /\ "blocked" \in ValidTaskTransitions[task[t].status]
    /\ budget' = [budget EXCEPT !.disturbances = @ - 1]
    /\ task' = [task EXCEPT ![t].status = "blocked", ![t].reason = "guardrail"]
    /\ UNCHANGED <<jobs, marks, recorded, stage, pr, run, agenda, conf, hist>>

-----------------------------------------------------------------------------
Statement(a) ==
    \/ ReadStatus(a) \/ WriteTask(a) \/ ReadValidated(a)
    \/ UpdateJob(a) \/ Enqueue(a) \/ Execute(a) \/ RetryFromLastStep(a) \/ PauseJob(a) \/ CancelJob(a)
    \/ SaveMark(a) \/ ClearCheckpointsForRepair(a) \/ CheckLoopLimit(a) \/ ReturnError(a)
    \/ ChildTerminal(a) \/ ListChildren(a) \/ RetryBlockedParent(a)
    \/ FinishJob(a) \/ ApproveMerge(a) \/ StartReview(a) \/ SyncMerged(a)
    \/ CancelRun(a) \/ Dispatch(a) \/ Record(a)
    \/ OpenPullRequest(a) \/ SaveStage(a) \/ StepRefused(a) \/ EndRun(a)

RunStep(t) ==
    \/ Claim(t) \/ SpecStep(t) \/ ClarificationStep(t) \/ ImplementStep(t) \/ CrossReviewStep(t)
    \/ MergeRequestStep(t) \/ StepFails(t)

\* A task on its own meets every request.  A family, whose split has just been
\* approved, meets those that move a child or the parent, once the children's ids
\* are out.
SoloRequest(c) ==
    /\ scenario = "solo"
    /\ \/ \E r \in RequestIds, action \in AvailableActions(task[Parent].status) : ActionArrives(c, Parent, action, r)
       \/ \E request \in {"execute", "retry", "approve", "sync"} : RequestArrives(c, Parent, request)
       \/ ReviewArrives(c, Parent)
       \/ RejectArrives(c, Parent)
       \/ ClarifyArrives(c, Parent)
       \/ ChangesArrive(c, Parent)
       \/ \E s \in PatchedStatuses : UpdateArrives(c, Parent, s)
       \/ \E gate \in {"auto_approved", "ready_with_warnings", "pending_review"} : AnalyzeArrives(c, Parent, gate)

FamilyRequest(c) ==
    /\ scenario = "family" /\ task[Parent].split
    /\ \/ \E k \in Kids, request \in {"execute", "retry", "cancel", "approve"} :
             RequestArrives(c, k, request)
       \/ RequestArrives(c, Parent, "retryParent")

\* A task as it is after Analyze, whose spec waits for a person.
Analyzed == [Created("todo") EXCEPT !.status = "spec_review", !.spec = "pending_review"]

LifecycleInit ==
    /\ scenario \in {"solo", "family"}
    /\ \E first \in IF scenario = "solo" THEN {Created("todo"), Analyzed}
                    ELSE {Created("coding"), Created("spec_review")} :
          task = [t \in Tasks |-> IF t = Parent THEN first ELSE [Created("todo") EXCEPT !.exists = FALSE]]
    /\ jobs = [t \in Tasks |-> IF scenario = "family" /\ t = Parent THEN <<"paused">> ELSE <<>>]
    /\ stage = [t \in Tasks |-> 0]
    /\ marks = [t \in Tasks |-> [rejections |-> 0, cycles |-> 0]]
    /\ pr = [t \in Tasks |-> "none"] /\ run = [t \in Tasks |-> 0]
    /\ agenda = [a \in Actors |-> IF scenario = "family" /\ a = Parent THEN SplitBody ELSE <<>>]
    /\ recorded = {} /\ astray = {} /\ refused = {}
    /\ flow \in [Tasks -> [parallel : BOOLEAN, reviewed : BOOLEAN, gated : BOOLEAN]]
    /\ \A t \in Tasks : scenario = "family" \/ t # Parent =>
          flow[t] = [parallel |-> FALSE, reviewed |-> FALSE, gated |-> FALSE]
    /\ task[Parent] = Analyzed => flow[Parent] = [parallel |-> FALSE, reviewed |-> FALSE, gated |-> TRUE]
    /\ budget = [requests |-> MaxRequests[IF scenario = "solo" THEN "solo" ELSE task[Parent].status],
                 loops |-> IF scenario = "solo" THEN MaxFixLoops ELSE 0, failures |-> MaxFailures,
                 questions |-> IF scenario = "solo" THEN MaxQuestions ELSE 0,
                 disturbances |-> IF scenario = "solo" THEN MaxDisturbances ELSE 0]

LifecycleNext ==
    \/ \E a \in Actors : Statement(a)
    \/ \E t \in Tasks : RunStep(t) \/ RemoteMerge(t) \/ TimeLimitPasses(t) \/ EventVolumeTrips(t)
    \/ \E c \in Callers : SoloRequest(c) \/ FamilyRequest(c)

LifecycleSpec == LifecycleInit /\ [][LifecycleNext]_lifeVars

-----------------------------------------------------------------------------
(***************************************************************************)
(* Properties.                                                              *)
(***************************************************************************)
SpecStatus == {"none", "pending_review", "changes_requested", "clarification_required", "approved",
               "auto_approved", "ready_with_warnings"}

\* The rows have the statuses the code knows, and the bounds are kept.
LifecycleTypeOK ==
    /\ \A t \in Tasks :
          /\ task[t].status \in TaskStatus /\ task[t].spec \in SpecStatus
          /\ task[t].blockedChild \in Kids \cup {None} /\ task[t].started \in {"no", "yes", "late"}
          /\ \A j \in 1..Len(jobs[t]) : jobs[t][j] \in JobStatus
          /\ run[t] \in 0..Len(jobs[t]) /\ stage[t] \in 0..3

Quiet == \A a \in Actors : agenda[a] = <<>>

InHand(t) == \E j \in 1..Len(jobs[t]) : jobs[t][j] \in {"queued", "running", "paused"}
Left == {i \in 1..Len(Children) : task[Children[i]].status # "merged"}

\* A family that was split, no row of which lost a status to a write that was decided
\* on an older one: updateTaskStatus reads and writes without a lock (tracker.go:222).
Family == scenario = "family" /\ task[Parent].split /\ astray = {}

\* Two children that end at once each write their status before they list the
\* family, so one of them finds it complete (decomposition.go:39): with nothing
\* under way, a parent whose children are all merged is merged, unless its own
\* status does not allow it.
ParentCompletes ==
    Quiet /\ Family /\ Left = {} =>
        task[Parent].status = "merged" \/ ~ValidateTaskTransition(task[Parent].status, "merged")

\* Whatever order the children end in, the first of them that is not merged has
\* been dispatched (decomposition.go:81): with nothing under way it is never todo.
NoChildForgotten ==
    Quiet /\ Family /\ Left # {} => task[Children[Min(Left)]].status # "todo"

\* A family that nothing drives any more can be retried (decomposition.go:126): with
\* nothing under way and every child merged, failed or not begun, an unfinished parent
\* names a child that failed, also after two requests retried it at once.  A third
\* request can leave it otherwise, and a cancelled run can leave a child in between.
Requested == MaxRequests[IF task[Parent].status = "spec_review" THEN "spec_review" ELSE "coding"] - budget.requests
Rests(k) == ~InHand(k) /\ task[k].status \in {"todo", "failed", "merged"}
StuckParentHasCulprit ==
    Quiet /\ Family /\ Left # {} /\ Requested <= 2 /\ (\A k \in Kids : Rests(k)) =>
        task[Parent].blockedChild # None /\ task[task[Parent].blockedChild].status = "failed"

\* A task is merged when a pull request of it was (orchestrator.go:589, pr_sync.go:36),
\* unless a person set the status or it stands for its children.
MergedMeansMerged ==
    \A t \in Tasks : task[t].status = "merged" /\ t \notin astray /\ ~task[t].split => pr[t] \in {"merged", "reopened"}

\* A run that has done the work of a step is given the status of that step.
PipelineStatusAccepted == refused = {}

=============================================================================
