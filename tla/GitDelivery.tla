------------------------------ MODULE GitDelivery ------------------------------
(***************************************************************************)
(* How the code of a task gets from a working tree to a pull request.  One    *)
(* task with several repositories: cli_implement edits the main clone, or two *)
(* parallel tracks edit worktrees of their own branches and the merge step    *)
(* brings these onto the integration branch; the pull-request step squashes,  *)
(* pushes and opens one pull request per repository.  Every git command is a  *)
(* step, and the run may fail after any of them and be retried from the start *)
(* of its workflow step.                                                      *)
(*                                                                            *)
(* A commit is the set of its ancestors (with itself) and the set of edits    *)
(* its tree holds.                                                            *)
(***************************************************************************)
EXTENDS Integers, FiniteSets

CONSTANTS
    Repos,
    EmptyRemotes,   \* repositories whose remote had no branch when it was cloned
    MaxRounds,      \* bound: how often the implementation is run
    MaxFailures     \* bound: failed attempts, rejections

ASSUME DeliveryAssumption ==
    IsFiniteSet(Repos) /\ EmptyRemotes \subseteq Repos /\ {MaxRounds, MaxFailures} \subseteq Nat

VARIABLES
    line,     \* the task: easy, parallel, child, urls and metadata of its pull requests, status
    work,     \* the run: step, phase, repositories left, current one, pull requests so far, round
    track,    \* per track: pc
    branch,   \* per repository: branch name -> commit, or NoCommit
    clone,    \* per repository: branch checked out, uncommitted edits, merge in progress
    tree,     \* per repository and track: is the worktree there, its uncommitted edits
    origin,   \* per repository: the edits of the remote base and of the pushed branch, open pull requests
    shipped,  \* history: edits of the implement steps that succeeded, per repository
    unread,   \* history: repositories whose status could not be read by the pull-request step
    failures

gitVars == <<line, work, track, branch, clone, tree, origin, shipped, unread, failures>>

Tracks == {"be", "fe"}
NoRepo == "none"
NoCommit == [anc |-> {}, edits |-> {}]
Root == [anc |-> {<<"root", 0>>}, edits |-> {}]
SpecEdit == <<0, "spec">>
IsAncestor(a, c) == a.anc \subseteq c.anc

\* The names of the tracks' branches come from the owner of the workspace, those
\* of the merge and of the pull request from the task: the two differ for a child.
TrackBranch(name) == IF line.child THEN <<"owner", name>> ELSE <<"task", name>>
StepBranch(name) == <<"task", name>>
Base == <<"task", "base">>
Names == {Base} \cup {"task", "owner"} \X {"int", "be", "fe"}

Changed(c) == c.staged # {}
HeadCommit(r) == branch[r][clone[r].head]
HasBranch(r, name) == branch[r][name] # NoCommit

GitInit ==
    /\ line \in [easy : BOOLEAN, parallel : BOOLEAN, child : BOOLEAN, urls : {{}},
                 meta : {"none"}, status : {"coding"}]
    /\ work = [step |-> "implement", phase |-> "run", todo |-> {}, cur |-> NoRepo, got |-> {},
               changed |-> FALSE, conflict |-> FALSE, round |-> 1]
    /\ track = [t \in Tracks |-> "setup"]
    /\ branch = [r \in Repos |-> [n \in Names |-> IF n = Base THEN Root ELSE NoCommit]]
    /\ clone = [r \in Repos |-> [head |-> Base, staged |-> {}, merging |-> FALSE]]
    /\ tree = [r \in Repos |-> [t \in Tracks |-> [valid |-> FALSE, dirty |-> {}]]]
    /\ origin = [r \in Repos |-> [empty |-> r \in EmptyRemotes, base |-> {}, task |-> {}, prs |-> 0]]
    /\ shipped = [r \in Repos |-> {}] /\ unread = {} /\ failures = 0

--------------------------------------------------------------------------------
\* cli_implement, in the main clone or in the worktrees

\* A commit of `who` on top of c that takes in more edits.
CommitOn(c, who, more) ==
    [anc |-> c.anc \cup {<<who, Cardinality({i \in c.anc : i[1] = who}) + 1>>},
     edits |-> c.edits \cup more]

Goto(step, phase) ==
    work' = [work EXCEPT !.step = step, !.phase = phase, !.todo = Repos, !.cur = NoRepo, !.got = {},
                         !.conflict = FALSE]

\* The harness edits some of the repositories; a run without a change is an error.
Implement ==
    /\ work.step = "implement" /\ work.phase = "run" /\ ~line.parallel
    /\ \E S \in SUBSET Repos \ {{}} :
         clone' = [r \in Repos |-> [clone[r] EXCEPT !.staged =
                                      @ \cup (IF r \in S THEN {<<work.round, "solo">>} ELSE {})]]
    /\ work' = [work EXCEPT !.phase = "checkpoint"]
    /\ UNCHANGED <<line, track, branch, tree, origin, shipped, unread, failures>>

\* CreateGitCheckpoint stops at the first repository it fails for, and the step goes on.
Checkpoint ==
    /\ work.step = "implement" /\ work.phase = "checkpoint"
    /\ \E S \in SUBSET Repos :
         /\ branch' = [r \in Repos |-> IF r \in S
                          THEN [branch[r] EXCEPT ![clone[r].head] = CommitOn(@, "solo", clone[r].staged)]
                          ELSE branch[r]]
         /\ clone' = [r \in Repos |-> IF r \in S THEN [clone[r] EXCEPT !.staged = {}] ELSE clone[r]]
    /\ shipped' = [r \in Repos |-> HeadCommit(r).edits \cup clone[r].staged]
    /\ Goto("review", "start")
    /\ UNCHANGED <<line, track, tree, origin, unread, failures>>

\* The integration branch and the branch of the role, made when they are missing.
SetupRoleBranches(r, t) ==
    LET int == IF HasBranch(r, TrackBranch("int")) THEN branch[r][TrackBranch("int")] ELSE HeadCommit(r)
    IN  [branch[r] EXCEPT ![TrackBranch("int")] = int,
                          ![TrackBranch(t)] = IF @ = NoCommit THEN int ELSE @]

SetupRoleWorktrees(t) ==
    /\ work.step = "implement" /\ line.parallel /\ track[t] = "setup"
    /\ branch' = [r \in Repos |-> SetupRoleBranches(r, t)]
    /\ tree' = [r \in Repos |-> [tree[r] EXCEPT ![t] =
                    IF @.valid THEN @ ELSE [valid |-> TRUE, dirty |-> {}]]]
    /\ track' = [track EXCEPT ![t] = "run"]
    /\ UNCHANGED <<line, work, clone, origin, shipped, unread, failures>>

ImplementTrack(t) ==
    /\ work.step = "implement" /\ track[t] = "run"
    /\ \E S \in SUBSET Repos \ {{}} :
         tree' = [r \in Repos |-> [tree[r] EXCEPT ![t].dirty =
                                     @ \cup (IF r \in S THEN {<<work.round, t>>} ELSE {})]]
    /\ track' = [track EXCEPT ![t] = "commit"]
    /\ UNCHANGED <<line, work, branch, clone, origin, shipped, unread, failures>>

\* The checkpoint has committed in S, an empty commit where nothing changed; what is
\* still dirty is committed now.
CommitRoleWorktrees(t, S) ==
    [r \in Repos |-> IF r \in S \/ tree[r][t].dirty # {}
                     THEN [branch[r] EXCEPT ![TrackBranch(t)] = CommitOn(@, t, tree[r][t].dirty)]
                     ELSE branch[r]]

CommitTrack(t) ==
    /\ work.step = "implement" /\ track[t] = "commit"
    /\ \E S \in SUBSET Repos : branch' = CommitRoleWorktrees(t, S)
    /\ tree' = [r \in Repos |-> [tree[r] EXCEPT ![t].dirty = {}]]
    /\ shipped' = [r \in Repos |-> shipped[r] \cup tree[r][t].dirty]
    /\ track' = [track EXCEPT ![t] = "done"]
    /\ UNCHANGED <<line, work, clone, origin, unread, failures>>

TracksDone ==
    /\ work.step = "implement" /\ \A t \in Tracks : track[t] = "done"
    /\ Goto("merge", "start")
    /\ UNCHANGED <<line, track, branch, clone, tree, origin, shipped, unread, failures>>

--------------------------------------------------------------------------------
\* MergeStep

\* An attempt ends in an error; the git state stays as it is.
GiveUp == work' = [work EXCEPT !.phase = "error"]

\* The merge is skipped for an easy task.
MergeStart ==
    /\ work.step = "merge" /\ work.phase = "start"
    /\ IF line.easy THEN Goto("review", "start") ELSE work' = [work EXCEPT !.phase = "checkout"]
    /\ UNCHANGED <<line, track, branch, clone, tree, origin, shipped, unread, failures>>

\* A checkout ends a merge that was in progress and keeps what is staged.
CheckoutBranch ==
    /\ work.step = "merge" /\ work.phase = "checkout"
    /\ \E r \in work.todo :
         IF ~HasBranch(r, StepBranch("int")) THEN GiveUp /\ UNCHANGED clone
         ELSE /\ clone' = [clone EXCEPT ![r].head = StepBranch("int"), ![r].merging = FALSE]
              /\ work' = [work EXCEPT !.cur = r, !.phase = "be"]
    /\ UNCHANGED <<line, track, branch, tree, origin, shipped, unread, failures>>

\* The merge goes on with the next repository; a conflict pauses the run after the last one.
NextRepo(conflict) ==
    IF work.todo # {work.cur}
    THEN work' = [work EXCEPT !.todo = @ \ {work.cur}, !.cur = NoRepo, !.phase = "checkout",
                              !.conflict = @ \/ conflict]
    ELSE IF work.conflict \/ conflict THEN GiveUp ELSE Goto("review", "start")

AfterMerge(t) == work' = [work EXCEPT !.phase = IF t = "be" THEN "fe" ELSE "commit"]

Unfinished(r) == clone[r].merging \/ Changed(clone[r])

\* git merge --no-commit: nothing to do, fast forward, a merge left uncommitted,
\* a conflict that is aborted, or a refusal (an unfinished merge, staged edits).
MergeBranch(t) ==
    /\ work.step = "merge" /\ work.phase = t
    /\ LET r == work.cur
           ours == branch[r][StepBranch("int")]
           theirs == branch[r][StepBranch(t)]
       IN  IF ~HasBranch(r, StepBranch(t)) \/ (IsAncestor(theirs, ours) /\ ~clone[r].merging)
           THEN AfterMerge(t) /\ UNCHANGED <<branch, clone>>
           ELSE IF Unfinished(r) THEN GiveUp /\ UNCHANGED <<branch, clone>>
           ELSE IF IsAncestor(ours, theirs)
           THEN /\ branch' = [branch EXCEPT ![r][StepBranch("int")] = theirs]
                /\ AfterMerge(t) /\ UNCHANGED clone
           ELSE \/ /\ clone' = [clone EXCEPT ![r].merging = TRUE, ![r].staged = theirs.edits \ ours.edits]
                   /\ AfterMerge(t) /\ UNCHANGED branch
                \/ NextRepo(TRUE) /\ UNCHANGED <<branch, clone>>
    /\ UNCHANGED <<line, track, tree, origin, shipped, unread, failures>>

\* CommitChanges concludes the merge only when something is staged.
CommitMerge ==
    /\ work.step = "merge" /\ work.phase = "commit"
    /\ LET r == work.cur
           ours == branch[r][StepBranch("int")]
           with == IF clone[r].merging THEN branch[r][StepBranch("fe")] ELSE NoCommit
           parents == [ours EXCEPT !.anc = @ \cup with.anc]
       IN  IF Changed(clone[r])
           THEN /\ branch' = [branch EXCEPT ![r][StepBranch("int")] =
                                CommitOn(parents, "int", clone[r].staged)]
                /\ clone' = [clone EXCEPT ![r].staged = {}, ![r].merging = FALSE]
           ELSE UNCHANGED <<branch, clone>>
    /\ NextRepo(FALSE)
    /\ UNCHANGED <<line, track, tree, origin, shipped, unread, failures>>

--------------------------------------------------------------------------------
\* The review: on to the pull request, or another round of the implementation.

Review ==
    /\ work.step = "review"
    /\ \/ Goto("pr", "start") /\ UNCHANGED track
       \/ /\ work.round < MaxRounds
          /\ work' = [work EXCEPT !.step = "implement", !.phase = "run", !.round = @ + 1]
          /\ track' = [t \in Tracks |-> "setup"]
    /\ UNCHANGED <<line, branch, clone, tree, origin, shipped, unread, failures>>

--------------------------------------------------------------------------------
\* PRStep

PRAlreadyCreated == line.urls # {} \/ line.meta # "none"

PRStart ==
    /\ work.step = "pr" /\ work.phase = "start"
    /\ work' = IF PRAlreadyCreated /\ line.status \in {"pr_ready", "human_review"} THEN [work EXCEPT !.phase = "waiting"]
               ELSE [work EXCEPT !.phase = "repos"]
    /\ unread' = {}
    /\ UNCHANGED <<line, track, branch, clone, tree, origin, shipped, failures>>

\* Mutant: the squash resets the tree as well as the branch.
PrepareHard ==
    /\ work.step = "pr" /\ work.phase = "repos"
    /\ \E r \in work.todo :
         /\ clone' = [clone EXCEPT ![r] = [head |-> StepBranch("int"), merging |-> FALSE, staged |-> {SpecEdit}]]
         /\ branch' = [branch EXCEPT ![r][StepBranch("int")] = Root]
         /\ work' = [work EXCEPT !.cur = r, !.changed = Changed(clone[r]), !.phase = "push"]
    /\ UNCHANGED <<line, track, tree, origin, shipped, unread, failures>>

\* reset --soft to the remote base, which the clone of an empty remote has not:
\* there the local base branch is taken.
ResetSoft(r) == IF r \in EmptyRemotes THEN branch[r][Base] ELSE Root

\* The repository is skipped when its status cannot be read, or when the task is
\* easy and nothing in the clone is uncommitted.  Otherwise checkout -B and reset,
\* and the spec is copied in.
PrepareBranch ==
    /\ work.step = "pr" /\ work.phase = "repos"
    /\ \E r \in work.todo :
         \/ /\ work' = [work EXCEPT !.todo = @ \ {r}]
            /\ unread' = unread \cup {r}
            /\ UNCHANGED <<branch, clone>>
         \/ /\ line.easy /\ ~Changed(clone[r])
            /\ work' = [work EXCEPT !.todo = @ \ {r}]
            /\ UNCHANGED <<branch, clone, unread>>
         \/ /\ ~(line.easy /\ ~Changed(clone[r]))
            /\ LET onto == ResetSoft(r)
               IN  /\ clone' = [clone EXCEPT ![r] =
                                  [head |-> StepBranch("int"), merging |-> FALSE,
                                   staged |-> (@.staged \cup HeadCommit(r).edits \cup {SpecEdit}) \ onto.edits]]
                   /\ branch' = [branch EXCEPT ![r][StepBranch("int")] = onto]
            /\ work' = [work EXCEPT !.cur = r, !.changed = Changed(clone[r]), !.phase = "push"]
            /\ UNCHANGED unread
    /\ UNCHANGED <<line, track, tree, origin, shipped, failures>>

\* CommitAndPush: one commit, the local base first when the remote is empty, then a
\* forced push of HEAD.
CommitAndPush ==
    /\ work.step = "pr" /\ work.phase = "push"
    /\ LET r == work.cur
           int == StepBranch("int")
       IN  /\ branch' = IF Changed(clone[r])
                        THEN [branch EXCEPT ![r][int] = CommitOn(@, "pr", clone[r].staged)] ELSE branch
           /\ clone' = [clone EXCEPT ![r].staged = {}]
           /\ origin' = [origin EXCEPT ![r].base = IF origin[r].empty THEN branch[r][Base].edits ELSE @,
                                       ![r].empty = FALSE,
                                       ![r].task = branch'[r][int].edits]
    /\ work' = [work EXCEPT !.phase = "create"]
    /\ UNCHANGED <<line, track, tree, shipped, unread, failures>>

\* The diff with the base the clone knows.
GetPRDiff(r) == branch[r][StepBranch("int")].edits \ ResetSoft(r).edits

\* The provider opens one pull request per branch unless it finds no commits, and
\* answers with the open one when there is one.
CreatePR(r) == origin[r].task # origin[r].base
FindExistingPR(r) == origin[r].prs > 0

CreatePullRequest ==
    /\ work.step = "pr" /\ work.phase = "create"
    /\ LET r == work.cur
           asked == GetPRDiff(r) # {} \/ work.changed
       IN  /\ origin' = [origin EXCEPT ![r].prs = IF asked /\ CreatePR(r) /\ @ = 0 THEN 1 ELSE @]
           /\ work' = [work EXCEPT !.got = IF asked /\ (CreatePR(r) \/ FindExistingPR(r))
                                           THEN @ \cup {r} ELSE @,
                                   !.todo = @ \ {r}, !.cur = NoRepo, !.phase = "repos"]
    /\ UNCHANGED <<line, track, branch, clone, tree, shipped, unread, failures>>

\* The URLs and the metadata are saved after the last repository; the status of a
\* rejected task is refused.
RecordPRs ==
    /\ work.step = "pr" /\ work.phase = "repos" /\ work.todo = {}
    /\ LET saved == [line EXCEPT !.urls = IF work.got # {} THEN work.got ELSE @,
                                 !.meta = IF work.got = {} /\ line.urls = {} THEN "no_changes" ELSE "summaries"]
       IN  IF line.status = "fixing" THEN line' = saved /\ GiveUp
           ELSE /\ line' = [saved EXCEPT !.status = "pr_ready"]
                /\ work' = [work EXCEPT !.phase = "waiting"]
    /\ UNCHANGED <<track, branch, clone, tree, origin, shipped, unread, failures>>

--------------------------------------------------------------------------------
\* Failures: the run stops where it is, and is retried from the start of its step.

\* A rejected pull request runs the pull-request step again.
Reject ==
    /\ work.step = "pr" /\ work.phase = "waiting" /\ failures < MaxFailures
    /\ line' = [line EXCEPT !.status = "fixing"]
    /\ Goto("pr", "start")
    /\ failures' = failures + 1
    /\ UNCHANGED <<track, branch, clone, tree, origin, shipped, unread>>

RetryStep ==
    /\ failures < MaxFailures /\ work.phase # "waiting"
    /\ Goto(work.step, IF work.step = "implement" THEN "run" ELSE "start")
    /\ track' = [t \in Tracks |-> IF track[t] = "done" THEN "done" ELSE "setup"]
    /\ failures' = failures + 1
    /\ UNCHANGED <<line, branch, clone, tree, origin, shipped, unread>>

GitNext ==
    \/ Implement \/ Checkpoint \/ TracksDone
    \/ \E t \in Tracks : SetupRoleWorktrees(t) \/ ImplementTrack(t) \/ CommitTrack(t) \/ MergeBranch(t)
    \/ MergeStart \/ CheckoutBranch \/ CommitMerge \/ Review
    \/ PRStart \/ PrepareBranch \/ CommitAndPush \/ CreatePullRequest \/ RecordPRs
    \/ Reject \/ RetryStep

GitSpec == GitInit /\ [][GitNext]_gitVars

--------------------------------------------------------------------------------
Delivered == work.step = "pr" /\ work.phase = "waiting" /\ line.status = "pr_ready"
Missing == {r \in Repos \ unread : ~(shipped[r] \subseteq origin[r].task)}

\* When a task that is not easy waits for approval, the pushed branch of every
\* repository the pull-request step could read holds all edits of the implement
\* steps that succeeded, whatever failed and was retried on the way (checkpoints,
\* fast forwards, merges, the squash, the forced push).
Shipped == Delivered /\ ~line.easy => Missing = {}

\* An easy task that waits for approval was delivered as well: its repositories are
\* skipped only when, as the pull-request step says, there are no changes in them.
EasyShipped == Delivered /\ line.easy => Missing = {}
================================================================================
