------------------------------ MODULE ReviewCycle ------------------------------
(***************************************************************************)
(* The cycles of cli_implement and cross_review in the state-machine mode     *)
(* of the linear pipeline (steps/cross_review.go, steps/review_verdict.go).    *)
(* The reviewer is a black box: what it says is a file, .autocode/review.json, *)
(* that the engine captures after the run and removes with the directory. A     *)
(* review with findings ends with ErrCrossReviewFixLoop, which re-queues the     *)
(* job at cli_implement; what it found is kept only in the checkpoint of a       *)
(* review that ended well. WorkflowRun has the job and its checkpoints, here     *)
(* reduced to where the job is and the outputs cross_review saved.               *)
(***************************************************************************)
EXTENDS Naturals, FiniteSets, SequencesExt

CONSTANTS
    Writings,         \* what a reviewer may write: [spec, quality : [there, fail, items]]
    MaxCycles,        \* max_review_fix_cycles of the project
    MaxTries,         \* max_retries of the project
    MaxVersions,      \* bound: implementations
    MaxReviewFaults   \* bound: crashes, failed commands and refused statuses

ASSUME ReviewAssumption ==
    /\ MaxCycles \in Nat /\ MaxTries \in Nat \ {0}
    /\ \A w \in Writings, axis \in {"spec", "quality"} : w[axis].there \/ w[axis].items = {}

VARIABLES
    at,        \* the step the job is in, or "failed", "crashed", "paused", "done"
    claimed,   \* job.Step as the worker read it when it claimed the job
    try,       \* the attempt of this run of the job
    code,      \* the version of the implementation in the checkout
    built,     \* cli_implement has a successful checkpoint
    leftFile,  \* .autocode/review.json in the checkout: at most one [of, text]
    accepted,  \* the outputs of the successful cross_review checkpoints
    told,      \* the reviewer feedback in the last instruction of cli_implement
    acted,     \* the file the last review decided on: the code it is of, and was read on
    reviewFaults
reviewVars == <<at, claimed, try, code, built, leftFile, accepted, told, acted, reviewFaults>>

ReviewInit ==
    /\ at = "cli_implement" /\ claimed = "none" /\ try = 1
    /\ code = 0 /\ built = FALSE /\ leftFile = {} /\ accepted = <<>>
    /\ told = {} /\ acted = {} /\ reviewFaults = 0

Axis(a) == IF a.there THEN [fail |-> a.fail, items |-> a.items] ELSE [fail |-> FALSE, items |-> {}]
\* The verdict of a file, none if it has neither axis; an axis that is not there reads as empty.
ParseReviewVerdict(file) ==
    {[spec |-> Axis(f.text.spec), quality |-> Axis(f.text.quality)] :
       f \in {g \in file : g.text.spec.there \/ g.text.quality.there}}

\* Two requirements as sets of words: |a \cap b| / |a \cup b| >= 0.6.
SameRequirement(a, b) ==
    a # {} /\ b # {} /\ 10 * Cardinality(a \cap b) >= 6 * Cardinality(a \cup b)
HasRepeatViolation(prev, cur) == \E c \in cur, p \in prev : SameRequirement(c, p)

\* The items of the last of the checkpoints before n that has a verdict with any.
PreviousReviewViolations(n) ==
    LET i == SelectLastInSubSeq(accepted, 1, n,
                 LAMBDA r : \E v \in r.verdict : v.spec.items # {})
    IN  IF i = 0 THEN {} ELSE UNION {v.spec.items : v \in accepted[i].verdict}
CrossReviewFeedback ==
    LET i == SelectLastInSubSeq(accepted, 1, Len(accepted), LAMBDA r : r.verdict # {})
    IN  IF i = 0 THEN {} ELSE UNION {v.spec.items \cup v.quality.items : v \in accepted[i].verdict}
CountSuccessful == Len(accepted)

\* What a run of the job begins with: the steps whose success counts are skipped,
\* and a job claimed at cli_implement does not count its success or the review's.
FirstStep(step) ==
    IF ~built \/ step = "cli_implement" THEN "cli_implement"
    ELSE IF accepted = <<>> THEN "cross_review" ELSE "cli_mr"

Fault == reviewFaults < MaxReviewFaults /\ reviewFaults' = reviewFaults + 1
\* The attempt failed: the next one begins as the run did, or the job has failed.
AttemptFails(step) ==
    IF try < MaxTries THEN at' = step /\ try' = try + 1 ELSE at' = "failed" /\ UNCHANGED try

CleanedNever(file) == file
\* RunCodeStep leaves no .autocode behind, whether the command failed or not.
Cleaned(file) == {}

\* cli_implement with the feedback of the last verdict that was kept.
CLIImplement ==
    /\ at = "cli_implement" /\ code < MaxVersions
    /\ told' = CrossReviewFeedback
    /\ code' = code + 1
    /\ leftFile' = Cleaned(leftFile)
    /\ \/ built' = TRUE /\ at' = "cross_review" /\ UNCHANGED <<try, reviewFaults>>
       \/ Fault /\ AttemptFails("cli_implement") /\ UNCHANGED built
    /\ UNCHANGED <<claimed, accepted, acted>>

\* What the engine captures: what this reviewer wrote, or the file that was there.
Captured ==
    (IF leftFile = {} THEN {{}} ELSE {leftFile}) \cup {{[of |-> code, text |-> t]} : t \in Writings}

Findings(verdict) == \E v \in verdict : v.spec.fail \/ v.quality.fail
Repeats(verdict, n) ==
    \E v \in verdict : v.spec.fail /\ HasRepeatViolation(PreviousReviewViolations(n), v.spec.items)
DecidedLimitFirst(verdict) ==
    CASE ~Findings(verdict) -> "passed"
      [] Findings(verdict) /\ CountSuccessful >= MaxCycles -> "limit"
      [] Repeats(verdict, Len(accepted)) -> "escalated"
      [] OTHER -> "fix"
Decided(verdict) ==
    CASE Repeats(verdict, Len(accepted)) -> "escalated"
      [] Findings(verdict) /\ CountSuccessful >= MaxCycles /\ ~Repeats(verdict, Len(accepted)) -> "limit"
      [] ~Findings(verdict) -> "passed"
      [] OTHER -> "fix"

\* The success of a review is checkpointed with its output, and cli_mr is next.
Succeeds(output) == accepted' = Append(accepted, output) /\ at' = "cli_mr" /\ UNCHANGED <<claimed, try>>

\* The reviewer ran: escalation pauses the job, findings re-queue it at cli_implement.
CrossReview ==
    /\ at = "cross_review" /\ Len(accepted) < MaxVersions
    /\ \E file \in Captured :
         LET verdict == ParseReviewVerdict(file)
         IN  /\ acted' = {[of |-> f.of, on |-> code] : f \in file}
             /\ leftFile' = Cleaned(file)
             /\ CASE Decided(verdict) = "escalated" ->
                       at' = "paused" /\ UNCHANGED <<claimed, try, accepted>>
                  [] Decided(verdict) = "fix" ->
                       at' = "cli_implement" /\ claimed' = "cli_implement" /\ try' = 1 /\ UNCHANGED accepted
                  [] OTHER ->
                       Succeeds([of |-> code, verdict |-> verdict, limit |-> Decided(verdict) = "limit"])
    /\ UNCHANGED <<code, built, told, reviewFaults>>

\* No second harness: the review is skipped before anything runs.
SkipReview ==
    /\ at = "cross_review" /\ Len(accepted) < MaxVersions
    /\ Succeeds([of |-> code, verdict |-> {}, limit |-> FALSE])
    /\ UNCHANGED <<code, built, leftFile, told, acted, reviewFaults>>

\* The reviewer failed, or the status of the task was refused after it: the attempt fails.
ReviewFails ==
    /\ at = "cross_review" /\ Fault
    /\ \/ leftFile' = Cleaned(leftFile)
       \/ UNCHANGED leftFile   \* preflight or configuration: nothing ran
    /\ AttemptFails(IF claimed = "cli_implement" THEN "cli_implement" ELSE "cross_review")
    /\ UNCHANGED <<claimed, code, built, accepted, told, acted>>

\* The pull-request step; a failed attempt of a job claimed at cli_implement begins there.
CLIMR ==
    /\ at = "cli_mr"
    /\ \/ at' = "done" /\ UNCHANGED <<try, reviewFaults>>
       \/ Fault /\ AttemptFails(FirstStep(claimed))
    /\ UNCHANGED <<claimed, code, built, leftFile, accepted, told, acted>>

\* The server stops while an agent runs: what the agent wrote stays, with no clean-up.
ServerStops ==
    /\ at \in {"cli_implement", "cross_review"} /\ Fault
    /\ IF at = "cross_review" THEN leftFile' \in Captured /\ UNCHANGED code
       ELSE code < MaxVersions /\ code' \in {code, code + 1} /\ UNCHANGED leftFile
    /\ claimed' = at /\ at' = "crashed"
    /\ UNCHANGED <<try, built, accepted, told, acted>>

\* The job is claimed again: after a crash at the step it was in, and after a retry,
\* which enqueues a new job, or while it prepares (the step is then "assign"), at none.
Claim ==
    /\ at \in {"crashed", "paused", "failed"}
    /\ claimed' \in CASE at = "crashed" -> {claimed, "none"}
                      [] at = "paused" -> {"cross_review"}
                      [] at = "failed" -> {"none"}
    /\ at' = FirstStep(claimed') /\ try' = 1
    /\ UNCHANGED <<code, built, leftFile, accepted, told, acted, reviewFaults>>

ReviewNext ==
    CLIImplement \/ CrossReview \/ SkipReview \/ ReviewFails \/ CLIMR \/ ServerStops \/ Claim

ReviewSpec == ReviewInit /\ [][ReviewNext]_reviewVars

--------------------------------------------------------------------------------
\* What a review decides on is about the code that is there: a file that an earlier
\* reviewer left is never taken for the answer of one that wrote nothing, whatever
\* was implemented, interrupted or retried in between.
VerdictAboutThisCode == \A a \in acted : a.of = a.on

\* A spec violation that comes back is put before a human: no review is accepted at
\* the limit of cycles that repeats one of the last violations on record.
RepeatsEscalate ==
    \A i \in DOMAIN accepted : accepted[i].limit => ~Repeats(accepted[i].verdict, i - 1)
================================================================================
