-------------------------------- MODULE Knowledge --------------------------------
(***************************************************************************)
(* What an agent remembers of its runs and what is learnt from it.           *)
(*                                                                           *)
(* A run of a task is a session: every event of a step is recorded as a      *)
(* working memory, the end of the run records a summary, promotes the        *)
(* memories that matter one by one to the episodic tier and prunes the       *)
(* oldest working ones of the agent, whatever session they are from.  A      *)
(* goroutine then evaluates the run and creates suggestions, which users     *)
(* approve or reject; an approved rule suggestion becomes a rule.            *)
(*                                                                           *)
(* One agent: no query reads the memories of another.  Its runs may overlap, *)
(* since an agent can be reset while it works, and the goroutine of a run    *)
(* overlaps the next run.                                                    *)
(***************************************************************************)
EXTENDS Integers, FiniteSets, Sequences, Sublists

CONSTANTS
    Sessions,         \* runs of the agent
    Events,           \* events of the steps of a run: the step and its status
    Users,            \* reviewers of suggestions
    KeepCount,        \* working memories kept by a prune (100)
    PatternWindow,    \* working memories scanned for patterns (50)
    PatternThreshold, \* repetitions that make a pattern (3)
    NudgeInterval,    \* successful steps between two scans during a run (4)
    Attempts,         \* the attempt of its job that each run is
    PatchAttempts,    \* attempts after which a failed run suggests a prompt patch (2)
    MaxMemories,      \* bound: memories recorded while events of steps are
    MaxSuggestions,   \* bound: suggestions created
    MaxFaults         \* bound: failures of the database, crashes and deletions by users

ASSUME KnowledgeAssumption ==
    /\ {KeepCount, PatternWindow, PatternThreshold, NudgeInterval} \subseteq Nat \ {0}
    /\ {PatchAttempts, MaxMemories, MaxSuggestions, MaxFaults} \subseteq Nat
    /\ "" \notin Sessions          \* the memories of no session

VARIABLES
    memories,     \* in the order of their creation
    recorded,     \* number of memories recorded so far
    sessions,     \* pc, successful steps, final status, memories still to promote
    nudges,       \* scans for patterns started and not yet run
    suggestions,  \* type, status, number of rules made of it, whether reviews of it overlapped
    reviews,      \* what each user is doing
    faults,       \* failures, crashes and deletions so far
    unpromoted,   \* history: memories that were not promoted because the database failed
    forgotten     \* history: important memories pruned though their session had kept them

knowVars == <<memories, recorded, sessions, nudges, suggestions, reviews, faults, unpromoted, forgotten>>

Important == {"error", "success", "decision"}   \* categories CleanupSession promotes
IdleReview == [pc |-> "idle", on |-> 0, verdict |-> ""]

New(type) == [type |-> type, status |-> "pending", rules |-> 0, overlap |-> FALSE]

KnowInit ==
    /\ memories = <<>> /\ recorded = 0 /\ nudges = 0
    /\ suggestions \in {<<>>} \cup {<<New(t)>> : t \in {"rule", "prompt_patch", "pattern"}}   \* of an earlier run
    /\ faults = 0 /\ unpromoted = {} /\ forgotten = {}
    /\ sessions = [s \in Sessions |-> [pc |-> "idle", successes |-> 0, final |-> "", todo |-> <<>>]]
    /\ reviews = [u \in Users |-> IdleReview]

Fails == faults < MaxFaults /\ faults' = faults + 1
Works == UNCHANGED faults

--------------------------------------------------------------------------------
\* Memories

\* Create: a memory with the content of one of the same session is skipped, and one
\* without a session when any memory has its content.
IsDuplicate(m) ==
    \E i \in DOMAIN memories :
        /\ memories[i].content = m.content
        /\ m.session # "" => memories[i].session = m.session

\* RecordObservation, which may fail; every caller only logs that.
RecordObservation(content, session, tier, category) ==
    LET m == [id |-> recorded + 1, content |-> content, session |-> session, tier |-> tier, category |-> category]
    IN  \/ /\ ~IsDuplicate(m)
           /\ memories' = Append(memories, m) /\ recorded' = recorded + 1 /\ Works
        \/ IsDuplicate(m) /\ UNCHANGED <<memories, recorded>> /\ Works
        \/ Fails /\ UNCHANGED <<memories, recorded>>

StepCategory(step, status) ==
    IF status = "failed" THEN "error" ELSE IF step = "done" THEN "success" ELSE "observation"

StartSession(s) ==
    /\ sessions[s].pc = "idle"
    /\ sessions' = [sessions EXCEPT ![s].pc = "running"]
    /\ UNCHANGED <<memories, recorded, nudges, suggestions, reviews, faults, unpromoted, forgotten>>

\* Every event of a step is recorded; every few successes the patterns are looked for.
PostStepRecord(s) ==
    /\ sessions[s].pc = "running" /\ recorded < MaxMemories
    /\ \E e \in Events :
         LET n == sessions[s].successes + 1
             status == e[2]
             due == status = "success" /\ n % NudgeInterval = 0
         IN  /\ RecordObservation(e, s, "working", StepCategory(e[1], status))
             /\ sessions' = IF status = "success" THEN [sessions EXCEPT ![s].successes = n % NudgeInterval] ELSE sessions
             /\ nudges' = IF due THEN 1 ELSE nudges
    /\ UNCHANGED <<suggestions, reviews, unpromoted, forgotten>>

\* The summary of the run.
SessionEnd(s) ==
    /\ sessions[s].pc = "running"
    /\ \E final \in {"done", "failed", "paused"} :
         /\ RecordObservation(<<"summary", final>>, s, "episodic", IF final = "failed" THEN "error" ELSE "success")
         /\ sessions' = [sessions EXCEPT ![s].pc = "list", ![s].final = final]
    /\ UNCHANGED <<nudges, suggestions, reviews, unpromoted, forgotten>>

\* CleanupSession lists what to promote; when it cannot, nothing is promoted or pruned.
ListBySession(s) ==
    /\ sessions[s].pc = "list"
    /\ LET own == {i \in DOMAIN memories : memories[i].session = s}
       IN  \/ /\ sessions' = [sessions EXCEPT ![s].pc = "cleanup",
                                ![s].todo = Sublist(memories, {i \in own : memories[i].category \in Important})]
              /\ Works /\ UNCHANGED unpromoted
           \/ /\ sessions' = [sessions EXCEPT ![s].pc = "evaluate"]
              /\ Fails /\ unpromoted' = unpromoted \cup {memories[i].id : i \in own}
    /\ UNCHANGED <<memories, recorded, nudges, suggestions, reviews, forgotten>>

\* PromoteToEpisodic: only a working memory that is still there.
PromoteToEpisodic(s) ==
    /\ sessions[s].pc = "cleanup" /\ sessions[s].todo # <<>>
    /\ LET id == Head(sessions[s].todo).id
       IN  \/ /\ memories' = [i \in DOMAIN memories |->
                                IF memories[i].id = id /\ memories[i].tier = "working"
                                THEN [memories[i] EXCEPT !.tier = "episodic"] ELSE memories[i]]
              /\ Works /\ UNCHANGED unpromoted
           \/ Fails /\ unpromoted' = unpromoted \cup {id} /\ UNCHANGED memories
    /\ sessions' = [sessions EXCEPT ![s].todo = Tail(@)]
    /\ UNCHANGED <<recorded, nudges, suggestions, reviews, forgotten>>

\* Mutant: the oldest memories of the agent go, whatever their tier.
OldestOfAnyTier ==
    {i \in DOMAIN memories : Cardinality({j \in DOMAIN memories : j > i}) >= KeepCount}

\* PruneWorkingMemory: the working memories of the agent but the newest ones.
OldestWorking ==
    {i \in DOMAIN memories :
        /\ memories[i].tier = "working"
        /\ Cardinality({j \in DOMAIN memories : j > i /\ memories[j].tier = "working"}) >= KeepCount}

\* Whether the session of a memory has promoted what it wanted to keep.
HasKept(s) ==
    /\ s # "" /\ sessions[s].pc \in {"cleanup", "evaluate", "learn", "ended"}
    /\ sessions[s].todo = <<>>

CleanupSession(s) ==
    /\ sessions[s].pc = "cleanup" /\ sessions[s].todo = <<>>
    /\ \/ /\ memories' = Sublist(memories, DOMAIN memories \ OldestWorking)
          /\ forgotten' = forgotten \cup
               {memories[i].id : i \in {j \in OldestWorking :
                   /\ memories[j].category \in Important
                   /\ memories[j].session = "" \/ HasKept(memories[j].session)
                   /\ memories[j].id \notin unpromoted}}
          /\ Works
       \/ Fails /\ UNCHANGED <<memories, forgotten>>
    /\ sessions' = [sessions EXCEPT ![s].pc = "evaluate"]
    /\ UNCHANGED <<recorded, nudges, suggestions, reviews, unpromoted>>

\* The process dies: a session that had not promoted its memories never will, and the
\* goroutine of one that had just stops.
Crash(s) ==
    /\ sessions[s].pc \notin {"idle", "ended", "dead"}
    /\ sessions' = [sessions EXCEPT ![s].pc = IF sessions[s].pc \in {"running", "list", "cleanup"} THEN "dead" ELSE "ended",
                                    ![s].todo = <<>>]
    /\ Fails
    /\ UNCHANGED <<memories, recorded, nudges, suggestions, reviews, unpromoted, forgotten>>

\* A user deletes a memory.
DeleteMemory ==
    /\ \E i \in DOMAIN memories : memories' = Sublist(memories, DOMAIN memories \ {i})
    /\ Fails
    /\ UNCHANGED <<recorded, sessions, nudges, suggestions, reviews, unpromoted, forgotten>>

--------------------------------------------------------------------------------
\* Learning

\* CreateSuggestion for each of some types; one may fail, which is only logged.
CreateSuggestions(types) ==
    LET room == MaxSuggestions - Len(suggestions)
        Made(t) == suggestions \o [i \in 1..(IF Len(t) > room THEN room ELSE Len(t)) |-> New(t[i])]
    IN  \/ suggestions' = Made(types) /\ Works
        \/ \E i \in DOMAIN types :
             suggestions' = Made(Sublist(types, DOMAIN types \ {i})) /\ Fails

\* DetectPatterns: a category and tags, which name the step and its status, repeated
\* among the newest working memories.
DetectPatterns ==
    LET working == Sublist(memories, {i \in DOMAIN memories : memories[i].tier = "working"})
        scanned == {i \in DOMAIN working : i > Len(working) - PatternWindow}
        Of(c)   == {i \in scanned : working[i].content = c}
        found   == {c \in {working[i].content : i \in scanned} : Cardinality(Of(c)) >= PatternThreshold}
    IN  [i \in 1..Cardinality(found) |-> "pattern"]

\* SuggestRuleFromErrors: the search finds some of the agent's memories; three of them,
\* two of them errors, make a rule.
SuggestRuleFromErrors ==
    LET errors == {i \in DOMAIN memories : memories[i].category = "error"}
    IN  {<<>>} \cup (IF Len(memories) >= 3 /\ Cardinality(errors) >= 2 THEN {<<"rule">>} ELSE {})

SuggestPromptPatch(s) == IF Attempts[s] > PatchAttempts THEN <<"prompt_patch">> ELSE <<>>

\* The scan a run asked for while it goes on.
Nudge ==
    /\ nudges > 0 /\ nudges' = nudges - 1
    /\ CreateSuggestions(DetectPatterns)
    /\ UNCHANGED <<memories, recorded, sessions, reviews, unpromoted, forgotten>>

OutcomeCategory(final) == IF final = "done" THEN "success" ELSE "error"

\* EvaluateOutcome, unless the run is paused.
EvaluateOutcome(s) ==
    /\ sessions[s].pc = "evaluate"
    /\ LET final == sessions[s].final
       IN  IF final = "paused"
           THEN sessions' = [sessions EXCEPT ![s].pc = "ended"] /\ UNCHANGED <<memories, recorded, faults>>
           ELSE /\ RecordObservation(<<"evaluation", final>>, "", "episodic", OutcomeCategory(final))
                /\ sessions' = [sessions EXCEPT ![s].pc = "learn"]
    /\ UNCHANGED <<nudges, suggestions, reviews, unpromoted, forgotten>>

\* What the run suggests depends on how it ended.  Skills proposed from the files a run
\* changed are left out: no step reports any.
Learn(s) ==
    /\ sessions[s].pc = "learn"
    /\ IF sessions[s].final = "done"
       THEN \E rule \in SuggestRuleFromErrors : CreateSuggestions(DetectPatterns \o rule)
       ELSE CreateSuggestions(SuggestPromptPatch(s))
    /\ sessions' = [sessions EXCEPT ![s].pc = "ended"]
    /\ UNCHANGED <<memories, recorded, nudges, reviews, unpromoted, forgotten>>

--------------------------------------------------------------------------------
\* Review

\* Mutant: the status the suggestion has is not looked at.
Reviewable(status) == TRUE
\* ApproveSuggestion and RejectSuggestion read the suggestion and go on when it is pending.
IsPending(status) == status = "pending"

ReviewRead(u) ==
    /\ reviews[u].pc = "idle"
    /\ \E i \in DOMAIN suggestions, verdict \in {"approved", "rejected"} :
         /\ IsPending(suggestions[i].status)
         /\ reviews' = [reviews EXCEPT ![u] = [pc |-> "read", on |-> i, verdict |-> verdict]]
         /\ suggestions' = IF \E v \in Users : reviews[v].pc # "idle" /\ reviews[v].on = i
                           THEN [suggestions EXCEPT ![i].overlap = TRUE] ELSE suggestions
    /\ UNCHANGED <<memories, recorded, sessions, nudges, faults, unpromoted, forgotten>>

\* The verdict is written; a rejection is over, and so is a review whose write fails.
UpdateSuggestion(u) ==
    /\ reviews[u].pc = "read"
    /\ \/ /\ suggestions' = [suggestions EXCEPT ![reviews[u].on].status = reviews[u].verdict]
          /\ Works
          /\ reviews' = IF reviews[u].verdict = "approved" THEN [reviews EXCEPT ![u].pc = "apply"]
                        ELSE [reviews EXCEPT ![u] = IdleReview]
       \/ reviews' = [reviews EXCEPT ![u] = IdleReview] /\ UNCHANGED suggestions /\ Fails
    /\ UNCHANGED <<memories, recorded, sessions, nudges, unpromoted, forgotten>>

\* applySuggestion: only a rule can be applied.  The content of a prompt patch is not the
\* JSON that is asked for, and skills are made elsewhere: these stay approved.
ApplySuggestion(u) ==
    /\ reviews[u].pc = "apply"
    /\ \/ /\ suggestions[reviews[u].on].type = "rule"
          /\ suggestions' = [suggestions EXCEPT ![reviews[u].on].rules = @ + 1]
          /\ reviews' = [reviews EXCEPT ![u].pc = "mark"] /\ Works
       \/ /\ reviews' = [reviews EXCEPT ![u] = IdleReview] /\ UNCHANGED suggestions
          /\ IF suggestions[reviews[u].on].type = "rule" THEN Fails ELSE Works
    /\ UNCHANGED <<memories, recorded, sessions, nudges, unpromoted, forgotten>>

\* The mark may fail, which nobody notices.
MarkApplied(u) ==
    /\ reviews[u].pc = "mark"
    /\ \/ suggestions' = [suggestions EXCEPT ![reviews[u].on].status = "applied"] /\ Works
       \/ UNCHANGED suggestions /\ Fails
    /\ reviews' = [reviews EXCEPT ![u] = IdleReview]
    /\ UNCHANGED <<memories, recorded, sessions, nudges, unpromoted, forgotten>>

SessionsNext ==
    \/ \E s \in Sessions : \/ StartSession(s) \/ PostStepRecord(s) \/ SessionEnd(s) \/ ListBySession(s)
                           \/ PromoteToEpisodic(s) \/ CleanupSession(s) \/ Crash(s) \/ EvaluateOutcome(s) \/ Learn(s)
    \/ DeleteMemory \/ Nudge

ReviewsNext == \E u \in Users : ReviewRead(u) \/ UpdateSuggestion(u) \/ ApplySuggestion(u) \/ MarkApplied(u)

KnowNext == SessionsNext \/ ReviewsNext

KnowSpec == KnowInit /\ [][KnowNext]_knowVars

--------------------------------------------------------------------------------
\* Whatever sessions overlap, no prune deletes a failure, a success or a decision whose
\* session has kept it, nor the evaluation of a run (CleanupSession, PruneWorkingMemory).
ErrorsRemembered == forgotten = {}

\* A suggestion marked applied has become a rule, and unless two reviews of it overlapped
\* it has become at most one and none when it was rejected (ApproveSuggestion,
\* RejectSuggestion, applyRuleSuggestion).
ReviewHonoured ==
    \A i \in DOMAIN suggestions :
        LET s == suggestions[i]
        IN  /\ s.status = "applied" => s.rules > 0
            /\ ~s.overlap => s.rules <= 1 /\ (s.status = "rejected" => s.rules = 0)
================================================================================
