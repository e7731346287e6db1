-------------------------------- MODULE CliSteps --------------------------------
(***************************************************************************)
(* The steps of one job that run a CLI agent: parallel implementation tracks  *)
(* and the cross review after them.  Each step asks the execution router for  *)
(* a profile and a credential, checks the binary once per candidate, runs it, *)
(* writes refreshed credential files back and reports a quota or an          *)
(* authentication failure against the credential.  All steps of a run share   *)
(* one cliStepRunner.  Around them the pool lives on: cooldowns end, other    *)
(* runs report on the same credentials, people create, repair and delete      *)
(* them, and a new credential switches its provider on in the organization's *)
(* default list.                                                             *)
(***************************************************************************)
EXTENDS Integers, FiniteSets, Sequences, SequencesExt

CONSTANTS
    Tracks, Review,      \* the steps
    Creds,
    Nobody,              \* no credential, no profile, no step
    CredOrder,           \* all credentials, best priority first
    ProviderOf,          \* the profile each credential is for
    RefOrder,            \* the profiles of the provider list, best priority first
    Pinned,              \* credential_id of each row of the list, or Nobody
    MaxRetries,          \* project.MaxRetries (one attempt where failure reports are explored)
    MaxSwaps,            \* autoEnableGlobalRoutingMaxAttempts
    MaxRuns,             \* bound: runs of the job
    MaxEvents            \* bound: events from outside (people, other runs, crashes)

CliStepIds == Tracks \cup {Review}
Refs == Range(RefOrder)

ASSUME CliAssumption ==
    /\ IsFiniteSet(Tracks) /\ Review \notin Tracks
    /\ CredOrder \in Seq(Creds) /\ Range(CredOrder) = Creds /\ RefOrder \in Seq(Refs)
    /\ IsFiniteSet(Creds) /\ Nobody \notin Creds \cup Refs \cup CliStepIds
    /\ Refs \cap {"cooling", "failed", "ok"} = {}   \* a refusal is no profile
    /\ ProviderOf \in [Creds -> Refs] /\ Pinned \in [Refs -> Creds \cup {Nobody}]
    /\ MaxRetries \in Nat \ {0} /\ {MaxSwaps, MaxRuns, MaxEvents} \subseteq Nat

VARIABLES
    cred,      \* rows of provider_credentials: status, cooldown_until, and whose refreshes the payload holds
    scenario,  \* what is explored: "create" credentials, failure "reports" of a job, its payload "refresh"es
    useOrg,    \* the project's own list has no enabled row: the organization's list counts
    orgRows,   \* the enabled profiles of default_execution_providers
    creator,   \* per credential: the request that creates it and switches its provider on
    runner,    \* the cliStepRunner of the current run
    step,      \* per step: where it is and with what
    job,       \* the run around the steps: its status and attempt
    wrote,     \* history: the profiles that wrote the code of each track
    crossed,   \* history: write-backs that overlapped another one on the same credential
    confused,  \* history: the runner was re-resolved by one step while another one was using it
    events

poolVars == <<cred, orgRows, creator>>
cliVars == <<scenario, poolVars, useOrg, runner, step, job, wrote, crossed, confused, events>>

NoStep == [pc |-> "todo", cred |-> Nobody, ref |-> Nobody, out |-> {}, base |-> {}]
NewRunner == [cred |-> Nobody, coder |-> Nobody, ref |-> Nobody, checked |-> <<Nobody, Nobody>>, fault |-> FALSE]
Busy == {s \in CliStepIds : step[s].pc \notin {"todo", "failed", "asked", "ok", "cooling"}}
Event == events < MaxEvents /\ events' = events + 1

-----------------------------------------------------------------------------
(***************************************************************************)
(* The pool.                                                                 *)
(***************************************************************************)
Selectable(c) == cred[c].status = "active" /\ cred[c].cooldown # "future"

\* The first of some places in an order.
First(places) == CHOOSE i \in places : \A j \in places : i <= j

\* The places in the order of priority of the rows a query for a provider's active
\* credentials returns.
ListActive(ref) == {i \in DOMAIN CredOrder : ProviderOf[CredOrder[i]] = ref /\ Selectable(CredOrder[i])}

\* Fill first.
SelectCredential(ref) == IF ListActive(ref) = {} THEN Nobody ELSE CredOrder[First(ListActive(ref))]

\* A pinned credential must be of the row's provider and usable.
HasAvailableCredential(ref, c) == ProviderOf[c] = ref /\ Selectable(c)

ResolveCLICandidate(ref) ==
    IF Pinned[ref] = Nobody THEN SelectCredential(ref)
    ELSE IF HasAvailableCredential(ref, Pinned[ref]) THEN Pinned[ref] ELSE Nobody

\* GetMinCooldown is positive: every credential of the provider that is not disabled is
\* rate limited with a cooldown still running, whatever else keeps it out.
GetMinCooldown(ref) ==
    LET counted == {c \in Creds : ProviderOf[c] = ref /\ cred[c].status \notin {"absent", "disabled"}}
    IN  /\ counted # {}
        /\ \A c \in counted : cred[c].status = "rate_limited" /\ cred[c].cooldown = "future"

\* The two writes to a row, unconditional.
RowCooldown(c) == [cred EXCEPT ![c].status = "rate_limited", ![c].cooldown = "future"]
RowNeedsReauth(c) == [cred EXCEPT ![c].status = "needs_reauth"]

Known(c) == c # Nobody /\ cred[c].status # "absent"
SetCooldown(c) == cred' = IF Known(c) THEN RowCooldown(c) ELSE cred
MarkNeedsReauth(c) == cred' = IF Known(c) THEN RowNeedsReauth(c) ELSE cred

CooldownElapses(c) ==
    /\ cred[c].cooldown = "future"
    /\ cred' = [cred EXCEPT ![c].cooldown = "past"]
    /\ UNCHANGED <<scenario, orgRows, creator, useOrg, runner, step, job, wrote, crossed, confused, events>>

RowsRecovered == [c \in Creds |-> IF cred[c].status = "rate_limited" /\ cred[c].cooldown = "past"
                                   THEN [cred[c] EXCEPT !.status = "active", !.cooldown = "none"] ELSE cred[c]]

\* The cooldown worker, every minute.
ClearExpiredCooldowns ==
    /\ RowsRecovered # cred
    /\ cred' = RowsRecovered
    /\ UNCHANGED <<scenario, orgRows, creator, useOrg, runner, step, job, wrote, crossed, confused, events>>

\* Update: a person sets a status, or logs in again, which replaces the payload too.
UpdateCredential(c) ==
    /\ Event
    /\ cred[c].status # "absent"
    /\ \/ \E st \in {"active", "rate_limited", "disabled"} : cred' = [cred EXCEPT ![c].status = st]
       \/ cred' = [cred EXCEPT ![c].status = "active", ![c].held = {}]
    /\ UNCHANGED <<scenario, orgRows, creator, useOrg, runner, step, job, wrote, crossed, confused>>

DeleteCredential(c) ==
    /\ Event
    /\ cred[c].status # "absent"
    /\ cred' = [cred EXCEPT ![c] = [status |-> "absent", cooldown |-> "none", held |-> {}]]
    /\ UNCHANGED <<scenario, orgRows, creator, useOrg, runner, step, job, wrote, crossed, confused>>

\* Another job's run on the credential ends with a quota or an authentication failure.
OtherRunReports(c) ==
    /\ Event
    /\ SetCooldown(c) \/ MarkNeedsReauth(c)
    /\ UNCHANGED <<scenario, orgRows, creator, useOrg, runner, step, job, wrote, crossed, confused>>

-----------------------------------------------------------------------------
(***************************************************************************)
(* Creating a credential, then autoEnableGlobalRouting: read, compute, swap.  *)
(***************************************************************************)
CreateCredential(c) ==
    /\ creator[c].pc = "none"
    /\ cred[c].status = "absent"
    /\ cred' = [cred EXCEPT ![c].status = "active"]
    /\ creator' = [creator EXCEPT ![c].pc = "read"]
    /\ UNCHANGED <<scenario, orgRows, useOrg, runner, step, job, wrote, crossed, confused, events>>

AutoEnableExecutionProviderRow(rows, p) == rows \cup {p}

ReadOrgRows(c) ==
    /\ creator[c].pc = "read"
    /\ creator' = [creator EXCEPT ![c].old = orgRows,
                                  ![c].pc = IF AutoEnableExecutionProviderRow(orgRows, ProviderOf[c]) = orgRows
                                            THEN "done" ELSE "swap"]
    /\ UNCHANGED <<scenario, cred, orgRows, useOrg, runner, step, job, wrote, crossed, confused, events>>

CompareAndSwapOrgRows(c) ==
    /\ creator[c].pc = "swap"
    /\ \/ /\ orgRows = creator[c].old
          /\ orgRows' = AutoEnableExecutionProviderRow(orgRows, ProviderOf[c])
          /\ creator' = [creator EXCEPT ![c].pc = "done"]
       \/ /\ orgRows # creator[c].old
          /\ creator' = [creator EXCEPT ![c].tries = @ + 1,
                                        ![c].pc = IF creator[c].tries + 1 < MaxSwaps THEN "read" ELSE "gave up"]
          /\ UNCHANGED <<scenario, orgRows>>
    /\ UNCHANGED <<scenario, cred, useOrg, runner, step, job, wrote, crossed, confused, events>>

\* An administrator saves the whole list.
SaveOrgRows ==
    /\ Event
    /\ \E rows \in SUBSET Refs : orgRows' = rows
    /\ UNCHANGED <<scenario, cred, creator, useOrg, runner, step, job, wrote, crossed, confused>>

-----------------------------------------------------------------------------
(***************************************************************************)
(* A step.                                                                   *)
(***************************************************************************)
\* The places of the rows that are enabled.
Rows == {i \in DOMAIN RefOrder : ~useOrg \/ RefOrder[i] \in orgRows}

\* The first row, in order and without the excluded profile, that has a credential; else
\* whether a sleep would help.
ResolveFromProviderList(rows, exclude) ==
    LET open == {i \in rows : RefOrder[i] # exclude}
        usable == {i \in open : ResolveCLICandidate(RefOrder[i]) # Nobody}
    IN  IF usable # {} THEN RefOrder[First(usable)]
        ELSE IF \E i \in open : GetMinCooldown(RefOrder[i]) THEN "cooling" ELSE "failed"

\* The organization's list is tried silently: a cooldown in it is no error of its own.
ResolveFromOrgDefault(exclude) ==
    LET ref == ResolveFromProviderList(Rows, exclude) IN IF ref = "cooling" THEN "failed" ELSE ref

ResolveExecutionProvider(exclude) ==
    IF useOrg THEN ResolveFromOrgDefault(exclude) ELSE ResolveFromProviderList(Rows, exclude)

\* A review without another harness is skipped, except while one cools down.
ResolveReviewProvider(exclude) ==
    LET ref == ResolveExecutionProvider(exclude) IN IF ref = "failed" THEN "ok" ELSE ref

Ready(s) == /\ job.status = "running" /\ step[s].pc = "todo"
            /\ s = Review => \A t \in Tracks : step[t].pc = "ok"

\* Mutant: a review leaves the runner's fields as they are.
RememberCoder(ref, c, exclude) ==
    IF exclude = Nobody THEN [runner EXCEPT !.cred = c, !.ref = ref, !.coder = ref] ELSE runner

\* The runner's fields after a choice: a reviewer is not the coder.
Remember(ref, c, exclude) ==
    [runner EXCEPT !.cred = c, !.ref = ref, !.coder = IF exclude = Nobody THEN ref ELSE @]

\* A review excludes the profile the runner remembers as the coder's; without one it is
\* routed like any other step.
ResolveConfig(s) ==
    LET exclude == IF s = Review THEN runner.coder ELSE Nobody
        ref == IF exclude = Nobody THEN ResolveExecutionProvider(Nobody) ELSE ResolveReviewProvider(exclude)
        c == ResolveCLICandidate(ref)
    IN
    /\ Ready(s)
    /\ \/ /\ ref \in Refs
          /\ step' = [step EXCEPT ![s] = [@ EXCEPT !.pc = "check", !.cred = c, !.ref = ref]]
          /\ runner' = Remember(ref, c, exclude)
          /\ confused' = (confused \/ (Busy # {} /\ <<ref, c>> # <<runner.ref, runner.cred>>))
       \/ /\ ref \notin Refs
          /\ step' = [step EXCEPT ![s].pc = ref]
          /\ UNCHANGED <<runner, confused>>
    /\ UNCHANGED <<scenario, poolVars, useOrg, job, wrote, crossed, events>>

\* Preflight, once per candidate, under the runner's mutex; its error is remembered.
Preflight(s) ==
    LET key == <<runner.ref, runner.cred>> IN
    /\ step[s].pc = "check"
    /\ \E fault \in IF runner.checked = key THEN {runner.fault} ELSE BOOLEAN :
         /\ runner' = [runner EXCEPT !.checked = key, !.fault = fault]
         /\ step' = [step EXCEPT ![s] = IF fault THEN [NoStep EXCEPT !.pc = "failed"]
                                        ELSE [@ EXCEPT !.pc = "run"]]
    /\ UNCHANGED <<scenario, poolVars, useOrg, job, wrote, crossed, confused, events>>

\* What a finished process can show: its exit, a kill, an authentication message (a
\* generic one is only a suspicion), a quota message, a question.
RawOutcomes == [exit : BOOLEAN, killed : BOOLEAN, auth : {"none", "suspected", "confirmed"},
                quota : BOOLEAN, asks : BOOLEAN]

\* The result RunCodeStep makes of it.
CodeStepResult(o) ==
    LET awaiting == ~o.killed /\ o.auth = "none" /\ o.asks
    IN  {f \in {"success", "quota", "reauth", "asks"} :
            CASE f = "success" -> o.exit /\ ~o.killed /\ ~awaiting /\ o.auth = "none"
              [] f = "quota"   -> o.quota /\ o.auth = "none"
              [] f = "reauth"  -> o.auth = "confirmed"
              [] f = "asks"    -> awaiting}

Results == {CodeStepResult(o) : o \in RawOutcomes}
Explored == IF scenario = "reports" THEN Results ELSE {{}, {"success"}}

\* RunCodeStep: the process runs with the credential's files; it may fail to start.  Files
\* it refreshed are merged into the row as it is now, read and written in two statements.
RunCodeStep(s) ==
    LET c == step[s].cred IN
    /\ step[s].pc = "run"
    /\ \/ step' = [step EXCEPT ![s] = [NoStep EXCEPT !.pc = "failed"]]
       \/ /\ cred[c].status # "absent"
          /\ \E out \in Explored, refreshed \in {FALSE, scenario = "refresh"} :
               step' = [step EXCEPT ![s].out = out,
                                    ![s].base = IF refreshed THEN cred[c].held ELSE {},
                                    ![s].pc = IF refreshed THEN "merge" ELSE "cool"]
    /\ UNCHANGED <<scenario, poolVars, useOrg, runner, job, wrote, crossed, confused, events>>

\* Mutant: the refreshed files replace the payload.
MergeOntoNothing(s) ==
    /\ step[s].pc = "merge"
    /\ cred' = [cred EXCEPT ![step[s].cred].held = {s}]
    /\ crossed' = crossed
    /\ step' = [step EXCEPT ![s].pc = "cool", ![s].base = {}]
    /\ UNCHANGED <<scenario, orgRows, creator, useOrg, runner, job, wrote, confused, events>>

UpdateCredentialPayload(s) ==
    LET c == step[s].cred IN
    /\ step[s].pc = "merge"
    /\ cred' = IF cred[c].status = "absent" THEN cred ELSE [cred EXCEPT ![c].held = step[s].base \cup {s}]
    /\ crossed' = crossed \cup (cred[c].held \ step[s].base)
    /\ step' = [step EXCEPT ![s].pc = "cool", ![s].base = {}]
    /\ UNCHANGED <<scenario, orgRows, creator, useOrg, runner, job, wrote, confused, events>>

\* The quota report goes to the credential the runner names now.
ReportQuota(s) ==
    /\ step[s].pc = "cool"
    /\ IF "quota" \in step[s].out THEN SetCooldown(runner.cred) ELSE cred' = cred
    /\ step' = [step EXCEPT ![s].pc = "mark", ![s].out = @ \ {"quota"}]
    /\ UNCHANGED <<scenario, orgRows, creator, useOrg, runner, job, wrote, crossed, confused, events>>

\* How a step may end: a question pauses it; a success counts only if files changed outside
\* the specs and the worktree could be committed.
StepEnds(out) == IF "asks" \in out THEN {"asked"} ELSE IF "success" \in out THEN {"ok", "failed"} ELSE {"failed"}

\* So does the authentication report.  Then the step ends: a question pauses it, a failure is an error.
FinishRun(s) ==
    /\ step[s].pc = "mark"
    /\ IF "reauth" \in step[s].out THEN MarkNeedsReauth(runner.cred) ELSE cred' = cred
    /\ \E end \in StepEnds(step[s].out) :
         /\ step' = [step EXCEPT ![s] = [NoStep EXCEPT !.pc = end]]
         /\ wrote' = IF end = "ok" /\ s # Review THEN wrote \cup {step[s].ref} ELSE wrote
    /\ UNCHANGED <<scenario, orgRows, creator, useOrg, runner, job, crossed, confused, events>>

-----------------------------------------------------------------------------
(***************************************************************************)
(* The run around the steps: attempts, sleep, a new run.                      *)
(***************************************************************************)
Settled == job.status = "running" /\ Busy = {} /\ ~\E s \in CliStepIds : Ready(s)
Again == [s \in CliStepIds |-> IF step[s].pc = "ok" THEN step[s] ELSE NoStep]

\* The error the engine returned first decides.  A failure without any progress is not
\* retried after the second attempt.
Ended(pc) == \E s \in CliStepIds : step[s].pc = pc

AttemptEnds ==
    /\ Settled
    /\ \/ Ended("asked") /\ job' = [job EXCEPT !.status = "paused"] /\ step' = Again
       \/ Ended("cooling") /\ job' = [job EXCEPT !.status = "sleeping"] /\ step' = Again
       \/ Ended("failed") /\ job.attempt < job.limit
          /\ job' = [job EXCEPT !.attempt = @ + 1] /\ step' = Again
       \/ Ended("failed") /\ (job.attempt = job.limit \/ job.attempt >= 2)
          /\ job' = [job EXCEPT !.status = "failed"] /\ step' = step
       \/ (\A s \in CliStepIds : step[s].pc = "ok") /\ job' = [job EXCEPT !.status = "done"] /\ step' = step
    /\ UNCHANGED <<scenario, poolVars, useOrg, runner, wrote, crossed, confused, events>>

\* The next run of the job, after a sleep, an answer or a crash: new runner, first attempt,
\* finished steps skipped by their checkpoints.
NextRun ==
    /\ job.runs < MaxRuns
    /\ \/ job.status \in {"sleeping", "paused"} /\ UNCHANGED events
       \/ job.status = "running" /\ Event
    /\ runner' = NewRunner
    /\ step' = Again
    /\ job' = [job EXCEPT !.status = "running", !.attempt = 1, !.runs = @ + 1]
    /\ UNCHANGED <<scenario, poolVars, useOrg, wrote, crossed, confused>>

CliInit ==
    /\ scenario \in {"create", "reports", "refresh"}
    /\ useOrg \in {FALSE, scenario = "reports"}
    /\ orgRows = IF useOrg THEN Refs ELSE {}
    /\ cred = [c \in Creds |-> [status |-> IF scenario = "create" THEN "absent" ELSE "active",
                               cooldown |-> "none", held |-> {}]]
    /\ creator = [c \in Creds |-> [pc |-> IF scenario = "create" THEN "none" ELSE "done", old |-> {}, tries |-> 0]]
    /\ job = [status |-> IF scenario = "create" THEN "done" ELSE "running", attempt |-> 1, runs |-> 1,
              limit |-> IF scenario = "refresh" THEN MaxRetries ELSE 1]
    /\ runner = NewRunner /\ step = [s \in CliStepIds |-> NoStep]
    /\ wrote = {} /\ crossed = {} /\ confused = FALSE /\ events = 0

CliStep(s) ==
    \/ ResolveConfig(s) \/ Preflight(s) \/ RunCodeStep(s) \/ UpdateCredentialPayload(s)
    \/ ReportQuota(s) \/ FinishRun(s)

CliNext ==
    \/ \E s \in CliStepIds : CliStep(s)
    \/ AttemptEnds \/ NextRun \/ ClearExpiredCooldowns \/ SaveOrgRows
    \/ \E c \in Creds : \/ CooldownElapses(c) \/ UpdateCredential(c) \/ DeleteCredential(c)
                        \/ OtherRunReports(c) \/ CreateCredential(c) \/ ReadOrgRows(c)
                        \/ CompareAndSwapOrgRows(c)

CliSpec == CliInit /\ [][CliNext]_cliVars

-----------------------------------------------------------------------------
(***************************************************************************)
(* Properties.                                                               *)
(***************************************************************************)
Credential == [status : {"absent", "active", "rate_limited", "disabled", "needs_reauth"},
               cooldown : {"none", "future", "past"}, held : SUBSET CliStepIds]
StepState == [pc : {"todo", "check", "run", "merge", "cool", "mark", "failed", "asked", "ok", "cooling"},
              cred : Creds \cup {Nobody}, ref : Refs \cup {Nobody},
              out : SUBSET {"success", "quota", "reauth", "asks"}, base : SUBSET CliStepIds]
Runner == LET Named(S) == S \cup {Nobody} IN
          [cred : Named(Creds), coder : Named(Refs), ref : Named(Refs),
           checked : Named(Refs) \X Named(Creds), fault : BOOLEAN]

CliTypeOK ==
    /\ cred \in [Creds -> Credential] /\ orgRows \subseteq Refs
    /\ runner \in Runner /\ step \in [CliStepIds -> StepState]
    /\ job \in [status : {"running", "sleeping", "paused", "done", "failed"}, attempt : Nat, runs : Nat, limit : Nat]
    /\ job.attempt \in 1..job.limit
    /\ wrote \subseteq Refs /\ crossed \subseteq CliStepIds /\ confused \in BOOLEAN /\ events \in Nat

\* A step's report about quota or authentication reaches the credential it ran on, unless
\* two steps of the runner resolved different candidates at the same time.
BlameIsRight ==
    \A s \in CliStepIds : step[s].pc \in {"cool", "mark"} /\ ~confused => runner.cred = step[s].cred

\* A refreshed credential file is lost only to a write-back that was read before it, to a
\* new login, or with the credential.
RefreshSurvives ==
    [][\A c \in Creds : \A s \in cred[c].held \ cred'[c].held :
          \/ s \in crossed'
          \/ cred'[c].held = {} /\ events' > events]_cliVars

===================================================================================
