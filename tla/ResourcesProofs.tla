---------------------------- MODULE ResourcesProofs ----------------------------
(***************************************************************************)
(* Theorems about what runs share: the agents of a project, the workspaces   *)
(* of tasks and the credentials of CLI steps, for any number of runs, agents, *)
(* tasks, jobs, steps and credentials.                                       *)
(***************************************************************************)
EXTENDS AgentPool, Workspaces, CliSteps, WellFoundedInduction, TLAPS

-----------------------------------------------------------------------------
\* The agents

UserPlaces == {"free", "assign", "clone", "work", "exit"}
AgentTypeOK ==
    /\ user \in [AgentRuns -> [pc : UserPlaces, agent : Agents \cup {NoAgent},
                               second : Agents \cup {NoAgent}, tracked : BOOLEAN]]
    /\ agent \in [Agents -> {"idle", "assigned", "running"}]
    /\ stuckAgents \subseteq Agents /\ old \subseteq Agents

\* A run has an agent only after it claimed one, and the agent of its track
\* only while it works, and never one agent in both places: the two differ in
\* their role.
UserShape ==
    \A r \in AgentRuns :
        /\ user[r].pc \in {"free", "assign"} => user[r].agent = NoAgent
        /\ user[r].pc \in {"clone", "work"} => user[r].agent # NoAgent
        /\ user[r].pc # "work" => user[r].second = NoAgent
        /\ user[r].second # NoAgent => user[r].second # user[r].agent

\* The row of an agent that some run has says so, and the run is the only one,
\* unless the watchdog has freed the row under a run.
RowsRight ==
    \A a \in Agents \ reclaimed :
        /\ \A r \in HeldBy(a) : agent[a] # "idle"
        /\ \A r, q \in HeldBy(a) : r = q

AgentInv == AgentTypeOK /\ UserShape /\ RowsRight

\* What it takes to have an agent.
LEMMA Holders ==
    ASSUME NEW a
    PROVE  \A r : r \in HeldBy(a) <=> /\ r \in AgentRuns /\ user[r].pc # "free"
                                      /\ a = user[r].agent \/ a = user[r].second
BY DEF HeldBy, Active

\* An agent is claimed only when its row says idle.
LEMMA ClaimableIsIdle ==
    ASSUME NEW a \in Agents, ClaimAvailable(a)
    PROVE  agent[a] = "idle" /\ agent' = [agent EXCEPT ![a] = "assigned"] /\ old' = old \ {a}
BY AgentAssumption DEF ClaimAvailable, UpdateStatus

\* Candidates are agents.
LEMMA CandidatesAreAgents == Candidates \subseteq Agents
BY DEF Candidates, Available

\* A run moves to u with the agent a that it claims, for itself or for its track.
Claims(r, a, u) ==
    /\ ClaimAvailable(a)
    /\ user' = [user EXCEPT ![r] = u]
    /\ UNCHANGED <<stuckAgents, reclaimed>>
    /\ \/ u.pc = "clone" /\ u.agent = a /\ u.second = NoAgent
       \/ /\ u.pc = "work" /\ u.agent = user[r].agent /\ u.second = a
          /\ user[r].agent # a /\ user[r].pc = "work"

\* A run that claims an idle agent becomes its only user.
LEMMA ClaimInv ==
    ASSUME AgentInv, NEW r \in AgentRuns, NEW a \in Agents,
           NEW u \in [pc : {"clone", "work"}, agent : Agents, second : Agents \cup {NoAgent},
                      tracked : BOOLEAN],
           Claims(r, a, u)
    PROVE  AgentInv'
<1> USE DEF Claims
<1>1. agent[a] = "idle" /\ agent' = [agent EXCEPT ![a] = "assigned"] /\ old' = old \ {a}
  BY ClaimableIsIdle
<1>2. AgentTypeOK'
  BY <1>1 DEF AgentInv, AgentTypeOK, UserPlaces
<1>3. UserShape'
  BY AgentAssumption DEF AgentInv, AgentTypeOK, UserShape
<1>4. RowsRight'
  <2> SUFFICES ASSUME NEW b \in Agents \ reclaimed
               PROVE  /\ \A q \in HeldBy(b)' : agent'[b] # "idle"
                      /\ \A p, q \in HeldBy(b)' : p = q
    BY DEF RowsRight
  <2>1. \A q : q \in HeldBy(b)' <=> /\ q \in AgentRuns /\ user'[q].pc # "free"
                                    /\ b = user'[q].agent \/ b = user'[q].second
    BY DEF HeldBy, Active
  <2>2. \A q \in AgentRuns : q # r => user'[q] = user[q]
    BY DEF AgentInv, AgentTypeOK
  <2>3. user'[r] = u
    BY DEF AgentInv, AgentTypeOK
  <2>4. CASE b = a
    <3>1. HeldBy(a) = {}
      BY <1>1, <2>4 DEF AgentInv, RowsRight
    <3>2. ASSUME NEW q \in HeldBy(b)', q # r PROVE FALSE
      <4>1. q \in AgentRuns /\ user[q].pc # "free" /\ (a = user[q].agent \/ a = user[q].second)
        BY <2>1, <2>2, <2>4, <3>2
      <4>2. q \in HeldBy(a)
        BY <4>1, Holders
      <4> QED
        BY <3>1, <4>2
    <3> QED
      BY <1>1, <2>4, <3>2 DEF AgentInv, AgentTypeOK
  <2>5. CASE b # a
    <3>1. HeldBy(b)' \subseteq HeldBy(b)
      BY <2>1, <2>2, <2>3, <2>5, Holders, AgentAssumption DEF AgentInv, UserShape
    <3>2. agent'[b] = agent[b]
      BY <1>1, <2>5 DEF AgentInv, AgentTypeOK
    <3> QED
      BY <3>1, <3>2 DEF AgentInv, RowsRight
  <2> QED
    BY <2>4, <2>5
<1> QED
  BY <1>2, <1>3, <1>4 DEF AgentInv

\* Nobody is given an agent, and no row but those without a user becomes idle.
LEMMA KeepInv ==
    ASSUME AgentInv, AgentTypeOK', UserShape', reclaimed \subseteq reclaimed',
           \A a \in Agents \ reclaimed' : HeldBy(a)' \subseteq HeldBy(a),
           \A a \in Agents \ reclaimed' : agent'[a] = agent[a] \/ agent'[a] # "idle" \/ HeldBy(a)' = {}
    PROVE  AgentInv'
BY DEF AgentInv, RowsRight

\* One run moves to u without taking an agent up; a row that becomes idle is one
\* it gives back.
UserState == [pc : UserPlaces, agent : Agents \cup {NoAgent},
              second : Agents \cup {NoAgent}, tracked : BOOLEAN]
Moves(r, u) ==
    /\ u \in UserState
    /\ user' = [user EXCEPT ![r] = u]
    /\ u.agent \in {user[r].agent, NoAgent} /\ u.second \in {user[r].second, NoAgent}
    /\ u.pc \in {"free", "assign"} => u.agent = NoAgent
    /\ u.pc \in {"clone", "work"} => u.agent # NoAgent
    /\ u.pc # "work" => u.second = NoAgent
    /\ agent' \in [Agents -> {"idle", "assigned", "running"}] /\ old' \subseteq Agents
    /\ UNCHANGED <<stuckAgents, reclaimed>>
    /\ \A a \in Agents :
          \/ agent'[a] = agent[a]
          \/ agent'[a] # "idle"
          \/ r \in HeldBy(a) /\ a \notin {u.agent, u.second}

\* Such a move preserves the invariant.
LEMMA MoveInv ==
    ASSUME AgentInv, NEW r \in AgentRuns, NEW u, Moves(r, u)
    PROVE  AgentInv'
<1> USE DEF Moves
<1>1. AgentTypeOK'
  BY DEF AgentInv, AgentTypeOK, UserState
<1>2. UserShape'
  BY DEF AgentInv, AgentTypeOK, UserShape
<1>3. ASSUME NEW a \in Agents \ reclaimed'
      PROVE  /\ HeldBy(a)' \subseteq HeldBy(a)
             /\ agent'[a] = agent[a] \/ agent'[a] # "idle" \/ HeldBy(a)' = {}
  <2>1. \A q : q \in HeldBy(a)' <=> /\ q \in AgentRuns /\ user'[q].pc # "free"
                                    /\ a = user'[q].agent \/ a = user'[q].second
    BY DEF HeldBy, Active
  <2>2. /\ \A q \in AgentRuns : q # r => user'[q] = user[q]
        /\ user'[r] = u
    BY DEF AgentInv, AgentTypeOK
  <2>3. a # NoAgent
    BY AgentAssumption
  <2>4. HeldBy(a)' \subseteq HeldBy(a)
    BY <2>1, <2>2, <2>3, Holders DEF AgentInv, UserShape
  <2>5. ASSUME r \in HeldBy(a), a \notin {u.agent, u.second} PROVE HeldBy(a)' = {}
    <3>1. HeldBy(a) \subseteq {r}
      BY <1>3, <2>5 DEF AgentInv, RowsRight
    <3> QED
      BY <2>1, <2>2, <2>4, <2>5, <3>1
  <2> QED
    BY <2>4, <2>5
<1> QED
  BY <1>1, <1>2, <1>3, KeepInv

\* UpdateStatus writes a row of the pool, or nothing.
LEMMA UpdateStatusRow ==
    ASSUME AgentTypeOK, NEW a \in Agents \cup {NoAgent},
           NEW st \in {"idle", "assigned", "running"}, UpdateStatus(a, st)
    PROVE  /\ agent' \in [Agents -> {"idle", "assigned", "running"}]
           /\ old' \subseteq Agents
           /\ \A b \in Agents : agent'[b] = IF b = a THEN st ELSE agent[b]
BY AgentAssumption DEF AgentTypeOK, UpdateStatus

\* Every step of the pool preserves the invariant.
LEMMA AgentNextInv == AgentInv /\ [AgentNext]_agentVars => AgentInv'
<1> SUFFICES ASSUME AgentInv, [AgentNext]_agentVars PROVE AgentInv'
  OBVIOUS
<1>0. /\ AgentTypeOK /\ UserShape
      /\ \A r \in AgentRuns : user[r] \in UserState
      /\ agent \in [Agents -> {"idle", "assigned", "running"}] /\ old \subseteq Agents
  BY DEF AgentInv, AgentTypeOK, UserState
<1>1. ASSUME NEW r \in AgentRuns, NEW pc \in {"assign", "exit"},
             user' = [user EXCEPT ![r].pc = pc],
             pc = "assign" => user[r].agent = NoAgent, user[r].second = NoAgent,
             UNCHANGED <<agent, old, stuckAgents, reclaimed>>
      PROVE  AgentInv'
  <2> DEFINE u == [user[r] EXCEPT !.pc = pc]
  <2>1. /\ u \in UserState
        /\ u.pc = pc /\ u.agent = user[r].agent /\ u.second = user[r].second
    BY <1>0 DEF UserState, UserPlaces
  <2>2. user' = [user EXCEPT ![r] = u]
    BY <1>1
  <2> HIDE DEF u
  <2>3. Moves(r, u)
    BY <1>0, <1>1, <2>1, <2>2 DEF Moves
  <2> QED
    BY <2>3, MoveInv
<1>2. ASSUME NEW r \in AgentRuns, StartUser(r) \/ EndWork(r) PROVE AgentInv'
  <2>1. CASE StartUser(r)
    BY <1>0, <1>1, <2>1 DEF StartUser, UserShape
  <2>2. CASE EndWork(r)
    BY <1>0, <1>1, <2>2 DEF EndWork, UserShape
  <2> QED
    BY <1>2, <2>1, <2>2
<1>3. ASSUME NEW r \in AgentRuns, Assign(r) PROVE AgentInv'
  <2>1. CASE user' = [user EXCEPT ![r].pc = "exit"] /\ UNCHANGED <<agent, old>>
    BY <1>0, <1>1, <1>3, <2>1 DEF UserShape, Assign
  <2>2. ASSUME NEW a \in Candidates, ClaimAvailable(a),
               user' = [user EXCEPT ![r].pc = "clone", ![r].agent = a]
        PROVE  AgentInv'
    <3> DEFINE u == [user[r] EXCEPT !.pc = "clone", !.agent = a]
    <3>0. a \in Agents
      BY CandidatesAreAgents
    <3>1. /\ u \in [pc : {"clone", "work"}, agent : Agents, second : Agents \cup {NoAgent},
                    tracked : BOOLEAN]
          /\ u.pc = "clone" /\ u.agent = a /\ u.second = NoAgent
      BY <1>0, <1>3, <3>0 DEF Assign, UserShape, UserState
    <3>2. user' = [user EXCEPT ![r] = u] /\ UNCHANGED <<stuckAgents, reclaimed>>
      BY <1>0, <1>3, <2>2 DEF Assign, AgentTypeOK
    <3> HIDE DEF u
    <3>3. Claims(r, a, u)
      BY <2>2, <3>1, <3>2 DEF Claims
    <3> QED
      BY <3>0, <3>1, <3>3, ClaimInv
  <2> QED
    BY <1>3, <2>1, <2>2 DEF Assign
<1>4. ASSUME NEW r \in AgentRuns, MarkRunning(r) PROVE AgentInv'
  <2>1. CASE user' = [user EXCEPT ![r].pc = "exit"] /\ UNCHANGED <<agent, old>>
    BY <1>0, <1>1, <1>4, <2>1 DEF UserShape, MarkRunning
  <2>2. CASE UpdateStatus(user[r].agent, "running") /\ user' = [user EXCEPT ![r].pc = "work"]
    <3> DEFINE u == [user[r] EXCEPT !.pc = "work"]
    <3>1. /\ u \in UserState
          /\ u.pc = "work" /\ u.agent = user[r].agent /\ u.second = user[r].second
      BY <1>0 DEF UserState, UserPlaces
    <3>2. user' = [user EXCEPT ![r] = u] /\ UNCHANGED <<stuckAgents, reclaimed>>
      BY <1>4, <2>2 DEF MarkRunning
    <3>3. user[r].agent \in Agents \cup {NoAgent}
      BY <1>0 DEF UserState
    <3>4. /\ agent' \in [Agents -> {"idle", "assigned", "running"}] /\ old' \subseteq Agents
          /\ \A b \in Agents : agent'[b] = IF b = user[r].agent THEN "running" ELSE agent[b]
      BY <1>0, <2>2, <3>3, UpdateStatusRow
    <3> HIDE DEF u
    <3>5. Moves(r, u)
      BY <1>0, <1>4, <3>1, <3>2, <3>4 DEF Moves, MarkRunning, UserShape
    <3> QED
      BY <3>5, MoveInv
  <2> QED
    BY <1>4, <2>1, <2>2 DEF MarkRunning
<1>5. ASSUME NEW r \in AgentRuns, AssignRoleAgent(r) PROVE AgentInv'
  <2>1. PICK a \in Agents : /\ ClaimAvailable(a) /\ RoleOf[a] = TrackRole
                            /\ user' = [user EXCEPT ![r].second = a, ![r].tracked = TRUE]
    BY <1>5 DEF AssignRoleAgent, Available
  <2> DEFINE u == [user[r] EXCEPT !.second = a, !.tracked = TRUE]
  <2>2. user[r].agent # a /\ user[r].pc = "work"
    BY <1>5, <2>1 DEF AssignRoleAgent
  <2>3. user[r].agent \in Agents
    BY <1>0, <2>2 DEF UserShape, UserState
  <2>4. /\ u \in [pc : {"clone", "work"}, agent : Agents, second : Agents \cup {NoAgent},
                  tracked : BOOLEAN]
        /\ u.agent = user[r].agent /\ u.second = a /\ u.pc = "work"
    BY <1>0, <2>2, <2>3 DEF UserState
  <2>5. user' = [user EXCEPT ![r] = u] /\ UNCHANGED <<stuckAgents, reclaimed>>
    BY <1>0, <1>5, <2>1 DEF AssignRoleAgent, AgentTypeOK
  <2> HIDE DEF u
  <2>6. Claims(r, a, u)
    BY <2>1, <2>2, <2>4, <2>5 DEF Claims
  <2> QED
    BY <2>4, <2>6, ClaimInv
<1>6. ASSUME NEW r \in AgentRuns, ReleaseRoleAgent(r) PROVE AgentInv'
  <2> DEFINE u == [user[r] EXCEPT !.second = NoAgent]
  <2>1. /\ u \in UserState
        /\ u.pc = user[r].pc /\ u.agent = user[r].agent /\ u.second = NoAgent
    BY <1>0 DEF UserState
  <2>2. /\ user[r].second \in Agents /\ user[r].second # user[r].agent /\ user[r].pc = "work"
        /\ UpdateStatus(user[r].second, "idle")
        /\ user' = [user EXCEPT ![r] = u] /\ UNCHANGED <<stuckAgents, reclaimed>>
    BY <1>0, <1>6 DEF ReleaseRoleAgent, UserShape, UserState
  <2>3. /\ agent' \in [Agents -> {"idle", "assigned", "running"}] /\ old' \subseteq Agents
        /\ \A b \in Agents : agent'[b] = IF b = user[r].second THEN "idle" ELSE agent[b]
    BY <1>0, <2>2, UpdateStatusRow
  <2>4. r \in HeldBy(user[r].second)
    BY <2>2, Holders
  <2> HIDE DEF u
  <2>5. Moves(r, u)
    BY <1>0, <2>1, <2>2, <2>3, <2>4, AgentAssumption DEF Moves, UserShape
  <2> QED
    BY <2>5, MoveInv
<1>7. ASSUME NEW r \in AgentRuns, Release(r) PROVE AgentInv'
  <2>1. /\ NoUser \in UserState
        /\ NoUser.pc = "free" /\ NoUser.agent = NoAgent /\ NoUser.second = NoAgent
    BY DEF UserState, UserPlaces, NoUser
  <2>2. /\ user[r].agent \in Agents \cup {NoAgent} /\ user[r].pc = "exit"
        /\ UpdateStatus(user[r].agent, "idle")
        /\ user' = [user EXCEPT ![r] = NoUser] /\ UNCHANGED <<stuckAgents, reclaimed>>
    BY <1>0, <1>7 DEF Release, UserState
  <2>3. /\ agent' \in [Agents -> {"idle", "assigned", "running"}] /\ old' \subseteq Agents
        /\ \A b \in Agents : agent'[b] = IF b = user[r].agent THEN "idle" ELSE agent[b]
    BY <1>0, <2>2, UpdateStatusRow
  <2>4. r \in HeldBy(user[r].agent)
    BY <2>2, Holders
  <2>5. Moves(r, NoUser)
    BY <2>1, <2>2, <2>3, <2>4, AgentAssumption DEF Moves
  <2> QED
    BY <2>5, MoveInv
<1>8. ASSUME NEW a \in Agents, AgentAges(a) PROVE AgentInv'
  <2>1. AgentTypeOK' /\ UNCHANGED <<user, agent, reclaimed>>
    BY <1>0, <1>8 DEF AgentAges, AgentTypeOK
  <2> QED
    BY <2>1 DEF AgentInv, UserShape, RowsRight, HeldBy, Active
<1>9. CASE ReadStuckAgents
  <2>1. AgentTypeOK' /\ UNCHANGED <<user, agent, reclaimed>>
    BY <1>0, <1>9 DEF ReadStuckAgents, AgentTypeOK
  <2> QED
    BY <2>1 DEF AgentInv, UserShape, RowsRight, HeldBy, Active
<1>10. CASE ResetStuckAgents
  <2>1. /\ AgentTypeOK' /\ UNCHANGED user /\ reclaimed \subseteq reclaimed'
        /\ \A a \in Agents : agent'[a] = agent[a] \/ a \in reclaimed' \/ HeldBy(a) = {}
    BY <1>0, <1>10 DEF ResetStuckAgents, AgentTypeOK
  <2>2. UserShape' /\ \A a \in Agents : HeldBy(a)' = HeldBy(a)
    BY <1>0, <2>1 DEF UserShape, HeldBy, Active
  <2> QED
    BY <2>1, <2>2, KeepInv
<1>11. CASE Restart
  <2>1. AgentTypeOK'
    BY <1>0, <1>11 DEF Restart, AgentTypeOK, NoUser, UserPlaces
  <2>2. UserShape' /\ \A a \in Agents : HeldBy(a)' = {}
    BY <1>11 DEF Restart, UserShape, HeldBy, Active, NoUser
  <2> QED
    BY <2>1, <2>2 DEF AgentInv, RowsRight
<1>12. CASE UNCHANGED agentVars
  BY <1>12 DEF agentVars, AgentInv, AgentTypeOK, UserShape, RowsRight, HeldBy, Active
<1> QED
  BY <1>2, <1>3, <1>4, <1>5, <1>6, <1>7, <1>8, <1>9, <1>10, <1>11, <1>12
     DEF AgentNext, UserStep

\* For any number of runs and agents, two runs have one agent only after the
\* watchdog has freed its row while a run had it.
THEOREM AgentsExclusive == AgentSpec => []AgentExclusive
<1>1. AgentInit => AgentInv
  <2> SUFFICES ASSUME AgentInit PROVE AgentInv
    OBVIOUS
  <2>1. AgentTypeOK
    BY DEF AgentInit, AgentTypeOK, NoUser, UserPlaces
  <2>2. UserShape /\ \A a \in Agents : HeldBy(a) = {}
    BY DEF AgentInit, UserShape, HeldBy, Active, NoUser
  <2> QED
    BY <2>1, <2>2 DEF AgentInv, RowsRight
<1>2. AgentInv => AgentExclusive
  BY DEF AgentInv, RowsRight, AgentExclusive
<1> QED
  BY <1>1, <1>2, AgentNextInv, PTL DEF AgentSpec

-----------------------------------------------------------------------------
\* The workspaces

RunState == [pc : {"free", "lock", "read", "remove", "create", "prepare", "work", "fail", "exit"},
             task : Tasks \cup {None}, job : 0..MaxJobs, cancelled : BOOLEAN]
JobRow == [task : Tasks, open : BOOLEAN]

\* A run at work has a task and one of the jobs of this task.
JobsNamed ==
    /\ jobs \in Seq(JobRow)
    /\ \A r \in Live : /\ run[r].task \in Tasks
                       /\ run[r].job \in DOMAIN jobs
                       /\ jobs[run[r].job].task = run[r].task

\* Jobs are added and closed, never removed and never given to another task.
LEMMA JobsStay ==
    ASSUME JobsNamed, [WorkspaceNext]_wsVars
    PROVE  /\ jobs' \in Seq(JobRow)
           /\ DOMAIN jobs \subseteq DOMAIN jobs'
           /\ \A j \in DOMAIN jobs : jobs'[j].task = jobs[j].task
<1>0. jobs \in Seq(JobRow)
  BY DEF JobsNamed
<1>1. CASE jobs' = jobs
  BY <1>0, <1>1
<1>2. ASSUME NEW t \in Tasks, jobs' = Append(jobs, [task |-> t, open |-> TRUE])
      PROVE  /\ jobs' \in Seq(JobRow)
             /\ DOMAIN jobs \subseteq DOMAIN jobs'
             /\ \A j \in DOMAIN jobs : jobs'[j].task = jobs[j].task
  <2> DEFINE row == [task |-> t, open |-> TRUE]
  <2>1. row \in JobRow /\ jobs' = Append(jobs, row)
    BY <1>2 DEF JobRow
  <2> HIDE DEF row
  <2> QED
    BY <1>0, <2>1
<1>3. ASSUME NEW k, jobs' = [jobs EXCEPT ![k].open = FALSE]
      PROVE  /\ jobs' \in Seq(JobRow)
             /\ DOMAIN jobs \subseteq DOMAIN jobs'
             /\ \A j \in DOMAIN jobs : jobs'[j].task = jobs[j].task
  <2>1. \A j \in DOMAIN jobs : jobs[j] \in JobRow
    BY <1>0
  <2>2. DOMAIN jobs' = DOMAIN jobs
    BY <1>3
  <2>3. \A j \in DOMAIN jobs : jobs'[j] \in JobRow /\ jobs'[j].task = jobs[j].task
    BY <1>3, <2>1 DEF JobRow
  <2>4. jobs' = [j \in 1..Len(jobs) |-> jobs'[j]] /\ DOMAIN jobs = 1..Len(jobs) /\ Len(jobs) \in Nat
    <3>1. DOMAIN jobs = 1..Len(jobs) /\ Len(jobs) \in Nat
      BY <1>0
    <3>2. jobs' = [j \in DOMAIN jobs |-> jobs'[j]]
      BY <1>3, Zenon
    <3> QED
      BY <3>1, <3>2
  <2>5. jobs' \in Seq(JobRow)
    BY <2>3, <2>4
  <2> QED
    BY <2>2, <2>3, <2>5
<1>4. ASSUME NEW S, jobs' = [j \in DOMAIN jobs |->
                               IF j \in S THEN [jobs[j] EXCEPT !.open = FALSE] ELSE jobs[j]]
      PROVE  /\ jobs' \in Seq(JobRow)
             /\ DOMAIN jobs \subseteq DOMAIN jobs'
             /\ \A j \in DOMAIN jobs : jobs'[j].task = jobs[j].task
  <2>1. \A j \in DOMAIN jobs : jobs[j] \in JobRow
    BY <1>0
  <2>2. DOMAIN jobs' = DOMAIN jobs
    BY <1>4
  <2>3. \A j \in DOMAIN jobs : jobs'[j] \in JobRow /\ jobs'[j].task = jobs[j].task
    BY <1>4, <2>1 DEF JobRow
  <2>4. jobs' = [j \in 1..Len(jobs) |-> jobs'[j]] /\ DOMAIN jobs = 1..Len(jobs) /\ Len(jobs) \in Nat
    BY <1>0, <1>4
  <2>5. jobs' \in Seq(JobRow)
    BY <2>3, <2>4
  <2> QED
    BY <2>2, <2>3, <2>5
<1>5. \/ jobs' = jobs
      \/ \E t \in Tasks : jobs' = Append(jobs, [task |-> t, open |-> TRUE])
      \/ \E k : jobs' = [jobs EXCEPT ![k].open = FALSE]
      \/ \E S : jobs' = [j \in DOMAIN jobs |->
                           IF j \in S THEN [jobs[j] EXCEPT !.open = FALSE] ELSE jobs[j]]
  <2>1. ASSUME NEW r \in Runs, NEW t \in Tasks, StartRun(r, t)
        PROVE  jobs' = jobs \/ jobs' = Append(jobs, [task |-> t, open |-> TRUE])
    BY <2>1 DEF StartRun
  <2>2. ASSUME NEW r \in Runs, RunStep(r)
        PROVE  jobs' = jobs \/ \E k : jobs' = [jobs EXCEPT ![k].open = FALSE]
    BY <2>2 DEF RunStep, AcquireAdvisoryLock, ReadLockFile, RemoveStaleFile, CreateLockFile,
                EnsureWorkspaceCloned, CodingStep, EndRun, CloseJob, Abort, ExitRun
  <2>3. ASSUME NEW t \in Tasks, CancelJob(t)
        PROVE  \E S : jobs' = [j \in DOMAIN jobs |->
                                 IF j \in S THEN [jobs[j] EXCEPT !.open = FALSE] ELSE jobs[j]]
    BY <2>3 DEF CancelJob
  <2>4. CASE Crash \/ UNCHANGED wsVars
    BY <2>4 DEF Crash, wsVars
  <2>5. ASSUME NEW t \in Tasks, \/ FileExpires(t) \/ CleanupReleases(t) \/ CleanupDeletes(t)
                                \/ PruneFinal(t) \/ RemoveWorkspace(t)
        PROVE  jobs' = jobs
    BY <2>5 DEF FileExpires, CleanupReleases, CleanupDeletes, PruneFinal, RemoveWorkspace
  <2> QED
    BY <2>1, <2>2, <2>3, <2>4, <2>5 DEF WorkspaceNext
<1> QED
  BY <1>1, <1>2, <1>3, <1>4, <1>5

\* A workspace is cloned only in the directory of a task that is no child, and
\* no code is in a directory without a clone.
ClonesAtOwners ==
    \A w \in Tasks : /\ clone[w].there => ParentTaskID[w] = None
                     /\ ~clone[w].there => clone[w].code = {}

\* As long as nobody took the lock of a workspace away: a run past the advisory
\* lock has it and is the only one of its task to have it, and the lock file
\* names the job of the run inside.
LocksRight ==
    \A r \in Locked : Owner(r) \notin taken =>
        /\ run[r].task \in lockConns
        /\ \A q \in Locked : run[q].task = run[r].task => q = r
        /\ r \in Inside => lockFile[Owner(r)].job = run[r].job

WsInv == WorkspaceTypeOK /\ JobsNamed /\ ClonesAtOwners /\ LocksRight

\* The owner of a workspace is a task, and no child.
LEMMA OwnersAreTasks ==
    ASSUME NEW t \in Tasks
    PROVE  /\ WorkspaceOwnerID(t) \in Tasks
           /\ ParentTaskID[WorkspaceOwnerID(t)] = None
           /\ ParentTaskID[t] = None => WorkspaceOwnerID(t) = t
  BY WorkspaceAssumption DEF WorkspaceOwnerID

\* A run that is not free has a task and a job, so it has a workspace.
LEMMA RunsHaveOwners ==
    ASSUME WorkspaceTypeOK, JobsNamed, NEW r \in Runs, run[r].pc # "free"
    PROVE  /\ run[r].task \in Tasks /\ run[r].job \in 1..MaxJobs
           /\ Owner(r) \in Tasks /\ ParentTaskID[Owner(r)] = None
<1>1. jobs \in Seq(JobRow) /\ run[r].task \in Tasks /\ run[r].job \in DOMAIN jobs
  BY DEF JobsNamed, Live
<1>2. run[r].job \in 1..Len(jobs) /\ Len(jobs) \in Nat
  BY <1>1
<1>3. run[r].job \in 0..MaxJobs
  BY DEF WorkspaceTypeOK
<1>4. run[r].job \in 1..MaxJobs
  BY <1>2, <1>3, WorkspaceAssumption
<1> QED
  BY <1>1, <1>4, OwnersAreTasks DEF Owner

\* What changes when a run goes to its next place.
LEMMA GotoMoves ==
    ASSUME WorkspaceTypeOK, NEW r \in Runs, NEW pc, Goto(r, pc)
    PROVE  /\ run'[r].pc = pc
           /\ \A q \in Runs : q # r => run'[q] = run[q]
           /\ \A q \in Runs : /\ run'[q].task = run[q].task /\ run'[q].job = run[q].job
                              /\ run'[q].cancelled = run[q].cancelled
  BY DEF Goto, WorkspaceTypeOK

\* A run that is at work after the step was at work before it, with the same task and job.
RunsGoOn ==
    \A q \in Live' : q \in Live /\ run'[q].task = run[q].task /\ run'[q].job = run[q].job

\* Every step but the start of a run leaves the runs at work with their task and job.
LEMMA RunsKeepJobs ==
    ASSUME WorkspaceTypeOK, [WorkspaceNext]_wsVars,
           ~ \E r \in Runs, t \in Tasks : StartRun(r, t)
    PROVE  RunsGoOn
<1>1. CASE UNCHANGED run
  BY <1>1 DEF RunsGoOn, Live
<1>2. ASSUME NEW r \in Runs, NEW pc, run[r].pc # "free", Goto(r, pc)
      PROVE  RunsGoOn
  BY <1>2, GotoMoves DEF RunsGoOn, Live
<1>3. CASE \E r \in Runs : RunStep(r)
  <2> SUFFICES ASSUME NEW r \in Runs, RunStep(r) PROVE RunsGoOn
    BY <1>3
  <2>1. CASE AcquireAdvisoryLock(r)
    BY <2>1, <1>2 DEF AcquireAdvisoryLock
  <2>2. CASE ReadLockFile(r)
    BY <2>2, <1>2 DEF ReadLockFile
  <2>3. CASE RemoveStaleFile(r)
    BY <2>3, <1>2 DEF RemoveStaleFile
  <2>4. CASE CreateLockFile(r)
    BY <2>4, <1>2 DEF CreateLockFile
  <2>5. CASE EnsureWorkspaceCloned(r)
    BY <2>5, <1>2 DEF EnsureWorkspaceCloned
  <2>6. CASE CodingStep(r)
    BY <2>6, <1>1, <1>2 DEF CodingStep
  <2>7. CASE EndRun(r)
    BY <2>7, <1>2 DEF EndRun
  <2>8. CASE Abort(r)
    BY <2>8, <1>2 DEF Abort
  <2>9. CASE ExitRun(r)
    BY <2>9 DEF ExitRun, RunsGoOn, Live, Idle, WorkspaceTypeOK
  <2> QED
    BY <2>1, <2>2, <2>3, <2>4, <2>5, <2>6, <2>7, <2>8, <2>9 DEF RunStep
<1>4. ASSUME NEW t \in Tasks, CancelJob(t)
      PROVE  RunsGoOn
  BY <1>4 DEF CancelJob, RunsGoOn, Live, WorkspaceTypeOK
<1>5. CASE Crash
  BY <1>5 DEF Crash, RunsGoOn, Live, Idle
<1>6. ASSUME NEW t \in Tasks, \/ FileExpires(t) \/ CleanupReleases(t) \/ CleanupDeletes(t)
                              \/ PruneFinal(t) \/ RemoveWorkspace(t)
      PROVE  UNCHANGED run
  BY <1>6 DEF FileExpires, CleanupReleases, CleanupDeletes, PruneFinal, RemoveWorkspace
<1>7. CASE UNCHANGED wsVars
  BY <1>7, <1>1 DEF wsVars
<1> QED
  BY <1>1, <1>3, <1>4, <1>5, <1>6, <1>7 DEF WorkspaceNext

\* Runs keep jobs of their own task.
LEMMA JobsNamedKept ==
    ASSUME WorkspaceTypeOK, JobsNamed, [WorkspaceNext]_wsVars
    PROVE  JobsNamed'
<1>1. /\ jobs' \in Seq(JobRow)
      /\ DOMAIN jobs \subseteq DOMAIN jobs'
      /\ \A j \in DOMAIN jobs : jobs'[j].task = jobs[j].task
  BY JobsStay
<1>2. \A q \in Live : /\ run[q].task \in Tasks /\ run[q].job \in DOMAIN jobs
                      /\ jobs[run[q].job].task = run[q].task
  BY DEF JobsNamed
<1>3. CASE \E r \in Runs, t \in Tasks : StartRun(r, t)
  <2>0. PICK r \in Runs, t \in Tasks : StartRun(r, t)
    BY <1>3
  <2>1. PICK j \in IF OpenJobs(t) = {} THEN {Len(jobs) + 1} ELSE OpenJobs(t) :
               /\ j <= MaxJobs
               /\ jobs' = IF j \in DOMAIN jobs THEN jobs ELSE Append(jobs, [task |-> t, open |-> TRUE])
               /\ run' = [run EXCEPT ![r] = [Idle EXCEPT !.pc = "lock", !.task = t, !.job = j]]
    BY <2>0, Zenon DEF StartRun
  <2>2. j \in DOMAIN jobs' /\ jobs'[j].task = t
    <3>1. CASE j \in OpenJobs(t)
      BY <3>1, <2>1 DEF OpenJobs
    <3>2. CASE j = Len(jobs) + 1
      <4> DEFINE row == [task |-> t, open |-> TRUE]
      <4>1. row \in JobRow /\ row.task = t
        BY DEF JobRow
      <4>2. jobs \in Seq(JobRow)
        BY DEF JobsNamed
      <4>3. DOMAIN jobs = 1..Len(jobs) /\ Len(jobs) \in Nat
        BY <4>2
      <4>4. jobs' = Append(jobs, row)
        BY <2>1, <3>2, <4>3
      <4> HIDE DEF row
      <4> QED
        BY <3>2, <4>1, <4>2, <4>3, <4>4
    <3> QED
      BY <2>1, <3>1, <3>2
  <2>3. /\ run'[r].task = t /\ run'[r].job = j
        /\ \A q \in Runs : q # r => run'[q] = run[q]
    BY <2>1 DEF WorkspaceTypeOK, Idle
  <2> QED
    BY <1>1, <1>2, <2>2, <2>3 DEF JobsNamed, Live
<1>4. CASE ~ \E r \in Runs, t \in Tasks : StartRun(r, t)
  <2>1. RunsGoOn
    BY <1>4, RunsKeepJobs
  <2> QED
    BY <1>1, <1>2, <2>1 DEF RunsGoOn, JobsNamed
<1> QED
  BY <1>3, <1>4

\* Only the directory of an owner is ever cloned into, and a removed clone is empty.
LEMMA ClonesKept ==
    ASSUME WorkspaceTypeOK, JobsNamed, ClonesAtOwners, [WorkspaceNext]_wsVars
    PROVE  ClonesAtOwners'
<1>1. CASE UNCHANGED clone
  BY <1>1 DEF ClonesAtOwners
<1>2. ASSUME NEW w \in Tasks, NEW c, clone' = [clone EXCEPT ![w] = c],
             c.there => ParentTaskID[w] = None, ~c.there => c.code = {}
      PROVE  ClonesAtOwners'
  BY <1>2 DEF ClonesAtOwners, WorkspaceTypeOK
<1>3. \A w \in Tasks : /\ clone[w] \in [there : BOOLEAN, code : SUBSET Tasks, loose : SUBSET Tasks]
                       /\ clone[w].there => ParentTaskID[w] = None
                       /\ ~clone[w].there => clone[w].code = {}
  BY DEF ClonesAtOwners, WorkspaceTypeOK
<1>4. ASSUME NEW r \in Runs, EnsureWorkspaceCloned(r)
      PROVE  ClonesAtOwners'
  <2>1. Owner(r) \in Tasks /\ ParentTaskID[Owner(r)] = None
    BY <1>4, RunsHaveOwners DEF EnsureWorkspaceCloned
  <2>2. ASSUME NEW c, clone' = [clone EXCEPT ![Owner(r)] = c], c.there
        PROVE  ClonesAtOwners'
    BY <1>2, <2>1, <2>2
  <2> DEFINE found == clone[Owner(r)]
             made == [there |-> TRUE, loose |-> {},
                      code |-> IF HasWorkToPreserve(run[r].task) THEN PatchArtifacts(run[r].task) ELSE {}]
  <2>3. \/ UNCHANGED clone
        \/ found.there /\ clone' = [clone EXCEPT ![Owner(r)] = found]
        \/ found.there /\ clone' = [clone EXCEPT ![Owner(r)] = ResetExistingWorkspace(found)]
        \/ clone' = [clone EXCEPT ![Owner(r)] = made]
    BY <1>4 DEF EnsureWorkspaceCloned
  <2>4. made.there
    OBVIOUS
  <2>5. found.there => ResetExistingWorkspace(found).there
    BY <1>3, <2>1 DEF ResetExistingWorkspace
  <2> HIDE DEF found, made
  <2> QED
    BY <1>1, <2>2, <2>3, <2>4, <2>5
<1>5. ASSUME NEW r \in Runs, CodingStep(r)
      PROVE  ClonesAtOwners'
  <2>1. Owner(r) \in Tasks /\ ParentTaskID[Owner(r)] = None
    BY <1>5, RunsHaveOwners DEF CodingStep
  <2>2. \A w \in Tasks : clone'[w].there = clone[w].there
    <3>1. ASSUME NEW A, NEW B, clone' = [clone EXCEPT ![Owner(r)].code = A, ![Owner(r)].loose = B]
          PROVE  \A w \in Tasks : clone'[w].there = clone[w].there
      BY <1>3, <2>1, <3>1 DEF WorkspaceTypeOK
    <3>2. \E A, B : clone' = [clone EXCEPT ![Owner(r)].code = A, ![Owner(r)].loose = B]
      BY <1>5, Zenon DEF CodingStep
    <3> QED
      BY <3>1, <3>2
  <2>3. \A w \in Tasks : w # Owner(r) => clone'[w] = clone[w]
    BY <1>5, <2>1 DEF CodingStep, WorkspaceTypeOK
  <2>4. clone[Owner(r)].there
    BY <1>5 DEF CodingStep
  <2> QED
    BY <1>3, <2>1, <2>2, <2>3, <2>4 DEF ClonesAtOwners
<1>6. ASSUME NEW t \in Tasks, CleanupDeletes(t) \/ RemoveWorkspace(t)
      PROVE  ClonesAtOwners'
  BY <1>2, <1>6 DEF CleanupDeletes, RemoveWorkspace, NoClone
<1>7. ASSUME NEW r \in Runs, \/ AcquireAdvisoryLock(r) \/ ReadLockFile(r) \/ RemoveStaleFile(r)
                             \/ CreateLockFile(r) \/ EndRun(r) \/ Abort(r) \/ ExitRun(r)
      PROVE  UNCHANGED clone
  BY <1>7 DEF AcquireAdvisoryLock, ReadLockFile, RemoveStaleFile, CreateLockFile, EndRun, Abort,
              ExitRun, fileVars
<1>8. ASSUME NEW t \in Tasks, FileExpires(t) \/ CancelJob(t) \/ CleanupReleases(t) \/ PruneFinal(t)
      PROVE  UNCHANGED clone
  BY <1>8 DEF FileExpires, CancelJob, CleanupReleases, PruneFinal, fileVars
<1>9. ASSUME NEW r \in Runs, NEW t \in Tasks, StartRun(r, t)
      PROVE  UNCHANGED clone
  BY <1>9 DEF StartRun
<1>10. CASE Crash \/ UNCHANGED wsVars
  BY <1>1, <1>10 DEF Crash, wsVars, fileVars
<1> QED
  BY <1>1, <1>4, <1>5, <1>6, <1>7, <1>8, <1>9, <1>10 DEF WorkspaceNext, RunStep

\* A step that lets no run past the advisory lock, and disturbs the lock or the
\* file of a run past it only where the workspace is then counted as taken.
LocksKept ==
    /\ taken \subseteq taken'
    /\ \A q \in Locked' : q \in Locked /\ run'[q].task = run[q].task /\ run'[q].job = run[q].job
    /\ \A q \in Locked' : Owner(q) \notin taken' /\ run[q].task \in lockConns
                          => run[q].task \in lockConns'
    /\ \A q \in Inside' : Owner(q) \notin taken' =>
           \/ q \in Inside /\ lockFile'[Owner(q)].job = lockFile[Owner(q)].job
           \/ lockFile'[Owner(q)].job = run[q].job

LEMMA LocksStayRight ==
    ASSUME LocksRight, LocksKept
    PROVE  LocksRight'
<1> SUFFICES ASSUME NEW r \in Locked', Owner(r)' \notin taken'
             PROVE  /\ run'[r].task \in lockConns'
                    /\ \A q \in Locked' : run'[q].task = run'[r].task => q = r
                    /\ r \in Inside' => lockFile'[Owner(r)'].job = run'[r].job
  BY DEF LocksRight
<1>1. /\ r \in Locked /\ run'[r].task = run[r].task /\ run'[r].job = run[r].job
      /\ \A q \in Locked' : q \in Locked /\ run'[q].task = run[q].task
      /\ taken \subseteq taken'
  BY DEF LocksKept
<1>2. Owner(r)' = Owner(r)
  BY <1>1 DEF Owner
<1>3. Owner(r) \notin taken
  BY <1>1, <1>2
<1>4. /\ run[r].task \in lockConns
      /\ \A q \in Locked : run[q].task = run[r].task => q = r
      /\ r \in Inside => lockFile[Owner(r)].job = run[r].job
  BY <1>1, <1>3 DEF LocksRight
<1>5. run'[r].task \in lockConns'
  BY <1>1, <1>2, <1>4 DEF LocksKept
<1>6. \A q \in Locked' : run'[q].task = run'[r].task => q = r
  BY <1>1, <1>4
<1>7. ASSUME r \in Inside'
      PROVE  lockFile'[Owner(r)].job = run[r].job
  BY <1>2, <1>4, <1>7 DEF LocksKept
<1> QED
  BY <1>1, <1>2, <1>5, <1>6, <1>7

\* The runs past the advisory lock after the step are some of those before it, and `who` is not
\* one of them.
OnlyLeave(who) ==
    /\ \A q \in Locked' : /\ q \in Locked /\ q # who
                          /\ run'[q].task = run[q].task /\ run'[q].job = run[q].job
    /\ Inside' \subseteq Inside

\* ReleaseWorkspaceLock frees the lock of another run of the task only with its workspace
\* counted as taken, and that of a run of another task not at all.
LEMMA ReleaseKeepsLocks ==
    ASSUME WorkspaceTypeOK, JobsNamed, NEW t \in Tasks, NEW who,
           ReleaseWorkspaceLock(t, who), OnlyLeave(who)
    PROVE  LocksKept
<1> DEFINE w == WorkspaceOwnerID(t)
<1>0. w \in Tasks
  BY OwnersAreTasks
<1>1. taken \subseteq taken'
  BY DEF ReleaseWorkspaceLock
<1>2. \A q \in Locked' : q \in Locked /\ run'[q].task = run[q].task /\ run'[q].job = run[q].job
  BY DEF OnlyLeave
<1>3. ASSUME NEW q \in Locked', Owner(q) \notin taken', Holds(t)
      PROVE  Owner(q) # w
  BY <1>3 DEF ReleaseWorkspaceLock, OnlyLeave
<1>4. ASSUME NEW q \in Locked', Owner(q) \notin taken', run[q].task \in lockConns
      PROVE  run[q].task \in lockConns'
  <2>1. run[q].task # t
    BY <1>3, <1>4 DEF Owner, Holds
  <2> QED
    BY <1>4, <2>1 DEF ReleaseWorkspaceLock, ReleaseAdvisoryLock
<1>5. ASSUME NEW q \in Inside', Owner(q) \notin taken'
      PROVE  q \in Inside /\ lockFile'[Owner(q)].job = lockFile[Owner(q)].job
  <2>1. q \in Locked' /\ q \in Inside
    BY <1>5 DEF OnlyLeave, Inside, Locked
  <2>2. Owner(q) \in Tasks
    BY <2>1, RunsHaveOwners DEF Inside
  <2>3. CASE Holds(t)
    <3>1. Owner(q) # w
      BY <1>3, <1>5, <2>1, <2>3
    <3> QED
      BY <1>0, <2>1, <2>2, <2>3, <3>1 DEF ReleaseWorkspaceLock, WorkspaceTypeOK
  <2>4. CASE ~Holds(t)
    BY <2>1, <2>4 DEF ReleaseWorkspaceLock
  <2> QED
    BY <2>3, <2>4
<1> QED
  BY <1>1, <1>2, <1>4, <1>5 DEF LocksKept

\* No step lets a second run past the lock of a workspace unnoticed.
LEMMA LocksNext ==
    ASSUME WsInv, [WorkspaceNext]_wsVars
    PROVE  LocksRight'
<1>0. WorkspaceTypeOK /\ JobsNamed /\ ClonesAtOwners /\ LocksRight
  BY DEF WsInv
<1>1. ASSUME NEW r \in Runs, NEW pc, Goto(r, pc), pc \in {"fail", "exit"}
      PROVE  OnlyLeave(r)
  BY <1>0, <1>1, GotoMoves DEF OnlyLeave, Locked, Inside
<1>2. ASSUME NEW r \in Runs, NEW pc, Goto(r, pc), r \in Locked,
             pc \in {"remove", "create", "prepare", "work"}
      PROVE  /\ Locked' = Locked
             /\ \A q \in Locked' : run'[q].task = run[q].task /\ run'[q].job = run[q].job
             /\ Inside' = IF pc \in {"prepare", "work"} THEN Inside \cup {r} ELSE Inside \ {r}
  <2>1. /\ run'[r].pc = pc
        /\ \A q \in Runs : q # r => run'[q] = run[q]
        /\ \A q \in Runs : run'[q].task = run[q].task /\ run'[q].job = run[q].job
    BY <1>0, <1>2, GotoMoves
  <2>2. \A q : q \in Locked' <=> q \in Locked
    BY <1>2, <2>1 DEF Locked
  <2>3. \A q : q \in Inside' <=> q \in IF pc \in {"prepare", "work"} THEN Inside \cup {r} ELSE Inside \ {r}
    BY <1>2, <2>1 DEF Inside
  <2>4. \A q \in Locked' : run'[q].task = run[q].task /\ run'[q].job = run[q].job
    BY <2>1 DEF Locked
  <2> QED
    BY <2>2, <2>3, <2>4
<1>3. ASSUME NEW who, OnlyLeave(who), UNCHANGED <<taken, lockConns, lockFile>>
      PROVE  LocksKept
  BY <1>3 DEF OnlyLeave, LocksKept
<1>4. ASSUME UNCHANGED run PROVE OnlyLeave(None)
  <2>1. /\ Locked' = Locked /\ Inside' = Inside
        /\ \A q \in Locked' : run'[q].task = run[q].task /\ run'[q].job = run[q].job
    BY <1>4 DEF Locked, Inside
  <2>2. OnlyLeave(None)
    BY <2>1, WorkspaceAssumption DEF OnlyLeave, Locked
  <2> QED
    BY <2>2
<1>5. ASSUME NEW r \in Runs, NEW t \in Tasks, StartRun(r, t)
      PROVE  LocksKept
  <2>1. /\ run[r].pc = "free" /\ run'[r].pc = "lock"
        /\ \A q \in Runs : q # r => run'[q] = run[q]
    BY <1>0, <1>5 DEF StartRun, Idle, WorkspaceTypeOK
  <2>2. OnlyLeave(r)
    BY <2>1 DEF OnlyLeave, Locked, Inside
  <2> QED
    BY <1>3, <1>5, <2>2 DEF StartRun, lockVars
<1>6. ASSUME NEW r \in Runs, AcquireAdvisoryLock(r)
      PROVE  LocksRight'
  <2> DEFINE t == run[r].task
  <2>1. CASE ~TryAdvisoryLock(t)
    <3>1. OnlyLeave(r) /\ UNCHANGED <<taken, lockConns, lockFile>>
      BY <1>1, <1>6, <2>1 DEF AcquireAdvisoryLock
    <3> QED
      BY <1>0, <1>3, <3>1, LocksStayRight
  <2>2. CASE TryAdvisoryLock(t)
    <3>1. /\ run[r].pc = "lock" /\ Goto(r, "read") /\ t \notin lockConns
          /\ lockConns' = lockConns \cup {t} /\ lockFile' = lockFile /\ taken' = taken
      BY <1>6, <2>2 DEF AcquireAdvisoryLock, TryAdvisoryLock
    <3>2. /\ run'[r].pc = "read"
          /\ \A q \in Runs : q # r => run'[q] = run[q]
          /\ \A q \in Runs : run'[q].task = run[q].task /\ run'[q].job = run[q].job
      BY <1>0, <3>1, GotoMoves
    <3>3. /\ \A q \in Locked' : q \in Runs /\ (q \in Locked \/ q = r)
          /\ r \notin Locked /\ r \notin Inside' /\ \A q \in Inside' : q \in Inside
      BY <3>1, <3>2 DEF Locked, Inside
    <3>4. \A q \in Runs : Owner(q)' = Owner(q)
      BY <3>2 DEF Owner
    <3>5. \A q \in Locked : Owner(q) \notin taken => run[q].task # t
      BY <1>0, <3>1 DEF LocksRight
    <3>6. \A q \in Locked : run[q].task = t => Owner(q) = Owner(r)
      BY DEF Owner
    <3> HIDE DEF t
    <3> SUFFICES ASSUME NEW p \in Locked', Owner(p)' \notin taken'
                 PROVE  /\ run'[p].task \in lockConns'
                        /\ \A q \in Locked' : run'[q].task = run'[p].task => q = p
                        /\ p \in Inside' => lockFile'[Owner(p)'].job = run'[p].job
      BY DEF LocksRight
    <3>7. CASE p = r
      <4>1. run'[p].task = t
        BY <3>2, <3>7 DEF t
      <4>2. \A q \in Locked' : run'[q].task = t => q = r
        BY <3>1, <3>2, <3>3, <3>4, <3>5, <3>6, <3>7
      <4> QED
        BY <3>1, <3>3, <3>7, <4>1, <4>2
    <3>8. CASE p # r
      <4>1. p \in Locked /\ Owner(p) \notin taken /\ p \in Runs
        BY <3>1, <3>3, <3>4, <3>8
      <4>2. /\ run[p].task \in lockConns
            /\ \A q \in Locked : run[q].task = run[p].task => q = p
            /\ p \in Inside => lockFile[Owner(p)].job = run[p].job
        BY <1>0, <4>1 DEF LocksRight
      <4>3. run[p].task # t
        BY <3>5, <4>1
      <4>4. \A q \in Locked' : run'[q].task = run'[p].task => q = p
        BY <3>2, <3>3, <4>1, <4>2, <4>3 DEF t
      <4> QED
        BY <3>1, <3>2, <3>3, <3>4, <4>1, <4>2, <4>4
    <3> QED
      BY <3>7, <3>8
  <2> QED
    BY <2>1, <2>2
<1>7. ASSUME NEW r \in Runs, ReleaseAdvisoryLock(run[r].task), Goto(r, "fail"), r \in Locked,
             UNCHANGED <<taken, lockFile>>
      PROVE  LocksKept
  <2>1. OnlyLeave(r)
    BY <1>1, <1>7
  <2>2. ASSUME NEW q \in Locked', Owner(q) \notin taken', run[q].task \in lockConns
        PROVE  run[q].task \in lockConns'
    <3>1. q \in Locked /\ q # r /\ Owner(q) \notin taken
      BY <1>7, <2>1, <2>2 DEF OnlyLeave
    <3>2. run[q].task # run[r].task
      BY <1>0, <1>7, <3>1 DEF LocksRight
    <3> QED
      BY <1>7, <2>2, <3>2 DEF ReleaseAdvisoryLock
  <2> QED
    BY <1>7, <2>1, <2>2 DEF OnlyLeave, LocksKept
<1>8. ASSUME NEW r \in Runs, ReadLockFile(r)
      PROVE  LocksKept
  <2>0. r \in Locked /\ r \notin Inside /\ UNCHANGED <<taken, lockFile>>
    BY <1>8 DEF ReadLockFile, Locked, Inside
  <2>1. \/ lockFile[Owner(r)].job = run[r].job /\ Goto(r, "prepare") /\ lockConns' = lockConns
        \/ Goto(r, "create") /\ lockConns' = lockConns
        \/ Goto(r, "remove") /\ lockConns' = lockConns
        \/ Goto(r, "fail") /\ ReleaseAdvisoryLock(run[r].task)
    <3>1. lockFile[Owner(r)].expired \in BOOLEAN
      BY <1>0, <1>8, RunsHaveOwners DEF ReadLockFile, WorkspaceTypeOK
    <3> QED
      BY <1>8, <3>1 DEF ReadLockFile
  <2>2. CASE lockFile[Owner(r)].job = run[r].job /\ Goto(r, "prepare") /\ lockConns' = lockConns
    <3>1. /\ Locked' = Locked /\ Inside' = Inside \cup {r}
          /\ \A q \in Locked' : run'[q].task = run[q].task /\ run'[q].job = run[q].job
      BY <1>2, <2>0, <2>2
    <3> QED
      BY <2>0, <2>2, <3>1 DEF LocksKept
  <2>3. CASE (Goto(r, "create") \/ Goto(r, "remove")) /\ lockConns' = lockConns
    <3>1. /\ Locked' = Locked /\ Inside' = Inside \ {r}
          /\ \A q \in Locked' : run'[q].task = run[q].task /\ run'[q].job = run[q].job
      BY <1>2, <2>0, <2>3
    <3> QED
      BY <2>0, <2>3, <3>1 DEF LocksKept
  <2>4. CASE Goto(r, "fail") /\ ReleaseAdvisoryLock(run[r].task)
    BY <1>7, <2>0, <2>4
  <2> QED
    BY <2>1, <2>2, <2>3, <2>4
<1>9. ASSUME NEW r \in Runs, RemoveStaleFile(r)
      PROVE  LocksKept
  <2>0. /\ r \in Locked /\ r \notin Inside /\ Goto(r, "create") /\ lockConns' = lockConns
        /\ lockFile' = [lockFile EXCEPT ![Owner(r)] = NoFile]
    BY <1>9 DEF RemoveStaleFile, Locked, Inside
  <2>1. /\ Locked' = Locked /\ Inside' = Inside \ {r}
        /\ \A q \in Locked' : run'[q].task = run[q].task /\ run'[q].job = run[q].job
    BY <1>2, <2>0
  <2>2. \A q \in Locked : q # r /\ Owner(q) = Owner(r) => Owner(q) \in taken'
    BY <1>9 DEF RemoveStaleFile
  <2>3. taken \subseteq taken'
    BY <1>9 DEF RemoveStaleFile
  <2>4. \A q \in Inside : q \in Locked /\ Owner(q) \in Tasks
    BY <1>0, RunsHaveOwners DEF Inside, Locked
  <2>5. ASSUME NEW q \in Inside', Owner(q) \notin taken'
        PROVE  q \in Inside /\ lockFile'[Owner(q)].job = lockFile[Owner(q)].job
    BY <1>0, <2>0, <2>1, <2>2, <2>4, <2>5 DEF WorkspaceTypeOK
  <2> QED
    BY <2>0, <2>1, <2>3, <2>5 DEF LocksKept
<1>10. ASSUME NEW r \in Runs, CreateLockFile(r)
       PROVE  LocksKept
  <2>0. r \in Locked /\ r \notin Inside /\ taken' = taken
    BY <1>10 DEF CreateLockFile, Locked, Inside
  <2>1. CASE lockFile[Owner(r)].job # 0
    BY <1>7, <1>10, <2>0, <2>1 DEF CreateLockFile
  <2>2. CASE lockFile[Owner(r)].job = 0
    <3>1. /\ lockFile' = [lockFile EXCEPT ![Owner(r)] = [job |-> run[r].job, expired |-> FALSE]]
          /\ lockConns' = lockConns /\ Goto(r, "prepare")
      BY <1>10, <2>2 DEF CreateLockFile
    <3>2. /\ Locked' = Locked /\ Inside' = Inside \cup {r}
          /\ \A q \in Locked' : run'[q].task = run[q].task /\ run'[q].job = run[q].job
      BY <1>2, <2>0, <3>1
    <3>3. Owner(r) \in Tasks
      BY <1>0, <2>0, RunsHaveOwners DEF Locked
    <3>4. \A q \in Inside : Owner(q) \in Tasks
      BY <1>0, RunsHaveOwners DEF Inside
    <3>5. lockFile'[Owner(r)].job = run[r].job
      BY <1>0, <3>1, <3>3 DEF WorkspaceTypeOK
    <3>6. ASSUME NEW q \in Inside, Owner(q) \notin taken
          PROVE  lockFile'[Owner(q)].job = run[q].job
      <4>1. q \in Locked /\ run[q].job \in 1..MaxJobs
        BY <1>0, RunsHaveOwners DEF Inside, Locked
      <4>2. lockFile[Owner(q)].job = run[q].job
        BY <1>0, <3>6, <4>1 DEF LocksRight
      <4>3. Owner(q) # Owner(r)
        BY <2>2, <4>1, <4>2, WorkspaceAssumption
      <4> QED
        BY <1>0, <3>1, <3>3, <3>4, <3>6, <4>2, <4>3 DEF WorkspaceTypeOK
    <3> QED
      BY <2>0, <3>1, <3>2, <3>5, <3>6 DEF LocksKept
  <2> QED
    BY <2>1, <2>2
<1>11. ASSUME NEW r \in Runs, EnsureWorkspaceCloned(r)
       PROVE  LocksKept
  <2>0. r \in Locked /\ r \in Inside /\ UNCHANGED <<taken, lockConns, lockFile>>
    BY <1>11 DEF EnsureWorkspaceCloned, Locked, Inside
  <2>1. CASE Goto(r, "work")
    <3>1. /\ Locked' = Locked /\ Inside' = Inside
          /\ \A q \in Locked' : run'[q].task = run[q].task /\ run'[q].job = run[q].job
      BY <1>2, <2>0, <2>1
    <3> QED
      BY <2>0, <3>1 DEF LocksKept
  <2>2. CASE Goto(r, "fail")
    BY <1>1, <1>3, <2>0, <2>2
  <2> QED
    BY <1>11, <2>1, <2>2 DEF EnsureWorkspaceCloned
<1>12. ASSUME NEW r \in Runs, CodingStep(r) \/ Abort(r)
       PROVE  LocksKept
  <2>1. UNCHANGED <<taken, lockConns, lockFile>>
    BY <1>12 DEF CodingStep, Abort, lockVars
  <2>2. UNCHANGED run \/ Goto(r, "exit")
    BY <1>12 DEF CodingStep, Abort
  <2> QED
    BY <1>1, <1>3, <1>4, <2>1, <2>2
<1>13. ASSUME NEW r \in Runs, EndRun(r)
       PROVE  LocksKept
  <2>1. run[r].task \in Tasks
    BY <1>0, <1>13, RunsHaveOwners DEF EndRun
  <2>2. OnlyLeave(r) /\ ReleaseWorkspaceLock(run[r].task, r)
    BY <1>1, <1>13 DEF EndRun, CleanupWorkspaceAfterFinalState
  <2> QED
    BY <1>0, <2>1, <2>2, ReleaseKeepsLocks
<1>14. ASSUME NEW r \in Runs, ExitRun(r)
       PROVE  LocksKept
  <2>1. run[r].task \in Tasks /\ ReleaseWorkspaceLock(run[r].task, r)
    BY <1>0, <1>14, RunsHaveOwners DEF ExitRun
  <2>2. /\ run'[r].pc = "free"
        /\ \A q \in Runs : q # r => run'[q] = run[q]
    BY <1>0, <1>14 DEF ExitRun, Idle, WorkspaceTypeOK
  <2>3. OnlyLeave(r)
    BY <2>2 DEF OnlyLeave, Locked, Inside
  <2> QED
    BY <1>0, <2>1, <2>3, ReleaseKeepsLocks
<1>15. ASSUME NEW t \in Tasks, CancelJob(t)
       PROVE  LocksKept
  <2>1. \A q \in Runs : /\ run'[q].pc = run[q].pc /\ run'[q].task = run[q].task
                        /\ run'[q].job = run[q].job
    BY <1>0, <1>15 DEF CancelJob, WorkspaceTypeOK
  <2>2. OnlyLeave(None)
    BY <2>1, WorkspaceAssumption DEF OnlyLeave, Locked, Inside
  <2>3. ReleaseWorkspaceLock(t, None)
    BY <1>15 DEF CancelJob
  <2> QED
    BY <1>0, <2>2, <2>3, ReleaseKeepsLocks
<1>16. ASSUME NEW t \in Tasks, CleanupReleases(t)
       PROVE  LocksKept
  <2>1. ReleaseWorkspaceLock(t, None) /\ UNCHANGED run
    BY <1>16 DEF CleanupReleases
  <2> QED
    BY <1>0, <1>4, <2>1, ReleaseKeepsLocks
<1>17. ASSUME NEW t \in Tasks, CleanupDeletes(t) \/ PruneFinal(t)
       PROVE  LocksKept
  <2>1. UNCHANGED run /\ UNCHANGED <<taken, lockConns, lockFile>>
    BY <1>17 DEF CleanupDeletes, PruneFinal, lockVars
  <2> QED
    BY <1>3, <1>4, <2>1
<1>18. ASSUME NEW t \in Tasks, FileExpires(t)
       PROVE  LocksKept
  <2>1. UNCHANGED run /\ UNCHANGED <<taken, lockConns>>
    BY <1>18 DEF FileExpires
  <2>2. \A w \in Tasks : lockFile'[w].job = lockFile[w].job
    BY <1>0, <1>18 DEF FileExpires, WorkspaceTypeOK
  <2>3. \A q \in Inside : Owner(q) \in Tasks
    BY <1>0, RunsHaveOwners DEF Inside
  <2> QED
    BY <1>4, <2>1, <2>2, <2>3 DEF OnlyLeave, LocksKept
<1>19. ASSUME NEW t \in Tasks, RemoveWorkspace(t)
       PROVE  LocksKept
  <2>1. UNCHANGED run /\ taken \subseteq taken' /\ lockConns' = lockConns \ {t}
    BY <1>19 DEF RemoveWorkspace, ReleaseAdvisoryLock
  <2>2. OnlyLeave(None)
    BY <1>4, <2>1
  <2>3. WorkspaceOwnerID(t) = t
    BY <1>0, <1>19, OwnersAreTasks DEF RemoveWorkspace, ClonesAtOwners
  <2>4. \A q \in Locked : Owner(q) = t => Owner(q) \in taken'
    BY <1>19 DEF RemoveWorkspace
  <2>5. ASSUME NEW q \in Locked', Owner(q) \notin taken', run[q].task \in lockConns
        PROVE  run[q].task \in lockConns'
    <3>1. Owner(q) # t
      BY <2>2, <2>4, <2>5 DEF OnlyLeave
    <3>2. run[q].task # t
      BY <2>3, <3>1 DEF Owner
    <3> QED
      BY <2>1, <2>5, <3>2
  <2>6. ASSUME NEW q \in Inside', Owner(q) \notin taken'
        PROVE  q \in Inside /\ lockFile'[Owner(q)].job = lockFile[Owner(q)].job
    <3>1. q \in Inside /\ q \in Locked
      BY <2>2, <2>6 DEF OnlyLeave, Inside, Locked
    <3>2. Owner(q) \in Tasks /\ Owner(q) # t
      BY <1>0, <2>4, <2>6, <3>1, RunsHaveOwners DEF Inside
    <3> QED
      BY <1>0, <1>19, <3>1, <3>2 DEF RemoveWorkspace, WorkspaceTypeOK
  <2> QED
    BY <2>1, <2>2, <2>5, <2>6 DEF OnlyLeave, LocksKept
<1>20. CASE Crash
  <2>1. Locked' = {}
    BY <1>20 DEF Crash, Locked, Idle
  <2> QED
    BY <2>1 DEF LocksRight
<1>21. CASE UNCHANGED wsVars
  <2>1. UNCHANGED run /\ UNCHANGED <<taken, lockConns, lockFile>>
    BY <1>21 DEF wsVars, lockVars
  <2> QED
    BY <1>0, <1>3, <1>4, <2>1, LocksStayRight
<1>22. ASSUME NEW r \in Runs, RunStep(r)
       PROVE  LocksRight'
  BY <1>0, <1>6, <1>8, <1>9, <1>10, <1>11, <1>12, <1>13, <1>14, <1>22, LocksStayRight DEF RunStep
<1>23. ASSUME NEW t \in Tasks, \/ FileExpires(t) \/ CancelJob(t) \/ CleanupReleases(t)
                               \/ CleanupDeletes(t) \/ PruneFinal(t) \/ RemoveWorkspace(t)
       PROVE  LocksRight'
  BY <1>0, <1>15, <1>16, <1>17, <1>18, <1>19, <1>23, LocksStayRight
<1> QED
  BY <1>0, <1>5, <1>20, <1>21, <1>22, <1>23, LocksStayRight DEF WorkspaceNext

\* The parts of the type invariant.
LockTypes ==
    /\ lockConns \subseteq Tasks /\ lockCancels \in [Tasks -> (Runs \X (1..MaxJobs)) \cup {None}]
    /\ beating \subseteq Runs \X (1..MaxJobs)
    /\ lockFile \in [Tasks -> [job : 0..MaxJobs, expired : BOOLEAN]]
CloneTypes == clone \in [Tasks -> [there : BOOLEAN, code : SUBSET Tasks, loose : SUBSET Tasks]]

Typed == run \in [Runs -> RunState] /\ LockTypes /\ CloneTypes

LEMMA ReleaseTypes ==
    ASSUME LockTypes, NEW t \in Tasks, NEW who, ReleaseWorkspaceLock(t, who)
    PROVE  LockTypes'
<1>1. WorkspaceOwnerID(t) \in Tasks /\ NoFile \in [job : 0..MaxJobs, expired : BOOLEAN]
  BY OwnersAreTasks, WorkspaceAssumption DEF NoFile
<1> QED
  BY <1>1 DEF LockTypes, ReleaseWorkspaceLock, ReleaseAdvisoryLock

\* Every step keeps the types.
LEMMA WorkspaceTypes ==
    ASSUME WorkspaceTypeOK, JobsNamed, [WorkspaceNext]_wsVars
    PROVE  WorkspaceTypeOK'
<1>0. run \in [Runs -> RunState] /\ LockTypes /\ CloneTypes
  BY DEF WorkspaceTypeOK, RunState, LockTypes, CloneTypes
<1>1. Idle \in RunState
  BY WorkspaceAssumption DEF Idle, RunState
<1>2. ASSUME NEW r \in Runs, NEW pc \in {"read", "remove", "create", "prepare", "work", "fail", "exit"},
             Goto(r, pc)
      PROVE  run' \in [Runs -> RunState]
  BY <1>0, <1>2 DEF Goto, RunState
<1>3. ASSUME UNCHANGED <<lockConns, lockCancels, beating, lockFile>>
      PROVE  LockTypes'
  BY <1>0, <1>3 DEF LockTypes
<1>4. ASSUME UNCHANGED clone PROVE CloneTypes'
  BY <1>0, <1>4 DEF CloneTypes
<1>5. ASSUME NEW r \in Runs, run[r].pc # "free"
      PROVE  run[r].task \in Tasks /\ run[r].job \in 1..MaxJobs /\ Owner(r) \in Tasks
  BY <1>5, RunsHaveOwners
<1>6. NoFile \in [job : 0..MaxJobs, expired : BOOLEAN]
  BY WorkspaceAssumption DEF NoFile
<1>7. ASSUME NEW r \in Runs, NEW t \in Tasks, StartRun(r, t)
      PROVE  Typed'
  <2>1. PICK j \in IF OpenJobs(t) = {} THEN {Len(jobs) + 1} ELSE OpenJobs(t) :
               /\ j <= MaxJobs
               /\ jobs' = IF j \in DOMAIN jobs THEN jobs ELSE Append(jobs, [task |-> t, open |-> TRUE])
               /\ run' = [run EXCEPT ![r] = [Idle EXCEPT !.pc = "lock", !.task = t, !.job = j]]
    BY <1>7, Zenon DEF StartRun
  <2>2. jobs \in Seq(JobRow) /\ DOMAIN jobs = 1..Len(jobs) /\ Len(jobs) \in Nat
    <3>1. jobs \in Seq(JobRow)
      BY DEF JobsNamed
    <3> QED
      BY <3>1
  <2>3. j \in 0..MaxJobs
    BY <2>1, <2>2, WorkspaceAssumption DEF OpenJobs
  <2>4. run' \in [Runs -> RunState]
    BY <1>0, <1>1, <2>1, <2>3 DEF RunState
  <2> QED
    BY <1>3, <1>4, <1>7, <2>4 DEF StartRun, lockVars, Typed
<1>8. ASSUME NEW r \in Runs, AcquireAdvisoryLock(r)
      PROVE  Typed'
  <2>1. run' \in [Runs -> RunState] /\ UNCHANGED clone
    BY <1>2, <1>8 DEF AcquireAdvisoryLock, fileVars
  <2>2. LockTypes'
    BY <1>0, <1>5, <1>8 DEF AcquireAdvisoryLock, LockTypes
  <2> QED
    BY <1>4, <2>1, <2>2 DEF Typed
<1>9. ASSUME NEW r \in Runs, ReadLockFile(r)
      PROVE  Typed'
  <2>0. lockFile[Owner(r)].expired \in BOOLEAN
    BY <1>0, <1>5, <1>9 DEF ReadLockFile, LockTypes
  <2>1. run' \in [Runs -> RunState] /\ UNCHANGED clone
    BY <1>2, <1>9, <2>0 DEF ReadLockFile, fileVars
  <2>2. lockConns' \subseteq lockConns /\ UNCHANGED <<lockCancels, beating, lockFile>>
    BY <1>9, <2>0 DEF ReadLockFile, ReleaseAdvisoryLock
  <2> QED
    BY <1>0, <1>4, <2>1, <2>2 DEF LockTypes, Typed
<1>10. ASSUME NEW r \in Runs, RemoveStaleFile(r)
       PROVE  Typed'
  <2>1. run' \in [Runs -> RunState] /\ UNCHANGED clone
    BY <1>2, <1>10 DEF RemoveStaleFile, fileVars
  <2>2. LockTypes'
    BY <1>0, <1>5, <1>6, <1>10 DEF RemoveStaleFile, LockTypes
  <2> QED
    BY <1>4, <2>1, <2>2 DEF Typed
<1>11. ASSUME NEW r \in Runs, CreateLockFile(r)
       PROVE  Typed'
  <2>1. run' \in [Runs -> RunState] /\ UNCHANGED clone
    BY <1>2, <1>11 DEF CreateLockFile, fileVars
  <2>2. run[r].task \in Tasks /\ run[r].job \in 1..MaxJobs /\ Owner(r) \in Tasks
    BY <1>5, <1>11 DEF CreateLockFile
  <2>3. Heart(r) \in Runs \X (1..MaxJobs)
    BY <2>2 DEF Heart
  <2>4. [job |-> run[r].job, expired |-> FALSE] \in [job : 0..MaxJobs, expired : BOOLEAN]
    BY <2>2, WorkspaceAssumption
  <2>5. CASE lockFile[Owner(r)].job = 0
    <3>1. /\ lockFile' = [lockFile EXCEPT ![Owner(r)] = [job |-> run[r].job, expired |-> FALSE]]
          /\ lockCancels' = [lockCancels EXCEPT ![run[r].task] = Heart(r)]
          /\ beating' = beating \cup {Heart(r)} /\ lockConns' = lockConns
      BY <1>11, <2>5 DEF CreateLockFile
    <3>2. LockTypes'
      BY <1>0, <2>2, <2>3, <2>4, <3>1 DEF LockTypes
    <3> QED
      BY <1>4, <2>1, <3>2 DEF Typed
  <2>6. CASE lockFile[Owner(r)].job # 0
    <3>1. lockConns' \subseteq lockConns /\ UNCHANGED <<lockFile, lockCancels, beating>>
      BY <1>11, <2>6 DEF CreateLockFile, ReleaseAdvisoryLock
    <3> QED
      BY <1>0, <1>4, <2>1, <3>1 DEF LockTypes, Typed
  <2> QED
    BY <2>5, <2>6
<1>12. ASSUME NEW r \in Runs, EnsureWorkspaceCloned(r)
       PROVE  Typed'
  <2>1. run' \in [Runs -> RunState] /\ UNCHANGED <<lockConns, lockCancels, beating, lockFile>>
    BY <1>2, <1>12 DEF EnsureWorkspaceCloned
  <2>2. Owner(r) \in Tasks
    BY <1>5, <1>12 DEF EnsureWorkspaceCloned
  <2>3. clone[Owner(r)] \in [there : BOOLEAN, code : SUBSET Tasks, loose : SUBSET Tasks]
    BY <1>0, <2>2 DEF CloneTypes
  <2>4. ResetExistingWorkspace(clone[Owner(r)])
            \in [there : BOOLEAN, code : SUBSET Tasks, loose : SUBSET Tasks]
    BY <2>3 DEF ResetExistingWorkspace
  <2>5. [there |-> TRUE, loose |-> {},
         code |-> IF HasWorkToPreserve(run[r].task) THEN PatchArtifacts(run[r].task) ELSE {}]
            \in [there : BOOLEAN, code : SUBSET Tasks, loose : SUBSET Tasks]
    BY DEF PatchArtifacts
  <2>6. CloneTypes'
    BY <1>0, <1>12, <2>2, <2>3, <2>4, <2>5, ZenonT(60) DEF EnsureWorkspaceCloned, CloneTypes
  <2> QED
    BY <1>3, <2>1, <2>6 DEF Typed
<1>13. ASSUME NEW r \in Runs, CodingStep(r)
       PROVE  Typed'
  <2>1. run' \in [Runs -> RunState] /\ UNCHANGED <<lockConns, lockCancels, beating, lockFile>>
    BY <1>0, <1>2, <1>13 DEF CodingStep, lockVars
  <2>2. run[r].task \in Tasks /\ Owner(r) \in Tasks
    BY <1>5, <1>13 DEF CodingStep
  <2>3. ASSUME NEW A \in SUBSET Tasks, NEW B \in SUBSET Tasks,
               clone' = [clone EXCEPT ![Owner(r)].code = A, ![Owner(r)].loose = B]
        PROVE  CloneTypes'
    <3> DEFINE T == [there : BOOLEAN, code : SUBSET Tasks, loose : SUBSET Tasks]
               c == [[clone[Owner(r)] EXCEPT !.code = A] EXCEPT !.loose = B]
    <3>1. clone \in [Tasks -> T]
      BY <1>0 DEF CloneTypes
    <3>2. c \in T
      <4>1. clone[Owner(r)] \in T
        BY <2>2, <3>1
      <4> HIDE DEF T
      <4> QED
        BY <2>3, <4>1 DEF T
    <3>3. clone' = [clone EXCEPT ![Owner(r)] = c]
      BY <2>2, <2>3, <3>1
    <3>4. clone' \in [Tasks -> T]
      <4> HIDE DEF T, c
      <4> QED
        BY <2>2, <3>1, <3>2, <3>3
    <3> QED
      BY <3>4 DEF CloneTypes
  <2>4. \E A, B \in SUBSET Tasks : clone' = [clone EXCEPT ![Owner(r)].code = A, ![Owner(r)].loose = B]
    <3> DEFINE c == clone[Owner(r)]
    <3>1. c.code \cup {run[r].task} \in SUBSET Tasks /\ c.loose \cup {run[r].task} \in SUBSET Tasks
          /\ c.loose \ {run[r].task} \in SUBSET Tasks
      BY <1>0, <2>2 DEF CloneTypes
    <3>2. \/ clone' = [clone EXCEPT ![Owner(r)].code = c.code \cup {run[r].task},
                                    ![Owner(r)].loose = c.loose \ {run[r].task}]
          \/ clone' = [clone EXCEPT ![Owner(r)].code = c.code \cup {run[r].task},
                                    ![Owner(r)].loose = c.loose \cup {run[r].task}]
      BY <1>13 DEF CodingStep
    <3> QED
      BY <3>1, <3>2, Zenon
  <2> QED
    BY <1>3, <2>1, <2>3, <2>4 DEF Typed
<1>14. ASSUME NEW r \in Runs, EndRun(r)
       PROVE  Typed'
  <2>1. run' \in [Runs -> RunState] /\ UNCHANGED clone
    BY <1>2, <1>14 DEF EndRun
  <2>2. run[r].task \in Tasks /\ ReleaseWorkspaceLock(run[r].task, r)
    BY <1>5, <1>14 DEF EndRun, CleanupWorkspaceAfterFinalState
  <2> QED
    BY <1>0, <1>4, <2>1, <2>2, ReleaseTypes DEF Typed
<1>15. ASSUME NEW r \in Runs, Abort(r)
       PROVE  Typed'
  BY <1>2, <1>3, <1>4, <1>15 DEF Abort, lockVars, fileVars, Typed
<1>16. ASSUME NEW r \in Runs, ExitRun(r)
       PROVE  Typed'
  <2>1. run' \in [Runs -> RunState] /\ UNCHANGED clone
    BY <1>0, <1>1, <1>16 DEF ExitRun, fileVars
  <2>2. run[r].task \in Tasks /\ ReleaseWorkspaceLock(run[r].task, r)
    BY <1>5, <1>16 DEF ExitRun
  <2> QED
    BY <1>0, <1>4, <2>1, <2>2, ReleaseTypes DEF Typed
<1>17. ASSUME NEW t \in Tasks, CancelJob(t)
       PROVE  Typed'
  <2>1. run' \in [Runs -> RunState]
    BY <1>0, <1>17 DEF CancelJob, RunState
  <2>2. UNCHANGED clone /\ ReleaseWorkspaceLock(t, None)
    BY <1>17 DEF CancelJob
  <2> QED
    BY <1>0, <1>4, <2>1, <2>2, ReleaseTypes DEF Typed
<1>18. ASSUME NEW t \in Tasks, CleanupReleases(t)
       PROVE  Typed'
  BY <1>0, <1>4, <1>18, ReleaseTypes DEF CleanupReleases, Typed
<1>19. ASSUME NEW t \in Tasks, FileExpires(t)
       PROVE  Typed'
  <2>1. LockTypes'
    BY <1>0, <1>19 DEF FileExpires, LockTypes
  <2> QED
    BY <1>0, <1>4, <1>19, <2>1 DEF FileExpires, fileVars, Typed
<1>20. ASSUME NEW t \in Tasks, CleanupDeletes(t) \/ PruneFinal(t)
       PROVE  Typed'
  <2>1. CloneTypes'
    <3>1. NoClone \in [there : BOOLEAN, code : SUBSET Tasks, loose : SUBSET Tasks]
      BY DEF NoClone
    <3>2. clone' = clone \/ clone' = [clone EXCEPT ![t] = NoClone]
      BY <1>20 DEF CleanupDeletes, PruneFinal
    <3> QED
      BY <1>0, <3>1, <3>2 DEF CloneTypes
  <2>2. UNCHANGED <<run, lockConns, lockCancels, beating, lockFile>>
    BY <1>20 DEF CleanupDeletes, PruneFinal, lockVars
  <2>3. LockTypes'
    BY <1>3, <2>2
  <2> QED
    BY <1>0, <2>1, <2>2, <2>3 DEF Typed
<1>21. ASSUME NEW t \in Tasks, RemoveWorkspace(t)
       PROVE  Typed'
  <2>1. CloneTypes'
    BY <1>0, <1>21 DEF RemoveWorkspace, NoClone, CloneTypes
  <2>2. LockTypes'
    BY <1>0, <1>6, <1>21 DEF RemoveWorkspace, ReleaseAdvisoryLock, LockTypes
  <2> QED
    BY <1>0, <1>21, <2>1, <2>2 DEF RemoveWorkspace, Typed
<1>22. ASSUME Crash PROVE Typed'
  <2>1. LockTypes'
    BY <1>0, <1>22 DEF Crash, LockTypes
  <2>2. run' = [r \in Runs |-> Idle] /\ UNCHANGED clone
    BY <1>22 DEF Crash
  <2>3. run' \in [Runs -> RunState]
    BY <1>1, <2>2
  <2> QED
    BY <1>4, <2>1, <2>2, <2>3 DEF Typed
<1>23. ASSUME UNCHANGED wsVars PROVE Typed'
  <2>1. UNCHANGED <<run, clone>> /\ UNCHANGED <<lockConns, lockCancels, beating, lockFile>>
    BY <1>23 DEF wsVars, lockVars, fileVars
  <2>2. LockTypes' /\ CloneTypes'
    BY <1>3, <1>4, <2>1
  <2> QED
    BY <1>0, <2>1, <2>2 DEF Typed
<1>24. ASSUME NEW r \in Runs, RunStep(r)
       PROVE  Typed'
  BY <1>8, <1>9, <1>10, <1>11, <1>12, <1>13, <1>14, <1>15, <1>16, <1>24 DEF RunStep
<1>25. ASSUME NEW t \in Tasks, \/ FileExpires(t) \/ CancelJob(t) \/ CleanupReleases(t)
                               \/ CleanupDeletes(t) \/ PruneFinal(t) \/ RemoveWorkspace(t)
       PROVE  Typed'
  BY <1>17, <1>18, <1>19, <1>20, <1>21, <1>25
<1>26. Typed'
  BY <1>7, <1>22, <1>23, <1>24, <1>25 DEF WorkspaceNext
<1> QED
  BY <1>26 DEF Typed, WorkspaceTypeOK, RunState, LockTypes, CloneTypes

\* The invariant holds at the start and every step keeps it.
LEMMA WsInvariant == WorkspaceSpec => []WsInv
<1>1. WorkspaceInit => WsInv
  <2> SUFFICES ASSUME WorkspaceInit PROVE WsInv
    OBVIOUS
  <2>1. Live = {} /\ Locked = {} /\ jobs \in Seq(JobRow)
    BY DEF WorkspaceInit, Live, Locked, Idle
  <2>2. ClonesAtOwners
    BY DEF WorkspaceInit, ClonesAtOwners, NoClone
  <2>3. WorkspaceTypeOK
    BY WorkspaceAssumption DEF WorkspaceInit, WorkspaceTypeOK, Idle, NoFile, NoClone
  <2> QED
    BY <2>1, <2>2, <2>3 DEF WsInv, JobsNamed, LocksRight
<1>2. WsInv /\ [WorkspaceNext]_wsVars => WsInv'
  BY WorkspaceTypes, JobsNamedKept, ClonesKept, LocksNext DEF WsInv
<1> QED
  BY <1>1, <1>2, PTL DEF WorkspaceSpec

\* For any number of tasks, runs and jobs, two runs are inside one workspace only
\* where the lock of the workspace was taken away under a run that had it.
THEOREM WorkspacesExclusive == WorkspaceSpec => []WorkspaceExclusive
<1>1. WsInv => WorkspaceExclusive
  <2> SUFFICES ASSUME WsInv, NEW r \in Inside, NEW q \in Inside, Owner(r) = Owner(q),
                      Owner(r) \notin taken
               PROVE  r = q
    BY DEF WorkspaceExclusive
  <2>1. r \in Locked /\ q \in Locked /\ r \in Live /\ q \in Live
    BY DEF Inside, Locked, Live
  <2>2. run[r].job = run[q].job
    BY <2>1 DEF WsInv, LocksRight
  <2>3. run[r].task = run[q].task
    BY <2>1, <2>2 DEF WsInv, JobsNamed
  <2> QED
    BY <2>1, <2>3 DEF WsInv, LocksRight
<1> QED
  BY <1>1, WsInvariant, PTL

\* For any number of tasks, the code of a coding step that succeeded or paused leaves the
\* workspace only with the clone, or uncommitted when the workspace is reset for the parent.
THEOREM ResumesKeepWork == WorkspaceSpec => ResumeKeepsWork
<1> DEFINE Keeps(t) ==
      LET w == WorkspaceOwnerID(t) IN
      t \in clone[w].code /\ checkpoint[t] \in {"success", "paused"}
      => \/ t \in clone'[w].code
         \/ ~clone'[w].there
         \/ ParentTaskID[t] # None /\ t \in clone[w].loose
<1>1. ASSUME WsInv, [WorkspaceNext]_wsVars, NEW t \in Tasks
      PROVE  Keeps(t)
  <2> DEFINE w == WorkspaceOwnerID(t)
  <2>0. /\ WorkspaceTypeOK /\ JobsNamed /\ w \in Tasks
        /\ clone \in [Tasks -> [there : BOOLEAN, code : SUBSET Tasks, loose : SUBSET Tasks]]
        /\ ~clone[w].there => clone[w].code = {}
        /\ ParentTaskID[t] = None => w = t
    BY <1>1, OwnersAreTasks DEF WsInv, WorkspaceTypeOK, ClonesAtOwners
  <2>1. ASSUME UNCHANGED clone PROVE Keeps(t)
    BY <2>1
  <2>2. ASSUME NEW r \in Runs, EnsureWorkspaceCloned(r)
        PROVE  Keeps(t)
    <3> DEFINE o == Owner(r)
    <3>1. run[r].task \in Tasks /\ o \in Tasks
      BY <2>0, <2>2, RunsHaveOwners DEF EnsureWorkspaceCloned
    <3>2. CASE w # o
      <4>1. clone'[w] = clone[w]
        BY <2>0, <2>2, <3>1, <3>2 DEF EnsureWorkspaceCloned
      <4> QED
        BY <4>1
    <3>3. CASE ~clone[w].there
      BY <2>0, <3>3
    <3>4. CASE w = o /\ clone[w].there /\ ~(HasWorkToPreserve(run[r].task) \/ ParentTaskID[run[r].task] # None)
      <4>1. o = run[r].task
        BY <3>1, <3>4, OwnersAreTasks DEF Owner
      <4>2. clone'[w] = ResetExistingWorkspace(clone[w]) \/ UNCHANGED clone
        BY <2>0, <2>2, <3>1, <3>4 DEF EnsureWorkspaceCloned
      <4>3. ResetExistingWorkspace(clone[w]).code = clone[w].code \ clone[w].loose
        BY <2>0 DEF ResetExistingWorkspace
      <4>4. CASE checkpoint[t] \in {"success", "paused"}
        <5>1. ParentTaskID[t] # None
          BY <2>0, <3>4, <4>1, <4>4 DEF HasWorkToPreserve
        <5> QED
          BY <2>1, <4>2, <4>3, <5>1
      <4> QED
        BY <4>4
    <3>5. CASE w = o /\ clone[w].there /\ (HasWorkToPreserve(run[r].task) \/ ParentTaskID[run[r].task] # None)
      <4>1. clone'[w] = clone[w]
        BY <2>0, <2>2, <3>1, <3>5 DEF EnsureWorkspaceCloned
      <4> QED
        BY <4>1
    <3> QED
      BY <3>2, <3>3, <3>4, <3>5
  <2>3. ASSUME NEW r \in Runs, CodingStep(r)
        PROVE  Keeps(t)
    <3>1. Owner(r) \in Tasks
      BY <2>0, <2>3, RunsHaveOwners DEF CodingStep
    <3>2. clone[w].code \subseteq clone'[w].code
      <4>1. ASSUME NEW A, NEW B, clone[Owner(r)].code \subseteq A,
                   clone' = [clone EXCEPT ![Owner(r)].code = A, ![Owner(r)].loose = B]
            PROVE  clone[w].code \subseteq clone'[w].code
        <5>1. CASE w = Owner(r)
          BY <2>0, <4>1, <5>1
        <5>2. CASE w # Owner(r)
          BY <2>0, <3>1, <4>1, <5>2
        <5> QED
          BY <5>1, <5>2
      <4>2. \E A, B : /\ clone[Owner(r)].code \subseteq A
                      /\ clone' = [clone EXCEPT ![Owner(r)].code = A, ![Owner(r)].loose = B]
        <5> DEFINE c == clone[Owner(r)]
        <5>1. c.code \subseteq c.code \cup {run[r].task}
          OBVIOUS
        <5>2. \/ clone' = [clone EXCEPT ![Owner(r)].code = c.code \cup {run[r].task},
                                        ![Owner(r)].loose = c.loose \ {run[r].task}]
              \/ clone' = [clone EXCEPT ![Owner(r)].code = c.code \cup {run[r].task},
                                        ![Owner(r)].loose = c.loose \cup {run[r].task}]
          BY <2>3 DEF CodingStep
        <5> QED
          BY <5>1, <5>2, Zenon
      <4> QED
        BY <4>1, <4>2
    <3> QED
      BY <3>2
  <2>4. ASSUME NEW x \in Tasks, clone' = [clone EXCEPT ![x] = NoClone]
        PROVE  Keeps(t)
    <3>1. clone'[w] = clone[w] \/ ~clone'[w].there
      BY <2>0, <2>4 DEF NoClone
    <3> QED
      BY <3>1
  <2>5. \/ UNCHANGED clone
        \/ \E r \in Runs : EnsureWorkspaceCloned(r) \/ CodingStep(r)
        \/ \E x \in Tasks : clone' = [clone EXCEPT ![x] = NoClone]
    <3>1. ASSUME NEW r \in Runs, NEW x \in Tasks, StartRun(r, x) PROVE UNCHANGED clone
      BY <3>1 DEF StartRun
    <3>2. ASSUME NEW r \in Runs, RunStep(r)
          PROVE  UNCHANGED clone \/ EnsureWorkspaceCloned(r) \/ CodingStep(r)
      BY <3>2 DEF RunStep, AcquireAdvisoryLock, ReadLockFile, RemoveStaleFile, CreateLockFile,
                  EndRun, Abort, ExitRun, fileVars
    <3>3. ASSUME NEW x \in Tasks, FileExpires(x) \/ CancelJob(x) \/ CleanupReleases(x) \/ PruneFinal(x)
          PROVE  UNCHANGED clone
      BY <3>3 DEF FileExpires, CancelJob, CleanupReleases, PruneFinal, fileVars
    <3>4. ASSUME NEW x \in Tasks, CleanupDeletes(x) \/ RemoveWorkspace(x)
          PROVE  clone' = [clone EXCEPT ![x] = NoClone]
      BY <3>4 DEF CleanupDeletes, RemoveWorkspace
    <3>5. CASE Crash \/ UNCHANGED wsVars
      BY <3>5 DEF Crash, wsVars, fileVars
    <3> QED
      BY <1>1, <3>1, <3>2, <3>3, <3>4, <3>5 DEF WorkspaceNext
  <2> HIDE DEF Keeps
  <2> QED
    BY <2>1, <2>2, <2>3, <2>4, <2>5
<1>2. WsInv /\ [WorkspaceNext]_wsVars => [\A t \in Tasks : Keeps(t)]_wsVars
  BY <1>1
<1> QED
  BY <1>2, WsInvariant, PTL DEF WorkspaceSpec, ResumeKeepsWork

-----------------------------------------------------------------------------
\* The credentials of CLI steps

\* Every step that is busy has a profile and a credential; unless two steps resolved the shared runner
\* at once, it is the one the runner names.
BlameInv ==
    /\ \A s \in Busy : step[s].cred \in Creds /\ step[s].ref \in Refs
    /\ ~confused => \A s \in Busy : step[s].ref = runner.ref /\ step[s].cred = runner.cred

CliInv == CliTypeOK /\ BlameInv

\* The first of some places is one of them.
LEMMA FirstPlace ==
    ASSUME NEW S, S \subseteq Nat, S # {}
    PROVE  First(S) \in S
<1>1. PICK x \in S : \A y \in S : ~(<<y, x>> \in OpToRel(<, Nat))
    BY NatLessThanWellFounded, WFMin
<1>2. \A y \in S : ~(y < x)
    BY <1>1 DEF OpToRel
<1>3. \A y \in S : x <= y
    BY <1>2
<1> QED  BY <1>3 DEF First

\* What resolving a profile names is a credential or none.
LEMMA Candidate ==
    ASSUME CliAssumption, NEW ref \in Refs
    PROVE  ResolveCLICandidate(ref) \in Creds \cup {Nobody}
<1>1. SelectCredential(ref) \in Creds \cup {Nobody}
  <2>1. CASE ListActive(ref) = {}
      BY <2>1 DEF SelectCredential
  <2>2. CASE ListActive(ref) # {}
    <3>1. CredOrder \in Seq(Creds) /\ ListActive(ref) \subseteq DOMAIN CredOrder
        BY DEF ListActive, CliAssumption
    <3>2. DOMAIN CredOrder \subseteq Nat /\ \A i \in DOMAIN CredOrder : CredOrder[i] \in Creds
        BY <3>1
    <3>3. First(ListActive(ref)) \in DOMAIN CredOrder
        BY <2>2, <3>1, <3>2, FirstPlace
    <3> QED  BY <2>2, <3>2, <3>3 DEF SelectCredential
  <2> QED  BY <2>1, <2>2
<1>2. Pinned[ref] \in Creds \cup {Nobody}
    BY DEF CliAssumption
<1> QED  BY <1>1, <1>2 DEF ResolveCLICandidate

\* A list resolves to a profile that has a usable credential, or to one of two refusals.
LEMMA FromList ==
    ASSUME CliAssumption, NEW exclude
    PROVE  LET ref == ResolveFromProviderList(Rows, exclude)
           IN  \/ ref \in Refs /\ ResolveCLICandidate(ref) \in Creds
               \/ ref \in {"cooling", "failed"}
<1> DEFINE open == {i \in Rows : RefOrder[i] # exclude}
           usable == {i \in open : ResolveCLICandidate(RefOrder[i]) # Nobody}
<1>1. RefOrder \in Seq(Refs) /\ Rows \subseteq DOMAIN RefOrder
    BY DEF Rows, CliAssumption
<1>2. DOMAIN RefOrder \subseteq Nat /\ \A i \in DOMAIN RefOrder : RefOrder[i] \in Refs
    BY <1>1
<1>3. CASE usable # {}
  <2>1. usable \subseteq Nat
      BY <1>1, <1>2
  <2>2. First(usable) \in usable
      BY <1>3, <2>1, FirstPlace
  <2> DEFINE ref == RefOrder[First(usable)]
  <2>3. ref \in Refs /\ ResolveCLICandidate(ref) # Nobody
      BY <1>1, <1>2, <2>2
  <2>4. ResolveCLICandidate(ref) \in Creds
      BY <2>3, Candidate
  <2>5. ResolveFromProviderList(Rows, exclude) = ref
      BY <1>3 DEF ResolveFromProviderList
  <2> QED  BY <2>3, <2>4, <2>5
<1>4. CASE usable = {}
    BY <1>4 DEF ResolveFromProviderList
<1> QED  BY <1>3, <1>4

LEMMA Resolved ==
    ASSUME CliAssumption, NEW exclude
    PROVE  LET ref == IF exclude = Nobody THEN ResolveExecutionProvider(Nobody) ELSE ResolveReviewProvider(exclude)
           IN  \/ ref \in Refs /\ ResolveCLICandidate(ref) \in Creds
               \/ ref \in {"cooling", "failed", "ok"}
<1>1. ASSUME NEW e
      PROVE  \/ ResolveExecutionProvider(e) \in Refs /\ ResolveCLICandidate(ResolveExecutionProvider(e)) \in Creds
             \/ ResolveExecutionProvider(e) \in {"cooling", "failed"}
  <2> DEFINE ref == ResolveFromProviderList(Rows, e)
  <2>1. \/ ref \in Refs /\ ResolveCLICandidate(ref) \in Creds
        \/ ref \in {"cooling", "failed"}
      BY FromList
  <2>2. ResolveExecutionProvider(e) = ref \/ (ref = "cooling" /\ ResolveExecutionProvider(e) = "failed")
      BY DEF ResolveExecutionProvider, ResolveFromOrgDefault
  <2> QED  BY <2>1, <2>2
<1>2. CASE exclude = Nobody
    BY <1>1, <1>2
<1>3. CASE exclude # Nobody
  <2> DEFINE ref == ResolveExecutionProvider(exclude)
  <2>1. ResolveReviewProvider(exclude) = IF ref = "failed" THEN "ok" ELSE ref
      BY DEF ResolveReviewProvider
  <2>2. \/ ref \in Refs /\ ResolveCLICandidate(ref) \in Creds
        \/ ref \in {"cooling", "failed"}
      BY <1>1
  <2> QED  BY <1>3, <2>1, <2>2
<1> QED  BY <1>2, <1>3

\* A step that is not busy may change as it likes, and a busy one in anything but its profile
\* and credential.
LEMMA StepMoves ==
    ASSUME CliInv, NEW s \in CliStepIds, NEW st \in StepState, step' = [step EXCEPT ![s] = st],
           runner'.cred = runner.cred, runner'.ref = runner.ref, confused' = confused,
           \/ st.pc \in {"todo", "failed", "asked", "ok", "cooling"}
           \/ s \in Busy /\ st.ref = step[s].ref /\ st.cred = step[s].cred
    PROVE  step' \in [CliStepIds -> StepState] /\ BlameInv'
<1>1. step \in [CliStepIds -> StepState]
    BY DEF CliInv, CliTypeOK
<1>2. step' \in [CliStepIds -> StepState] /\ step'[s] = st /\ \A q \in CliStepIds \ {s} : step'[q] = step[q]
    BY <1>1
<1>3. \A q \in Busy' : q \in Busy /\ step'[q].ref = step[q].ref /\ step'[q].cred = step[q].cred
    BY <1>2 DEF Busy
<1> QED  BY <1>2, <1>3 DEF CliInv, BlameInv

LEMMA ResolveBlames ==
    ASSUME CliInv, CliAssumption, NEW s \in CliStepIds, ResolveConfig(s)
    PROVE  CliInv'
<1> DEFINE exclude == IF s = Review THEN runner.coder ELSE Nobody
           ref == IF exclude = Nobody THEN ResolveExecutionProvider(Nobody) ELSE ResolveReviewProvider(exclude)
           c == ResolveCLICandidate(ref)
<1>1. /\ step[s].pc = "todo"
      /\ \/ /\ ref \in Refs
            /\ step' = [step EXCEPT ![s] = [@ EXCEPT !.pc = "check", !.cred = c, !.ref = ref]]
            /\ runner' = Remember(ref, c, exclude)
            /\ confused' = (confused \/ (Busy # {} /\ <<ref, c>> # <<runner.ref, runner.cred>>))
         \/ /\ ref \notin Refs
            /\ step' = [step EXCEPT ![s].pc = ref]
            /\ UNCHANGED <<runner, confused>>
      /\ UNCHANGED <<poolVars, job, wrote, crossed, events>>
    BY DEF ResolveConfig, Ready
<1>2. (ref \in Refs /\ c \in Creds) \/ ref \in {"cooling", "failed", "ok"}
    BY Resolved
<1> HIDE DEF exclude, ref, c
<1>3. step \in [CliStepIds -> StepState] /\ step[s] \in StepState /\ runner \in Runner /\ confused \in BOOLEAN
    BY DEF CliInv, CliTypeOK
<1>4. CASE ref \in Refs
  <2>1. CASE c \notin Creds
    <3>1. ref \in {"cooling", "failed", "ok"}
        BY <1>2, <2>1
    <3>2. FALSE
        BY <1>4, <3>1, CliAssumption DEF CliAssumption
    <3> QED  BY <3>2
  <2>2. CASE c \in Creds
    <3> DEFINE st == [step[s] EXCEPT !.pc = "check", !.cred = c, !.ref = ref]
    <3>1. st \in StepState /\ st.cred = c /\ st.ref = ref
        BY <1>3, <1>4, <2>2 DEF StepState
    <3>2. step' = [step EXCEPT ![s] = st]
        BY <1>1, <1>4
    <3> HIDE DEF st
    <3>3. step' \in [CliStepIds -> StepState] /\ step'[s] = st /\ \A q \in CliStepIds \ {s} : step'[q] = step[q]
        BY <1>3, <3>1, <3>2
    <3>4. runner' \in Runner /\ runner'.cred = c /\ runner'.ref = ref
      <4>1. runner' = Remember(ref, c, exclude)
          BY <1>1, <1>4
      <4> QED  BY <1>3, <1>4, <2>2, <4>1 DEF Remember, Runner
    <3>5. confused' = (confused \/ (Busy # {} /\ <<ref, c>> # <<runner.ref, runner.cred>>)) /\ confused' \in BOOLEAN
        BY <1>1, <1>4
    <3>6. \A q \in Busy' : q = s \/ (q \in Busy /\ step'[q] = step[q])
        BY <3>3 DEF Busy
    <3>7. \A q \in Busy' : step'[q].cred \in Creds /\ step'[q].ref \in Refs
        BY <1>4, <2>2, <3>1, <3>3, <3>6 DEF CliInv, BlameInv
    <3>8. ASSUME ~confused', NEW q \in Busy' PROVE step'[q].ref = runner'.ref /\ step'[q].cred = runner'.cred
      <4>1. CASE q = s
          BY <3>1, <3>3, <3>4, <4>1
      <4>2. CASE q # s
        <5>1. q \in Busy /\ step'[q] = step[q]
            BY <3>6, <4>2
        <5>2. ~confused /\ ref = runner.ref /\ c = runner.cred
            BY <3>5, <3>8, <5>1
        <5> QED  BY <3>4, <5>1, <5>2 DEF CliInv, BlameInv
      <4> QED  BY <4>1, <4>2
    <3>9. BlameInv'
        BY <3>7, <3>8 DEF BlameInv
    <3> QED  BY <1>1, <3>3, <3>4, <3>5, <3>9 DEF CliInv, CliTypeOK, poolVars
  <2> QED  BY <2>1, <2>2
<1>5. CASE ref \notin Refs
  <2> DEFINE st == [step[s] EXCEPT !.pc = ref]
  <2>1. st \in StepState /\ st.pc \in {"todo", "failed", "asked", "ok", "cooling"}
      BY <1>2, <1>3, <1>5 DEF StepState
  <2>2. step' = [step EXCEPT ![s] = st] /\ UNCHANGED <<runner, confused>>
      BY <1>1, <1>5
  <2> HIDE DEF st
  <2>3. step' \in [CliStepIds -> StepState] /\ BlameInv'
      BY <2>1, <2>2, StepMoves
  <2> QED  BY <1>1, <2>2, <2>3 DEF CliInv, CliTypeOK, poolVars
<1> QED  BY <1>4, <1>5

LEMMA IdleStep == NoStep \in StepState /\ NewRunner \in Runner
BY DEF NoStep, StepState, NewRunner, Runner

LEMMA PreflightBlames ==
    ASSUME CliInv, NEW s \in CliStepIds, Preflight(s)
    PROVE  CliInv'
<1> DEFINE key == <<runner.ref, runner.cred>>
<1>1. PICK fault \in BOOLEAN :
         /\ runner' = [runner EXCEPT !.checked = key, !.fault = fault]
         /\ step' = [step EXCEPT ![s] = IF fault THEN [NoStep EXCEPT !.pc = "failed"]
                                        ELSE [@ EXCEPT !.pc = "run"]]
  <2>1. runner.fault \in BOOLEAN
      BY DEF CliInv, CliTypeOK, Runner
  <2> QED  BY <2>1 DEF Preflight
<1>2. step[s].pc = "check" /\ UNCHANGED <<poolVars, job, wrote, crossed, confused, events>>
    BY DEF Preflight
<1>3. step[s] \in StepState /\ runner \in Runner
    BY DEF CliInv, CliTypeOK
<1>4. runner' \in Runner /\ runner'.cred = runner.cred /\ runner'.ref = runner.ref
    BY <1>1, <1>3 DEF Runner
<1> DEFINE st == IF fault THEN [NoStep EXCEPT !.pc = "failed"] ELSE [step[s] EXCEPT !.pc = "run"]
<1>5. st \in StepState
    BY <1>3, IdleStep DEF StepState, NoStep
<1>6. st.pc = "failed" \/ (s \in Busy /\ st.ref = step[s].ref /\ st.cred = step[s].cred)
    BY <1>2, <1>3 DEF Busy, StepState, NoStep
<1>7. step' = [step EXCEPT ![s] = st]
    BY <1>1
<1> HIDE DEF st
<1>8. step' \in [CliStepIds -> StepState] /\ BlameInv'
    BY <1>2, <1>4, <1>5, <1>6, <1>7, StepMoves
<1> QED  BY <1>2, <1>4, <1>8 DEF CliInv, CliTypeOK, poolVars

\* A process shows a subset of four things.
LEMMA OutcomesTyped == \A out \in Explored : out \in SUBSET {"success", "quota", "reauth", "asks"}
<1>1. \A o : CodeStepResult(o) \in SUBSET {"success", "quota", "reauth", "asks"}
    BY DEF CodeStepResult
<1>2. \A out \in Results : out \in SUBSET {"success", "quota", "reauth", "asks"}
    BY <1>1 DEF Results
<1> QED  BY <1>2 DEF Explored

LEMMA RunBlames ==
    ASSUME CliInv, NEW s \in CliStepIds, RunCodeStep(s)
    PROVE  CliInv'
<1> DEFINE c == step[s].cred
<1>1. /\ step[s].pc = "run"
      /\ UNCHANGED <<poolVars, runner, job, wrote, crossed, confused, events>>
    BY DEF RunCodeStep
<1>2. step[s] \in StepState /\ s \in Busy
    BY <1>1 DEF CliInv, CliTypeOK, Busy
<1>3. c \in Creds /\ cred[c].held \subseteq CliStepIds
    BY <1>2 DEF CliInv, CliTypeOK, BlameInv, Credential
<1>4. CASE step' = [step EXCEPT ![s] = [NoStep EXCEPT !.pc = "failed"]]
  <2>1. [NoStep EXCEPT !.pc = "failed"] \in StepState /\ [NoStep EXCEPT !.pc = "failed"].pc = "failed"
      BY DEF NoStep, StepState
  <2>2. step' \in [CliStepIds -> StepState] /\ BlameInv'
      BY <1>1, <1>4, <2>1, StepMoves
  <2> QED  BY <1>1, <2>2 DEF CliInv, CliTypeOK, poolVars
<1>5. CASE \E out \in Explored, refreshed \in {FALSE, scenario = "refresh"} :
               step' = [step EXCEPT ![s].out = out,
                                    ![s].base = IF refreshed THEN cred[c].held ELSE {},
                                    ![s].pc = IF refreshed THEN "merge" ELSE "cool"]
  <2>1. PICK out \in Explored, refreshed \in {FALSE, scenario = "refresh"} :
               step' = [step EXCEPT ![s].out = out,
                                    ![s].base = IF refreshed THEN cred[c].held ELSE {},
                                    ![s].pc = IF refreshed THEN "merge" ELSE "cool"]
      BY <1>5
  <2> DEFINE base == IF refreshed THEN cred[c].held ELSE {}
             pc == IF refreshed THEN "merge" ELSE "cool"
             st == [step[s] EXCEPT !.out = out, !.base = base, !.pc = pc]
  <2>2. base \in SUBSET CliStepIds /\ pc \in {"merge", "cool"}
      BY <1>3
  <2>3. out \in SUBSET {"success", "quota", "reauth", "asks"}
      BY OutcomesTyped
  <2>4. step' = [step EXCEPT ![s] = st]
      BY <1>2, <2>1 DEF CliInv, CliTypeOK
  <2> HIDE DEF base, pc
  <2>5. st \in StepState /\ st.ref = step[s].ref /\ st.cred = step[s].cred
      BY <1>2, <2>2, <2>3 DEF StepState
  <2> HIDE DEF st
  <2>6. step' \in [CliStepIds -> StepState] /\ BlameInv'
      BY <1>1, <1>2, <2>4, <2>5, StepMoves
  <2> QED  BY <1>1, <2>6 DEF CliInv, CliTypeOK, poolVars
<1> QED  BY <1>4, <1>5 DEF RunCodeStep

\* A row changes in one of the ways rows do.
LEMMA RowTyped ==
    ASSUME CliInv, NEW c, NEW row \in Credential, cred' = [cred EXCEPT ![c] = row]
    PROVE  cred' \in [Creds -> Credential]
BY DEF CliInv, CliTypeOK

\* Reports type rows and leave what the payloads hold.
LEMMA ReportTyped ==
    ASSUME CliInv, NEW c, SetCooldown(c) \/ MarkNeedsReauth(c) \/ cred' = cred
    PROVE  cred' \in [Creds -> Credential] /\ \A d \in Creds : cred'[d].held = cred[d].held
<1>1. cred \in [Creds -> Credential]
    BY DEF CliInv, CliTypeOK
<1>2. CASE cred' = RowCooldown(c)
  <2> DEFINE row == [cred[c] EXCEPT !.status = "rate_limited", !.cooldown = "future"]
  <2>1. CASE c \in Creds
    <3>1. row \in Credential /\ row.held = cred[c].held
        BY <1>1, <2>1 DEF Credential
    <3>2. cred' = [cred EXCEPT ![c] = row]
        BY <1>1, <1>2 DEF RowCooldown
    <3> HIDE DEF row
    <3> QED  BY <1>1, <3>1, <3>2
  <2>2. CASE c \notin Creds
      BY <1>1, <1>2, <2>2 DEF RowCooldown
  <2> QED  BY <2>1, <2>2
<1>3. CASE cred' = RowNeedsReauth(c)
  <2> DEFINE row == [cred[c] EXCEPT !.status = "needs_reauth"]
  <2>1. CASE c \in Creds
    <3>1. row \in Credential /\ row.held = cred[c].held
        BY <1>1, <2>1 DEF Credential
    <3>2. cred' = [cred EXCEPT ![c] = row]
        BY <1>1, <1>3 DEF RowNeedsReauth
    <3> HIDE DEF row
    <3> QED  BY <1>1, <3>1, <3>2
  <2>2. CASE c \notin Creds
      BY <1>1, <1>3, <2>2 DEF RowNeedsReauth
  <2> QED  BY <2>1, <2>2
<1>4. CASE cred' = cred
    BY <1>1, <1>4
<1> QED  BY <1>2, <1>3, <1>4 DEF SetCooldown, MarkNeedsReauth

LEMMA UpdateBlames ==
    ASSUME CliInv, NEW s \in CliStepIds, UpdateCredentialPayload(s)
    PROVE  CliInv'
<1> DEFINE c == step[s].cred
           held == step[s].base \cup {s}
           st == [step[s] EXCEPT !.pc = "cool", !.base = {}]
<1>1. /\ step[s].pc = "merge"
      /\ cred' = IF cred[c].status = "absent" THEN cred ELSE [cred EXCEPT ![c].held = held]
      /\ crossed' = crossed \cup (cred[c].held \ step[s].base)
      /\ step' = [step EXCEPT ![s].pc = "cool", ![s].base = {}]
      /\ UNCHANGED <<orgRows, runner, job, wrote, confused, events>>
    BY DEF UpdateCredentialPayload
<1>2. /\ step \in [CliStepIds -> StepState] /\ step[s] \in StepState /\ s \in Busy
      /\ cred \in [Creds -> Credential]
    BY <1>1 DEF CliInv, CliTypeOK, Busy
<1>3. c \in Creds /\ cred[c] \in Credential /\ held \in SUBSET CliStepIds
    BY <1>2 DEF CliInv, BlameInv, StepState
<1>4. crossed' \subseteq CliStepIds
    BY <1>1, <1>3 DEF CliInv, CliTypeOK, Credential
<1>5. cred' \in [Creds -> Credential]
  <2> HIDE DEF held, c
  <2>1. [cred[c] EXCEPT !.held = held] \in Credential
      BY <1>3 DEF Credential
  <2> QED  BY <1>1, <1>2, <1>3, <2>1
<1>6. st \in StepState /\ st.ref = step[s].ref /\ st.cred = step[s].cred
    BY <1>2 DEF StepState
<1>7. step' = [step EXCEPT ![s] = st]
    BY <1>1, <1>2
<1> HIDE DEF st
<1>8. step' \in [CliStepIds -> StepState] /\ BlameInv'
    BY <1>1, <1>2, <1>6, <1>7, StepMoves
<1> QED  BY <1>1, <1>4, <1>5, <1>8 DEF CliInv, CliTypeOK

LEMMA QuotaBlames ==
    ASSUME CliInv, NEW s \in CliStepIds, ReportQuota(s)
    PROVE  CliInv'
<1> DEFINE st == [step[s] EXCEPT !.pc = "mark", !.out = @ \ {"quota"}]
<1>1. /\ step[s].pc = "cool"
      /\ SetCooldown(runner.cred) \/ cred' = cred
      /\ step' = [step EXCEPT ![s].pc = "mark", ![s].out = @ \ {"quota"}]
      /\ UNCHANGED <<orgRows, runner, job, wrote, crossed, confused, events>>
    BY DEF ReportQuota
<1>2. cred' \in [Creds -> Credential]
    BY <1>1, ReportTyped
<1>3. step \in [CliStepIds -> StepState] /\ step[s] \in StepState /\ s \in Busy
    BY <1>1 DEF CliInv, CliTypeOK, Busy
<1>4. st \in StepState /\ st.ref = step[s].ref /\ st.cred = step[s].cred
    BY <1>3 DEF StepState
<1>5. step' = [step EXCEPT ![s] = st]
    BY <1>1, <1>3
<1> HIDE DEF st
<1>6. step' \in [CliStepIds -> StepState] /\ BlameInv'
    BY <1>1, <1>3, <1>4, <1>5, StepMoves
<1> QED  BY <1>1, <1>2, <1>6 DEF CliInv, CliTypeOK

LEMMA FinishBlames ==
    ASSUME CliInv, NEW s \in CliStepIds, FinishRun(s)
    PROVE  CliInv'
<1>1. PICK end \in {"asked", "ok", "failed"} :
         /\ step' = [step EXCEPT ![s] = [NoStep EXCEPT !.pc = end]]
         /\ wrote' = IF end = "ok" /\ s # Review THEN wrote \cup {step[s].ref} ELSE wrote
    BY DEF FinishRun, StepEnds
<1>2. /\ step[s].pc = "mark"
      /\ MarkNeedsReauth(runner.cred) \/ cred' = cred
      /\ UNCHANGED <<orgRows, runner, job, crossed, confused, events>>
    BY DEF FinishRun
<1>3. cred' \in [Creds -> Credential]
    BY <1>2, ReportTyped
<1>4. s \in Busy
    BY <1>2 DEF Busy
<1> DEFINE st == [NoStep EXCEPT !.pc = end]
<1>5. st \in StepState /\ st.pc \in {"asked", "ok", "failed"}
    BY DEF NoStep, StepState
<1>6. step' = [step EXCEPT ![s] = st]
    BY <1>1
<1> HIDE DEF st
<1>7. step' \in [CliStepIds -> StepState] /\ BlameInv'
    BY <1>2, <1>5, <1>6, StepMoves
<1>8. wrote' \subseteq Refs
  <2>1. step[s].ref \in Refs /\ wrote \subseteq Refs
      BY <1>4 DEF CliInv, CliTypeOK, BlameInv
  <2> QED  BY <1>1, <2>1
<1> QED  BY <1>2, <1>3, <1>7, <1>8 DEF CliInv, CliTypeOK

\* The pool around the steps touches neither them nor their runner.
LEMMA PoolBlames ==
    ASSUME CliInv, cred' \in [Creds -> Credential], orgRows' \subseteq Refs, events' \in Nat,
           UNCHANGED <<runner, step, job, wrote, crossed, confused>>
    PROVE  CliInv'
BY DEF CliInv, CliTypeOK, BlameInv, Busy

\* A run between two of its steps: nothing is busy, and steps stay as they ended or start again.
LEMMA AgainTyped ==
    ASSUME CliInv, step' \in {step, Again}, runner' \in {runner, NewRunner}, confused' = confused,
           runner' = runner \/ step' = Again
    PROVE  runner' \in Runner /\ step' \in [CliStepIds -> StepState] /\ BlameInv'
<1>1. Again \in [CliStepIds -> StepState] /\ \A s \in CliStepIds : Again[s].pc \in {"ok", "todo"}
    BY IdleStep DEF Again, NoStep, CliInv, CliTypeOK
<1>2. runner' \in Runner
    BY IdleStep DEF CliInv, CliTypeOK
<1>3. CASE step' = Again
  <2>1. Busy' = {}
      BY <1>1, <1>3 DEF Busy
  <2> QED  BY <1>1, <1>2, <1>3, <2>1 DEF BlameInv
<1>4. CASE step' = step /\ runner' = runner
    BY <1>2, <1>4 DEF CliInv, CliTypeOK, BlameInv, Busy
<1> QED  BY <1>3, <1>4

LEMMA AttemptBlames ==
    ASSUME CliInv, AttemptEnds
    PROVE  CliInv'
<1>1. /\ step' \in {step, Again} /\ UNCHANGED <<cred, orgRows, runner, wrote, crossed, confused, events>>
      /\ \/ \E st \in {"paused", "sleeping", "failed", "done"} : job' = [job EXCEPT !.status = st]
         \/ job.attempt < job.limit /\ job' = [job EXCEPT !.attempt = @ + 1]
    BY DEF AttemptEnds, poolVars
<1>2. runner' \in Runner /\ step' \in [CliStepIds -> StepState] /\ BlameInv'
    BY <1>1, AgainTyped
<1>3. /\ job \in [status : {"running", "sleeping", "paused", "done", "failed"}, attempt : Nat, runs : Nat, limit : Nat]
      /\ job.attempt \in 1..job.limit
    BY DEF CliInv, CliTypeOK
<1>4. /\ job' \in [status : {"running", "sleeping", "paused", "done", "failed"}, attempt : Nat, runs : Nat, limit : Nat]
      /\ job'.attempt \in 1..job'.limit
    BY <1>1, <1>3
<1> QED  BY <1>1, <1>2, <1>4 DEF CliInv, CliTypeOK

LEMMA NextRunBlames ==
    ASSUME CliInv, NextRun
    PROVE  CliInv'
<1>1. /\ step' = Again /\ runner' = NewRunner /\ UNCHANGED <<cred, orgRows, wrote, crossed, confused>>
      /\ events' \in {events, events + 1}
      /\ job' = [job EXCEPT !.status = "running", !.attempt = 1, !.runs = @ + 1]
    BY DEF NextRun, Event, poolVars
<1>2. runner' \in Runner /\ step' \in [CliStepIds -> StepState] /\ BlameInv'
    BY <1>1, AgainTyped
<1>3. /\ job \in [status : {"running", "sleeping", "paused", "done", "failed"}, attempt : Nat, runs : Nat, limit : Nat]
      /\ job.attempt \in 1..job.limit
    BY DEF CliInv, CliTypeOK
<1>4. /\ job' \in [status : {"running", "sleeping", "paused", "done", "failed"}, attempt : Nat, runs : Nat, limit : Nat]
      /\ job'.attempt \in 1..job'.limit
  <2>1. 1 \in 1..job.limit /\ job.runs + 1 \in Nat
      BY <1>3
  <2> DEFINE n == job.runs + 1
  <2>2. job' = [job EXCEPT !.status = "running", !.attempt = 1, !.runs = n]
      BY <1>1
  <2> HIDE DEF n
  <2> QED  BY <1>3, <2>1, <2>2 DEF n
<1>5. events' \in Nat
    BY <1>1 DEF CliInv, CliTypeOK
<1> QED  BY <1>1, <1>2, <1>4, <1>5 DEF CliInv, CliTypeOK

\* How the rows of the pool move: what a payload holds changes only with a person's act.
Moved(c) == /\ cred' \in [Creds -> Credential]
            /\ \A d \in Creds : cred'[d].held = cred[d].held \/ (d = c /\ cred'[d].held = {} /\ events' > events)

LEMMA OneRow ==
    ASSUME CliInv, NEW c \in Creds, NEW row \in Credential, cred' = [cred EXCEPT ![c] = row],
           row.held = cred[c].held \/ (row.held = {} /\ events' > events)
    PROVE  Moved(c)
<1>1. cred \in [Creds -> Credential]
    BY DEF CliInv, CliTypeOK
<1>2. cred' \in [Creds -> Credential] /\ cred'[c] = row /\ \A d \in Creds \ {c} : cred'[d] = cred[d]
    BY <1>1
<1> QED  BY <1>2 DEF Moved

LEMMA PoolMoves ==
    ASSUME CliInv, NEW c \in Creds,
           \/ CooldownElapses(c) \/ UpdateCredential(c) \/ DeleteCredential(c) \/ OtherRunReports(c)
           \/ CreateCredential(c) \/ ReadOrgRows(c) \/ CompareAndSwapOrgRows(c)
           \/ ClearExpiredCooldowns \/ SaveOrgRows
    PROVE  Moved(c) /\ CliInv'
<1>1. cred \in [Creds -> Credential] /\ cred[c] \in Credential /\ events \in Nat /\ orgRows \subseteq Refs
    BY DEF CliInv, CliTypeOK
<1>2. CASE CooldownElapses(c)
  <2>1. cred' = [cred EXCEPT ![c] = [cred[c] EXCEPT !.cooldown = "past"]]
      BY <1>1, <1>2 DEF CooldownElapses
  <2>2. /\ [cred[c] EXCEPT !.cooldown = "past"] \in Credential
        /\ [cred[c] EXCEPT !.cooldown = "past"].held = cred[c].held
      BY <1>1 DEF Credential
  <2>3. Moved(c)
      BY <2>1, <2>2, OneRow
  <2>4. UNCHANGED <<orgRows, events, runner, step, job, wrote, crossed, confused>>
      BY <1>2 DEF CooldownElapses
  <2> QED  BY <1>1, <2>3, <2>4, PoolBlames DEF Moved
<1>3. CASE UpdateCredential(c)
  <2>1. events' > events /\ events' \in Nat /\ UNCHANGED <<orgRows, runner, step, job, wrote, crossed, confused>>
      BY <1>1, <1>3 DEF UpdateCredential, Event
  <2>2. ASSUME \E st \in {"active", "rate_limited", "disabled"} : cred' = [cred EXCEPT ![c].status = st]
        PROVE  Moved(c)
    <3>1. PICK st \in {"active", "rate_limited", "disabled"} : cred' = [cred EXCEPT ![c].status = st]
        BY <2>2
    <3>2. [cred[c] EXCEPT !.status = st] \in Credential /\ [cred[c] EXCEPT !.status = st].held = cred[c].held
        BY <1>1 DEF Credential
    <3>3. cred' = [cred EXCEPT ![c] = [cred[c] EXCEPT !.status = st]]
        BY <1>1, <3>1
    <3> QED  BY <3>2, <3>3, OneRow
  <2>3. ASSUME cred' = [cred EXCEPT ![c].status = "active", ![c].held = {}]
        PROVE  Moved(c)
    <3> DEFINE row == [cred[c] EXCEPT !.status = "active", !.held = {}]
    <3>1. row \in Credential /\ row.held = {}
        BY <1>1 DEF Credential
    <3>2. cred' = [cred EXCEPT ![c] = row]
        BY <1>1, <2>3
    <3> HIDE DEF row
    <3> QED  BY <2>1, <3>1, <3>2, OneRow
  <2>4. Moved(c)
      BY <1>3, <2>2, <2>3 DEF UpdateCredential
  <2> QED  BY <1>1, <2>1, <2>4, PoolBlames DEF Moved
<1>4. CASE DeleteCredential(c)
  <2> DEFINE row == [status |-> "absent", cooldown |-> "none", held |-> {}]
  <2>1. events' > events /\ events' \in Nat /\ UNCHANGED <<orgRows, runner, step, job, wrote, crossed, confused>>
      BY <1>1, <1>4 DEF DeleteCredential, Event
  <2>2. cred' = [cred EXCEPT ![c] = row] /\ row \in Credential /\ row.held = {}
      BY <1>4 DEF DeleteCredential, Credential
  <2> HIDE DEF row
  <2>3. Moved(c)
      BY <2>1, <2>2, OneRow
  <2> QED  BY <1>1, <2>1, <2>3, PoolBlames DEF Moved
<1>5. CASE OtherRunReports(c)
  <2>1. events' \in Nat /\ UNCHANGED <<orgRows, runner, step, job, wrote, crossed, confused>>
      BY <1>1, <1>5 DEF OtherRunReports, Event
  <2>2. Moved(c)
      BY <1>5, ReportTyped DEF OtherRunReports, Moved
  <2> QED  BY <1>1, <2>1, <2>2, PoolBlames DEF Moved
<1>6. CASE CreateCredential(c)
  <2>1. cred' = [cred EXCEPT ![c] = [cred[c] EXCEPT !.status = "active"]]
      BY <1>1, <1>6 DEF CreateCredential
  <2>2. [cred[c] EXCEPT !.status = "active"] \in Credential /\ [cred[c] EXCEPT !.status = "active"].held = cred[c].held
      BY <1>1 DEF Credential
  <2>3. Moved(c)
      BY <2>1, <2>2, OneRow
  <2>4. UNCHANGED <<orgRows, events, runner, step, job, wrote, crossed, confused>>
      BY <1>6 DEF CreateCredential
  <2> QED  BY <1>1, <2>3, <2>4, PoolBlames DEF Moved
<1>7. CASE ReadOrgRows(c) \/ CompareAndSwapOrgRows(c) \/ SaveOrgRows
  <2>1. cred' = cred /\ UNCHANGED <<runner, step, job, wrote, crossed, confused>>
      BY <1>7 DEF ReadOrgRows, CompareAndSwapOrgRows, SaveOrgRows
  <2>3. events' = events \/ events' = events + 1
      BY <1>7 DEF ReadOrgRows, CompareAndSwapOrgRows, SaveOrgRows, Event
  <2>4. events' \in Nat
      BY <1>1, <2>3
  <2>2. orgRows' \subseteq Refs
    <3>1. ProviderOf[c] \in Refs
        BY CliAssumption DEF CliAssumption
    <3> QED  BY <1>1, <1>7, <3>1 DEF ReadOrgRows, CompareAndSwapOrgRows, SaveOrgRows, AutoEnableExecutionProviderRow
  <2> QED  BY <1>1, <2>1, <2>2, <2>4, PoolBlames DEF Moved
<1>8. CASE ClearExpiredCooldowns
  <2>1. cred' = RowsRecovered /\ UNCHANGED <<orgRows, events, runner, step, job, wrote, crossed, confused>>
      BY <1>8 DEF ClearExpiredCooldowns
  <2>2. \A d \in Creds : [cred[d] EXCEPT !.status = "active", !.cooldown = "none"] \in Credential
      BY <1>1 DEF Credential
  <2>3. cred' \in [Creds -> Credential]
      BY <1>1, <2>1, <2>2 DEF RowsRecovered
  <2>4. \A d \in Creds : cred'[d].held = cred[d].held
      BY <1>1, <2>1 DEF RowsRecovered, Credential
  <2> QED  BY <1>1, <2>1, <2>3, <2>4, PoolBlames DEF Moved
<1> QED  BY <1>2, <1>3, <1>4, <1>5, <1>6, <1>7, <1>8

LEMMA InitBlames == CliInit => CliInv
<1> SUFFICES ASSUME CliInit PROVE CliInv
    OBVIOUS
<1>1. NoStep \in StepState /\ NewRunner \in Runner /\ NoStep.pc = "todo"
    BY IdleStep DEF NoStep
<1>2. cred \in [Creds -> Credential] /\ orgRows \subseteq Refs
    BY DEF CliInit, Credential
<1>3. /\ job \in [status : {"running", "sleeping", "paused", "done", "failed"}, attempt : Nat, runs : Nat, limit : Nat]
      /\ job.attempt \in 1..job.limit
    BY CliAssumption DEF CliInit, CliAssumption
<1>4. runner = NewRunner /\ step = [s \in CliStepIds |-> NoStep] /\ wrote = {} /\ crossed = {} /\ confused = FALSE
      /\ events = 0
    BY DEF CliInit
<1>5. CliTypeOK
    BY <1>1, <1>2, <1>3, <1>4 DEF CliTypeOK
<1>6. Busy = {}
    BY <1>1, <1>4 DEF Busy
<1> QED  BY <1>5, <1>6 DEF CliInv, BlameInv

LEMMA StepBlames == ASSUME CliInv, NEW s \in CliStepIds, CliStep(s) PROVE CliInv'
BY ResolveBlames, PreflightBlames, RunBlames, UpdateBlames, QuotaBlames, FinishBlames, CliAssumption DEF CliStep

\* A pool without a credential still has its cooldown worker and its administrator.
LEMMA EmptyPool ==
    ASSUME CliInv, ClearExpiredCooldowns \/ SaveOrgRows
    PROVE  CliInv'
<1>1. cred \in [Creds -> Credential] /\ orgRows \subseteq Refs /\ events \in Nat
    BY DEF CliInv, CliTypeOK
<1>2. CASE Creds # {}
  <2>1. PICK c \in Creds : TRUE
      BY <1>2
  <2> QED  BY <2>1, PoolMoves
<1>3. CASE Creds = {}
  <2>1. cred' \in [Creds -> Credential] /\ orgRows' \subseteq Refs
      BY <1>1, <1>3 DEF ClearExpiredCooldowns, RowsRecovered, SaveOrgRows
  <2>2. events' \in {events, events + 1} /\ UNCHANGED <<runner, step, job, wrote, crossed, confused>>
      BY DEF ClearExpiredCooldowns, SaveOrgRows, Event
  <2> QED  BY <1>1, <2>1, <2>2, PoolBlames
<1> QED  BY <1>2, <1>3

LEMMA NextBlames == CliInv /\ [CliNext]_cliVars => CliInv'
<1> SUFFICES ASSUME CliInv, [CliNext]_cliVars PROVE CliInv'
    OBVIOUS
<1>1. ASSUME NEW s \in CliStepIds, CliStep(s) PROVE CliInv'
    BY <1>1, StepBlames
<1>2. CASE AttemptEnds \/ NextRun
    BY <1>2, AttemptBlames, NextRunBlames
<1>3. CASE ClearExpiredCooldowns \/ SaveOrgRows
    BY <1>3, EmptyPool
<1>4. ASSUME NEW c \in Creds,
             \/ CooldownElapses(c) \/ UpdateCredential(c) \/ DeleteCredential(c) \/ OtherRunReports(c)
             \/ CreateCredential(c) \/ ReadOrgRows(c) \/ CompareAndSwapOrgRows(c)
      PROVE  CliInv'
    BY <1>4, PoolMoves
<1>5. CASE UNCHANGED cliVars
  <2>1. UNCHANGED <<cred, orgRows, runner, step, job, wrote, crossed, confused, events>>
      BY <1>5 DEF cliVars, poolVars
  <2> QED  BY <2>1 DEF CliInv, CliTypeOK, BlameInv, Busy
<1> QED  BY <1>1, <1>2, <1>3, <1>4, <1>5 DEF CliNext

\* What routing, the steps and the pool of credentials store keeps its shape, whatever the
\* order of requests (ResolveConfig, Preflight, RunCodeStep, autoEnableGlobalRouting).
THEOREM CliTypeCorrect == CliSpec => []CliTypeOK
<1>1. CliInv => CliTypeOK
    BY DEF CliInv
<1> QED  BY <1>1, InitBlames, NextBlames, PTL DEF CliSpec

\* A quota or an authentication failure is reported against the credential the step ran
\* on, unless two steps of the run resolved different candidates on their shared runner
\* while one of them was busy (ResolveConfig, SetCooldown, MarkNeedsReauth).
THEOREM ReportsBlameTheirCredential == CliSpec => []BlameIsRight
<1>1. CliInv => BlameIsRight
    BY DEF CliInv, BlameInv, BlameIsRight, Busy
<1> QED  BY <1>1, InitBlames, NextBlames, PTL DEF CliSpec

\* The files of a credential that a step refreshed are lost only to a write-back of another
\* step that had read the row before, to a new login or with the row
\* (RunCodeStep, UpdateCredentialPayload, Update, Delete).
THEOREM RefreshedFilesSurvive == CliSpec => RefreshSurvives
<1> DEFINE Survive == \A c \in Creds : \A s \in cred[c].held \ cred'[c].held :
                         \/ s \in crossed'
                         \/ cred'[c].held = {} /\ events' > events
<1>1. ASSUME CliInv, CliNext PROVE Survive
  <2>1. cred \in [Creds -> Credential]
      BY <1>1 DEF CliInv, CliTypeOK
  <2>2. ASSUME NEW c \in Creds, Moved(c) PROVE Survive
      BY <2>2 DEF Moved
  <2>3. ASSUME NEW s \in CliStepIds, UpdateCredentialPayload(s) PROVE Survive
    <3> DEFINE d == step[s].cred
    <3>1. /\ crossed' = crossed \cup (cred[d].held \ step[s].base)
          /\ cred' = cred \/ cred' = [cred EXCEPT ![d].held = step[s].base \cup {s}]
        BY <2>3 DEF UpdateCredentialPayload
    <3>2. ASSUME NEW c \in Creds, NEW q \in cred[c].held \ cred'[c].held PROVE q \in crossed'
        BY <2>1, <3>1, <3>2 DEF Credential
    <3> QED  BY <3>2
  <2>4. ASSUME \A c \in Creds : cred'[c].held = cred[c].held PROVE Survive
      BY <2>4
  <2>5. ASSUME NEW s \in CliStepIds, CliStep(s) PROVE Survive
    <3>1. CASE ResolveConfig(s) \/ Preflight(s) \/ RunCodeStep(s)
      <4>1. cred' = cred
          BY <3>1 DEF ResolveConfig, Preflight, RunCodeStep, poolVars
      <4> QED  BY <2>4, <4>1
    <3>2. CASE ReportQuota(s) \/ FinishRun(s)
      <4>1. \A c \in Creds : cred'[c].held = cred[c].held
          BY <1>1, <3>2, ReportTyped DEF ReportQuota, FinishRun
      <4> QED  BY <2>4, <4>1
    <3> QED  BY <2>3, <2>5, <3>1, <3>2 DEF CliStep
  <2>6. ASSUME AttemptEnds \/ NextRun PROVE Survive
    <3>1. cred' = cred
        BY <2>6 DEF AttemptEnds, NextRun, poolVars
    <3> QED  BY <2>4, <3>1
  <2>7. ASSUME NEW c \in Creds,
               \/ CooldownElapses(c) \/ UpdateCredential(c) \/ DeleteCredential(c) \/ OtherRunReports(c)
               \/ CreateCredential(c) \/ ReadOrgRows(c) \/ CompareAndSwapOrgRows(c)
               \/ ClearExpiredCooldowns \/ SaveOrgRows
        PROVE  Survive
      BY <1>1, <2>2, <2>7, PoolMoves
  <2>8. ASSUME Creds = {} PROVE Survive
      BY <2>8
  <2> HIDE DEF Survive
  <2> QED  BY <1>1, <2>5, <2>6, <2>7, <2>8 DEF CliNext
<1>2. CliInv /\ [CliNext]_cliVars => [Survive]_cliVars
    BY <1>1
<1> QED  BY <1>2, InitBlames, NextBlames, PTL DEF CliSpec, RefreshSurvives

=============================================================================
