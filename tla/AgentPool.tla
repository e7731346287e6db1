-------------------------------- MODULE AgentPool --------------------------------
(***************************************************************************)
(* The agents of a project as rows with a status.  A run claims one in its    *)
(* prologue, a parallel track of cli_implement claims a second one of its     *)
(* role; both are given back by deferred calls.  The watchdog frees rows that *)
(* have not changed for 30 minutes, and a start of the process frees all.     *)
(***************************************************************************)
EXTENDS Integers, FiniteSets, Sequences

CONSTANTS
    AgentRuns, Agents,
    NoAgent,        \* no agent
    RoleOf,         \* the role of each agent
    RolesForTask,   \* rolesForTask: the roles a task asks for, best first
    TrackRole,      \* the role of the parallel track
    MaxLongRuns,    \* bound: agents whose run outlasts the watchdog's limit
    MaxRestarts     \* bound: crashes followed by a start

ASSUME AgentAssumption ==
    /\ IsFiniteSet(AgentRuns) /\ IsFiniteSet(Agents) /\ NoAgent \notin Agents
    /\ DOMAIN RoleOf = Agents /\ RolesForTask \in Seq({RoleOf[a] : a \in Agents})
    /\ {MaxLongRuns, MaxRestarts} \subseteq Nat

VARIABLES
    user,         \* per run: where it is, its agent, the agent of its track
    agent,        \* status of each row
    old,          \* rows whose updated_at is past the limit
    stuckAgents,  \* ids ResetStuckAgents has read and not yet reset
    reclaimed,    \* history: agents the watchdog freed while a run had them
    longRuns, restarts

agentVars == <<user, agent, old, stuckAgents, reclaimed, longRuns, restarts>>

NoUser == [pc |-> "free", agent |-> NoAgent, second |-> NoAgent, tracked |-> FALSE]
Active == {r \in AgentRuns : user[r].pc # "free"}
HeldBy(a) == {r \in Active : a \in {user[r].agent, user[r].second}}

AgentInit ==
    /\ user = [r \in AgentRuns |-> NoUser]
    /\ agent = [a \in Agents |-> "idle"] /\ old = {} /\ stuckAgents = {} /\ reclaimed = {}
    /\ longRuns = 0 /\ restarts = 0

\* UpdateStatus writes the row whoever holds it, and refreshes it.
UpdateStatus(a, st) ==
    /\ agent' = IF a = NoAgent THEN agent ELSE [agent EXCEPT ![a] = st]
    /\ old' = old \ {a}

Available(role) == {a \in Agents : agent[a] = "idle" /\ RoleOf[a] = role}

\* Mutant: the row is selected and not marked.
ClaimUnmarked(a) == agent[a] = "idle" /\ UNCHANGED <<agent, old>>

\* One transaction that locks an idle row and makes it assigned.
ClaimAvailable(a) == agent[a] = "idle" /\ UpdateStatus(a, "assigned")

\* Assign: the first role of the list with an idle agent, else any idle agent.
Candidates ==
    LET roles == {i \in DOMAIN RolesForTask : Available(RolesForTask[i]) # {}}
    IN  IF roles = {} THEN {a \in Agents : agent[a] = "idle"}
        ELSE Available(RolesForTask[CHOOSE i \in roles : \A k \in roles : i <= k])

StartUser(r) ==
    /\ user[r].pc = "free"
    /\ user' = [user EXCEPT ![r].pc = "assign"]
    /\ UNCHANGED <<agent, old, stuckAgents, reclaimed, longRuns, restarts>>

Assign(r) ==
    /\ user[r].pc = "assign"
    /\ \/ \E a \in Candidates : /\ ClaimAvailable(a)
                                 /\ user' = [user EXCEPT ![r].pc = "clone", ![r].agent = a]
       \/ Candidates = {} /\ user' = [user EXCEPT ![r].pc = "exit"] /\ UNCHANGED <<agent, old>>
    /\ UNCHANGED <<stuckAgents, reclaimed, longRuns, restarts>>

\* Between the claim and MarkRunning the workspace is cloned, which may fail.
MarkRunning(r) ==
    /\ user[r].pc = "clone"
    /\ \/ UpdateStatus(user[r].agent, "running") /\ user' = [user EXCEPT ![r].pc = "work"]
       \/ user' = [user EXCEPT ![r].pc = "exit"] /\ UNCHANGED <<agent, old>>
    /\ UNCHANGED <<stuckAgents, reclaimed, longRuns, restarts>>

\* assignRoleAgent of a track: none is claimed when the run's own agent has the role.
AssignRoleAgent(r) ==
    /\ user[r].pc = "work" /\ ~user[r].tracked
    /\ RoleOf[user[r].agent] # TrackRole
    /\ \E a \in Available(TrackRole) :
         /\ ClaimAvailable(a)
         /\ user' = [user EXCEPT ![r].second = a, ![r].tracked = TRUE]
    /\ UNCHANGED <<stuckAgents, reclaimed, longRuns, restarts>>

ReleaseRoleAgent(r) ==
    /\ user[r].second # NoAgent
    /\ UpdateStatus(user[r].second, "idle")
    /\ user' = [user EXCEPT ![r].second = NoAgent]
    /\ UNCHANGED <<stuckAgents, reclaimed, longRuns, restarts>>

\* Mutant: the run waits for a track that found no agent.
EndWorkAfterTrack(r) ==
    /\ user[r].pc = "work" /\ user[r].second = NoAgent /\ user[r].tracked
    /\ user' = [user EXCEPT ![r].pc = "exit"]
    /\ UNCHANGED <<agent, old, stuckAgents, reclaimed, longRuns, restarts>>

EndWork(r) ==
    /\ user[r].pc = "work" /\ user[r].second = NoAgent
    /\ user' = [user EXCEPT ![r].pc = "exit"]
    /\ UNCHANGED <<agent, old, stuckAgents, reclaimed, longRuns, restarts>>

\* The deferred Release of the run.
Release(r) ==
    /\ user[r].pc = "exit"
    /\ UpdateStatus(user[r].agent, "idle")
    /\ user' = [user EXCEPT ![r] = NoUser]
    /\ UNCHANGED <<stuckAgents, reclaimed, longRuns, restarts>>

UserStep(r) == Assign(r) \/ MarkRunning(r) \/ AssignRoleAgent(r) \/ ReleaseRoleAgent(r) \/ EndWork(r) \/ Release(r)

\* Nothing refreshes the row of a run at work.
AgentAges(a) ==
    /\ agent[a] # "idle" /\ a \notin old
    /\ HeldBy(a) # {} => longRuns < MaxLongRuns
    /\ longRuns' = longRuns + (IF HeldBy(a) = {} THEN 0 ELSE 1)
    /\ old' = old \cup {a}
    /\ UNCHANGED <<user, agent, stuckAgents, reclaimed, restarts>>

\* ResetStuckAgents, called by the watchdog's ticker: read the ids, then set them idle.
ReadStuckAgents ==
    /\ stuckAgents = {} /\ old # {}
    /\ stuckAgents' = old
    /\ UNCHANGED <<user, agent, old, reclaimed, longRuns, restarts>>

ResetStuckAgents ==
    /\ stuckAgents # {}
    /\ agent' = [a \in Agents |-> IF a \in stuckAgents THEN "idle" ELSE agent[a]]
    /\ old' = old \ stuckAgents
    /\ reclaimed' = reclaimed \cup {a \in stuckAgents : HeldBy(a) # {}}
    /\ stuckAgents' = {}
    /\ UNCHANGED <<user, longRuns, restarts>>

\* A crash loses the runs; the next start calls ResetAllStatuses.
Restart ==
    /\ restarts < MaxRestarts /\ restarts' = restarts + 1
    /\ user' = [r \in AgentRuns |-> NoUser]
    /\ agent' = [a \in Agents |-> "idle"] /\ old' = {} /\ stuckAgents' = {} /\ reclaimed' = {}
    /\ UNCHANGED longRuns

AgentNext ==
    \/ \E r \in AgentRuns : StartUser(r) \/ UserStep(r)
    \/ \E a \in Agents : AgentAges(a)
    \/ ReadStuckAgents \/ ResetStuckAgents \/ Restart

AgentSpec == AgentInit /\ [][AgentNext]_agentVars

-----------------------------------------------------------------------------
(***************************************************************************)
(* Properties.                                                               *)
(***************************************************************************)
\* An agent serves two runs only after the watchdog freed it while a run had it
\* (Release and MarkRunning write the row whoever holds it).
AgentExclusive ==
    \A r, q \in Active : \A a \in Agents : r # q /\ {r, q} \subseteq HeldBy(a) => a \in reclaimed

\* An agent that is taken comes back, whether its run ends, loses it or dies.
AgentsReturn == \A a \in Agents : agent[a] # "idle" ~> agent[a] = "idle"

================================================================================
