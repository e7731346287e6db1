------------------------------ MODULE MCResources ------------------------------
(***************************************************************************)
(* Two parts of the server that share nothing, checked in one run: the       *)
(* workspaces and the agent pool.  `part` says which of them moves; the other *)
(* one stays as it started.                                                   *)
(***************************************************************************)
EXTENDS AgentPool, Workspaces

CONSTANTS a1, a2, parent, child

VARIABLE part

AgentRoles == [a \in Agents |-> IF a = a1 THEN "backend" ELSE "frontend"]
BackendFirst == <<"backend">>
Family == [t \in Tasks |-> IF t = child THEN parent ELSE None]

resVars == <<part, agentVars, wsVars>>

ResourcesInit == part \in {"agents", "workspaces"} /\ AgentInit /\ WorkspaceInit

InAgents(A) == part = "agents" /\ A /\ UNCHANGED <<part, wsVars>>
InWorkspaces(A) == part = "workspaces" /\ A /\ UNCHANGED <<part, agentVars>>

ResourcesNext == InAgents(AgentNext) \/ InWorkspaces(WorkspaceNext)

\* Runs go on, and so does the watchdog's ticker.
ResourcesSpec ==
    /\ ResourcesInit /\ [][ResourcesNext]_resVars
    /\ \A r \in AgentRuns : WF_resVars(InAgents(UserStep(r)))
    /\ \A a \in Agents : WF_resVars(InAgents(HeldBy(a) = {} /\ AgentAges(a)))
    /\ WF_resVars(InAgents(ReadStuckAgents)) /\ WF_resVars(InAgents(ResetStuckAgents))

================================================================================
