SPECIFICATION ResourcesSpec
CONSTANTS
    a1 = a1
    a2 = a2
    parent = parent
    child = child
    None = None
    NoAgent = NoAgent
    AgentRuns = {r1, r2}
    Agents = {a1, a2}
    RoleOf <- AgentRoles
    RolesForTask <- BackendFirst
    TrackRole = "frontend"
    MaxLongRuns = 1
    MaxRestarts = 1
    Tasks = {parent, child}
    Runs = {r1, r2}
    ParentTaskID <- Family
    MaxJobs = 2
    MaxFaults = 1
  
PROPERTIES AgentsReturn 
CHECK_DEADLOCK FALSE
