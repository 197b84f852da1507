SPECIFICATION Spec
CONSTANTS
    q1 = q1
    q2 = q2
    o1 = o1
    o2 = o2
    Requests = {q1, q2}
    Calls = {o1, o2}
    OptionsOf <- MCOptionsOf
    SessionOf <- MCSessionOf
    WorkspaceOf <- MCWorkspaceOf
    ToolOf <- MCToolOf
    Scopes = {"once", "session", "workspace_tool"}
    Configurations <- MCConfigurations
    MaxFaults = 1
SYMMETRY CallSymmetry
CHECK_DEADLOCK FALSE
INVARIANTS
    DecisionReachesWaiter
    AnswerMatchesRow
    OneTerminalNotice
PROPERTIES
    AllowIsAuthorized
