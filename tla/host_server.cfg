SPECIFICATION Spec
CONSTANTS
    Requests = {r1, r2}
    NoOne = NoOne
    Stranger = Stranger
    ToolkitRuns = 2
    MAX_CREDITS = 10
    Burst = 1
    AgentRuns = 4
    MaxDrained = 2
    StartRequests = 2
    StopRequests = 2
    MAX_RESTARTS = 1
CHECK_DEADLOCK FALSE
INVARIANTS BoardsAreHeld StatusIsTrue CreditAccounted
PROPERTIES RecordsAreFinal EverythingSettles
