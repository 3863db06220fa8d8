CONSTANTS
    plain = plain
    flow = flow
    planner = planner
    builder = builder
    NoTask = NoTask
    Task <- MCTask
    Workflow <- MCWorkflow
    Agent <- MCAgent
    Plan <- TwoSteps
    MaxRetries = 1
    MaxRunners = 2
    CallsStall = TRUE
    EditKinds = {}
    Fuel <- WatchdogFuel
SPECIFICATION FairSpec
INVARIANTS
    TypeOK
PROPERTIES
    BoardComesToRest
CHECK_DEADLOCK FALSE
