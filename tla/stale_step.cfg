CONSTANTS
    plain = plain
    flow = flow
    planner = planner
    builder = builder
    NoTask = NoTask
    Task <- MCTask
    Workflow <- MCWorkflow
    Agent <- MCAgent
    Plan <- ThreeSteps
    MaxRetries = 1
    MaxRunners = 2
    CallsStall = TRUE
    EditKinds = {}
    Fuel <- StaleFuel
SPECIFICATION Spec
INVARIANTS
    StepsInOrder
CHECK_DEADLOCK FALSE
