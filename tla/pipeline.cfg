CONSTANTS
    plain = plain
    flow = flow
    planner = planner
    builder = builder
    NoTask = NoTask
    Task <- MCTask
    Workflow <- MCWorkflow
    Agent <- MCAgent
    Plan <- TwoSteps
    MaxRetries = 1
    MaxRunners = 3
    CallsStall = FALSE
    EditKinds = {}
    Fuel <- PipelineFuel
SPECIFICATION Spec
INVARIANTS
    RowsBelongToTheirTask
    OneRowPerPlainTask
    StepsInOrder
PROPERTIES
    WriteThrough
CHECK_DEADLOCK FALSE
