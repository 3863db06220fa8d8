CONSTANTS
    plain = plain
    flow = flow
    planner = planner
    builder = builder
    NoTask = NoTask
    Task <- MCTask
    Workflow <- MCWorkflow
    Agent <- MCAgent
    Plan <- TwoSteps
    MaxRetries = 1
    MaxRunners = 2
    CallsStall = FALSE
    EditKinds = {"touch", "approve", "reject", "unreject", "complete", "start", "move", "restore", "create", "delete", "undelete", "purge", "clear", "reset"}
    Fuel <- PutFuel
SPECIFICATION Spec
INVARIANTS
    CompletedHasReport
    RowsBelongToTheirTask
CHECK_DEADLOCK FALSE
