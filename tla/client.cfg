SPECIFICATION Spec
CONSTANTS
    A = A
    B = B
    backlog = backlog
    plan = plan
    finished = finished
    extra = extra
    alpha = alpha
    beta = beta
    planner = planner
    helper = helper
    c1 = c1
    c2 = c2
    c3 = c3
    Section = {backlog, plan, finished, extra}
    Team = {alpha, beta}
    Agent = {planner, helper}
    Card = {c1, c2, c3}
    DefaultSections <- MCDefaultSections
    DefaultTeam = alpha
    FlowSections <- MCFlowSections
    FlowAgents <- MCFlowAgents
    Done = finished
    Nobody = Nobody
    Home = A
    Workspace = {A, B}
    FirstCard <- MCFirstCard
    Does <- DoesEverything
    DoneElsewhere <- DoneByOthers
    Combined = {"drag", "assign", "start", "reload", "fail"}
    MaxEvents = 2
    MaxFetches = 1
INVARIANT TypeOK
INVARIANT NothingDangles
PROPERTY CardsLeaveOnlyByHand
CHECK_DEADLOCK FALSE
PROPERTY CardsAgree
