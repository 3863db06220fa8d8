SPECIFICATION Spec
CONSTANTS
    d1 = d1
    d2 = d2
    e1 = e1
    Nobody = Nobody
    Delivery <- Deliveries
    Edit <- Edits
    MaxRequests = 2
    MaxAttempts = 2
    MaxFaults = 2
INVARIANT AtMostOnce
INVARIANT DeliveredIsOnTheBoard
PROPERTY RowForgetsOnlyToOlderCopies
CHECK_DEADLOCK FALSE
