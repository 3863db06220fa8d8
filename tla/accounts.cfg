CONSTANTS
    ann = ann
    bob = bob
    desk = desk
    phone = phone
    NoUser = NoUser
    User <- MCUser
    Seat <- MCSeat
    Tier1 = 2
    Tier2 = 3
    MaxAsked = 3
    MaxPassword = 1
    MaxSecret = 2
    MaxCode = 2
    MaxLinks = 1
SPECIFICATION Spec
SYMMETRY MCSymmetry
INVARIANTS
    TypeOK
    Administered
    SecondFactorIsHeld
    SessionsFollowAccount
    SpentCodesAreRefused
PROPERTIES
    PermanentLockStands
CHECK_DEADLOCK FALSE
