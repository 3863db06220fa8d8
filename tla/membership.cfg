CONSTANTS
    ann = ann
    bob = bob
    User <- MCUser
    MaxWorkspaces = 3
    MaxInvitations = 1
    MaxRequests = 2
    MaxAsked = 5
    Cap = 1
SPECIFICATION Spec
INVARIANTS
    OneOwner
    OrphanedOnlyByRace
    CapOverrunIsBounded
PROPERTIES
    JoiningSpendsAnInvitation
CHECK_DEADLOCK FALSE
