CONSTANTS
    laptop = laptop
    phone = phone
    left = left
    right = right
    mobile = mobile
    ann = ann
    NoUser = NoUser
    Browser <- MCBrowser
    Tab <- MCTwoTab
    User <- MCUser
    Home <- MCHome
    MaxSession = 2
    MaxClock = 1
    MaxText = 1
    MaxAsked = 3
    Idle = 1
    Warning = 1
    Absolute = 3
SPECIFICATION Spec
PROPERTY KickSparesLiveSession
CHECK_DEADLOCK FALSE
