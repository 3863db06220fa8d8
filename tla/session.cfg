CONSTANTS
    laptop = laptop
    phone = phone
    left = left
    right = right
    mobile = mobile
    ann = ann
    NoUser = NoUser
    Browser <- MCBrowser
    Tab <- MCLaptopTab
    User <- MCUser
    Home <- MCHome
    MaxSession = 3
    MaxClock = 4
    MaxText = 1
    MaxAsked = 2
    Idle = 1
    Warning = 1
    Absolute = 3
SPECIFICATION Spec
SYMMETRY MCSymmetry
INVARIANTS
    TypeOK
    OneLiveSession
    LiveSessionsAreHeld
PROPERTIES
    QuietBeforeIdleLogout
    RestoreKeepsNewText
CHECK_DEADLOCK FALSE
