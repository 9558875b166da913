SPECIFICATION FairSpec
CONSTANTS
    c1 = c1  c2 = c2
    b1 = b1  b2 = b2  b3 = b3
    Clients = {c1, c2}
    Free = Free
    Browsers = {b1, b2, b3}
    Kind <- MCKind
    UI = ui
    Takeover = takeover
INVARIANTS
    TypeOK
    CountExact
    Converged
    OneWatchdog
    HookFed
    TakeoverOwned
    StoppedClean
    WillResume
PROPERTIES
    CallsReturn
    MovePauses
    AutoResumes
CHECK_DEADLOCK FALSE
