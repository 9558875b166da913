SPECIFICATION Spec
CONSTANTS
    j1 = j1  j2 = j2
    w1 = w1  w2 = w2
    b1 = b1
    Jobs = {j1, j2}
    NoJob = NoJob
    CDPWorkers = {w1}
    Native = native
    Stopper = stopper
    Browsers = {b1}
    JobBrowser <- MCJobBrowser
    Priority <- MCSamePriority
    NeedsNative <- MCMixedNeeds
    Backend <- MCBackend
    Reasons = {takeover}
    Takeover = takeover
    ChanCap = 1
    MaxRegs = 1
INVARIANT NeverSendsOnClosed
CHECK_DEADLOCK FALSE
