SPECIFICATION FairSpec
CONSTANTS
    click = click  nativeType = nativeType  remoteType = remoteType  go = go  scroll = scroll
    t1 = t1  t2 = t2
    Jobs = {click, nativeType, remoteType, go, scroll}
    NoJob = NoJob
    Kind <- MCKind
    ClearFirst <- MCClearFirst
    OnNative <- MCOnNative
    DriftRetries = 2
    Threads = {t1, t2}
INVARIANTS
    TypeOK
    InputsFollowPlan
    DoneMeansAll
    AttemptsBounded
PROPERTIES
    CancelledAsleep
    EveryRunEnds
CHECK_DEADLOCK FALSE
