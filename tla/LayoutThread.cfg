SPECIFICATION Spec
CONSTANTS
    click = click  nativeType = nativeType  remoteType = remoteType  go = go  scroll = scroll
    t1 = t1  t2 = t2
    Jobs = {click, nativeType, remoteType, go, scroll}
    NoJob = NoJob
    Kind <- MCKind
    ClearFirst <- MCClearFirst
    OnNative <- MCOnNative
    DriftRetries = 2
    Threads = {t1, t2}
INVARIANT LayoutRestored
CHECK_DEADLOCK FALSE
