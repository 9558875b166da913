SPECIFICATION Spec
CONSTANTS
    Keys = {"S", "F10", "F11"}
    NoKey = "none"
    RawKey = "raw"
    Junk = "junk"
    c1 = c1  c2 = c2
    Clients = {c1, c2}
    ReasonOf <- MCReasonOf
    Free = Free  Over = Over
    OptionLists <- MCOptionLists
    TakenSets <- MCTakenSets
    Texts <- MCTexts
    MaxStarts = 2
    MaxCalls = 1
    MaxPresses = 1
    MaxTokens = 1
INVARIANTS
    NoDoubleClose
CHECK_DEADLOCK FALSE
