SPECIFICATION FairSpec
CONSTANTS
    Keys = {"S", "F10", "F11"}
    NoKey = "none"
    RawKey = "raw"
    Junk = "junk"
    c1 = c1  c2 = c2
    Clients = {c1, c2}
    ReasonOf <- MCReasonOf
    Free = Free  Over = Over
    OptionLists <- MCOptionLists
    TakenSets <- MCTakenSets
    Texts <- MCTexts
    MaxStarts = 1
    MaxCalls = 2
    MaxPresses = 2
    MaxTokens = 4
INVARIANTS
    TypeOK
    AllOrNothing
    NotifiedExactly
    StopJoinsListener
    TextMeaning
PROPERTIES
    StopGoesThrough
CHECK_DEADLOCK FALSE
