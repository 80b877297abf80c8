SPECIFICATION FairSpec
CONSTANTS
    PStart = 78
    PStop = 83
    RstOnStop = TRUE
    Sizes = {2, 3}
    BufferPages = 2
    MaxFrames = 3
    MaxSends = 2
    SelectTries = 2
    HdrRetries = 2
    TxTries = 2
    ClearTries = 2
    Lengths = {300}
    Faulty <- LostCycles
    MaxFaults = 2
INVARIANTS TypeOK HeldIsWhole RegistersIntact
PROPERTIES SentIsTrue ImplementsQueue NeverDeaf
