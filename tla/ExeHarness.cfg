SPECIFICATION FairSpec
CONSTANTS
    MemRead <- Rd
    MemWrite <- Wr
    IoRead <- In
    IoWrite <- Out
    Programs <- MCPrograms
    Chosen <- Correct
    MaxTicks = 1
    ClobberWin3 = FALSE
INVARIANTS TypeOK EndsAsPromised Transparent IrqsOffWhileOpen
PROPERTIES Finishes
