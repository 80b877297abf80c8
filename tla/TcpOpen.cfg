SPECIFICATION FairSpec
CONSTANTS
    Server = s
    Ports = {p1}
    Clients = {c1, c2}
    Silent <- NoClient
    ListenPort = p0
    SynAttempts = 2
    SynWait = 2
    Budgets = {0, 2}
    MaxDraws = 2
    MaxTheirs = 2
    WireMax = 2
INVARIANTS TypeOK Synchronised
PROPERTIES HandshakesEnd
