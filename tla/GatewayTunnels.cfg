\* No symmetry: liveness is checked.
SPECIFICATION FairSpec
CHECK_DEADLOCK FALSE
CONSTANT
    Clients = {c1, c2}
INVARIANTS
    SettledHoldsNothing
    CleanEndIsReal
    ClosedCutsTunnels
    ReadyMeansAlive
    NothingLeft
PROPERTIES
    EveryExchangeEnds
    ShutdownTerminates
