SPECIFICATION FairSpec
CHECK_DEADLOCK FALSE
CONSTANTS
    None = None
    Runs = {l1, m1}
    LocalRuns = {l1}
INVARIANTS
    NeverCutOff
    StopCanReach
    StoppedMeansRestored
PROPERTIES
    LaterStopFinishes
