\* Three requests: two may be pending while a third reuses nothing of theirs.
\* No symmetry: liveness is checked.
SPECIFICATION FairSpec
CHECK_DEADLOCK FALSE
CONSTANTS
    Requests = {r1, r2, r3}
    Initialize = Initialize
    None = None
INVARIANTS
    AnswersMatch
    NoneForgotten
    NoOrphanChild
PROPERTIES
    FirstFailureFinal
    EveryCallReturns
    ImplementsLink
