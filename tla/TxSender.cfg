SPECIFICATION FairSpec
CONSTANTS
    Jobs = {j1, j2, j3}
    QueueSize = 2
INVARIANTS
    TypeOK
    LandedInOrder
    ReplyTruthful
    PermitsConserved
PROPERTIES
    SubmitsResolve
    QueueDrained
    CancelStops
