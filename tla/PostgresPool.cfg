SPECIFICATION FairSpec
CONSTANTS
    Nodes = {n1, n2, n3}
    MaxRetries = 2
INVARIANTS
    TypeOK
    SchemaInPlace
PROPERTIES
    PoolCreationEnds
    NodesStart
