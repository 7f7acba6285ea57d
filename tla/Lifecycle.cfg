SPECIFICATION FairSpec
CONSTANTS
    Services = {s1, s2, s3}
INVARIANTS
    TypeOK
    VerdictTruthful
PROPERTIES
    HealthAnswersTrue
    ShutdownReachesAll
