SPECIFICATION FairSpec
CONSTANTS
    Endpoints = {e1, e2}
    MaxTimes = 2
INVARIANTS
    TypeOK
    ErrorIsUnanimous
    OnlyResultsWin
PROPERTIES
    HealthyEndpointWins
    RequestResolves
    ImplementsRace
