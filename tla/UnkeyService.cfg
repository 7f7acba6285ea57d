SPECIFICATION FairSpec
CONSTANTS
    Requests = {r1, r2, r3}
    Capacity = 2
    Customers = {"customer"}
INVARIANTS
    TypeOK
    PlacesConserved
    CalledReadyAndVerified
PROPERTIES
    RequestsResolve
