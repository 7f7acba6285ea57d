SPECIFICATION FairSpec
CONSTANTS
    Tests = {t1, t2, t3, t4}
INVARIANTS
    TypeOK
    OneContainer
PROPERTIES
    TestsServed
