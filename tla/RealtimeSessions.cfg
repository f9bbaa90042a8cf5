SPECIFICATION FairSpec
CONSTANTS
    s1 = s1
    s2 = s2
    alice = alice
    bruno = bruno
    c1 = c1
    c2 = c2
    Sessions <- MCSessions
    Principals <- MCPrincipals
    Closers <- MCClosers
    Places = 1
    MaxDisturbances = 1
INVARIANTS
    TypeOK
PROPERTIES
    PlacePromise
    EveryPlaceComesBack
CHECK_DEADLOCK FALSE
