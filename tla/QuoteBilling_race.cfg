\* A call and the final drafted at the same time.
CONSTANTS
    Clients = {c1, c2}
    Market = 2
    DepositAmount = 1
    MaxSituations = 2

SPECIFICATION Spec

PROPERTY
    NoCallBesideAFinal

CHECK_DEADLOCK FALSE
