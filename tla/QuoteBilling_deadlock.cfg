\* Two requests that wait for one another.
CONSTANTS
    Clients = {c1, c2}
    Market = 2
    DepositAmount = 1
    MaxSituations = 2

SPECIFICATION Spec

INVARIANT
    NoCircularWait

CHECK_DEADLOCK FALSE
