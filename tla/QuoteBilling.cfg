\* Two requests at once, a deposit, two situations, a final.
CONSTANTS
    Clients = {c1, c2}
    Market = 2
    DepositAmount = 1
    MaxSituations = 2

SPECIFICATION Spec
SYMMETRY ClientSymmetry

INVARIANTS
    TypeOK
    MarketBilledOnce
    FinalDeductsItsSisters
    NumbersWithoutGap

PROPERTIES
    NothingBilledAfterRetractation
    LegalPiecesStay
    MarketPromise

\* Once everything is issued, credited and withdrawn, nothing is left to do.
CHECK_DEADLOCK FALSE
