SPECIFICATION FairSpec
CONSTANTS
    link = link
    h1 = h1
    h2 = h2
    Links <- MCLinks
    Handlers <- MCHandlers
    Net = 1
    Retention = 1
    MaxChanges = 1
    MaxDisturbances = 1
INVARIANTS
    TypeOK
    RecordedOnce
    NoReceiptBeforeRecord
PROPERTIES
    ReceiptsStay
    PaymentPromise
    EveryEventSettles
CHECK_DEADLOCK FALSE
