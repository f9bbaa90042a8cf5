SPECIFICATION FairSpec
CONSTANTS
    invoice = invoice
    quote = quote
    w1 = w1
    w2 = w2
    Invoices <- MCInvoices
    Quotes <- MCQuotes
    Workers <- MCWorkers
    MaxEdits = 1
    MaxDisturbances = 2
INVARIANTS
    TypeOK
    OneCustomerPerPiece
    ArchivedAsIssued
    NothingUnannounced
PROPERTIES
    NoStolenLease
    EveryOrderArchived
    OriginalPromise
CHECK_DEADLOCK FALSE
