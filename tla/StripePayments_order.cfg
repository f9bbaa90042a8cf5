SPECIFICATION Spec
CONSTANTS
    link = link
    h1 = h1
    h2 = h2
    Links <- MCNone
    Handlers <- MCHandlers
    Net = 1
    Retention = 1
    MaxChanges = 2
    MaxDisturbances = 1
INVARIANT
    StripeIsAuthority
CHECK_DEADLOCK FALSE
