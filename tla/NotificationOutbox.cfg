SPECIFICATION FairSpec
CONSTANTS
    invite = invite
    ack = ack
    w1 = w1
    w2 = w2
    Jobs <- MCJobs
    Sms <- MCSms
    Invites <- MCInvites
    Acks <- MCAcks
    Workers <- MCWorkers
    MaxDisturbances = 1
INVARIANTS
    TypeOK
    DeliveredOnce
    DoneIsDelivered
    NoInviteOnceWithdrawn
    OnePushPerDelivery
PROPERTIES
    EveryJobCloses
    DeliveryPromise
CHECK_DEADLOCK FALSE
