\* Two overlapping ticks, one edit, two things that go wrong.
CONSTANTS
    Workers = {w1, w2}
    MaxSteps = 7
    MaxWakes = 2
    MaxEdits = 1
    MaxDisturbances = 2

SPECIFICATION Spec

INVARIANTS
    TypeOK
    CancelledMeansNoEffect
    SuccessMeansWritten
    RunReportsTheEffect
    AcknowledgedMeansRecorded

PROPERTIES
    ResultIsFinal
    DriftWithdraws
    CommittingEnds
    AuthorizedRunCloses
    EffectPromise

\* A closed run with nothing left to signal may stop.
CHECK_DEADLOCK FALSE
