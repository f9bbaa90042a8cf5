\* A closure between the revalidation and the write.
CONSTANTS
    Workers = {w1, w2}
    MaxSteps = 7
    MaxWakes = 2
    MaxEdits = 0
    MaxDisturbances = 1

SPECIFICATION Spec

PROPERTY
    NoEffectOnceClosed

\* A closed run with nothing left to signal may stop.
CHECK_DEADLOCK FALSE
