\* An edit between the revalidation and the write.
CONSTANTS
    Workers = {w1, w2}
    MaxSteps = 7
    MaxWakes = 2
    MaxEdits = 1
    MaxDisturbances = 0

SPECIFICATION Spec

INVARIANT
    NoOverwrittenEdit

\* A closed run with nothing left to signal may stop.
CHECK_DEADLOCK FALSE
