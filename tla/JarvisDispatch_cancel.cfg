\* A cancellation between the confirmation and the authorization.
CONSTANTS
    Workers = {w1, w2}
    MaxSteps = 7
    MaxWakes = 2
    MaxEdits = 0
    MaxDisturbances = 0

SPECIFICATION Spec

PROPERTY
    CancellationCloses

\* A closed run with nothing left to signal may stop.
CHECK_DEADLOCK FALSE
