CONSTANTS
    N = 2
    Honest = {0}
    MaxEpoch = 3
    MaxSends = 2
    BufCap = 1

SPECIFICATION Spec

\* RunOracle returns once its context is cancelled.
PROPERTY CancelledOracleExits

\* The oracle stops for good once it has exited.
CHECK_DEADLOCK FALSE
