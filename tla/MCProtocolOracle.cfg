\* One honest and one arbitrary sender; three messages each, so that a
\* two-slot ring both holds two future epochs and overflows.
CONSTANTS
    N = 2
    Honest = {0}
    MaxEpoch = 2
    MaxSends = 3
    BufCap = 2

SPECIFICATION Spec

INVARIANT TypeOK
INVARIANT HonestNotStranded

\* The oracle stops for good once it has exited, and also in the circular
\* wait the plain sends allow (see MCProtocolOracleStuck.cfg).
CHECK_DEADLOCK FALSE
