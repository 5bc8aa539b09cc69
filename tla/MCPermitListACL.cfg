CONSTANTS
    Protocols = {p1, p2}
    Peers = {a, b, c}

SPECIFICATION Spec

PROPERTY NoSilentRevocation

\* Reject panics: after it the process has stopped.
CHECK_DEADLOCK FALSE
