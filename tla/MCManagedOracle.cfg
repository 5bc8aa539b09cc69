CONSTANTS
    c1 = c1
    c2 = c2
    c3 = c3
    NoConfig = NoConfig
    Configs <- MCConfigs
    ChainPlan <- MCChainPlan
    Version <- MCVersion
    Resolution <- MCResolution
    Confirmations = 2
    SkipConfirmations = FALSE
    MaxHeight = 6
    ChanCap = 1
    MaxRpcFailures = 1
    EndpointCanFail = TRUE
    MaxCrashes = 1

SPECIFICATION Spec

INVARIANT TypeOK
INVARIANT AtMostOneInner
INVARIANT EndpointOutlivesInner
INVARIANT NoStaleInner
INVARIANT NoRedundantRestart
INVARIANT CloseReturnsClean

\* Once Close has returned and no crash is left, the process has stopped.
CHECK_DEADLOCK FALSE
