CONSTANTS
    c1 = c1
    c2 = c2
    c3 = c3
    NoConfig = NoConfig
    Configs <- MCConfigs
    ChainPlan <- MCChainPlan
    Version <- MCVersion
    Resolution <- MCResolution
    Confirmations = 2
    SkipConfirmations = FALSE
    MaxHeight = 5
    ChanCap = 1
    MaxRpcFailures = 0
    EndpointCanFail = TRUE
    MaxCrashes = 0

SPECIFICATION Spec

\* No endpoint is left open besides the one the supervisor holds.
INVARIANT NoLeakedEndpoint

\* Once Close has returned, the process has stopped.
CHECK_DEADLOCK FALSE
