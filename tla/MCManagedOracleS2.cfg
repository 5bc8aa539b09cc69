CONSTANTS
    c1 = c1
    c2 = c2
    c3 = c3
    NoConfig = NoConfig
    Configs <- MCConfigs
    ChainPlan <- MCChainPlan
    Version <- MCVersion
    Resolution <- MCResolution
    Confirmations = 2
    SkipConfirmations = FALSE
    MaxHeight = 5
    ChanCap = 1
    MaxRpcFailures = 0
    EndpointCanFail = FALSE
    MaxCrashes = 1

SPECIFICATION Spec

\* Scenario S2: a restored config is not written back to the database.
INVARIANT RestoredConfigNotRewritten

\* Once Close has returned and no crash is left, the process has stopped.
CHECK_DEADLOCK FALSE
