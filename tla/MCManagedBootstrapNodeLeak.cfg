CONSTANTS
    c1 = c1
    c2 = c2
    c3 = c3
    NoConfig = NoConfig
    Configs <- MCConfigs
    ChainPlan <- MCChainPlan
    Version <- MCVersion
    Decodes <- MCDecodes
    Confirmations = 2
    SkipConfirmations = FALSE
    MaxHeight = 6
    ChanCap = 1
    MaxRpcFailures = 0
    BootstrapperCanFail = TRUE
    MaxCrashes = 0

SPECIFICATION Spec
INVARIANT NoLeakedBootstrapper







\* Once run() has returned and no crash is left, the node has stopped.
CHECK_DEADLOCK FALSE
