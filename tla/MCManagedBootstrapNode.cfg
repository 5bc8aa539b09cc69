CONSTANTS
    c1 = c1
    c2 = c2
    c3 = c3
    NoConfig = NoConfig
    Configs <- MCConfigs
    ChainPlan <- MCChainPlan
    Version <- MCVersion
    Decodes <- MCDecodes
    Confirmations = 2
    SkipConfirmations = FALSE
    MaxHeight = 6
    ChanCap = 1
    MaxRpcFailures = 1
    BootstrapperCanFail = TRUE
    MaxCrashes = 1

SPECIFICATION Spec

INVARIANT TypeOK
INVARIANT NoStaleBootstrapper
INVARIANT NoRedundantRestart
PROPERTY ConvergesToChain
PROPERTY CancelledNodeReturns

\* Once run() has returned and no crash is left, the node has stopped.
CHECK_DEADLOCK FALSE
