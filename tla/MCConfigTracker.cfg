CONSTANTS
    c1 = c1
    c2 = c2
    NoConfig = NoConfig
    Configs <- MCConfigs
    ChainPlan <- MCChainPlan
    Version <- MCVersion
    Confirmations = 2
    SkipConfirmations = FALSE
    MaxHeight = 5
    ChanCap = 1
    MaxRpcFailures = 2

SPECIFICATION FairSpec

INVARIANT TypeOK
PROPERTY ImplementsConfigFeed
INVARIANT SubscriptionNoLeak

\* The tracker exits once the context is cancelled and the consumer has
\* drained the channel: that end state is not a deadlock.
CHECK_DEADLOCK FALSE
