CONSTANTS
    o1 = o1
    o2 = o2
    s1 = s1
    s2 = s2
    Oracles = {o1, o2}
    Secrets = {s1, s2}
    PeerOf <- MCPeerOf
    Delays = {0, 255}
    MaxN = 2
    Fs = {1}
    aggregator = aggregator
    ContractAddress = aggregator
    MaxSetConfigs = 2

SPECIFICATION Spec

INVARIANT ResolveMatchesSpec
INVARIANT AgreeOnSecret
INVARIANT RoundTrip

\* Once the last setConfig has been resolved by every oracle, nothing is
\* left to happen until someone calls setConfig again.
CHECK_DEADLOCK FALSE
