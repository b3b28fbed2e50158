\* A request for 4 under five policies, and a channel opened by another peer.
\* A request that returned is over.
CONSTANTS
    ChanSize = 4
    Policies <- MCPolicies
    RateScale = 2
    MaxOutbound = 5
    MaxChannels = 1
    MaxOthers = 1
SPECIFICATION Spec
INVARIANT SuccessMeansChannel
CHECK_DEADLOCK FALSE
