\* One client's request for 3 under four configurations, the process ending
\* once or twice with the update stream, and one channel of another peer.
CONSTANTS
    ChanSize = 3
    Policies <- MCPolicies
    RateScale = 4
    MaxOutbound = 4
    MaxChannels = 0
    MaxOthers = 1
    Nodes = {n1}
    InvoiceExpiration = 1
    NoEntry = NoEntry
    MaxTime = 2
    Reqs = {q1}
    InvoiceExpiry = 1
    MaxDrops = 0
    Configs <- MCConfigs
    MaxNbChannels = 1
    MaxPendingChans = 1
    MaxStops = 2
    Me = q1
SPECIFICATION FairPurchaseSpec
INVARIANT TypeOK
INVARIANT PaysWhatWasShown
INVARIANT WaitIsAnswerable
INVARIANT SuccessIsPaidFor
INVARIANT FairDeal
INVARIANT SuccessIsDelivery
INVARIANT PayingIsRecorded
PROPERTY OpeningIsHeard
PROPERTY ImplementsClient
\* The request returns, and the process may stay down.
CHECK_DEADLOCK FALSE
