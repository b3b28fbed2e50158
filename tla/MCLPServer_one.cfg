\* One request under four configurations: it is paid, perhaps too much, told of
\* up to three times, and the process may end twice and start with another one.
CONSTANTS
    Nodes = {n1}
    InvoiceExpiration = 1
    NoEntry = NoEntry
    MaxTime = 3
    Reqs = {q1}
    InvoiceExpiry = 1
    MaxOverpay = 1
    MaxDrops = 1
    MaxDuplicates = 2
    Sizes = {2, 3, 4}
    Configs <- MCConfigs
    RateScale = 2
    MaxNbChannels = 1
    MaxPendingChans = 1
    MaxStops = 2
SPECIFICATION Spec
INVARIANT LPTypeOK
INVARIANT OneChannelPerPayment
INVARIANT ServedIsPaidInFull
INVARIANT ServedWithinPolicy
INVARIANT PaidIsAccounted
INVARIANT IInv
PROPERTY ImplementsSale
