\* Three requests of one node, long enough for a lease to end.
CONSTANTS
    Nodes = {n1}
    InvoiceExpiration = 1
    NoEntry = NoEntry
    MaxTime = 2
    Reqs = {q1, q2, q3}
    InvoiceExpiry = 1
    MaxOverpay = 0
    MaxDrops = 0
    MaxDuplicates = 0
    Sizes = {3}
    Configs <- MCOneConfig
    RateScale = 2
    MaxNbChannels = 2
    MaxPendingChans = 2
    MaxStops = 0
SYMMETRY MCSymmetry
SPECIFICATION Spec
INVARIANT OnePendingRequest
