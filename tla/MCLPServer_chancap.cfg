\* One node, two requests, and at most one channel to a node.
CONSTANTS
    Nodes = {n1}
    InvoiceExpiration = 1
    NoEntry = NoEntry
    MaxTime = 2
    Reqs = {q1, q2}
    InvoiceExpiry = 1
    MaxOverpay = 0
    MaxDrops = 0
    MaxDuplicates = 0
    Sizes = {3}
    Configs <- MCOneConfig
    RateScale = 2
    MaxNbChannels = 1
    MaxPendingChans = 2
    MaxStops = 0
SYMMETRY MCSymmetry
SPECIFICATION Spec
INVARIANT MaxChannelsPerNode
