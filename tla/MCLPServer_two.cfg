\* Two requests of one node, a crash and a lost connection; no symmetry, as one
\* property is of liveness.
CONSTANTS
    Nodes = {n1}
    InvoiceExpiration = 1
    NoEntry = NoEntry
    MaxTime = 2
    Reqs = {q1, q2}
    InvoiceExpiry = 1
    MaxOverpay = 0
    MaxDrops = 1
    MaxDuplicates = 0
    Sizes = {3}
    Configs <- MCOneConfig
    RateScale = 2
    MaxNbChannels = 2
    MaxPendingChans = 2
    MaxStops = 1
SPECIFICATION FairSpec
INVARIANT PayableIsRecorded
PROPERTY ImplementsLease
PROPERTY StaleIsCollected
PROPERTY EntryOutlivesInvoice
PROPERTY PaidIsServed
