\* One request and one lost connection.
CONSTANTS
    Nodes = {n1}
    InvoiceExpiration = 1
    NoEntry = NoEntry
    MaxTime = 2
    Reqs = {q1}
    InvoiceExpiry = 1
    MaxOverpay = 0
    MaxDrops = 1
    MaxDuplicates = 0
    Sizes = {3}
    Configs <- MCOneConfig
    RateScale = 2
    MaxNbChannels = 1
    MaxPendingChans = 1
    MaxStops = 0
SPECIFICATION Spec
INVARIANT PaymentTriggersChannel
