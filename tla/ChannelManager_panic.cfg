\* A channel that is open as soon as its funding is in a block.
CONSTANTS
    Chans = {c1}
    Ignored = {}
    Capacity = 2
    FundingConfs = 1
    InitialWallet = 2
    MaxHeight = 4
    MaxClosers = 1
    MinWalletBalance = 2
    MinChanLifetime = 2
    BlocksPerHour = 2
SPECIFICATION Spec
INVARIANT LifetimeIsPositive
