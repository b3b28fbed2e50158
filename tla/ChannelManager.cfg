\* A managed and an ignored channel; two confirmations, three blocks, and a
\* wallet that may fall below the minimum.
CONSTANTS
    Chans = {c1, c2}
    Ignored = {c2}
    Capacity = 2
    FundingConfs = 2
    InitialWallet = 2
    MaxHeight = 4
    MaxClosers = 2
    MinWalletBalance = 2
    MinChanLifetime = 2
    BlocksPerHour = 2
SPECIFICATION FairSpec
INVARIANT TypeOK
INVARIANT NeverPanics
PROPERTY OnlyManagedAreClosed
PROPERTY ShortageIsManaged
