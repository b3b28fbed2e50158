\* Up to three channels, with scores that tie, differ and fall under an hour.
\* The list ends with the ids.
CONSTANTS
    Ids = {1, 2, 3}
    Amounts = {0, 1, 3}
    Lifetimes = {1, 4}
    Balances = {0, 2, 3, 4}
    MinWalletBalance = 4
    MinChanLifetime = 2
    BlocksPerHour = 2
SPECIFICATION Spec
INVARIANT ClosesLowestFirst
INVARIANT ClosesEnough
INVARIANT ClosesNoMore
CHECK_DEADLOCK FALSE
