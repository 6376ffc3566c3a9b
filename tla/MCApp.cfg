\* Two threads post the first transactions of one coin.  The process
\* stops when undefined behaviour faults, so deadlock is not checked.
CONSTANTS
    th1 = th1
    th2 = th2
    u1 = u1
    d1 = d1
    c1 = c1
    None = None
    Missing = Missing
    Threads <- MCThreads
    Users <- MCUsers
    Coins <- MCCoins
    Portfolio <- MCPortfolio
    Resources <- MCResources
    Requests <- MCRequests
    MaxTx = 2
SPECIFICATION Spec
INVARIANT TransactionsKept
CHECK_DEADLOCK FALSE
