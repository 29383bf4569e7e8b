\* One client that changes its filter between two markets, falls behind, comes and
\* goes; two of its commands may wait in the channel.
CONSTANTS
    c1 = c1
    m1 = m1
    m2 = m2
    none = none
    trades = trades
    NoMarket = none
    Clients = {c1}
    Markets = {m1, m2}
    Sources = {trades}
    Requests <- FilterRequests
    SendCap = 1
    BroadcastCap = 1
    SubscribeCap = 2
    MaxMsgs = 2
    Stoppable = TRUE
SPECIFICATION FairSpec
INVARIANTS TypeOK NoPanic LastRequestWins
PROPERTIES ImplementsFeed SlowClientNeverBlocks LostConnectionIsCleanedUp
CHECK_DEADLOCK FALSE
