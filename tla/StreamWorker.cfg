\* One market, two reconnections, one crash.
CONSTANTS
    Markets = {m1}
    MaxConns = 3
    MaxCrashes = 1
SPECIFICATION FairSpec
INVARIANTS TypeOK NoTokenForgotten
PROPERTY SubscribedInTheEnd
