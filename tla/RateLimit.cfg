\* Two addresses, one of them a trusted proxy; two goroutines; two requests a
\* minute of two ticks, in which a counter is evicted at most once.
CONSTANTS
    Addresses = {client, proxy}
    Trusted = {proxy}
    Workers = {w1, w2}
    Limit = 2
    Minute = 2
    MaxEvictions = 1
    None = None
SPECIFICATION FairSpec
INVARIANTS TypeOK AtMostTwiceTheLimit NoExpiryIsExplained
PROPERTY RefusedIsLetInAgain
