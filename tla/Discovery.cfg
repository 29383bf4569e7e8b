\* Three markets, one of them in an event and with tokens.
CONSTANTS
    m1 = m1
    m2 = m2
    m3 = m3
    e1 = e1
    Markets = {m1, m2, m3}
    Events = {e1}
    Members <- OneEvent
    Tradable = {m1}
    Limit = 1
    MaxChanges = 2
    MaxRefused = 1
    MaxCrashes = 1
SPECIFICATION FairSpec
INVARIANTS TypeOK EachClosingHidesOne WrittenBeforeUsed
PROPERTY PublishedAgain
