\* Three markets of one event, one of which the list of markets leaves unnamed;
\* one item that opens or closes, messages of one market that get lost, and
\* requests for the least number of rows that SiblingsReturn is about.
CONSTANTS
    m1 = m1
    m2 = m2
    m3 = m3
    e1 = e1
    NoEvent = NoEvent
    NoRow = NoRow
    Markets = {m1, m2, m3}
    Events = {e1}
    Members <- ThreeMarkets
    OwnEvent <- PartlyNamed
    Tradable = {}
    Limit = 3
    MaxChanges = 1
    MaxRefused = 0
    MaxCrashes = 0
    MaxQueued = 1
    RowLimit = 3
    MaxLost = 1
SPECIFICATION CatFairSpec
INVARIANT MemberHasRow
PROPERTY SiblingsReturn
