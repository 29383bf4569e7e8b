\* Two markets, one of them traded under two ids; two clients at a time, one of
\* which goes on to the second page; two markets on a page.
CONSTANTS
    m1 = m1
    m2 = m2
    c1 = c1
    r1 = r1
    r2 = r2
    Markets = {m1, m2}
    Conditions = {c1}
    MarketOf <- OneCondition
    Requests = {r1, r2}
    Limit = 2
    RankRows = 2
    RecentRows = 2
    TTL = 1
    MaxTraded = 2
    MaxRows = 2
    Pages <- OneGoesOn
SPECIFICATION FairSpec
INVARIANTS TypeOK NoTwiceOnPage EndMeansAll
PROPERTY ShowsInTheEnd
