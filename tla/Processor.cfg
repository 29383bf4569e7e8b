\* One market with two tokens; three inputs, up to two of them raw events; two
\* partitions; one restart.
CONSTANTS
    market = market
    condition = condition
    yes = yes
    no = no
    Ids = {market}
    Tokens = {yes, no}
    Yes = yes
    Feed <- RawEvents
    Depth = 2
    Partitions = {p1, p2}
    Updates <- AnyUpdate
    Trades <- SomeTrades
    Window = 1
    None = None
    MaxRaw = 2
    MaxUpdates = 2
    MaxTrades = 3
    MaxInputs = 3
    MaxTime = 2
    MaxStarts = 2
SYMMETRY Symmetry
SPECIFICATION ProcSpec
INVARIANTS ProcTypeOK BooksAreReplayed PricesAreSnapshots VolumeIsWindow StaleOnlyIfOvertaken PriceFollowsBook
CHECK_DEADLOCK FALSE
