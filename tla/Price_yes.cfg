\* One trade of the NO token is enough.
CONSTANTS
    market = market
    condition = condition
    yes = yes
    no = no
    Ids = {market}
    Tokens = {yes, no}
    Yes = yes
    Feed <- RawEvents
    Depth = 2
    Partitions = {p1, p2}
    Updates <- AnyUpdate
    Trades <- SomeTrades
    Window = 1
    None = None
    MaxRaw = 1
    MaxUpdates = 1
    MaxTrades = 1
    MaxInputs = 1
    MaxTime = 2
    MaxStarts = 1
SYMMETRY Symmetry
SPECIFICATION ProcSpec
INVARIANTS YesPriceIsYes
CHECK_DEADLOCK FALSE
