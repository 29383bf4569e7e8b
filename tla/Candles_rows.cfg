\* Two trades in one minute.
CONSTANTS
    Windows = {0}
    Prices = {1, 2}
    MaxTrades = 2
    MaxAttempts = 1
    MaxStarts = 1
SPECIFICATION CandlesSpec
INVARIANT RowsAreCandles
CHECK_DEADLOCK FALSE
