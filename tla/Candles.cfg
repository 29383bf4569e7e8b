\* Three trades in two minutes at two prices, two attempts, one restart.
CONSTANTS
    Windows = {0, 1}
    Prices = {1, 2}
    MaxTrades = 3
    MaxAttempts = 2
    MaxStarts = 2
SPECIFICATION CandlesSpec
INVARIANT EachWriterCountsOnce
CHECK_DEADLOCK FALSE
