\* One message of up to two trades, one backfill fetch,
\* two attempts per batch, one restart.
CONSTANTS
    MaxRaw = 1
    PerMessage = 2
    MaxBackfill = 1
    MaxAttempts = 2
    MaxStarts = 2
SPECIFICATION FairSpec
INVARIANTS TypeOK NoneVanishes NoneTwice
PROPERTIES AcceptedOnce ConsumersGoOn
CHECK_DEADLOCK FALSE
