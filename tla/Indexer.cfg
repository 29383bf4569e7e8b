\* Three unreliable endpoints: one reports old heights, one streams, and one of
\* those that poll and the one that streams may hang.
CONSTANTS
    N = 3
    Failing = {0, 1, 2}
    Lagging = {1}
    Hanging = {0, 2}
    Streaming = {2}
    Cooldown = 4
    MaxErrors = 2
    Back = 2
    Chunk = 1
    Word = 32
    FirstHead = 2
    MaxHead = 7
    MinReport = 2
SPECIFICATION FairSpec
INVARIANTS TypeOK NoGapInCycle NeverAhead BadEndpointIsBenched
PROPERTY CatchesUpUnlessStuck
CHECK_DEADLOCK FALSE
