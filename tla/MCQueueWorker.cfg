\* One Job fought over by two Workers, one of which may crash; leases last
\* one tick and every database call can fail.
CONSTANTS
    Jobs = {j1}
    Workers = {w1, w2}
    None = None
    MaxAttempts = 2
    LeaseSeconds = 1
    Backoffs = {1, 2}
    MaxSkew = 0
    MaxProgress = 2
    RetryBase = 1
    MaxCrashes = 1
    JoinMayTimeOut = TRUE
SPECIFICATION FairSpec
INVARIANTS LeaseMeansCurrent LastAttemptWins ProgressIsAttributable MemoryFollowsCommit
PROPERTIES CancellationEnds EveryJobEnds
