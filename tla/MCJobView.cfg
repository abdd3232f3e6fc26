\* A page with up to two refreshes in flight, on a Job that runs once, with
\* up to two network failures or reloads.
CONSTANTS
    Jobs = {j1}
    Workers = {w1}
    None = None
    MaxAttempts = 1
    LeaseSeconds = 1
    Backoffs = {0}
    MaxSkew = 0
    MaxProgress = 0
    Watched = j1
    MaxDrops = 2
    MaxInFlight = 2
SPECIFICATION FairPageSpec
INVARIANTS NoGaps TerminalViewIsTrue
PROPERTIES ViewConverges
