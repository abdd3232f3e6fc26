\* Two Jobs, two Workers, a retry each, clocks up to a tick apart.
CONSTANTS
    Jobs = {j1, j2}
    Workers = {w1, w2}
    None = None
    MaxAttempts = 2
    LeaseSeconds = 1
    Backoffs = {0, 1}
    MaxSkew = 1
    MaxProgress = 1
SPECIFICATION Spec
SYMMETRY Symmetry
INVARIANTS LedgerAgrees LogAgrees CancellationWins
PROPERTIES HistoryIsStable ImplementsLifecycle
