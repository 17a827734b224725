CONSTANTS
    r1 = r1
    r2 = r2
    w1 = w1
    w2 = w2
    NoRelay = NoRelay
    Rows = {r1, r2}
    Relays = {w1, w2}
    MaxAttempts = 2
    BatchSize = 2
    Lease = 1
    BackoffBase = 1
    BackoffCap = 3
    MaxRetryAfter = 2
    Hints <- MCHints
    Faults = {"crash", "db", "slow", "uncertain", "defer"}
SPECIFICATION Spec
SYMMETRY RowAndRelaySymmetry
INVARIANTS
    TypeOK
    CallsWithinBudget
    HeldRowIsCurrent
    SentWasDelivered
PROPERTY
    TerminalIsFinal
    ImplementsQueue
