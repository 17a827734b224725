CONSTANTS
    r1 = r1
    r2 = r2
    w1 = w1
    w2 = w2
    NoRelay = NoRelay
    Rows = {r1, r2}
    Relays = {w1, w2}
    MaxAttempts = 2
    BatchSize = 2
    Lease = 2
    BackoffBase = 1
    BackoffCap = 3
    MaxRetryAfter = 2
    Hints = {}
    Faults = {"crash", "db", "uncertain"}
SPECIFICATION FairSpec
INVARIANTS
    ClaimedRowsStayHeld
    NoConcurrentDelivery
    EffectAtMostOnce
PROPERTY
    EveryRowSettles
