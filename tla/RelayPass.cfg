CONSTANTS
    Calls = {c1, c2, c3, c4}
    None = None
    CanFail = TRUE
SPECIFICATION FairSpec
INVARIANTS
    OnePassAtATime
    BurstSharesOnePass
    CallersAwaitALaterPass
PROPERTY
    EveryCallIsServed
