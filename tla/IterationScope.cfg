CONSTANTS
    Stories = {s1, s2}
    Tasks = {t1}
    Iterations = {i1, i2}
    Requests = {q1, q2}
    None = None
    Keep = Keep
    Ops = {"edit", "bulk", "carry", "drop", "task", "state", "remove", "rollover"}
    Patches = {"move", "state"}
    Matches = {FALSE, TRUE}
    MaxStarts = 4
SPECIFICATION Spec
SYMMETRY ScopeSymmetry
INVARIANTS
    NoDanglingIteration
    
PROPERTIES
    MovesAreLogged
    CarryoverTargetIsOpen
    TokenIsCurrent
    LoneWriteAccepts
    LoneWriteMirrors
    LoneRolloverAccepts
