CONSTANTS
    Requests = {r1, r2, r3, r4}
    Bodies = {b1, b2}
    None = None
    Faults = {"cache", "crash", "slow"}
    MaxFaults = 2
SPECIFICATION Spec
SYMMETRY RequestSymmetry
CHECK_DEADLOCK FALSE
INVARIANTS
    DuplicatesArePaid
    ReplayIsOfSameBody
    AnsweredIsStored
