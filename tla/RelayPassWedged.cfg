CONSTANTS
    Calls = {c1, c2, c3}
    None = None
    CanFail = TRUE
SPECIFICATION Spec
INVARIANT
    InFlightNullWhenIdle
