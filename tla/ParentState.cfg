CONSTANTS
    Parents = {p1}
    Tasks = {t1, t2}
    Requests = {q1, q2}
    None = None
    Ops = {"create", "update", "reparent", "delete", "edit", "drop"}
    TaskInputs = {"defined", "in_progress", "completed"}
    EditInputs = {"accepted"}
    CanFail = TRUE
SPECIFICATION Spec
SYMMETRY RowSymmetry
INVARIANTS
    NoDeadlock
PROPERTY
    LoneWriteReconciles
