CONSTANTS
    Parents = {p1}
    Tasks = {t1, t2}
    Requests = {q1, q2}
    None = None
    Ops = {"create", "update"}
    TaskInputs = {"defined", "in_progress", "completed"}
    EditInputs = {}
    CanFail = FALSE
SPECIFICATION Spec
INVARIANT
    ParentIsDerived
