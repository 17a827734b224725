CONSTANTS
    Attachments = {a1, a2, a3}
    Avatars = {v}
    NoFile = NoFile
    Requests = {q1, q2}
    MaxPerOwner = 1
    Clients = {"parallel"}
    SweepLimit = 2
    DeleteFails = FALSE
SPECIFICATION Spec
CHECK_DEADLOCK FALSE
SYMMETRY FileSymmetry
INVARIANTS
    VisibleIsDownloadable
    
    QuotaOvershootBounded
PROPERTY
    VisibleUntilDeleted
