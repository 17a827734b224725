CONSTANTS
    Attachments = {a1, a2}
    Avatars = {}
    NoFile = NoFile
    Requests = {q1}
    MaxPerOwner = 1
    Clients = {}
    SweepLimit = 1
    DeleteFails = TRUE
SPECIFICATION FairSpec
CHECK_DEADLOCK FALSE
PROPERTY
    EveryFileIsResolved
