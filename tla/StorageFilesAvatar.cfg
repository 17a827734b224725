CONSTANTS
    Attachments = {}
    Avatars = {v}
    NoFile = NoFile
    Requests = {q1}
    MaxPerOwner = 1
    Clients = {}
    SweepLimit = 1
    DeleteFails = FALSE
SPECIFICATION Spec
CHECK_DEADLOCK FALSE
INVARIANT
    AvatarIsServed
