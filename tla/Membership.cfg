CONSTANTS
    u1 = u1
    a1 = a1
    a2 = a2
    Invitations = {i1, i2}
    Users = {u1, a1, a2}
    Founders = {a1, a2}
    Addressees = {u1}
    Guests = {u1}
    Requests = {q1, q2}
    None = None
    Ops = {"invite", "resend", "link", "cancel", "accept", "add", "update"}
    Carries = {{}, {"projects"}, {"role", "projects"}}
    Flags = {FALSE, TRUE}
    MaxRotations = 2
    MaxStarts = 3
CHECK_DEADLOCK FALSE
SPECIFICATION Spec
SYMMETRY MembershipSymmetry
INVARIANTS
    PendingIsReachable
    TokensAreScrubbed
    AcceptedIsEnrolled
PROPERTIES
    MailsAreLive
    SettledStaysSettled
    LoneInviteSupersedes
    LoneGrantReachesMember
    LoneChangeKeepsAnAdmin
