\* The requests of the members, the clock, the cuts and the passwords are bounded.
CHECK_DEADLOCK FALSE
SPECIFICATION Alone
CONSTANTS
    Users = {u1, u2}
    Founder = u1
    GivenRoles = {"owner", "admin", "member"}
    GivenTeamRoles = {"owner", "editor"}
    Invitations = {i1, i2}
    Items = {d1}
    Requests = {p1, p2}
    MaxRequests = 4
    Accounts = {a1, a2}
    Admins = {a1, a2}
    First = {a1}
    SignIns = {s1, s2}
    MaxSessions = 2
    MaxChanges = 2
    MaxCuts = 2
    Window = 1
    MaxFailures = 2
    Block = 1
    MaxTime = 1
    Organizations = {o1, o2}
SYMMETRY Interchangeable
INVARIANTS
    OwnersRemain
    InvitationsWorkOnce
    AnAdminRemains
    RevocationsHold
    GuessesAreBounded
    RequestsStayWithinRights
    OutsidersLearnNothing
PROPERTIES ClosedKeepsItems
