SPECIFICATION AccessSpec
CONSTANTS
    i1 = i1
    i2 = i2
    boss = boss
    amy = amy
    tom = tom
    art = art
    r1 = r1
    r2 = r2
    Instances = {i1, i2}
    Staff = {boss, amy, tom}
    Courses = {art}
    NoTeacher = NoTeacher
    Seed <- MCSeed
    Requested <- MCRequested
    ExecutiveOnly = FALSE
    GrantableTo = {"instructor", "manager", "admin", "super_admin"}
    MaxCommits = 2
    Requests = {r1, r2}
    Users = {1}
    Claims = {"staff", "barred"}
    MaySignIn = {"staff"}
    MaxTokens = 3
    MaxVersion = 1
    Challenges = {1, 2}
    ProfileRequestIds = {"p1", "p2"}
    FirstRequest = "p1"
    Values = {1, 2}
    PhoneValues = {2}
    ProfileCommands <- MCProfileCommands
    MaxAttempts = 2
    MaxResends = 1
    MaxBegins = 4
SYMMETRY MCSymmetry
CHECK_DEADLOCK FALSE
INVARIANTS
    AccessTypeOK
    RolesHaveTheirRecords
    OneLiveSuccessor
    BoundedGuesses
    OneProofEach
    ApprovalsAreAChain
PROPERTIES
    EndedSessionsStayEnded
    AuthorityIsVersioned
    DecidersAreEntitled
