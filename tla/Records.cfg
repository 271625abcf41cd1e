SPECIFICATION RecordsSpec
CONSTANTS
    d1 = d1
    i1 = i1
    i2 = i2
    amy = amy
    bob = bob
    kid = kid
    zoe = zoe
    mum = mum
    dad = dad
    pop = pop
    art = art
    mus = mus
    r1 = r1
    r2 = r2
    Instances = {i1, i2}
    Students = {amy, bob, kid, zoe}
    Parents = {mum, dad, pop}
    Slots = {1, 2}
    Targets = {art, mus}
    Today = 3
    Forever = 9
    FamilySeeds <- MCFamilySeeds
    FamilyCommands <- MCFamilyCommands
    MaxFamily = 3
    Pupils = {amy, bob}
    StudyCourses = {art, mus, "third"}
    Subjects = {"arts", "music", "new", "newer"}
    Roadmaps = {r1, r2}
    NoRoadmap = NoRoadmap
    NoForm = NoForm
    StudySeeds <- MCStudySeeds
    StudyCommands <- MCStudyCommands
    MaxStudies = 3
    Forms = {"first", "second"}
    RoundSlots = {1, 2, 3}
    Contacts = {1, 2}
    Unset = Unset
    CardSeeds <- MCCardSeeds
    CounselCommands <- MCCounselCommands
    Teachers = {"ann"}
    ContractSlots = {1, 2, 3}
    Open = 9
    StaffCommands <- MCStaffCommands
    MaxStaffing = 4
    RowIds = {1, 2}
    MaxWrites = 3
    Payments = {d1}
    Expenses = {d1}
    Amounts = {1, 2}
    NoAmount = NoAmount
    NoPayment = NoPayment
    NoExpense = NoExpense
    Nobody = Nobody
    MaxAudit = 3
    Operators = {i1, i2}
    Campaigns <- MCCampaigns
SYMMETRY MCSymmetry
CONSTRAINT FewScripts
CHECK_DEADLOCK FALSE
INVARIANTS
    RecordsTypeOK
    PeriodsNeverOverlap
    OrdersStayDense
    FoundOrMadeOnce
    NothingNamesWhatIsGone
    CardFollowsLatestRound
    NoGhostRows
    LockedRowsAreCurrent
    DocumentsMatchLedger
    AuditIsAChain
    LedgerIsEarned
PROPERTIES
    KeepsTheBooks
