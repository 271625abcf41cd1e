SPECIFICATION ClassworkSpec
CONSTANTS
    i1 = i1
    i2 = i2
    ann = ann
    ben = ben
    amy = amy
    bob = bob
    k1 = k1
    Instances = {i1, i2}
    SeriesLessons = {1, 2}
    Learners = {amy, bob}
    Lecturers = {ann, ben}
    ReportIds = {1, 2}
    NoLecturer = NoLecturer
    NoFee = NoFee
    Rate = 2
    LessonSeeds <- MCLessonSeeds
    LessonCommands <- MCClassworkCommands
    MaxLessonSteps = 3
    RequestIds = {1, 2, 3}
    BatchKeys = {k1}
    Bodies <- MCBodies
    NoKey = NoKey
    TemplateIds = {1, 2, 3}
    Everybody = Everybody
    Owners = {ann}
    TemplateSeeds <- MCTemplateSeeds
    TemplateCommands <- MCTemplateCommands
    MaxTemplateSteps = 4
SYMMETRY MCLessonSymmetry
CHECK_DEADLOCK FALSE
INVARIANTS
    DependentsBelong
    ApprovedTextIsAccounted
    AcknowledgedBatchIsStored
    OneSelectionPerScope
PROPERTIES
    NothingLostUnseen
    CorrectionsChangeWhatWasSeen
