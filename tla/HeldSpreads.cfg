SPECIFICATION LessonsSpec
CONSTANTS
    i1 = i1
    i2 = i2
    ann = ann
    ben = ben
    amy = amy
    bob = bob
    Instances = {i1, i2}
    SeriesLessons = {1, 2}
    Learners = {amy, bob}
    Lecturers = {ann, ben}
    ReportIds = {1, 2}
    NoLecturer = NoLecturer
    NoFee = NoFee
    Rate = 2
    LessonSeeds <- MCLessonSeeds
    LessonCommands <- MCRoomForTheSeries
    MaxLessonSteps = 1
SYMMETRY MCLessonSymmetry
CHECK_DEADLOCK FALSE
PROPERTIES
    HeldOnlyByFacts
