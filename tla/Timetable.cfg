SPECIFICATION MCSpec
CONSTANTS
    i1 = i1
    i2 = i2
    a = a
    b = b
    math = math
    art = art
    k1 = k1
    Instances = {i1, i2}
    Sessions = {1, 2, 3}
    Serieses = {k1}
    Requests = {r1}
    Instructors = {a, b}
    Courses = {math, art}
    Slots = {1, 2, 3, 4}
    CourseInstructor <- MCInstructors
    Commands <- MCBothCommands
    Asks <- MCRequestedCommands
    NoOne = NoOne
    NoSeries = NoSeries
    NoRequest = NoRequest
    NoCourse = NoCourse
    MaxCommits = 4
SYMMETRY MCSymmetry
INVARIANTS
    SecuredNeverOverlap
    SecuredNotBlocked
PROPERTIES
    DecidedOnce
    RequestedScope
