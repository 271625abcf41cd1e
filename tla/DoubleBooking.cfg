SPECIFICATION Spec
CONSTANTS
    i1 = i1
    i2 = i2
    a = a
    b = b
    math = math
    art = art
    k1 = k1
    Instances = {i1, i2}
    Sessions = {1, 2}
    Serieses = {k1}
    Requests = {}
    Instructors = {a, b}
    Courses = {math, art}
    Slots = {1, 2, 3, 4}
    CourseInstructor <- MCInstructors
    Commands <- MCCourseChanges
    Asks = {}
    NoOne = NoOne
    NoSeries = NoSeries
    NoRequest = NoRequest
    NoCourse = NoCourse
    MaxCommits = 4
SYMMETRY MCSymmetry
INVARIANTS
    NoDoubleBooking
