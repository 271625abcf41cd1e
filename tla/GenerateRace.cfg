SPECIFICATION MCSpec
CONSTANTS
    i1 = i1
    i2 = i2
    t1 = t1
    p1 = p1
    p2 = p2
    whole = whole
    first = first
    Questions = {"any"}
    Instances <- MCInstances
    Instructors = {t1}
    Sessions <- MCSessions
    Teacher <- MCTeacher
    Commands <- MCPricingCommands
    Periods = {whole}
    Within <- MCWithin
    Payouts = {p1}
    AutoAmount <- MCAutoAmount
    Overrides <- MCOverrides
    Adjustments <- MCAdjust
    NoAmount = NoAmount
    NoPayout = NoPayout
    NoTarget = NoTarget
    Nobody = Nobody
SYMMETRY MCInstanceSymmetry
INVARIANTS
    LinesStayBillable
