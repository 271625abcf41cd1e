SPECIFICATION Spec
CONSTANTS
    Instances = {i1, i2, i3}
    Programs <- MCOrdered
INVARIANTS
    NoWaitCycle
PROPERTIES
    EveryCommandEnds
