SPECIFICATION Spec
CONSTANTS
    Instances = {i1, i2}
    Programs <- MCNested
INVARIANTS
    NoWaitCycle
