SPECIFICATION Spec
CONSTANTS
    Features = {f1, f2, f3}
    Ids = {a, b, c}
    Nil = Nil
SYMMETRY Alike
INVARIANTS
    TypeOK
    AcceptedOutputsReturn
    OverflowsOnlyIfChanged
PROPERTY
    RefusesOnlyCycles
CHECK_DEADLOCK FALSE
