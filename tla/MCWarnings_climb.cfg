SPECIFICATION Spec
CONSTANTS
    a = a
    b = b
    c = c
    d = d
    e = e
    f1 = f1
    f2 = f2
    f3 = f3
    Faces = {f1, f2, f3}
    Corners <- MCCorners
    Around <- MCAround
    Start = a
    End = e
    Worlds <- MCWorlds
    MinPriority = 10
INVARIANT
    SolvesPolynomial
CHECK_DEADLOCK FALSE
