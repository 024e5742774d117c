SPECIFICATION Spec
CONSTANTS
    Global = g
    g = g
    NoScope = none
    none = none
    a = a
    b = b
    c = c
    d = d
    Scope = {g, a, b, c, d}
    Ops = {"args", "eval", "include", "raise", "return"}
    MaxDepth = 6
SYMMETRY Symmetric
INVARIANTS
    FlagIsOurs
    RunsInOwnFrame
PROPERTY
    ReturnLeaves
