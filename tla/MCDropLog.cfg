SPECIFICATION Spec
CONSTANTS
    Callers = {c1, c2, c3}
    Second = 2
    MaxTime = 5
SYMMETRY CallerSymmetry
INVARIANTS
    LinesSpaced
