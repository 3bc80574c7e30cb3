\* Two goroutines refresh one token.
SPECIFICATION Spec
CONSTANTS
    Thread = {t1, t2}
    MaxIssued = 2
SYMMETRY Symm
INVARIANT RotationIsStored
