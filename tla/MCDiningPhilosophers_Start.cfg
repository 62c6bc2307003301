SPECIFICATION Spec
CONSTANT
    N = 5
INVARIANT
    WaitsForEater
