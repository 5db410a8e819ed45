SPECIFICATION Spec
CONSTANTS
    Request = {r1, r2}
    Id = {a}
    NoId = NoId
    MaxFaults = 0
SYMMETRY RequestSymmetry
INVARIANT DeleteRemovesService
