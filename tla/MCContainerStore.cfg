SPECIFICATION Spec
CONSTANTS
    Request = {r1, r2, r3, r4}
    Id = {a}
    NoId = NoId
    MaxFaults = 1
SYMMETRY RequestSymmetry
INVARIANTS TypeOK DuplicatesOverlap AckedIsVisible DeletedIsGone FailedCreateLeavesNothing OrphanServiceExcused NoHalfContainer
