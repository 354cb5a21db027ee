SPECIFICATION Spec
CONSTANTS
    User = {u1, u2}
    Request = {r1, r2, r3, r4}
    Spelling <- ThreeSpellings
    Fold <- LowerThree
    Username <- TwoUsernames
    Password = {p1}
    MaxGeneration = 1
SYMMETRY RequestSymmetry
CHECK_DEADLOCK FALSE
PROPERTIES
    RightsAreGrantedByOthers
