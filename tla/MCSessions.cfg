SPECIFICATION TokensSpec
CONSTANTS
    Token = {t1}
    Bearer = {r1, r2, r3}
    Second = 2
    Lifetime = 4
    MaxTime = 8
SYMMETRY RequestSymmetry
CHECK_DEADLOCK FALSE
PROPERTIES
    SettledRevocationsHold
