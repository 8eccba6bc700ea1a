\* Two slots per list: time has 5 bits and wraps, and every level is used.
CONSTANTS
    Timer = {n1, n2, n3}
    Intervals = {0, 1, 2, 3, 5, 8, 15}
    TIME_NEAR_SHIFT = 1
    TIME_LEVEL_SHIFT = 1
SPECIFICATION Spec
SYMMETRY Symmetry
INVARIANT InPlace
PROPERTY ImplementsAlarm
