\* Three keys in a block of seven bytes.  A put without a pool really stops.
SPECIFICATION Spec
CONSTANTS
    Keys <- MCKeys
    Chars = {"a", "b"}
    Values <- MCValues
    NUL = NUL
    Block = 7
    Absent = Absent
    Nothing = Nothing
INVARIANTS NoDangling RemapFits
PROPERTIES RefusedAgainOnlyWhenFull ImplementsMap
CHECK_DEADLOCK FALSE
