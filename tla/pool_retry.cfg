\* A put is refused, tried again as the message asks, and refused again.
SPECIFICATION Spec
CONSTANTS
    Keys <- MCKeys
    Chars = {"a", "b"}
    Values <- MCValues
    NUL = NUL
    Block = 7
    Absent = Absent
    Nothing = Nothing
PROPERTIES RetryStores
CHECK_DEADLOCK FALSE
