\* The shell's user types legal names only, and once too few arguments.
SPECIFICATION Spec
CONSTANTS
    Keys <- MCLegalKeys
    Values <- MCValues
    Leftovers <- MCLeftovers
    Nul = Nul
    NameChars <- MCChars
    Files <- MCFiles
    KeyMax = 4
    ValueMax = 3
    Disks <- MCDisks
    Overrides <- MCOverrides
    MaxText = 10
    NoFile = NoFile
INVARIANTS NeverFrozen
CHECK_DEADLOCK FALSE
