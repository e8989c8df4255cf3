\* Four names and three values, one of each too long, with whatever lies behind the
\* typed words; files as the service and as people write them, an overriding second
\* file, power cuts anywhere.  The service really stops (a refused name, a crash).
SPECIFICATION Spec
CONSTANTS
    Keys <- MCKeys
    Values <- MCValues
    Leftovers <- MCLeftovers
    Nul = Nul
    NameChars <- MCChars
    Files <- MCFiles
    KeyMax = 4
    ValueMax = 3
    Disks <- MCDisks
    Overrides <- MCOverrides
    MaxText = 10
    NoFile = NoFile
INVARIANTS TypeOK FileFollowsMemory RewriteInBounds
PROPERTIES ReadOnlyKept GetShowsTheValue
CHECK_DEADLOCK FALSE
