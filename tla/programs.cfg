\* Two addresses, over a directory with whatever earlier runs have left and over a
\* new one; three threads over a C library, with one that has no malloc and one that has
\* neither among them (one with malloc and no free is left out: see
\* README.md); four commands to an mplayer, with room for two; a table of four descriptors.
SPECIFICATION ProgramsSpec
CONSTANTS
    Addresses = {a, b}
    Nil = Nil
    Threads = {t1, t2, t3}
    Libraries = {{"malloc", "free"}, {"free"}, {}}
    MaxCommands = 4
    FifoSize = 2
    Fds = {f1, f2, f3, f4}
    Ports = {p1, p2}
    Ephemeral = Ephemeral
    None = None
INVARIANTS FilesTellLeaks NeverCallsNull FdsReturned
PROPERTIES SecondFreeReported NeverTheFirst
CHECK_DEADLOCK FALSE
