\* What iperf server answers after a stop.
SPECIFICATION Spec
CONSTANTS
    Pcbs = {p1, p2, p3}
    Listens = {l1, l2}
    Ports = {default, other}
    None = None
INVARIANTS RunningMeansRuns
CHECK_DEADLOCK FALSE
