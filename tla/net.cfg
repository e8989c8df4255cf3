\* Starts and stops in any order, over a pool of three pcbs and one of two.
SPECIFICATION Spec
CONSTANTS
    Pcbs = {p1, p2, p3}
    Listens = {l1, l2}
    Ports = {default, other}
    None = None
INVARIANTS IperfKnown ServerReachable
CHECK_DEADLOCK FALSE
