CONSTANTS
    Proc = {p1, p2}
    Idle = idle
    Calls = {"sysgetpid", "sysyield", "sysrecv"}
SPECIFICATION Spec
SYMMETRY Symmetry
INVARIANTS TypeOK UndisturbedCallReturns
