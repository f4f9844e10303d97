SPECIFICATION Spec
CONSTANTS
    p1 = p1
    p2 = p2
    p3 = p3
    NoProc = NoProc
    Procs <- ThreeProcs
    Breakers <- TwoBreakers
INVARIANT LiveLockNeverBroken
CHECK_DEADLOCK FALSE
