SPECIFICATION Spec
CONSTANTS
    c = c
    r1 = r1
    m = m
    k = k
    NoProc = NoProc
    Procs <- ResumedOnce
    Command <- ResumedOnceCommand
    MaxEdits = 2
    MaxCrashes = 1
    Overlap = FALSE
INVARIANT LandsOnce
CHECK_DEADLOCK FALSE
