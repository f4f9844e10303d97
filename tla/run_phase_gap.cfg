SPECIFICATION Spec
CONSTANTS
    c = c
    r1 = r1
    m = m
    k = k
    NoProc = NoProc
    Procs <- ResumedOnce
    Command <- ResumedOnceCommand
    MaxEdits = 2
    MaxCrashes = 1
    Overlap = TRUE
INVARIANT LandedIsGated
CHECK_DEADLOCK FALSE
