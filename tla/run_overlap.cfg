SPECIFICATION Spec
CONSTANTS
    c = c
    r1 = r1
    m = m
    k = k
    NoProc = NoProc
    Procs <- ResumedAndMerged
    Command <- ResumedAndMergedCommand
    MaxEdits = 2
    MaxCrashes = 1
    Overlap = TRUE
INVARIANTS  BlockedIsRecoverable 
   
CHECK_DEADLOCK FALSE
