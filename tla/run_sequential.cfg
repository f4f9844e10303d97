SPECIFICATION Spec
CONSTANTS
    c = c
    r1 = r1
    m = m
    k = k
    NoProc = NoProc
    Procs <- OneOfEach
    Command <- OneOfEachCommand
    MaxEdits = 2
    MaxCrashes = 2
    Overlap = FALSE
INVARIANTS TypeOK NoInvalidTransition LandedIsGated BlockedIsRecoverable
PROPERTIES UnmergedEditsKept TerminalIsFinal
CHECK_DEADLOCK FALSE
