SPECIFICATION ExecSpec
CONSTANTS
    Procs = {p1, p2, p3}
    Breakers = {p1, p3}
    Limited = {p2}
    NoProc = NoProc
INVARIANTS
    ExecTypeOK
    ExclusionUnlessBroken
    WritersOverlapIfAbandoned
CHECK_DEADLOCK FALSE
PROPERTIES
    ReleaseIsSafe
    AtomicUntilBroken
    LimitedCallsReturn
