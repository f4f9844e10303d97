SPECIFICATION Spec
CONSTANTS
    backend = backend
    module = module
    frontend = frontend
    inBackend = inBackend
    inModule = inModule
    inFrontend = inFrontend
    head = head
    first = first
    NoGroup = NoGroup
    Committed = head
    Contents <- TwoContents
    Paths <- AllPaths
    Groups <- AllGroups
    Applicable <- AllGroups
    Position <- InOrder
    Claims <- Claimed
    Inside <- Nested
    Depth <- Depths
    Documentation <- NoPaths
    RootFiles <- NoPaths
    Supersedes <- BackendCoversModule
    lightweight_verification_failures = 1
    standard_failures = 1
    review_fix_cycles = 1
INVARIANTS TypeOK RepairsBounded ReadyIsVerified NobodyIsSkipped
PROPERTIES EditedRunsAgain GatesAreLeft
CHECK_DEADLOCK FALSE
