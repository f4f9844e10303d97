SPECIFICATION Spec
CONSTANTS
    backend = backend
    module = module
    frontend = frontend
    inBackend = inBackend
    inModule = inModule
    inFrontend = inFrontend
    head = head
    first = first
    NoGroup = NoGroup
    Committed = head
    Contents <- TwoContents
    Paths <- OneOfEach
    Groups <- AllGroups
    Applicable <- AllGroups
    Position <- InOrder
    Claims <- NoneClaimed
    Inside <- NestedOfEach
    Depth <- Depths
    Documentation <- NoPaths
    RootFiles <- NoPaths
    Supersedes <- BackendCoversModule
    lightweight_verification_failures = 1
    standard_failures = 1
    review_fix_cycles = 0
INVARIANT VerifiedIsCurrent
CHECK_DEADLOCK FALSE
