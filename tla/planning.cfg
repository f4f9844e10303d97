SPECIFICATION Spec
CONSTANTS
    claude = claude
    gemini = gemini
    codex = codex
    Providers = {claude, gemini, codex}
    Resumable = {claude, gemini}
    max_turns = 2
    max_malformed_retries = 1
    MaxInputs = 3
    MaxResumes = 2
INVARIANTS TypeOK ClassifiedIsApproved PlanIsInformed
PROPERTIES TransitionsAllowed PlanningEnds
CHECK_DEADLOCK FALSE
