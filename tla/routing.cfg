SPECIFICATION Spec
CONSTANTS
    luna = luna
    sol = sol
    opus = opus
    terra = terra
    Processes = {p1, p2}
    Models = {luna, sol, opus, terra}
    Excluded = {terra}
    Overridden = {luna}
    Flags = {"schema_change", "concurrency"}
    FileCounts = {3, 8}
    routing_yaml <- Files
    MaxEdits = 2
SYMMETRY Symmetry
INVARIANTS TypeOK RetirementsEnd RiskNeverLowers
PROPERTY RoutedIsCurrent
CHECK_DEADLOCK FALSE
