SPECIFICATION Spec
CONSTANTS
    Procs = {p1, p2}
    Last = 6
    Size <- MCSize
    NotRepeatable <- MCNotRepeatable
INVARIANT MigrationIsTransaction
