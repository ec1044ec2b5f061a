SPECIFICATION Spec
CONSTANTS
    Kbs = {k1, k2}
    Nodes = {n1, n2}
    Updates = {u1, u2}
    Nobody = nobody
    MaxCrashes = 2
    MaxEdits = 1
INVARIANT
    MigrationTypeOK
    ContentSurvives
    AmbiguousTouchesNothing
PROPERTY
    GoesToItsKb
CHECK_DEADLOCK FALSE
SYMMETRY Symmetry
