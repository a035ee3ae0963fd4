CONSTANTS
    Session = {s1, s2, s3}
    User = {u1}
    MaxId = 3
SPECIFICATION Spec
SYMMETRY Symmetry
INVARIANTS UniqueIds TearingExact MenuPending
PROPERTIES LeavesOnlyWhenDue
CHECK_DEADLOCK FALSE
