\* Three entries over three days kept for one, one clear, one failure, one
\* restart.
CONSTANTS
    e1 = e1  e2 = e2  e3 = e3
    Entries <- MCEntries
    MaxDay = 3
    Retention = 1
    MaxFailures = 1
    MaxClears = 1
    MaxRestarts = 1
SYMMETRY EntrySymmetry
SPECIFICATION Spec
INVARIANTS
    TypeOK
    Kept
    FiledInTime
CHECK_DEADLOCK FALSE
