\* A process that is restarted while its base file holds older days: Ledger::new
\* takes it for the file of today.
CONSTANTS
    e1 = e1  e2 = e2  e3 = e3
    Entries <- MCEntries
    MaxDay = 3
    Retention = 1
    MaxFailures = 0
    MaxClears = 0
    MaxRestarts = 1
SPECIFICATION FairSpec
PROPERTY RetentionEnforced
CHECK_DEADLOCK FALSE
