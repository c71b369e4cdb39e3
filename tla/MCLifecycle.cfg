\* Each operating system, three processes at a time, two commands, one click,
\* one mishap.
CONSTANTS
    Systems <- MCSystems
    MaxProcesses = 3
    MaxCommands = 2
    MaxClicks = 1
    MaxMishaps = 1
SPECIFICATION FairSpec
INVARIANTS
    TypeOK
    StopMeansOff
    PidfileTruth
    TrayShows
    NoneUnattended
PROPERTIES
    StartServes
CHECK_DEADLOCK FALSE
