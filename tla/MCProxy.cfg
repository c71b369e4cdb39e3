\* Two requests of one session, one dashboard that switches packs or clears
\* the logs once, or one restart.
CONSTANTS
    ann = ann  lee = lee  space = space  newline = newline
    iban = iban  key = key
    r1 = r1  r2 = r2
    Redacted = Redacted
    Space = space
    Blanks <- MCBlanks
    NoBody = NoBody
    Labels <- MCLabels
    LabelWidth <- MCLabelWidth
    Words <- MCWords
    Requests <- MCRequests
    Admins = {"a1"}
    Sessions = {"s1"}
    Bodies <- MCBodies
    DirPacks = {"corp"}
    ClosedPacks = {"corp"}
    NerPacks = {"corp"}
    NerEnabled = TRUE
    ModelInstalled = TRUE
    Posted = {{"gdpr", "corp"}}
    StartPacks = {}
    MaxInterventions = 1
SPECIFICATION FairSpec
INVARIANTS
    TypeOK
    AnswerReadable
    LedgerTruth
    NeverHalfMasked
    PacksSurviveRestart
PROPERTIES
    EveryRequestEnds
