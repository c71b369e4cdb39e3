\* Two dashboards that switch packs at once: does config.toml name the packs that
\* run?
CONSTANTS
    ann = ann  lee = lee  space = space  newline = newline
    iban = iban  key = key
    r1 = r1  r2 = r2
    Redacted = Redacted
    Space = space
    Blanks <- MCBlanks
    NoBody = NoBody
    Labels <- MCLabels
    LabelWidth <- MCLabelWidth
    Words <- MCWords
    Requests = {r1}
    Admins = {"a1", "a2"}
    Sessions = {"s1"}
    Bodies <- MCBodies
    DirPacks = {"corp"}
    ClosedPacks = {"corp"}
    NerPacks = {"corp"}
    NerEnabled = TRUE
    ModelInstalled = TRUE
    Posted = {{"gdpr"}, {"cdr-au"}}
    StartPacks = {}
    MaxInterventions = 2
SPECIFICATION FairSpec
INVARIANT PacksSurviveRestart
