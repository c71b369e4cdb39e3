\* One request, NER that panics in it: is a body refused when the detector its
\* packs require is down?
CONSTANTS
    ann = ann  lee = lee  space = space  newline = newline
    iban = iban  key = key
    r1 = r1  r2 = r2
    Redacted = Redacted
    Space = space
    Blanks <- MCBlanks
    NoBody = NoBody
    Labels <- MCLabels
    LabelWidth <- MCLabelWidth
    Words <- MCWords
    Requests = {r1}
    Admins = {"a1"}
    Sessions = {"s1"}
    Bodies <- MCBodies
    DirPacks = {"corp"}
    ClosedPacks = {"corp"}
    NerPacks = {"corp"}
    NerEnabled = TRUE
    ModelInstalled = TRUE
    Posted = {{"gdpr", "corp"}}
    StartPacks = {}
    MaxInterventions = 0
SPECIFICATION FairSpec
PROPERTY RefusedNotLeaked
