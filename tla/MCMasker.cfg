\* Two threads, one session: every interleaving of masking, lookups and
\* rehydration on one map.
CONSTANTS
    ann = ann  bob = bob  hi = hi
    space = space  newline = newline
    Space = space
    Blanks <- MCBlanks
    t1 = t1  t2 = t2
    NoThread = NoThread
    Redacted = Redacted
    Sessions = {"s1"}
    Threads <- MCThreads
    Labels <- MCLabels
    LabelWidth <- MCLabelWidth
    Entities <- MCEntities
    LabelOf <- MCLabelOf
    Words <- MCWords
    Texts <- MCTexts
    Inputs <- MCInputs
SPECIFICATION FairSpec
INVARIANTS
    TypeOK
    PlaceholdersDistinct
    CountersExact
    RoundTrip
PROPERTIES
    AssignmentsStable
    ImplementsBook
    MutexReleased
