\* Chunks of seven bytes that overlap by three: every text of up to eight characters
\* is cut; those of eight bytes with a two-byte character and four words have
\* findings, and are cut in two.
CONSTANTS
    MaxChars = 7
    Overlap = 3
    NerLoaded = TRUE
    LongTexts = 8
    RichBytes = 8
    Entities <- MCEntities
    Texts <- MCTexts
    Samples <- MCSamples
    HitsIn <- MCHitsIn
    NamesIn <- MCNamesIn
    AllowFor <- MCAllowFor
SPECIFICATION Spec
INVARIANTS
    TypeOK
    ChunksCover
    NamesWhole
    Merged
    TyposShow
CHECK_DEADLOCK FALSE
