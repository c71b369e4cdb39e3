\* Two tools and two wirers, three runs, one edit, one slip; a file is cut short after a line.
CONSTANTS
    codex = codex  opencode = opencode
    w1 = w1  w2 = w2
    NoFile = NoFile
    Codex = codex
    Opencode = opencode
    ToolOrder <- MCToolOrder
    Wirers <- MCWirers
    UserTexts <- MCUserTexts
    MaxRuns = 3
    MaxEdits = 1
    MaxSlips = 1
    CutAfter = {1}
SYMMETRY WirerSymmetry
SPECIFICATION SetupSpec
INVARIANTS
    SetupTypeOK
    OriginalsKept
    CodexValid
    UnwrapRestores
PROPERTIES
    WiringRoutes
CHECK_DEADLOCK FALSE
