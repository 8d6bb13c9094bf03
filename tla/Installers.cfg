SPECIFICATION InstallersSpec
CONSTANTS
    c1 = c1  c2 = c2  k1 = k1  k2 = k2
    agents = agents  helix = helix  skill = skill  old = old
    top = top  omp = omp  prowl = prowl  a = a  b = b  l = l  claude = claude
    Callers = {c1, c2}
    Keys = {k1, k2}
    Paths = {agents, skill, old}
    Dirs = {omp, prowl}
    Top = top
    Folder <- MCFolder
    Above <- MCAbove
    ReplayFolder = prowl
    Kind <- MCKind
    Selections <- MCSelections
    Texts = {0, 1, 2}
    Retired = 1
    None = None
    MaxEvents = 4
    Installers = {i1, i2}
    Assets = {a, b, l}
    Client <- MCClient
    Legacy = {l}
    Versions = {"v1", "v2"}
    Body <- MCBody
    LegacyBody = "legacy"
    Foreign = "foreign"
    NoFile = "no file"
    Nobody = Nobody
    MaxUserEvents = 3
SYMMETRY ProcessSymmetry
CHECK_DEADLOCK FALSE
INVARIANTS TransactionSound
PROPERTIES RollbackRestores AppliedOnce OthersKept UndoRestores
