SPECIFICATION Spec
CONSTANTS
    f1 = f1  f2 = f2  a = a  b = b  z = z  p1 = p1  p2 = p2  w1 = w1  w2 = w2
    Files = {f1}
    Indexable = {a, b}
    Blank = {}
    Gone = Gone
    Projects = {p1, p2}
    Workers = {w1, w2}
    Owner <- TwoProcesses
    Versions = {"v1", "v2"}
    Version <- Upgraded
    None = None
    StampReuse = FALSE
    MaxEdits = 2
    MaxCommands = 2
SYMMETRY FileSymmetry
INVARIANTS ReadsOneGeneration PublishedSingleVersion PresentAnswerFresh
PROPERTY PublishesAtomically
