SPECIFICATION FairSpec
CONSTANTS
    f1 = f1  f2 = f2  a = a  b = b  z = z  p1 = p1  p2 = p2  w1 = w1  w2 = w2
    Files = {f1}
    Indexable = {a, b}
    Blank = {}
    Gone = Gone
    Projects = {p1}
    Workers = {w1, w2}
    Owner <- OneProcess
    Versions = {"v1"}
    Version <- SameVersion
    None = None
    StampReuse = TRUE
    MaxEdits = 1
    MaxCommands = 2
INVARIANTS LockDiscipline StoreOpenWhileLocked
PROPERTY EveryCommandEnds
