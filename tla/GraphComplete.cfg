SPECIFICATION IndexSpec
CONSTANTS
    f1 = f1  f2 = f2  a = a  b = b  z = z  p1 = p1  p2 = p2  w1 = w1  w2 = w2
    Files = {f1, f2}
    Indexable = {a, b}
    Blank = {z}
    Gone = Gone
    Projects = {p1}
    Workers = {w1}
    Owner <- OneWorker
    Versions = {"v1"}
    Version <- SameVersion
    None = None
    StampReuse = FALSE
    MaxEdits = 2
    MaxCommands = 2
    Processes = {1, 2}
    Models = {"m", "n"}
    ModelOf <- MCModelOf
    ChunkFiles = {"f", "g"}
    BlankText = BlankText
    Unset = Unset
    MaxChunks = 2
    Window = 2
    Batch = 1
    MaxCommits = 3
INVARIANT ResolutionComplete
