SPECIFICATION KnowledgeSpec
CONSTANTS
  c1 = c1
  c2 = c2
  p1 = p1
  p2 = p2
  d1 = d1
  d2 = d2
  Clients = {c1, c2}
  Proposals = {p1, p2}
  Documents = {d1, d2}
  Target <- TwoTargets
  Requests <- Competing
  Present = {d1}
  Revisable = {p1}
  Old = Old
  Editor = Editor
  NoFile = NoFile
  None = None
  Nobody = Nobody
  MaxLog = 2
  MaxEvents = 1
SYMMETRY Symmetry
CHECK_DEADLOCK FALSE
INVARIANT AnswerIsTrue
INVARIANT BundleAgrees
PROPERTY DecisionFinal
PROPERTY EditsKept
INVARIANT KnowledgeJudged
PROPERTY BundleKept
