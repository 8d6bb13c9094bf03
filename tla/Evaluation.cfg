\* The answers on small indexes; one disturbance of an evaluation; two runs over
\* a corpus and one of an event.
CONSTANTS
    None = None
    Gone = Gone
SPECIFICATION EvaluationSpec
CHECK_DEADLOCK FALSE
INVARIANTS IndexAnswersRight RetrievalRight EvaluationSound PreparationSound
