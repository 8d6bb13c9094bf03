SPECIFICATION ServersSpec
CONSTANTS
    c1 = c1  c2 = c2
    Calls = {c1, c2}
    None = None
    MaxEdits = 2
    Documents = {"x", "z"}
    Nothing = Nothing
    MaxFileEdits = 2
    MaxCalls = 2
    MaxMessages = 3
    Outcomes = {TRUE, FALSE}
CHECK_DEADLOCK FALSE
INVARIANTS KnowsWhenStale AnswersIncludeFlagged OneWatcher HealthIsNewest
PROPERTIES StopJoins DiagnosticsAdvance
