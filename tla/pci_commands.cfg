CONSTANTS
    Callers = {c1, c2}
    Nobody = nobody
    Kinds = {"do", "get", "reset", "abort", "progress"}
    MaxCalls = 2
    MaxUpsets = 1
SPECIFICATION Spec
INVARIANTS TypeOK OwnReply AnswerIsFresh
CHECK_DEADLOCK FALSE
