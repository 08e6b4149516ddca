\* Providers that answer and then fail.
SPECIFICATION Spec
CONSTANTS
    p1 = p1
    p2 = p2
    Shapes = {"anthropic", "openai", "responses", "buffered"}
    Providers = {p1, p2}
    Priced = {p1}
    NoProvider = NoProvider
    Answers <- Thinking
    MaxCalls = 1
INVARIANT AnswerIsLast
CHECK_DEADLOCK FALSE
