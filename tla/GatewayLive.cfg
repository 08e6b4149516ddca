\* A priced and a free provider, every dialect, three answers and one tool call.
SPECIFICATION FairSpec
CONSTANTS
    p1 = p1
    p2 = p2
    Shapes = {"anthropic", "openai", "responses", "buffered"}
    Providers = {p1, p2}
    Priced = {p1}
    NoProvider = NoProvider
    Answers <- Thinking
    MaxCalls = 1
INVARIANTS FramesNest DeltasTellAnswer HangUpPaysTheBill
PROPERTIES ToolHears
CHECK_DEADLOCK FALSE
