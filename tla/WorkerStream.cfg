\* A priced job and a free one, one at a time; the chain may show more earned.
SPECIFICATION Spec
CONSTANTS
    Jobs = {j1, j2}
    Priced = {j1}
    MaxConcurrent = 1
    MaxInflight = 1
    Prompt = 1
    MaxTokens = 2
    Tickets = {2, 3, 5}
    ChainEarned = {0, 3}
INVARIANTS TypeOK StreamPrepaid QueuedStopHolds
PROPERTY TerminalIsLast
