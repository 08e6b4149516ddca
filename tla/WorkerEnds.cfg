\* Two priced jobs whose bonds cover every token, one GPU permit between them.
SPECIFICATION FairSpec
CONSTANTS
    Jobs = {j1, j2}
    Priced = {j1, j2}
    MaxConcurrent = 1
    MaxInflight = 2
    Prompt = 1
    MaxTokens = 1
    Tickets = {2, 4}
    ChainEarned = {0}
INVARIANTS EarnedCovered
PROPERTY JobsEnd
