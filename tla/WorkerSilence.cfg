\* Two priced jobs on one channel: one banks while the other holds its bond.
SPECIFICATION Spec
CONSTANTS
    Jobs = {j1, j2}
    Priced = {j1, j2}
    MaxConcurrent = 1
    MaxInflight = 2
    Prompt = 1
    MaxTokens = 1
    Tickets = {2, 4}
    ChainEarned = {0}
PROPERTY SilencePaysBond
