\* One job that may need a top-up when its run ends.
SPECIFICATION FairSpec
CONSTANTS
    Jobs = {j1}
    Priced = {j1}
    MaxConcurrent = 1
    MaxInflight = 2
    Prompt = 1
    MaxTokens = 2
    Tickets = {2, 3, 5}
    ChainEarned = {0}
PROPERTY JobsEnd
