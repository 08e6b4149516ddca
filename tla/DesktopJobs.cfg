\* A chat over a priced and a free provider.
SPECIFICATION FairSpec
CONSTANTS
    j1 = j1
    p1 = p1
    p2 = p2
    c1 = c1
    Jobs = {j1}
    Pictures = {}
    Peers = {p1, p2}
    Priced = {p1}
    NoPeer = NoPeer
    Contents = {c1}
    NoContent = NoContent
    MaxQueue = 2
INVARIANTS OneVoice LockHasStream
PROPERTIES JobsSettle
CHECK_DEADLOCK FALSE
