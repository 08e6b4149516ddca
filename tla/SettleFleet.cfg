\* Two nodes of one payout, two jobs, bills below the cap, one reserve.
SPECIFICATION Spec
CONSTANTS
    j1 = j1
    j2 = j2
    n1 = n1
    n2 = n2
    Jobs = {j1, j2}
    Nodes = {n1, n2}
    Client = Client
    Payout = Payout
    Key = Key
    NoKey = NoKey
    Pot = Pot
    FeeVault = FeeVault
    JobCap = 4
    DayCap = 0
    Locks = {9}
    Need = 3
    Bills = {1, 3}
    SettleMin = 3
    DueSoon = 1
    Ttl = 1
    Grace = 1
    Day = 9
    Horizon = 3
SYMMETRY CallerSymmetry
INVARIANTS SettledIsEarned NothingExpires
PROPERTIES NoticeLeavesBanked
CHECK_DEADLOCK FALSE
