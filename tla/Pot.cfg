\* One client, two workers and two app keys over two days.
SPECIFICATION Spec
CONSTANTS
    Clients = {c1}
    Workers = {w1, w2}
    AppKeys = {k1, k2}
    NoKey = NoKey
    Pot = Pot
    FeeVault = FeeVault
    FeeBps = 1000
    Day = 2
    Grace = 1
    Deposits = {10, 15}
    Cumulatives = {10, 15}
    JobLimits = {0, 10}
    DayLimits = {15}
    Deadlines = {2, 3}
    Start = 1
    Horizon = 4
    Wallet = 25
SYMMETRY Symmetry
INVARIANTS TypeOK DayCapBinds WorkerShare Solvent LedgerOrder NoTrappedLock
PROPERTIES ImplementsEscrow WalletKeepsTickets
