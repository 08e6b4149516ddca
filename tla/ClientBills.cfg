\* One job is refused and retried while two others bill, and the app restarts.
SPECIFICATION Spec
CONSTANTS
    j1 = j1
    j2 = j2
    j3 = j3
    Jobs = {j1, j2, j3}
    Need = 2
    Cap = 3
    Cums = {0, 1, 2, 3, 4}
    Metered = {j1}
    Refused = {j1}
    Retried = {j1}
SYMMETRY ServedSymmetry
INVARIANTS TypeOK DistinctBills NextTicketClears
PROPERTIES LoweredOnlyBy
