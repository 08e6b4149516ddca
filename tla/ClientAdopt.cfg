\* Two jobs adopt totals at once.
SPECIFICATION Spec
CONSTANTS
    j1 = j1
    j2 = j2
    j3 = j3
    Jobs = {j1, j2, j3}
    Need = 2
    Cap = 2
    Cums = {0, 1, 2, 3, 4, 5, 6}
    Metered = {}
    Refused = {j1, j2, j3}
    Retried = {j1, j2, j3}
SYMMETRY JobSymmetry
INVARIANTS NextTicketClears
