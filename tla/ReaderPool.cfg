SPECIFICATION Spec
CONSTANTS
    Requests = {1, 2, 3, 4}
    Readers = 4
    Roots = 1
INVARIANTS
    PoolServes
