SPECIFICATION Spec
CONSTANTS
    Reqs = {r1, r2}
    Versions = {1, 2, 3}
    None = None
    MaxReqs = 4
    MaxChanges = 2
    MaxUpsets = 1
INVARIANTS TypeOK StoredTogether
CHECK_DEADLOCK FALSE
SYMMETRY ReqSymmetry
