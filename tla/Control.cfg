SPECIFICATION Spec
CONSTANTS
    Users = {"u"}
    Anonymous = "anonymous"
    Groups = {"g"}
    Subjects = {"u", "g", "authenticated"}
    Grantable = {"command", "file.write", "access.manage"}
    Servers = {"s"}
    Requests = {"r"}
    Paths = {p, q}
    Ceiling = 1
    Lifetime = 1
    MaxRules = 2
    MaxEdits = 2
    MaxRequests = 2
    MaxClock = 2
    MaxOpen = 1
    None = None
SYMMETRY PathSymmetry
INVARIANTS TypeOK ActedWithinRights 
CHECK_DEADLOCK FALSE
