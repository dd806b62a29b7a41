SPECIFICATION Spec
CONSTANTS
    Requests = {"r1"}
    People = {"p1", "p2"}
    Names = {"a", "b"}
    Renamed = {"p1"}
    HomeName = "b"
    GroupNames = {"admins", "staff"}
    AdminGroup = "admins"
    UserGroup = "staff"
    MaxUsers = 2
    MaxGroups = 2
    Sids = {1, 2}
    MaxRefs = 1
    MaxRequests = 3
    None = None
INVARIANTS TypeOK    
