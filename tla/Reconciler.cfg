SPECIFICATION FairSpec
CONSTANTS
    Users = {"u", "v"}
    Names = {"a", "b"}
    EarlyUsers = {"u"}
    EarlyNames = {"a"}
    NoUser = "nobody"
    NoName = "none"
    Runs = {"worker", "request"}
    Kinds = {"whitelist", "admins"}
    MaxEvents = 3
    MaxUpsets = 1
INVARIANTS ManualStays RevokedIsRemovedUnmoved
PROPERTY Converges
