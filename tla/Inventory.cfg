SPECIFICATION InventorySpec
CONSTANTS
    Clients = {"c1", "c2"}
    Nodes = {"n"}
    Hooks = {"h"}
    Rules = {"r"}
    Servers = {"s"}
    None = None
    MaxApplies = 2
    MaxEdits = 2
  
PROPERTIES PruneConfirmedAlone
CHECK_DEADLOCK FALSE
