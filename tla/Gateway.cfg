SPECIFICATION GatewaySpec
CONSTANTS
    Clients = {"c"}
    Watchers = {"v", "w"}
    MaxSamples = 1
    MaxEvents = 2
INVARIANTS GatewayTypeOK SharedStart OperationUndisturbed FileKeepsUp
