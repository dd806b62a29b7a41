CONSTANTS
    Polls = {poll}
    Pages = {page1, page2}
    MaxPlayers = 1
    Protocols = {"minecraft", "satisfactory", "factorio", "valheim", "generic"}
    NoStatus = NoStatus
SPECIFICATION ObservationsSpec
SYMMETRY PageSymmetry
INVARIANTS  CountIsNewest
