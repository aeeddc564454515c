SPECIFICATION Spec
CONSTANTS
    Setups <- AllSetups
    Requests <- AllRequests
    Apps = {"torrent"}
    Within <- Names
    Rank <- StringOrder
    Unset = Unset
INVARIANTS RulesInOrder DirectByRule NoPanic ShareWithinWeight
