CONSTANTS
    Parts <- AllParts
    Revised <- TwiceWritten
    ServerOwned <- OwnedKeys
SPECIFICATION Spec
INVARIANTS
    
    DecodeEnforcesTheRest
CHECK_DEADLOCK FALSE
