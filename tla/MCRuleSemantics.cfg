SPECIFICATION Spec
CONSTANTS
    Requests <- MCRequests
    Rules <- MCRules
    Numbers = {3, 5}
    Recognises <- MCRecognises
INVARIANTS
    LeavingOutNeverMatches
    EqualityIsOfValues
    OrderIsConverse
    UnresolvedMatchesOnlyNull
    ExtractedKeyWins
CHECK_DEADLOCK FALSE
