SPECIFICATION Spec
CONSTANTS
    Requests <- MCRequests
    Rules <- MCRules
    Numbers = {3, 5}
    Recognises <- MCRecognises
INVARIANTS
    InNeedsAMember
CHECK_DEADLOCK FALSE
