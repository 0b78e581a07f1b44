SPECIFICATION Spec
CONSTANTS
    r1 = r1
    r2 = r2
    MaxPolicies = 3
    Actions = {"read", "pay"}
    Requests <- MCRequests
    Rules <- MCRules
    Ids <- MCIds
    Priorities = {0, 1, 2, 3}
    RuleHolds <- MCRuleHolds
    PolicyLists <- MCPolicyLists
    AlmostCap = 2
INVARIANT
    NothingAfterADeny
CHECK_DEADLOCK FALSE
