SPECIFICATION Spec
CONSTANTS
    r1 = r1
    MaxPolicies = 2
    MaxTraffic = 2
    Actions = {"read", "pay"}
    Requests <- MCRequests
    Rules = {r1}
    Ids <- MCIds
    Priorities = {0, 1, 2}
    RuleHolds <- MCRuleHolds
    PolicyLists <- MCPolicyLists
    Principals = {"ann", "bob", "cy"}
    TrafficLists <- MCTrafficLists
    Thresholds = {0, 1}
    NoThreshold = NoThreshold
INVARIANTS
    NoDifferenceNoImpact
    AddedEffectOnlyTightens
    AffectedAreThoseChanged
CHECK_DEADLOCK FALSE
