SPECIFICATION GDSpec
CONSTANTS
    home = home
    p1 = p1
    host = host
    other = other
    Places = {home}
    Nowhere = Nowhere
    Distance <- MCDistance
    Minute = 1
    VelocityWarn = 2
    VelocitySpike = 2
    FailedAuthBurst = 1
    MfaFatigueCount = 1
    MfaWindow = 2
    MaxSpeed = 1
    MinTravelInterval = 1
    Principals = {p1}
    Threads = {host, other}
    Samples <- MCSamples
    Constructor = "with_capacity"
    Requested = 2
    NewCapacity = 4
    CapFloor = 1
    NoCall = NoCall
    MaxClock = 0
    MaxLog = 3
    Hosts = {host}
    Callers <- MCCallers
    Policies <- MCPolicies
    GraphFacts <- MCGraphFacts
    Numbers = {0, 1}
    Recognises <- NoPattern
INVARIANTS
    BurstIsDenied
    CallerNeverDecides
    GuardsReadTheState
