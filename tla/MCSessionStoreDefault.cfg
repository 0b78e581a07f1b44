SPECIFICATION Spec
CONSTANTS
    home = home
    abroad = abroad
    p1 = p1
    t1 = t1
    t2 = t2
    Places <- MCPlaces
    Nowhere = Nowhere
    Distance <- MCDistance
    Minute = 1
    VelocityWarn = 2
    VelocitySpike = 3
    FailedAuthBurst = 2
    MfaFatigueCount = 2
    MfaWindow = 2
    MaxSpeed = 1
    MinTravelInterval = 1
    Principals = {p1}
    Threads = {t1, t2}
    Samples <- MixedSamples
    Constructor = "default"
    Requested = 2
    NewCapacity = 4
    CapFloor = 1
    NoCall = NoCall
    MaxClock = 2
    MaxLog = 3
PROPERTY
    RecordAppends
