SPECIFICATION Spec
CONSTANTS
    home = home
    abroad = abroad
    p1 = p1
    t1 = t1
    t2 = t2
    Places <- MCPlaces
    Nowhere = Nowhere
    Distance <- MCDistance
    Minute = 1
    VelocityWarn = 2
    VelocitySpike = 2
    FailedAuthBurst = 1
    MfaFatigueCount = 1
    MfaWindow = 2
    MaxSpeed = 1
    MinTravelInterval = 1
    Principals = {p1}
    Threads = {t1, t2}
    Samples <- MixedSamples
    Constructor = "with_capacity"
    Requested = 2
    NewCapacity = 4
    CapFloor = 1
    NoCall = NoCall
    MaxClock = 2
    MaxLog = 3
INVARIANTS
    TypeOK
    RetainsLatest
    StateOfThisIncarnation
    BurstSurvivesEviction
PROPERTIES
    RecomputeIsAtomic
    TravelForgottenOnlyByEviction
SYMMETRY Interchangeable
