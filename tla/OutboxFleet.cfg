SPECIFICATION Spec
CONSTANTS
    s1 = s1
    s2 = s2
    env = env
    env2 = env2
    studio = studio
    None = None
    Servers <- TwoServers
    Urls <- EnvOnly
    EnvUrls <- EnvOnly
    Managed <- Nothing
    Unsignable <- Nothing
    Interest <- SomeInterest
    NumEvents = 1
    MaxAttempts = 2
    BatchLimit = 2
    AckLoss = FALSE
    MaxGen = 1
    MaxFaults = 1
    MaxExits = 1
SYMMETRY ServerSymmetry
INVARIANTS
    HonestRecord
    EnvDelivered
    GivenUpLate
