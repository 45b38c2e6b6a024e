SPECIFICATION FairSpec
CONSTANTS
    s1 = s1
    s2 = s2
    env = env
    env2 = env2
    studio = studio
    None = None
    Servers <- OneServer
    Urls <- EnvAndStudio
    EnvUrls <- EnvOnly
    Managed <- StudioOnly
    Unsignable <- Nothing
    Interest <- SomeInterest
    NumEvents = 2
    MaxAttempts = 2
    BatchLimit = 1
    AckLoss = TRUE
    MaxGen = 2
    MaxFaults = 1
    MaxExits = 0
INVARIANTS
    NoDuplicateDelivery
    DeliveredMeansReceived
PROPERTIES
    KeepsContract
    EveryEventSettles
