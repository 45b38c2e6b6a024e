SPECIFICATION FairSpec
CONSTANTS
    s1 = s1
    s2 = s2
    env = env
    env2 = env2
    studio = studio
    None = None
    Servers <- OneServer
    Urls <- EnvAndStudio
    EnvUrls <- EnvOnly
    Managed <- StudioOnly
    Unsignable <- StudioOnly
    Interest <- SomeInterest
    NumEvents = 2
    MaxAttempts = 2
    BatchLimit = 2
    AckLoss = FALSE
    MaxGen = 2
    MaxFaults = 0
    MaxExits = 0
PROPERTIES
    OthersSettle
