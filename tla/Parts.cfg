SPECIFICATION Spec
CONSTANTS
    None = None
    All = All
    Contained <- MCContained
    MaxRows = 3
    PageSize = 2
    Requests = {1, 2}
    MaxAge = 1
    AppAge = 2
    MaxDelay = 1
    MaxTime = 4
    MaxFaults = 1
    MaxChanges = 1
    Servers = {1, 2}
    Clients = {1}
    Texts <- MCTexts
    HashOf <- MCHashOf
    Manifest <- MCManifest
    Words <- MCWords
    Contexts = {1, 2}
    Ids = {1, 2}
    MaxVersion = 2
    FileIds = {1, 2}
    Records = {1, 2}
    MaxLate = 3
    MaxCount = 3
    RecordIds = {1, 2}
    ModeKnown = TRUE
    ListIds = {1, 2, 3, 4}
    DefaultLimit = 2
    Firsts = {1, 3}
    IdFilters <- MCIdFilters
    MaxCreated = 3
    MaxPages = 5
    Subscribers = {1, 2, 3, 4}
    Linked = {2, 4}
    Filtered = {3, 4}
    Subscribed <- MCSubscribed
    MaxMutations = 3
    MaxWrites = 2
INVARIANTS
    FiltersAgree
    SecuredRows
    RelationFilterMeans
    SecondaryCloses
    ConnectMutationsServed
    FieldsSurvive
    OnlyThePermittedPass
    CostCoversAnswer
    RemovedAreDisconnected
    StoredAsAllowed
    WalkIsComplete
    TouchesWhatWasShown
    SessionIsCurrent
    RunsWhatWasAsked
    LoadsAreOwnAndFresh
    FilesInUseStay
    AnswersBelongTogether
    NoticesCatchUp
CHECK_DEADLOCK FALSE
