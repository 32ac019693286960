SPECIFICATION MCSpec
CONSTANTS
    TrackerHosts <- MCTrackerHosts
    AdHosts <- MCAdHosts
    TrackingParams = {"utm"}
    Numbers = {}
    Settings <- MCSettings
    Contexts <- MCContexts
    Pages <- MCPages
    CacheControls <- MCCacheControls
    MaxHops = 2
    TransportHops = 2
    MaxVersion = 1
    MaxTime = 2
    Documents <- MCDocuments
    Configs <- MCConfigs
    Sizes = {2, 3}
    MaxSheets = 2
    MaxSheetSize = 2
    MaxImages = 2
    MaxImageSize = 2
    MaxScripts = 2
    MaxScriptSize = 3
    Budget = 3
    TickLengths = {1, 3}
    MaxElapsed = 7
INVARIANTS
    OnlyAllowedAsked
    ServedIsCurrent
    BudgetKept
    FrameIsOfLastPage
PROPERTIES
    FetchEnds
    TicksEnd
