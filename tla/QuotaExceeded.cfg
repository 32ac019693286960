SPECIFICATION MCSpec
CONSTANTS
    Hosts <- MCHosts
    Sites <- MCSites
    Names = {"sid"}
    Paths <- MCPaths
    CookieValues <- MCCookieValues
    TrackerHosts <- MCTrackers
    TrackerNames = {"_ga"}
    MaxCookies = 2
    MaxTime = 2
    Texts = {"theme"}
    Toggles = {"compact"}
    Values = {"off", "on"}
    Default = "off"
    Pages = {"a", "b"}
    MaxVisit = 1
    ItemKeys = {1, 2}
    Lengths = {0, 1, 2}
    Quota = 3
    DbNames <- MCDbNames
    StoreNames <- MCStoreNames
    RecordNames <- MCRecordNames
    Versions = {1, 2}
    MaxTab = 3
    MaxWorkspace = 3
    Queries <- MCQueries
    EnabledBackends <- MCEnabledBackends
    Sent <- MCSent
    SearchConfig <- MCSearchConfig
    MaxResults = 3
    MaxEntries = 2
    Ttl = 0
    IndexedUrls = {"u", "v"}
    IndexedTitles = {"s", "t"}
    MaxClock = 1
    TypedTexts = {"fo", "foo"}
    TooShort = {""}
    HistoryOf <- MCHistoryOf
    Address = "url"
    LocalQueries = {"", "s", "t"}
    MaxRequest = 2
    Elements <- MCElements
    Selectors <- MCSelectors
    Declarations <- MCDeclarations
    UaRules <- MCUaRules
    Widths = {0, 1}
    MediaQueries <- MCMediaQueries
    WrittenTexts <- MCWrittenTexts
    MaxRule = 2
CHECK_DEADLOCK FALSE
INVARIANT
    WithinQuota
