SPECIFICATION MCSpec
CONSTANTS
    ActiveMb = 6
    WarmMb = 5
    SnapshotMb = 4
    BudgetMb = 21
    WarmTabLimit = 2
    SuspendAfter = 4
    MaxTabId = 5
    MaxTick = 7
    Urls = {"a", "b"}
    WindowTabs = 2
    MaxRequests = 4
    Scenarios <- MCScenarios
    PageTabs = {1, 2}
    Pages = {"a", "b"}
    Typed = {"a"}
    Start = "start"
    MaxMoves = 2
    MaxEvents = 1
INVARIANTS
    PolicyLimits
    PendingIsAnswerable
    DocumentIsOwn
    PageIsOwn
    LoadingIsAwaited
PROPERTIES
    OnlyActivationRestores
    ColdestDiscardedFirst
    StripSpec
    LoadsEnd
CHECK_DEADLOCK FALSE
