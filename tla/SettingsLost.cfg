SPECIFICATION StoreSpec
CONSTANTS
    Texts = {"theme"}
    Toggles = {"compact"}
    Values = {"off", "on"}
    Default = "off"
    Pages = {}
    MaxVisit = 1
CHECK_DEADLOCK FALSE
INVARIANT
    SettingsSurvive
