SPECIFICATION Spec
CONSTANTS
    Tabs <- OneTab
    Monitoring = "Monitoring"
    Configuration = "Configuration"
    Levels = {"EndUser", "Installer"}
    EndUser = "EndUser"
    Firmwares = {"1.0"}
    Versions = {"1.0"}
    IncompleteLimit = 2
    MaxGroups = 1
    MaxFrames = 1
    MaxUpsets = 1
    None = None
INVARIANTS
    FiledUnderItsOwn
    ShownIsCurrent
    IncompleteIsRepeated
PROPERTIES
    GoodFilesStay
    ReadsMenus
