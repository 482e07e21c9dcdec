SPECIFICATION Spec
CONSTANTS
    Devices <- TheDevices
    Words <- TheWords
    Properties <- TheProperties
    Groups <- TheGroups
    Glitchy = {3}
    Fields <- TheFields
    Meta <- TheMeta
    Labels <- TheLabels
    Outputs <- TheOutputs
    Text <- TheText
    Tables <- TheTables
    Silent <- TheSilent
    Eventables = TRUE
    NA = NA
    Bogus = 54650
    Retries = 2
    OptionalRetries = 1
    MissLimit = 2
    StrLimit = 2
    ProbeChunk = 2
    MaxGroups = 256
    MaxFields = 256
    MaxOutputs = 3
    MaxTroubles = 3
    None = None
    Absent = Absent
INVARIANTS
    TypeOK
    SlotsAreAwaited
    InPlace
    KnownIsWhole
    
    QuietBusIsReadWhole
    ListedOnce
PROPERTIES
    AnswersAreUsed
    DiscoveriesEnd
    ReadsMenus
