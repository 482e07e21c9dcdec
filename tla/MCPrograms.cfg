CONSTANTS
  Models <- SomeModels
  HandEntries <- SomeEntries
  Sources <- SomeSources
  Floats <- SomeFloats
  Texts <- SomeTexts
  Jsons <- SomeJsons
  Catalog <- SomeCatalog
  Devices = {"d1"}
  Mappings <- SomeMappings
  Saved <- FirstMappings
  Requests = {r1}
  MaxEdits = 1
  MaxBusy = 1
  Puts = {p1}
  Fields = {"stop", "lamp"}
  Driven = {"stop", "lamp"}
  Unlisted = {"lamp"}
  NoLabels = {"stop"}
  Locked = {"lamp"}
  Viewers = {"v1", "v2"}
  Metered = {"mode"}
  Alarmed = {"mode"}
  MaxActivations = 2
  Browsed = {"b1", "b2"}
  Heard <- FirstHeard
  TabOrder <- TabsInOrder
  Tabs <- SomeTabs
  Paths = {"boolean", "refused"}
  Mapped <- SomeRows
  Loaded = {}
  MaxEntries = 2
  NoTui = NoTui
  Daemons = {"signalk"}
  Editors = {"tui"}
  Tools = {}
  Accounts = {"root", "skipper"}
  Trusted = {"root"}
  MaxStarts = 3
  r1 = r1
  p1 = p1
SPECIFICATION Spec
INVARIANTS
  PutsReadBack
  ProposalsStand
  
  ClientsAreTold
  WhatIsShownIsEdited
  OneHostOnTheBus
  

  
CHECK_DEADLOCK FALSE
