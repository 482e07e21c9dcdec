SPECIFICATION Spec
CONSTANTS
    Fields = {f1, f2}
    Values = {on, off}
    None = None
    Absent = Absent
    Writable = {f1}
    Overheard = {}
    SettlePolls = 1
    MaxHeld = 2
    MaxWire = 2
SYMMETRY Symmetric
INVARIANTS
    SlotsAreReadsInFlight
    KnowledgeIsOrdered
PROPERTIES
    NeverBackInTime
    ShowsLaggingView
