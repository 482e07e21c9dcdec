SPECIFICATION Spec
CONSTANTS
    Fields = {f1}
    Values = {on, off}
    None = None
    Absent = Absent
    Writable = {}
    Overheard = {}
    SettlePolls = 1
    MaxHeld = 2
    MaxWire = 2
INVARIANT CacheIsLatest
