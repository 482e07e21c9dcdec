SPECIFICATION Spec
CONSTANTS
    Fields = {f1}
    Values = {on, off}
    None = None
    Absent = Absent
    Writable = {f1}
    Overheard = {f1}
    SettlePolls = 2
    MaxHeld = 2
    MaxWire = 2
PROPERTY CommandsEnd
