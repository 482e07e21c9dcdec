SPECIFICATION Spec
CONSTANTS
    Subs = {1, 2}
    Fields = {1, 2}
    DeviceOf <- OneDevice
    Wants <- Overlapping
    Interval <- OftenAndSeldom
    Known = {1, 2}
    Reliable = {}
    ReadBatch = 2
    BackoffAfter = 2
    QuietProbe = 2
    Liveness = 1
    PassTicks = 2
    MaxLate = 3
    TooOld = 3
    None = None
INVARIANTS
    ReadsAreDistinct
    CleanSlate
PROPERTY ProbesAreRare
