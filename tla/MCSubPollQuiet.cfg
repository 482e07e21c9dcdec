SPECIFICATION Spec
CONSTANTS
    Subs = {1}
    Fields = {1, 2}
    DeviceOf <- OneDevice
    Wants <- Both
    Interval <- OftenAndSeldom
    Known = {1, 2}
    Reliable = {2}
    ReadBatch = 1
    BackoffAfter = 2
    QuietProbe = 2
    Liveness = 1
    PassTicks = 2
    MaxLate = 6
    TooOld = 3
    None = None
PROPERTY HeardFromAgain
