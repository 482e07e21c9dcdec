SPECIFICATION Spec
CONSTANTS
    Subs = {1, 2}
    Fields = {1, 2}
    DeviceOf <- OneDevice
    Wants <- Separate
    Interval <- OftenAndSeldom
    Known = {1, 2}
    Reliable = {1, 2}
    ReadBatch = 1
    BackoffAfter = 2
    QuietProbe = 2
    Liveness = 1
    PassTicks = 2
    MaxLate = 5
    TooOld = 3
    None = None
INVARIANT LatenessIsBounded
PROPERTIES
    SubscribersAreServed
    HeardFromAgain
