CONSTANTS
  Devices = {d1}
  Callers = {c1}
  Calls = {"info", "tab", "field_info", "login", "subscribe", "devices_all"}
  Listed = FALSE
  Liveness = 1
  ConnectTimeout = 1
  Window = 1
  Settle = 1
  ListMax = 2
  HeartbeatInterval = 2
  Asks = 1
  MaxTime = 3
  MaxCalls = 2
  Clients = {k1}
  Retry = 2
  SocketRoom = 1
  MaxClock = 6
  MaxFrames = 3
  MaxChanges = 2
  Addrs = {3816779, 5505069}
  Indices = {0, 3, 40, 255}
  StringIds = {1, 300}
  Numbers = {0, 1, 300, 9000001}
  d1 = d1
  c1 = c1
  k1 = k1
SPECIFICATION Spec
INVARIANTS
  
  RelayRunsUnbroken
  AnswersFindTheirQuestion
  FramesSurvive
PROPERTIES
  EnginesEnd
  LinkComesBack
CHECK_DEADLOCK FALSE
