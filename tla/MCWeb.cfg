CONSTANTS
  Tracks = {s1, s2}
  Extra = extra
  MaxLiked = 3
  MaxEnds = 1
  MaxMeddling = 1
  FileNames = {n1, n2}
  MaxPuts = 2
  MaxChanges = 1
  MaxCuts = 1
  Conns = {c1, c2}
  MaxConnections = 1
  Report = 2
  IoTimeout = 1
  Limit = 5
  MaxTrouble = 1
  MaxUses = 1
  Clients = {k1, k2}
  MaxClients = 1
  Patience = 2
  Curve <- SmallCurve
  Voltages = {2, 4, 6, 9}
  Charging = 1
  Slack = 2
  Critical = 1
  Warnings = {1, 3}
  StepTime = 3
  LowTime = 2
  Delays = {1, 2}
  MaxReads = 4
  Byte = 4
  PixelBytes = 1
  RowBytes = 3
  Rows = 2
  Sides = {1, 2, 3, 5, 8, 17}
  Tiles = {1, 2, 3}
  ByteMax = 1
  SumMax = 60
SPECIFICATION Spec
SYMMETRY Alike
CHECK_DEADLOCK FALSE
INVARIANTS CallsRecover ResultsTrue LibraryKept PlacesExact GoesOffInTime
  LinesAnswered BatteryRight CoversRight
PROPERTIES ReplacesOnlyIfAsked StaysOnInUse
