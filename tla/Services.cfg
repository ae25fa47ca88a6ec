SPECIFICATION ServicesSpec
CONSTANTS
  Channels = {c1, c2}
  Stoppable = {}
  Manual = {}
  Runs = {x1}
  Presets = {a}
  Plans = {p1}
  MaxStops = 2
  a = a
  c2 = c2
  c1 = c1
  p1 = p1
  x1 = x1
  Nobody = Nobody
  Operator = Operator
  AtRest = AtRest
  Adrift = Adrift
  Cameras = {v1}
  v1 = v1
  MaxRecorders = 1
  SessionCount = 4
  MaxClips = 2
  Budget = 1
  ListSize = 1
  MaxCrashes = 1
  Watches = {w1}
  w1 = w1
  MaxRevision = 2
  MaxMoments = 3
  OutboxCap = 2
  MaxTroubles = 1
  Sites = {"p", "q"}
  MaxChanges = 1
  MaxGenerations = 2
  MaxBreaks = 1
INVARIANTS ServicesTypeOK DoneMeansArrived SessionExcludesPatrol
PROPERTIES RunEnds ArchiveHolds OneAlarmPerEpisode ReportsArrive ConsoleKeepsUp
CHECK_DEADLOCK FALSE
