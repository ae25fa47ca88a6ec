SPECIFICATION AdaptersSpec
CONSTANTS
  Connectors = {c1, c2}
  Configs = {k1}
  Pids = {p1, p2, p3}
  c1 = c1
  c2 = c2
  k1 = k1
  p1 = p1
  p2 = p2
  p3 = p3
  None = None
  Kits = {"spot", "gosuncn", "deeprobotics"}
  OrderCount = 3
  SeenCap = 3
  MaxPoints = 2
  MaxReplies = 1
  MaxFaults = 1
  MaxDances = 2
  MaxCalls = 1
  MaxLosses = 2
  MaxRuns = 2
  MaxExtras = 1
  MaxUpsets = 2
  PanelKinds = {"cameras", "rules", "recordings", "connectors", "missions"}
  Views = {a, b}
  a = a
  b = b
  NoView = NoView
  MaxFlights = 2
  MaxEdits = 1
  MaxMishaps = 1
INVARIANTS AdaptersTypeOK OneDriver
PROPERTIES FollowsItsRow KeepsSerialMotion QueueMoves LinksHold PanelsKeepUp
CHECK_DEADLOCK FALSE
