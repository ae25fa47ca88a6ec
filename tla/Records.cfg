SPECIFICATION RecordsSpec
CONSTANTS
  Channels = {c1}
  Stoppable = {c1}
  Manual = {c1}
  Runs = {x1, x2}
  Presets = {a}
  Plans = {}
  MaxStops = 1
  a = a
  c1 = c1
  x1 = x1
  x2 = x2
  Nobody = Nobody
  Operator = Operator
  AtRest = AtRest
  Adrift = Adrift
  Tables = {"rule", "ev", "mission", "order", "sched"}
  Cooldown = 2
  OrderLife = 2
  EventLife = 2
  MaxRows = 3
  MaxNow = 5
  MaxKills = 1
  Users = {u1, u2}
  Units = {n1, n2}
  Assets = {a1, a2}
  Tags = {t1}
  Defects = {d1}
  Configs = {k1}
  None = None
  WeekDays = 2
  DayHours = 3
  ShiftHour = 1
  LastDay = 3
  MaxEdits = 1
  MaxShots = 3
  PictureRoom = 1
  MaxMishaps = 2
  Points = {p1, p2}
  Places = {q1, q2}
  Nowhere = Nowhere
  NoPoint = NoPoint
  MaxChanges = 2
  MaxFalls = 1
  RuleKinds = {"above", "below", "dwell"}
  Visitors = {h1, h2}
  h1 = h1
  h2 = h2
  NoPerson = NoPerson
  Schedules <- Hours
  WeekLength = 2
  DayLength = 4
  Gap = 2
  Steady = 1
  Lasting = 2
  MaxInstant = 5
  MaxUpsets = 1
INVARIANTS
  RecordsTypeOK
  LockIsTheHolder
  EventsStayTrue
  RecordsAgree
  SchedulesKeepTime
  AnalysisHolds
  PointsHold
PROPERTIES
  MovesForItsRun
SYMMETRY Symmetry
CHECK_DEADLOCK FALSE
