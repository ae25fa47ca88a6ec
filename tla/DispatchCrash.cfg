SPECIFICATION CrashSpec
CONSTANTS
  Robots = {r1}
  MaxMissions = 2
  MaxExtra = 1
  Schedules = {s1}
  Requests = {AnyRobot}
  Priorities = {1}
  BatteryLevels = {"ok"}
  Equipped <- AllEquipped
  SessionIds = {}
  AnyRobot = AnyRobot
  NoRobot = NoRobot
  NoMission = NoMission
  NoSchedule = NoSchedule
  NoSession = NoSession
INVARIANTS
  TypeOK
  PinnedRunIsActive
  OneOpenRunPerSchedule
PROPERTIES
  EndsAreFinal
  RunsStaySettleable
CHECK_DEADLOCK FALSE
