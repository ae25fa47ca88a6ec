SPECIFICATION CleanSpec
CONSTANTS
  Robots = {r1}
  MaxMissions = 2
  MaxExtra = 0
  Schedules = {}
  Requests = {r1}
  Priorities = {1}
  BatteryLevels = {"ok"}
  Equipped <- AllEquipped
  SessionIds = {}
  AnyRobot = AnyRobot
  NoRobot = NoRobot
  NoMission = NoMission
  NoSchedule = NoSchedule
  NoSession = NoSession
INVARIANTS
  NeverDoubleBooked
CHECK_DEADLOCK FALSE
