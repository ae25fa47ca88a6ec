SPECIFICATION MCSpec
CONSTANTS
  Robots = {r1}
  MaxMissions = 2
  MaxExtra = 1
  Schedules = {}
  Requests = {r1}
  Priorities = {1}
  BatteryLevels = {"ok"}
  Equipped <- AllEquipped
  SessionIds = {s1}
  InputTicks = 1
  MaxInput = 0
  MaxSequence = 2
  AnyRobot = AnyRobot
  NoRobot = NoRobot
  NoMission = NoMission
  NoSchedule = NoSchedule
  NoSession = NoSession
INVARIANTS
  DrivesAlone
PROPERTIES
  RunsMoveOn
CHECK_DEADLOCK FALSE
