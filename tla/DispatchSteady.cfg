SPECIFICATION SteadySpec
CONSTANTS
  Robots = {r1, r2}
  MaxMissions = 2
  MaxExtra = 1
  Schedules = {}
  Requests = {AnyRobot}
  Priorities = {1, 2}
  BatteryLevels = {"ok"}
  Equipped <- SomeEquipped
  SessionIds = {}
  AnyRobot = AnyRobot
  NoRobot = NoRobot
  NoMission = NoMission
  NoSchedule = NoSchedule
  NoSession = NoSession
INVARIANTS
  NeverDoubleBooked
  AbortedRunNotServed
PROPERTIES
  NoOvertaking
CHECK_DEADLOCK FALSE
