SPECIFICATION FairSpec
CONSTANTS
  Robots = {r1}
  Robot = r1
  NoRobot = NoRobot
  First = s1
  Second = s2
  SessionIds = {s1, s2}
  NoSession = NoSession
  InputTicks = 1
  MaxInput = 2
  MaxSequence = 1
  MaxCrashes = 1
  MaxLate = 0
CONSTRAINT Instance
PROPERTIES
  ReservationEnds
CHECK_DEADLOCK FALSE
