SPECIFICATION ControlSpec
CONSTANTS
  Robots = {r1}
  Robot = r1
  Driver = r1
  NoRobot = NoRobot
  SessionIds = {s1, s2}
  NoSession = NoSession
  InputTicks = 2
  MaxInput = 2
  MaxSequence = 2
  MaxCrashes = 1
  MaxLate = 1
  MaxCalls = 2
SYMMETRY Symmetry
INVARIANTS
  ControlTypeOK
  NoRunaway
  LockIsTheSession
  RowsKeepReservations
  LetGoMeansStill
PROPERTIES
  KeepsReservation
CHECK_DEADLOCK FALSE
