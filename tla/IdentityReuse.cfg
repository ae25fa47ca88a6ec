SPECIFICATION LedgerSpec
CONSTANTS
  Tables = {"rule", "ev", "order", "sched"}
  Cooldown = 2
  OrderLife = 2
  EventLife = 3
  MaxRows = 3
  MaxNow = 6
  MaxKills = 1
INVARIANT IdsAreNeverReused
CHECK_DEADLOCK FALSE
