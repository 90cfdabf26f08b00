SPECIFICATION Spec
CONSTANTS
  Gateways = {g1}
  Ids = {i1, i2}
  Slots <- MCSlots
  Windows <- MCWindows
  Zone = "home"
  ZoneShift <- MCZoneShift
  BufferBefore = 1
  BufferAfter = 0
  MinNotice = 48
  MaxPerDay = 1
  DayUnits = 48
  Hour = 2
  Consent = TRUE
  Irreversible = TRUE
  ModesSeen = {"full_auto_apply", "paused"}
  TickUnits = 48
  Horizon = 48
SYMMETRY IdSymmetry
CONSTRAINT UnsentBound
INVARIANTS TypeOK NoOverlap DailyCap
CHECK_DEADLOCK FALSE
