\* Expected violation: a purge leaves what exceeds its limit.
SPECIFICATION Spec
CONSTANTS
  c1 = c1
  p1 = p1
  p2 = p2
  w1 = w1
  w2 = w2
  Camera = {c1}
  Process = {p1}
  Purger = {w1}
  DaySlots = 3
  PurgeSlot = 1
  Seconds = 2
  Retention = 1
  PurgeLimit = 2
  EmergencyLimit = 2
  Critical = 3
  Target = 2
  MaxTime = 6
  MaxEvents = 0
PROPERTIES PurgesAreComplete
CHECK_DEADLOCK FALSE
