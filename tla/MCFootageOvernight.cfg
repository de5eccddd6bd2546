\* Expected violation: a process that lives past midnight writes over footage that has rows.
SPECIFICATION Spec
CONSTANTS
  c1 = c1
  p1 = p1
  p2 = p2
  w1 = w1
  w2 = w2
  Camera = {c1}
  Process = {p1}
  Purger = {w1}
  DaySlots = 2
  PurgeSlot = 1
  Seconds = 2
  Retention = 1
  PurgeLimit = 1
  EmergencyLimit = 2
  Critical = 3
  Target = 2
  MaxTime = 3
  MaxEvents = 0
INVARIANTS RowsNameTheirFootage
CHECK_DEADLOCK FALSE
