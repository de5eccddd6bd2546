\* One camera, two FFmpeg processes, two children that purge, days of two slots.
SPECIFICATION Spec
CONSTANTS
  c1 = c1
  p1 = p1
  p2 = p2
  w1 = w1
  w2 = w2
  Camera = {c1}
  Process = {p1, p2}
  Purger = {w1, w2}
  DaySlots = 2
  PurgeSlot = 1
  Seconds = 2
  Retention = 1
  PurgeLimit = 1
  EmergencyLimit = 2
  Critical = 3
  Target = 2
  MaxTime = 2
  MaxEvents = 1
SYMMETRY MCSymmetry
INVARIANTS TypeOK UniqueNamesHold FilesAreAccounted
PROPERTIES RecentFootageKept
CHECK_DEADLOCK FALSE
