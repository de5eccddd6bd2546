\* Two events, a buffer of one, two consumers, two alerts, two faults.
SPECIFICATION Spec
CONSTANTS
  c1 = c1
  c2 = c2
  Child = {c1, c2}
  MaxBuffer = 1
  MaxEvents = 2
  MaxAlerts = 2
  MaxKicks = 1
  MaxFaults = 2
SYMMETRY MCSymmetry
INVARIANTS TypeOK EventsAreKept UnbufferedOnce AlertsAreFollowedUp
PROPERTIES InOrder
CHECK_DEADLOCK FALSE
