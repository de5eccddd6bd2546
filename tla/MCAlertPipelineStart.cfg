\* Expected violation: nothing but an operator sends consume_alerts.
SPECIFICATION Spec
CONSTANTS
  c1 = c1
  c2 = c2
  Child = {c1, c2}
  MaxBuffer = 1
  MaxEvents = 1
  MaxAlerts = 1
  MaxKicks = 1
  MaxFaults = 1
PROPERTIES WorkerReadyKicks
CHECK_DEADLOCK FALSE
