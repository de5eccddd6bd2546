\* Expected violation: a file that the purge of its export leaves behind.
SPECIFICATION MCSpec
CONSTANTS
  c1 = c1
  Child = {c1}
  Span <- MCSpan
  MaxSpan = 2
  DaySlots = 2
  MaxFaults = 0
  Horizon = 4
CHECK_DEADLOCK FALSE
INVARIANT NoFileLeft
