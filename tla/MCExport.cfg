\* Two days of two slots, a range across midnight, up to two segments that
\* may overlap, two children, one redelivery or death.
SPECIFICATION MCSpec
CONSTANTS
  c1 = c1
  c2 = c2
  Child = {c1, c2}
  Span <- MCSpan
  MaxSpan = 2
  DaySlots = 2
  MaxFaults = 1
  Horizon = 4
CHECK_DEADLOCK FALSE
INVARIANTS TypeOK ExportsAreSound TimelineExact
PROPERTIES ExportSettles
