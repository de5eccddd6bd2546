\* One camera, two children, two process slots, two files, one fault.
SPECIFICATION Spec
CONSTANTS
  c1 = c1
  c2 = c2
  w1 = w1
  w2 = w2
  p1 = p1
  p2 = p2
  p3 = p3
  Camera = {c1}
  HasUrl = {c1}
  Child = {w1, w2}
  Proc = {p1, p2}
  NoCamera = NoCamera
  NoProc = NoProc
  ManualTasks = TRUE
  MaxErrors = 1
  MaxFiles = 2
  MaxQueue = 1
  MaxChecks = 1
  MaxFaults = 1
SYMMETRY MCSymmetry
INVARIANTS TypeOK RecordingIsSupervised RecorderIsOwned SegmentLedger
PROPERTIES RunningEntryKept
CHECK_DEADLOCK FALSE
