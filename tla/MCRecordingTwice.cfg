\* Expected violation: a start that is delivered twice.
SPECIFICATION Spec
CONSTANTS
  c1 = c1
  c2 = c2
  w1 = w1
  w2 = w2
  p1 = p1
  p2 = p2
  p3 = p3
  Camera = {c1}
  HasUrl = {c1}
  Child = {w1, w2}
  Proc = {p1, p2}
  NoCamera = NoCamera
  NoProc = NoProc
  ManualTasks = FALSE
  MaxErrors = 2
  MaxFiles = 1
  MaxQueue = 1
  MaxChecks = 1
  MaxFaults = 0
SYMMETRY MCSymmetry
INVARIANT OneRecorder
CHECK_DEADLOCK FALSE
