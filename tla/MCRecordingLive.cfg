\* One camera, two children, no faults: what must eventually happen.
SPECIFICATION FairSpec
CONSTANTS
  c1 = c1
  c2 = c2
  w1 = w1
  w2 = w2
  p1 = p1
  p2 = p2
  p3 = p3
  Camera = {c1}
  HasUrl = {c1}
  Child = {w1, w2}
  Proc = {p1, p2}
  NoCamera = NoCamera
  NoProc = NoProc
  ManualTasks = FALSE
  MaxErrors = 2
  MaxFiles = 0
  MaxQueue = 1
  MaxChecks = 1
  MaxFaults = 0
PROPERTIES CameraIsRestarted ExitIsRecorded
CHECK_DEADLOCK FALSE
