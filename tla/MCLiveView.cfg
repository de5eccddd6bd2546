\* Three tasks, three locks, two processes, two connections of one user.
SPECIFICATION Spec
CONSTANTS
  t1 = t1
  t2 = t2
  t3 = t3
  l1 = l1
  l2 = l2
  l3 = l3
  p1 = p1
  p2 = p2
  s1 = s1
  s2 = s2
  u1 = u1
  u2 = u2
  Task = {t1, t2, t3}
  Lock = {l1, l2, l3}
  Proc = {p1, p2}
  Socket = {s1, s2}
  User = {u1}
  UserOf <- MCUserOf
  NoTask = NoTask
  NoLock = NoLock
  NoProc = NoProc
SYMMETRY MCSymmetry
INVARIANTS TypeOK StreamIsManaged ViewersAreSubscribed OneTaskWorks WaitersAreServed
CHECK_DEADLOCK FALSE
