\* The lockout: two requests under way, a limit of two attempts, one session.
SPECIFICATION FairSpec
CONSTANTS
  u1 = u1
  r1 = r1
  r2 = r2
  ip = ip
  User = {u1}
  Request = {r1, r2}
  Ip = ip
  MaxAttempts = 2
  Duration = 2
  MaxSessions = 1
INVARIANT LockoutBounds
PROPERTY LockoutEnds
