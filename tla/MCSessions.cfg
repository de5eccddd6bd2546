\* What becomes of sessions: one user, two requests under way, three sessions,
\* one attempt and a lockout of one tick.
SPECIFICATION Spec
CONSTANTS
  u1 = u1
  r1 = r1
  r2 = r2
  ip = ip
  User = {u1}
  Request = {r1, r2}
  Ip = ip
  MaxAttempts = 1
  Duration = 1
  MaxSessions = 3
SYMMETRY Symmetry
INVARIANTS TypeOK RevocationHolds RotationSpends
