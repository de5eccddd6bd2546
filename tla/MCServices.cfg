\* Two of what can overlap or differ, three addresses, two lost answers or
\* workers; a limit of one connection, overrun by one, and a third.
SPECIFICATION Spec
CONSTANTS
  Building = {b1}
  Floor = {f1, f2}
  Camera = {c1}
  Ext = {png, jpg}
  Request = {r1, r2}
  None = none
  Target = {t1, t2}
  Caller = {r1, r2}
  Device = {c1}
  Address = {a1, a2, a3}
  Probe = {r1, r2}
  NoUrl = none
  Pair = {p1}
  Right = {live, export}
  Setter = {r1, r2}
  NoGrant = none
  Rule = {q1}
  Channel = {h1, h2}
  MaxAttempts = 3
  MaxTrouble = 2
  Operator = {o1, o2}
  Desk = {r1, r2}
  Nobody = none
  Socket = {s1, s2, s3}
  MaxConnections = 1
  MaxHandshakes = 2
INVARIANTS TypeOK PlanIsSound RowsAreWhole ChannelsAreTold ConnectionsAreKept
CHECK_DEADLOCK FALSE
