\* Expected violation: a dwell alert for a track that came back into the zone.
SPECIFICATION MCSpec
CONSTANTS
  z1 = z1
  z2 = z2
  w1 = w1
  w2 = w2
  ZoneData = {z1, z2}
  Payload = {{z1}, {z2}}
  Writer = {w1, w2}
  NoKey = NoKey
  MaxIds = 2
  MaxInbox = 2
  t1 = t1
  n1 = n1
  Track = {t1}
  ZoneName = {n1}
  FullFrame = FullFrame
  NoZone = NoZone
  NoTrack = NoTrack
  Config <- MCConfig
  DayTicks = 3
  Long = 2
  Cooldown = 1
  Expire = 1
  MaxRetries = 1
  BaselineFrames = 1
SYMMETRY MCSymmetry
INVARIANT DwellIsPresence
