------------------------------ MODULE Detector ------------------------------
(***************************************************************************)
(* The detection worker of one camera: the thread that opens the stream,   *)
(* samples frames, tracks the objects on them, filters these by zone, and  *)
(* evaluates the rules.                                                    *)
(*                                                                         *)
(* What the camera shows is any input: which objects are found, which of   *)
(* them are persons, in which polygons their centroids lie, how the        *)
(* histogram compares with the baseline, the time of day.  Time passes in  *)
(* ticks; a period that has passed is only told from one that has not.     *)
(* What becomes of an alert once it is dispatched is in AlertPipeline.     *)
(***************************************************************************)
EXTENDS Integers, FiniteSets

CONSTANTS
  Track,           \* tracks
  ZoneName,        \* names of zones
  FullFrame,       \* the zone that stands in when none is active
  NoZone, NoTrack, \* of a tampering alert
  Config,          \* what the dictionary of zones may hold: sets of zones
  DayTicks,        \* ticks of a day
  Long,            \* ticks after which no period is told from a longer one
  Cooldown,        \* COOLDOWN_S (60 s)
  Expire,          \* _EXPIRE_S (5 s)
  MaxRetries,      \* _MAX_RETRIES (20)
  BaselineFrames   \* _BASELINE_FRAMES (10)

ASSUME DetectorOK ==
  /\ {DayTicks, Long, Cooldown, Expire, MaxRetries, BaselineFrames} \subseteq Nat \ {0}
  /\ Long > Expire
  /\ FullFrame \notin ZoneName

VARIABLES
  phase,     \* where the thread is
  retries,   \* attempts to connect that have failed in a row
  baseline,  \* frames the baseline was taken from
  config,    \* the zones of the camera
  cool,      \* _cooldowns: what is left of each
  entry,     \* _zone_entry: how long ago a track has entered a zone
  unseen,    \* _last_seen: how long ago a track was seen
  raised,    \* the alerts of the last frame
  present,   \* history: for how long a track has been around since it was
             \* seen in a zone, never out of sight for more than Expire
  stay       \* history: the same, and never seen outside the zone either

vars == <<phase, retries, baseline, config, cool, entry, unseen, raised, present, stay>>

(* `hours` is <<>> or <<start, end>>; `dwell` is dwell_threshold_s. *)
Zone == [name : ZoneName \cup {FullFrame}, restricted : BOOLEAN, mask : BOOLEAN,
         hours : {<<>>} \cup ((0..(DayTicks - 1)) \X (0..(DayTicks - 1))), dwell : Nat]

ASSUME ZonesOK == Config \subseteq SUBSET Zone

Name == ZoneName \cup {FullFrame}

Rule == {"RESTRICTED_ZONE", "AFTER_HOURS_PERSON", "AFTER_HOURS_VEHICLE", "DWELL_TIME"}

Tampering == [rule |-> "TAMPERING", zone |-> NoZone, track |-> NoTrack]

(* Alerts are known by the key of their cooldown. *)
Key == [rule : Rule, zone : Name, track : Track] \cup {Tampering}

Age == -1..Long   \* -1: not recorded

TypeOK ==
  /\ phase \in {"connecting", "reading", "ended"}
  /\ retries \in 0..MaxRetries
  /\ baseline \in 0..BaselineFrames
  /\ config \in Config
  /\ cool \in [Key -> 0..Cooldown]
  /\ entry \in [Track -> [Name -> Age]]
  /\ unseen \in [Track -> Age]
  /\ raised \subseteq Key
  /\ present \in [Track -> [Name -> Age]]
  /\ stay \in [Track -> [Name -> Age]]

Nowhere == [n \in Name |-> -1]

Init ==
  /\ phase = "connecting"
  /\ retries = 0
  /\ baseline = 0
  /\ config \in Config
  /\ cool = [k \in Key |-> 0]
  /\ entry = [t \in Track |-> Nowhere]
  /\ unseen = [t \in Track |-> -1]
  /\ raised = {}
  /\ present = [t \in Track |-> Nowhere]
  /\ stay = [t \in Track |-> Nowhere]

(***************************************************************************)
(* Zones and rules                                                         *)
(***************************************************************************)

FullFrameZone ==
  [name |-> FullFrame, restricted |-> FALSE, mask |-> FALSE, hours |-> <<>>, dwell |-> 2]

Active ==
  LET zones == {z \in config : ~z.mask} IN IF zones = {} THEN {FullFrameZone} ELSE zones

(* Detections by track and zone.  in[t] are the names of the polygons that *)
(* contain the centroid of t; an object inside a privacy mask is dropped.  *)
ZoneFilter(found, in) ==
  LET shown == {t \in found : \A m \in config : m.mask => m.name \notin in[t]}
  IN  {d \in [track : shown, zone : Active] : d.zone.name \in in[d.track] \cup {FullFrame}}

Within(hours, now) ==
  /\ hours # <<>>
  /\ IF hours[1] <= hours[2] THEN hours[1] <= now /\ now <= hours[2]
     ELSE now >= hours[1] \/ now <= hours[2]

InCooldown(key) == cool[key] > 0

(* The rules after tampering: a restricted zone takes precedence. *)
RuleFor(d, persons, now) ==
  LET key(rule) == {[rule |-> rule, zone |-> d.zone.name, track |-> d.track]}
  IN  IF d.zone.restricted THEN key("RESTRICTED_ZONE")
      ELSE IF Within(d.zone.hours, now) THEN {}
      ELSE IF d.track \in persons THEN key("AFTER_HOURS_PERSON")
      ELSE key("AFTER_HOURS_VEHICLE")

DwellKey(d) == [rule |-> "DWELL_TIME", zone |-> d.zone.name, track |-> d.track]

(***************************************************************************)
(* The tracker                                                             *)
(***************************************************************************)

Stale == {t \in Track : unseen[t] > Expire}

ExpiredLate(found) == [t \in Track |-> IF t \in Stale \ found THEN Nowhere ELSE entry[t]]

(* Tracks that are stale are dropped first, so that one seen again on this *)
(* frame starts over.                                                      *)
Expired(found) == [t \in Track |-> IF t \in Stale THEN Nowhere ELSE entry[t]]

Seen(found) ==
  [t \in Track |-> IF t \in found THEN 0 ELSE IF t \in Stale THEN -1 ELSE unseen[t]]

Entered(times, dets) ==
  [t \in Track |-> [n \in Name |->
     IF times[t][n] = -1 /\ \E d \in dets : d.track = t /\ d.zone.name = n
     THEN 0 ELSE times[t][n]]]

(* A track that is found is in the polygons it is found in, and no other. *)
Stayed(found, in) ==
  [t \in Track |-> [n \in Name |->
     IF t \notin found THEN stay[t][n]
     ELSE IF n \notin in[t] \cup {FullFrame} THEN -1
     ELSE IF stay[t][n] = -1 THEN 0 ELSE stay[t][n]]]

(***************************************************************************)
(* Frames                                                                  *)
(***************************************************************************)

BaselineFrame ==
  /\ phase = "reading" /\ baseline < BaselineFrames
  /\ baseline' = baseline + 1
  /\ raised' = {}
  /\ UNCHANGED <<phase, retries, config, cool, entry, unseen, present, stay>>

(* No boxes: neither the tracker nor the rules come to see the frame. *)
EmptyFrame ==
  /\ phase = "reading" /\ baseline = BaselineFrames
  /\ raised' = {}
  /\ UNCHANGED <<phase, retries, baseline, config, cool, entry, unseen, present, stay>>

(* A tampering alert ends the rules; the dwell times come after them in    *)
(* any case.                                                               *)
RuleAlerts(dets, persons, tampered, now) ==
  IF tampered /\ ~InCooldown(Tampering) THEN {Tampering}
  ELSE {k \in UNION {RuleFor(d, persons, now) : d \in dets} : ~InCooldown(k)}

DwellAlerts(dets, times) ==
  {DwellKey(d) : d \in {e \in dets : /\ e.zone.dwell > 0
                                      /\ times[e.track][e.zone.name] >= e.zone.dwell
                                      /\ ~InCooldown(DwellKey(e))}}

Cooled(alerts) == [k \in Key |-> IF k \in alerts THEN Cooldown ELSE cool[k]]

(* What a frame tells the tracker: the tracks on it, and the entries of    *)
(* the detections `dets`.                                                  *)
Tracked(found, in, dets) ==
  /\ phase = "reading" /\ baseline = BaselineFrames
  /\ entry' = Entered(Expired(found), dets)
  /\ unseen' = Seen(found)
  /\ present' = Entered(present, dets)
  /\ stay' = Stayed(found, in)
  /\ UNCHANGED <<retries, baseline, config>>

EvaluatedFrame(found, in, persons, tampered, now) ==
  LET dets == ZoneFilter(found, in)
      alerts == RuleAlerts(dets, persons, tampered, now)
                  \cup DwellAlerts(dets, Entered(Expired(found), dets))
  IN  /\ Tracked(found, in, dets)
      /\ raised' = alerts
      /\ cool' = Cooled(alerts)
      /\ UNCHANGED phase

(* An exception in the middle of a frame: `told` are the detections that   *)
(* the loop over dwell times has come to, after all of the rules; what has *)
(* been recorded stays, and the alerts are lost, though some of them have  *)
(* their cooldowns set.                                                    *)
FrameFails(found, in, persons, tampered, now) ==
  LET dets == ZoneFilter(found, in)
      rules == RuleAlerts(dets, persons, tampered, now)
  IN  \E told \in SUBSET dets :
        \E lost \in SUBSET (rules \cup DwellAlerts(told, Entered(Expired(found), told))) :
          /\ told # {} => rules \subseteq lost
          /\ Tracked(found, in, told)
          /\ raised' = {}
          /\ cool' = Cooled(lost)
          /\ phase' = "connecting"

(***************************************************************************)
(* Time, configuration and the life of the thread                          *)
(***************************************************************************)

Older(age) == IF age = -1 \/ age = Long THEN age ELSE age + 1

Tick ==
  /\ cool' = [k \in Key |-> IF InCooldown(k) THEN cool[k] - 1 ELSE 0]
  /\ entry' = [t \in Track |-> [n \in Name |-> Older(entry[t][n])]]
  /\ unseen' = [t \in Track |-> Older(unseen[t])]
  /\ present' = [t \in Track |->
                   IF Older(unseen[t]) > Expire THEN Nowhere
                   ELSE [n \in Name |-> Older(present[t][n])]]
  /\ stay' = [t \in Track |->
                IF Older(unseen[t]) > Expire THEN Nowhere
                ELSE [n \in Name |-> Older(stay[t][n])]]
  /\ raised' = {}
  /\ UNCHANGED <<phase, retries, baseline, config>>

(* The config watcher replaces the zones between two frames. *)
Reload ==
  /\ phase # "ended"
  /\ config' \in Config
  /\ raised' = {}
  /\ UNCHANGED <<phase, retries, baseline, cool, entry, unseen, present, stay>>

Connect ==
  /\ phase = "connecting" /\ retries < MaxRetries
  /\ phase' = "reading"
  /\ retries' = 0
  /\ UNCHANGED <<baseline, config, cool, entry, unseen, raised, present, stay>>

ConnectFailsOn ==
  /\ phase = "connecting"
  /\ retries' = retries + 1
  /\ UNCHANGED <<phase, baseline, config, cool, entry, unseen, raised, present, stay>>

ConnectFails ==
  /\ phase = "connecting" /\ retries < MaxRetries
  /\ retries' = retries + 1
  /\ UNCHANGED <<phase, baseline, config, cool, entry, unseen, raised, present, stay>>

(* Five minutes' sleep, then as many attempts again. *)
SleepLong ==
  /\ phase = "connecting" /\ retries = MaxRetries
  /\ retries' = 0
  /\ UNCHANGED <<phase, baseline, config, cool, entry, unseen, raised, present, stay>>

(* The stream ends, or a frame raises an exception before the tracker sees *)
(* it; the tracker, the baseline and the cooldowns outlive the connection. *)
ReadFails ==
  /\ phase = "reading"
  /\ phase' = "connecting"
  /\ raised' = {}
  /\ UNCHANGED <<retries, baseline, config, cool, entry, unseen, present, stay>>

Stop ==
  /\ phase # "ended"
  /\ phase' = "ended"
  /\ raised' = {}
  /\ UNCHANGED <<retries, baseline, config, cool, entry, unseen, present, stay>>

(* The container is restarted, after a crash or by the API. *)
Restart ==
  /\ phase = "ended"
  /\ phase' = "connecting"
  /\ retries' = 0
  /\ baseline' = 0
  /\ config' \in Config
  /\ cool' = [k \in Key |-> 0]
  /\ entry' = [t \in Track |-> Nowhere]
  /\ unseen' = [t \in Track |-> -1]
  /\ raised' = {}
  /\ present' = [t \in Track |-> Nowhere]
  /\ stay' = [t \in Track |-> Nowhere]

(***************************************************************************)
(* Specification                                                           *)
(***************************************************************************)

Frame ==
  \/ BaselineFrame \/ EmptyFrame
  \/ \E found \in SUBSET Track, tampered \in BOOLEAN, now \in 0..(DayTicks - 1) :
       \E in \in [found -> SUBSET ZoneName], persons \in SUBSET found :
         \/ EvaluatedFrame(found, in, persons, tampered, now)
         \/ FrameFails(found, in, persons, tampered, now)

Next ==
  \/ Frame \/ Tick \/ Reload
  \/ Connect \/ ConnectFails \/ SleepLong \/ ReadFails \/ Stop \/ Restart

Spec == Init /\ [][Next]_vars

(***************************************************************************)
(* Properties                                                              *)
(***************************************************************************)

(* Tracks expire only when there are boxes on a frame, which may be long   *)
(* after the track was last seen; that must not make a track that comes    *)
(* back look as if it had been around.  A dwell alert says that the track  *)
(* was first seen in the zone as long ago as the threshold, and never out  *)
(* of sight for more than the expiry since; where it was in the meantime   *)
(* it does not say.                                                        *)
DwellIsVisibility ==
  \A k \in raised : k.rule = "DWELL_TIME" =>
    \E z \in Active : z.name = k.zone /\ present[k.track][z.name] >= z.dwell

(* "Object track_id present in zone for > dwell_threshold_s seconds": for  *)
(* as long as the threshold, a track that raises a dwell alert has not     *)
(* been seen outside the zone.                                             *)
DwellIsPresence ==
  \A k \in raised : k.rule = "DWELL_TIME" =>
    \E z \in Active : z.name = k.zone /\ stay[k.track][z.name] >= z.dwell

(* What the tracker keeps of a track goes when the track does. *)
TracksAreFreed ==
  \A t \in Track : unseen[t] = -1 => entry[t] = Nowhere

(* A tampering alert silences the rules of its frame; only a zone that is  *)
(* not restricted raises after-hours alerts.  Zones of one name share the  *)
(* keys of their alerts.                                                   *)
RulesHavePriority ==
  /\ Tampering \in raised => \A k \in raised \ {Tampering} : k.rule = "DWELL_TIME"
  /\ \A k \in raised : k.rule \in {"AFTER_HOURS_PERSON", "AFTER_HOURS_VEHICLE"} =>
       \E z \in Active : z.name = k.zone /\ ~z.restricted

(* What the alerts of a frame say is so. *)
AlertsAreDue == DwellIsVisibility /\ TracksAreFreed /\ RulesHavePriority

=============================================================================
