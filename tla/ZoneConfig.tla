----------------------------- MODULE ZoneConfig -----------------------------
(***************************************************************************)
(* How the zones of one camera get from the API to the detection service.  *)
(*                                                                         *)
(* A PUT replaces the rows of detection_zones and, before its transaction  *)
(* is committed, sets nvr:zones:<camera> and publishes on                  *)
(* nvr:config:reload:<camera>.  POST, PATCH and DELETE of one zone change  *)
(* rows only.  The detection service loads the key when it starts, then    *)
(* starts the config watcher, which subscribes and reads the key again on  *)
(* each message, into the dictionary the workers take their zones from.    *)
(*                                                                         *)
(* Init, Next, Spec and TypeOK have the module's initials, since it is     *)
(* used together with Detector.                                            *)
(***************************************************************************)
EXTENDS Integers

CONSTANTS
  ZoneData, \* zones as the payload of a PUT names them
  Payload,  \* the payloads: sets of zones
  Writer,   \* PUT requests that may be under way at a time
  NoKey,    \* no such key in Redis, or in the dictionary
  MaxIds,   \* bound: inserts into detection_zones
  MaxInbox  \* bound: messages not taken

ASSUME ZoneConfigOK ==
  /\ Payload \subseteq SUBSET ZoneData
  /\ \A z \in SUBSET ZoneData : z # NoKey
  /\ {MaxIds, MaxInbox} \subseteq Nat

VARIABLES
  rows,     \* the rows of detection_zones
  ids,      \* how many inserts there have been
  stored,   \* nvr:zones:<camera>
  tx,       \* the PUT requests
  inbox,    \* messages the watcher has not taken
  watcher,  \* the service and its config watcher
  raw,      \* what the watcher has read
  zones,    \* zones[<camera>] of the service
  mishap    \* history: what keeps the copies from agreeing

ZCvars == <<rows, ids, stored, tx, inbox, watcher, raw, zones, mishap>>

Entry == (SUBSET ZoneData) \cup {NoKey}
Row == [id : (1..MaxIds) \X ZoneData, zone : ZoneData]

(* The rows that an insert makes; rows are known by their ids. *)
Inserted(new) == {[id |-> <<ids + 1, z>>, zone |-> z] : z \in new}
Ids(some) == {r.id : r \in some}

(* `seen` are the rows a PUT has loaded and deletes; `alone` is whether no *)
(* other request has written zones since.                                  *)
Phase == {"idle", "selected", "flushed", "set", "published"}
Idle == [phase |-> "idle", seen |-> {}, new |-> {}, alone |-> FALSE]

(* "torn": PUTs have overlapped, one was rolled back after its set, or a   *)
(* single zone was edited, and no PUT has replaced all since; "missed": a  *)
(* set of the key was published to a service that had not subscribed yet;  *)
(* "failed": the key could not be read, or a set was not published, or the *)
(* watcher has ended.  The service may then be behind the key until it     *)
(* reads it again.                                                         *)
(*                                                                         *)
(* "down": the service does not run; "loaded": not subscribed yet; "dead": *)
(* the watcher thread has ended and the workers go on.                     *)
ZCTypeOK ==
  /\ rows \subseteq Row
  /\ ids \in 0..MaxIds
  /\ stored \in Entry
  /\ tx \in [Writer -> [phase : Phase, seen : SUBSET Row, new : SUBSET ZoneData,
                        alone : BOOLEAN]]
  /\ inbox \in 0..MaxInbox
  /\ watcher \in {"down", "loaded", "listening", "read", "dead"}
  /\ raw \in Entry
  /\ zones \in Entry
  /\ mishap \subseteq {"torn", "missed", "failed"}

ZCInit ==
  /\ rows = {}
  /\ ids = 0
  /\ stored = NoKey
  /\ tx = [w \in Writer |-> Idle]
  /\ inbox = 0
  /\ watcher = "down"
  /\ raw = NoKey
  /\ zones = NoKey
  /\ mishap = {}

(***************************************************************************)
(* Requests                                                                *)
(***************************************************************************)

Busy(w) == tx[w].phase # "idle"

(* A request that has deleted a row keeps others from deleting it. *)
Deleting(w) == tx[w].phase \in {"flushed", "set", "published"}

Disturbed == [w \in Writer |-> [tx[w] EXCEPT !.alone = FALSE]]

PutSelect(w, c) ==
  /\ ~Busy(w)
  /\ tx' = [Disturbed EXCEPT ![w] = [phase |-> "selected", seen |-> rows, new |-> c,
                                     alone |-> \A v \in Writer : ~Busy(v)]]
  /\ UNCHANGED <<rows, ids, stored, inbox, watcher, raw, zones, mishap>>

PutFlush(w) ==
  /\ tx[w].phase = "selected"
  /\ \A v \in Writer : Deleting(v) => Ids(tx[v].seen) \cap Ids(tx[w].seen) = {}
  /\ tx' = [tx EXCEPT ![w].phase = "flushed"]
  /\ UNCHANGED <<rows, ids, stored, inbox, watcher, raw, zones, mishap>>

PutSet(w) ==
  /\ tx[w].phase = "flushed"
  /\ stored' = tx[w].new
  /\ tx' = [tx EXCEPT ![w].phase = "set"]
  /\ UNCHANGED <<rows, ids, inbox, watcher, raw, zones, mishap>>

(* Only a subscriber gets the message. *)
PutPublish(w) ==
  /\ tx[w].phase = "set" /\ inbox < MaxInbox
  /\ tx' = [tx EXCEPT ![w].phase = "published"]
  /\ inbox' = IF watcher \in {"listening", "read"} THEN inbox + 1 ELSE inbox
  /\ mishap' = IF watcher = "loaded" /\ zones # stored THEN mishap \cup {"missed"} ELSE mishap
  /\ UNCHANGED <<rows, ids, stored, watcher, raw, zones>>

PutCommitAppends(w) ==
  /\ tx[w].phase = "published" /\ ids < MaxIds
  /\ ids' = ids + 1
  /\ rows' = rows \cup Inserted(tx[w].new)
  /\ mishap' = IF tx[w].alone THEN mishap \ {"torn"}
               ELSE mishap \cup {"torn"}
  /\ tx' = [tx EXCEPT ![w] = Idle]
  /\ UNCHANGED <<stored, inbox, watcher, raw, zones>>

(* The rows that were loaded are deleted by their ids, though they were    *)
(* edited since; one that is gone by then is passed over.                  *)
PutCommit(w) ==
  /\ tx[w].phase = "published" /\ ids < MaxIds
  /\ ids' = ids + 1
  /\ rows' = {r \in rows : r.id \notin Ids(tx[w].seen)} \cup Inserted(tx[w].new)
  /\ mishap' = IF tx[w].alone THEN mishap \ {"torn"}
               ELSE mishap \cup {"torn"}
  /\ tx' = [tx EXCEPT ![w] = Idle]
  /\ UNCHANGED <<stored, inbox, watcher, raw, zones>>

(* Redis or the commit fails: the rows come back, the key stays set. *)
PutRollBack(w) ==
  /\ Busy(w)
  /\ mishap' = mishap \cup CASE tx[w].phase = "set" -> {"torn", "failed"}
                             [] tx[w].phase = "published" -> {"torn"}
                             [] OTHER -> {}
  /\ tx' = [tx EXCEPT ![w] = Idle]
  /\ UNCHANGED <<rows, ids, stored, inbox, watcher, raw, zones>>

Held(r) == \E w \in Writer : Deleting(w) /\ r.id \in Ids(tx[w].seen)

SingleEdit ==
  /\ tx' = Disturbed
  /\ mishap' = mishap \cup {"torn"}
  /\ UNCHANGED <<stored, inbox, watcher, raw, zones>>

CreateZone(z) ==
  /\ ids < MaxIds
  /\ ids' = ids + 1
  /\ rows' = rows \cup Inserted({z})
  /\ SingleEdit

UpdateZone(r, z) ==
  /\ ~Held(r)
  /\ rows' = (rows \ {r}) \cup {[id |-> r.id, zone |-> z]}
  /\ SingleEdit
  /\ UNCHANGED ids

DeleteZone(r) ==
  /\ ~Held(r)
  /\ rows' = rows \ {r}
  /\ SingleEdit
  /\ UNCHANGED ids

(***************************************************************************)
(* The detection service                                                   *)
(***************************************************************************)

Load ==
  /\ watcher = "down"
  /\ zones' = stored
  /\ watcher' = "loaded"
  /\ mishap' = mishap \ {"missed", "failed"}
  /\ UNCHANGED <<rows, ids, stored, tx, inbox, raw>>

(* The first load fails: the service goes on without zones.                *)
LoadFails ==
  /\ watcher = "down"
  /\ watcher' = "loaded"
  /\ mishap' = mishap \cup {"failed"}
  /\ UNCHANGED <<rows, ids, stored, tx, inbox, raw, zones>>

Subscribe ==
  /\ watcher = "loaded"
  /\ watcher' = "listening"
  /\ UNCHANGED <<rows, ids, stored, tx, inbox, raw, zones, mishap>>

WatcherGetAnyway ==
  /\ watcher = "listening"
  /\ inbox' = inbox - 1
  /\ raw' = stored
  /\ watcher' = "read"
  /\ UNCHANGED <<rows, ids, stored, tx, zones, mishap>>

WatcherGet ==
  /\ watcher = "listening" /\ inbox > 0
  /\ inbox' = inbox - 1
  /\ raw' = stored
  /\ watcher' = "read"
  /\ UNCHANGED <<rows, ids, stored, tx, zones, mishap>>

(* A key that is not there leaves the dictionary as it is. *)
WatcherApply ==
  /\ watcher = "read"
  /\ zones' = IF raw = NoKey THEN zones ELSE raw
  /\ watcher' = "listening"
  /\ raw' = NoKey
  /\ mishap' = IF raw = stored THEN mishap \ {"missed", "failed"} ELSE mishap
  /\ UNCHANGED <<rows, ids, stored, tx, inbox>>

(* The key cannot be read or parsed; the message has been taken. *)
ReloadFails ==
  /\ watcher = "read"
  /\ watcher' = "listening"
  /\ raw' = NoKey
  /\ mishap' = mishap \cup {"failed"}
  /\ UNCHANGED <<rows, ids, stored, tx, inbox, zones>>

(* The connection is lost: the thread ends, for as long as the service runs. *)
WatcherDies ==
  /\ watcher \in {"loaded", "listening"}
  /\ watcher' = "dead"
  /\ inbox' = 0
  /\ mishap' = mishap \cup {"failed"}
  /\ UNCHANGED <<rows, ids, stored, tx, raw, zones>>

ServiceStops ==
  /\ watcher # "down"
  /\ watcher' = "down"
  /\ zones' = NoKey
  /\ raw' = NoKey
  /\ inbox' = 0
  /\ UNCHANGED <<rows, ids, stored, tx, mishap>>

(***************************************************************************)
(* Specification                                                           *)
(***************************************************************************)

Put(w) ==
  \/ \E c \in Payload : PutSelect(w, c)
  \/ PutFlush(w) \/ PutSet(w) \/ PutPublish(w) \/ PutCommit(w) \/ PutRollBack(w)

Edit ==
  \/ \E z \in ZoneData : CreateZone(z) \/ \E r \in rows : UpdateZone(r, z)
  \/ \E r \in rows : DeleteZone(r)

Service ==
  \/ Load \/ LoadFails \/ Subscribe \/ WatcherGet \/ WatcherApply
  \/ ReloadFails \/ WatcherDies \/ ServiceStops

ZCNext == (\E w \in Writer : Put(w)) \/ Edit \/ Service

ZCSpec == ZCInit /\ [][ZCNext]_ZCvars

(***************************************************************************)
(* Properties                                                              *)
(***************************************************************************)

(* All that was published has been taken, and no set is on its way.        *)
Quiet ==
  /\ watcher = "listening" /\ inbox = 0
  /\ \A w \in Writer : tx[w].phase # "set"

(* A service that listens has the zones of the key, once it has taken what *)
(* was published: a set between a read and its use is not missed, since it *)
(* is published after it.  Two things can keep it behind until it reads    *)
(* the key again, and are excepted: a set that was published between its   *)
(* load and its subscription, and a read, a publication or a watcher that  *)
(* has failed, the first load included, after which the service goes on    *)
(* without zones.                                                          *)
ServiceAgrees == (Quiet /\ {"missed", "failed"} \cap mishap = {}) => zones = stored

(* "Publish to Redis so detection service reloads without restart": a      *)
(* service that listens has the zones of the key, if nothing has failed.   *)
PublishReloads == (Quiet /\ "failed" \notin mishap) => zones = stored

(* The key has the zones of the rows, when no PUT is under way, unless     *)
(* PUTs overlapped, one was rolled back after its set, or a single zone    *)
(* was edited since.                                                       *)
KeyAgrees ==
  (/\ \A w \in Writer : ~Busy(w)
   /\ "torn" \notin mishap) =>
     {r.zone : r \in rows} = IF stored = NoKey THEN {} ELSE stored

(* What replace_zones and the config watcher promise: the zones in the     *)
(* database, in Redis and in the detection service agree when all is quiet *)
(* and none of the overlaps and faults above has come between.             *)
ZonesAgree == ServiceAgrees /\ KeyAgrees

=============================================================================
