---------------------------- MODULE DetectionProofs ----------------------------
(***************************************************************************)
(* Theorems about the detection service: how zones get to it (ZoneConfig), *)
(* for any number of zones, payloads, requests, inserts and messages; and  *)
(* what its worker makes of frames (Detector), for every set of tracks and *)
(* zones, every configuration and all periods.                             *)
(***************************************************************************)
EXTENDS Detector, ZoneConfig, TLAPS
-----------------------------------------------------------------------------
(* ZoneConfig: type correctness *)

Request == [phase : Phase, seen : SUBSET Row, new : SUBSET ZoneData, alone : BOOLEAN]

\* A request that is forgotten, or disturbed, or goes on, is still a request.
LEMMA Requests ==
  ASSUME ZCTypeOK, NEW w \in Writer
  PROVE  /\ tx[w] \in Request /\ Idle \in Request
         /\ Disturbed \in [Writer -> Request]
         /\ \A p \in Phase : [tx[w] EXCEPT !.phase = p] \in Request
         /\ [tx EXCEPT ![w] = Idle] \in [Writer -> Request]
<1>1. tx \in [Writer -> Request] /\ tx[w] \in Request
  BY DEF ZCTypeOK, Request
<1>2. Idle \in Request
  BY DEF Idle, Request, Phase
<1>3. \A v \in Writer : [tx[v] EXCEPT !.alone = FALSE] \in Request
  BY <1>1 DEF Request
<1> QED
  BY <1>1, <1>2, <1>3 DEF Disturbed, Request

\* What a disturbance leaves of the requests.
LEMMA DisturbedRequests ==
  ASSUME ZCTypeOK, NEW w \in Writer
  PROVE  /\ Disturbed[w].phase = tx[w].phase /\ Disturbed[w].new = tx[w].new
         /\ Disturbed[w].seen = tx[w].seen /\ ~Disturbed[w].alone
<1>1. tx[w] \in Request
  BY Requests
<1> QED
  BY <1>1 DEF Disturbed, Request

\* A PUT names rows that there can be, and the zones of these are those it was given.
LEMMA NewRows ==
  ASSUME NEW zs \in SUBSET ZoneData
  PROVE  /\ ids + 1 \in 1..MaxIds => Inserted(zs) \subseteq Row
         /\ {r.zone : r \in Inserted(zs)} = zs
<1>1. ids + 1 \in 1..MaxIds => Inserted(zs) \subseteq Row
  BY DEF Row, Inserted
<1>2. \A z \in zs : z \in {r.zone : r \in Inserted(zs)}
  <2> SUFFICES ASSUME NEW z \in zs PROVE \E r \in Inserted(zs) : r.zone = z
    OBVIOUS
  <2>1. PICK r : r = [id |-> <<ids + 1, z>>, zone |-> z]
    OBVIOUS
  <2> QED
    BY <2>1 DEF Inserted
<1>3. \A r \in Inserted(zs) : r.zone \in zs
  BY DEF Inserted
<1> QED
  BY <1>1, <1>2, <1>3

\* Every step keeps the types.
LEMMA TypeStep == ZCTypeOK /\ [ZCNext]_ZCvars => ZCTypeOK'
<1> SUFFICES ASSUME ZCTypeOK, [ZCNext]_ZCvars PROVE ZCTypeOK'
  OBVIOUS
<1>0. /\ ids \in Nat /\ MaxIds \in Nat /\ MaxInbox \in Nat /\ inbox \in Nat
      /\ Payload \subseteq SUBSET ZoneData
  BY ZoneConfigOK DEF ZCTypeOK
<1>1. ASSUME NEW w \in Writer, NEW c \in Payload, PutSelect(w, c) PROVE ZCTypeOK'
  <2>1. [phase |-> "selected", seen |-> rows, new |-> c, alone |-> \A v \in Writer : ~Busy(v)]
          \in Request
    BY <1>0 DEF ZCTypeOK, Request, Phase
  <2>2. tx' \in [Writer -> Request]
    BY <1>1, <2>1, Requests DEF PutSelect
  <2> QED
    BY <1>1, <2>2 DEF PutSelect, ZCTypeOK, Request
<1>2. ASSUME NEW w \in Writer, PutFlush(w) \/ PutSet(w) \/ PutPublish(w) PROVE ZCTypeOK'
  <2>1. \A p \in Phase : [tx[w] EXCEPT !.phase = p] \in Request
    BY Requests
  <2>2. tx' \in [Writer -> Request]
    BY <1>2, <2>1 DEF PutFlush, PutSet, PutPublish, Phase, ZCTypeOK, Request
  <2>3. tx[w].new \in SUBSET ZoneData
    BY DEF ZCTypeOK
  <2>4. inbox' \in 0..MaxInbox
    BY <1>0, <1>2 DEF PutFlush, PutSet, PutPublish, ZCTypeOK
  <2> QED
    BY <1>2, <2>2, <2>3, <2>4 DEF PutFlush, PutSet, PutPublish, ZCTypeOK, Request, Entry
<1>3. ASSUME NEW w \in Writer, PutCommit(w) PROVE ZCTypeOK'
  <2>1. ids' \in 0..MaxIds /\ ids + 1 \in 1..MaxIds
    BY <1>0, <1>3 DEF PutCommit
  <2>2. rows' \subseteq Row
    <3>1. tx[w].new \in SUBSET ZoneData
      BY DEF ZCTypeOK
    <3> QED
      BY <1>3, <2>1, <3>1, NewRows DEF PutCommit, ZCTypeOK
  <2>3. tx' \in [Writer -> Request]
    BY <1>3, Requests DEF PutCommit
  <2> QED
    BY <1>3, <2>1, <2>2, <2>3 DEF PutCommit, ZCTypeOK, Request
<1>4. ASSUME NEW w \in Writer, PutRollBack(w) PROVE ZCTypeOK'
  <2>1. tx' \in [Writer -> Request]
    BY <1>4, Requests DEF PutRollBack
  <2> QED
    BY <1>4, <2>1 DEF PutRollBack, ZCTypeOK, Request
<1>5. ASSUME NEW w \in Writer PROVE Disturbed \in [Writer -> Request]
  BY Requests
<1>6. Disturbed \in [Writer -> Request]
  <2>1. CASE Writer = {}
    BY <2>1 DEF Disturbed
  <2>2. CASE Writer # {}
    BY <1>5, <2>2
  <2> QED
    BY <2>1, <2>2
<1>7. ASSUME NEW z \in ZoneData, CreateZone(z) PROVE ZCTypeOK'
  <2>1. ids' \in 0..MaxIds /\ ids + 1 \in 1..MaxIds
    BY <1>0, <1>7 DEF CreateZone
  <2>2. {z} \in SUBSET ZoneData
    OBVIOUS
  <2>3. rows' \subseteq Row
    BY <1>7, <2>1, <2>2, NewRows DEF CreateZone, ZCTypeOK
  <2> QED
    BY <1>6, <1>7, <2>1, <2>3 DEF CreateZone, SingleEdit, ZCTypeOK, Request
<1>8. ASSUME NEW r \in rows, NEW z \in ZoneData, UpdateZone(r, z) PROVE ZCTypeOK'
  <2>1. r.id \in (1..MaxIds) \X ZoneData
    BY DEF ZCTypeOK, Row
  <2> QED
    BY <1>6, <1>8, <2>1 DEF UpdateZone, SingleEdit, ZCTypeOK, Row, Request
<1>9. ASSUME NEW r \in rows, DeleteZone(r) PROVE ZCTypeOK'
  BY <1>6, <1>9 DEF DeleteZone, SingleEdit, ZCTypeOK, Request
<1>10. CASE Load \/ LoadFails \/ Subscribe
  BY <1>10 DEF Load, LoadFails, Subscribe, ZCTypeOK
<1>11. CASE WatcherGet
  BY <1>0, <1>11 DEF WatcherGet, ZCTypeOK
<1>12. CASE WatcherApply \/ ReloadFails \/ WatcherDies \/ ServiceStops
  <2>1. NoKey \in Entry /\ zones' \in Entry /\ raw' \in Entry
    BY <1>12 DEF WatcherApply, ReloadFails, WatcherDies, ServiceStops, ZCTypeOK, Entry
  <2>2. inbox' \in 0..MaxInbox
    BY <1>0, <1>12 DEF WatcherApply, ReloadFails, WatcherDies, ServiceStops, ZCTypeOK
  <2> QED
    BY <1>12, <2>1, <2>2 DEF WatcherApply, ReloadFails, WatcherDies, ServiceStops, ZCTypeOK
<1>13. CASE UNCHANGED ZCvars
  BY <1>13 DEF ZCvars, ZCTypeOK
<1> QED
  BY <1>1, <1>2, <1>3, <1>4, <1>7, <1>8, <1>9, <1>10, <1>11, <1>12, <1>13
  DEF ZCNext, Put, Edit, Service

\* The rows, the key and the service start out with their types.
LEMMA TypeInit == ZCInit => ZCTypeOK
<1> SUFFICES ASSUME ZCInit PROVE ZCTypeOK
  OBVIOUS
<1>1. NoKey \in Entry
  BY DEF Entry
<1>2. Idle \in Request
  BY DEF Idle, Request, Phase
<1>3. 0 \in 0..MaxIds /\ 0 \in 0..MaxInbox
  BY ZoneConfigOK
<1> QED
  BY <1>1, <1>2, <1>3 DEF ZCInit, ZCTypeOK, Request

(* Rows, requests, key, messages and the service's copy keep their types.  *)
THEOREM ZCTypeCorrect == ZCSpec => []ZCTypeOK
  BY TypeInit, TypeStep, PTL DEF ZCSpec
-----------------------------------------------------------------------------
(* Agreement: what is on its way accounts for every difference.            *)

Announcing == \E w \in Writer : tx[w].phase = "set"
Writing == \E w \in Writer : tx[w].phase \in {"set", "published"}

\* The service's copy is that of the key, or a message will tell it.
Heard ==
  /\ stored = NoKey => zones = NoKey /\ raw = NoKey
  /\ {"missed", "failed"} \cap mishap = {} =>
       /\ watcher = "loaded" => zones = stored \/ Announcing
       /\ watcher = "listening" => zones = stored \/ inbox > 0 \/ Announcing
       /\ watcher = "read" => raw = stored \/ inbox > 0 \/ Announcing

\* A PUT that is alone replaces all the rows, by what it has set or will set.
AloneHolds(w) ==
  tx[w].alone /\ Busy(w) =>
    /\ \A v \in Writer \ {w} : ~Busy(v)
    /\ tx[w].seen = rows
    /\ tx[w].phase \in {"set", "published"} => stored = tx[w].new

Synced == {r.zone : r \in rows} = IF stored = NoKey THEN {} ELSE stored

Agree ==
  /\ Heard
  /\ \A w \in Writer : AloneHolds(w)
  /\ "torn" \notin mishap /\ ~Writing => Synced

\* Every step leaves the service its copy, or a message on its way to it.
LEMMA HeardStep == ZCTypeOK /\ Heard /\ [ZCNext]_ZCvars => Heard'
<1> SUFFICES ASSUME ZCTypeOK, Heard, [ZCNext]_ZCvars PROVE Heard'
  OBVIOUS
<1>0. inbox \in Nat /\ tx \in [Writer -> Request] /\ mishap \subseteq {"torn", "missed", "failed"}
      /\ \A w \in Writer : tx[w] \in Request
  BY ZoneConfigOK DEF ZCTypeOK, Request
<1>1. ASSUME NEW w \in Writer, tx'[w].phase # "set",
             \A v \in Writer \ {w} : tx'[v].phase = tx[v].phase, tx[w].phase # "set"
      PROVE  Announcing' = Announcing
  BY <1>1 DEF Announcing
<1>2. ASSUME Announcing' = Announcing, UNCHANGED <<stored, inbox, watcher, raw, zones>>,
             mishap \subseteq mishap' \cup {"torn"}
      PROVE  Heard'
  BY <1>2 DEF Heard
<1>3. ASSUME NEW v \in Writer PROVE Disturbed[v].phase = tx[v].phase
  BY <1>3, DisturbedRequests
<1>4. ASSUME NEW w \in Writer, NEW c \in Payload, PutSelect(w, c) PROVE Heard'
  <2>1. tx'[w].phase = "selected" /\ \A v \in Writer \ {w} : tx'[v].phase = tx[v].phase
    BY <1>0, <1>3, <1>4, Requests DEF PutSelect
  <2>2. Announcing' = Announcing
    BY <1>1, <1>4, <2>1 DEF PutSelect, Busy
  <2> QED
    BY <1>2, <1>4, <2>2 DEF PutSelect
<1>5. ASSUME NEW w \in Writer, NEW p \in Phase, tx' = [tx EXCEPT ![w].phase = p]
      PROVE  tx'[w].phase = p /\ \A v \in Writer \ {w} : tx'[v] = tx[v]
  BY <1>0, <1>5 DEF Request
<1>6. ASSUME NEW w \in Writer, PutFlush(w) PROVE Heard'
  <2>1. tx'[w].phase = "flushed" /\ \A v \in Writer \ {w} : tx'[v] = tx[v]
    BY <1>5, <1>6 DEF PutFlush, Phase
  <2>2. Announcing' = Announcing
    BY <1>1, <1>6, <2>1 DEF PutFlush
  <2> QED
    BY <1>2, <1>6, <2>2 DEF PutFlush
<1>7. ASSUME NEW w \in Writer, PutSet(w) PROVE Heard'
  <2>1. tx'[w].phase = "set"
    BY <1>5, <1>7 DEF PutSet, Phase
  <2>2. Announcing'
    BY <2>1 DEF Announcing
  <2>3. stored' # NoKey
    <3>1. tx[w].new \in SUBSET ZoneData
      BY <1>0 DEF Request
    <3> QED
      BY <1>7, <3>1, ZoneConfigOK DEF PutSet
  <2> QED
    BY <2>2, <2>3 DEF Heard
<1>8. ASSUME NEW w \in Writer, PutPublish(w) PROVE Heard'
  <2>1. tx'[w].phase = "published" /\ \A v \in Writer \ {w} : tx'[v] = tx[v]
    BY <1>5, <1>8 DEF PutPublish, Phase
  <2>2. CASE watcher \in {"listening", "read"}
    BY <1>0, <1>8, <2>2 DEF PutPublish, Heard
  <2>3. CASE watcher \notin {"listening", "read"}
    BY <1>8, <2>3 DEF PutPublish, Heard
  <2> QED
    BY <2>2, <2>3
<1>9. ASSUME NEW w \in Writer, PutCommit(w) PROVE Heard'
  <2>1. tx'[w].phase = "idle" /\ \A v \in Writer \ {w} : tx'[v] = tx[v]
    BY <1>0, <1>9 DEF PutCommit, Idle
  <2>2. Announcing' = Announcing
    BY <1>1, <1>9, <2>1 DEF PutCommit
  <2> QED
    BY <1>2, <1>9, <2>2 DEF PutCommit
<1>10. ASSUME NEW w \in Writer, PutRollBack(w) PROVE Heard'
  <2>1. tx'[w].phase = "idle" /\ \A v \in Writer \ {w} : tx'[v] = tx[v]
    BY <1>0, <1>10 DEF PutRollBack, Idle
  <2>2. CASE tx[w].phase = "set"
    <3>1. "failed" \in mishap'
      BY <1>10, <2>2 DEF PutRollBack
    <3> QED
      BY <1>10, <3>1 DEF PutRollBack, Heard
  <2>3. CASE tx[w].phase # "set"
    <3>1. Announcing' = Announcing
      BY <1>1, <2>1, <2>3
    <3>2. mishap \subseteq mishap'
      BY <1>10 DEF PutRollBack
    <3> QED
      BY <1>2, <1>10, <3>1, <3>2 DEF PutRollBack
  <2> QED
    BY <2>2, <2>3
<1>11. CASE Edit
  <2>1. SingleEdit
    BY <1>11 DEF Edit, CreateZone, UpdateZone, DeleteZone
  <2>2. Announcing' = Announcing
    BY <1>3, <2>1 DEF SingleEdit, Announcing
  <2> QED
    BY <1>2, <2>1, <2>2 DEF SingleEdit
<1>12. UNCHANGED tx => Announcing' = Announcing
  BY DEF Announcing
<1>13. CASE Load \/ LoadFails \/ Subscribe \/ ServiceStops \/ WatcherDies \/ ReloadFails
  BY <1>12, <1>13 DEF Load, LoadFails, Subscribe, ServiceStops, WatcherDies, ReloadFails, Heard
<1>14. CASE WatcherGet
  BY <1>12, <1>14 DEF WatcherGet, Heard
<1>15. CASE WatcherApply
  <2>1. CASE raw = stored
    BY <1>15, <2>1 DEF WatcherApply, Heard
  <2>2. CASE raw # stored
    <3>1. mishap' = mishap /\ stored' = stored /\ inbox' = inbox
      BY <1>15, <2>2 DEF WatcherApply
    <3>2. stored # NoKey
      BY <2>2 DEF Heard
    <3> QED
      BY <1>12, <1>15, <2>2, <3>1, <3>2 DEF WatcherApply, Heard
  <2> QED
    BY <2>1, <2>2
<1>16. CASE UNCHANGED ZCvars
  BY <1>12, <1>16 DEF ZCvars, Heard
<1> QED
  BY <1>4, <1>6, <1>7, <1>8, <1>9, <1>10, <1>11, <1>13, <1>14, <1>15, <1>16
  DEF ZCNext, Put, Service

\* Every step keeps what a PUT that is alone will do, and the rows in step
\* with the key.
LEMMA RowsStep ==
  ASSUME ZCTypeOK, Agree, [ZCNext]_ZCvars
  PROVE  /\ \A w \in Writer : AloneHolds(w)'
         /\ "torn" \notin mishap' /\ ~Writing' => Synced'
<1>0. /\ tx \in [Writer -> Request] /\ \A w \in Writer : tx[w] \in Request
      /\ \A w \in Writer : AloneHolds(w)
      /\ "torn" \notin mishap /\ ~Writing => Synced
  BY DEF ZCTypeOK, Request, Agree
<1> DEFINE Goal == /\ \A w \in Writer : AloneHolds(w)'
                   /\ "torn" \notin mishap' /\ ~Writing' => Synced'
<1>1. ASSUME UNCHANGED <<rows, stored, tx>>, "torn" \in mishap <=> "torn" \in mishap' PROVE Goal
  BY <1>0, <1>1 DEF AloneHolds, Busy, Writing, Synced
<1>2. ASSUME NEW w \in Writer, NEW c \in Payload, PutSelect(w, c) PROVE Goal
  <2>1. /\ tx'[w] = [phase |-> "selected", seen |-> rows, new |-> c,
                     alone |-> \A v \in Writer : ~Busy(v)]
        /\ \A v \in Writer \ {w} : tx'[v] = Disturbed[v]
    BY <1>0, <1>2, Requests DEF PutSelect
  <2>2. /\ tx'[w].phase = "selected" /\ tx'[w].seen = rows
        /\ tx'[w].alone => \A v \in Writer : ~Busy(v)
    BY <2>1
  <2>3. \A v \in Writer \ {w} : tx'[v].phase = tx[v].phase /\ ~tx'[v].alone
    BY <2>1, DisturbedRequests
  <2>4. UNCHANGED <<rows, stored, mishap>> /\ tx[w].phase = "idle"
    BY <1>2 DEF PutSelect, Busy
  <2>5. Writing' = Writing
    BY <2>2, <2>3, <2>4 DEF Writing
  <2>6. AloneHolds(w)'
    BY <2>2, <2>3, <2>4 DEF AloneHolds, Busy
  <2>7. \A v \in Writer \ {w} : AloneHolds(v)'
    BY <2>3 DEF AloneHolds
  <2> QED
    BY <1>0, <2>4, <2>5, <2>6, <2>7 DEF Synced
<1>3. ASSUME NEW w \in Writer, NEW p \in Phase, p # "idle", tx[w].phase # "idle",
             tx' = [tx EXCEPT ![w].phase = p], UNCHANGED rows,
             "torn" \in mishap <=> "torn" \in mishap'
      PROVE  /\ \A v \in Writer \ {w} : tx'[v] = tx[v]
             /\ tx'[w].phase = p /\ tx'[w].seen = tx[w].seen
             /\ tx'[w].new = tx[w].new /\ tx'[w].alone = tx[w].alone
             /\ \A v \in Writer : Busy(v)' <=> Busy(v)
  <2>1. /\ \A v \in Writer \ {w} : tx'[v] = tx[v]
        /\ tx'[w].phase = p /\ tx'[w].seen = tx[w].seen
        /\ tx'[w].new = tx[w].new /\ tx'[w].alone = tx[w].alone
    BY <1>0, <1>3 DEF Request
  <2> QED
    BY <1>3, <2>1 DEF Busy
<1>4. ASSUME NEW w \in Writer, PutFlush(w) PROVE Goal
  <2>1. /\ \A v \in Writer \ {w} : tx'[v] = tx[v]
        /\ tx'[w].phase = "flushed" /\ tx'[w].seen = tx[w].seen
        /\ tx'[w].new = tx[w].new /\ tx'[w].alone = tx[w].alone
        /\ \A v \in Writer : Busy(v)' <=> Busy(v)
    BY <1>3, <1>4 DEF PutFlush, Phase
  <2>2. UNCHANGED <<rows, stored, mishap>> /\ tx[w].phase = "selected"
    BY <1>4 DEF PutFlush
  <2>3. Writing' = Writing
    BY <2>1, <2>2 DEF Writing
  <2>4. \A v \in Writer : AloneHolds(v)'
    BY <1>0, <2>1, <2>2 DEF AloneHolds
  <2> QED
    BY <1>0, <2>2, <2>3, <2>4 DEF Synced
<1>5. ASSUME NEW w \in Writer, PutSet(w) PROVE Goal
  <2>1. /\ \A v \in Writer \ {w} : tx'[v] = tx[v]
        /\ tx'[w].phase = "set" /\ tx'[w].seen = tx[w].seen
        /\ tx'[w].new = tx[w].new /\ tx'[w].alone = tx[w].alone
        /\ \A v \in Writer : Busy(v)' <=> Busy(v)
    BY <1>3, <1>5 DEF PutSet, Phase
  <2>2. UNCHANGED <<rows, mishap>> /\ stored' = tx[w].new /\ Busy(w)
    BY <1>5 DEF PutSet, Busy
  <2>3. Writing'
    BY <2>1 DEF Writing
  <2>4. AloneHolds(w)'
    BY <1>0, <2>1, <2>2 DEF AloneHolds
  <2>5. ASSUME NEW v \in Writer \ {w} PROVE AloneHolds(v)'
    <3>1. ~(tx[v].alone /\ Busy(v))
      BY <1>0, <2>2 DEF AloneHolds
    <3> QED
      BY <2>1, <3>1 DEF AloneHolds
  <2> QED
    BY <2>3, <2>4, <2>5
<1>6. ASSUME NEW w \in Writer, PutPublish(w) PROVE Goal
  <2>0. "torn" \in mishap <=> "torn" \in mishap'
    BY <1>6 DEF PutPublish
  <2>1. /\ \A v \in Writer \ {w} : tx'[v] = tx[v]
        /\ tx'[w].phase = "published" /\ tx'[w].seen = tx[w].seen
        /\ tx'[w].new = tx[w].new /\ tx'[w].alone = tx[w].alone
        /\ \A v \in Writer : Busy(v)' <=> Busy(v)
    BY <1>3, <1>6, <2>0 DEF PutPublish, Phase
  <2>2. UNCHANGED <<rows, stored>> /\ tx[w].phase = "set"
    BY <1>6 DEF PutPublish
  <2>3. Writing'
    BY <2>1 DEF Writing
  <2>4. \A v \in Writer : AloneHolds(v)'
    BY <1>0, <2>1, <2>2 DEF AloneHolds
  <2> QED
    BY <2>3, <2>4
<1>7. ASSUME NEW w \in Writer, PutCommit(w) PROVE Goal
  <2>1. /\ \A v \in Writer \ {w} : tx'[v] = tx[v]
        /\ tx'[w].phase = "idle" /\ tx[w].phase = "published"
        /\ rows' = {r \in rows : r.id \notin Ids(tx[w].seen)} \cup Inserted(tx[w].new)
        /\ UNCHANGED stored
    BY <1>0, <1>7 DEF PutCommit, Idle
  <2>2. CASE ~tx[w].alone
    <3>1. "torn" \in mishap'
      BY <1>7, <2>2 DEF PutCommit
    <3>2. ASSUME NEW v \in Writer PROVE AloneHolds(v)'
      BY <1>0, <2>1 DEF AloneHolds, Busy
    <3> QED
      BY <3>1, <3>2
  <2>3. CASE tx[w].alone
    <3>1. /\ \A v \in Writer \ {w} : ~Busy(v)
          /\ tx[w].seen = rows /\ stored = tx[w].new
      BY <1>0, <2>1, <2>3 DEF AloneHolds, Busy
    <3>2. \A v \in Writer : ~Busy(v)'
      BY <2>1, <3>1 DEF Busy
    <3>3. rows' = Inserted(tx[w].new)
      BY <2>1, <3>1 DEF Ids
    <3>4. {r.zone : r \in rows'} = tx[w].new
      <4>1. tx[w].new \in SUBSET ZoneData
        BY <1>0 DEF Request
      <4> QED
        BY <3>3, <4>1, NewRows
    <3>5. stored # NoKey
      <4>1. tx[w].new \in SUBSET ZoneData
        BY <1>0 DEF Request
      <4> QED
        BY <3>1, <4>1, ZoneConfigOK
    <3>6. Synced'
      BY <2>1, <3>1, <3>4, <3>5 DEF Synced
    <3> QED
      BY <3>2, <3>6 DEF AloneHolds
  <2> QED
    BY <2>2, <2>3
<1>8. ASSUME NEW w \in Writer, PutRollBack(w) PROVE Goal
  <2>1. /\ \A v \in Writer \ {w} : tx'[v] = tx[v]
        /\ tx'[w].phase = "idle" /\ UNCHANGED <<rows, stored>> /\ mishap \subseteq mishap'
    BY <1>0, <1>8 DEF PutRollBack, Idle
  <2>2. \A v \in Writer : AloneHolds(v)'
    BY <1>0, <2>1 DEF AloneHolds, Busy
  <2>3. CASE tx[w].phase \in {"set", "published"}
    <3>1. "torn" \in mishap'
      BY <1>8, <2>3 DEF PutRollBack
    <3> QED
      BY <2>2, <3>1
  <2>4. CASE tx[w].phase \notin {"set", "published"}
    <3>1. Writing' = Writing
      BY <2>1, <2>4 DEF Writing
    <3> QED
      BY <1>0, <2>1, <2>2, <3>1 DEF Synced
  <2> QED
    BY <2>3, <2>4
<1>9. CASE Edit
  <2>1. SingleEdit
    BY <1>9 DEF Edit, CreateZone, UpdateZone, DeleteZone
  <2>2. "torn" \in mishap' /\ tx' = Disturbed
    BY <2>1 DEF SingleEdit
  <2>3. \A v \in Writer : ~tx'[v].alone
    BY <2>2, DisturbedRequests
  <2> QED
    BY <2>2, <2>3 DEF AloneHolds
<1>10. CASE Service
  <2>1. UNCHANGED <<rows, stored, tx>> /\ ("torn" \in mishap <=> "torn" \in mishap')
    BY <1>10 DEF Service, Load, LoadFails, Subscribe, WatcherGet, WatcherApply, ReloadFails,
                 WatcherDies, ServiceStops
  <2> QED
    BY <1>1, <2>1
<1>11. CASE UNCHANGED ZCvars
  BY <1>1, <1>11 DEF ZCvars
<1> QED
  BY <1>2, <1>4, <1>5, <1>6, <1>7, <1>8, <1>9, <1>10, <1>11 DEF ZCNext, Put

(* The zones of the database, of Redis and of the service agree when all   *)
(* is quiet, unless PUTs have overlapped, a set was published before the   *)
(* service had subscribed, or a load, a reload, a publication or the       *)
(* watcher has failed since (replace_zones, main.py, config_watcher).      *)
THEOREM ZonesAgreeAlways == ZCSpec => []ZonesAgree
<1>1. ZCInit => Agree
  <2> SUFFICES ASSUME ZCInit PROVE Agree
    OBVIOUS
  <2>1. \A w \in Writer : tx[w].phase = "idle"
    BY DEF ZCInit, Idle
  <2>2. Synced
    BY DEF ZCInit, Synced
  <2> QED
    BY <2>1, <2>2 DEF ZCInit, Agree, Heard, AloneHolds, Busy
<1>2. ZCTypeOK /\ Agree /\ [ZCNext]_ZCvars => Agree'
  <2> SUFFICES ASSUME ZCTypeOK, Agree, [ZCNext]_ZCvars PROVE Agree'
    OBVIOUS
  <2>1. Heard'
    BY HeardStep DEF Agree
  <2> QED
    BY <2>1, RowsStep DEF Agree
<1>3. ZCTypeOK /\ Agree => ZonesAgree
  <2> SUFFICES ASSUME ZCTypeOK, Agree PROVE ZonesAgree
    OBVIOUS
  <2>1. ServiceAgrees
    BY DEF Agree, Heard, Announcing, ServiceAgrees, Quiet
  <2>2. KeyAgrees
    BY DEF Agree, Writing, Synced, KeyAgrees, Busy
  <2> QED
    BY <2>1, <2>2 DEF ZonesAgree
<1> QED
  BY <1>1, <1>2, <1>3, ZCTypeCorrect, PTL DEF ZCSpec

-----------------------------------------------------------------------------
(* Detector: zones, detections and alerts *)

Detection == [track : Track, zone : Zone]

LEMMA ActiveZones ==
  ASSUME config \in Config
  PROVE  Active \subseteq Zone
<1>1. FullFrameZone \in Zone
  BY DetectorOK DEF FullFrameZone, Zone
<1>2. config \subseteq Zone
  BY ZonesOK
<1> QED
  BY <1>1, <1>2 DEF Active

LEMMA Filtered ==
  ASSUME config \in Config, NEW found \in SUBSET Track, NEW in
  PROVE  /\ ZoneFilter(found, in) \subseteq Detection
         /\ \A d \in ZoneFilter(found, in) : d.track \in found /\ d.zone \in Active
BY ActiveZones DEF ZoneFilter, Detection

LEMMA Keys ==
  ASSUME NEW d \in Detection, NEW persons, NEW now
  PROVE  /\ DwellKey(d) \in Key /\ DwellKey(d).rule = "DWELL_TIME"
         /\ DwellKey(d).zone = d.zone.name /\ DwellKey(d).track = d.track
         /\ \A k \in RuleFor(d, persons, now) :
              /\ k \in Key /\ k.zone = d.zone.name /\ k.track = d.track
              /\ k.rule \in {"RESTRICTED_ZONE", "AFTER_HOURS_PERSON", "AFTER_HOURS_VEHICLE"}
              /\ k.rule = "RESTRICTED_ZONE" <=> d.zone.restricted
<1>1. d.track \in Track /\ d.zone.name \in Name /\ d.zone.restricted \in BOOLEAN
  BY DEF Detection, Zone, Name
<1>2. \A r \in Rule : [rule |-> r, zone |-> d.zone.name, track |-> d.track] \in Key
  BY <1>1 DEF Key
<1>3. DwellKey(d) \in Key
  BY <1>2 DEF DwellKey, Rule
<1>4. ASSUME NEW k \in RuleFor(d, persons, now)
      PROVE  \/ /\ d.zone.restricted
                /\ k = [rule |-> "RESTRICTED_ZONE", zone |-> d.zone.name, track |-> d.track]
             \/ /\ ~d.zone.restricted
                /\ \/ k = [rule |-> "AFTER_HOURS_PERSON", zone |-> d.zone.name,
                           track |-> d.track]
                   \/ k = [rule |-> "AFTER_HOURS_VEHICLE", zone |-> d.zone.name,
                           track |-> d.track]
  BY <1>1, <1>4 DEF RuleFor
<1>5. ASSUME NEW k \in RuleFor(d, persons, now)
      PROVE  /\ k \in Key /\ k.zone = d.zone.name /\ k.track = d.track
             /\ k.rule \in {"RESTRICTED_ZONE", "AFTER_HOURS_PERSON", "AFTER_HOURS_VEHICLE"}
             /\ k.rule = "RESTRICTED_ZONE" <=> d.zone.restricted
  <2>1. k \in Key
    BY <1>2, <1>4, <1>5 DEF Rule
  <2> QED
    BY <1>1, <1>4, <1>5, <2>1
<1> QED
  BY <1>3, <1>5 DEF DwellKey

\* An alert of the rules is the tampering or a rule's; one of the dwell times a detection's.
LEMMA Raised ==
  ASSUME NEW dets \in SUBSET Detection, NEW persons, NEW tampered \in BOOLEAN, NEW now,
         NEW k \in RuleAlerts(dets, persons, tampered, now)
  PROVE  \/ k = Tampering /\ tampered /\ ~InCooldown(Tampering)
         \/ /\ ~(tampered /\ ~InCooldown(Tampering))
            /\ \E d \in dets : k \in RuleFor(d, persons, now)
BY DEF RuleAlerts

LEMMA Dwelled ==
  ASSUME NEW dets \in SUBSET Detection, NEW times, NEW k \in DwellAlerts(dets, times)
  PROVE  \E d \in dets : k = DwellKey(d) /\ times[d.track][d.zone.name] >= d.zone.dwell
BY DEF DwellAlerts

LEMMA RaisedKeys ==
  ASSUME NEW dets \in SUBSET Detection, NEW persons, NEW tampered \in BOOLEAN, NEW now,
         NEW times
  PROVE  RuleAlerts(dets, persons, tampered, now) \cup DwellAlerts(dets, times) \subseteq Key
<1>1. Tampering \in Key
  BY DEF Key
<1>2. ASSUME NEW k \in RuleAlerts(dets, persons, tampered, now) PROVE k \in Key
  BY <1>1, <1>2, Raised, Keys
<1>3. ASSUME NEW k \in DwellAlerts(dets, times) PROVE k \in Key
  BY <1>3, Dwelled, Keys
<1> QED
  BY <1>2, <1>3

-----------------------------------------------------------------------------
(* Detector: type correctness *)

LEMMA TypedAges ==
  /\ Long \in Nat /\ Expire \in Nat /\ Long > Expire /\ Cooldown \in Nat /\ Cooldown > 0
  /\ MaxRetries \in Nat /\ MaxRetries > 0 /\ BaselineFrames \in Nat /\ BaselineFrames > 0
  /\ 0 \in Age /\ -1 \in Age /\ \A a \in Age : a \in Int /\ Older(a) \in Age
<1>1. /\ Long \in Nat /\ Expire \in Nat /\ Long > Expire /\ Cooldown \in Nat /\ Cooldown > 0
      /\ MaxRetries \in Nat /\ MaxRetries > 0 /\ BaselineFrames \in Nat /\ BaselineFrames > 0
  BY DetectorOK
<1>2. 0 \in Age /\ -1 \in Age
  BY <1>1 DEF Age
<1>3. ASSUME NEW a \in Age PROVE a \in Int /\ Older(a) \in Age
  BY <1>1, <1>3 DEF Age, Older
<1> QED
  BY <1>1, <1>2, <1>3

LEMMA TypedNowhere == Nowhere \in [Name -> Age]
BY TypedAges DEF Nowhere

LEMMA TypedEntered ==
  ASSUME NEW times \in [Track -> [Name -> Age]], NEW dets
  PROVE  Entered(times, dets) \in [Track -> [Name -> Age]]
<1>1. 0 \in Age
  BY TypedAges
<1> QED
  BY <1>1 DEF Entered

LEMMA TypedExpired ==
  ASSUME TypeOK, NEW found
  PROVE  Expired(found) \in [Track -> [Name -> Age]]
BY TypedNowhere DEF TypeOK, Expired

LEMMA TypedInit == Init => TypeOK
<1> SUFFICES ASSUME Init PROVE TypeOK
  OBVIOUS
<1>1. phase \in {"connecting", "reading", "ended"} /\ config \in Config /\ raised \subseteq Key
  BY DEF Init
<1>2. retries \in 0..MaxRetries /\ baseline \in 0..BaselineFrames
  BY TypedAges DEF Init
<1>3. cool \in [Key -> 0..Cooldown]
  BY TypedAges DEF Init
<1>4. /\ entry \in [Track -> [Name -> Age]] /\ present \in [Track -> [Name -> Age]]
      /\ stay \in [Track -> [Name -> Age]] /\ unseen \in [Track -> Age]
  BY TypedAges, TypedNowhere DEF Init
<1> QED
  BY <1>1, <1>2, <1>3, <1>4 DEF TypeOK

LEMMA TypedTracked ==
  ASSUME TypeOK, NEW found \in SUBSET Track, NEW in, NEW dets, Tracked(found, in, dets)
  PROVE  /\ entry' \in [Track -> [Name -> Age]] /\ present' \in [Track -> [Name -> Age]]
         /\ stay' \in [Track -> [Name -> Age]] /\ unseen' \in [Track -> Age]
         /\ UNCHANGED <<retries, baseline, config>>
<1>1. entry' \in [Track -> [Name -> Age]] /\ present' \in [Track -> [Name -> Age]]
  BY TypedExpired, TypedEntered DEF TypeOK, Tracked
<1>2. unseen' \in [Track -> Age]
  BY TypedAges DEF TypeOK, Seen, Tracked
<1>3. ASSUME NEW t \in Track, NEW n \in Name PROVE Stayed(found, in)[t][n] \in Age
  <2>1. stay[t][n] \in Age /\ 0 \in Age /\ -1 \in Age
    BY TypedAges DEF TypeOK
  <2> QED
    BY <2>1 DEF Stayed
<1>4. stay' \in [Track -> [Name -> Age]]
  <2>1. ASSUME NEW t \in Track PROVE Stayed(found, in)[t] \in [Name -> Age]
    BY <1>3 DEF Stayed
  <2> QED
    BY <2>1 DEF Tracked, Stayed
<1> QED
  BY <1>1, <1>2, <1>4 DEF Tracked

LEMMA TypedCooled ==
  ASSUME TypeOK, NEW alerts
  PROVE  Cooled(alerts) \in [Key -> 0..Cooldown]
BY TypedAges DEF TypeOK, Cooled

\* What an evaluated frame does, with the terms of its LET as parameters.
LEMMA FrameTerms ==
  ASSUME TypeOK, NEW found \in SUBSET Track, NEW in, NEW persons,
         NEW tampered \in BOOLEAN, NEW now, EvaluatedFrame(found, in, persons, tampered, now)
  PROVE  \E dets \in SUBSET Detection : \E rules, dwells :
           /\ dets = ZoneFilter(found, in)
           /\ rules = RuleAlerts(dets, persons, tampered, now)
           /\ dwells = DwellAlerts(dets, entry')
           /\ Tracked(found, in, dets) /\ raised' = rules \cup dwells
           /\ cool' = Cooled(raised') /\ UNCHANGED phase
<1>1. ZoneFilter(found, in) \in SUBSET Detection
  BY Filtered DEF TypeOK
<1>2. PICK dets : dets = ZoneFilter(found, in)
  OBVIOUS
<1>3. /\ Tracked(found, in, dets) /\ UNCHANGED phase
      /\ raised' = RuleAlerts(dets, persons, tampered, now)
                     \cup DwellAlerts(dets, Entered(Expired(found), dets))
      /\ cool' = Cooled(RuleAlerts(dets, persons, tampered, now)
                         \cup DwellAlerts(dets, Entered(Expired(found), dets)))
  BY <1>2 DEF EvaluatedFrame
<1>4. entry' = Entered(Expired(found), dets)
  BY <1>3 DEF Tracked
<1> QED
  BY <1>1, <1>2, <1>3, <1>4

LEMMA FrameTyped ==
  ASSUME TypeOK, NEW found \in SUBSET Track, NEW in, NEW persons,
         NEW tampered \in BOOLEAN, NEW now, EvaluatedFrame(found, in, persons, tampered, now)
  PROVE  TypeOK'
<1>1. PICK dets \in SUBSET Detection : \E rules, dwells :
         /\ dets = ZoneFilter(found, in)
         /\ rules = RuleAlerts(dets, persons, tampered, now)
         /\ dwells = DwellAlerts(dets, entry')
         /\ Tracked(found, in, dets) /\ raised' = rules \cup dwells
         /\ cool' = Cooled(raised') /\ UNCHANGED phase
  BY FrameTerms
<1>2. raised' \subseteq Key
  BY <1>1, RaisedKeys
<1>3. cool' \in [Key -> 0..Cooldown]
  BY <1>1, TypedCooled
<1>4. Tracked(found, in, dets) /\ UNCHANGED phase
  BY <1>1
<1> QED
  BY <1>2, <1>3, <1>4, TypedTracked DEF TypeOK

\* What a frame that fails does: it has been tracked, and some detections have been told.
LEMMA FailTerms ==
  ASSUME TypeOK, NEW found \in SUBSET Track, NEW in, NEW persons,
         NEW tampered \in BOOLEAN, NEW now, FrameFails(found, in, persons, tampered, now)
  PROVE  \E told \in SUBSET ZoneFilter(found, in) : \E lost :
           /\ Tracked(found, in, told) /\ raised' = {} /\ cool' = Cooled(lost)
           /\ phase' = "connecting"
<1>1. PICK told \in SUBSET ZoneFilter(found, in) :
        \E lost \in SUBSET (RuleAlerts(ZoneFilter(found, in), persons, tampered, now)
                             \cup DwellAlerts(told, Entered(Expired(found), told))) :
          /\ Tracked(found, in, told) /\ raised' = {} /\ cool' = Cooled(lost)
          /\ phase' = "connecting"
  BY DEF FrameFails
<1> QED
  BY <1>1

LEMMA FailTyped ==
  ASSUME TypeOK, NEW found \in SUBSET Track, NEW in, NEW persons,
         NEW tampered \in BOOLEAN, NEW now, FrameFails(found, in, persons, tampered, now)
  PROVE  TypeOK'
<1>1. PICK told \in SUBSET ZoneFilter(found, in) : \E lost :
        /\ Tracked(found, in, told) /\ raised' = {} /\ cool' = Cooled(lost)
        /\ phase' = "connecting"
  BY FailTerms
<1>2. cool' \in [Key -> 0..Cooldown]
  BY <1>1, TypedCooled
<1> QED
  BY <1>1, <1>2, TypedTracked DEF TypeOK

LEMMA TypedStep == TypeOK /\ [Next]_vars => TypeOK'
<1> SUFFICES ASSUME TypeOK, [Next]_vars PROVE TypeOK'
  OBVIOUS
<1> USE TypedAges
<1>1. CASE BaselineFrame
  BY <1>1 DEF BaselineFrame, TypeOK
<1>2. CASE EmptyFrame
  BY <1>2 DEF EmptyFrame, TypeOK
<1>3. ASSUME NEW found \in SUBSET Track, NEW tampered \in BOOLEAN, NEW now, NEW in, NEW persons,
             EvaluatedFrame(found, in, persons, tampered, now)
      PROVE  TypeOK'
  BY <1>3, FrameTyped
<1>3a. ASSUME NEW found \in SUBSET Track, NEW tampered \in BOOLEAN, NEW now, NEW in, NEW persons,
              FrameFails(found, in, persons, tampered, now)
       PROVE  TypeOK'
  BY <1>3a, FailTyped
<1>4. CASE Tick
  <2>1. cool' \in [Key -> 0..Cooldown]
    BY <1>4 DEF Tick, TypeOK, InCooldown
  <2>2. entry' \in [Track -> [Name -> Age]] /\ unseen' \in [Track -> Age]
    BY <1>4 DEF Tick, TypeOK
  <2>3. present' \in [Track -> [Name -> Age]] /\ stay' \in [Track -> [Name -> Age]]
    BY <1>4, TypedNowhere DEF Tick, TypeOK
  <2>4. raised' = {} /\ UNCHANGED <<phase, retries, baseline, config>>
    BY <1>4 DEF Tick
  <2> QED
    BY <2>1, <2>2, <2>3, <2>4 DEF TypeOK
<1>5. CASE Reload
  BY <1>5 DEF Reload, TypeOK
<1>6. CASE Connect
  BY <1>6 DEF Connect, TypeOK
<1>7. CASE ConnectFails
  BY <1>7 DEF ConnectFails, TypeOK
<1>8. CASE SleepLong
  BY <1>8 DEF SleepLong, TypeOK
<1>9. CASE ReadFails
  BY <1>9 DEF ReadFails, TypeOK
<1>10. CASE Stop
  BY <1>10 DEF Stop, TypeOK
<1>11. CASE Restart
  <2>1. cool' \in [Key -> 0..Cooldown]
    BY <1>11 DEF Restart
  <2>2. /\ entry' \in [Track -> [Name -> Age]] /\ present' \in [Track -> [Name -> Age]]
        /\ stay' \in [Track -> [Name -> Age]]
    BY <1>11, TypedNowhere DEF Restart
  <2>3. /\ unseen' \in [Track -> Age] /\ raised' = {} /\ config' \in Config
        /\ phase' = "connecting" /\ retries' = 0 /\ baseline' = 0
    BY <1>11 DEF Restart
  <2> QED
    BY <2>1, <2>2, <2>3 DEF TypeOK
<1>12. CASE UNCHANGED vars
  BY <1>12 DEF vars, TypeOK
<1> QED
  BY <1>1, <1>2, <1>3, <1>3a, <1>4, <1>5, <1>6, <1>7, <1>8, <1>9, <1>10, <1>11, <1>12
     DEF Next, Frame

(* Every reachable state is well typed; what is raised has the key of a    *)
(* cooldown.                                                               *)
THEOREM TypeCorrect == Spec => []TypeOK
<1>1. Init => TypeOK
  BY TypedInit
<1>2. TypeOK /\ [Next]_vars => TypeOK'
  BY TypedStep
<1> QED
  BY <1>1, <1>2, PTL DEF Spec

-----------------------------------------------------------------------------
(* Detector: dwell times and priorities *)

\* Unless a track has been out of sight for too long, what the tracker says of its time in a
\* zone is no more than it has been around.
AgesAreTrue ==
  \A t \in Track : unseen[t] <= Expire => \A n \in Name : entry[t][n] <= present[t][n]

Due == AgesAreTrue /\ TracksAreFreed /\ DwellIsVisibility /\ RulesHavePriority

Invariant == TypeOK /\ Due

\* What TypeOK says of the ages.
LEMMA AgeFacts ==
  ASSUME TypeOK, NEW t \in Track
  PROVE  /\ unseen[t] \in Age /\ unseen[t] \in Int
         /\ entry[t] \in [Name -> Age]
         /\ \A n \in Name : /\ entry[t][n] \in Age /\ present[t][n] \in Age
                            /\ entry[t][n] \in Int /\ present[t][n] \in Int
                            /\ present[t][n] >= -1
<1>1. unseen[t] \in Age /\ entry[t] \in [Name -> Age] /\ present[t] \in [Name -> Age]
  BY DEF TypeOK
<1>2. \A a \in Age : a \in Int /\ a >= -1
  BY TypedAges DEF Age
<1> QED
  BY <1>1, <1>2

LEMMA Older2 ==
  ASSUME NEW a \in Age, NEW b \in Age, a <= b
  PROVE  Older(a) <= Older(b)
BY TypedAges DEF Older, Age

LEMMA NoAlerts == raised = {} => DwellIsVisibility /\ RulesHavePriority
BY DEF DwellIsVisibility, RulesHavePriority

\* A step that leaves the tracker, the zones and the alerts alone, or gives up the alerts.
LEMMA DueKept ==
  ASSUME Due, UNCHANGED <<entry, unseen, present>>,
         raised' = {} \/ UNCHANGED <<raised, config>>
  PROVE  Due'
<1>1. AgesAreTrue' /\ TracksAreFreed'
  BY DEF Due, AgesAreTrue, TracksAreFreed
<1>2. CASE raised' = {}
  BY <1>1, <1>2 DEF Due, DwellIsVisibility, RulesHavePriority
<1>3. CASE UNCHANGED <<raised, config>>
  <2>1. Active' = Active
    BY <1>3 DEF Active
  <2>2. DwellIsVisibility'
    BY <1>3, <2>1 DEF Due, DwellIsVisibility
  <2>3. RulesHavePriority'
    BY <1>3, <2>1 DEF Due, RulesHavePriority
  <2> QED
    BY <1>1, <2>2, <2>3 DEF Due
<1> QED
  BY <1>2, <1>3

LEMMA DueTick == Invariant /\ Tick => Due'
<1> SUFFICES ASSUME Invariant, Tick PROVE Due'
  OBVIOUS
<1>1. TypeOK /\ AgesAreTrue /\ TracksAreFreed
  BY DEF Invariant, Due
<1>2. /\ entry' = [t \in Track |-> [n \in Name |-> Older(entry[t][n])]]
      /\ unseen' = [t \in Track |-> Older(unseen[t])]
      /\ present' = [t \in Track |-> IF Older(unseen[t]) > Expire THEN Nowhere
                                     ELSE [n \in Name |-> Older(present[t][n])]]
      /\ raised' = {}
  BY DEF Tick
<1>3. ASSUME NEW t \in Track, unseen'[t] <= Expire, NEW n \in Name
      PROVE  entry'[t][n] <= present'[t][n]
  <2>1. unseen'[t] = Older(unseen[t]) /\ ~(Older(unseen[t]) > Expire)
    <3>1. unseen'[t] = Older(unseen[t])
      BY <1>2
    <3>2. Older(unseen[t]) \in Int /\ Expire \in Int
      BY <1>1, AgeFacts, TypedAges
    <3> QED
      BY <1>3, <3>1, <3>2
  <2>2. unseen[t] <= Expire
    BY <1>1, <2>1, AgeFacts, TypedAges DEF Older
  <2>3. entry[t][n] <= present[t][n] /\ entry[t][n] \in Age /\ present[t][n] \in Age
    BY <1>1, <2>2, AgeFacts DEF AgesAreTrue
  <2>4. entry'[t][n] = Older(entry[t][n]) /\ present'[t][n] = Older(present[t][n])
    BY <1>2, <2>1
  <2> QED
    BY <2>3, <2>4, Older2
<1>4. ASSUME NEW t \in Track, unseen'[t] = -1
      PROVE  entry'[t] = Nowhere
  <2>1. unseen[t] = -1
    BY <1>1, <1>2, <1>4, AgeFacts, TypedAges DEF Older, Age
  <2>2. entry[t] = Nowhere
    BY <1>1, <2>1 DEF TracksAreFreed
  <2>3. \A n \in Name : Older(entry[t][n]) = -1
    BY <2>2 DEF Nowhere, Older
  <2> QED
    BY <1>2, <2>3 DEF Nowhere
<1>5. AgesAreTrue'
  BY <1>3 DEF AgesAreTrue
<1>6. TracksAreFreed'
  BY <1>4 DEF TracksAreFreed
<1>7. DwellIsVisibility' /\ RulesHavePriority'
  BY <1>2 DEF DwellIsVisibility, RulesHavePriority
<1> QED
  BY <1>5, <1>6, <1>7 DEF Due

\* What the tracker has been told of a frame, be it all or some of its detections.
LEMMA DueTracked ==
  ASSUME Invariant, NEW found \in SUBSET Track, NEW in, NEW dets \in SUBSET Detection,
         \A d \in dets : d.track \in found, Tracked(found, in, dets)
  PROVE  /\ AgesAreTrue' /\ TracksAreFreed'
         /\ \A t \in Track, n \in Name : entry'[t][n] <= present'[t][n]
<1>0. TypeOK /\ AgesAreTrue /\ TracksAreFreed
  BY DEF Invariant, Due
<1>1. /\ entry' = Entered(Expired(found), dets) /\ unseen' = Seen(found)
      /\ present' = Entered(present, dets)
  BY DEF Tracked
<1>4. ASSUME NEW t \in Track, NEW n \in Name PROVE entry'[t][n] <= present'[t][n] \/ t \in Stale
  <2>1. CASE t \notin Stale
    <3>1. unseen[t] <= Expire
      BY <1>0, <2>1, AgeFacts, TypedAges DEF Stale
    <3>2. entry[t][n] <= present[t][n] /\ entry[t][n] \in Int /\ present[t][n] \in Int
          /\ present[t][n] >= -1
      BY <1>0, <3>1, AgeFacts DEF AgesAreTrue
    <3>3. Expired(found)[t] = entry[t]
      BY <2>1 DEF Expired
    <3>4. /\ entry'[t][n] = IF entry[t][n] = -1 /\ \E d \in dets : d.track = t /\ d.zone.name = n
                            THEN 0 ELSE entry[t][n]
          /\ present'[t][n] = IF /\ present[t][n] = -1
                                 /\ \E d \in dets : d.track = t /\ d.zone.name = n
                              THEN 0 ELSE present[t][n]
      BY <1>1, <3>3 DEF Entered
    <3> QED
      BY <3>2, <3>4
  <2> QED
    BY <2>1
<1>5. ASSUME NEW t \in Track, t \in Stale, NEW n \in Name PROVE entry'[t][n] <= present'[t][n]
  <2>1. Expired(found)[t] = Nowhere
    BY <1>5 DEF Expired
  <2>2. /\ entry'[t][n] = IF \E d \in dets : d.track = t /\ d.zone.name = n THEN 0 ELSE -1
        /\ present'[t][n] = IF /\ present[t][n] = -1
                               /\ \E d \in dets : d.track = t /\ d.zone.name = n
                            THEN 0 ELSE present[t][n]
    BY <1>1, <2>1 DEF Entered, Nowhere
  <2>3. present[t][n] \in Int /\ present[t][n] >= -1
    BY <1>0, AgeFacts
  <2> QED
    BY <2>2, <2>3
<1>6. AgesAreTrue'
  BY <1>4, <1>5 DEF AgesAreTrue
<1>7. ASSUME NEW t \in Track, unseen'[t] = -1 PROVE entry'[t] = Nowhere
  <2>1. t \notin found /\ (t \in Stale \/ unseen[t] = -1)
    BY <1>1, <1>7 DEF Seen
  <2>2. Expired(found)[t] = Nowhere
    BY <1>0, <2>1 DEF Expired, TracksAreFreed
  <2>3. ~\E d \in dets : d.track = t
    BY <2>1
  <2> QED
    BY <1>1, <2>2, <2>3 DEF Entered, Nowhere
<1>8. TracksAreFreed'
  BY <1>7 DEF TracksAreFreed
<1> QED
  BY <1>4, <1>5, <1>6, <1>8

LEMMA DueFrame ==
  ASSUME Invariant, NEW found \in SUBSET Track, NEW in, NEW persons,
         NEW tampered \in BOOLEAN, NEW now, EvaluatedFrame(found, in, persons, tampered, now)
  PROVE  Due'
<1>0. TypeOK /\ config \in Config
  BY DEF Invariant, Due, TypeOK
<1>1. PICK dets \in SUBSET Detection : \E rules, dwells :
         /\ dets = ZoneFilter(found, in)
         /\ rules = RuleAlerts(dets, persons, tampered, now)
         /\ dwells = DwellAlerts(dets, entry')
         /\ Tracked(found, in, dets) /\ raised' = rules \cup dwells
         /\ cool' = Cooled(raised') /\ UNCHANGED phase
  BY <1>0, FrameTerms
<1>2. \A d \in dets : d.track \in found /\ d.zone \in Active
  BY <1>0, <1>1, Filtered
<1>3. /\ AgesAreTrue' /\ TracksAreFreed'
      /\ \A t \in Track, n \in Name : entry'[t][n] <= present'[t][n]
  BY <1>1, <1>2, DueTracked
<1>4. Active' = Active
  BY <1>1 DEF Active, Tracked
<1>5. ASSUME NEW k \in raised'
      PROVE  \/ k = Tampering /\ tampered /\ ~InCooldown(Tampering)
             \/ /\ ~(tampered /\ ~InCooldown(Tampering))
                /\ \E d \in dets : k \in RuleFor(d, persons, now)
             \/ \E d \in dets : /\ k = DwellKey(d)
                                /\ entry'[d.track][d.zone.name] >= d.zone.dwell
  BY <1>1, <1>5, Raised, Dwelled
<1>6. DwellIsVisibility'
  <2> SUFFICES ASSUME NEW k \in raised', k.rule = "DWELL_TIME"
               PROVE  \E z \in Active : z.name = k.zone /\ present'[k.track][z.name] >= z.dwell
    BY <1>4 DEF DwellIsVisibility
  <2>1. k # Tampering
    BY DEF Tampering
  <2>2. \A d \in dets : k \notin RuleFor(d, persons, now)
    BY Keys
  <2>3. PICK d \in dets : k = DwellKey(d) /\ entry'[d.track][d.zone.name] >= d.zone.dwell
    BY <1>5, <2>1, <2>2
  <2>4. /\ d.zone \in Active /\ d.zone \in Zone /\ d.track \in Track /\ d.zone.name \in Name
        /\ d.zone.dwell \in Nat
    BY <1>2 DEF Detection, Zone, Name
  <2>5. k.zone = d.zone.name /\ k.track = d.track
    BY <2>3 DEF DwellKey
  <2>6. entry'[d.track][d.zone.name] <= present'[d.track][d.zone.name]
    BY <1>3, <2>4
  <2>7. entry'[d.track][d.zone.name] \in Int /\ present'[d.track][d.zone.name] \in Int
    <3>1. TypeOK'
      BY <1>0, FrameTyped
    <3>2. entry'[d.track][d.zone.name] \in Age /\ present'[d.track][d.zone.name] \in Age
      BY <2>4, <3>1 DEF TypeOK
    <3> QED
      BY <3>2, TypedAges
  <2>8. present'[d.track][d.zone.name] >= d.zone.dwell
    BY <2>3, <2>4, <2>6, <2>7
  <2> QED
    BY <2>4, <2>5, <2>8
<1>7. RulesHavePriority'
  <2>1. ASSUME Tampering \in raised', NEW k \in raised', k # Tampering
        PROVE  k.rule = "DWELL_TIME"
    <3>1. ~\E d \in dets : Tampering \in RuleFor(d, persons, now) \/ Tampering = DwellKey(d)
      BY Keys DEF Tampering
    <3>2. tampered /\ ~InCooldown(Tampering)
      BY <1>5, <2>1, <3>1
    <3>3. \E d \in dets : k = DwellKey(d)
      BY <1>5, <2>1, <3>2
    <3> QED
      BY <3>3 DEF DwellKey
  <2>2. ASSUME NEW k \in raised', k.rule \in {"AFTER_HOURS_PERSON", "AFTER_HOURS_VEHICLE"}
        PROVE  \E z \in Active : z.name = k.zone /\ ~z.restricted
    <3>1. k # Tampering /\ \A d \in dets : k # DwellKey(d)
      BY <2>2 DEF Tampering, DwellKey
    <3>2. PICK d \in dets : k \in RuleFor(d, persons, now)
      BY <1>5, <3>1
    <3>3. k.zone = d.zone.name /\ ~d.zone.restricted
      BY <2>2, <3>2, Keys
    <3> QED
      BY <1>2, <3>3
  <2> QED
    BY <1>4, <2>1, <2>2 DEF RulesHavePriority
<1> QED
  BY <1>3, <1>6, <1>7 DEF Due

LEMMA DueFail ==
  ASSUME Invariant, NEW found \in SUBSET Track, NEW in, NEW persons,
         NEW tampered \in BOOLEAN, NEW now, FrameFails(found, in, persons, tampered, now)
  PROVE  Due'
<1>0. TypeOK /\ config \in Config
  BY DEF Invariant, Due, TypeOK
<1>1. PICK told \in SUBSET ZoneFilter(found, in) : Tracked(found, in, told) /\ raised' = {}
  BY <1>0, FailTerms
<1>2. told \in SUBSET Detection /\ \A d \in told : d.track \in found
  BY <1>0, <1>1, Filtered
<1>3. AgesAreTrue' /\ TracksAreFreed'
  BY <1>1, <1>2, DueTracked
<1>4. DwellIsVisibility' /\ RulesHavePriority'
  BY <1>1 DEF DwellIsVisibility, RulesHavePriority
<1> QED
  BY <1>3, <1>4 DEF Due

(* What the alerts of a frame say is so: a dwell alert is about a track    *)
(* that was first seen in the zone as long ago as the threshold and never  *)
(* out of sight for more than the expiry since (not one that has stayed in *)
(* the zone, see DwellIsPresence), a track's times go when it does, and a  *)
(* restricted zone and a tampering silence the rules they take precedence  *)
(* over, whether or not zones share a name.                                *)
THEOREM AlertsDue == Spec => []AlertsAreDue
<1>1. Init => Invariant
  <2> SUFFICES ASSUME Init PROVE Due
    BY TypedInit DEF Invariant
  <2>1. AgesAreTrue /\ TracksAreFreed
    BY DEF Init, AgesAreTrue, TracksAreFreed, Nowhere
  <2> QED
    BY <2>1, NoAlerts DEF Init, Due
<1>2. Invariant /\ [Next]_vars => Invariant'
  <2> SUFFICES ASSUME Invariant, [Next]_vars PROVE Due'
    BY TypedStep DEF Invariant
  <2>0. Due
    BY DEF Invariant
  <2>1. CASE BaselineFrame \/ EmptyFrame
    BY <2>0, <2>1, DueKept DEF BaselineFrame, EmptyFrame
  <2>2. ASSUME NEW found \in SUBSET Track, NEW tampered \in BOOLEAN, NEW now, NEW in,
               NEW persons, EvaluatedFrame(found, in, persons, tampered, now)
        PROVE  Due'
    BY <2>2, DueFrame
  <2>2a. ASSUME NEW found \in SUBSET Track, NEW tampered \in BOOLEAN, NEW now, NEW in,
                NEW persons, FrameFails(found, in, persons, tampered, now)
         PROVE  Due'
    BY <2>2a, DueFail
  <2>3. CASE Tick
    BY <2>3, DueTick
  <2>4. CASE Reload \/ Connect \/ ConnectFails \/ SleepLong \/ ReadFails \/ Stop
    BY <2>0, <2>4, DueKept DEF Reload, Connect, ConnectFails, SleepLong, ReadFails, Stop
  <2>5. CASE Restart
    <3>1. AgesAreTrue' /\ TracksAreFreed'
      BY <2>5 DEF Restart, AgesAreTrue, TracksAreFreed, Nowhere
    <3>2. DwellIsVisibility' /\ RulesHavePriority'
      BY <2>5 DEF Restart, DwellIsVisibility, RulesHavePriority
    <3> QED
      BY <3>1, <3>2 DEF Due
  <2>6. CASE UNCHANGED vars
    BY <2>0, <2>6, DueKept DEF vars
  <2> QED
    BY <2>1, <2>2, <2>2a, <2>3, <2>4, <2>5, <2>6 DEF Next, Frame
<1>3. Invariant => AlertsAreDue
  BY DEF Invariant, Due, AlertsAreDue
<1> QED
  BY <1>1, <1>2, <1>3, PTL DEF Spec
=============================================================================
