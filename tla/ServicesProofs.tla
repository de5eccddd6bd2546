---------------------------- MODULE ServicesProofs ----------------------------
(***************************************************************************)
(* Proofs about the seven services of MCServices: each has an inductive    *)
(* invariant of its own, which the steps of the others leave alone.        *)
(***************************************************************************)
EXTENDS MCServices, FiniteSetTheorems, TLAPS

USE DEF planVars, targetVars, cameraVars, grantVars, notifyVars, alertVars, hubVars

(***************************************************************************)
(* Inductive invariants                                                    *)
(***************************************************************************)

(* Of the files F, those of floor f have the extensions E. *)
Holds(F, f, E) == \A e \in Ext : <<f, e>> \in F <=> e \in E

(* Request r of the requests J is at work on floor f. *)
Busy(J, r, f) == J[r] # Plan!Idle /\ J[r].floor = f

(* One request at a time is at work on floor f, which is there; it knows   *)
(* the image i of the row, and of the files F the floor has those that its *)
(* step leaves.  With none at work, it has the file of its row if it is    *)
(* there (x), and else none.                                               *)
FloorSound(f, x, i, F, J) ==
  /\ \A r, q \in Request : Busy(J, r, f) /\ Busy(J, q, f) => r = q
  /\ (\A r \in Request : ~Busy(J, r, f)) => Holds(F, f, IF x THEN {i} ELSE {})
  /\ \A r \in Request : Busy(J, r, f) =>
       /\ x
       /\ J[r].step = "loaded" => J[r].old = i /\ Holds(F, f, {i})
       /\ J[r].step = "written" => J[r].old = i /\ Holds(F, f, {J[r].new})
       /\ J[r].step = "unlinked" => Holds(F, f, {})

PlanInv ==
  /\ Plan!TypeOK
  /\ Plan!PlacementsHaveFloors
  /\ \A f \in Floor : home[f] = "unborn" => image[f] = None
  /\ \A f \in Floor \ mishap : FloorSound(f, home[f] \in Building, image[f], file, job)

(* A deletion that is not late is one of an inactive target. *)
TargetInv ==
  /\ Targets!TypeOK
  /\ \A s, t \in Target : target[s] = "active" /\ target[t] = "active" => s = t
  /\ chosen /\ ~raced => \E t \in Target : target[t] = "active"
  /\ \A c \in Caller : call[c].what = "delete" /\ ~call[c].late =>
       target[call[c].target] # "active"

(* A camera that moves to the address its URL had already is a blind one;  *)
(* a list that is fresh is the one of now.                                 *)
CameraInv ==
  /\ Cameras!TypeOK
  /\ Cameras!UrlsFollowAddresses
  /\ Cameras!KeyListsCameras
  /\ \A p \in Probe : probe[p].what = "move" /\ probe[p].loaded = probe[p].to =>
       probe[p].cam \in blind
  /\ \A p \in Probe : probe[p].what = "read" =>
       (probe[p].fresh => probe[p].list = Cameras!Listed)

(* A pair that is not mixed is changed by one request at a time, which     *)
(* knows the rights as they are.                                           *)
GrantInv ==
  /\ Grants!TypeOK
  /\ Grants!GrantsAreWhole
  /\ \A s \in Setter : change[s] # Grants!Idle /\ change[s].loaded # NoGrant =>
       grant[change[s].pair] # NoGrant
  /\ \A s \in Setter : change[s] # Grants!Idle /\ change[s].pair \notin mixed =>
       /\ change[s].loaded = grant[change[s].pair]
       /\ \A q \in Setter : change[q].pair = change[s].pair => q = s

Task == [state : {"unsent", "waiting", "running", "done", "missed", "lost"},
         aim : SUBSET Channel, mute : SUBSET Channel, todo : SUBSET Channel,
         now : Channel \cup {None}, failures : Nat]

(* A channel the task has come to the end of was told or given up; one it  *)
(* has not was told only in runs before, each of which was lost, or with   *)
(* its answer lost.                                                        *)
NotifyInv ==
  /\ Notify!TypeOK
  /\ task \in Task
  /\ alert.row = "none" => task.state = "unsent"
  /\ task.state # "running" => task.todo = {}
  /\ task.state \in {"unsent", "waiting"} => task.aim = {}
  /\ \A c \in task.aim \ task.mute : c \in task.todo \/ told[c] > 0 \/ c \in given
  /\ \A c \in Channel : told[c] <= 1 + trouble
  /\ \A c \in Channel :
       task.state \in {"unsent", "waiting", "running"} /\ c \notin task.aim \ task.todo =>
         told[c] <= trouble

(* An entry is there when the changes are flushed, and missing only when   *)
(* there are none.  Unless acknowledgements cross, one is under way and    *)
(* knows who is named in the row.                                          *)
AlertInv ==
  /\ Alerts!TypeOK
  /\ Alerts!DeskIsSound
  /\ \A d \in Desk : session[d].step = "flushing" => session[d].entry
  /\ \A d \in Desk : session[d].step = "committing" => ~Alerts!Dirty(session[d])
  /\ ~crossed =>
       /\ \A d, e \in Desk : Alerts!Acknowledging(d) /\ Alerts!Acknowledging(e) => d = e
       /\ \A d \in Desk : Alerts!Acknowledging(d) =>
            (session[d].same <=> row.by = session[d].op)

(* Those checked will be in the maps as well; who stays is told or still   *)
(* to be told, and cannot fail.                                            *)
HubInv ==
  /\ Hub!TypeOK
  /\ Hub!EndpointsAreCounted
  /\ Cardinality(maps) + Cardinality(Hub!In("checked")) <= MaxConnections - 1 + MaxHandshakes
  /\ stayed \subseteq got \cup cast.todo
  /\ stayed \cap lost = {}

Inv ==
  PlanInv /\ TargetInv /\ CameraInv /\ GrantInv /\ NotifyInv /\ AlertInv /\ HubInv

(***************************************************************************)
(* The floor plan                                                          *)
(***************************************************************************)

(* A step that leaves the row, the files and the requests of a floor. *)
LEMMA FloorLeftAlone ==
  ASSUME NEW f, NEW x, NEW i, NEW F, NEW G, NEW J, NEW K,
         FloorSound(f, x, i, F, J),
         \A e \in Ext : <<f, e>> \in F <=> <<f, e>> \in G,
         \A r \in Request : Busy(J, r, f) \/ Busy(K, r, f) => J[r] = K[r]
  PROVE  FloorSound(f, x, i, G, K)
BY DEF FloorSound, Holds, Busy

LEMMA PlanInit == Plan!Init => PlanInv
<1> SUFFICES ASSUME Plan!Init
             PROVE  PlanInv
    OBVIOUS
<1> USE ServicesAssumption DEF Plan!Init
<1>1. Plan!TypeOK
    BY DEF Plan!TypeOK
<1>2. Plan!PlacementsHaveFloors
    BY DEF Plan!PlacementsHaveFloors, Plan!Exists
<1>3. \A f \in Floor : FloorSound(f, home[f] \in Building, image[f], file, job)
    BY DEF FloorSound, Holds, Busy
<1> QED
    BY <1>1, <1>2, <1>3 DEF PlanInv

LEMMA PlanStep == PlanInv /\ Plan!Next => PlanInv'
<1> SUFFICES ASSUME PlanInv, Plan!Next
             PROVE  PlanInv'
    OBVIOUS
<1> DEFINE Entry == {Plan!Idle} \cup Plan!Upload \cup Plan!Deletion
<1> DEFINE Sound(f) == FloorSound(f, home[f] \in Building, image[f], file, job)
<1> DEFINE Placed == /\ \A c \in Camera : placed[c] # None => home[placed[c]] \in Building
                     /\ \A f \in Floor : home[f] \in Building => home[f] \in building
                     /\ \A f \in Floor : home[f] = "unborn" => image[f] = None
<1>a. /\ None \notin Ext /\ None \notin Floor
      /\ "unborn" \notin Building /\ "gone" \notin Building
    BY ServicesAssumption
<1>i. /\ building \subseteq Building
      /\ home \in [Floor -> Building \cup {"unborn", "gone"}]
      /\ image \in [Floor -> Ext \cup {None}]
      /\ file \subseteq Floor \X Ext
      /\ placed \in [Camera -> Floor \cup {None}]
      /\ job \in [Request -> Entry]
      /\ mishap \subseteq Floor
    BY DEF PlanInv, Plan!TypeOK
<1>p. Placed
    BY DEF PlanInv, Plan!PlacementsHaveFloors, Plan!Exists
<1>s. \A f \in Floor \ mishap : Sound(f)
    BY DEF PlanInv
<1>d. \A r \in Request :
        /\ job[r].step \in {"loaded", "written"} =>
             /\ job[r] \in Plan!Upload /\ job[r].floor \in Floor
             /\ job[r].old \in Ext \cup {None} /\ job[r].new \in Ext
        /\ job[r].step = "unlinked" => job[r] \in Plan!Deletion /\ job[r].floor \in Floor
        /\ job[r] # Plan!Idle => job[r].step \in {"loaded", "written", "unlinked"}
        /\ job[r].step \in {"loaded", "written", "unlinked"} => job[r] # Plan!Idle
    BY <1>i DEF Plan!Upload, Plan!Deletion, Plan!Idle
<1>f. ASSUME /\ building' \subseteq Building
             /\ home' \in [Floor -> Building \cup {"unborn", "gone"}]
             /\ image' \in [Floor -> Ext \cup {None}]
             /\ file' \subseteq Floor \X Ext
             /\ placed' \in [Camera -> Floor \cup {None}]
             /\ job' \in [Request -> Entry]
             /\ mishap' \subseteq Floor,
             Placed',
             \A f \in Floor \ mishap' : Sound(f)'
      PROVE  PlanInv'
    BY <1>f DEF PlanInv, Plan!TypeOK, Plan!PlacementsHaveFloors, Plan!Exists
(* A step of request r, at floor g. *)
<1>r. ASSUME NEW r \in Request, NEW g \in Floor, NEW e \in Entry,
             job' = [job EXCEPT ![r] = e],
             job[r] # Plan!Idle => job[r].floor = g,
             e # Plan!Idle => e.floor = g,
             \A f \in Floor \ {g} : \A x \in Ext : <<f, x>> \in file <=> <<f, x>> \in file',
             \A f \in Floor \ {g} : home'[f] = home[f] /\ image'[f] = image[f],
             mishap \subseteq mishap', g \notin mishap' => Sound(g)'
      PROVE  job' \in [Request -> Entry] /\ \A f \in Floor \ mishap' : Sound(f)'
    <2>1. job' \in [Request -> Entry] /\ \A q \in Request : job'[q] = IF q = r THEN e ELSE job[q]
        BY <1>i, <1>r
    <2>2. ASSUME NEW f \in Floor \ mishap', f # g
          PROVE  Sound(f)'
        <3>1. \A q \in Request : Busy(job, q, f) \/ Busy(job', q, f) => job[q] = job'[q]
            BY <1>r, <2>1, <2>2 DEF Busy
        <3>2. FloorSound(f, home[f] \in Building, image[f], file, job)
            BY <1>r, <1>s, <2>2
        <3>3. \A x \in Ext : <<f, x>> \in file <=> <<f, x>> \in file'
            BY <1>r, <2>2
        <3>4. FloorSound(f, home[f] \in Building, image[f], file', job')
            BY <3>1, <3>2, <3>3, FloorLeftAlone
        <3> QED
            BY <1>r, <2>2, <3>4
    <2> HIDE DEF Sound
    <2> QED
        BY <1>r, <2>1, <2>2
<1>1. ASSUME NEW b \in Building, Plan!CreateBuilding(b)
      PROVE  PlanInv'
    <2>1. building' = building \cup {b} /\ UNCHANGED <<home, image, file, placed, job, mishap>>
        BY <1>1 DEF Plan!CreateBuilding
    <2>2. Placed'
        BY <1>p, <2>1
    <2> QED
        BY <1>f, <1>i, <1>s, <2>1, <2>2
<1>2. ASSUME NEW b \in Building, Plan!DeleteBuilding(b)
      PROVE  PlanInv'
    <2> DEFINE F == {f \in Floor : home[f] = b}
    <2>0. /\ building' = building \ {b}
          /\ home' = [f \in Floor |-> IF f \in F THEN "gone" ELSE home[f]]
          /\ placed' = [c \in Camera |-> IF placed[c] \in F THEN None ELSE placed[c]]
          /\ mishap' = mishap \cup {f \in F : image[f] # None \/ Plan!UnderWay(f)}
          /\ UNCHANGED <<image, file, job>>
        BY <1>2 DEF Plan!DeleteBuilding, Plan!RemoveFloors
    <2>1. /\ home' \in [Floor -> Building \cup {"unborn", "gone"}]
          /\ placed' \in [Camera -> Floor \cup {None}]
          /\ mishap' \subseteq Floor /\ building' \subseteq Building
        BY <1>i, <2>0
    <2>2. Placed'
        BY <1>a, <1>i, <1>p, <2>0
    <2>3. ASSUME NEW f \in Floor \ mishap'
          PROVE  Sound(f)'
        <3>1. FloorSound(f, home[f] \in Building, image[f], file, job)
            BY <1>s, <2>0, <2>3
        <3>2. CASE f \in F
            <4>1. image[f] = None /\ \A r \in Request : ~Busy(job, r, f)
                BY <2>0, <2>3, <3>2 DEF Plan!UnderWay, Busy
            <4>2. home'[f] \notin Building /\ home[f] \in Building
                BY <1>a, <2>0, <3>2
            <4>3. Holds(file, f, {})
                BY <1>a, <3>1, <4>1, <4>2 DEF FloorSound, Holds
            <4>4. FloorSound(f, FALSE, image[f], file, job)
                BY <4>1, <4>3 DEF FloorSound
            <4> QED
                BY <2>0, <4>2, <4>4 DEF FloorSound
        <3>3. CASE f \notin F
            BY <2>0, <3>1, <3>3
        <3> QED
            BY <3>2, <3>3
    <2> HIDE DEF Sound, Placed
    <2> QED
        BY <1>f, <1>i, <2>0, <2>1, <2>2, <2>3
<1>3. ASSUME NEW b \in Building, NEW f \in Floor, Plan!CreateFloor(f, b)
      PROVE  PlanInv'
    <2>0. /\ b \in building /\ home[f] = "unborn" /\ home' = [home EXCEPT ![f] = b]
          /\ UNCHANGED <<building, image, file, placed, job, mishap>>
        BY <1>3 DEF Plan!CreateFloor
    <2>1. home' \in [Floor -> Building \cup {"unborn", "gone"}]
        BY <1>i, <2>0
    <2>2. Placed'
        BY <1>a, <1>i, <1>p, <2>0
    <2>3. ASSUME NEW g \in Floor \ mishap'
          PROVE  Sound(g)'
        <3>1. FloorSound(g, home[g] \in Building, image[g], file, job)
            BY <1>s, <2>0, <2>3
        <3>2. CASE g = f
            <4>1. image[f] = None /\ home[f] \notin Building /\ home'[f] \in Building
                BY <1>a, <1>i, <1>p, <2>0
            <4>2. FloorSound(f, FALSE, image[f], file, job)
                BY <3>1, <3>2, <4>1 DEF FloorSound
            <4>3. FloorSound(f, TRUE, image[f], file, job)
                BY <1>a, <4>1, <4>2 DEF FloorSound, Holds
            <4> QED
                BY <2>0, <3>2, <4>1, <4>3
        <3>3. CASE g # f
            BY <1>i, <2>0, <3>1, <3>3
        <3> QED
            BY <3>2, <3>3
    <2> HIDE DEF Sound, Placed
    <2> QED
        BY <1>f, <1>i, <2>0, <2>1, <2>2, <2>3
<1>4. ASSUME NEW r \in Request, NEW f \in Floor, Plan!DeleteFloor(r, f)
      PROVE  PlanInv'
    <2> DEFINE e == [step |-> "unlinked", floor |-> f]
    <2>0. /\ job[r] = Plan!Idle /\ home[f] \in Building
          /\ job' = [job EXCEPT ![r] = e]
          /\ \/ file' = file \ {<<f, image[f]>>} /\ mishap' = Plan!Overlapped(f)
             \/ mishap' = mishap \cup {f} /\ file' = file
          /\ UNCHANGED <<building, home, image, placed>>
        BY <1>4 DEF Plan!DeleteFloor, Plan!Exists
    <2>1. e \in Entry /\ e.floor = f /\ e.step = "unlinked" /\ e # Plan!Idle
        BY DEF Plan!Deletion, Plan!Idle
    <2> HIDE DEF e
    <2>2. /\ mishap \subseteq mishap' /\ mishap' \subseteq Floor /\ file' \subseteq Floor \X Ext
          /\ \A g \in Floor \ {f} : \A x \in Ext : <<g, x>> \in file <=> <<g, x>> \in file'
        BY <1>i, <2>0 DEF Plan!Overlapped
    <2>3. Placed'
        BY <1>p, <2>0
    <2>4. ASSUME f \notin mishap'
          PROVE  Sound(f)'
        <3>1. /\ file' = file \ {<<f, image[f]>>} /\ f \notin mishap
              /\ \A q \in Request : ~Busy(job, q, f)
            BY <2>0, <2>4 DEF Plan!Overlapped, Plan!UnderWay, Busy
        <3>2. FloorSound(f, home[f] \in Building, image[f], file, job)
            BY <1>s, <3>1
        <3>3. Holds(file, f, {image[f]})
            BY <2>0, <3>1, <3>2 DEF FloorSound
        <3>4. Holds(file', f, {})
            BY <3>1, <3>3 DEF Holds
        <3>5. \A q \in Request : Busy(job', q, f) <=> q = r
            BY <1>i, <2>0, <2>1, <3>1 DEF Busy
        <3>6. job'[r].step = "unlinked"
            BY <1>i, <2>0, <2>1
        <3>7. FloorSound(f, TRUE, image[f], file', job')
            BY <3>4, <3>5, <3>6 DEF FloorSound
        <3> QED
            BY <2>0, <3>7
    <2> HIDE DEF Sound, Placed
    <2>5. job' \in [Request -> Entry] /\ \A g \in Floor \ mishap' : Sound(g)'
        BY <1>r, <2>0, <2>1, <2>2, <2>4
    <2> QED
        BY <1>f, <1>i, <2>0, <2>2, <2>3, <2>5
<1>5. ASSUME NEW r \in Request, Plan!DeleteFloorCommit(r)
      PROVE  PlanInv'
    <2> DEFINE g == job[r].floor
    <2> DEFINE F == {g} \cap {f \in Floor : home[f] \in Building}
    <2>0. /\ job[r].step = "unlinked"
          /\ home' = [f \in Floor |-> IF f \in F THEN "gone" ELSE home[f]]
          /\ placed' = [c \in Camera |-> IF placed[c] \in F THEN None ELSE placed[c]]
          /\ job' = [job EXCEPT ![r] = Plan!Idle]
          /\ UNCHANGED <<building, image, file, mishap>>
        BY <1>5 DEF Plan!DeleteFloorCommit, Plan!RemoveFloors, Plan!Exists
    <2>1. g \in Floor /\ job[r] # Plan!Idle
        BY <1>d, <2>0
    <2>2. /\ home' \in [Floor -> Building \cup {"unborn", "gone"}]
          /\ placed' \in [Camera -> Floor \cup {None}]
          /\ \A f \in Floor \ {g} : home'[f] = home[f]
        BY <1>i, <2>0
    <2>3. Placed'
        BY <1>a, <1>i, <1>p, <2>0
    <2>4. ASSUME g \notin mishap'
          PROVE  FloorSound(g, home'[g] \in Building, image'[g], file', job')
        <3>1. FloorSound(g, home[g] \in Building, image[g], file, job)
            BY <1>s, <2>0, <2>1, <2>4
        <3>2. Busy(job, r, g)
            BY <2>1 DEF Busy
        <3>3. Holds(file, g, {}) /\ \A q \in Request : Busy(job, q, g) => q = r
            BY <2>0, <3>1, <3>2 DEF FloorSound
        <3>4. \A q \in Request : ~Busy(job', q, g)
            BY <1>i, <2>0, <3>3 DEF Busy
        <3>5. home'[g] \notin Building
            BY <1>a, <2>0, <2>1
        <3>6. FloorSound(g, FALSE, image[g], file, job')
            BY <3>3, <3>4 DEF FloorSound
        <3> QED
            BY <2>0, <3>5, <3>6 DEF FloorSound
    <2>5. Plan!Idle \in Entry
        OBVIOUS
    <2>6. ASSUME NEW f \in Floor, f = g
          PROVE  job' \in [Request -> Entry] /\ \A h \in Floor \ mishap' : Sound(h)'
        <3>1. f \notin mishap' => Sound(f)'
            BY <2>4, <2>6
        <3> HIDE DEF Sound
        <3> QED
            BY <1>r, <2>0, <2>2, <2>5, <2>6, <3>1
    <2> HIDE DEF Sound, Placed
    <2> QED
        BY <1>f, <1>i, <2>0, <2>1, <2>2, <2>3, <2>6
<1>6. ASSUME NEW r \in Request, NEW f \in Floor, NEW x \in Ext, Plan!UploadLoad(r, f, x)
      PROVE  PlanInv'
    <2> DEFINE e == [step |-> "loaded", floor |-> f, old |-> image[f], new |-> x]
    <2>0. /\ job[r] = Plan!Idle /\ home[f] \in Building
          /\ job' = [job EXCEPT ![r] = e]
          /\ mishap' = Plan!Overlapped(f)
          /\ UNCHANGED <<building, home, image, file, placed>>
        BY <1>6 DEF Plan!UploadLoad, Plan!Exists
    <2>1. /\ e \in Entry /\ e.floor = f /\ e.step = "loaded" /\ e.old = image[f]
          /\ e # Plan!Idle
        BY <1>i DEF Plan!Upload, Plan!Idle
    <2> HIDE DEF e
    <2>2. mishap \subseteq mishap' /\ mishap' \subseteq Floor
        BY <1>i, <2>0 DEF Plan!Overlapped
    <2>3. Placed'
        BY <1>p, <2>0
    <2>4. ASSUME f \notin mishap'
          PROVE  Sound(f)'
        <3>1. f \notin mishap /\ \A q \in Request : ~Busy(job, q, f)
            BY <2>0, <2>4 DEF Plan!Overlapped, Plan!UnderWay, Busy
        <3>2. FloorSound(f, home[f] \in Building, image[f], file, job)
            BY <1>s, <3>1
        <3>3. Holds(file, f, {image[f]})
            BY <2>0, <3>1, <3>2 DEF FloorSound
        <3>5. \A q \in Request : Busy(job', q, f) <=> q = r
            BY <1>i, <2>0, <2>1, <3>1 DEF Busy
        <3>6. job'[r].step = "loaded" /\ job'[r].old = image[f]
            BY <1>i, <2>0, <2>1
        <3>7. FloorSound(f, TRUE, image[f], file, job')
            BY <3>3, <3>5, <3>6 DEF FloorSound
        <3> QED
            BY <2>0, <3>7
    <2> HIDE DEF Sound, Placed
    <2>5. job' \in [Request -> Entry] /\ \A g \in Floor \ mishap' : Sound(g)'
        BY <1>r, <2>0, <2>1, <2>2, <2>4
    <2> QED
        BY <1>f, <1>i, <2>0, <2>2, <2>3, <2>5
<1>7. ASSUME NEW r \in Request, Plan!UploadWrite(r)
      PROVE  PlanInv'
    <2> DEFINE u == job[r]
    <2> DEFINE e == [u EXCEPT !.step = "written"]
    <2>0. /\ u.step = "loaded"
          /\ file' = Plan!Unlinked(u) \cup {<<u.floor, u.new>>}
          /\ job' = [job EXCEPT ![r] = e]
          /\ UNCHANGED <<building, home, image, placed, mishap>>
        BY <1>7 DEF Plan!UploadWrite
    <2>1. /\ u.floor \in Floor /\ u.new \in Ext /\ u.old \in Ext \cup {None} /\ u # Plan!Idle
          /\ e \in Entry /\ e.floor = u.floor /\ e.step = "written" /\ e.old = u.old
          /\ e.new = u.new /\ e # Plan!Idle
        BY <1>d, <2>0 DEF Plan!Upload, Plan!Idle
    <2> HIDE DEF e
    <2>2. /\ file' \subseteq Floor \X Ext
          /\ \A g \in Floor \ {u.floor} : \A x \in Ext : <<g, x>> \in file <=> <<g, x>> \in file'
        BY <1>i, <2>0, <2>1 DEF Plan!Unlinked
    <2>3. Placed'
        BY <1>p, <2>0
    <2>4. ASSUME NEW f \in Floor \ mishap', f = u.floor
          PROVE  Sound(f)'
        <3>1. FloorSound(f, home[f] \in Building, image[f], file, job)
            BY <1>s, <2>0, <2>4
        <3>2. Busy(job, r, f)
            BY <2>1, <2>4 DEF Busy
        <3>3. /\ home[f] \in Building /\ u.old = image[f] /\ Holds(file, f, {u.old})
              /\ \A q \in Request : Busy(job, q, f) => q = r
            BY <2>0, <3>1, <3>2 DEF FloorSound
        <3>4. Holds(file', f, {u.new})
            BY <2>0, <2>1, <2>4, <3>3 DEF Holds, Plan!Unlinked
        <3>5. \A q \in Request : Busy(job', q, f) <=> q = r
            BY <1>i, <2>0, <2>1, <2>4, <3>2, <3>3 DEF Busy
        <3>6. job'[r].step = "written" /\ job'[r].old = image[f] /\ job'[r].new = u.new
            BY <1>i, <2>0, <2>1, <3>3
        <3>7. FloorSound(f, TRUE, image[f], file', job')
            BY <3>4, <3>5, <3>6 DEF FloorSound
        <3> QED
            BY <2>0, <3>3, <3>7
    <2> HIDE DEF Sound, Placed
    <2>5. job' \in [Request -> Entry] /\ \A g \in Floor \ mishap' : Sound(g)'
        <3>1. ASSUME NEW f \in Floor, f = u.floor
              PROVE  job' \in [Request -> Entry] /\ \A h \in Floor \ mishap' : Sound(h)'
            BY <1>r, <2>0, <2>1, <2>2, <2>4, <3>1
        <3> QED
            BY <2>1, <3>1
    <2> QED
        BY <1>f, <1>i, <2>0, <2>2, <2>3, <2>5
<1>8. ASSUME NEW r \in Request, Plan!UploadCommit(r)
      PROVE  PlanInv'
    <2> DEFINE u == job[r]
    <2>0. /\ u.step = "written" /\ home[u.floor] \in Building
          /\ image' = IF u.old # u.new THEN [image EXCEPT ![u.floor] = u.new] ELSE image
          /\ job' = [job EXCEPT ![r] = Plan!Idle]
          /\ UNCHANGED <<building, home, file, placed, mishap>>
        BY <1>8 DEF Plan!UploadCommit, Plan!Exists
    <2>1. u.floor \in Floor /\ u.new \in Ext /\ u # Plan!Idle
        BY <1>d, <2>0
    <2>2. /\ image' \in [Floor -> Ext \cup {None}]
          /\ \A f \in Floor \ {u.floor} : image'[f] = image[f]
        BY <1>i, <2>0, <2>1
    <2>3. Placed'
        BY <1>a, <1>p, <2>0, <2>2
    <2>4. ASSUME NEW f \in Floor \ mishap', f = u.floor
          PROVE  Sound(f)'
        <3>1. FloorSound(f, home[f] \in Building, image[f], file, job)
            BY <1>s, <2>0, <2>4
        <3>2. Busy(job, r, f)
            BY <2>1, <2>4 DEF Busy
        <3>3. /\ u.old = image[f] /\ Holds(file, f, {u.new})
              /\ \A q \in Request : Busy(job, q, f) => q = r
            BY <2>0, <3>1, <3>2 DEF FloorSound
        <3>4. image'[f] = u.new
            BY <1>i, <2>0, <2>4, <3>3
        <3>5. \A q \in Request : ~Busy(job', q, f)
            BY <1>i, <2>0, <3>3 DEF Busy
        <3>6. FloorSound(f, TRUE, image'[f], file, job')
            BY <3>3, <3>4, <3>5 DEF FloorSound
        <3> QED
            BY <2>0, <2>4, <3>6
    <2> HIDE DEF Sound, Placed
    <2>5. job' \in [Request -> Entry] /\ \A g \in Floor \ mishap' : Sound(g)'
        <3>1. ASSUME NEW f \in Floor, f = u.floor
              PROVE  job' \in [Request -> Entry] /\ \A h \in Floor \ mishap' : Sound(h)'
            BY <1>r, <2>0, <2>1, <2>2, <2>4, <3>1
        <3> QED
            BY <2>1, <3>1
    <2> QED
        BY <1>f, <1>i, <2>0, <2>2, <2>3, <2>5
<1>9. ASSUME NEW r \in Request, Plan!RequestFails(r)
      PROVE  PlanInv'
    <2> DEFINE u == job[r]
    <2>0. /\ u # Plan!Idle /\ job' = [job EXCEPT ![r] = Plan!Idle]
          /\ \/ file' = file /\ mishap' = mishap /\ u.step = "loaded"
             \/ u.step = "loaded" /\ file' = Plan!Unlinked(u) /\ mishap' = mishap \cup {u.floor}
             \/ /\ u.step \in {"written", "unlinked"} /\ mishap' = mishap \cup {u.floor}
                /\ file' = file
          /\ UNCHANGED <<building, home, image, placed>>
        BY <1>9 DEF Plan!RequestFails
    <2>1. u.floor \in Floor
        BY <1>d, <2>0
    <2>2. /\ file' \subseteq Floor \X Ext /\ mishap \subseteq mishap' /\ mishap' \subseteq Floor
          /\ \A g \in Floor \ {u.floor} : \A x \in Ext : <<g, x>> \in file <=> <<g, x>> \in file'
        BY <1>i, <2>0, <2>1 DEF Plan!Unlinked
    <2>3. Placed'
        BY <1>p, <2>0
    <2>4. ASSUME NEW f \in Floor \ mishap', f = u.floor
          PROVE  Sound(f)'
        <3>0. u.step = "loaded" /\ file' = file /\ mishap' = mishap
            BY <2>0, <2>4
        <3>1. FloorSound(f, home[f] \in Building, image[f], file, job)
            BY <1>s, <2>4, <3>0
        <3>2. Busy(job, r, f)
            BY <2>0, <2>4 DEF Busy
        <3>3. /\ home[f] \in Building /\ Holds(file, f, {image[f]})
              /\ \A q \in Request : Busy(job, q, f) => q = r
            BY <3>0, <3>1, <3>2 DEF FloorSound
        <3>5. \A q \in Request : ~Busy(job', q, f)
            BY <1>i, <2>0, <3>3 DEF Busy
        <3>6. FloorSound(f, TRUE, image[f], file, job')
            BY <3>3, <3>5 DEF FloorSound
        <3> QED
            BY <2>0, <3>0, <3>3, <3>6
    <2> HIDE DEF Sound, Placed
    <2>5. job' \in [Request -> Entry] /\ \A g \in Floor \ mishap' : Sound(g)'
        <3>1. ASSUME NEW f \in Floor, f = u.floor
              PROVE  job' \in [Request -> Entry] /\ \A h \in Floor \ mishap' : Sound(h)'
            BY <1>r, <2>0, <2>1, <2>2, <2>4, <3>1
        <3> QED
            BY <2>1, <3>1
    <2> QED
        BY <1>f, <1>i, <2>0, <2>2, <2>3, <2>5
<1>10. ASSUME NEW c \in Camera,
              Plan!DeletePlacement(c) \/ \E f \in Floor : Plan!CreatePlacement(c, f)
       PROVE  PlanInv'
    <2>1. /\ placed' \in [Camera -> Floor \cup {None}]
          /\ \A d \in Camera : placed'[d] # None => home[placed'[d]] \in Building
        BY <1>10, <1>i, <1>p DEF Plan!DeletePlacement, Plan!CreatePlacement, Plan!Exists
    <2>2. UNCHANGED <<building, home, image, file, job, mishap>>
        BY <1>10 DEF Plan!DeletePlacement, Plan!CreatePlacement
    <2>3. Placed'
        BY <1>p, <2>1, <2>2
    <2> QED
        BY <1>f, <1>i, <1>s, <2>1, <2>2, <2>3
<1> QED
    BY <1>1, <1>2, <1>3, <1>4, <1>5, <1>6, <1>7, <1>8, <1>9, <1>10 DEF Plan!Next

LEMMA PlanStutter == PlanInv /\ UNCHANGED planVars => PlanInv'
BY DEF PlanInv, Plan!TypeOK, Plan!PlacementsHaveFloors, Plan!Exists

LEMMA PlanHolds == PlanInv => Plan!PlanIsSound
<1> SUFFICES ASSUME PlanInv
             PROVE  Plan!PlanIsSound
    OBVIOUS
<1>1. ASSUME NEW f \in Floor, ~Plan!UnderWay(f), f \notin mishap
      PROVE  {e \in Ext : <<f, e>> \in file} = IF Plan!Exists(f) THEN {image[f]} \ {None} ELSE {}
    <2>1. \A r \in Request : ~Busy(job, r, f)
        BY <1>1 DEF Plan!UnderWay, Busy
    <2>2. Holds(file, f, IF home[f] \in Building THEN {image[f]} ELSE {})
        BY <1>1, <2>1 DEF PlanInv, FloorSound
    <2>3. None \notin Ext /\ image[f] \in Ext \cup {None}
        BY ServicesAssumption DEF PlanInv, Plan!TypeOK
    <2> QED
        BY <2>2, <2>3 DEF Holds, Plan!Exists
<1>2. Plan!ImagesAgree
    BY <1>1 DEF Plan!ImagesAgree
<1> QED
    BY <1>2 DEF PlanInv, Plan!PlanIsSound

(***************************************************************************)
(* Storage targets                                                         *)
(***************************************************************************)

LEMMA TargetInit == Targets!Init => TargetInv
<1> SUFFICES ASSUME Targets!Init
             PROVE  TargetInv
    OBVIOUS
<1> USE DEF Targets!Init, Targets!Idle
<1>1. \A c \in Caller : call[c].what # "delete"
    OBVIOUS
<1> QED
    BY <1>1 DEF TargetInv, Targets!TypeOK

LEMMA TargetStep == TargetInv /\ Targets!Next => TargetInv'
<1> SUFFICES ASSUME TargetInv, Targets!Next
             PROVE  TargetInv'
    OBVIOUS
<1> USE DEF Targets!Idle, Targets!Exists
<1>i. /\ target \in [Target -> {"unborn", "inactive", "active", "gone"}]
      /\ mounted \subseteq Target
      /\ call \in [Caller -> {Targets!Idle} \cup Targets!Call]
      /\ chosen \in BOOLEAN /\ raced \in BOOLEAN
      /\ \A s, t \in Target : target[s] = "active" /\ target[t] = "active" => s = t
      /\ chosen /\ ~raced => \E t \in Target : target[t] = "active"
      /\ \A c \in Caller : call[c].what = "delete" /\ ~call[c].late =>
           target[call[c].target] # "active"
    BY DEF TargetInv, Targets!TypeOK
<1>1. ASSUME NEW t \in Target, Targets!CreateTarget(t)
      PROVE  TargetInv'
    <2> USE <1>i, <1>1 DEF Targets!CreateTarget
    <2>1. Targets!TypeOK'
        BY DEF Targets!TypeOK
    <2>2. (\A s, u \in Target : target[s] = "active" /\ target[u] = "active" => s = u)'
        OBVIOUS
    <2>3. (chosen /\ ~raced => \E u \in Target : target[u] = "active")'
        OBVIOUS
    <2>4. (\A c \in Caller : call[c].what = "delete" /\ ~call[c].late =>
             target[call[c].target] # "active")'
        BY DEF Targets!Call
    <2> QED
        BY <2>1, <2>2, <2>3, <2>4 DEF TargetInv
<1>2. ASSUME NEW t \in Target, Targets!Mount(t)
      PROVE  TargetInv'
    BY <1>i, <1>2 DEF Targets!Mount, TargetInv, Targets!TypeOK
<1>3. ASSUME NEW c \in Caller, NEW t \in Target, NEW what \in {"activate", "delete"},
             Targets!Begin(c, what, t), what = "delete" => target[t] = "inactive"
      PROVE  TargetInv'
    <2> USE <1>i, <1>3 DEF Targets!Begin
    <2>1. Targets!TypeOK'
        BY DEF Targets!TypeOK, Targets!Call
    <2>2. (\A d \in Caller : call[d].what = "delete" /\ ~call[d].late =>
             target[call[d].target] # "active")'
        OBVIOUS
    <2> QED
        BY <2>1, <2>2 DEF TargetInv
<1>4. ASSUME NEW c \in Caller, Targets!Activate(c)
      PROVE  TargetInv'
    <2> DEFINE t == call[c].target
    <2> USE <1>i, <1>4 DEF Targets!Activate
    <2>0. call[c] \in Targets!Call /\ t \in Target
        BY DEF Targets!Call
    <2>1. Targets!TypeOK'
        BY <2>0 DEF Targets!TypeOK, Targets!Call
    <2>2. \A s \in Target : target'[s] = "active" <=> s = t
        BY <2>0
    <2>3. \A d \in Caller : call'[d].what = "delete" /\ ~call'[d].late =>
            call'[d] = call[d] /\ call[d] # Targets!Idle /\ call[d].target # t
        BY DEF Targets!Call
    <2>4. \A d \in Caller : call[d] # Targets!Idle => call[d].target \in Target
        BY DEF Targets!Call
    <2> QED
        BY <2>0, <2>1, <2>2, <2>3, <2>4 DEF TargetInv
<1>5. ASSUME NEW c \in Caller, Targets!Delete(c)
      PROVE  TargetInv'
    <2> DEFINE t == call[c].target
    <2> USE <1>i, <1>5 DEF Targets!Delete
    <2>0. call[c] \in Targets!Call /\ t \in Target
        BY DEF Targets!Call
    <2>1. Targets!TypeOK'
        BY <2>0 DEF Targets!TypeOK, Targets!Call
    <2>2. (\A s, u \in Target : target[s] = "active" /\ target[u] = "active" => s = u)'
        OBVIOUS
    <2>3. (chosen /\ ~raced => \E u \in Target : target[u] = "active")'
        BY <2>0
    <2>4. \A d \in Caller : call'[d] # Targets!Idle => call'[d] = call[d]
        OBVIOUS
    <2>5. (\A d \in Caller : call[d].what = "delete" /\ ~call[d].late =>
             target[call[d].target] # "active")'
        BY <2>0, <2>4
    <2> QED
        BY <2>1, <2>2, <2>3, <2>5 DEF TargetInv
<1>6. ASSUME NEW c \in Caller, Targets!CallFails(c)
      PROVE  TargetInv'
    BY <1>i, <1>6 DEF Targets!CallFails, TargetInv, Targets!TypeOK
<1> QED
    BY <1>1, <1>2, <1>3, <1>4, <1>5, <1>6
       DEF Targets!Next, Targets!ActivateCheck, Targets!DeleteCheck

LEMMA TargetStutter == TargetInv /\ UNCHANGED targetVars => TargetInv'
BY DEF TargetInv, Targets!TypeOK

LEMMA TargetsHold == TargetInv => Targets!OneTargetIsActive
<1> SUFFICES ASSUME TargetInv
             PROVE  Targets!OneTargetIsActive
    OBVIOUS
<1> DEFINE active == {t \in Target : target[t] = "active"}
<1>1. active = {} \/ \E t \in Target : active = {t}
    BY DEF TargetInv
<1>2. Cardinality(active) <= 1
    BY <1>1, FS_EmptySet, FS_Singleton
<1>3. chosen /\ ~raced => active # {}
    BY DEF TargetInv
<1>4. Targets!Cardinality(active) = Cardinality(active)
    BY DEF Targets!Cardinality, Cardinality
<1> QED
    BY <1>2, <1>3, <1>4 DEF Targets!OneTargetIsActive

(***************************************************************************)
(* The registry of cameras                                                 *)
(***************************************************************************)

LEMMA CameraInit == Cameras!Init => CameraInv
<1> SUFFICES ASSUME Cameras!Init
             PROVE  CameraInv
    OBVIOUS
<1> USE DEF Cameras!Init, Cameras!Idle
<1>1. Cameras!TypeOK
    BY DEF Cameras!TypeOK, Cameras!CameraRow, Cameras!Url
<1>2. \A c \in Device : ~Cameras!Live(c)
    BY DEF Cameras!Live
<1>3. Cameras!UrlsFollowAddresses
    BY <1>2 DEF Cameras!UrlsFollowAddresses
<1>4. Cameras!KeyListsCameras
    BY <1>2 DEF Cameras!KeyListsCameras, Cameras!Listed
<1>5. \A p \in Probe : probe[p].what = "none"
    OBVIOUS
<1> QED
    BY <1>1, <1>3, <1>4, <1>5 DEF CameraInv

LEMMA CameraStep == CameraInv /\ Cameras!Next => CameraInv'
<1> SUFFICES ASSUME CameraInv, Cameras!Next
             PROVE  CameraInv'
    OBVIOUS
<1> DEFINE Entry == {Cameras!Idle} \cup Cameras!Change \cup Cameras!Restart
<1>a. NoUrl \notin Address
    BY ServicesAssumption
<1>i. /\ cam \in [Device -> Cameras!CameraRow]
      /\ probe \in [Probe -> Entry]
      /\ key \subseteq Device \X Address /\ feed \subseteq Device \X Address
      /\ current \in BOOLEAN
      /\ blind \subseteq Device
      /\ \A c \in Device : cam[c].state = "live" =>
           cam[c].url \in {cam[c].ip, NoUrl} \/ c \in blind
      /\ current => key = Cameras!Listed
      /\ \A p \in Probe : probe[p].what = "move" /\ probe[p].loaded = probe[p].to =>
           probe[p].cam \in blind
      /\ \A p \in Probe : probe[p].what = "read" =>
           (probe[p].fresh => probe[p].list = Cameras!Listed)
    BY DEF CameraInv, Cameras!TypeOK, Cameras!UrlsFollowAddresses, Cameras!KeyListsCameras,
           Cameras!Live
<1>d. \A p \in Probe :
        /\ probe[p].what \in {"register", "move"} =>
             /\ probe[p] \in Cameras!Change /\ probe[p].cam \in Device /\ probe[p].to \in Address
             /\ probe[p].loaded \in Address \cup {NoUrl}
        /\ probe[p].what \in {"read", "set"} =>
             /\ probe[p] \in Cameras!Restart
             /\ probe[p].list \subseteq Device \X Address /\ probe[p].fresh \in BOOLEAN
    BY <1>i DEF Cameras!Change, Cameras!Restart, Cameras!Idle, Cameras!Url
(* A request begins, is at its end, or takes a step that writes no row. *)
<1>q. ASSUME NEW p \in Probe, NEW e \in Entry,
             probe' = [probe EXCEPT ![p] = e],
             e.what = "move" /\ e.loaded = e.to => e.cam \in blind,
             e.what = "read" => e.list = Cameras!Listed,
             cam' = cam, blind' = blind,
             key' \subseteq Device \X Address, feed' \subseteq Device \X Address,
             current' \in BOOLEAN, current' => key' = Cameras!Listed
      PROVE  CameraInv'
    <2>1. Cameras!TypeOK'
        BY <1>i, <1>q DEF Cameras!TypeOK
    <2>2. Cameras!UrlsFollowAddresses'
        BY <1>i, <1>q DEF Cameras!UrlsFollowAddresses, Cameras!Live
    <2>3. Cameras!Listed' = Cameras!Listed
        BY <1>q DEF Cameras!Listed, Cameras!Live
    <2>4. Cameras!KeyListsCameras'
        BY <1>q, <2>3 DEF Cameras!KeyListsCameras
    <2>5. \A r \in Probe : probe'[r] = IF r = p THEN e ELSE probe[r]
        BY <1>i, <1>q
    <2>6. (\A r \in Probe : probe[r].what = "move" /\ probe[r].loaded = probe[r].to =>
             probe[r].cam \in blind)'
        BY <1>i, <1>q, <2>5
    <2>7. (\A r \in Probe : probe[r].what = "read" =>
             (probe[r].fresh => probe[r].list = Cameras!Listed))'
        BY <1>i, <1>q, <2>3, <2>5
    <2> QED
        BY <2>1, <2>2, <2>4, <2>6, <2>7 DEF CameraInv
<1>w. ASSUME NEW p \in Probe, NEW r \in [Device -> Cameras!CameraRow], Cameras!Write(p, r),
             blind \subseteq blind', blind' \subseteq Device,
             \A c \in Device : r[c].state = "live" => r[c].url \in {r[c].ip, NoUrl} \/ c \in blind'
      PROVE  CameraInv'
    <2>0. /\ cam' = r /\ current' = FALSE /\ key' = key /\ feed' = feed
          /\ probe' = [q \in Probe |-> IF q = p THEN Cameras!Idle
                                       ELSE IF probe[q].what = "read"
                                       THEN [probe[q] EXCEPT !.fresh = FALSE] ELSE probe[q]]
        BY <1>w DEF Cameras!Write
    <2>1. \A q \in Probe : probe[q].what = "read" =>
            [probe[q] EXCEPT !.fresh = FALSE] \in Cameras!Restart
        BY <1>d DEF Cameras!Restart
    <2>2. probe' \in [Probe -> Entry]
        BY <1>i, <2>0, <2>1
    <2>3. Cameras!TypeOK'
        BY <1>i, <1>w, <2>0, <2>2 DEF Cameras!TypeOK
    <2>4. Cameras!UrlsFollowAddresses'
        BY <1>w, <2>0 DEF Cameras!UrlsFollowAddresses, Cameras!Live
    <2>5. Cameras!KeyListsCameras'
        BY <2>0 DEF Cameras!KeyListsCameras
    <2>6. \A q \in Probe : probe'[q].what = "move" => probe'[q] = probe[q]
        <3>1. \A q \in Probe : probe[q].what = "read" =>
                [probe[q] EXCEPT !.fresh = FALSE].what = "read"
            BY <1>d DEF Cameras!Restart
        <3> QED
            BY <2>0, <3>1 DEF Cameras!Idle
    <2>7. \A q \in Probe : probe'[q].what = "read" => ~probe'[q].fresh
        <3>1. \A q \in Probe : probe[q].what = "read" =>
                ~[probe[q] EXCEPT !.fresh = FALSE].fresh
            BY <1>d DEF Cameras!Restart
        <3> QED
            BY <2>0, <3>1 DEF Cameras!Idle
    <2>8. (\A q \in Probe : probe[q].what = "move" /\ probe[q].loaded = probe[q].to =>
             probe[q].cam \in blind)'
        BY <1>i, <1>w, <2>6
    <2> QED
        BY <2>3, <2>4, <2>5, <2>7, <2>8 DEF CameraInv
<1>1. ASSUME NEW p \in Probe, NEW c \in Device, NEW a \in Address,
             Cameras!RegisterCamera(p, c, a)
      PROVE  CameraInv'
    <2> DEFINE e == [what |-> "register", cam |-> c, to |-> a, loaded |-> NoUrl]
    <2>1. e \in Entry /\ e.what = "register"
        BY DEF Cameras!Change, Cameras!Url
    <2>2. /\ probe' = [probe EXCEPT ![p] = e]
          /\ UNCHANGED <<cam, key, feed, current, blind>>
        BY <1>1 DEF Cameras!RegisterCamera, Cameras!Begin
    <2> HIDE DEF e
    <2> QED
        BY <1>i, <1>q, <2>1, <2>2
<1>2. ASSUME NEW p \in Probe, NEW c \in Device, NEW a \in Address,
             Cameras!UpdateCamera(p, c, a)
      PROVE  CameraInv'
    <2> DEFINE e == [what |-> "move", cam |-> c, to |-> a, loaded |-> cam[c].url]
    <2>1. /\ probe' = [probe EXCEPT ![p] = e]
          /\ UNCHANGED <<cam, key, feed, current, blind>>
          /\ cam[c].state = "live" /\ cam[c].ip # a
        BY <1>2 DEF Cameras!UpdateCamera, Cameras!Begin, Cameras!Live
    <2>2. e \in Entry
        BY <1>i DEF Cameras!Change, Cameras!Url, Cameras!CameraRow
    <2>3. e.what = "move" /\ (e.loaded = e.to => e.cam \in blind)
        BY <1>a, <1>i, <2>1
    <2> HIDE DEF e
    <2> QED
        BY <1>i, <1>q, <2>1, <2>2, <2>3
<1>3. ASSUME NEW p \in Probe, Cameras!PublishRead(p)
      PROVE  CameraInv'
    <2> DEFINE e == [what |-> "read", list |-> Cameras!Listed, fresh |-> TRUE]
    <2>1. /\ probe' = [probe EXCEPT ![p] = e]
          /\ UNCHANGED <<cam, key, feed, current, blind>>
        BY <1>3 DEF Cameras!PublishRead, Cameras!Begin
    <2>2. Cameras!Listed \subseteq Device \X Address
        BY DEF Cameras!Listed
    <2>3. e \in Entry
        BY <2>2 DEF Cameras!Restart
    <2>4. e.what = "read" /\ e.list = Cameras!Listed
        OBVIOUS
    <2> HIDE DEF e
    <2> QED
        BY <1>i, <1>q, <2>1, <2>3, <2>4
<1>4. ASSUME NEW p \in Probe, Cameras!PublishSet(p)
      PROVE  CameraInv'
    <2> DEFINE e == [probe[p] EXCEPT !.what = "set"]
    <2>1. /\ probe[p].what = "read" /\ key' = probe[p].list /\ current' = probe[p].fresh
          /\ probe' = [probe EXCEPT ![p] = e]
          /\ UNCHANGED <<cam, feed, blind>>
        BY <1>4 DEF Cameras!PublishSet
    <2>2. e \in Entry /\ e.what = "set"
        BY <1>d, <2>1 DEF Cameras!Restart
    <2>3. /\ key' \subseteq Device \X Address /\ current' \in BOOLEAN
          /\ current' => key' = Cameras!Listed
        BY <1>d, <1>i, <2>1
    <2> HIDE DEF e
    <2> QED
        BY <1>i, <1>q, <2>1, <2>2, <2>3
<1>5. ASSUME NEW p \in Probe, Cameras!RequestFails(p) \/ Cameras!RestartDetection(p)
      PROVE  CameraInv'
    <2>1. /\ probe' = [probe EXCEPT ![p] = Cameras!Idle]
          /\ UNCHANGED <<cam, key, current, blind>> /\ feed' \in {feed, key}
        BY <1>5 DEF Cameras!RequestFails, Cameras!RestartDetection, Cameras!ServiceStarts
    <2>2. Cameras!Idle \in Entry /\ Cameras!Idle.what = "none"
        BY DEF Cameras!Idle
    <2> QED
        BY <1>i, <1>q, <2>1, <2>2
<1>6. ASSUME NEW p \in Probe, Cameras!Registered(p)
      PROVE  CameraInv'
    <2>1. PICK url \in {probe[p].to, NoUrl} :
            Cameras!Write(p, [cam EXCEPT ![probe[p].cam] =
                                [state |-> "live", ip |-> probe[p].to, url |-> url]])
        BY <1>6 DEF Cameras!Registered, Cameras!Probed
    <2>2. probe[p].what = "register" /\ blind' = blind
        BY <1>6 DEF Cameras!Registered
    <2> DEFINE r == [cam EXCEPT ![probe[p].cam] =
                       [state |-> "live", ip |-> probe[p].to, url |-> url]]
    <2>3. r \in [Device -> Cameras!CameraRow]
        BY <1>d, <1>i, <2>2 DEF Cameras!CameraRow, Cameras!Url
    <2>4. \A c \in Device : r[c].state = "live" => r[c].url \in {r[c].ip, NoUrl} \/ c \in blind'
        BY <1>d, <1>i, <2>2
    <2>5. Cameras!Write(p, r)
        BY <2>1
    <2> HIDE DEF r
    <2> QED
        BY <1>i, <1>w, <2>2, <2>3, <2>4, <2>5
<1>7. ASSUME NEW p \in Probe, Cameras!Updated(p)
      PROVE  CameraInv'
    <2> DEFINE u == probe[p]
    <2> DEFINE new(url) == IF url = NoUrl THEN u.loaded ELSE url
    <2> DEFINE r(url) == [cam EXCEPT ![u.cam].ip = u.to,
                                     ![u.cam].url = IF new(url) = u.loaded THEN @ ELSE new(url)]
    <2>1. PICK url \in {u.to, NoUrl} :
            /\ Cameras!Write(p, r(url))
            /\ blind' = IF url = NoUrl THEN blind \cup {u.cam} ELSE blind
        BY <1>7 DEF Cameras!Updated, Cameras!Probed
    <2>2. u.what = "move" /\ u.cam \in Device /\ u.to \in Address
          /\ u.loaded \in Address \cup {NoUrl} /\ (u.loaded = u.to => u.cam \in blind)
        BY <1>7, <1>d, <1>i DEF Cameras!Updated
    <2>3. cam[u.cam] \in Cameras!CameraRow
        BY <1>i, <2>2
    <2>4. /\ r(url) \in [Device -> Cameras!CameraRow]
          /\ \A c \in Device : c # u.cam => r(url)[c] = cam[c]
          /\ r(url)[u.cam].ip = u.to
          /\ r(url)[u.cam].url = IF new(url) = u.loaded THEN cam[u.cam].url ELSE new(url)
        BY <1>i, <2>2, <2>3 DEF Cameras!CameraRow, Cameras!Url
    <2>5. \A c \in Device : r(url)[c].state = "live" =>
            r(url)[c].url \in {r(url)[c].ip, NoUrl} \/ c \in blind'
        <3>1. CASE url = NoUrl
            BY <3>1, <1>i, <2>1, <2>4
        <3>2. CASE url = u.to
            BY <3>2, <1>a, <1>i, <2>1, <2>2, <2>4
        <3> QED
            BY <3>1, <3>2
    <2>6. blind \subseteq blind' /\ blind' \subseteq Device
        BY <1>i, <2>1, <2>2
    <2> HIDE DEF r
    <2> QED
        BY <1>w, <2>1, <2>4, <2>5, <2>6
<1>8. ASSUME NEW p \in Probe, NEW c \in Device, NEW a \in Address, Cameras!UpdateUrl(p, c, a)
      PROVE  CameraInv'
    <2> DEFINE r == [cam EXCEPT ![c].url = a]
    <2>1. Cameras!Write(p, r) /\ blind' = blind \cup {c}
        BY <1>8 DEF Cameras!UpdateUrl
    <2>2. cam[c] \in Cameras!CameraRow
        BY <1>i
    <2>3. r \in [Device -> Cameras!CameraRow]
        BY <1>i, <2>2 DEF Cameras!CameraRow, Cameras!Url
    <2>4. \A d \in Device : r[d].state = "live" => r[d].url \in {r[d].ip, NoUrl} \/ d \in blind'
        BY <1>i, <2>1
    <2>5. blind \subseteq blind' /\ blind' \subseteq Device
        BY <1>i, <2>1
    <2> HIDE DEF r
    <2> QED
        BY <1>w, <2>1, <2>3, <2>4, <2>5
<1>9. ASSUME NEW p \in Probe, NEW c \in Device, Cameras!DeleteCamera(p, c)
      PROVE  CameraInv'
    <2> DEFINE r == [cam EXCEPT ![c].state = "deleted"]
    <2>1. Cameras!Write(p, r) /\ blind' = blind
        BY <1>9 DEF Cameras!DeleteCamera
    <2>2. cam[c] \in Cameras!CameraRow
        BY <1>i
    <2>3. r \in [Device -> Cameras!CameraRow]
        BY <1>i, <2>2 DEF Cameras!CameraRow, Cameras!Url
    <2>4. r[c].state # "live"
        BY <1>i, <2>2 DEF Cameras!CameraRow
    <2>5. \A d \in Device : r[d].state = "live" => r[d].url \in {r[d].ip, NoUrl} \/ d \in blind'
        BY <1>i, <2>1, <2>4
    <2> HIDE DEF r
    <2> QED
        BY <1>i, <1>w, <2>1, <2>3, <2>5
<1>10. ASSUME Cameras!ServiceRestarts
       PROVE  CameraInv'
    <2>1. feed' = key /\ UNCHANGED <<cam, key, current, blind, probe>>
        BY <1>10 DEF Cameras!ServiceRestarts, Cameras!ServiceStarts
    <2>2. Cameras!Listed' = Cameras!Listed
        BY <2>1 DEF Cameras!Listed, Cameras!Live
    <2>3. Cameras!TypeOK'
        BY <1>i, <2>1 DEF Cameras!TypeOK
    <2>4. Cameras!UrlsFollowAddresses' /\ Cameras!KeyListsCameras'
        BY <1>i, <2>1, <2>2 DEF Cameras!UrlsFollowAddresses, Cameras!KeyListsCameras, Cameras!Live
    <2> QED
        BY <1>i, <2>1, <2>2, <2>3, <2>4 DEF CameraInv
<1> QED
    BY <1>1, <1>2, <1>3, <1>4, <1>5, <1>6, <1>7, <1>8, <1>9, <1>10 DEF Cameras!Next

LEMMA CameraStutter == CameraInv /\ UNCHANGED cameraVars => CameraInv'
<1> SUFFICES ASSUME CameraInv, UNCHANGED cameraVars
             PROVE  CameraInv'
    OBVIOUS
<1>1. Cameras!Listed' = Cameras!Listed
    BY DEF Cameras!Listed, Cameras!Live
<1> QED
    BY <1>1 DEF CameraInv, Cameras!TypeOK, Cameras!UrlsFollowAddresses, Cameras!KeyListsCameras,
                Cameras!Live

(***************************************************************************)
(* Rights                                                                  *)
(***************************************************************************)

LEMMA GrantInit == Grants!Init => GrantInv
<1> SUFFICES ASSUME Grants!Init
             PROVE  GrantInv
    OBVIOUS
<1> USE DEF Grants!Init, Grants!Idle
<1>1. Grants!TypeOK
    BY DEF Grants!TypeOK
<1> QED
    BY <1>1 DEF GrantInv, Grants!GrantsAreWhole

LEMMA GrantStep == GrantInv /\ Grants!Next => GrantInv'
<1> SUFFICES ASSUME GrantInv, Grants!Next
             PROVE  GrantInv'
    OBVIOUS
<1> USE ServicesAssumption
<1>i. /\ grant \in [Pair -> (SUBSET Right) \cup {NoGrant}]
      /\ change \in [Setter -> {Grants!Idle} \cup Grants!Change]
      /\ asked \in [Pair -> SUBSET SUBSET Right]
      /\ mixed \subseteq Pair
      /\ Grants!GrantsAreWhole
      /\ \A s \in Setter : change[s] # Grants!Idle /\ change[s].loaded # NoGrant =>
           grant[change[s].pair] # NoGrant
      /\ \A s \in Setter : change[s] # Grants!Idle /\ change[s].pair \notin mixed =>
           /\ change[s].loaded = grant[change[s].pair]
           /\ \A q \in Setter : change[q].pair = change[s].pair => q = s
    BY DEF GrantInv, Grants!TypeOK
<1>d. \A s \in Setter : change[s] # Grants!Idle =>
        /\ change[s] \in Grants!Change /\ change[s].pair \in Pair
        /\ change[s].loaded \in (SUBSET Right) \cup {NoGrant}
        /\ change[s].wanted \in SUBSET Right
    BY <1>i DEF Grants!Change
<1>e. \A s \in Setter : change[s].pair \in Pair => change[s] # Grants!Idle
    BY DEF Grants!Idle
<1>1. ASSUME NEW s \in Setter, NEW p \in Pair, NEW wanted \in SUBSET Right,
             Grants!SetPermissions(s, p, wanted)
      PROVE  GrantInv'
    <2> DEFINE c == [pair |-> p, loaded |-> grant[p], wanted |-> wanted]
    <2> USE <1>i, <1>1 DEF Grants!SetPermissions
    <2>1. Grants!TypeOK'
        BY DEF Grants!TypeOK, Grants!Change
    <2>2. Grants!GrantsAreWhole'
        BY DEF Grants!GrantsAreWhole
    <2>3. \A q \in Setter : change'[q] = IF q = s THEN c ELSE change[q]
        OBVIOUS
    <2>4. (\A q \in Setter : change[q] # Grants!Idle /\ change[q].loaded # NoGrant =>
             grant[change[q].pair] # NoGrant)'
        BY <2>3
    <2>5. ASSUME NEW q \in Setter, change'[q] # Grants!Idle, change'[q].pair \notin mixed'
          PROVE  /\ change'[q].loaded = grant'[change'[q].pair]
                 /\ \A u \in Setter : change'[u].pair = change'[q].pair => u = q
        <3>1. CASE q = s
            BY <3>1, <2>3, <2>5
        <3>2. CASE q # s
            BY <3>2, <2>3, <2>5, <1>d
        <3> QED
            BY <3>1, <3>2
    <2> QED
        BY <2>1, <2>2, <2>4, <2>5 DEF GrantInv
<1>2. ASSUME NEW s \in Setter, Grants!Commit(s)
      PROVE  GrantInv'
    <2> DEFINE c == change[s]
    <2> DEFINE new == IF c.loaded = NoGrant THEN c.wanted ELSE Grants!Written(c)
    <2>0. /\ c # Grants!Idle
          /\ c.loaded = NoGrant => grant[c.pair] = NoGrant
          /\ grant' = [grant EXCEPT ![c.pair] = new]
          /\ asked' = [asked EXCEPT ![c.pair] = @ \cup {c.wanted}]
          /\ change' = [change EXCEPT ![s] = Grants!Idle]
          /\ mixed' = mixed
        BY <1>2 DEF Grants!Commit
    <2>a. c \in Grants!Change /\ c.pair \in Pair /\ c.wanted \in SUBSET Right
          /\ c.loaded \in (SUBSET Right) \cup {NoGrant}
        BY <2>0, <1>d
    <2>b. c.loaded # NoGrant => grant[c.pair] \in SUBSET Right
        BY <2>0, <2>a, <1>i
    <2>c. /\ new \in SUBSET Right
          /\ grant[c.pair] # NoGrant => new \subseteq grant[c.pair] \cup c.wanted
          /\ grant[c.pair] = NoGrant => new = c.wanted
          /\ c.pair \notin mixed => new = c.wanted
        <3>1. CASE c.loaded = NoGrant
            BY <3>1, <2>a, <2>0
        <3>2. CASE c.loaded # NoGrant
            <4>1. new = (grant[c.pair] \ (c.loaded \ c.wanted)) \cup (c.wanted \ c.loaded)
                BY <3>2 DEF Grants!Written
            <4>2. c.pair \notin mixed => c.loaded = grant[c.pair]
                BY <1>i, <2>0
            <4>3. grant[c.pair] # NoGrant
                BY <1>i, <2>0, <3>2
            <4> QED
                BY <4>1, <4>2, <4>3, <2>a, <2>b
        <3> QED
            BY <3>1, <3>2
    <2> HIDE DEF new
    <2>1. Grants!TypeOK'
        BY <1>i, <2>0, <2>a, <2>c DEF Grants!TypeOK
    <2>2. Grants!GrantsAreWhole'
        <3> SUFFICES ASSUME NEW p \in Pair, grant'[p] # NoGrant
                     PROVE  /\ grant'[p] \subseteq UNION asked'[p]
                            /\ grant'[p] \in asked'[p] \/ p \in mixed'
            BY DEF Grants!GrantsAreWhole
        <3>1. CASE p # c.pair
            BY <3>1, <1>i, <2>0 DEF Grants!GrantsAreWhole
        <3>2. CASE p = c.pair
            <4>1. grant'[p] = new /\ asked'[p] = asked[p] \cup {c.wanted}
                BY <3>2, <1>i, <2>0
            <4>2. grant[p] # NoGrant => grant[p] \subseteq UNION asked[p]
                BY <1>i DEF Grants!GrantsAreWhole
            <4>3. c.wanted \subseteq UNION asked'[p] /\ UNION asked[p] \subseteq UNION asked'[p]
                BY <4>1
            <4>4. grant'[p] \subseteq UNION asked'[p]
                BY <4>1, <4>2, <4>3, <2>c, <3>2
            <4>5. grant'[p] \in asked'[p] \/ p \in mixed'
                BY <4>1, <2>c, <3>2, <2>0
            <4> QED
                BY <4>4, <4>5
        <3> QED
            BY <3>1, <3>2
    <2>3. \A q \in Setter : change'[q] = IF q = s THEN Grants!Idle ELSE change[q]
        BY <1>i, <2>0
    <2>4. (\A q \in Setter : change[q] # Grants!Idle /\ change[q].loaded # NoGrant =>
             grant[change[q].pair] # NoGrant)'
        BY <2>3, <1>i, <1>d, <2>0, <2>c
    <2>5. ASSUME NEW q \in Setter, change'[q] # Grants!Idle, change'[q].pair \notin mixed'
          PROVE  /\ change'[q].loaded = grant'[change'[q].pair]
                 /\ \A u \in Setter : change'[u].pair = change'[q].pair => u = q
        <3>1. q # s /\ change'[q] = change[q] /\ change[q].pair \notin mixed
            BY <2>3, <2>5, <2>0
        <3>2. change[q] # Grants!Idle /\ change[q].pair \in Pair
            BY <3>1, <2>5, <1>d
        <3>3. change[q].pair # c.pair
            BY <3>1, <3>2, <1>i
        <3>4. \A u \in Setter : change'[u].pair = change[q].pair => change'[u] = change[u]
            BY <2>3, <3>2, <1>e DEF Grants!Idle
        <3>5. /\ change[q].loaded = grant[change[q].pair]
              /\ \A u \in Setter : change[u].pair = change[q].pair => u = q
            BY <3>1, <3>2, <1>i
        <3>6. grant'[change[q].pair] = grant[change[q].pair]
            BY <3>2, <3>3, <2>0, <1>i
        <3> QED
            BY <3>1, <3>4, <3>5, <3>6
    <2> QED
        BY <2>1, <2>2, <2>4, <2>5 DEF GrantInv
<1>3. ASSUME NEW s \in Setter, Grants!Fails(s)
      PROVE  GrantInv'
    <2> USE <1>i, <1>3 DEF Grants!Fails
    <2>1. Grants!TypeOK'
        BY DEF Grants!TypeOK
    <2>2. Grants!GrantsAreWhole'
        BY DEF Grants!GrantsAreWhole
    <2>3. \A q \in Setter : change'[q] = IF q = s THEN Grants!Idle ELSE change[q]
        OBVIOUS
    <2>4. (\A q \in Setter : change[q] # Grants!Idle /\ change[q].loaded # NoGrant =>
             grant[change[q].pair] # NoGrant)'
        BY <2>3
    <2>5. ASSUME NEW q \in Setter, change'[q] # Grants!Idle, change'[q].pair \notin mixed'
          PROVE  /\ change'[q].loaded = grant'[change'[q].pair]
                 /\ \A u \in Setter : change'[u].pair = change'[q].pair => u = q
        <3>1. q # s /\ change'[q] = change[q] /\ change[q].pair \in Pair
            BY <2>3, <2>5, <1>d
        <3>2. \A u \in Setter : change'[u].pair = change[q].pair => change'[u] = change[u]
            BY <2>3, <3>1, <1>e DEF Grants!Idle
        <3> QED
            BY <3>1, <3>2, <2>5
    <2> QED
        BY <2>1, <2>2, <2>4, <2>5 DEF GrantInv
<1> QED
    BY <1>1, <1>2, <1>3 DEF Grants!Next

LEMMA GrantStutter == GrantInv /\ UNCHANGED grantVars => GrantInv'
BY DEF GrantInv, Grants!TypeOK, Grants!GrantsAreWhole

(***************************************************************************)
(* Notifications                                                           *)
(***************************************************************************)

LEMMA NotifyInit == Notify!Init => NotifyInv
<1> SUFFICES ASSUME Notify!Init
             PROVE  NotifyInv
    OBVIOUS
<1> USE ServicesAssumption DEF Notify!Init, Notify!NoTask
<1>1. Notify!TypeOK
    BY DEF Notify!TypeOK
<1> QED
    BY <1>1 DEF NotifyInv, Task

LEMMA NotifyStep == NotifyInv /\ Notify!Next => NotifyInv'
<1> SUFFICES ASSUME NotifyInv, Notify!Next
             PROVE  NotifyInv'
    OBVIOUS
<1>a. MaxAttempts \in Nat \ {0} /\ MaxTrouble \in Nat /\ None \notin Channel
    BY ServicesAssumption
<1>i. /\ enabled \subseteq Rule
      /\ names \in [Rule -> SUBSET Channel]
      /\ channel \in [Channel -> {"on", "off", "mute", "absent"}]
      /\ alert \in [row : {"none", "flushed", "there", "gone"}, rule : Rule \cup {None}]
      /\ told \in [Channel -> Nat] /\ trouble \in 0..MaxTrouble
    BY DEF NotifyInv, Notify!TypeOK, Notify!ChannelState
(* What is said of the task and of those told. *)
<1> DEFINE Sound(t, a, n, g, k) ==
      /\ t \in Task
      /\ t.mute \subseteq t.aim /\ t.todo \subseteq t.aim /\ g \subseteq t.aim
      /\ t.now \in t.todo \cup {None}
      /\ t.failures \in 0..(MaxAttempts - 1)
      /\ a = "none" => t.state = "unsent"
      /\ t.state # "running" => t.todo = {}
      /\ t.state \in {"unsent", "waiting"} => t.aim = {}
      /\ \A c \in t.aim \ t.mute : c \in t.todo \/ n[c] > 0 \/ c \in g
      /\ \A c \in Channel : n[c] <= 1 + k
      /\ \A c \in Channel :
           t.state \in {"unsent", "waiting", "running"} /\ c \notin t.aim \ t.todo => n[c] <= k
<1>s. Sound(task, alert.row, told, given, trouble)
    BY DEF NotifyInv, Notify!TypeOK
<1>f. ASSUME /\ enabled' \subseteq Rule
             /\ names' \in [Rule -> SUBSET Channel]
             /\ channel' \in [Channel -> {"on", "off", "mute", "absent"}]
             /\ alert' \in [row : {"none", "flushed", "there", "gone"}, rule : Rule \cup {None}]
             /\ told' \in [Channel -> Nat] /\ trouble' \in 0..MaxTrouble,
             Sound(task', alert'.row, told', given', trouble')
      PROVE  NotifyInv'
    <2>1. Notify!TypeOK'
        BY <1>f DEF Notify!TypeOK, Notify!ChannelState, Task
    <2> QED
        BY <1>f, <2>1 DEF NotifyInv
<1>1. ASSUME NEW i \in Rule, Notify!EditRule(i)
      PROVE  NotifyInv'
    <2> HIDE DEF Sound
    <2>1. enabled' \subseteq Rule /\ names' \in [Rule -> SUBSET Channel]
        BY <1>i, <1>1 DEF Notify!EditRule
    <2>2. UNCHANGED <<channel, alert, task, told, given, trouble>>
        BY <1>1 DEF Notify!EditRule
    <2> QED
        BY <1>f, <1>i, <1>s, <2>1, <2>2
<1>2. ASSUME NEW c \in Channel, NEW state \in {"on", "off", "mute", "absent"},
             Notify!EditChannel(c, state)
      PROVE  NotifyInv'
    <2> HIDE DEF Sound
    <2>1. channel' \in [Channel -> {"on", "off", "mute", "absent"}]
        BY <1>i, <1>2 DEF Notify!EditChannel
    <2>2. UNCHANGED <<enabled, names, alert, task, told, given, trouble>>
        BY <1>2 DEF Notify!EditChannel
    <2> QED
        BY <1>f, <1>i, <1>s, <2>1, <2>2
<1>3. ASSUME Notify!CreateAlert
      PROVE  NotifyInv'
    <2>0. /\ alert.row = "none"
          /\ alert' \in [row : {"flushed"}, rule : Rule \cup {None}]
          /\ task' = [task EXCEPT !.state = "waiting"]
          /\ UNCHANGED <<enabled, names, channel, told, given, trouble>>
        BY <1>3, <1>i DEF Notify!CreateAlert, Notify!MatchingRule
    <2>1. Sound(task', alert'.row, told', given', trouble')
        BY <1>a, <1>i, <1>s, <2>0 DEF Task
    <2> QED
        BY <1>f, <1>i, <2>0, <2>1
<1>4. ASSUME Notify!AlertEnds
      PROVE  NotifyInv'
    <2>0. /\ alert.row = "flushed"
          /\ alert' \in [row : {"there", "gone"}, rule : Rule \cup {None}]
          /\ UNCHANGED <<enabled, names, channel, task, told, given, trouble>>
        BY <1>4, <1>i DEF Notify!AlertEnds
    <2>1. Sound(task', alert'.row, told', given', trouble')
        BY <1>s, <2>0
    <2> QED
        BY <1>f, <1>i, <2>0, <2>1
<1>5. ASSUME Notify!StartMissed
      PROVE  NotifyInv'
    <2>0. /\ task.state = "waiting" /\ task' = [task EXCEPT !.state = "missed"]
          /\ UNCHANGED <<enabled, names, channel, alert, told, given, trouble>>
        BY <1>5 DEF Notify!StartMissed
    <2>1. Sound(task', alert'.row, told', given', trouble')
        BY <1>s, <2>0 DEF Task
    <2> QED
        BY <1>f, <1>i, <2>0, <2>1
<1>6. ASSUME Notify!Start
      PROVE  NotifyInv'
    <2> DEFINE aim == {c \in Notify!Named : channel[c] \in {"on", "mute"}}
    <2>0. /\ task.state = "waiting" /\ alert.row = "there"
          /\ task' = [state |-> "running", aim |-> aim, todo |-> aim, now |-> None,
                      failures |-> 0, mute |-> {c \in aim : channel[c] = "mute"}]
          /\ given' = {}
          /\ UNCHANGED <<enabled, names, channel, alert, told, trouble>>
        BY <1>6 DEF Notify!Start
    <2>1. Notify!Named \subseteq Channel
        BY <1>i DEF Notify!Named
    <2>2. aim \subseteq Channel /\ {c \in aim : channel[c] = "mute"} \subseteq aim
        BY <2>1
    <2>3. \A c \in Channel : told[c] <= trouble
        BY <1>s, <2>0
    <2> HIDE DEF aim
    <2>4. task' \in Task
        BY <2>0, <2>2 DEF Task
    <2>5. Sound(task', alert'.row, told', given', trouble')
        BY <1>a, <1>i, <2>0, <2>2, <2>3, <2>4, <1>s
    <2> QED
        BY <1>f, <1>i, <2>0, <2>5
<1>7. ASSUME NEW c \in Channel, Notify!NextChannel(c)
      PROVE  NotifyInv'
    <2>0. /\ task.state = "running" /\ c \in task.todo
          /\ task' = [task EXCEPT !.now = c, !.failures = 0]
          /\ UNCHANGED <<enabled, names, channel, alert, told, given, trouble>>
        BY <1>7 DEF Notify!NextChannel
    <2>a. /\ task' \in Task /\ task'.todo = task.todo /\ task'.now = c
          /\ task'.aim = task.aim /\ task'.mute = task.mute /\ task'.state = task.state
          /\ task'.failures = 0
        BY <1>s, <2>0 DEF Task
    <2>1. Sound(task', alert'.row, told', given', trouble')
        BY <1>a, <1>s, <2>0, <2>a
    <2> QED
        BY <1>f, <1>i, <2>0, <2>1
<1>r. ASSUME NEW c \in Channel, task.now = c
      PROVE  task.state = "running" /\ c \in task.todo /\ c \in task.aim /\ alert.row # "none"
             /\ told[c] <= trouble
    BY <1>a, <1>r, <1>s
<1>8. ASSUME NEW c \in Channel, Notify!Sent(c)
      PROVE  NotifyInv'
    <2>0. /\ task.now = c
          /\ told' = [told EXCEPT ![c] = @ + 1]
          /\ task' = [task EXCEPT !.now = None, !.todo = @ \ {c}]
          /\ UNCHANGED <<enabled, names, channel, alert, given, trouble>>
        BY <1>8 DEF Notify!Sent, Notify!Done
    <2>1. \A d \in Channel : told'[d] = IF d = c THEN told[d] + 1 ELSE told[d]
        BY <1>i, <2>0
    <2>2. told' \in [Channel -> Nat]
        BY <1>i, <2>0
    <2>3. /\ task' \in Task /\ task'.todo = task.todo \ {c} /\ task'.now = None
          /\ task'.aim = task.aim /\ task'.mute = task.mute /\ task'.state = task.state
          /\ task'.failures = task.failures
        BY <1>s, <2>0 DEF Task
    <2>4. Sound(task', alert'.row, told', given', trouble')
        BY <1>i, <1>r, <1>s, <2>0, <2>1, <2>3
    <2> QED
        BY <1>f, <1>i, <2>0, <2>2, <2>4
<1>9. ASSUME NEW c \in Channel, Notify!NothingToSend(c)
      PROVE  NotifyInv'
    <2>0. /\ task.now = c /\ c \in task.mute
          /\ task' = [task EXCEPT !.now = None, !.todo = @ \ {c}]
          /\ UNCHANGED <<enabled, names, channel, alert, told, given, trouble>>
        BY <1>9 DEF Notify!NothingToSend, Notify!Done
    <2>1. /\ task' \in Task /\ task'.todo = task.todo \ {c} /\ task'.now = None
          /\ task'.aim = task.aim /\ task'.mute = task.mute /\ task'.state = task.state
          /\ task'.failures = task.failures
        BY <1>s, <2>0 DEF Task
    <2>2. Sound(task', alert'.row, told', given', trouble')
        BY <1>i, <1>r, <1>s, <2>0, <2>1
    <2> QED
        BY <1>f, <1>i, <2>0, <2>2
<1>10. ASSUME NEW c \in Channel, Notify!AttemptFails(c)
       PROVE  NotifyInv'
    <2>0. /\ task.now = c /\ c \notin task.mute
          /\ \/ told' = told /\ trouble' = trouble
             \/ /\ trouble < MaxTrouble /\ trouble' = trouble + 1
                /\ told' = [told EXCEPT ![c] = @ + 1]
          /\ task' = Notify!Failed(c)
          /\ given' = IF Notify!LastAttempt THEN given \cup {c} ELSE given
          /\ UNCHANGED <<enabled, names, channel, alert>>
        BY <1>10 DEF Notify!AttemptFails, Notify!Trouble
    <2>1. /\ told' \in [Channel -> Nat] /\ trouble' \in 0..MaxTrouble
          /\ \A d \in Channel :
               /\ told[d] > 0 => told'[d] > 0
               /\ told[d] <= trouble => told'[d] <= trouble'
               /\ told[d] <= 1 + trouble => told'[d] <= 1 + trouble'
        BY <1>a, <1>i, <2>0
    <2>2. CASE Notify!LastAttempt
        <3>1. /\ task' = [task EXCEPT !.now = None, !.todo = @ \ {c}]
              /\ given' = given \cup {c}
            BY <2>0, <2>2 DEF Notify!Failed, Notify!Done
        <3>2. /\ task' \in Task /\ task'.todo = task.todo \ {c} /\ task'.now = None
              /\ task'.aim = task.aim /\ task'.mute = task.mute /\ task'.state = task.state
              /\ task'.failures = task.failures
            BY <1>s, <3>1 DEF Task
        <3>a. alert'.row # "none" /\ None \in task'.todo \cup {None}
              /\ given' \subseteq task'.aim /\ task'.todo \subseteq task'.aim
            BY <1>r, <1>s, <2>0, <3>1, <3>2
        <3>b. \A d \in task'.aim \ task'.mute : d \in task'.todo \/ told'[d] > 0 \/ d \in given'
            BY <1>s, <2>1, <3>1, <3>2 DEF Task
        <3>c. \A d \in Channel : told'[d] <= 1 + trouble'
            BY <1>s, <2>1
        <3>d. \A d \in Channel : d \notin task'.aim \ task'.todo => told'[d] <= trouble'
            BY <1>r, <1>s, <2>0, <2>1, <3>2
        <3>3. Sound(task', alert'.row, told', given', trouble')
            BY <1>r, <1>s, <2>0, <3>2, <3>a, <3>b, <3>c, <3>d
        <3> QED
            BY <1>f, <1>i, <2>0, <2>1, <3>3
    <2>3. CASE ~Notify!LastAttempt
        <3>1. /\ task' = [task EXCEPT !.failures = @ + 1]
              /\ given' = given
            BY <2>0, <2>3 DEF Notify!Failed
        <3>2. task.failures + 1 \in 0..(MaxAttempts - 1)
            BY <1>a, <1>s, <2>3 DEF Notify!LastAttempt
        <3>3. /\ task' \in Task /\ task'.todo = task.todo /\ task'.now = task.now
              /\ task'.aim = task.aim /\ task'.mute = task.mute /\ task'.state = task.state
              /\ task'.failures = task.failures + 1
            BY <1>s, <3>1 DEF Task
        <3>a. \A d \in task'.aim \ task'.mute : d \in task'.todo \/ told'[d] > 0 \/ d \in given'
            BY <1>s, <2>1, <3>1, <3>3 DEF Task
        <3>b. \A d \in Channel : told'[d] <= 1 + trouble'
            BY <1>s, <2>1
        <3>c. \A d \in Channel : d \notin task'.aim \ task'.todo => told'[d] <= trouble'
            BY <1>r, <1>s, <2>0, <2>1, <3>3
        <3>4. Sound(task', alert'.row, told', given', trouble')
            BY <1>r, <1>s, <2>0, <3>1, <3>2, <3>3, <3>a, <3>b, <3>c
        <3> QED
            BY <1>f, <1>i, <2>0, <2>1, <3>4
    <2> QED
        BY <2>2, <2>3
<1>11. ASSUME Notify!Finish
       PROVE  NotifyInv'
    <2>0. /\ task.state = "running" /\ task.todo = {}
          /\ task' = [task EXCEPT !.state = "done"]
          /\ UNCHANGED <<enabled, names, channel, alert, told, given, trouble>>
        BY <1>11 DEF Notify!Finish
    <2>1. Sound(task', alert'.row, told', given', trouble')
        BY <1>s, <2>0 DEF Task
    <2> QED
        BY <1>f, <1>i, <2>0, <2>1
<1>12. ASSUME Notify!WorkerLost
       PROVE  NotifyInv'
    <2>0. /\ task.state = "running"
          /\ trouble < MaxTrouble /\ trouble' = trouble + 1
          /\ \E s \in {"lost", "waiting"} :
               task' = [state |-> s, aim |-> {}, mute |-> {}, todo |-> {}, now |-> None,
                        failures |-> 0]
          /\ given' = {}
          /\ UNCHANGED <<enabled, names, channel, alert, told>>
        BY <1>12 DEF Notify!WorkerLost, Notify!Trouble, Notify!NoTask
    <2>1. /\ task' \in Task /\ task'.todo = {} /\ task'.now = None
          /\ task'.aim = {} /\ task'.mute = {} /\ task'.failures = 0
        BY <2>0 DEF Task
    <2>2. trouble' \in 0..MaxTrouble
        BY <1>a, <1>i, <2>0
    <2>3. \A c \in Channel : told'[c] <= trouble'
        BY <1>i, <1>s, <2>0
    <2>4. Sound(task', alert'.row, told', given', trouble')
        BY <1>a, <1>i, <1>s, <2>0, <2>1, <2>2, <2>3
    <2> QED
        BY <1>f, <1>i, <2>0, <2>2, <2>4
<1> HIDE DEF Sound
<1> QED
    BY <1>1, <1>2, <1>3, <1>4, <1>5, <1>6, <1>7, <1>8, <1>9, <1>10, <1>11, <1>12
       DEF Notify!Next, Notify!CreateChannel, Notify!UpdateChannel, Notify!DeleteChannel,
           Notify!ChannelState

LEMMA NotifyStutter == NotifyInv /\ UNCHANGED notifyVars => NotifyInv'
BY DEF NotifyInv, Notify!TypeOK

LEMMA NotifyHolds == NotifyInv => Notify!ChannelsAreTold
BY DEF NotifyInv, Notify!TypeOK, Notify!ChannelsAreTold

(***************************************************************************)
(* The alert desk                                                          *)
(***************************************************************************)

LEMMA AlertInit == Alerts!Init => AlertInv
<1> SUFFICES ASSUME Alerts!Init
             PROVE  AlertInv
    OBVIOUS
<1> USE DEF Alerts!Init, Alerts!Closed
<1>1. Alerts!TypeOK
    BY DEF Alerts!TypeOK, Alerts!Alert
<1>2. \A d \in Desk : session[d].step = "closed"
    OBVIOUS
<1>3. Alerts!DeskIsSound
    BY DEF Alerts!DeskIsSound, Alerts!NothingUntold, Alerts!AcknowledgedByOne
<1> QED
    BY <1>1, <1>2, <1>3 DEF AlertInv, Alerts!Acknowledging

LEMMA AlertStep == AlertInv /\ Alerts!Next => AlertInv'
<1> SUFFICES ASSUME AlertInv, Alerts!Next
             PROVE  AlertInv'
    OBVIOUS
<1>i. /\ row \in Alerts!Alert
      /\ session \in [Desk -> {Alerts!Closed} \cup Alerts!Open]
      /\ trail \in SUBSET Alerts!What /\ changes \in SUBSET Alerts!What
      /\ crossed \in BOOLEAN
      /\ changes \subseteq trail
      /\ row.by = row.at \/ crossed
      /\ \A d \in Desk : session[d].step = "flushing" => session[d].entry
      /\ \A d \in Desk : session[d].step = "committing" => ~Alerts!Dirty(session[d])
      /\ ~crossed =>
           /\ \A d, e \in Desk : Alerts!Acknowledging(d) /\ Alerts!Acknowledging(e) => d = e
           /\ \A d \in Desk : Alerts!Acknowledging(d) =>
                (session[d].same <=> row.by = session[d].op)
    BY DEF AlertInv, Alerts!TypeOK, Alerts!DeskIsSound, Alerts!NothingUntold,
           Alerts!AcknowledgedByOne
<1>d. \A d \in Desk : session[d].step # "closed" =>
        /\ session[d] \in Alerts!Open /\ session[d].what \in Alerts!What
        /\ session[d].op \in Operator
        /\ session[d].same \in BOOLEAN /\ session[d].entry \in BOOLEAN
    BY <1>i DEF Alerts!Open, Alerts!Closed
<1>e. \A d \in Desk : session[d].step # "closed" <=> session[d] # Alerts!Closed
    BY <1>i DEF Alerts!Open, Alerts!Closed
<1>1. ASSUME NEW d \in Desk, NEW op \in Operator, NEW what \in Alerts!What,
             Alerts!LoadAlert(d, op, what)
      PROVE  AlertInv'
    <2> DEFINE q == [step |-> "loaded", what |-> what, op |-> op,
                     same |-> Alerts!Same(op, what), entry |-> FALSE]
    <2>0. /\ session[d] = Alerts!Closed
          /\ session' = [session EXCEPT ![d] = q]
          /\ crossed' = (crossed \/ (what = "acknowledge" /\
                                     \E e \in Desk : Alerts!Acknowledging(e)))
          /\ row' = row /\ trail' = trail /\ changes' = changes
        BY <1>1 DEF Alerts!LoadAlert
    <2>a. Alerts!Same(op, what) \in BOOLEAN
        BY <1>i DEF Alerts!Same, Alerts!Alert
    <2>b. q \in Alerts!Open
        BY <2>a DEF Alerts!Open
    <2>c. what = "acknowledge" => (Alerts!Same(op, what) <=> row.by = op)
        BY DEF Alerts!Same
    <2>d. \A e \in Desk : session'[e] = IF e = d THEN q ELSE session[e]
        BY <1>i, <2>0
    <2>1. Alerts!TypeOK'
        BY <1>i, <2>0, <2>b DEF Alerts!TypeOK
    <2>2. Alerts!DeskIsSound'
        BY <1>i, <2>0 DEF Alerts!DeskIsSound, Alerts!NothingUntold, Alerts!AcknowledgedByOne
    <2>3. \A e \in Desk : session'[e].step \in {"flushing", "committing"} =>
            session'[e] = session[e]
        BY <2>d
    <2>4. (\A e \in Desk : session[e].step = "flushing" => session[e].entry)'
        BY <2>3, <1>i
    <2>5. (\A e \in Desk : session[e].step = "committing" => ~Alerts!Dirty(session[e]))'
        BY <2>3, <1>i DEF Alerts!Dirty
    <2>6. \A e \in Desk : e # d => (Alerts!Acknowledging(e)' <=> Alerts!Acknowledging(e))
        BY <2>d DEF Alerts!Acknowledging
    <2>7. Alerts!Acknowledging(d)' <=> what = "acknowledge"
        BY <2>d DEF Alerts!Acknowledging
    <2>8. ASSUME ~crossed'
          PROVE  /\ \A e, f \in Desk :
                      Alerts!Acknowledging(e)' /\ Alerts!Acknowledging(f)' => e = f
                 /\ \A e \in Desk : Alerts!Acknowledging(e)' =>
                      (session'[e].same <=> row'.by = session'[e].op)
        <3>1. ~crossed /\ (what = "acknowledge" => \A e \in Desk : ~Alerts!Acknowledging(e))
            BY <2>0, <2>8
        <3>2. \A e, f \in Desk : Alerts!Acknowledging(e)' /\ Alerts!Acknowledging(f)' => e = f
            BY <3>1, <2>6, <2>7, <1>i
        <3>3. \A e \in Desk : e # d /\ Alerts!Acknowledging(e)' =>
                (session'[e].same <=> row'.by = session'[e].op)
            BY <3>1, <2>6, <2>d, <2>0, <1>i
        <3>4. Alerts!Acknowledging(d)' => (session'[d].same <=> row'.by = session'[d].op)
            BY <2>7, <2>c, <2>d, <2>0
        <3> QED
            BY <3>2, <3>3, <3>4
    <2> QED
        BY <2>1, <2>2, <2>4, <2>5, <2>8 DEF AlertInv
<1>2. ASSUME NEW d \in Desk, Alerts!Log(d) \/ Alerts!WriteLog(d) \/ Alerts!RollBack(d)
      PROVE  AlertInv'
    <2>0. /\ session[d].step # "closed"
          /\ row' = row /\ trail' = trail /\ changes' = changes /\ crossed' = crossed
        BY <1>2, <1>e DEF Alerts!Log, Alerts!WriteLog, Alerts!RollBack
    <2>a. session'[d].step # "closed" =>
            /\ session'[d].what = session[d].what /\ session'[d].op = session[d].op
            /\ session'[d].same = session[d].same
            /\ session'[d].step = "flushing" => session'[d].entry
            /\ session'[d].step = "committing" => ~Alerts!Dirty(session[d])
        <3> USE <1>i, <1>d, <2>0 DEF Alerts!Open
        <3>1. CASE Alerts!Log(d)
            BY <3>1 DEF Alerts!Log
        <3>2. CASE Alerts!WriteLog(d)
            BY <3>2 DEF Alerts!WriteLog
        <3>3. CASE Alerts!RollBack(d)
            BY <3>3 DEF Alerts!RollBack, Alerts!Closed
        <3> QED
            BY <1>2, <3>1, <3>2, <3>3
    <2>b. /\ session' \in [Desk -> {Alerts!Closed} \cup Alerts!Open]
          /\ \A e \in Desk : e # d => session'[e] = session[e]
        <3> USE <1>i, <1>d, <2>0 DEF Alerts!Open
        <3>1. CASE Alerts!Log(d)
            BY <3>1 DEF Alerts!Log
        <3>2. CASE Alerts!WriteLog(d)
            <4>1. session[d] \in Alerts!Open /\ Alerts!Dirty(session[d]) \in BOOLEAN
                BY DEF Alerts!Dirty
            <4> HIDE DEF Alerts!Dirty
            <4> DEFINE new(b) == [session[d] EXCEPT !.step = IF b THEN "flushing" ELSE "committing",
                                                    !.entry = b]
            <4>2. \A b \in BOOLEAN : new(b) \in Alerts!Open
                BY <4>1
            <4>3. session' = [session EXCEPT ![d] = new(Alerts!Dirty(session[d]))]
                BY <3>2 DEF Alerts!WriteLog
            <4>4. PICK q : q \in Alerts!Open /\ session' = [session EXCEPT ![d] = q]
                BY <4>1, <4>2, <4>3
            <4> QED
                BY <1>i, <4>4
        <3>3. CASE Alerts!RollBack(d)
            BY <3>3 DEF Alerts!RollBack
        <3> QED
            BY <1>2, <3>1, <3>2, <3>3
    <2>1. Alerts!TypeOK'
        BY <1>i, <2>0, <2>b DEF Alerts!TypeOK
    <2>2. Alerts!DeskIsSound'
        BY <1>i, <2>0 DEF Alerts!DeskIsSound, Alerts!NothingUntold, Alerts!AcknowledgedByOne
    <2>3. (\A e \in Desk : session[e].step = "flushing" => session[e].entry)'
        BY <1>i, <2>a, <2>b
    <2>4. (\A e \in Desk : session[e].step = "committing" => ~Alerts!Dirty(session[e]))'
        BY <1>i, <2>a, <2>b DEF Alerts!Dirty
    <2>5. \A e \in Desk : Alerts!Acknowledging(e)' =>
            /\ Alerts!Acknowledging(e)
            /\ session'[e].same = session[e].same /\ session'[e].op = session[e].op
        BY <2>0, <2>a, <2>b DEF Alerts!Acknowledging
    <2>6. ASSUME ~crossed'
          PROVE  /\ \A e, f \in Desk :
                      Alerts!Acknowledging(e)' /\ Alerts!Acknowledging(f)' => e = f
                 /\ \A e \in Desk : Alerts!Acknowledging(e)' =>
                      (session'[e].same <=> row'.by = session'[e].op)
        BY <1>i, <2>0, <2>5, <2>6
    <2> QED
        BY <2>1, <2>2, <2>3, <2>4, <2>6 DEF AlertInv
<1>3. ASSUME NEW d \in Desk, Alerts!Commit(d)
      PROVE  AlertInv'
    <2> DEFINE q == session[d]
    <2>0. /\ q.step \in {"flushing", "committing"}
          /\ row' = Alerts!Assigned(q)
          /\ trail' = IF q.entry THEN trail \cup {q.what} ELSE trail
          /\ changes' = IF row' # row THEN changes \cup {q.what} ELSE changes
          /\ session' = [session EXCEPT ![d] = Alerts!Closed]
          /\ crossed' = crossed
        BY <1>3 DEF Alerts!Commit
    <2>a. /\ q \in Alerts!Open /\ q.what \in Alerts!What /\ q.op \in Operator
          /\ q.same \in BOOLEAN /\ q.entry \in BOOLEAN
        BY <1>d, <2>0
    <2>b. row' \in Alerts!Alert
        BY <1>i, <2>0, <2>a DEF Alerts!Assigned, Alerts!Alert
    <2>c. q.step = "committing" => row' = row
        BY <1>i, <2>0 DEF Alerts!Assigned, Alerts!Dirty
    <2>d. changes' \subseteq trail'
        BY <1>i, <2>0, <2>c
    <2>e. IF q.what = "acknowledge"
          THEN row'.at = q.op /\ row'.by = (IF q.same THEN row.by ELSE q.op)
          ELSE row'.at = row.at /\ row'.by = row.by
        BY <1>i, <2>0 DEF Alerts!Assigned, Alerts!Alert
    <2>f. q.what = "acknowledge" <=> Alerts!Acknowledging(d)
        BY <2>0 DEF Alerts!Acknowledging
    <2>g. row'.by = row'.at \/ crossed'
        BY <1>i, <2>0, <2>e, <2>f
    <2>h. \A e \in Desk : session'[e] = IF e = d THEN Alerts!Closed ELSE session[e]
        BY <1>i, <2>0
    <2>1. Alerts!TypeOK'
        BY <1>i, <2>0, <2>a, <2>b DEF Alerts!TypeOK
    <2>2. Alerts!DeskIsSound'
        BY <2>d, <2>g DEF Alerts!DeskIsSound, Alerts!NothingUntold, Alerts!AcknowledgedByOne
    <2>3. \A e \in Desk : session'[e].step # "closed" => e # d /\ session'[e] = session[e]
        BY <2>h DEF Alerts!Closed
    <2>4. (\A e \in Desk : session[e].step = "flushing" => session[e].entry)'
        BY <1>i, <2>3
    <2>5. (\A e \in Desk : session[e].step = "committing" => ~Alerts!Dirty(session[e]))'
        BY <1>i, <2>3 DEF Alerts!Dirty
    <2>6. \A e \in Desk : Alerts!Acknowledging(e)' =>
            e # d /\ session'[e] = session[e] /\ Alerts!Acknowledging(e)
        BY <2>3 DEF Alerts!Acknowledging
    <2>7. ASSUME ~crossed'
          PROVE  /\ \A e, f \in Desk :
                      Alerts!Acknowledging(e)' /\ Alerts!Acknowledging(f)' => e = f
                 /\ \A e \in Desk : Alerts!Acknowledging(e)' =>
                      (session'[e].same <=> row'.by = session'[e].op)
        <3>1. \A e, f \in Desk : Alerts!Acknowledging(e)' /\ Alerts!Acknowledging(f)' => e = f
            BY <1>i, <2>0, <2>6, <2>7
        <3>2. ASSUME NEW e \in Desk, Alerts!Acknowledging(e)'
              PROVE  session'[e].same <=> row'.by = session'[e].op
            <4>1. ~Alerts!Acknowledging(d)
                BY <1>i, <2>0, <2>6, <2>7, <3>2
            <4>2. row'.by = row.by
                BY <4>1, <2>e, <2>f
            <4> QED
                BY <1>i, <2>0, <2>6, <2>7, <3>2, <4>2
        <3> QED
            BY <3>1, <3>2
    <2> QED
        BY <2>1, <2>2, <2>4, <2>5, <2>7 DEF AlertInv
<1> QED
    BY <1>1, <1>2, <1>3 DEF Alerts!Next

LEMMA AlertStutter == AlertInv /\ UNCHANGED alertVars => AlertInv'
BY DEF AlertInv, Alerts!TypeOK, Alerts!DeskIsSound, Alerts!NothingUntold,
       Alerts!AcknowledgedByOne, Alerts!Dirty, Alerts!Acknowledging

(***************************************************************************)
(* The WebSocket hub                                                       *)
(***************************************************************************)

LEMMA HubCardinality == \A S : Hub!Cardinality(S) = Cardinality(S)
BY DEF Hub!Cardinality, Cardinality

LEMMA SocketSubset ==
  ASSUME NEW S \in SUBSET Socket
  PROVE  IsFiniteSet(S) /\ Cardinality(S) \in Nat /\ Cardinality(S) <= Cardinality(Socket)
BY ServicesAssumption, FS_Subset, FS_CardinalityType

Phase == {"free", "checked", "entering", "running"}

(* The sockets whose phase is p, as Hub!In(p) is for the variable phase. *)
At(f, p) == {s \in Socket : f[s] = p}

LEMMA AtFinite ==
  ASSUME NEW f, NEW p
  PROVE  /\ IsFiniteSet(At(f, p)) /\ Cardinality(At(f, p)) \in Nat
         /\ Cardinality(At(f, p)) <= Cardinality(Socket)
<1>1. At(f, p) \in SUBSET Socket
    BY DEF At
<1> QED
    BY <1>1, SocketSubset

(* The endpoint of s goes from phase p to phase q. *)
Goes(s, p, q) == phase[s] = p /\ phase' = [phase EXCEPT ![s] = q]

LEMMA Gone ==
  ASSUME NEW s \in Socket, NEW p \in Phase, NEW q \in Phase \ {p},
         phase \in [Socket -> Phase], Goes(s, p, q)
  PROVE  /\ phase' \in [Socket -> Phase]
         /\ At(phase', p) = At(phase, p) \ {s}
         /\ At(phase', q) = At(phase, q) \cup {s}
         /\ \A o \in Phase \ {p, q} : At(phase', o) = At(phase, o)
         /\ Cardinality(At(phase', p)) = Cardinality(At(phase, p)) - 1
         /\ Cardinality(At(phase', q)) = Cardinality(At(phase, q)) + 1
<1>1. /\ At(phase', p) = At(phase, p) \ {s}
      /\ At(phase', q) = At(phase, q) \cup {s}
      /\ \A o \in Phase \ {p, q} : At(phase', o) = At(phase, o)
      /\ s \in At(phase, p) /\ s \notin At(phase, q)
    BY DEF At, Goes
<1>2. Cardinality(At(phase, p) \ {s}) = Cardinality(At(phase, p)) - 1
    BY <1>1, AtFinite, FS_RemoveElement
<1>3. Cardinality(At(phase, q) \cup {s}) = Cardinality(At(phase, q)) + 1
    BY <1>1, AtFinite, FS_AddElement
<1>4. phase' \in [Socket -> Phase]
    BY DEF Goes
<1> QED
    BY <1>1, <1>2, <1>3, <1>4

LEMMA HubInit == Hub!Init => HubInv
<1> SUFFICES ASSUME Hub!Init
             PROVE  HubInv
    OBVIOUS
<1> USE DEF Hub!Init, Hub!Quiet
<1>1. Cardinality(Socket) \in Nat /\ Cardinality({}) = 0
    BY SocketSubset, FS_EmptySet
<1>2. Hub!In("running") = {} /\ Hub!In("checked") = {}
    BY DEF Hub!In
<1>3. Hub!TypeOK
    BY <1>1, HubCardinality DEF Hub!TypeOK
<1>4. Hub!EndpointsAreCounted
    BY <1>1, <1>2, HubCardinality DEF Hub!EndpointsAreCounted
<1>5. Cardinality(maps) + Cardinality(Hub!In("checked")) <= MaxConnections - 1 + MaxHandshakes
    <2>1. Cardinality(maps) = 0 /\ Cardinality(Hub!In("checked")) = 0
        BY <1>1, <1>2
    <2> QED
        BY <2>1, ServicesAssumption
<1>6. stayed \subseteq got \cup cast.todo /\ stayed \cap lost = {}
    OBVIOUS
<1> QED
    BY <1>3, <1>4, <1>5, <1>6 DEF HubInv

LEMMA HubStep == HubInv /\ Hub!Next => HubInv'
<1> SUFFICES ASSUME HubInv, Hub!Next
             PROVE  HubInv'
    OBVIOUS
<1> DEFINE bound == MaxConnections - 1 + MaxHandshakes
<1>i. /\ phase \in [Socket -> Phase]
      /\ maps \subseteq Socket /\ lost \subseteq Socket
      /\ stayed \subseteq Socket /\ got \subseteq Socket
      /\ cast \in [to : {"nobody", "all", "user"}, todo : SUBSET Socket, dead : SUBSET Socket]
      /\ maps \subseteq At(phase, "entering") \cup At(phase, "running")
      /\ count = Cardinality(At(phase, "running"))
      /\ Cardinality(maps) + Cardinality(At(phase, "checked")) <= bound
      /\ stayed \subseteq got \cup cast.todo
      /\ stayed \cap lost = {}
    BY HubCardinality DEF HubInv, Hub!TypeOK, Hub!EndpointsAreCounted, Hub!In, At, Phase
<1>b. MaxConnections \in Nat \ {0} /\ MaxHandshakes \in Nat \ {0} /\ bound \in Nat
    BY ServicesAssumption
<1>c. \A p : Cardinality(At(phase, p)) \in Nat
    BY AtFinite
<1>m. IsFiniteSet(maps) /\ Cardinality(maps) \in Nat
    BY <1>i, SocketSubset
<1>f. ASSUME /\ phase' \in [Socket -> Phase]
             /\ maps' \subseteq Socket /\ lost' \subseteq Socket
             /\ stayed' \subseteq Socket /\ got' \subseteq Socket
             /\ cast' \in [to : {"nobody", "all", "user"}, todo : SUBSET Socket,
                          dead : SUBSET Socket],
             maps' \subseteq At(phase', "entering") \cup At(phase', "running"),
             count' = Cardinality(At(phase', "running")),
             Cardinality(maps') + Cardinality(At(phase', "checked")) <= bound,
             stayed' \subseteq got' \cup cast'.todo,
             stayed' \cap lost' = {}
      PROVE  HubInv'
    <2>1. count' \in 0..Cardinality(Socket)
        <3>1. Cardinality(Socket) \in Nat
            BY ServicesAssumption, FS_CardinalityType
        <3> QED
            BY <1>f, <3>1, AtFinite
    <2>2. Hub!TypeOK'
        BY <1>f, <2>1, HubCardinality DEF Hub!TypeOK, Phase
    <2>3. Hub!EndpointsAreCounted'
        BY <1>f, HubCardinality DEF Hub!EndpointsAreCounted, Hub!In, At
    <2>4. Hub!In("checked")' = At(phase', "checked")
        BY DEF Hub!In, At
    <2> QED
        BY <1>f, <2>2, <2>3, <2>4 DEF HubInv, bound
<1> HIDE DEF bound
<1>1. ASSUME NEW s \in Socket, Hub!Check(s)
      PROVE  HubInv'
    <2>0. /\ phase[s] = "free" /\ Cardinality(At(phase, "checked")) < MaxHandshakes
          /\ phase' = [phase EXCEPT ![s] = IF Cardinality(maps) >= MaxConnections
                                           THEN "entering" ELSE "checked"]
          /\ UNCHANGED <<maps, count, lost, cast, stayed, got>>
        BY <1>1, HubCardinality DEF Hub!Check, Hub!In, At
    <2>t. phase' \in [Socket -> Phase]
        BY <1>i, <2>0 DEF Phase
    <2>1. CASE Cardinality(maps) >= MaxConnections
        <3>1. Goes(s, "free", "entering")
            BY <2>0, <2>1 DEF Goes
        <3>2. /\ At(phase', "entering") = At(phase, "entering") \cup {s}
              /\ At(phase', "checked") = At(phase, "checked")
              /\ At(phase', "running") = At(phase, "running")
            BY <1>i, <3>1, Gone DEF Phase
        <3> QED
            BY <1>f, <1>i, <2>0, <2>t, <3>2
    <2>2. CASE ~(Cardinality(maps) >= MaxConnections)
        <3>1. Goes(s, "free", "checked")
            BY <2>0, <2>2 DEF Goes
        <3>2. /\ Cardinality(At(phase', "checked")) = Cardinality(At(phase, "checked")) + 1
              /\ At(phase', "entering") = At(phase, "entering")
              /\ At(phase', "running") = At(phase, "running")
            BY <1>i, <3>1, Gone DEF Phase
        <3>3. Cardinality(maps) + Cardinality(At(phase', "checked")) <= bound
            BY <1>b, <1>c, <1>m, <2>0, <2>2, <3>2 DEF bound
        <3> QED
            BY <1>f, <1>i, <2>0, <2>t, <3>2, <3>3
    <2> QED
        BY <2>1, <2>2
<1>2. ASSUME NEW s \in Socket, Hub!Accept(s)
      PROVE  HubInv'
    <2>0. /\ phase[s] = "checked" /\ phase' = [phase EXCEPT ![s] = "entering"]
          /\ maps' = maps \cup {s}
          /\ UNCHANGED <<count, lost, cast, stayed, got>>
        BY <1>2 DEF Hub!Accept
    <2>g. Goes(s, "checked", "entering")
        BY <2>0 DEF Goes
    <2>1. /\ At(phase', "entering") = At(phase, "entering") \cup {s}
          /\ At(phase', "running") = At(phase, "running")
          /\ Cardinality(At(phase', "checked")) = Cardinality(At(phase, "checked")) - 1
        BY <1>i, <2>g, Gone DEF Phase
    <2>2. Cardinality(maps') <= Cardinality(maps) + 1 /\ Cardinality(maps') \in Nat
        BY <1>m, <2>0, FS_AddElement
    <2>3. Cardinality(maps') + Cardinality(At(phase', "checked")) <= bound
        BY <1>b, <1>c, <1>i, <1>m, <2>1, <2>2
    <2>4. phase' \in [Socket -> Phase]
        BY <1>i, <2>0 DEF Phase
    <2> QED
        BY <1>f, <1>i, <2>0, <2>1, <2>3, <2>4
<1>3. ASSUME NEW s \in Socket, Hub!AcceptFails(s)
      PROVE  HubInv'
    <2>0. /\ phase[s] = "checked" /\ phase' = [phase EXCEPT ![s] = "free"]
          /\ UNCHANGED <<maps, count, lost, cast, stayed, got>>
        BY <1>3 DEF Hub!AcceptFails
    <2>g. Goes(s, "checked", "free")
        BY <2>0 DEF Goes
    <2>1. /\ At(phase', "entering") = At(phase, "entering")
          /\ At(phase', "running") = At(phase, "running")
          /\ Cardinality(At(phase', "checked")) = Cardinality(At(phase, "checked")) - 1
        BY <1>i, <2>g, Gone DEF Phase
    <2>3. Cardinality(maps') + Cardinality(At(phase', "checked")) <= bound
        BY <1>b, <1>c, <1>i, <1>m, <2>0, <2>1
    <2>4. phase' \in [Socket -> Phase]
        BY <1>i, <2>0 DEF Phase
    <2> QED
        BY <1>f, <1>i, <2>0, <2>1, <2>3, <2>4
<1>4. ASSUME NEW s \in Socket, Hub!Enter(s)
      PROVE  HubInv'
    <2>0. /\ phase[s] = "entering" /\ phase' = [phase EXCEPT ![s] = "running"]
          /\ count' = count + 1
          /\ UNCHANGED <<maps, lost, cast, stayed, got>>
        BY <1>4 DEF Hub!Enter
    <2>g. Goes(s, "entering", "running")
        BY <2>0 DEF Goes
    <2>1. /\ At(phase', "entering") = At(phase, "entering") \ {s}
          /\ At(phase', "running") = At(phase, "running") \cup {s}
          /\ At(phase', "checked") = At(phase, "checked")
          /\ Cardinality(At(phase', "running")) = Cardinality(At(phase, "running")) + 1
        BY <1>i, <2>g, Gone DEF Phase
    <2>4. phase' \in [Socket -> Phase]
        BY <1>i, <2>0 DEF Phase
    <2> QED
        BY <1>f, <1>i, <2>0, <2>1, <2>4
<1>5. ASSUME NEW s \in Socket, Hub!Lose(s)
      PROVE  HubInv'
    <2>0. /\ lost' = lost \cup {s} /\ stayed' = stayed \ {s}
          /\ UNCHANGED <<phase, maps, count, cast, got>>
        BY <1>5 DEF Hub!Lose
    <2>1. phase' = phase
        BY <2>0
    <2> QED
        BY <1>f, <1>i, <2>0, <2>1
<1>6. ASSUME NEW s \in Socket, Hub!Leave(s)
      PROVE  HubInv'
    <2>0. /\ phase[s] = "running" /\ phase' = [phase EXCEPT ![s] = "free"]
          /\ maps' = maps \ {s} /\ lost' = lost \ {s}
          /\ count' = IF count > 0 THEN count - 1 ELSE 0
          /\ cast' = [cast EXCEPT !.todo = @ \ {s}, !.dead = @ \ {s}]
          /\ stayed' = stayed \ {s} /\ got' = got \ {s}
        BY <1>6 DEF Hub!Leave
    <2>g. Goes(s, "running", "free")
        BY <2>0 DEF Goes
    <2>1. /\ At(phase', "entering") = At(phase, "entering")
          /\ At(phase', "running") = At(phase, "running") \ {s}
          /\ At(phase', "checked") = At(phase, "checked")
          /\ Cardinality(At(phase', "running")) = Cardinality(At(phase, "running")) - 1
        BY <1>i, <2>g, Gone DEF Phase
    <2>2. Cardinality(At(phase', "running")) \in Nat
        BY AtFinite
    <2>3. count' = Cardinality(At(phase', "running"))
        BY <1>c, <1>i, <2>0, <2>1, <2>2
    <2>4. Cardinality(maps') <= Cardinality(maps) /\ Cardinality(maps') \in Nat
        <3>1. maps' \in SUBSET maps
            BY <2>0
        <3> QED
            BY <1>m, <3>1, FS_Subset, FS_CardinalityType
    <2>5. Cardinality(maps') + Cardinality(At(phase', "checked")) <= bound
        BY <1>b, <1>c, <1>i, <1>m, <2>1, <2>4
    <2>6. phase' \in [Socket -> Phase]
        BY <1>i, <2>0 DEF Phase
    <2>7. cast' \in [to : {"nobody", "all", "user"}, todo : SUBSET Socket, dead : SUBSET Socket]
          /\ cast'.todo = cast.todo \ {s}
        BY <1>i, <2>0
    <2>8. /\ maps' \subseteq At(phase', "entering") \cup At(phase', "running")
          /\ stayed' \subseteq got' \cup cast'.todo /\ stayed' \cap lost' = {}
          /\ maps' \subseteq Socket /\ lost' \subseteq Socket
          /\ stayed' \subseteq Socket /\ got' \subseteq Socket
        BY <1>i, <2>0, <2>1, <2>7
    <2> QED
        BY <1>f, <2>3, <2>5, <2>6, <2>7, <2>8
<1>7. ASSUME NEW to \in {"all", "user"}, Hub!Start(to)
      PROVE  HubInv'
    <2>0. /\ cast' = [to |-> to, todo |-> maps, dead |-> {}]
          /\ stayed' = maps \ lost /\ got' = {}
          /\ UNCHANGED <<phase, maps, count, lost>>
        BY <1>7 DEF Hub!Start
    <2>1. phase' = phase
        BY <2>0
    <2> QED
        BY <1>f, <1>i, <2>0, <2>1
<1>8. ASSUME NEW s \in Socket, Hub!SendText(s)
      PROVE  HubInv'
    <2>0. /\ s \in cast.todo
          /\ cast' = [cast EXCEPT !.todo = @ \ {s}]
          /\ got' = got \cup {s}
          /\ UNCHANGED <<phase, maps, count, lost, stayed>>
        BY <1>8 DEF Hub!SendText
    <2>1. phase' = phase
        BY <2>0
    <2>2. cast' \in [to : {"nobody", "all", "user"}, todo : SUBSET Socket, dead : SUBSET Socket]
          /\ cast'.todo = cast.todo \ {s}
        BY <1>i, <2>0
    <2> QED
        BY <1>f, <1>i, <2>0, <2>1, <2>2
<1>9. ASSUME NEW s \in Socket, Hub!SendFails(s)
      PROVE  HubInv'
    <2>0. /\ s \in cast.todo \cap lost
          /\ cast' = [cast EXCEPT !.todo = @ \ {s},
                                  !.dead = IF cast.to = "all" THEN @ \cup {s} ELSE @]
          /\ maps' = IF cast.to = "user" THEN maps \ {s} ELSE maps
          /\ UNCHANGED <<phase, count, lost, stayed, got>>
        BY <1>9 DEF Hub!SendFails
    <2>1. phase' = phase
        BY <2>0
    <2>2. cast' \in [to : {"nobody", "all", "user"}, todo : SUBSET Socket, dead : SUBSET Socket]
          /\ cast'.todo = cast.todo \ {s}
        BY <1>i, <2>0
    <2>3. Cardinality(maps') <= Cardinality(maps) /\ Cardinality(maps') \in Nat
        <3>1. maps' \in SUBSET maps
            BY <2>0
        <3> QED
            BY <1>m, <3>1, FS_Subset, FS_CardinalityType
    <2>4. Cardinality(maps') + Cardinality(At(phase', "checked")) <= bound
        BY <1>b, <1>c, <1>i, <1>m, <2>1, <2>3
    <2> QED
        BY <1>f, <1>i, <2>0, <2>1, <2>2, <2>4
<1>10. ASSUME Hub!DropDead
       PROVE  HubInv'
    <2>0. /\ cast.todo = {}
          /\ maps' = maps \ cast.dead
          /\ cast' = Hub!Quiet
          /\ UNCHANGED <<phase, count, lost, stayed, got>>
        BY <1>10 DEF Hub!DropDead
    <2>1. phase' = phase
        BY <2>0
    <2>3. Cardinality(maps') <= Cardinality(maps) /\ Cardinality(maps') \in Nat
        <3>1. maps' \in SUBSET maps
            BY <2>0
        <3> QED
            BY <1>m, <3>1, FS_Subset, FS_CardinalityType
    <2>4. Cardinality(maps') + Cardinality(At(phase', "checked")) <= bound
        BY <1>b, <1>c, <1>i, <1>m, <2>1, <2>3
    <2> QED
        BY <1>f, <1>i, <2>0, <2>1, <2>4 DEF Hub!Quiet
<1> QED
    BY <1>1, <1>2, <1>3, <1>4, <1>5, <1>6, <1>7, <1>8, <1>9, <1>10
       DEF Hub!Next, Hub!Broadcast, Hub!SendToUser

LEMMA HubStutter == HubInv /\ UNCHANGED hubVars => HubInv'
<1> SUFFICES ASSUME HubInv, UNCHANGED hubVars
             PROVE  HubInv'
    OBVIOUS
<1>1. Hub!In("checked")' = Hub!In("checked")
    BY DEF Hub!In
<1>2. Hub!TypeOK' /\ Hub!EndpointsAreCounted'
    BY HubCardinality DEF HubInv, Hub!TypeOK, Hub!EndpointsAreCounted, Hub!In
<1> QED
    BY <1>1, <1>2 DEF HubInv

LEMMA HubHolds == HubInv => Hub!HubIsSound
<1> SUFFICES ASSUME HubInv
             PROVE  Hub!HubIsSound
    OBVIOUS
<1>1. Cardinality(maps) \in Nat /\ Cardinality(Hub!In("checked")) \in Nat
    BY SocketSubset DEF HubInv, Hub!TypeOK, Hub!In
<1>2. Hub!LimitHolds
    BY <1>1, ServicesAssumption, HubCardinality DEF HubInv, Hub!LimitHolds
<1>3. Hub!MessageReachesAll
    BY DEF HubInv, Hub!MessageReachesAll, Hub!Quiet
<1> QED
    BY <1>2, <1>3 DEF HubInv, Hub!HubIsSound

(***************************************************************************)
(* The services side by side                                               *)
(***************************************************************************)

LEMMA InvInit == Init => Inv
BY PlanInit, TargetInit, CameraInit, GrantInit, NotifyInit, AlertInit, HubInit DEF Init, Inv

LEMMA InvStep == Inv /\ [Next]_vars => Inv'
<1> SUFFICES ASSUME Inv, [Next]_vars
             PROVE  Inv'
    OBVIOUS
<1> USE PlanStutter, TargetStutter, CameraStutter, GrantStutter, NotifyStutter, AlertStutter,
        HubStutter DEF Inv
<1>1. CASE /\ Plan!Next
             /\ UNCHANGED <<targetVars, cameraVars, grantVars, notifyVars, alertVars, hubVars>>
    BY <1>1, PlanStep
<1>2. CASE /\ Targets!Next
             /\ UNCHANGED <<planVars, cameraVars, grantVars, notifyVars, alertVars, hubVars>>
    BY <1>2, TargetStep
<1>3. CASE /\ Cameras!Next
             /\ UNCHANGED <<planVars, targetVars, grantVars, notifyVars, alertVars, hubVars>>
    BY <1>3, CameraStep
<1>4. CASE /\ Grants!Next
             /\ UNCHANGED <<planVars, targetVars, cameraVars, notifyVars, alertVars, hubVars>>
    BY <1>4, GrantStep
<1>5. CASE /\ Notify!Next
             /\ UNCHANGED <<planVars, targetVars, cameraVars, grantVars, alertVars, hubVars>>
    BY <1>5, NotifyStep
<1>6. CASE /\ Alerts!Next
             /\ UNCHANGED <<planVars, targetVars, cameraVars, grantVars, notifyVars, hubVars>>
    BY <1>6, AlertStep
<1>7. CASE /\ Hub!Next
             /\ UNCHANGED <<planVars, targetVars, cameraVars, grantVars, notifyVars, alertVars>>
    BY <1>7, HubStep
<1>8. CASE UNCHANGED vars
    BY <1>8 DEF vars
<1> QED
    BY <1>1, <1>2, <1>3, <1>4, <1>5, <1>6, <1>7, <1>8 DEF Next

LEMMA Invariant == Spec => []Inv
BY InvInit, InvStep, PTL DEF Spec

(***************************************************************************)
(* Theorems                                                                *)
(***************************************************************************)

(* Every variable of the seven services keeps its type. *)
THEOREM TypeCorrect == Spec => []TypeOK
<1>1. Inv => TypeOK
    BY DEF Inv, PlanInv, TargetInv, CameraInv, GrantInv, NotifyInv, AlertInv, HubInv, TypeOK
<1> QED
    BY <1>1, Invariant, PTL

(* Rows, image files and placements of floors agree, for any number of     *)
(* buildings, floors, extensions and requests (upload_floor_image,         *)
(* delete_floor, delete_building, create_placement).                       *)
THEOREM PlanSound == Spec => []PlanIsSound
<1>1. Inv => PlanIsSound
    BY PlanHolds DEF Inv, PlanIsSound
<1> QED
    BY <1>1, Invariant, PTL

(* The URL of a camera follows its address, nvr:cameras lists the cameras, *)
(* the rights of a pair are those of one request, one target is active,    *)
(* and the audit log tells of every change of an alert, for any number of  *)
(* requests that overlap (update_camera, _publish_cameras_to_redis,        *)
(* set_permissions, activate_storage_target, delete_storage_target, log).  *)
THEOREM RowsWhole == Spec => []RowsAreWhole
<1>1. Inv => RowsAreWhole
    BY TargetsHold DEF Inv, CameraInv, GrantInv, AlertInv, RowsAreWhole, Cameras!RegistryIsSound
<1> QED
    BY <1>1, Invariant, PTL

(* A task that has run to its end has told every channel it loaded or      *)
(* given it up, and no channel twice without a lost answer or worker, for  *)
(* any number of channels and attempts (send_alert_notifications, _retry). *)
THEOREM ChannelsTold == Spec => []ChannelsAreTold
<1>1. Inv => ChannelsAreTold
    BY NotifyHolds DEF Inv, ChannelsAreTold
<1> QED
    BY <1>1, Invariant, PTL

(* The limit is overrun by those that are checked together less one at     *)
(* most, the counter is the number of endpoints, and a message reaches     *)
(* every connection that stays, for any limit and any number of sockets    *)
(* (connect, websocket_endpoint, broadcast, send_to_user).                 *)
THEOREM ConnectionsKept == Spec => []ConnectionsAreKept
<1>1. Inv => ConnectionsAreKept
    BY HubHolds DEF Inv, ConnectionsAreKept
<1> QED
    BY <1>1, Invariant, PTL

=============================================================================
