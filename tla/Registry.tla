------------------------------- MODULE Registry -------------------------------
(***************************************************************************)
(* The registry of cameras: registration and change of address, which      *)
(* probe the camera over ONVIF before they write, soft deletion, and the   *)
(* list of cameras that the detection service gets when it is restarted.   *)
(*                                                                         *)
(* A probe takes seconds, with the row loaded before it and written after  *)
(* it; the mapper writes the columns whose value is not the one that was   *)
(* loaded.  A stream URL is given here by the address it points to.        *)
(***************************************************************************)
EXTENDS Integers

CONSTANTS
  Device,   \* cameras, by their identifiers, which are not used twice
  Address,  \* addresses of cameras
  Probe,    \* requests that may be under way at a time
  NoUrl

VARIABLES
  cam,      \* the rows of cameras
  probe,    \* the requests under way
  key,      \* nvr:cameras
  feed,     \* the cameras the detection service runs
  current,  \* history: no row changed between the last read for nvr:cameras and its
            \* set, nor since
  blind     \* history: cameras that changed address though no URL was found, or whose
            \* URL was given by hand

vars == <<cam, probe, key, feed, current, blind>>

Url == Address \cup {NoUrl}
CameraRow == [state : {"unborn", "live", "deleted"}, ip : Address \cup {NoUrl}, url : Url]

Idle == [what |-> "none"]
Change == [what : {"register", "move"}, cam : Device, to : Address, loaded : Url]
Restart == [what : {"read", "set"}, list : SUBSET (Device \X Address), fresh : BOOLEAN]

TypeOK ==
  /\ cam \in [Device -> CameraRow]
  /\ probe \in [Probe -> {Idle} \cup Change \cup Restart]
  /\ {key, feed} \subseteq SUBSET (Device \X Address)
  /\ current \in BOOLEAN
  /\ blind \subseteq Device

Init ==
  /\ cam = [c \in Device |-> [state |-> "unborn", ip |-> NoUrl, url |-> NoUrl]]
  /\ probe = [p \in Probe |-> Idle]
  /\ key = {} /\ feed = {}
  /\ current = TRUE
  /\ blind = {}

Live(c) == cam[c].state = "live"

(* A row is written: lists read before are out of date. *)
Write(p, row) ==
  /\ cam' = row
  /\ probe' = [q \in Probe |-> IF q = p THEN Idle
                               ELSE IF probe[q].what = "read"
                               THEN [probe[q] EXCEPT !.fresh = FALSE] ELSE probe[q]]
  /\ current' = FALSE
  /\ UNCHANGED <<key, feed>>

(***************************************************************************)
(* Requests                                                                *)
(***************************************************************************)

Begin(p, request) ==
  /\ probe[p] = Idle
  /\ probe' = [probe EXCEPT ![p] = request]
  /\ UNCHANGED <<cam, key, feed, current, blind>>

RegisterCamera(p, c, a) ==
  /\ cam[c].state = "unborn"
  /\ \A q \in Probe : probe[q].what = "register" => probe[q].cam # c
  /\ Begin(p, [what |-> "register", cam |-> c, to |-> a, loaded |-> NoUrl])

(* A PATCH with the address the row has does not probe. *)
UpdateCamera(p, c, a) ==
  /\ Live(c) /\ cam[c].ip # a
  /\ Begin(p, [what |-> "move", cam |-> c, to |-> a, loaded |-> cam[c].url])

(* What a probe that succeeds finds: the stream of the camera at that      *)
(* address, or none when the camera names no profile or no URI.            *)
Probed(a) == {a, NoUrl}

Registered(p) ==
  /\ probe[p].what = "register"
  /\ \E url \in Probed(probe[p].to) :
       Write(p, [cam EXCEPT ![probe[p].cam] =
                   [state |-> "live", ip |-> probe[p].to, url |-> url]])
  /\ UNCHANGED blind

UpdatedLoaded(p) ==
  LET u == probe[p]
  IN  /\ u.what = "move"
      /\ Write(p, [cam EXCEPT ![u.cam].ip = u.to, ![u.cam].url = u.loaded])
      /\ UNCHANGED blind

(* The URL is kept if none is found, and not written if it is the one that *)
(* was loaded.  The row may have been deleted by now.                      *)
Updated(p) ==
  LET u == probe[p]
  IN  /\ u.what = "move"
      /\ \E url \in Probed(u.to) :
           LET new == IF url = NoUrl THEN u.loaded ELSE url
           IN  /\ Write(p, [cam EXCEPT ![u.cam].ip = u.to,
                                       ![u.cam].url = IF new = u.loaded THEN @ ELSE new])
               /\ blind' = IF url = NoUrl THEN blind \cup {u.cam} ELSE blind

(* A PATCH may also give the URL itself. *)
UpdateUrl(p, c, a) ==
  /\ probe[p] = Idle /\ Live(c) /\ cam[c].url # a
  /\ Write(p, [cam EXCEPT ![c].url = a])
  /\ blind' = blind \cup {c}

(* The camera is unreachable, or the request fails. *)
RequestFails(p) ==
  /\ probe[p] # Idle
  /\ probe' = [probe EXCEPT ![p] = Idle]
  /\ UNCHANGED <<cam, key, feed, current, blind>>

DeleteCamera(p, c) ==
  /\ probe[p] = Idle /\ Live(c)
  /\ Write(p, [cam EXCEPT ![c].state = "deleted"])
  /\ UNCHANGED blind

(***************************************************************************)
(* Restart of the detection service                                        *)
(***************************************************************************)

(* The cameras that are not deleted and have a URL. *)
Listed == {l \in Device \X Address : Live(l[1]) /\ cam[l[1]].url = l[2]}

PublishRead(p) ==
  Begin(p, [what |-> "read", list |-> Listed, fresh |-> TRUE])

PublishSet(p) ==
  /\ probe[p].what = "read"
  /\ key' = probe[p].list
  /\ current' = probe[p].fresh
  /\ probe' = [probe EXCEPT ![p].what = "set"]
  /\ UNCHANGED <<cam, feed, blind>>

(* The container starts anew, after a PublishSet or by itself. *)
ServiceStarts ==
  /\ feed' = key
  /\ UNCHANGED <<cam, key, current, blind>>

RestartDetection(p) ==
  /\ probe[p].what = "set"
  /\ probe' = [probe EXCEPT ![p] = Idle]
  /\ ServiceStarts

ServiceRestarts == ServiceStarts /\ UNCHANGED probe

Next ==
  \/ \E p \in Probe :
       \/ \E c \in Device, a \in Address :
            RegisterCamera(p, c, a) \/ UpdateCamera(p, c, a) \/ UpdateUrl(p, c, a)
       \/ \E c \in Device : DeleteCamera(p, c)
       \/ Registered(p) \/ Updated(p) \/ RequestFails(p)
       \/ PublishRead(p) \/ PublishSet(p) \/ RestartDetection(p)
  \/ ServiceRestarts

Spec == Init /\ [][Next]_vars

(***************************************************************************)
(* Properties                                                              *)
(***************************************************************************)

(* A camera is recorded from the address it has: requests that overlap do  *)
(* not leave the address of one with the URL of another.  Only a change of *)
(* address at which no URL was found does, or a URL given by hand          *)
(* (update_camera).                                                        *)
UrlsFollowAddresses ==
  \A c \in Device : Live(c) => cam[c].url \in {cam[c].ip, NoUrl} \/ c \in blind

(* nvr:cameras lists the cameras there are, unless a row was written since *)
(* it was read for, also when two restarts overlap                         *)
(* (_publish_cameras_to_redis).                                            *)
KeyListsCameras == current => key = Listed

RegistryIsSound == UrlsFollowAddresses /\ KeyListsCameras

=============================================================================
