---------------------------------- MODULE Hub ----------------------------------
(***************************************************************************)
(* The WebSocket hub, for the connections of one user: ConnectionManager,  *)
(* the endpoint that runs as long as a connection, and the forwarder that  *)
(* hands the messages of Redis to all connections, one after the other.    *)
(* What subscriptions do to the live view is in LiveView.                  *)
(*                                                                         *)
(* One event loop runs all of it; an action is what happens up to the next *)
(* await.  A socket whose endpoint has ended stands for a new connection.  *)
(***************************************************************************)
EXTENDS Integers, FiniteSets

CONSTANTS
  Socket,
  MaxConnections,  \* _MAX_CONNECTIONS_PER_USER (5)
  MaxHandshakes    \* bound: connections that wait to be accepted at a time

VARIABLES
  phase,   \* where the endpoint of each socket is
  maps,    \* the sockets in _connections, _ws_to_user and _ws_cameras
  count,   \* app.state.ws_connection_count
  lost,    \* the sockets whose peer is gone, noticed or not
  cast,    \* the message under way: to all or to the user, whom still, who failed
  stayed,  \* history: sockets that were there and well all through the broadcast
  got      \* history: sockets the message was sent to

vars == <<phase, maps, count, lost, cast, stayed, got>>

Quiet == [to |-> "nobody", todo |-> {}, dead |-> {}]
In(p) == {s \in Socket : phase[s] = p}

TypeOK ==
  /\ phase \in [Socket -> {"free", "checked", "entering", "running"}]
  /\ {maps, lost, stayed, got} \subseteq SUBSET Socket
  /\ count \in 0..Cardinality(Socket)
  /\ cast \in [to : {"nobody", "all", "user"}, todo : SUBSET Socket, dead : SUBSET Socket]

Init ==
  /\ phase = [s \in Socket |-> "free"]
  /\ maps = {} /\ count = 0 /\ lost = {}
  /\ cast = Quiet /\ stayed = {} /\ got = {}

(***************************************************************************)
(* Connections                                                             *)
(***************************************************************************)

(* The token is good and the user active.  A socket that is refused is     *)
(* closed; its endpoint goes on, to end at the first receive.              *)
Check(s) ==
  /\ phase[s] = "free" /\ Cardinality(In("checked")) < MaxHandshakes
  /\ phase' = [phase EXCEPT ![s] = IF Cardinality(maps) >= MaxConnections
                                   THEN "entering" ELSE "checked"]
  /\ UNCHANGED <<maps, count, lost, cast, stayed, got>>

Accept(s) ==
  /\ phase[s] = "checked"
  /\ phase' = [phase EXCEPT ![s] = "entering"]
  /\ maps' = maps \cup {s}
  /\ UNCHANGED <<count, lost, cast, stayed, got>>

AcceptFails(s) ==
  /\ phase[s] = "checked"
  /\ phase' = [phase EXCEPT ![s] = "free"]
  /\ UNCHANGED <<maps, count, lost, cast, stayed, got>>

(* The initial state is sent, or not. *)
Enter(s) ==
  /\ phase[s] = "entering"
  /\ phase' = [phase EXCEPT ![s] = "running"]
  /\ count' = count + 1
  /\ UNCHANGED <<maps, lost, cast, stayed, got>>

(* Unplugged, asleep, closed: sending may fail from now on. *)
Lose(s) ==
  /\ phase[s] \in {"entering", "running"} /\ s \notin lost
  /\ lost' = lost \cup {s}
  /\ stayed' = stayed \ {s}
  /\ UNCHANGED <<phase, maps, count, cast, got>>

(* The client leaves, is silent for 30 seconds, or something is raised.    *)
(* Sending to a socket that has ended fails, and disconnecting it again    *)
(* does nothing.                                                           *)
Leave(s) ==
  /\ phase[s] = "running"
  /\ phase' = [phase EXCEPT ![s] = "free"]
  /\ maps' = maps \ {s} /\ lost' = lost \ {s}
  /\ count' = IF count > 0 THEN count - 1 ELSE 0
  /\ cast' = [cast EXCEPT !.todo = @ \ {s}, !.dead = @ \ {s}]
  /\ stayed' = stayed \ {s} /\ got' = got \ {s}

(***************************************************************************)
(* Broadcasts                                                              *)
(***************************************************************************)

Start(to) ==
  /\ cast = Quiet
  /\ cast' = [to |-> to, todo |-> maps, dead |-> {}]
  /\ stayed' = maps \ lost /\ got' = {}
  /\ UNCHANGED <<phase, maps, count, lost>>

Broadcast == Start("all")

(* All the connections here are of one user. *)
SendToUser == Start("user")

SendText(s) ==
  /\ s \in cast.todo
  /\ cast' = [cast EXCEPT !.todo = @ \ {s}]
  /\ got' = got \cup {s}
  /\ UNCHANGED <<phase, maps, count, lost, stayed>>

SendEndsAll(s) ==
  /\ s \in cast.todo \cap lost
  /\ cast' = [cast EXCEPT !.todo = {}, !.dead = @ \cup {s}]
  /\ UNCHANGED <<phase, maps, count, lost, stayed, got>>

(* A message to all forgets the sockets that fail when it is through, one  *)
(* to a user at once.                                                      *)
SendFails(s) ==
  /\ s \in cast.todo \cap lost
  /\ cast' = [cast EXCEPT !.todo = @ \ {s},
                          !.dead = IF cast.to = "all" THEN @ \cup {s} ELSE @]
  /\ maps' = IF cast.to = "user" THEN maps \ {s} ELSE maps
  /\ UNCHANGED <<phase, count, lost, stayed, got>>

(* The endpoints of those that failed run on, until they notice. *)
DropDead ==
  /\ cast # Quiet /\ cast.todo = {}
  /\ maps' = maps \ cast.dead
  /\ cast' = Quiet
  /\ UNCHANGED <<phase, count, lost, stayed, got>>

Next ==
  \/ \E s \in Socket :
       \/ Check(s) \/ Accept(s) \/ AcceptFails(s) \/ Enter(s) \/ Lose(s) \/ Leave(s)
       \/ SendText(s) \/ SendFails(s)
  \/ Broadcast \/ SendToUser \/ DropDead

Spec == Init /\ [][Next]_vars

(***************************************************************************)
(* Properties                                                              *)
(***************************************************************************)

(* The limit is checked before a connection is accepted and the lists are  *)
(* appended after: it is overrun by as many as wait to be accepted         *)
(* together less one, never by more (ConnectionManager.connect).           *)
LimitHolds == Cardinality(maps) <= MaxConnections - 1 + MaxHandshakes

(* No entry of the maps outlives its endpoint, and the counter shown as a  *)
(* metric is the number of endpoints, refused and forgotten ones included  *)
(* (websocket_endpoint).                                                   *)
EndpointsAreCounted ==
  /\ maps \subseteq In("entering") \cup In("running")
  /\ count = Cardinality(In("running"))

(* A message reaches every connection that is there from its start to its  *)
(* end, whatever becomes of the others meanwhile (broadcast, send_to_user).*)
MessageReachesAll == cast = Quiet => stayed \subseteq got

HubIsSound == LimitHolds /\ EndpointsAreCounted /\ MessageReachesAll

=============================================================================
