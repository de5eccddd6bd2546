------------------------------ MODULE MCServices ------------------------------
(***************************************************************************)
(* Seven services that share no state, side by side: a behaviour is one of *)
(* one of them, while the others stay as they begin.                       *)
(***************************************************************************)
EXTENDS Integers, FiniteSets

CONSTANTS Building, Floor, Camera, Ext, Request, None, Target, Caller, Device, Address,
          Probe, NoUrl, Pair, Right, Setter, NoGrant, Rule, Channel, MaxAttempts, MaxTrouble,
          Operator, Desk, Nobody, Socket, MaxConnections, MaxHandshakes

(* What stands for "none" is none of those it stands beside; the bounds    *)
(* are at least one.                                                       *)
ASSUME ServicesAssumption ==
  /\ None \notin Ext /\ None \notin Floor /\ None \notin Channel
  /\ "unborn" \notin Building /\ "gone" \notin Building
  /\ NoUrl \notin Address
  /\ NoGrant \notin Pair /\ (\A R \in SUBSET Right : NoGrant # R)
  /\ MaxAttempts \in Nat \ {0} /\ MaxTrouble \in Nat
  /\ IsFiniteSet(Socket) /\ MaxConnections \in Nat \ {0} /\ MaxHandshakes \in Nat \ {0}

VARIABLES
  service,  \* the one that runs
  building, home, image, file, placed, job, mishap,
  target, mounted, call, chosen, raced,
  cam, probe, key, feed, current, blind,
  grant, change, asked, mixed,
  enabled, names, channel, alert, task, told, given, trouble,
  row, session, trail, changes, crossed,
  phase, maps, count, lost, cast, stayed, got

Plan    == INSTANCE FloorPlan
Targets == INSTANCE StorageTargets
Cameras == INSTANCE Registry
Grants  == INSTANCE Permissions
Notify  == INSTANCE Notifications
Alerts  == INSTANCE AlertDesk
Hub     == INSTANCE Hub

planVars   == <<building, home, image, file, placed, job, mishap>>
targetVars == <<target, mounted, call, chosen, raced>>
cameraVars == <<cam, probe, key, feed, current, blind>>
grantVars  == <<grant, change, asked, mixed>>
notifyVars == <<enabled, names, channel, alert, task, told, given, trouble>>
alertVars  == <<row, session, trail, changes, crossed>>
hubVars    == <<phase, maps, count, lost, cast, stayed, got>>

Init ==
  /\ service \in {"plan", "targets", "cameras", "grants", "notify", "alerts", "hub"}
  /\ Plan!Init /\ Targets!Init /\ Cameras!Init /\ Grants!Init /\ Notify!Init
  /\ Alerts!Init /\ Hub!Init

Next ==
  \/ /\ service = "plan" /\ Plan!Next
     /\ UNCHANGED <<service, targetVars, cameraVars, grantVars, notifyVars, alertVars, hubVars>>
  \/ /\ service = "targets" /\ Targets!Next
     /\ UNCHANGED <<service, planVars, cameraVars, grantVars, notifyVars, alertVars, hubVars>>
  \/ /\ service = "cameras" /\ Cameras!Next
     /\ UNCHANGED <<service, planVars, targetVars, grantVars, notifyVars, alertVars, hubVars>>
  \/ /\ service = "grants" /\ Grants!Next
     /\ UNCHANGED <<service, planVars, targetVars, cameraVars, notifyVars, alertVars, hubVars>>
  \/ /\ service = "notify" /\ Notify!Next
     /\ UNCHANGED <<service, planVars, targetVars, cameraVars, grantVars, alertVars, hubVars>>
  \/ /\ service = "alerts" /\ Alerts!Next
     /\ UNCHANGED <<service, planVars, targetVars, cameraVars, grantVars, notifyVars, hubVars>>
  \/ /\ service = "hub" /\ Hub!Next
     /\ UNCHANGED <<service, planVars, targetVars, cameraVars, grantVars, notifyVars, alertVars>>

vars == <<service, planVars, targetVars, cameraVars, grantVars, notifyVars, alertVars, hubVars>>

Spec == Init /\ [][Next]_vars

(* Every variable of the seven services has its type. *)
TypeOK ==
  /\ Plan!TypeOK /\ Targets!TypeOK /\ Cameras!TypeOK /\ Grants!TypeOK
  /\ Notify!TypeOK /\ Alerts!TypeOK /\ Hub!TypeOK

(* Rows, image files and placements of floors agree (floor_plan.py). *)
PlanIsSound == Plan!PlanIsSound

(* Requests that overlap do not mix what they write: the URL of a camera   *)
(* follows its address, the rights of a user on a camera are those of one  *)
(* request, one storage target is active, and the audit log tells of what  *)
(* was done to an alert, with the exceptions named there                   *)
(* (camera_service.py, user_service.py, storage_targets.py,                *)
(* alert_service.py).                                                      *)
RowsAreWhole ==
  /\ Cameras!RegistryIsSound /\ Grants!GrantsAreWhole
  /\ Targets!OneTargetIsActive /\ Alerts!DeskIsSound

(* The channels of a rule are told of its alert (notification_service.py). *)
ChannelsAreTold == Notify!ChannelsAreTold

(* The connections of a user are limited and counted, and each that is     *)
(* there is sent every message (ws.py).                                    *)
ConnectionsAreKept == Hub!HubIsSound

=============================================================================
