------------------------------- MODULE FloorPlan -------------------------------
(***************************************************************************)
(* Buildings, their floors with a plan image each, and the placements of   *)
(* cameras on floors.                                                      *)
(*                                                                         *)
(* The image of a floor is the file <floor><ext>; the row names it.  An    *)
(* upload loads the row, reads the body of the request, removes the old    *)
(* file, writes the new one, and commits; a deletion removes the file and  *)
(* commits.  So each is more than one step.  Identifiers are not used      *)
(* twice.                                                                  *)
(***************************************************************************)
EXTENDS Integers

CONSTANTS
  Building,
  Floor,
  Camera,
  Ext,      \* the extensions of image files
  Request,  \* uploads and deletions of floors that may be under way at a time
  None

VARIABLES
  building,  \* the rows of buildings
  home,      \* the rows of floors: the building of each
  image,     \* plan_image_path
  file,      \* the files below FLOOR_PLANS_DIR
  placed,    \* the rows of camera_placements: the floor of each camera
  job,       \* the requests under way
  mishap     \* history: floors for which a request overlapped another or failed
             \* half way, or whose building was deleted

vars == <<building, home, image, file, placed, job, mishap>>

Idle == [step |-> "idle"]
Upload == [step : {"loaded", "written"}, floor : Floor, old : Ext \cup {None}, new : Ext]
Deletion == [step : {"unlinked"}, floor : Floor]

TypeOK ==
  /\ building \subseteq Building
  /\ home \in [Floor -> Building \cup {"unborn", "gone"}]
  /\ image \in [Floor -> Ext \cup {None}]
  /\ file \subseteq Floor \X Ext
  /\ placed \in [Camera -> Floor \cup {None}]
  /\ job \in [Request -> {Idle} \cup Upload \cup Deletion]
  /\ mishap \subseteq Floor

Init ==
  /\ building = {}
  /\ home = [f \in Floor |-> "unborn"]
  /\ image = [f \in Floor |-> None]
  /\ file = {}
  /\ placed = [c \in Camera |-> None]
  /\ job = [r \in Request |-> Idle]
  /\ mishap = {}

Exists(f) == home[f] \in Building

UnderWay(f) == \E r \in Request : job[r] # Idle /\ job[r].floor = f

(***************************************************************************)
(* Buildings and floors                                                    *)
(***************************************************************************)

CreateBuilding(b) ==
  /\ b \notin building
  /\ building' = building \cup {b}
  /\ UNCHANGED <<home, image, file, placed, job, mishap>>

CreateFloor(f, b) ==
  /\ b \in building /\ home[f] = "unborn"
  /\ home' = [home EXCEPT ![f] = b]
  /\ UNCHANGED <<building, image, file, placed, job, mishap>>

(* Both foreign keys and the mapper cascade. *)
RemoveFloors(F) ==
  /\ home' = [f \in Floor |-> IF f \in F THEN "gone" ELSE home[f]]
  /\ placed' = [c \in Camera |-> IF placed[c] \in F THEN None ELSE placed[c]]

(* The images of the floors are left behind. *)
DeleteBuilding(b) ==
  LET F == {f \in Floor : home[f] = b}
  IN  /\ b \in building
      /\ building' = building \ {b}
      /\ RemoveFloors(F)
      /\ mishap' = mishap \cup {f \in F : image[f] # None \/ UnderWay(f)}
      /\ UNCHANGED <<image, file, job>>

Overlapped(f) == IF UnderWay(f) THEN mishap \cup {f} ELSE mishap

(* unlink is tried at once; what it raises is ignored. *)
DeleteFloor(r, f) ==
  /\ job[r] = Idle /\ Exists(f)
  /\ job' = [job EXCEPT ![r] = [step |-> "unlinked", floor |-> f]]
  /\ \/ file' = file \ {<<f, image[f]>>} /\ mishap' = Overlapped(f)
     \/ image[f] # None /\ mishap' = mishap \cup {f} /\ UNCHANGED file
  /\ UNCHANGED <<building, home, image, placed>>

DeleteFloorCommit(r) ==
  /\ job[r].step = "unlinked"
  /\ RemoveFloors({job[r].floor} \cap {f \in Floor : Exists(f)})
  /\ job' = [job EXCEPT ![r] = Idle]
  /\ UNCHANGED <<building, image, file, mishap>>

(***************************************************************************)
(* Images                                                                  *)
(***************************************************************************)

UploadLoad(r, f, e) ==
  /\ job[r] = Idle /\ Exists(f)
  /\ job' = [job EXCEPT ![r] = [step |-> "loaded", floor |-> f, old |-> image[f], new |-> e]]
  /\ mishap' = Overlapped(f)
  /\ UNCHANGED <<building, home, image, file, placed>>

(* The file the row named when it was loaded is removed, if its name is    *)
(* another.                                                                *)
Unlinked(u) == IF u.old # u.new THEN file \ {<<u.floor, u.old>>} ELSE file

UploadWriteOnly(r) ==
  /\ job[r].step = "loaded"
  /\ file' = file \cup {<<job[r].floor, job[r].new>>}
  /\ job' = [job EXCEPT ![r].step = "written"]
  /\ UNCHANGED <<building, home, image, placed, mishap>>

UploadWrite(r) ==
  /\ job[r].step = "loaded"
  /\ file' = Unlinked(job[r]) \cup {<<job[r].floor, job[r].new>>}
  /\ job' = [job EXCEPT ![r].step = "written"]
  /\ UNCHANGED <<building, home, image, placed, mishap>>

(* The mapper writes the name only if it is new; a row that is gone fails. *)
UploadCommit(r) ==
  LET u == job[r]
  IN  /\ u.step = "written" /\ Exists(u.floor)
      /\ image' = IF u.old # u.new THEN [image EXCEPT ![u.floor] = u.new] ELSE image
      /\ job' = [job EXCEPT ![r] = Idle]
      /\ UNCHANGED <<building, home, file, placed, mishap>>

(* The body cannot be read or is refused: nothing has happened yet.  Or the *)
(* disk is full, or the commit fails: the files stay as they are by then.   *)
RequestFails(r) ==
  /\ job[r] # Idle
  /\ \/ UNCHANGED <<file, mishap>>  /\ job[r].step = "loaded"
     \/ /\ job[r].step = "loaded"
        /\ file' = Unlinked(job[r])
        /\ mishap' = mishap \cup {job[r].floor}
     \/ /\ job[r].step \in {"written", "unlinked"}
        /\ mishap' = mishap \cup {job[r].floor}
        /\ UNCHANGED file
  /\ job' = [job EXCEPT ![r] = Idle]
  /\ UNCHANGED <<building, home, image, placed>>

(***************************************************************************)
(* Placements                                                              *)
(***************************************************************************)

(* A unique constraint backs the check that the camera has no placement. *)
CreatePlacement(c, f) ==
  /\ Exists(f) /\ placed[c] = None
  /\ placed' = [placed EXCEPT ![c] = f]
  /\ UNCHANGED <<building, home, image, file, job, mishap>>

DeletePlacement(c) ==
  /\ placed[c] # None
  /\ placed' = [placed EXCEPT ![c] = None]
  /\ UNCHANGED <<building, home, image, file, job, mishap>>

(***************************************************************************)
(* Specification                                                           *)
(***************************************************************************)

Next ==
  \/ \E b \in Building :
       CreateBuilding(b) \/ DeleteBuilding(b) \/ \E f \in Floor : CreateFloor(f, b)
  \/ \E r \in Request :
       \/ \E f \in Floor : DeleteFloor(r, f) \/ \E e \in Ext : UploadLoad(r, f, e)
       \/ DeleteFloorCommit(r) \/ UploadWrite(r) \/ UploadCommit(r) \/ RequestFails(r)
  \/ \E c \in Camera : DeletePlacement(c) \/ \E f \in Floor : CreatePlacement(c, f)

Spec == Init /\ [][Next]_vars

(***************************************************************************)
(* Properties                                                              *)
(***************************************************************************)

(* Rows and disk agree about every floor that no request is at work on: it *)
(* has the one file its row names, and none once it is deleted, unless     *)
(* requests for it overlapped, one failed half way, or its building was    *)
(* deleted (upload_floor_image, delete_floor).                             *)
ImagesAgree ==
  \A f \in Floor : ~UnderWay(f) /\ f \notin mishap =>
    {e \in Ext : <<f, e>> \in file} = IF Exists(f) THEN {image[f]} \ {None} ELSE {}

(* What is placed is on a floor of a building that exists, however floors  *)
(* and buildings go (delete_building, delete_floor, create_placement).     *)
PlacementsHaveFloors ==
  /\ \A c \in Camera : placed[c] # None => Exists(placed[c])
  /\ \A f \in Floor : Exists(f) => home[f] \in building

PlanIsSound == ImagesAgree /\ PlacementsHaveFloors

=============================================================================
