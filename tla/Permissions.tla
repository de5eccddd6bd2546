------------------------------ MODULE Permissions ------------------------------
(***************************************************************************)
(* The rights of users on single cameras.  Two requests set them, one by   *)
(* the camera and one by the user, in the same way: load the row, or make  *)
(* one, assign all rights, commit.  The mapper writes the columns whose    *)
(* value is not the one that was loaded.  A request for several rows does  *)
(* the same for each; one row at a time is followed here.                  *)
(***************************************************************************)
EXTENDS Integers

CONSTANTS
  Pair,    \* a user and a camera
  Right,   \* can_view_live, can_export_clips, ...
  Setter,  \* requests that may be under way at a time
  NoGrant  \* no row

VARIABLES
  grant,   \* the rows of camera_permissions, by the rights that are true
  change,  \* the requests under way
  asked,   \* history: what requests have committed
  mixed    \* history: pairs for which requests overlapped

vars == <<grant, change, asked, mixed>>

Idle == [pair |-> NoGrant]
Change == [pair : Pair, loaded : (SUBSET Right) \cup {NoGrant}, wanted : SUBSET Right]

TypeOK ==
  /\ grant \in [Pair -> (SUBSET Right) \cup {NoGrant}]
  /\ change \in [Setter -> {Idle} \cup Change]
  /\ asked \in [Pair -> SUBSET SUBSET Right]
  /\ mixed \subseteq Pair

Init ==
  /\ grant = [p \in Pair |-> NoGrant]
  /\ change = [s \in Setter |-> Idle]
  /\ asked = [p \in Pair |-> {}]
  /\ mixed = {}

SetPermissions(s, p, wanted) ==
  /\ change[s] = Idle
  /\ change' = [change EXCEPT ![s] = [pair |-> p, loaded |-> grant[p], wanted |-> wanted]]
  /\ mixed' = IF \E q \in Setter : change[q].pair = p THEN mixed \cup {p} ELSE mixed
  /\ UNCHANGED <<grant, asked>>

(* Every other right keeps the value it has by now. *)
Written(c) == (grant[c.pair] \ (c.loaded \ c.wanted)) \cup (c.wanted \ c.loaded)

(* Of two requests that both make the row, the primary key refuses one. *)
Commit(s) ==
  LET c == change[s]
  IN  /\ c # Idle
      /\ c.loaded = NoGrant => grant[c.pair] = NoGrant
      /\ grant' = [grant EXCEPT ![c.pair] = IF c.loaded = NoGrant THEN c.wanted ELSE Written(c)]
      /\ asked' = [asked EXCEPT ![c.pair] = @ \cup {c.wanted}]
      /\ change' = [change EXCEPT ![s] = Idle]
      /\ UNCHANGED mixed

Fails(s) ==
  /\ change[s] # Idle
  /\ change' = [change EXCEPT ![s] = Idle]
  /\ UNCHANGED <<grant, asked, mixed>>

Next ==
  \E s \in Setter :
    \/ \E p \in Pair, wanted \in SUBSET Right : SetPermissions(s, p, wanted)
    \/ Commit(s) \/ Fails(s)

Spec == Init /\ [][Next]_vars

(* A row holds the rights of one request as a whole, unless requests       *)
(* overlapped, which may leave a mixture that nobody asked for; and a      *)
(* right that no request has given is never there (set_permissions,        *)
(* set_camera_permissions).                                                *)
GrantsAreWhole ==
  \A p \in Pair : grant[p] # NoGrant =>
    /\ grant[p] \subseteq UNION asked[p]
    /\ grant[p] \in asked[p] \/ p \in mixed

=============================================================================
