---------------------------- MODULE StorageTargets ----------------------------
(***************************************************************************)
(* The storage targets, of which one at a time is the active one.          *)
(*                                                                         *)
(* An activation checks the row and the mount, then marks all rows         *)
(* inactive and this one active in one transaction, whose row locks make   *)
(* the writes one step.  A deletion checks that the target is inactive,    *)
(* then deletes it.  Identifiers are not used twice.                       *)
(***************************************************************************)
EXTENDS Integers, FiniteSets

CONSTANTS
  Target,
  Caller  \* activations and deletions that may be under way at a time

VARIABLES
  target,   \* the rows of storage_targets
  mounted,  \* the mount points in /proc/mounts
  call,     \* the requests under way
  chosen,   \* history: a target has been activated
  raced     \* history: since then, a target was deleted that had been activated
            \* after the deletion's check

vars == <<target, mounted, call, chosen, raced>>

Idle == [what |-> "none"]

(* `late`: the target has been activated since the call checked it. *)
Call == [what : {"activate", "delete"}, target : Target, late : BOOLEAN]

TypeOK ==
  /\ target \in [Target -> {"unborn", "inactive", "active", "gone"}]
  /\ mounted \subseteq Target
  /\ call \in [Caller -> {Idle} \cup Call]
  /\ chosen \in BOOLEAN /\ raced \in BOOLEAN

Init ==
  /\ target = [t \in Target |-> "unborn"]
  /\ mounted = {}
  /\ call = [c \in Caller |-> Idle]
  /\ chosen = FALSE /\ raced = FALSE

Exists(t) == target[t] \in {"inactive", "active"}

CreateTarget(t) ==
  /\ target[t] = "unborn"
  /\ target' = [target EXCEPT ![t] = "inactive"]
  /\ UNCHANGED <<mounted, call, chosen, raced>>

(* The administrator mounts and unmounts, outside of the program. *)
Mount(t) ==
  /\ mounted' = IF t \in mounted THEN mounted \ {t} ELSE mounted \cup {t}
  /\ UNCHANGED <<target, call, chosen, raced>>

Begin(c, what, t) ==
  /\ call[c] = Idle
  /\ call' = [call EXCEPT ![c] = [what |-> what, target |-> t, late |-> FALSE]]
  /\ UNCHANGED <<target, mounted, chosen, raced>>

ActivateCheck(c, t) == Exists(t) /\ t \in mounted /\ Begin(c, "activate", t)

DeleteCheck(c, t) == target[t] = "inactive" /\ Begin(c, "delete", t)

(* UPDATE storage_targets SET is_active = false, then this one's.  A row   *)
(* that is gone by then fails, and all of it is rolled back.               *)
Activate(c) ==
  LET t == call[c].target
  IN  /\ call[c].what = "activate" /\ Exists(t)
      /\ target' = [s \in Target |-> IF s = t THEN "active"
                                     ELSE IF Exists(s) THEN "inactive" ELSE target[s]]
      /\ call' = [d \in Caller |-> IF d = c THEN Idle
                                   ELSE IF call[d] # Idle /\ call[d].target = t
                                   THEN [call[d] EXCEPT !.late = TRUE] ELSE call[d]]
      /\ chosen' = TRUE /\ raced' = FALSE
      /\ UNCHANGED mounted

Delete(c) ==
  LET t == call[c].target
  IN  /\ call[c].what = "delete" /\ Exists(t)
      /\ target' = [target EXCEPT ![t] = "gone"]
      /\ raced' = (raced \/ call[c].late)
      /\ call' = [call EXCEPT ![c] = Idle]
      /\ UNCHANGED <<mounted, chosen>>

CallFails(c) ==
  /\ call[c] # Idle
  /\ call' = [call EXCEPT ![c] = Idle]
  /\ UNCHANGED <<target, mounted, chosen, raced>>

Next ==
  \/ \E t \in Target : CreateTarget(t) \/ Mount(t)
  \/ \E c \in Caller :
       \/ \E t \in Target : ActivateCheck(c, t) \/ DeleteCheck(c, t)
       \/ Activate(c) \/ Delete(c) \/ CallFails(c)

Spec == Init /\ [][Next]_vars

(* There is never more than one active target; and once one was activated  *)
(* there always is one, as the active target is not deleted, but for a     *)
(* deletion that had made its check before ("Cannot delete the active      *)
(* storage target", delete_storage_target).                                *)
OneTargetIsActive ==
  LET active == {t \in Target : target[t] = "active"}
  IN  /\ Cardinality(active) <= 1
      /\ chosen /\ ~raced => active # {}

=============================================================================
