------------------------------- MODULE AlertDesk -------------------------------
(***************************************************************************)
(* What operators do to an alert - acknowledge it, mark it as a false      *)
(* positive, put it on hold - and the entries of the audit log about it.   *)
(*                                                                         *)
(* A request loads the row, assigns its columns, and calls log, which      *)
(* creates a task that adds the entry to the session of the request and    *)
(* flushes it.  The event loop runs that task when the request is next     *)
(* suspended: in the flush of its commit, which then writes the entry too, *)
(* though the flush of the task is refused; or, when nothing is left to be *)
(* flushed, in the COMMIT itself, when the session takes nothing more.     *)
(***************************************************************************)
EXTENDS Integers

CONSTANTS
  Operator,
  Desk,     \* requests that may be under way at a time
  Nobody

VARIABLES
  row,      \* the alert; `at` is given by whose request set the time
  session,  \* the requests: what their sessions hold, and how far they are
  trail,    \* what the audit log tells of
  changes,  \* history: what has changed the alert
  crossed   \* history: acknowledgements have overlapped

vars == <<row, session, trail, changes, crossed>>

What == {"acknowledge", "false_positive", "hold", "release", "create_rule"}
Alert == [by : Operator \cup {Nobody}, at : Operator \cup {Nobody}, false : BOOLEAN, held : BOOLEAN]

Closed == [step |-> "closed"]
Open == [step : {"loaded", "logged", "flushing", "committing"}, what : What, op : Operator,
         same : BOOLEAN, entry : BOOLEAN]

TypeOK ==
  /\ row \in Alert
  /\ session \in [Desk -> {Closed} \cup Open]
  /\ {trail, changes} \subseteq SUBSET What
  /\ crossed \in BOOLEAN

Init ==
  /\ row = [by |-> Nobody, at |-> Nobody, false |-> FALSE, held |-> FALSE]
  /\ session = [d \in Desk |-> Closed]
  /\ trail = {} /\ changes = {} /\ crossed = FALSE

Acknowledging(d) == session[d].step # "closed" /\ session[d].what = "acknowledge"

(* Whether the alert has already what is assigned, the time left aside: a  *)
(* column whose value does not change is not written.  A new rule was      *)
(* flushed before.                                                         *)
Same(op, what) ==
  \/ what = "acknowledge" /\ row.by = op
  \/ what = "false_positive" /\ row.false
  \/ what = "hold" /\ row.held
  \/ what = "release" /\ ~row.held
  \/ what = "create_rule"

LoadAlert(d, op, what) ==
  /\ session[d] = Closed
  /\ session' = [session EXCEPT ![d] = [step |-> "loaded", what |-> what, op |-> op,
                                        same |-> Same(op, what), entry |-> FALSE]]
  /\ crossed' = (crossed \/ (what = "acknowledge" /\ \E e \in Desk : Acknowledging(e)))
  /\ UNCHANGED <<row, trail, changes>>

(* Whether the session has something to flush; the time is always new. *)
Dirty(q) == q.what = "acknowledge" \/ ~q.same

Log(d) ==
  /\ session[d].step = "loaded"
  /\ session' = [session EXCEPT ![d].step = "logged"]
  /\ UNCHANGED <<row, trail, changes, crossed>>

(* Commit begins, and suspends the request; the task has its turn. *)
WriteLog(d) ==
  /\ session[d].step = "logged"
  /\ session' = [session EXCEPT ![d].step = IF Dirty(session[d]) THEN "flushing" ELSE "committing",
                                ![d].entry = Dirty(session[d])]
  /\ UNCHANGED <<row, trail, changes, crossed>>

Assigned(q) ==
  IF q.what = "acknowledge"
  THEN [row EXCEPT !.by = IF q.same THEN @ ELSE q.op, !.at = q.op]
  ELSE IF q.same THEN row
  ELSE [row EXCEPT !.false = @ \/ q.what = "false_positive",
                   !.held  = IF q.what \in {"hold", "release"} THEN q.what = "hold" ELSE @]

Commit(d) ==
  LET q == session[d] IN
  /\ q.step \in {"flushing", "committing"}
  /\ row' = Assigned(q)
  /\ trail' = IF q.entry THEN trail \cup {q.what} ELSE trail
  /\ changes' = IF row' # row THEN changes \cup {q.what} ELSE changes
  /\ session' = [session EXCEPT ![d] = Closed]
  /\ UNCHANGED crossed

(* The alert is not there, a statement or the commit fails: all of it is   *)
(* rolled back.                                                            *)
RollBack(d) ==
  /\ session[d] # Closed
  /\ session' = [session EXCEPT ![d] = Closed]
  /\ UNCHANGED <<row, trail, changes, crossed>>

Next ==
  \E d \in Desk :
    \/ \E op \in Operator, what \in What : LoadAlert(d, op, what)
    \/ Log(d) \/ WriteLog(d) \/ Commit(d) \/ RollBack(d)

Spec == Init /\ [][Next]_vars

(***************************************************************************)
(* Properties                                                              *)
(***************************************************************************)

(* Nothing changes an alert and is missing in the audit log, though its    *)
(* entry is left to a task that nobody waits for (log, _write_log).        *)
NothingUntold == changes \subseteq trail

(* Who has acknowledged an alert did so at the time it says, unless        *)
(* acknowledgements overlapped (acknowledge_alert).                        *)
AcknowledgedByOne == row.by = row.at \/ crossed

DeskIsSound == NothingUntold /\ AcknowledgedByOne

=============================================================================
