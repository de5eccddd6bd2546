------------------------------- MODULE Sessions -------------------------------
(***************************************************************************)
(* Sign-in and sessions: the users and sessions tables, the lockout        *)
(* counters in Redis, and the requests that change them.                   *)
(*                                                                         *)
(* Every request runs in one transaction (get_db), which is committed when *)
(* the handler returns and rolled back when it raises, also when it raises *)
(* the HTTPException of a refusal; what it did in Redis stays.  Sign-in    *)
(* and refresh read, wait and write, so they take several steps here; what *)
(* one of them has read may be out of date when it writes.  So do the      *)
(* requests that revoke all sessions of a user: the UPDATE of sessions is  *)
(* executed at once and sees the rows committed until then, the row of the *)
(* user is written at the commit (autoflush is off).  The other requests   *)
(* write what does not depend on other rows and are one step each: the MFA *)
(* requests of one user are not interleaved here.  A refused request       *)
(* changes nothing.  A session whose thirty days are over is refused by    *)
(* every reader, and is left out.                                          *)
(***************************************************************************)
EXTENDS Integers, Sequences, FiniteSets

CONSTANTS
  User,         \* users, by their e-mail addresses
  Request,      \* sign-ins and refreshes that may be under way at a time
  Ip,           \* the address all of them come from
  MaxAttempts,  \* LOCKOUT_MAX_ATTEMPTS (5)
  Duration,     \* LOCKOUT_DURATION_SECONDS, in ticks
  MaxSessions   \* bound: rows of the sessions table

ASSUME ConstantsOK ==
  /\ Ip \notin User
  /\ IsFiniteSet(Request)
  /\ {MaxAttempts, Duration} \subseteq Nat \ {0}
  /\ MaxSessions \in Nat

VARIABLES
  row,     \* the rows of users
  sess,    \* the rows of sessions, in the order of their commits
  lock,    \* lockout:email:<user> and lockout:ip:<Ip>, with their time to live
  req,     \* what each request has read and found
  closing  \* the request that revokes all sessions of a user, until it commits

vars == <<row, sess, lock, req, closing>>

Key == User \cup {Ip}

(* A user is absent (no row), active, switched off by PATCH, or deactivated *)
(* with the sessions revoked.  `hash` is whether hashed_password can match  *)
(* any password, `secret` whether mfa_secret is set.                        *)
UserRow == [status : {"absent", "active", "off", "deactivated"}, hash : BOOLEAN,
            erased : BOOLEAN, mfa : BOOLEAN, secret : BOOLEAN]

(* The rest of a row is history.  `root` is the sign-in it comes from, by  *)
(* the number of its first session; `spent`, that a refresh has replaced   *)
(* it; `twin`, that the refresh it comes from had read its session before  *)
(* another one replaced it; `raced`, that the request it comes from had    *)
(* read its user or session before a revocation of all sessions was        *)
(* committed, or committed between that and what the revocation saw.       *)
SessionRow == [user : User, root : Nat, revoked : BOOLEAN, spent : BOOLEAN,
               twin : BOOLEAN, raced : BOOLEAN]

Idle == [found |-> "idle"]

Login == [found : {"failed", "passed", "cleared"}, user : User, raced : BOOLEAN]

(* `spent` as it was when the session was read. *)
Refresh == [found : {"valid"}, user : User, token : Nat, spent : BOOLEAN, raced : BOOLEAN]

Refusal == [found : {"refused"}, user : User]

(* What a revocation of all sessions has executed: it saw the first `upto` *)
(* rows, and whether its user was active.                                  *)
Closing == [does : {"revoke", "deactivate", "erase"}, active : BOOLEAN, upto : Nat]

Open == [does |-> "nothing"]

TypeOK ==
  /\ row \in [User -> UserRow]
  /\ sess \in Seq(SessionRow)
  /\ lock \in [Key -> [n : Nat, ttl : 0..Duration]]
  /\ req \in [Request -> {Idle} \cup Login \cup Refresh \cup Refusal]
  /\ closing \in [User -> {Open} \cup Closing]

Init ==
  /\ row = [u \in User |-> [status |-> "absent", hash |-> TRUE, erased |-> FALSE,
                            mfa |-> FALSE, secret |-> FALSE]]
  /\ sess = <<>>
  /\ lock = [k \in Key |-> [n |-> 0, ttl |-> 0]]
  /\ req = [r \in Request |-> Idle]
  /\ closing = [u \in User |-> Open]

Active(u) == row[u].status = "active"

LockedLate(k) == lock[k].n > MaxAttempts

(***************************************************************************)
(* Lockout counters                                                        *)
(***************************************************************************)

Locked(k) == lock[k].n >= MaxAttempts

RecordedLonger(u) ==
  [k \in Key |-> IF k \in {u, Ip}
                 THEN [n |-> lock[k].n + 1, ttl |-> lock[k].ttl + Duration]
                 ELSE lock[k]]

(* incr and expire for the address and the e-mail.  The count is not taken *)
(* beyond one more than the requests under way can bring it to.            *)
Recorded(u) ==
  [k \in Key |-> IF k \in {u, Ip}
                 THEN [n |-> IF lock[k].n < MaxAttempts + Cardinality(Request)
                             THEN lock[k].n + 1 ELSE lock[k].n,
                       ttl |-> Duration]
                 ELSE lock[k]]

ClearLockout(u) ==
  [k \in Key |-> IF k \in {u, Ip} THEN [n |-> 0, ttl |-> 0] ELSE lock[k]]

(* Time passes: Redis forgets a counter whose time to live is over. *)
Tick ==
  /\ \E k \in Key : lock[k].ttl > 0
  /\ lock' = [k \in Key |-> IF lock[k].ttl > 1
                            THEN [lock[k] EXCEPT !.ttl = @ - 1]
                            ELSE [n |-> 0, ttl |-> 0]]
  /\ UNCHANGED <<row, sess, req, closing>>

(***************************************************************************)
(* Sign-in                                                                 *)
(***************************************************************************)

(* A code is right when it is the current one of the secret, or an unused  *)
(* backup code.  A backup code is marked in the list the row was loaded    *)
(* with, which is then assigned to the same attribute: the mapper sees no  *)
(* change and writes none.                                                 *)
CodeAccepted(u, code) == row[u].secret /\ code

Verdict(u, password, code) ==
  IF /\ Active(u)
     /\ row[u].hash /\ password
     /\ row[u].mfa => CodeAccepted(u, code)
  THEN "passed" ELSE "failed"

LoginCheckOpen(r, u, password, code) ==
  /\ req[r] = Idle
  /\ req' = [req EXCEPT ![r] = [found |-> Verdict(u, password, code), user |-> u,
                                raced |-> FALSE]]
  /\ UNCHANGED <<row, sess, lock, closing>>

(* Lockout counters and row are read before the password is verified; a    *)
(* locked account is refused and nothing recorded, and neither is a        *)
(* sign-in without the code that is required.                              *)
LoginCheck(r, u, password, code) ==
  /\ req[r] = Idle
  /\ ~Locked(Ip) /\ ~Locked(u)
  /\ req' = [req EXCEPT ![r] = [found |-> Verdict(u, password, code), user |-> u,
                                raced |-> FALSE]]
  /\ UNCHANGED <<row, sess, lock, closing>>

(* The failed_login_count of the row is rolled back with the transaction. *)
LoginFailed(r) ==
  /\ req[r].found = "failed"
  /\ lock' = Recorded(req[r].user)
  /\ req' = [req EXCEPT ![r] = Idle]
  /\ UNCHANGED <<row, sess, closing>>

(* The row of the user is written before the counters are cleared, and     *)
(* nobody else writes it until the sign-in commits.                        *)
RowFree(u) == \A r \in Request : req[r].found = "cleared" => req[r].user # u

LoginCleared(r) ==
  /\ req[r].found = "passed" /\ RowFree(req[r].user)
  /\ lock' = ClearLockout(req[r].user)
  /\ req' = [req EXCEPT ![r].found = "cleared"]
  /\ UNCHANGED <<row, sess, closing>>

NewSession(u, root, twin, raced) ==
  [user |-> u, root |-> root, revoked |-> FALSE, spent |-> FALSE, twin |-> twin,
   raced |-> raced]

LoginCommit(r) ==
  /\ req[r].found = "cleared" /\ Len(sess) < MaxSessions
  /\ sess' = Append(sess, NewSession(req[r].user, Len(sess) + 1, FALSE, req[r].raced))
  /\ req' = [req EXCEPT ![r] = Idle]
  /\ UNCHANGED <<row, lock, closing>>

(***************************************************************************)
(* Refresh                                                                 *)
(***************************************************************************)

Reused(t) == sess[t].revoked

Valid(t) == ~sess[t].revoked

RefreshReadAny(r, t) ==
  /\ req[r] = Idle
  /\ Active(sess[t].user)
  /\ req' = [req EXCEPT ![r] = [found |-> "valid", user |-> sess[t].user, token |-> t,
                                spent |-> sess[t].spent, raced |-> FALSE]]
  /\ UNCHANGED <<row, sess, lock, closing>>

(* The three reads of a refresh are one step: only a refresh for which all *)
(* of them succeed writes, and a session revoked is never valid again.     *)
RefreshRead(r, t) ==
  /\ req[r] = Idle
  /\ Valid(t) /\ Active(sess[t].user)
  /\ req' = [req EXCEPT ![r] = [found |-> "valid", user |-> sess[t].user, token |-> t,
                                spent |-> sess[t].spent, raced |-> FALSE]]
  /\ UNCHANGED <<row, sess, lock, closing>>

(* A revoked session is presented: those of the user are revoked, and the  *)
(* exception that tells the client takes the revocation back.              *)
RefreshReused(r, t) ==
  /\ req[r] = Idle
  /\ Reused(t)
  /\ req' = [req EXCEPT ![r] = [found |-> "refused", user |-> sess[t].user]]
  /\ UNCHANGED <<row, sess, lock, closing>>

(* The old session is revoked and replaced, whatever it is by now. *)
Rotated(t, spent, raced) ==
  Append([sess EXCEPT ![t].revoked = TRUE, ![t].spent = TRUE],
         NewSession(sess[t].user, sess[t].root,
                    sess[t].twin \/ (sess[t].spent /\ ~spent), raced \/ sess[t].raced))

RefreshCommit(r) ==
  /\ req[r].found = "valid" /\ Len(sess) < MaxSessions
  /\ sess' = Rotated(req[r].token, req[r].spent, req[r].raced)
  /\ req' = [req EXCEPT ![r] = Idle]
  /\ UNCHANGED <<row, lock, closing>>

(* A request ends: one that was refused, or one whose transaction fails. *)
RequestEnds(r) ==
  /\ req[r].found \in {"refused", "valid", "cleared"}
  /\ req' = [req EXCEPT ![r] = Idle]
  /\ UNCHANGED <<row, sess, lock, closing>>

(***************************************************************************)
(* Requests of a signed-in user                                            *)
(***************************************************************************)

(* An access token outlives the session it came with; the row decides. *)
Authenticated(u) == Active(u)

Logout(t) ==
  /\ Authenticated(sess[t].user)
  /\ sess' = [sess EXCEPT ![t].revoked = TRUE]
  /\ UNCHANGED <<row, lock, req, closing>>

Writing == {"passed", "cleared", "valid"}

(* UPDATE sessions ... WHERE user_id = u AND NOT is_revoked is executed:   *)
(* it sees the rows committed by now.  One such request per user at a time *)
(* (bound).                                                                *)
Revoke(u, does) ==
  /\ closing[u] = Open
  /\ closing' = [closing EXCEPT ![u] = [does |-> does, active |-> Active(u),
                                        upto |-> Len(sess)]]
  /\ UNCHANGED <<row, sess, lock, req>>

(* The request commits: the rows it saw are revoked.  Those added since    *)
(* are not, nor are those that requests under way will add.                *)
RevokeAll(u) ==
  /\ closing[u] # Open
  /\ sess' = [t \in DOMAIN sess |->
                [sess[t] EXCEPT
                   !.revoked = @ \/ (sess[t].user = u /\ t <= closing[u].upto),
                   !.raced = @ \/ (sess[t].user = u /\ t > closing[u].upto)]]
  /\ req' = [r \in Request |->
               IF req[r].found \in Writing /\ req[r].user = u
               THEN [req[r] EXCEPT !.raced = TRUE] ELSE req[r]]
  /\ closing' = [closing EXCEPT ![u] = Open]
  /\ UNCHANGED lock

RevokeCommit(u) ==
  /\ closing[u].does = "revoke"
  /\ RevokeAll(u)
  /\ UNCHANGED row

(* The transaction fails: nothing is revoked. *)
RevokeFails(u) ==
  /\ closing[u] # Open
  /\ closing' = [closing EXCEPT ![u] = Open]
  /\ UNCHANGED <<row, sess, lock, req>>

LogoutAll(u) == Authenticated(u) /\ Revoke(u, "revoke")

MfaSetup(u) ==
  /\ Authenticated(u) /\ RowFree(u) /\ ~row[u].mfa
  /\ row' = [row EXCEPT ![u].secret = TRUE]
  /\ UNCHANGED <<sess, lock, req, closing>>

MfaVerify(u) ==
  /\ Authenticated(u) /\ RowFree(u) /\ row[u].secret
  /\ row' = [row EXCEPT ![u].mfa = TRUE]
  /\ UNCHANGED <<sess, lock, req, closing>>

MfaDisable(u) ==
  /\ Authenticated(u) /\ RowFree(u) /\ row[u].mfa /\ CodeAccepted(u, TRUE)
  /\ row' = [row EXCEPT ![u].mfa = FALSE, ![u].secret = FALSE]
  /\ UNCHANGED <<sess, lock, req, closing>>

(***************************************************************************)
(* Requests of an administrator                                            *)
(***************************************************************************)

CreateUser(u) ==
  /\ row[u].status = "absent"
  /\ row' = [row EXCEPT ![u].status = "active"]
  /\ UNCHANGED <<sess, lock, req, closing>>

(* PATCH /users/{id} sets is_active like any other field. *)
UpdateUser(u, active) ==
  /\ row[u].status # "absent" /\ RowFree(u) /\ active # Active(u)
  /\ row' = [row EXCEPT ![u].status = IF active THEN "active" ELSE "off"]
  /\ UNCHANGED <<sess, lock, req, closing>>

(* Not refused for a user who has been anonymised. *)
ActivateUser(u) ==
  /\ row[u].status # "absent" /\ RowFree(u)
  /\ row' = [row EXCEPT ![u].status = "active"]
  /\ UNCHANGED <<sess, lock, req, closing>>

DeactivateUser(u) == row[u].status # "absent" /\ Revoke(u, "deactivate")

AnonymiseUser(u) == row[u].status # "absent" /\ Revoke(u, "erase")

RevokeUserSessions(u) == row[u].status # "absent" /\ Revoke(u, "revoke")

(* is_active is written only if it was loaded as true: a user who was off  *)
(* and has been activated meanwhile stays active.                          *)
Ended(u) ==
  IF closing[u].active \/ ~Active(u) THEN "deactivated" ELSE row[u].status

DeactivateCommit(u) ==
  /\ closing[u].does = "deactivate" /\ RowFree(u)
  /\ row' = [row EXCEPT ![u].status = Ended(u)]
  /\ RevokeAll(u)

EraseKeepHash(u) ==
  /\ closing[u].does = "erase" /\ RowFree(u)
  /\ row' = [row EXCEPT ![u] = [@ EXCEPT !.status = Ended(u), !.erased = TRUE,
                                         !.secret = FALSE]]
  /\ RevokeAll(u)

EraseCommit(u) ==
  /\ closing[u].does = "erase" /\ RowFree(u)
  /\ row' = [row EXCEPT ![u] = [@ EXCEPT !.status = Ended(u), !.hash = FALSE,
                                         !.erased = TRUE, !.secret = FALSE]]
  /\ RevokeAll(u)

(***************************************************************************)
(* Specification                                                           *)
(***************************************************************************)

RequestStep(r) ==
  \/ \E u \in User, password, code \in BOOLEAN : LoginCheck(r, u, password, code)
  \/ LoginFailed(r) \/ LoginCleared(r) \/ LoginCommit(r)
  \/ \E t \in DOMAIN sess : RefreshRead(r, t) \/ RefreshReused(r, t)
  \/ RefreshCommit(r) \/ RequestEnds(r)

UserStep(u) ==
  \/ LogoutAll(u) \/ MfaSetup(u) \/ MfaVerify(u) \/ MfaDisable(u)
  \/ CreateUser(u) \/ DeactivateUser(u) \/ ActivateUser(u)
  \/ AnonymiseUser(u) \/ RevokeUserSessions(u)
  \/ RevokeCommit(u) \/ DeactivateCommit(u) \/ EraseCommit(u) \/ RevokeFails(u)
  \/ \E active \in BOOLEAN : UpdateUser(u, active)

Next ==
  \/ \E r \in Request : RequestStep(r)
  \/ \E u \in User : UserStep(u)
  \/ \E t \in DOMAIN sess : Logout(t)
  \/ Tick

Spec == Init /\ [][Next]_vars

(* Time passes; no request has to come or to end. *)
FairSpec == Spec /\ WF_vars(Tick)

(***************************************************************************)
(* Properties                                                              *)
(***************************************************************************)

(* The check and the increment of a counter are apart, so requests under  *)
(* way together may all pass the check: the limit is overrun by as many as *)
(* there are less one, never by more.                                      *)
LockoutBounds ==
  \A k \in Key : lock[k].n <= MaxAttempts - 1 + Cardinality(Request)

(* What deactivation and erasure promise: the user has no live session,    *)
(* except one that comes from a sign-in or refresh that overlapped them.   *)
(* For a user who was erased this lasts: activated again, the account      *)
(* still has no way in.                                                    *)
RevocationHolds ==
  \A t \in DOMAIN sess :
    LET u == sess[t].user
    IN  row[u].status = "deactivated" \/ row[u].erased =>
          sess[t].revoked \/ sess[t].raced

(* "Revoke all active sessions" (user_service.py): a user who is           *)
(* deactivated has none left.                                              *)
NoSessionLeft ==
  \A t \in DOMAIN sess :
    row[sess[t].user].status = "deactivated" => sess[t].revoked

(* The sessions that come from one sign-in are a chain of which only the   *)
(* last is live, however many refreshes, log-outs and revocations go on at *)
(* a time; the sessions of refreshes that overlapped the one which         *)
(* replaced their session aside.                                           *)
RotationSpends ==
  \A s, t \in DOMAIN sess :
    s < t /\ sess[s].root = sess[t].root /\ ~sess[s].twin /\ ~sess[t].twin =>
      sess[s].revoked

(* "every use issues a new refresh token and invalidates the old one"      *)
(* (SPEC 4.1): one sign-in never has two live tokens.                      *)
OneTokenPerSignIn ==
  \A s, t \in DOMAIN sess :
    s < t /\ sess[s].root = sess[t].root => sess[s].revoked \/ sess[t].revoked

(* A lockout ends by itself: attempts made while it lasts do not prolong it. *)
LockoutEnds == \A k \in Key : Locked(k) ~> ~Locked(k)

(* "Double-spend: using a revoked refresh token must revoke ALL sessions"  *)
(* (test_auth.py): after the refusal no session of the user is live.       *)
ReuseRevokesAll ==
  \A r \in Request : req[r].found = "refused" =>
    \A t \in DOMAIN sess : sess[t].user = req[r].user => sess[t].revoked

=============================================================================
