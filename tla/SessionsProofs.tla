---------------------------- MODULE SessionsProofs ----------------------------
(***************************************************************************)
(* The safety of Sessions for any number of users, requests under way,     *)
(* sessions, and any limit of attempts.                                    *)
(***************************************************************************)
EXTENDS Sessions, FiniteSetTheorems, SequenceTheorems, TLAPS

Requests == {Idle} \cup Login \cup Refresh \cup Refusal
Locks == [Key -> [n : Nat, ttl : 0..Duration]]
Closings == [User -> {Open} \cup Closing]

(* What a refresh has read of a session, what a sign-in adds, and what a   *)
(* refresh leaves of its session and adds.                                 *)
Seen(t) == [found |-> "valid", user |-> sess[t].user, token |-> t,
            spent |-> sess[t].spent, raced |-> FALSE]
SignIn(u, raced) == NewSession(u, Len(sess) + 1, FALSE, raced)
Spent(t) == [sess[t] EXCEPT !.revoked = TRUE, !.spent = TRUE]
Heir(t, spent, raced) ==
  NewSession(sess[t].user, sess[t].root, sess[t].twin \/ (sess[t].spent /\ ~spent),
             raced \/ sess[t].raced)

(* What the helpers of Sessions return. *)

\* A failed attempt leaves counters.
LEMMA RecordedIsLock == ASSUME TypeOK, NEW u \in User PROVE Recorded(u) \in Locks
<1>1. Cardinality(Request) \in Nat
  BY FS_CardinalityType, ConstantsOK
<1>2. Duration \in 0..Duration
  BY ConstantsOK
<1>3. \A k \in Key : lock[k].n \in Nat /\ lock[k] \in [n : Nat, ttl : 0..Duration]
  BY DEF TypeOK
<1> QED
  BY <1>1, <1>2, <1>3, ConstantsOK DEF Recorded, Locks

\* A sign-in that succeeds leaves counters.
LEMMA ClearedIsLock == ASSUME TypeOK, NEW u \in User PROVE ClearLockout(u) \in Locks
  BY ConstantsOK DEF TypeOK, ClearLockout, Locks

\* Time leaves counters.
LEMMA TickIsLock == ASSUME TypeOK, Tick PROVE lock' \in Locks
<1>1. \A k \in Key : lock[k].n \in Nat /\ lock[k].ttl \in 0..Duration
                       /\ lock[k] \in [n : Nat, ttl : 0..Duration]
  BY DEF TypeOK
<1>2. ASSUME NEW k \in Key, lock[k].ttl > 1
      PROVE  [lock[k] EXCEPT !.ttl = lock[k].ttl - 1] \in [n : Nat, ttl : 0..Duration]
  <2>1. lock[k].ttl - 1 \in 0..Duration
    BY <1>1, <1>2, ConstantsOK
  <2> QED
    BY <1>1, <2>1
<1> QED
  BY <1>1, <1>2, ConstantsOK DEF Tick, Locks

\* Setting fields of a user row leaves a user row.
LEMMA UserRows ==
  ASSUME TypeOK, NEW u \in User
  PROVE  row[u] \in UserRow
  BY DEF TypeOK

\* A session of the table is a session, and names a user.
LEMMA SessionRows ==
  ASSUME TypeOK
  PROVE  /\ Len(sess) \in Nat /\ DOMAIN sess = 1..Len(sess)
         /\ \A t \in DOMAIN sess : sess[t] \in SessionRow /\ sess[t].user \in User
<1>1. sess \in Seq(SessionRow)
  BY DEF TypeOK
<1>2. Len(sess) \in Nat /\ DOMAIN sess = 1..Len(sess)
  BY <1>1, LenProperties
<1>3. \A t \in 1..Len(sess) : sess[t] \in SessionRow
  BY <1>1, ElementOfSeq
<1> QED
  BY <1>2, <1>3 DEF SessionRow

\* Revoking one session leaves the others as they are.
LEMMA RevokeOne ==
  ASSUME TypeOK, NEW t \in DOMAIN sess
  PROVE  LET s == [sess EXCEPT ![t].revoked = TRUE] IN
         /\ s \in Seq(SessionRow) /\ Len(s) = Len(sess)
         /\ \A x \in DOMAIN sess :
              s[x] = IF x = t THEN [sess[t] EXCEPT !.revoked = TRUE] ELSE sess[x]
<1>1. sess \in Seq(SessionRow) /\ t \in 1..Len(sess)
  BY SessionRows DEF TypeOK
<1>2. [sess[t] EXCEPT !.revoked = TRUE] \in SessionRow
  BY SessionRows DEF SessionRow
<1>3. [sess EXCEPT ![t].revoked = TRUE] = [sess EXCEPT ![t] = [sess[t] EXCEPT !.revoked = TRUE]]
  BY <1>1
<1> QED
  BY <1>1, <1>2, <1>3, ExceptSeq, SessionRows

\* A session is added behind the others.
LEMMA Added ==
  ASSUME NEW s \in Seq(SessionRow), NEW x \in SessionRow
  PROVE  /\ Append(s, x) \in Seq(SessionRow) /\ Len(Append(s, x)) = Len(s) + 1
         /\ DOMAIN Append(s, x) = 1..(Len(s) + 1) /\ DOMAIN s = 1..Len(s) /\ Len(s) \in Nat
         /\ \A i \in 1..Len(s) : Append(s, x)[i] = s[i]
         /\ Append(s, x)[Len(s) + 1] = x
  BY AppendProperties, LenProperties

\* What a sign-in adds to the table.
LEMMA SignedIn ==
  ASSUME TypeOK, NEW u \in User, NEW b \in BOOLEAN, sess' = Append(sess, SignIn(u, b))
  PROVE  /\ sess' \in Seq(SessionRow) /\ Len(sess') = Len(sess) + 1
         /\ DOMAIN sess' = 1..(Len(sess) + 1)
         /\ \A x \in DOMAIN sess : sess'[x] = sess[x]
         /\ sess'[Len(sess) + 1] = SignIn(u, b)
<1>1. sess \in Seq(SessionRow) /\ SignIn(u, b) \in SessionRow
  BY SessionRows DEF TypeOK, SignIn, NewSession, SessionRow
<1> QED
  BY <1>1, Added

\* A session that is replaced, and the one that replaces it, are sessions.
LEMMA HeirIsRow ==
  ASSUME TypeOK, NEW t \in DOMAIN sess, NEW a \in BOOLEAN, NEW b \in BOOLEAN
  PROVE  Spent(t) \in SessionRow /\ Heir(t, a, b) \in SessionRow
<1>1. sess[t] \in SessionRow
  BY SessionRows
<1>2. Spent(t) \in SessionRow
  BY <1>1 DEF Spent, SessionRow
<1>3. /\ sess[t].user \in User /\ sess[t].root \in Nat
      /\ (sess[t].twin \/ (sess[t].spent /\ ~a)) \in BOOLEAN
      /\ (b \/ sess[t].raced) \in BOOLEAN
  BY <1>1 DEF SessionRow
<1> QED
  BY <1>2, <1>3 DEF Heir, NewSession, SessionRow

\* What a refresh does to the table.
LEMMA Rotates ==
  ASSUME TypeOK, NEW t \in DOMAIN sess, NEW a \in BOOLEAN, NEW b \in BOOLEAN,
         sess' = Rotated(t, a, b)
  PROVE  /\ sess' \in Seq(SessionRow) /\ Len(sess') = Len(sess) + 1
         /\ DOMAIN sess' = 1..(Len(sess) + 1)
         /\ \A x \in DOMAIN sess : sess'[x] = IF x = t THEN Spent(t) ELSE sess[x]
         /\ sess'[Len(sess) + 1] = Heir(t, a, b)
<1> DEFINE s == [sess EXCEPT ![t].revoked = TRUE, ![t].spent = TRUE]
           n == Heir(t, a, b)
<1>1. sess \in Seq(SessionRow) /\ t \in 1..Len(sess) /\ DOMAIN sess = 1..Len(sess)
  BY SessionRows DEF TypeOK
<1>2. Spent(t) \in SessionRow /\ n \in SessionRow
  BY HeirIsRow
<1>3. s = [sess EXCEPT ![t] = Spent(t)]
  BY <1>1 DEF Spent
<1>4. s \in Seq(SessionRow) /\ Len(s) = Len(sess)
      /\ \A x \in DOMAIN sess : s[x] = IF x = t THEN Spent(t) ELSE sess[x]
  <2> HIDE DEF s
  <2> QED
    BY <1>1, <1>2, <1>3, ExceptSeq
<1>5. sess' = Append(s, n)
  BY DEF Rotated, Heir
<1> HIDE DEF s, n
<1>6. /\ sess' \in Seq(SessionRow) /\ Len(sess') = Len(s) + 1
      /\ DOMAIN sess' = 1..(Len(s) + 1) /\ \A i \in 1..Len(s) : sess'[i] = s[i]
      /\ sess'[Len(s) + 1] = n
  BY <1>2, <1>4, <1>5, Added
<1>7. \A x \in DOMAIN sess : sess'[x] = s[x]
  BY <1>1, <1>4, <1>6
<1>8. \A x \in DOMAIN sess : sess'[x] = IF x = t THEN Spent(t) ELSE sess[x]
  BY <1>4, <1>7, Zenon
<1> QED
  BY <1>4, <1>6, <1>8 DEF n

(* What the commit of a revocation of all sessions leaves of a session.    *)
Struck(u, t) ==
  [sess[t] EXCEPT !.revoked = sess[t].revoked \/ (sess[t].user = u /\ t <= closing[u].upto),
                  !.raced = sess[t].raced \/ (sess[t].user = u /\ t > closing[u].upto)]

\* A revocation of all sessions has seen a number of rows.
LEMMA SeenRows ==
  ASSUME TypeOK, NEW u \in User, closing[u] # Open
  PROVE  closing[u] \in Closing /\ closing[u].upto \in Nat /\ closing[u].active \in BOOLEAN
  BY DEF TypeOK, Closing

\* What a revocation of all sessions of a user does.
LEMMA Revoked ==
  ASSUME TypeOK, NEW u \in User, RevokeAll(u)
  PROVE  /\ sess' \in Seq(SessionRow) /\ Len(sess') = Len(sess) /\ DOMAIN sess' = DOMAIN sess
         /\ req' \in [Request -> Requests]
         /\ closing' \in Closings
         /\ \A x \in DOMAIN sess : sess'[x] = Struck(u, x)
<1>1. \A x \in DOMAIN sess : Struck(u, x) \in SessionRow
  BY SessionRows DEF SessionRow, Struck
<1>2. sess' = [x \in DOMAIN sess |-> Struck(u, x)]
  BY DEF RevokeAll, Struck
<1>3. sess' \in [1..Len(sess) -> SessionRow] /\ DOMAIN sess' = DOMAIN sess
  BY <1>1, <1>2, SessionRows
<1>4. sess' \in Seq(SessionRow) /\ DOMAIN sess' = 1..Len(sess)
  BY <1>3, SeqDef, SessionRows
<1>5. Len(sess') = Len(sess)
  BY <1>4, LenProperties, SessionRows
<1>6. ASSUME NEW r \in Request, req[r].found \in Writing
      PROVE  [req[r] EXCEPT !.raced = TRUE] \in Requests
  BY <1>6 DEF TypeOK, Writing, Requests, Idle, Login, Refresh, Refusal
<1>7. req' \in [Request -> Requests]
  BY <1>6 DEF RevokeAll, TypeOK, Requests
<1>8. closing' \in Closings
  BY DEF RevokeAll, TypeOK, Closings
<1> QED
  BY <1>2, <1>3, <1>4, <1>5, <1>7, <1>8
-----------------------------------------------------------------------------
(* Type correctness: a refresh names a session there is, or writing would  *)
(* leave no table of sessions.                                             *)

TokenKnown(r) ==
  req[r].found = "valid" =>
    /\ req[r] \in Refresh /\ req[r].token \in DOMAIN sess
    /\ sess[req[r].token].user = req[r].user

Typed == TypeOK /\ \A r \in Request : TokenKnown(r)

\* The tables start out as tables.
LEMMA TypeInit == Init => TypeOK
<1> SUFFICES ASSUME Init PROVE TypeOK
  OBVIOUS
<1>1. sess \in Seq(SessionRow)
  BY EmptySeq DEF Init
<1>2. lock \in Locks
  BY ConstantsOK DEF Init, Locks
<1>3. row \in [User -> UserRow]
  BY DEF Init, UserRow
<1>4. req \in [Request -> Requests]
  BY DEF Init, Requests
<1>5. closing \in Closings
  BY DEF Init, Closings
<1> QED
  BY <1>1, <1>2, <1>3, <1>4, <1>5 DEF TypeOK, Locks, Requests, Closings

\* A step of a sign-in or refresh keeps the types.
LEMMA RequestType == ASSUME Typed, NEW r \in Request, RequestStep(r) PROVE TypeOK'
<1>0. /\ row \in [User -> UserRow] /\ sess \in Seq(SessionRow) /\ lock \in Locks
      /\ req \in [Request -> Requests] /\ req[r] \in Requests /\ TypeOK
  BY DEF Typed, TypeOK, Locks, Requests
<1> SUFFICES /\ row' \in [User -> UserRow] /\ sess' \in Seq(SessionRow) /\ lock' \in Locks
             /\ req' \in [Request -> Requests]
  <2>1. closing' = closing
    BY DEF RequestStep, LoginCheck, LoginFailed, LoginCleared, LoginCommit, RefreshRead,
           RefreshReused, RefreshCommit, RequestEnds
  <2>2. closing' \in Closings
    BY <1>0, <2>1 DEF TypeOK, Closings
  <2> QED
    BY <2>2 DEF TypeOK, Locks, Requests, Closings
<1>1. ASSUME NEW u \in User, NEW password \in BOOLEAN, NEW code \in BOOLEAN,
             LoginCheck(r, u, password, code)
      PROVE  req' \in [Request -> Requests]
  <2>1. [found |-> Verdict(u, password, code), user |-> u, raced |-> FALSE] \in Login
    BY DEF Verdict, Login
  <2> QED
    BY <1>0, <1>1, <2>1 DEF LoginCheck, Requests
<1>2. ASSUME req[r].found = "failed" \/ req[r].found = "passed" \/ req[r].found = "cleared"
      PROVE  req[r] \in Login /\ req[r].user \in User /\ req[r].raced \in BOOLEAN
  BY <1>0, <1>2 DEF Requests, Idle, Login, Refresh, Refusal
<1>3. CASE LoginFailed(r)
  BY <1>0, <1>2, <1>3, RecordedIsLock DEF LoginFailed, Requests
<1>4. CASE LoginCleared(r)
  <2>1. [req[r] EXCEPT !.found = "cleared"] \in Login
    BY <1>2, <1>4 DEF LoginCleared, Login
  <2> QED
    BY <1>0, <1>2, <1>4, <2>1, ClearedIsLock DEF LoginCleared, Requests
<1>5. CASE LoginCommit(r)
  BY <1>0, <1>2, <1>5, SignedIn DEF LoginCommit, Requests, SignIn
<1>6. ASSUME NEW t \in DOMAIN sess, RefreshRead(r, t) PROVE req' \in [Request -> Requests]
  <2>1. Seen(t) \in Refresh
    <3>1. t \in Nat /\ sess[t] \in SessionRow
      BY <1>0, SessionRows
    <3> QED
      BY <3>1 DEF Refresh, Seen, SessionRow
  <2> QED
    BY <1>0, <1>6, <2>1 DEF RefreshRead, Requests, Seen
<1>7. ASSUME NEW t \in DOMAIN sess, RefreshReused(r, t) PROVE req' \in [Request -> Requests]
  <2>1. [found |-> "refused", user |-> sess[t].user] \in Refusal
    BY <1>0, SessionRows DEF Refusal
  <2> QED
    BY <1>0, <1>7, <2>1 DEF RefreshReused, Requests
<1>8. CASE RefreshCommit(r)
  <2>1. /\ req[r].token \in DOMAIN sess /\ req[r].raced \in BOOLEAN
        /\ req[r].spent \in BOOLEAN
    BY <1>8 DEF RefreshCommit, Typed, TokenKnown, Refresh
  <2> QED
    BY <1>0, <1>8, <2>1, Rotates DEF RefreshCommit, Requests
<1>9. CASE RequestEnds(r)
  BY <1>0, <1>9 DEF RequestEnds, Requests
<1> QED
  BY <1>0, <1>1, <1>3, <1>4, <1>5, <1>6, <1>7, <1>8, <1>9
  DEF RequestStep, LoginCheck, RefreshRead, RefreshReused

\* What the commit of a deactivation makes of a user.
LEMMA EndedIs ==
  ASSUME NEW u \in User PROVE Ended(u) \in {"active", "deactivated"}
  BY DEF Ended, Active

\* A request of a user or an administrator keeps the types.
LEMMA UserType == ASSUME TypeOK, NEW u \in User, UserStep(u) PROVE TypeOK'
<1>0. /\ row \in [User -> UserRow] /\ sess \in Seq(SessionRow) /\ lock \in Locks
      /\ req \in [Request -> Requests] /\ closing \in Closings /\ row[u] \in UserRow
  BY DEF TypeOK, Locks, Requests, Closings
<1>1. ASSUME RevokeAll(u)
      PROVE  /\ sess' \in Seq(SessionRow) /\ lock' \in Locks
             /\ req' \in [Request -> Requests] /\ closing' \in Closings
  BY <1>0, <1>1, Revoked DEF RevokeAll
<1>2. ASSUME ~RevokeAll(u)
      PROVE  /\ sess' \in Seq(SessionRow) /\ lock' \in Locks
             /\ req' \in [Request -> Requests] /\ closing' \in Closings
  <2>1. /\ UNCHANGED <<sess, lock, req>>
        /\ closing' = closing \/ closing' = [closing EXCEPT ![u] = Open]
           \/ \E does \in {"revoke", "deactivate", "erase"} :
                closing' = [closing EXCEPT ![u] = [does |-> does, active |-> Active(u),
                                                   upto |-> Len(sess)]]
    BY <1>2 DEF UserStep, LogoutAll, RevokeUserSessions, MfaSetup, MfaVerify, MfaDisable,
              CreateUser, ActivateUser, UpdateUser, DeactivateUser, AnonymiseUser,
              Revoke, RevokeCommit, DeactivateCommit, EraseCommit, RevokeFails
  <2>2. ASSUME NEW does \in {"revoke", "deactivate", "erase"}
        PROVE  [does |-> does, active |-> Active(u), upto |-> Len(sess)] \in Closing
    BY SessionRows DEF Closing, Active
  <2>3. closing' \in Closings
    BY <1>0, <2>1, <2>2 DEF Closings
  <2> QED
    BY <1>0, <2>1, <2>3
<1>3. ASSUME NEW status \in {"active", "off", "deactivated"}, NEW b \in BOOLEAN
      PROVE  /\ [row[u] EXCEPT !.status = status] \in UserRow
             /\ [row[u] EXCEPT !.secret = b] \in UserRow
             /\ [row[u] EXCEPT !.mfa = b] \in UserRow
             /\ [row[u] EXCEPT !.mfa = FALSE, !.secret = FALSE] \in UserRow
             /\ [row[u] EXCEPT !.status = status, !.hash = FALSE, !.erased = TRUE,
                               !.secret = FALSE] \in UserRow
  BY <1>0 DEF UserRow
<1>4. ASSUME MfaSetup(u) PROVE row' \in [User -> UserRow]
  <2>1. row' = [row EXCEPT ![u] = [row[u] EXCEPT !.secret = TRUE]]
    BY <1>0, <1>4 DEF MfaSetup
  <2> QED
    BY <1>0, <1>3, <2>1
<1>5. ASSUME MfaVerify(u) PROVE row' \in [User -> UserRow]
  <2>1. row' = [row EXCEPT ![u] = [row[u] EXCEPT !.mfa = TRUE]]
    BY <1>0, <1>5 DEF MfaVerify
  <2> QED
    BY <1>0, <1>3, <2>1
<1>6. ASSUME MfaDisable(u) PROVE row' \in [User -> UserRow]
  <2>1. row' = [row EXCEPT ![u] = [row[u] EXCEPT !.mfa = FALSE, !.secret = FALSE]]
    BY <1>0, <1>6 DEF MfaDisable
  <2> QED
    BY <1>0, <1>3, <2>1
<1>7. ASSUME NEW status \in {"active", "off", "deactivated"},
             row' = [row EXCEPT ![u].status = status]
      PROVE  row' \in [User -> UserRow]
  <2>1. row' = [row EXCEPT ![u] = [row[u] EXCEPT !.status = status]]
    BY <1>0, <1>7
  <2> QED
    BY <1>0, <1>3, <2>1
<1>8. ASSUME CreateUser(u) \/ ActivateUser(u) PROVE row' \in [User -> UserRow]
  BY <1>7, <1>8 DEF CreateUser, ActivateUser
<1>9. ASSUME DeactivateCommit(u) PROVE row' \in [User -> UserRow]
  BY <1>7, <1>9, EndedIs DEF DeactivateCommit
<1>10. ASSUME EraseCommit(u) PROVE row' \in [User -> UserRow]
  <2>1. row' = [row EXCEPT ![u] = [row[u] EXCEPT !.status = Ended(u), !.hash = FALSE,
                                                 !.erased = TRUE, !.secret = FALSE]]
    BY <1>10 DEF EraseCommit
  <2>2. [row[u] EXCEPT !.status = Ended(u), !.hash = FALSE, !.erased = TRUE,
                       !.secret = FALSE] \in UserRow
    BY <1>3, EndedIs
  <2> QED
    BY <1>0, <2>1, <2>2
<1>11. ASSUME NEW active \in BOOLEAN, UpdateUser(u, active) PROVE row' \in [User -> UserRow]
  <2>1. row' = [row EXCEPT ![u].status = IF active THEN "active" ELSE "off"]
    BY <1>11 DEF UpdateUser
  <2> QED
    BY <1>7, <2>1
<1>12. row' \in [User -> UserRow]
  <2>1. CASE UNCHANGED row
    BY <1>0, <2>1
  <2>2. CASE ~(UNCHANGED row)
    BY <1>4, <1>5, <1>6, <1>8, <1>9, <1>10, <1>11, <2>2
    DEF UserStep, LogoutAll, RevokeUserSessions, DeactivateUser, AnonymiseUser, Revoke,
        RevokeCommit, RevokeFails
  <2> QED
    BY <2>1, <2>2
<1>13. /\ sess' \in Seq(SessionRow) /\ lock' \in Locks
             /\ req' \in [Request -> Requests] /\ closing' \in Closings
  BY <1>1, <1>2
<1> QED
  BY <1>12, <1>13 DEF TypeOK, Locks, Requests, Closings

\* Every step keeps the types.
LEMMA TypeStep == Typed /\ [Next]_vars => TypeOK'
<1> SUFFICES ASSUME Typed, [Next]_vars PROVE TypeOK'
  OBVIOUS
<1>0. TypeOK
  BY DEF Typed
<1>1. ASSUME NEW r \in Request, RequestStep(r) PROVE TypeOK'
  BY <1>1, RequestType
<1>2. ASSUME NEW u \in User, UserStep(u) PROVE TypeOK'
  BY <1>0, <1>2, UserType
<1>3. ASSUME NEW t \in DOMAIN sess, Logout(t) PROVE TypeOK'
  BY <1>0, <1>3, RevokeOne DEF Logout, TypeOK
<1>4. CASE Tick
  BY <1>0, <1>4, TickIsLock DEF Tick, TypeOK, Locks
<1>5. CASE UNCHANGED vars
  BY <1>0, <1>5 DEF vars, TypeOK
<1> QED
  BY <1>1, <1>2, <1>3, <1>4, <1>5 DEF Next

(* What a step leaves of a session: it is revoked, spent and raced once     *)
(* and for all, and what is revoked by a refresh is spent.                 *)
Stays(t, new) ==
  /\ new.user = sess[t].user /\ new.root = sess[t].root /\ new.twin = sess[t].twin
  /\ sess[t].revoked => new.revoked
  /\ sess[t].spent => new.spent
  /\ new.spent => sess[t].spent \/ new.revoked
  /\ sess[t].raced => new.raced

LEMMA SessionsStay ==
  ASSUME Typed, [Next]_vars
  PROVE  \A t \in DOMAIN sess : t \in DOMAIN sess' /\ Stays(t, sess'[t])
<1>0. TypeOK /\ (\A t \in DOMAIN sess : sess[t] \in SessionRow)
  BY SessionRows DEF Typed
<1> SUFFICES ASSUME NEW t \in DOMAIN sess PROVE t \in DOMAIN sess' /\ Stays(t, sess'[t])
  OBVIOUS
<1>a. /\ Stays(t, sess[t]) /\ Stays(t, Spent(t))
      /\ Stays(t, [sess[t] EXCEPT !.revoked = TRUE])
  <2>1. sess[t] \in SessionRow
    BY <1>0
  <2> QED
    BY <2>1 DEF Stays, Spent, SessionRow
<1>b. ASSUME NEW u \in User PROVE Stays(t, Struck(u, t))
  <2>1. sess[t] \in SessionRow
    BY <1>0
  <2> QED
    BY <2>1 DEF Stays, Struck, SessionRow
<1>1. ASSUME NEW r \in Request, RequestStep(r), sess' # sess
      PROVE  LoginCommit(r) \/ RefreshCommit(r)
  BY <1>1 DEF RequestStep, LoginCheck, LoginFailed, LoginCleared, RefreshRead, RefreshReused,
              RequestEnds
<1>2. ASSUME NEW r \in Request, LoginCommit(r)
      PROVE  t \in DOMAIN sess' /\ sess'[t] = sess[t]
  <2>1. req[r].user \in User /\ req[r].raced \in BOOLEAN
    BY <1>0, <1>2 DEF LoginCommit, TypeOK, Idle, Login, Refresh, Refusal
  <2> QED
    BY <1>0, <1>2, <2>1, SignedIn, SessionRows DEF LoginCommit, SignIn
<1>3. ASSUME NEW r \in Request, RefreshCommit(r)
      PROVE  /\ t \in DOMAIN sess'
             /\ sess'[t] = sess[t] \/ sess'[t] = Spent(t)
  <2>1. PICK k \in DOMAIN sess, a \in BOOLEAN, b \in BOOLEAN : sess' = Rotated(k, a, b)
    BY <1>3 DEF RefreshCommit, Typed, TokenKnown, Refresh
  <2>2. DOMAIN sess' = 1..(Len(sess) + 1) /\ sess'[t] = IF t = k THEN Spent(k) ELSE sess[t]
    BY <1>0, <2>1, Rotates
  <2>3. t \in DOMAIN sess'
    BY <1>0, <2>2, SessionRows
  <2> QED
    BY <2>2, <2>3
<1>4. ASSUME NEW x \in DOMAIN sess, Logout(x)
      PROVE  /\ t \in DOMAIN sess'
             /\ sess'[t] = sess[t] \/ sess'[t] = [sess[t] EXCEPT !.revoked = TRUE]
  BY <1>0, <1>4, RevokeOne DEF Logout
<1>5. ASSUME NEW u \in User, RevokeAll(u)
      PROVE  t \in DOMAIN sess' /\ sess'[t] = Struck(u, t)
  BY <1>0, <1>5, Revoked
<1>6. ASSUME NEW u \in User, UserStep(u), sess' # sess PROVE RevokeAll(u)
  BY <1>6 DEF UserStep, LogoutAll, RevokeUserSessions, MfaSetup, MfaVerify, MfaDisable,
              CreateUser, ActivateUser, UpdateUser, DeactivateUser, AnonymiseUser,
              Revoke, RevokeCommit, DeactivateCommit, EraseCommit, RevokeFails
<1>7. CASE UNCHANGED sess
  BY <1>a, <1>7
<1> QED
  BY <1>a, <1>b, <1>1, <1>2, <1>3, <1>4, <1>5, <1>6, <1>7 DEF Next, Tick, vars

\* A refresh under way was so before, or has just read its session.
LEMMA Refreshing ==
  ASSUME Typed, [Next]_vars, NEW r \in Request, req'[r].found = "valid"
  PROVE  \/ /\ req[r].found = "valid"
            /\ req'[r] = req[r] \/ req'[r] = [req[r] EXCEPT !.raced = TRUE]
         \/ \E t \in DOMAIN sess : Valid(t) /\ req'[r] = Seen(t)
<1>0. TypeOK /\ req \in [Request -> Requests]
  BY DEF Typed, TypeOK, Requests
<1>1. ASSUME RequestStep(r)
      PROVE  \E t \in DOMAIN sess : Valid(t) /\ req'[r] = Seen(t)
  <2>1. Idle.found # "valid"
    BY DEF Idle
  <2>2. ASSUME NEW u \in User, NEW password \in BOOLEAN, NEW code \in BOOLEAN,
               LoginCheck(r, u, password, code)
        PROVE  FALSE
    <3>1. req'[r].found = Verdict(u, password, code)
      BY <1>0, <2>2 DEF LoginCheck
    <3> QED
      BY <3>1 DEF Verdict
  <2>3. CASE LoginFailed(r) \/ LoginCommit(r) \/ RefreshCommit(r) \/ RequestEnds(r)
    BY <1>0, <2>1, <2>3 DEF LoginFailed, LoginCommit, RefreshCommit, RequestEnds
  <2>4. CASE LoginCleared(r)
    <3>1. req[r] \in Login
      BY <1>0, <2>4 DEF LoginCleared, Requests, Idle, Login, Refresh, Refusal
    <3>2. [req[r] EXCEPT !.found = "cleared"].found # "valid"
      BY <3>1 DEF Login
    <3> QED
      BY <1>0, <2>4, <3>2 DEF LoginCleared
  <2>5. ASSUME NEW t \in DOMAIN sess, RefreshReused(r, t) PROVE FALSE
    BY <1>0, <2>5 DEF RefreshReused
  <2>6. ASSUME NEW t \in DOMAIN sess, RefreshRead(r, t)
        PROVE  Valid(t) /\ req'[r] = Seen(t)
    BY <1>0, <2>6 DEF RefreshRead, Seen
  <2> QED
    BY <1>1, <2>2, <2>3, <2>4, <2>5, <2>6 DEF RequestStep
<1>2. ASSUME NEW u \in User, UserStep(u), req' # req PROVE RevokeAll(u)
  BY <1>2 DEF UserStep, LogoutAll, RevokeUserSessions, MfaSetup, MfaVerify, MfaDisable,
              CreateUser, ActivateUser, UpdateUser, DeactivateUser, AnonymiseUser,
              Revoke, RevokeCommit, DeactivateCommit, EraseCommit, RevokeFails
<1>3. ASSUME NEW u \in User, RevokeAll(u)
      PROVE  req'[r] = req[r] \/
             (req[r].found \in Writing /\ req'[r] = [req[r] EXCEPT !.raced = TRUE])
  BY <1>3 DEF RevokeAll
<1>4. ASSUME req[r].found \in Writing, req'[r] = [req[r] EXCEPT !.raced = TRUE]
      PROVE  req[r].found = "valid"
  <2>1. req[r] \in Login \cup Refresh
    BY <1>0, <1>4 DEF Requests, Idle, Login, Refresh, Refusal, Writing
  <2>2. req'[r].found = req[r].found
    BY <1>4, <2>1 DEF Login, Refresh
  <2> QED
    BY <2>2
<1>5. CASE req' = req
  BY <1>5
<1>6. ASSUME NEW q \in Request, RequestStep(q), q # r PROVE req'[r] = req[r]
  BY <1>0, <1>6 DEF RequestStep, LoginCheck, LoginFailed, LoginCleared, LoginCommit,
                    RefreshRead, RefreshReused, RefreshCommit, RequestEnds
<1>7. CASE \E q \in Request : RequestStep(q)
  BY <1>1, <1>6, <1>7
<1>8. CASE \E u \in User : UserStep(u) /\ req' # req
  BY <1>2, <1>3, <1>4, <1>8
<1> QED
  BY <1>5, <1>7, <1>8 DEF Next, Logout, Tick, vars

\* Every step leaves a valid refresh its session.
LEMMA TokenStep == Typed /\ [Next]_vars => \A r \in Request : TokenKnown(r)'
<1> SUFFICES ASSUME Typed, [Next]_vars, NEW r \in Request, req'[r].found = "valid"
             PROVE  /\ req'[r] \in Refresh /\ req'[r].token \in DOMAIN sess'
                    /\ sess'[req'[r].token].user = req'[r].user
  BY DEF TokenKnown
<1>0. TypeOK /\ req \in [Request -> Requests] /\ \A t \in DOMAIN sess : sess[t].user \in User
  BY SessionRows DEF Typed, TypeOK, Requests
<1>1. CASE req[r].found = "valid" /\ req'[r] = req[r]
  BY <1>1, SessionsStay DEF Typed, TokenKnown, Stays
<1>2. CASE req[r].found = "valid" /\ req'[r] = [req[r] EXCEPT !.raced = TRUE]
  <2>1. req[r] \in Refresh /\ req[r].token \in DOMAIN sess
        /\ sess[req[r].token].user = req[r].user
    BY <1>2 DEF Typed, TokenKnown
  <2>2. req'[r] \in Refresh /\ req'[r].token = req[r].token /\ req'[r].user = req[r].user
    BY <1>2, <2>1 DEF Refresh
  <2> QED
    BY <2>1, <2>2, SessionsStay DEF Stays
<1>3. ASSUME NEW t \in DOMAIN sess,
             req'[r] = Seen(t)
      PROVE  /\ req'[r] \in Refresh /\ req'[r].token \in DOMAIN sess'
             /\ sess'[req'[r].token].user = req'[r].user
  <2>1. t \in Nat /\ sess[t] \in SessionRow
    BY <1>0, SessionRows
  <2> QED
    BY <1>0, <1>3, <2>1, SessionsStay DEF Refresh, Seen, Stays, SessionRow
<1> QED
  BY <1>1, <1>2, <1>3, Refreshing

\* Tables stay tables.
LEMMA TypedKept == Spec => []Typed
<1>1. Init => Typed
  BY TypeInit DEF Init, Typed, TokenKnown, Idle
<1>2. Typed /\ [Next]_vars => Typed'
  BY TypeStep, TokenStep DEF Typed
<1> QED
  BY <1>1, <1>2, PTL DEF Spec

(* Users, sessions, counters and requests keep their types (Sessions).     *)
THEOREM TypeCorrect == Spec => []TypeOK
  BY TypedKept, PTL DEF Typed
-----------------------------------------------------------------------------
(* Lockout: what a counter may still become is its value and the sign-ins  *)
(* that have passed its check and failed, but have not counted it yet.     *)

Failing(k) == {r \in Request : req[r].found = "failed" /\ k \in {req[r].user, Ip}}

Bounded(k) == lock[k].n + Cardinality(Failing(k)) <= MaxAttempts - 1 + Cardinality(Request)

\* The sign-ins of a counter are finite in number.
LEMMA FailingIsFinite ==
  ASSUME NEW k
  PROVE  /\ IsFiniteSet(Failing(k)) /\ Cardinality(Failing(k)) \in Nat
         /\ Cardinality(Failing(k)) <= Cardinality(Request) /\ Cardinality(Request) \in Nat
<1>1. Failing(k) \in SUBSET Request
  BY DEF Failing
<1> QED
  BY <1>1, FS_Subset, FS_CardinalityType, ConstantsOK

\* A counter that does not grow keeps its bound, if no sign-in joins.
LEMMA BoundKept ==
  ASSUME Typed, NEW k \in Key, Bounded(k), Typed', lock'[k].n <= lock[k].n,
         Failing(k)' \subseteq Failing(k)
  PROVE  Bounded(k)'
<1>1. lock[k].n \in Nat /\ lock'[k].n \in Nat
  BY DEF Typed, TypeOK
<1>2. /\ IsFiniteSet(Failing(k)) /\ Cardinality(Failing(k)) \in Nat
      /\ Cardinality(Request) \in Nat
  BY FailingIsFinite
<1>3. Failing(k)' \in SUBSET Failing(k)
  OBVIOUS
<1> DEFINE F == Failing(k)
           G == Failing(k)'
<1>4. Cardinality(G) \in Nat /\ Cardinality(G) <= Cardinality(F)
  <2> HIDE DEF F, G
  <2>1. IsFiniteSet(F) /\ G \in SUBSET F
    BY <1>2, <1>3 DEF F, G
  <2> QED
    BY <2>1, FS_Subset, FS_CardinalityType
<1>5. Bounded(k)' <=> lock'[k].n + Cardinality(G) <= MaxAttempts - 1 + Cardinality(Request)
  BY DEF Bounded
<1>6. lock[k].n + Cardinality(F) <= MaxAttempts - 1 + Cardinality(Request)
  BY DEF Bounded
<1> HIDE DEF F, G
<1>7. Cardinality(F) \in Nat
  BY <1>2 DEF F
<1> QED
  BY <1>1, <1>2, <1>4, <1>5, <1>6, <1>7, ConstantsOK

\* Every step keeps the bound.
LEMMA BoundStep ==
  ASSUME Typed, [Next]_vars, Typed', \A k \in Key : Bounded(k)
  PROVE  \A k \in Key : Bounded(k)'
<1> SUFFICES ASSUME NEW k \in Key PROVE Bounded(k)'
  OBVIOUS
<1>0. /\ TypeOK /\ req \in [Request -> Requests] /\ lock[k].n \in Nat
      /\ lock'[k].n \in Nat /\ Cardinality(Request) \in Nat
  BY FailingIsFinite DEF Typed, TypeOK, Requests
<1>1. CASE Tick
  <2>1. lock'[k].n <= lock[k].n
    BY <1>0, <1>1 DEF Tick
  <2>2. Failing(k)' = Failing(k)
    BY <1>1 DEF Tick, Failing
  <2> QED
    BY <2>1, <2>2, BoundKept
<1>2. ASSUME UNCHANGED lock, ~\E r \in Request : req'[r] # req[r] /\ req'[r].found = "failed"
      PROVE  Bounded(k)'
  <2>1. Failing(k)' \subseteq Failing(k)
    BY <1>2 DEF Failing
  <2> QED
    BY <1>0, <1>2, <2>1, BoundKept
<1>3. ASSUME NEW u \in User, UserStep(u) PROVE Bounded(k)'
  <2>1. UNCHANGED lock /\ (req' = req \/ RevokeAll(u))
    BY <1>3 DEF UserStep, LogoutAll, RevokeUserSessions, MfaSetup, MfaVerify, MfaDisable,
                CreateUser, ActivateUser, UpdateUser, DeactivateUser, AnonymiseUser, Revoke,
                RevokeCommit, DeactivateCommit, EraseCommit, RevokeFails, RevokeAll
  <2>2. ASSUME NEW r \in Request, req[r].found \in Writing
        PROVE  [req[r] EXCEPT !.raced = TRUE].found # "failed"
    <3>1. req[r] \in Login \cup Refresh
      BY <1>0, <2>2 DEF Requests, Idle, Login, Refresh, Refusal, Writing
    <3> QED
      BY <2>2, <3>1 DEF Login, Refresh, Writing
  <2>3. CASE RevokeAll(u)
    BY <1>2, <2>1, <2>2, <2>3 DEF RevokeAll
  <2> QED
    BY <1>2, <2>1, <2>3
<1>4. ASSUME NEW r \in Request, LoginFailed(r) PROVE Bounded(k)'
  <2>1. req[r].user \in User /\ req'[r] = Idle /\ \A q \in Request \ {r} : req'[q] = req[q]
    BY <1>0, <1>4 DEF LoginFailed, Requests, Idle, Login, Refresh, Refusal
  <2>2. Failing(k)' = Failing(k) \ {r}
    BY <2>1 DEF Failing, Idle
  <2>3. CASE k \in {req[r].user, Ip}
    <3>1. r \in Failing(k)
      BY <1>4, <2>3 DEF LoginFailed, Failing
    <3>2. Cardinality(Failing(k)') = Cardinality(Failing(k)) - 1
      BY <2>2, <3>1, FailingIsFinite, FS_RemoveElement
    <3>3. lock'[k].n <= lock[k].n + 1
      BY <1>0, <1>4, <2>3 DEF LoginFailed, Recorded
    <3>4. /\ Cardinality(Failing(k)) \in Nat
          /\ lock[k].n + Cardinality(Failing(k)) <= MaxAttempts - 1 + Cardinality(Request)
      BY FailingIsFinite DEF Bounded
    <3>5. Bounded(k)' <=>
            lock'[k].n + Cardinality(Failing(k)') <= MaxAttempts - 1 + Cardinality(Request)
      BY DEF Bounded
    <3> QED
      BY <1>0, <3>2, <3>3, <3>4, <3>5, ConstantsOK
  <2>4. CASE k \notin {req[r].user, Ip}
    <3>1. lock'[k].n <= lock[k].n
      BY <1>0, <1>4, <2>4 DEF LoginFailed, Recorded
    <3> QED
      BY <2>2, <3>1, BoundKept
  <2> QED
    BY <2>3, <2>4
<1>5. ASSUME NEW r \in Request, LoginCleared(r) PROVE Bounded(k)'
  <2>1. lock'[k].n <= lock[k].n
    BY <1>0, <1>5 DEF LoginCleared, ClearLockout
  <2>2. req[r] \in Login
    BY <1>0, <1>5 DEF LoginCleared, Requests, Idle, Login, Refresh, Refusal
  <2>3. [req[r] EXCEPT !.found = "cleared"].found = "cleared"
    BY <2>2 DEF Login
  <2>4. req'[r].found = "cleared" /\ \A q \in Request \ {r} : req'[q] = req[q]
    BY <1>0, <1>5, <2>3 DEF LoginCleared
  <2>5. Failing(k)' \subseteq Failing(k)
    BY <2>4 DEF Failing
  <2> QED
    BY <2>1, <2>5, BoundKept
<1>6. ASSUME NEW r \in Request, NEW u \in User, NEW password \in BOOLEAN, NEW code \in BOOLEAN,
             LoginCheck(r, u, password, code)
      PROVE  Bounded(k)'
  <2>1. /\ req'[r].user = u /\ \A q \in Request \ {r} : req'[q] = req[q]
        /\ UNCHANGED lock /\ ~Locked(Ip) /\ ~Locked(u)
    BY <1>0, <1>6 DEF LoginCheck
  <2>2. CASE k \in {u, Ip}
    <3>1. lock'[k].n <= MaxAttempts - 1
      BY <1>0, <2>1, <2>2, ConstantsOK DEF Locked
    <3>2. Failing(k)' \in SUBSET Request
      BY DEF Failing
    <3>3. Cardinality(Failing(k)') \in Nat /\ Cardinality(Failing(k)') <= Cardinality(Request)
      BY <3>2, FS_Subset, FS_CardinalityType, ConstantsOK
    <3>4. Bounded(k)' <=>
            lock'[k].n + Cardinality(Failing(k)') <= MaxAttempts - 1 + Cardinality(Request)
      BY DEF Bounded
    <3> QED
      BY <1>0, <3>1, <3>3, <3>4, ConstantsOK
  <2>3. CASE k \notin {u, Ip}
    <3>1. Failing(k)' \subseteq Failing(k)
      BY <2>1, <2>3 DEF Failing
    <3> QED
      BY <1>0, <2>1, <3>1, BoundKept
  <2> QED
    BY <2>2, <2>3
<1>7. ASSUME NEW r \in Request, NEW x, x.found # "failed", req' = [req EXCEPT ![r] = x],
             UNCHANGED lock
      PROVE  Bounded(k)'
  BY <1>0, <1>2, <1>7
<1>8. ASSUME NEW r \in Request, RequestStep(r) PROVE Bounded(k)'
  <2>1. CASE LoginCommit(r) \/ RefreshCommit(r) \/ RequestEnds(r)
    <3>1. Idle.found # "failed"
      BY DEF Idle
    <3> QED
      BY <1>7, <2>1, <3>1 DEF LoginCommit, RefreshCommit, RequestEnds
  <2>2. ASSUME NEW t \in DOMAIN sess, RefreshRead(r, t) \/ RefreshReused(r, t)
        PROVE  Bounded(k)'
    <3>1. CASE RefreshRead(r, t)
      <4> DEFINE x == Seen(t)
      <4>1. x.found # "failed" /\ req' = [req EXCEPT ![r] = x] /\ UNCHANGED lock
        BY <3>1 DEF RefreshRead, Seen
      <4> HIDE DEF x
      <4> QED
        BY <1>7, <4>1
    <3>2. CASE RefreshReused(r, t)
      <4> DEFINE x == [found |-> "refused", user |-> sess[t].user]
      <4>1. x.found # "failed" /\ req' = [req EXCEPT ![r] = x] /\ UNCHANGED lock
        BY <3>2 DEF RefreshReused
      <4> HIDE DEF x
      <4> QED
        BY <1>7, <4>1
    <3> QED
      BY <2>2, <3>1, <3>2
  <2> QED
    BY <1>4, <1>5, <1>6, <1>8, <2>1, <2>2 DEF RequestStep
<1>9. ASSUME NEW t \in DOMAIN sess, Logout(t) PROVE Bounded(k)'
  BY <1>2, <1>9 DEF Logout
<1>10. CASE UNCHANGED vars
  BY <1>2, <1>10 DEF vars
<1> QED
  BY <1>1, <1>3, <1>8, <1>9, <1>10 DEF Next

(* However many sign-ins run together, a counter is overrun by no more     *)
(* than there are less one (check_lockout, record_failed_attempt).         *)
THEOREM LockoutBounded == Spec => []LockoutBounds
<1>1. Init => \A k \in Key : Bounded(k)
  <2> SUFFICES ASSUME Init, NEW k \in Key PROVE Bounded(k)
    OBVIOUS
  <2>1. Failing(k) = {} /\ lock[k].n = 0
    BY DEF Init, Failing, Idle
  <2> QED
    BY <2>1, FS_EmptySet, FailingIsFinite, ConstantsOK DEF Bounded
<1>2. Typed /\ Typed' /\ [Next]_vars /\ (\A k \in Key : Bounded(k)) =>
        (\A k \in Key : Bounded(k))'
  BY BoundStep
<1>3. TypeOK /\ (\A k \in Key : Bounded(k)) => LockoutBounds
  <2> SUFFICES ASSUME TypeOK, NEW k \in Key, Bounded(k)
               PROVE  lock[k].n <= MaxAttempts - 1 + Cardinality(Request)
    BY DEF LockoutBounds
  <2>1. lock[k].n \in Nat
    BY DEF TypeOK
  <2> QED
    BY <2>1, FailingIsFinite, ConstantsOK DEF Bounded
<1> QED
  BY <1>1, <1>2, <1>3, TypedKept, TypeCorrect, PTL DEF Spec
-----------------------------------------------------------------------------
(* Revocation: whoever is barred has neither a session nor a request that  *)
(* will make one, except those that were overtaken.                        *)

Barred(u) == row[u].status = "deactivated" \/ row[u].erased

Shut(t) == Barred(sess[t].user) => sess[t].revoked \/ sess[t].raced

NoWayIn(r) ==
  /\ req[r].found \in {"passed", "cleared"} /\ Barred(req[r].user) => req[r].raced
  /\ req[r].found = "valid" /\ Barred(req[r].user) =>
       req[r].raced \/ sess[req[r].token].raced

Out ==
  /\ \A u \in User : row[u].erased => ~row[u].hash
  /\ \A r \in Request : NoWayIn(r)
  /\ \A t \in DOMAIN sess : Shut(t)

\* What a step does to the request that takes it.
LEMMA Found ==
  ASSUME Typed, NEW r \in Request, RequestStep(r)
  PROVE  /\ UNCHANGED row /\ \A q \in Request \ {r} : req'[q] = req[q]
         /\ \/ req'[r] = Idle \/ req'[r].found \in {"failed", "refused"}
            \/ /\ req'[r].found = "passed" /\ Active(req'[r].user) /\ row[req'[r].user].hash
            \/ /\ req[r].found = "passed" /\ req'[r].found = "cleared"
               /\ req'[r].user = req[r].user /\ req'[r].raced = req[r].raced
            \/ \E t \in DOMAIN sess :
                 /\ Valid(t) /\ Active(sess[t].user) /\ UNCHANGED sess
                 /\ req'[r] = Seen(t)
<1>0. TypeOK /\ req \in [Request -> Requests]
  BY DEF Typed, TypeOK, Requests
<1>1. ASSUME NEW u \in User, NEW password \in BOOLEAN, NEW code \in BOOLEAN,
             LoginCheck(r, u, password, code)
      PROVE  /\ UNCHANGED row /\ \A q \in Request \ {r} : req'[q] = req[q]
             /\ \/ req'[r].found = "failed"
                \/ req'[r].found = "passed" /\ Active(req'[r].user) /\ row[req'[r].user].hash
  <2>1. req'[r] = [found |-> Verdict(u, password, code), user |-> u, raced |-> FALSE]
    BY <1>0, <1>1 DEF LoginCheck
  <2>2. req'[r].found = Verdict(u, password, code) /\ req'[r].user = u
    BY <2>1
  <2>3. \/ Verdict(u, password, code) = "failed"
        \/ Verdict(u, password, code) = "passed" /\ Active(u) /\ row[u].hash
    BY DEF Verdict
  <2> QED
    BY <1>0, <1>1, <2>2, <2>3 DEF LoginCheck
<1>2. CASE LoginFailed(r) \/ LoginCommit(r) \/ RefreshCommit(r) \/ RequestEnds(r)
  BY <1>0, <1>2 DEF LoginFailed, LoginCommit, RefreshCommit, RequestEnds
<1>3. CASE LoginCleared(r)
  <2>1. req[r] \in Login
    BY <1>0, <1>3 DEF LoginCleared, Requests, Idle, Login, Refresh, Refusal
  <2>2. req'[r] = [req[r] EXCEPT !.found = "cleared"]
    BY <1>0, <1>3 DEF LoginCleared
  <2>3. /\ req'[r].found = "cleared" /\ req'[r].user = req[r].user
        /\ req'[r].raced = req[r].raced
    BY <2>1, <2>2 DEF Login
  <2> QED
    BY <1>0, <1>3, <2>3 DEF LoginCleared
<1>4. ASSUME NEW t \in DOMAIN sess, RefreshRead(r, t)
      PROVE  /\ UNCHANGED <<row, sess>> /\ \A q \in Request \ {r} : req'[q] = req[q]
             /\ Valid(t) /\ Active(sess[t].user)
             /\ req'[r] = Seen(t)
  BY <1>0, <1>4 DEF RefreshRead, Seen
<1>5. ASSUME NEW t \in DOMAIN sess, RefreshReused(r, t)
      PROVE  /\ UNCHANGED row /\ \A q \in Request \ {r} : req'[q] = req[q]
             /\ req'[r].found = "refused"
  BY <1>0, <1>5 DEF RefreshReused
<1> QED
  BY <1>1, <1>2, <1>3, <1>4, <1>5 DEF RequestStep

\* What a step that is no request's does to the requests.
LEMMA Overtaken ==
  ASSUME Typed, [Next]_vars, ~\E r \in Request : RequestStep(r), NEW r \in Request
  PROVE  \/ req'[r] = req[r]
         \/ /\ req[r].found \in Writing /\ req'[r].found = req[r].found
            /\ req'[r].user = req[r].user /\ req'[r].raced
            /\ req[r].found = "valid" => req'[r].token = req[r].token
<1>0. TypeOK /\ req \in [Request -> Requests]
  BY DEF Typed, TypeOK, Requests
<1>1. ASSUME NEW u \in User, UserStep(u) PROVE req' = req \/ RevokeAll(u)
  BY <1>1 DEF UserStep, LogoutAll, RevokeUserSessions, MfaSetup, MfaVerify, MfaDisable,
              CreateUser, ActivateUser, UpdateUser, DeactivateUser, AnonymiseUser,
              Revoke, RevokeCommit, DeactivateCommit, EraseCommit, RevokeFails
<1>2. ASSUME NEW u \in User, RevokeAll(u), req[r].found \in Writing, req'[r] # req[r]
      PROVE  /\ req'[r].found = req[r].found /\ req'[r].user = req[r].user /\ req'[r].raced
             /\ req[r].found = "valid" => req'[r].token = req[r].token
  <2>1. req'[r] = [req[r] EXCEPT !.raced = TRUE]
    BY <1>2 DEF RevokeAll
  <2>2. CASE req[r] \in Login
    BY <2>1, <2>2 DEF Login
  <2>3. CASE req[r] \in Refresh
    BY <2>1, <2>3 DEF Refresh
  <2> QED
    BY <1>0, <1>2, <2>2, <2>3 DEF Requests, Idle, Refusal, Writing
<1>3. ASSUME NEW u \in User, RevokeAll(u), req[r].found \notin Writing PROVE req'[r] = req[r]
  BY <1>3 DEF RevokeAll
<1> QED
  BY <1>1, <1>2, <1>3 DEF Next, Logout, Tick, vars

\* A user becomes barred only when all that is theirs is revoked and marked;
\* who is barred by erasure has no password that matches.
LEMMA Barring ==
  ASSUME Typed, [Next]_vars, \A u \in User : row[u].erased => ~row[u].hash
  PROVE  /\ \A u \in User : row'[u].erased => ~row'[u].hash
         /\ \A u \in User : Barred(u)' => Barred(u) \/ RevokeAll(u)
<1>0. TypeOK /\ row \in [User -> UserRow] /\ \A u \in User : row[u] \in UserRow
  BY DEF Typed, TypeOK
<1>1. CASE UNCHANGED row
  BY <1>1 DEF Barred
<1>2. ASSUME NEW u \in User, UserStep(u)
      PROVE  /\ \A v \in User \ {u} : row'[v] = row[v]
             /\ row'[u].erased => ~row'[u].hash
             /\ Barred(u)' => Barred(u) \/ RevokeAll(u)
  <2>1. CASE UNCHANGED row
    BY <2>1 DEF Barred
  <2>2. CASE MfaSetup(u) \/ MfaVerify(u) \/ MfaDisable(u)
    <3>1. /\ \A v \in User \ {u} : row'[v] = row[v]
          /\ row'[u].status = row[u].status /\ row'[u].erased = row[u].erased
          /\ row'[u].hash = row[u].hash
      <4>1. CASE MfaSetup(u)
        BY <1>0, <4>1 DEF MfaSetup, UserRow
      <4>2. CASE MfaVerify(u)
        BY <1>0, <4>2 DEF MfaVerify, UserRow
      <4>3. CASE MfaDisable(u)
        BY <1>0, <4>3 DEF MfaDisable, UserRow
      <4> QED
        BY <2>2, <4>1, <4>2, <4>3
    <3> QED
      BY <3>1 DEF Barred
  <2>3. CASE CreateUser(u) \/ ActivateUser(u)
    BY <1>0, <2>3 DEF CreateUser, ActivateUser, Barred, UserRow
  <2>4. CASE DeactivateCommit(u)
    BY <1>0, <2>4 DEF DeactivateCommit, Barred, UserRow
  <2>5. CASE EraseCommit(u)
    <3>1. row'[u] = [row[u] EXCEPT !.status = Ended(u), !.hash = FALSE, !.erased = TRUE,
                                   !.secret = FALSE]
      BY <1>0, <2>5 DEF EraseCommit
    <3>2. ~row'[u].hash
      BY <1>0, <3>1 DEF UserRow
    <3> QED
      BY <1>0, <2>5, <3>2 DEF EraseCommit
  <2>6. ASSUME NEW active \in BOOLEAN, UpdateUser(u, active)
        PROVE  /\ \A v \in User \ {u} : row'[v] = row[v]
               /\ row'[u].erased => ~row'[u].hash
               /\ Barred(u)' => Barred(u)
    BY <1>0, <2>6 DEF UpdateUser, Barred, UserRow
  <2> QED
    BY <1>2, <2>1, <2>2, <2>3, <2>4, <2>5, <2>6
    DEF UserStep, LogoutAll, RevokeUserSessions, DeactivateUser, AnonymiseUser, Revoke,
        RevokeCommit, RevokeFails
<1>3. ASSUME NEW r \in Request, RequestStep(r) PROVE UNCHANGED row
  BY <1>3, Found
<1>4. CASE \E u \in User : UserStep(u)
  BY <1>2, <1>4 DEF Barred
<1> QED
  BY <1>1, <1>3, <1>4 DEF Next, Logout, Tick, vars

(* The session a request adds when it commits.                             *)
Adds(r, new) ==
  \/ LoginCommit(r) /\ new = SignIn(req[r].user, req[r].raced)
  \/ RefreshCommit(r) /\ new = Heir(req[r].token, req[r].spent, req[r].raced)

\* A session that is new is that of a sign-in or a refresh.
LEMMA Grown ==
  ASSUME Typed, [Next]_vars, NEW t \in DOMAIN sess', t \notin DOMAIN sess
  PROVE  t = Len(sess) + 1 /\ \E r \in Request : Adds(r, sess'[t])
<1>0. TypeOK /\ DOMAIN sess = 1..Len(sess) /\ Len(sess) \in Nat
  BY SessionRows DEF Typed
<1>1. ASSUME NEW r \in Request, RequestStep(r) PROVE LoginCommit(r) \/ RefreshCommit(r)
  BY <1>1 DEF RequestStep, LoginCheck, LoginFailed, LoginCleared, RefreshRead, RefreshReused,
              RequestEnds
<1>2. ASSUME NEW r \in Request, LoginCommit(r)
      PROVE  t = Len(sess) + 1 /\ Adds(r, sess'[t])
  <2>1. PICK u \in User, b \in BOOLEAN : u = req[r].user /\ b = req[r].raced
    BY <1>0, <1>2 DEF LoginCommit, TypeOK, Idle, Login, Refresh, Refusal
  <2>2. sess' = Append(sess, SignIn(u, b))
    BY <1>2, <2>1 DEF LoginCommit, SignIn
  <2>3. DOMAIN sess' = 1..(Len(sess) + 1) /\ sess'[Len(sess) + 1] = SignIn(u, b)
    BY <1>0, <2>2, SignedIn
  <2>4. t = Len(sess) + 1
    BY <1>0, <2>3
  <2> QED
    BY <1>2, <2>1, <2>3, <2>4 DEF Adds
<1>3. ASSUME NEW r \in Request, RefreshCommit(r)
      PROVE  t = Len(sess) + 1 /\ Adds(r, sess'[t])
  <2>1. PICK k \in DOMAIN sess, a \in BOOLEAN, b \in BOOLEAN :
             k = req[r].token /\ a = req[r].spent /\ b = req[r].raced
    BY <1>3 DEF RefreshCommit, Typed, TokenKnown, Refresh
  <2>2. sess' = Rotated(k, a, b)
    BY <1>3, <2>1 DEF RefreshCommit
  <2>3. DOMAIN sess' = 1..(Len(sess) + 1) /\ sess'[Len(sess) + 1] = Heir(k, a, b)
    BY <1>0, <2>2, Rotates
  <2>4. t = Len(sess) + 1
    BY <1>0, <2>3
  <2> QED
    BY <1>3, <2>1, <2>3, <2>4 DEF Adds
<1>4. ASSUME NEW x \in DOMAIN sess, Logout(x) PROVE FALSE
  BY <1>0, <1>4, RevokeOne, LenProperties DEF Logout
<1>5. ASSUME NEW u \in User, UserStep(u) PROVE sess' = sess \/ RevokeAll(u)
  BY <1>5 DEF UserStep, LogoutAll, RevokeUserSessions, MfaSetup, MfaVerify, MfaDisable,
              CreateUser, ActivateUser, UpdateUser, DeactivateUser, AnonymiseUser,
              Revoke, RevokeCommit, DeactivateCommit, EraseCommit, RevokeFails
<1>6. ASSUME NEW u \in User, UserStep(u) PROVE FALSE
  BY <1>0, <1>5, <1>6, Revoked
<1>7. ~(UNCHANGED sess)
  OBVIOUS
<1> QED
  BY <1>1, <1>2, <1>3, <1>4, <1>6, <1>7 DEF Next, Tick, vars

\* Every step keeps whoever is barred out.
LEMMA OutStep == Typed /\ Out /\ [Next]_vars => Out'
<1> SUFFICES ASSUME Typed, Out, [Next]_vars PROVE Out'
  OBVIOUS
<1>0. /\ TypeOK /\ (\A r \in Request : TokenKnown(r))
      /\ \A u \in User : row[u].erased => ~row[u].hash
      /\ \A t \in DOMAIN sess : sess[t].user \in User /\ sess[t] \in SessionRow
  BY SessionRows DEF Typed, Out
<1>1. /\ \A u \in User : row'[u].erased => ~row'[u].hash
      /\ \A u \in User : Barred(u)' => Barred(u) \/ RevokeAll(u)
  BY <1>0, Barring
<1>2. ASSUME NEW r \in Request, req'[r] = req[r], UNCHANGED row PROVE NoWayIn(r)'
  <2>1. NoWayIn(r) /\ TokenKnown(r)
    BY <1>0 DEF Out
  <2>2. req[r].found = "valid" /\ sess[req[r].token].raced => sess'[req[r].token].raced
    BY <2>1, SessionsStay DEF TokenKnown, Stays
  <2> QED
    BY <1>2, <2>1, <2>2 DEF NoWayIn, Barred
<1>3. ASSUME NEW r \in Request, RequestStep(r) PROVE NoWayIn(r)'
  <2>1. UNCHANGED row
    BY <1>3, Found
  <2>2. CASE req'[r] = Idle \/ req'[r].found \in {"failed", "refused"}
    BY <2>2 DEF NoWayIn, Idle
  <2>3. CASE req'[r].found = "passed" /\ Active(req'[r].user) /\ row[req'[r].user].hash
    <3>1. req'[r].user \in User
      <4>1. TypeOK'
        BY TypeStep
      <4>2. req'[r] \in Requests
        BY <4>1 DEF TypeOK, Requests
      <4> QED
        BY <2>3, <4>2 DEF Requests, Idle, Login, Refresh, Refusal
    <3>2. ~Barred(req'[r].user)
      BY <1>0, <2>3, <3>1 DEF Active, Barred
    <3> QED
      BY <2>1, <2>3, <3>2 DEF NoWayIn, Barred
  <2>4. CASE /\ req[r].found = "passed" /\ req'[r].found = "cleared"
             /\ req'[r].user = req[r].user /\ req'[r].raced = req[r].raced
    <3>1. NoWayIn(r)
      BY DEF Out
    <3> QED
      BY <2>1, <2>4, <3>1 DEF NoWayIn, Barred
  <2>5. ASSUME NEW t \in DOMAIN sess, Valid(t), Active(sess[t].user), UNCHANGED sess,
               req'[r] = Seen(t)
        PROVE  NoWayIn(r)'
    <3>1. /\ req'[r].found = "valid" /\ req'[r].user = sess[t].user /\ req'[r].token = t
      BY <2>5 DEF Seen
    <3>2. Barred(sess[t].user) => sess[t].raced
      BY <2>5 DEF Out, Shut, Valid
    <3> QED
      BY <2>1, <2>5, <3>1, <3>2 DEF NoWayIn, Barred
  <2> QED
    BY <1>3, <2>2, <2>3, <2>4, <2>5, Found
<1>4. ASSUME NEW r \in Request, ~\E q \in Request : RequestStep(q) PROVE NoWayIn(r)'
  <2>1. NoWayIn(r) /\ TokenKnown(r)
    BY <1>0 DEF Out
  <2>2. req[r].found = "valid" /\ sess[req[r].token].raced => sess'[req[r].token].raced
    BY <2>1, SessionsStay DEF TokenKnown, Stays
  <2>3. CASE /\ req[r].found \in Writing /\ req'[r].found = req[r].found
             /\ req'[r].user = req[r].user /\ req'[r].raced
    BY <2>3 DEF NoWayIn
  <2>4. CASE req'[r] = req[r]
    <3>1. CASE req[r].found \notin Writing
      BY <2>4, <3>1 DEF NoWayIn, Writing
    <3>2. CASE req[r].found \in Writing
      <4>1. req[r].user \in User
        <5>1. req[r] \in Requests
          BY <1>0 DEF TypeOK, Requests
        <5> QED
          BY <3>2, <5>1 DEF Requests, Idle, Login, Refresh, Refusal, Writing
      <4>2. CASE RevokeAll(req[r].user)
        <5>1. req'[r] = [req[r] EXCEPT !.raced = TRUE]
          BY <3>2, <4>2 DEF RevokeAll
        <5>2. req[r] \in Login \cup Refresh
          BY <1>0, <3>2 DEF TypeOK, Idle, Login, Refresh, Refusal, Writing
        <5>3. req'[r].raced
          BY <5>1, <5>2 DEF Login, Refresh
        <5> QED
          BY <5>3 DEF NoWayIn
      <4>3. CASE ~RevokeAll(req[r].user)
        BY <1>1, <2>1, <2>2, <2>4, <4>1, <4>3 DEF NoWayIn
      <4> QED
        BY <4>2, <4>3
    <3> QED
      BY <3>1, <3>2
  <2> QED
    BY <1>4, <2>3, <2>4, Overtaken
<1>5. ASSUME NEW r \in Request PROVE NoWayIn(r)'
  <2>1. ASSUME NEW q \in Request, RequestStep(q), q # r PROVE NoWayIn(r)'
    BY <1>2, <2>1, Found
  <2> QED
    BY <1>3, <1>4, <2>1
<1>6. ASSUME NEW t \in DOMAIN sess, t \in DOMAIN sess' PROVE Shut(t)'
  <2>1. Stays(t, sess'[t])
    BY SessionsStay
  <2>2. Shut(t)
    BY DEF Out
  <2>3. CASE RevokeAll(sess[t].user)
    <3>1. PICK u \in User : u = sess[t].user
      BY <1>0
    <3>2. RevokeAll(u)
      BY <2>3, <3>1
    <3>3. sess'[t] = Struck(u, t)
      BY <1>0, <3>2, Revoked
    <3>4. closing[u] # Open
      BY <3>2 DEF RevokeAll
    <3>5. closing[u].upto \in Nat
      BY <1>0, <3>4, SeenRows
    <3>6. t \in Nat /\ sess[t] \in SessionRow
      BY <1>0, SessionRows
    <3>7. /\ t <= closing[u].upto \/ t > closing[u].upto
          /\ sess'[t].revoked = (sess[t].revoked \/ (sess[t].user = u /\ t <= closing[u].upto))
          /\ sess'[t].raced = (sess[t].raced \/ (sess[t].user = u /\ t > closing[u].upto))
      BY <3>3, <3>5, <3>6 DEF SessionRow, Struck
    <3>8. sess'[t].revoked \/ sess'[t].raced
      BY <3>1, <3>7
    <3> QED
      BY <3>8 DEF Shut
  <2>4. CASE ~RevokeAll(sess[t].user)
    BY <1>0, <1>1, <2>1, <2>2, <2>4 DEF Shut, Stays
  <2> QED
    BY <2>3, <2>4
<1>7. ASSUME NEW t \in DOMAIN sess', t \notin DOMAIN sess PROVE Shut(t)'
  <2>1. ASSUME NEW r \in Request, LoginCommit(r),
               sess'[t] = SignIn(req[r].user, req[r].raced)
        PROVE  Shut(t)'
    <3>1. NoWayIn(r) /\ req[r].found = "cleared" /\ UNCHANGED row
      BY <2>1 DEF Out, LoginCommit
    <3>2. sess'[t].user = req[r].user /\ sess'[t].raced = req[r].raced
      BY <2>1 DEF NewSession, SignIn
    <3> QED
      BY <3>1, <3>2 DEF NoWayIn, Shut, Barred
  <2>2. ASSUME NEW r \in Request, RefreshCommit(r),
               sess'[t] = Heir(req[r].token, req[r].spent, req[r].raced)
        PROVE  Shut(t)'
    <3>1. NoWayIn(r) /\ TokenKnown(r) /\ req[r].found = "valid" /\ UNCHANGED row
      BY <1>0, <2>2 DEF Out, RefreshCommit
    <3>2. /\ sess'[t].user = sess[req[r].token].user
          /\ sess'[t].raced = (req[r].raced \/ sess[req[r].token].raced)
      BY <2>2 DEF NewSession, Heir
    <3> QED
      BY <3>1, <3>2 DEF NoWayIn, TokenKnown, Shut, Barred
  <2> QED
    BY <1>7, <2>1, <2>2, Grown DEF Adds
<1> QED
  BY <1>1, <1>5, <1>6, <1>7 DEF Out

(* Nobody who is deactivated or erased keeps a live session, except one    *)
(* that a request was about to make at that time (deactivate_user,         *)
(* anonymise_user, revoke_all_sessions).                                   *)
THEOREM RevocationLasts == Spec => []RevocationHolds
<1>1. Init => Out
  <2> SUFFICES ASSUME Init PROVE Out
    OBVIOUS
  <2>1. DOMAIN sess = {}
    BY SessionRows, TypeInit, EmptySeq DEF Init
  <2> QED
    BY <2>1 DEF Init, Out, NoWayIn, Idle
<1>2. Typed /\ Out /\ [Next]_vars => Out'
  BY OutStep
<1>3. Out => RevocationHolds
  BY DEF Out, Shut, Barred, RevocationHolds
<1> QED
  BY <1>1, <1>2, <1>3, TypedKept, PTL DEF Spec
-----------------------------------------------------------------------------
(* Rotation: of two sessions of one sign-in that are no twins the earlier  *)
(* is spent, and what is spent is revoked.                                 *)

Rooted(t) == sess[t].root \in 1..t /\ (sess[t].spent => sess[t].revoked)

Chained(s, t) ==
  s < t /\ sess[s].root = sess[t].root /\ ~sess[s].twin /\ ~sess[t].twin => sess[s].spent

Chain ==
  /\ \A t \in DOMAIN sess : Rooted(t)
  /\ \A s, t \in DOMAIN sess : Chained(s, t)
  /\ \A r \in Request : req[r].found = "valid" => ~req[r].spent

\* A refresh under way has read a session that was not spent.
LEMMA UnspentStep ==
  ASSUME Typed, [Next]_vars, Chain, NEW r \in Request, req'[r].found = "valid"
  PROVE  ~req'[r].spent
<1>2. \/ req[r].found = "valid" /\ (req'[r] = req[r] \/ req'[r] = [req[r] EXCEPT !.raced = TRUE])
      \/ \E t \in DOMAIN sess : Valid(t) /\ req'[r] = Seen(t)
  BY Refreshing
<1>3. CASE req[r].found = "valid"
           /\ (req'[r] = req[r] \/ req'[r] = [req[r] EXCEPT !.raced = TRUE])
  <2>1. req[r] \in Refresh /\ ~req[r].spent
    BY <1>3 DEF Chain, Typed, TokenKnown
  <2> QED
    BY <1>3, <2>1 DEF Refresh
<1>4. ASSUME NEW t \in DOMAIN sess, Valid(t), req'[r] = Seen(t) PROVE ~req'[r].spent
  BY <1>4 DEF Chain, Rooted, Valid, Seen
<1> QED
  BY <1>2, <1>3, <1>4

\* Every step keeps the chains.
LEMMA ChainStep == Typed /\ Chain /\ [Next]_vars => Chain'
<1> SUFFICES ASSUME Typed, Chain, [Next]_vars PROVE Chain'
  OBVIOUS
<1>0. /\ TypeOK /\ DOMAIN sess = 1..Len(sess) /\ Len(sess) \in Nat
      /\ \A t \in DOMAIN sess : sess[t] \in SessionRow
      /\ \A t \in DOMAIN sess : t \in DOMAIN sess' /\ Stays(t, sess'[t])
  BY SessionRows, SessionsStay DEF Typed
<1>1. ASSUME NEW t \in DOMAIN sess PROVE Rooted(t)'
  <2>1. Rooted(t) /\ Stays(t, sess'[t]) /\ sess[t] \in SessionRow
    BY <1>0 DEF Chain
  <2> QED
    BY <2>1 DEF Rooted, Stays
<1>2. ASSUME NEW s \in DOMAIN sess, NEW t \in DOMAIN sess PROVE Chained(s, t)'
  <2>1. Chained(s, t) /\ Stays(s, sess'[s]) /\ Stays(t, sess'[t])
    BY <1>0 DEF Chain
  <2> QED
    BY <2>1 DEF Chained, Stays
<1>3. ASSUME NEW n \in DOMAIN sess', n \notin DOMAIN sess
      PROVE  Rooted(n)' /\ \A s \in DOMAIN sess : Chained(s, n)'
  <2>1. n = Len(sess) + 1 /\ n \in Nat
    BY <1>0, <1>3, Grown
  <2>2. PICK r \in Request : Adds(r, sess'[n])
    BY <1>3, Grown
  <2>3. CASE LoginCommit(r) /\ sess'[n] = SignIn(req[r].user, req[r].raced)
    <3>1. sess'[n].root = n /\ ~sess'[n].spent
      BY <2>1, <2>3 DEF SignIn, NewSession
    <3>2. ASSUME NEW s \in DOMAIN sess PROVE sess'[s].root # n
      <4>1. sess'[s].root = sess[s].root /\ sess[s].root \in 1..s /\ s \in 1..Len(sess)
        BY <1>0 DEF Stays, Chain, Rooted
      <4> QED
        BY <1>0, <2>1, <4>1
    <3> QED
      BY <2>1, <3>1, <3>2 DEF Rooted, Chained
  <2>4. CASE RefreshCommit(r) /\ sess'[n] = Heir(req[r].token, req[r].spent, req[r].raced)
    <3>1. PICK k \in DOMAIN sess : k = req[r].token
      BY <2>4 DEF RefreshCommit, Typed, TokenKnown
    <3>2. req[r].spent \in BOOLEAN /\ req[r].raced \in BOOLEAN /\ ~req[r].spent
      BY <2>4 DEF RefreshCommit, Typed, TokenKnown, Refresh, Chain
    <3>3. /\ sess'[n].root = sess[k].root /\ ~sess'[n].spent
          /\ sess'[n].twin = (sess[k].twin \/ (sess[k].spent /\ ~req[r].spent))
      BY <2>4, <3>1 DEF Heir, NewSession
    <3>4. ~sess'[n].twin => ~sess[k].twin /\ ~sess[k].spent
      BY <3>2, <3>3
    <3>5. sess'[k].spent
      <4>1. PICK a \in BOOLEAN, b \in BOOLEAN : sess' = Rotated(k, a, b)
        BY <2>4, <3>1, <3>2 DEF RefreshCommit
      <4>2. sess'[k] = Spent(k)
        BY <1>0, <4>1, Rotates
      <4>3. sess[k] \in SessionRow
        BY <1>0
      <4> QED
        BY <4>2, <4>3 DEF Spent, SessionRow
    <3>6. ASSUME NEW s \in DOMAIN sess, sess'[s].root = sess'[n].root, ~sess'[s].twin,
                 ~sess'[n].twin
          PROVE  sess'[s].spent
      <4>1. Stays(s, sess'[s]) /\ Chained(s, k) /\ Chained(k, s)
        BY <1>0 DEF Chain
      <4>2. sess[s].root = sess[k].root /\ ~sess[s].twin
        BY <3>3, <3>6, <4>1 DEF Stays
      <4>3. CASE s = k
        BY <3>5, <4>3
      <4>4. CASE s < k
        BY <3>4, <3>6, <4>1, <4>2, <4>4 DEF Chained, Stays
      <4>5. CASE k < s
        BY <3>4, <3>6, <4>1, <4>2, <4>5 DEF Chained
      <4> QED
        BY <1>0, <4>3, <4>4, <4>5
    <3>7. sess[k].root \in 1..k /\ k \in 1..Len(sess)
      BY <1>0 DEF Chain, Rooted
    <3>8. sess'[n].root \in 1..n
      BY <1>0, <2>1, <3>3, <3>7
    <3> QED
      BY <3>3, <3>6, <3>8 DEF Rooted, Chained
  <2> QED
    BY <2>2, <2>3, <2>4 DEF Adds
<1>4. ASSUME NEW s \in DOMAIN sess', NEW t \in DOMAIN sess' PROVE Chained(s, t)'
  <2>1. ASSUME s \notin DOMAIN sess PROVE ~(s < t)
    <3>1. s = Len(sess) + 1
      BY <2>1, Grown
    <3>2. t \in DOMAIN sess \/ t = Len(sess) + 1
      BY Grown
    <3> QED
      BY <1>0, <3>1, <3>2
  <2>2. CASE s \notin DOMAIN sess
    BY <2>1, <2>2 DEF Chained
  <2>3. CASE s \in DOMAIN sess
    BY <1>2, <1>3, <2>3
  <2> QED
    BY <2>2, <2>3
<1> QED
  BY <1>1, <1>3, <1>4, UnspentStep DEF Chain

(* Of the sessions that come from one sign-in only the last is live,       *)
(* overlapping refreshes aside (refresh, rotate_refresh_token).            *)
THEOREM RotationBounded == Spec => []RotationSpends
<1>1. Init => Chain
  <2> SUFFICES ASSUME Init PROVE Chain
    OBVIOUS
  <2>1. DOMAIN sess = {}
    BY SessionRows, TypeInit, EmptySeq DEF Init
  <2> QED
    BY <2>1 DEF Init, Chain, Idle
<1>2. Typed /\ Chain /\ [Next]_vars => Chain'
  BY ChainStep
<1>3. Chain => RotationSpends
  BY DEF Chain, Rooted, Chained, RotationSpends
<1> QED
  BY <1>1, <1>2, <1>3, TypedKept, PTL DEF Spec
=============================================================================
