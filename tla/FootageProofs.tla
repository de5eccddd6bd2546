----------------------------- MODULE FootageProofs -----------------------------
(***************************************************************************)
(* Theorems of Footage, for every number of cameras, processes, purging    *)
(* children and slots, and every retention.  The argument is about names   *)
(* and segments: a segment is opened once and has one row at most (Ledger),*)
(* whereas a name says which segment it is of only while it is not reused. *)
(***************************************************************************)
EXTENDS Footage, TLAPS
-----------------------------------------------------------------------------
(* Division into days *)

\* Quotient and remainder of a slot by the slots of a day.
LEMMA Division ==
  ASSUME NEW d \in Nat, d > 1, NEW t \in Nat
  PROVE  /\ t \div d \in Nat /\ t % d \in 0..(d - 1)
         /\ t = d * (t \div d) + (t % d)
OBVIOUS

\* Days follow one another.
LEMMA Days ==
  ASSUME NEW d \in Nat, d > 1, NEW t \in Nat, NEW s \in Nat, t <= s
  PROVE  t \div d <= s \div d
<1>. DEFINE p == t \div d  q == s \div d
<1>0. p \in Nat /\ q \in Nat /\ d * p \in Int /\ d * q \in Int BY Division
<1>1. t >= d * p
  <2>1. t = d * p + (t % d) /\ t % d \in 0..(d - 1) BY Division
  <2>. HIDE DEF p
  <2>. QED BY <2>1, <1>0
<1>2. s < d * q + d
  <2>1. s = d * q + (s % d) /\ s % d \in 0..(d - 1) BY Division
  <2>. HIDE DEF q
  <2>. QED BY <2>1, <1>0
<1>. HIDE DEF p, q
<1>3. SUFFICES ASSUME p > q PROVE FALSE BY <1>0 DEF p, q
<1>4. p >= q + 1 BY <1>0, <1>3
<1>5. d * p >= d * (q + 1) BY <1>0, <1>4
<1>6. d * (q + 1) = d * q + d BY <1>0
<1>. QED BY <1>0, <1>1, <1>2, <1>5, <1>6
-----------------------------------------------------------------------------
(* Type correctness *)

\* A process writes the file of a slot since its start; its task is behind it.
Clock ==
  \A p \in Process : On(p) =>
    /\ recorder[p].since <= recorder[p].at /\ recorder[p].at <= now
    /\ recorder[p].last # None => recorder[p].last < recorder[p].at /\ recorder[p].at = now

Typed == TypeOK /\ Clock

\* What the constants are.
LEMMA Slots == /\ DaySlots \in Nat /\ DaySlots > 1 /\ MaxTime \in Nat /\ MaxEvents \in Nat
               /\ Retention \in Nat /\ \A t \in Time : t \in Nat /\ t <= MaxTime
               /\ 0 \in Time /\ Seconds \in Nat /\ 0 \in 0..(Seconds - 1) /\ None = -1
BY ConstantsOK DEF Time, None

\* A name made from two slots is a name.
LEMMA Named ==
  ASSUME NEW c \in Camera, NEW s \in Time, NEW t \in Time, NEW n \in 0..(Seconds - 1)
  PROVE  Name(c, s, t, n) \in Names
<1>1. s \in Nat /\ t \in Nat /\ s <= MaxTime BY Slots
<1>2. Day(s) \in 0..Day(MaxTime)
  <2>1. s \div DaySlots \in Nat /\ MaxTime \div DaySlots \in Nat BY <1>1, Slots, Division
  <2>2. s \div DaySlots <= MaxTime \div DaySlots BY <1>1, Slots, Days
  <2>. QED BY <2>1, <2>2 DEF Day
<1>3. t % DaySlots \in 0..(DaySlots - 1) BY <1>1, Slots, Division
<1>4. (IF t = s THEN n ELSE 0) \in 0..(Seconds - 1) BY Slots
<1>. HIDE DEF Day
<1>. QED BY <1>2, <1>3, <1>4 DEF Name, Names

\* The fields of a process.
LEMMA Fields ==
  ASSUME TypeOK, NEW p \in Process
  PROVE  /\ recorder[p] \in Recorder /\ recorder[p].state \in {"new", "on", "off"}
         /\ recorder[p].cam \in Camera /\ recorder[p].since \in Time /\ recorder[p].at \in Time
         /\ recorder[p].second \in 0..(Seconds - 1) /\ recorder[p].last \in Time \cup {None}
         /\ now \in Time
BY DEF TypeOK, Recorder

\* What a process writes in a slot is a segment of its own.
LEMMA OfSegment ==
  ASSUME TypeOK, NEW p \in Process, NEW t \in Time
  PROVE  /\ Of(p, t) \in Segments /\ Of(p, t).by = p /\ Of(p, t).at = t
         /\ Of(p, t).name \in Names
<1>1. Name(recorder[p].cam, recorder[p].since, t, recorder[p].second) \in Names
  BY Fields, Named
<1> QED
  BY <1>1 DEF Of, Segments

\* An opened file takes the place of the one of its name.
LEMMA Opening ==
  ASSUME TypeOK, NEW s \in Segments, Open(s)
  PROVE  /\ files' \subseteq Segments /\ opened' \subseteq Segments
         /\ \A f, g \in files' : f.name = g.name => f = g
BY DEF TypeOK, Open, Without

\* The row of a segment.
RowOf(s) == [name |-> s.name, by |-> s.by, at |-> s.at, end |-> now]

LEMMA Closing ==
  ASSUME TypeOK, NEW s \in Segments
  PROVE  /\ RowOf(s) \in Rows /\ Segment(RowOf(s)) = s
         /\ Closed(s) = rows \/ Closed(s) = rows \cup {RowOf(s)}
         /\ s \in files => Closed(s) = rows \cup {RowOf(s)}
         /\ Closed(s) # rows => \E f \in files : f.name = s.name
         /\ Closed(s) \subseteq Rows
BY DEF TypeOK, Closed, Exists, Rows, RowOf, Segment, Segments

LEMMA UnusedFields ==
  /\ Unused \in Recorder /\ [Unused EXCEPT !.state = "off"] \in Recorder
  /\ Unused.state = "new" /\ [Unused EXCEPT !.state = "off"].state = "off"
<1>1. (CHOOSE c \in Camera : TRUE) \in Camera
  BY ConstantsOK
<1> QED
  BY <1>1, Slots DEF Unused, Recorder

\* The record of a child that executes no purge.
LEMMA PurgeFields ==
  ASSUME TypeOK, NEW w \in Purger
  PROVE  /\ purge[w] \in Purge /\ Resting \in Purge
         /\ purge[w].todo \subseteq Rows /\ purge[w].gone \subseteq Rows
BY Slots DEF TypeOK, Purge, Resting

LEMMA TypedInit == Init => Typed
<1> SUFFICES ASSUME Init PROVE Typed
  OBVIOUS
<1>1. recorder \in [Process -> Recorder] /\ \A p \in Process : recorder[p] = Unused
  BY UnusedFields DEF Init
<1>2. purge \in [Purger -> Purge] /\ now \in Time
  BY Slots DEF Init, Purge, Resting
<1>3. /\ files = {} /\ rows = {} /\ deleting = {} /\ due = 0 /\ removed = {}
      /\ calls = 0 /\ faults = 0
      /\ spoiled = {} /\ abandoned = {} /\ opened = {}
  BY DEF Init
<1>4. TypeOK
  BY <1>1, <1>2, <1>3, Slots DEF TypeOK
<1>5. Clock
  BY <1>1, UnusedFields DEF Clock, On
<1> QED
  BY <1>4, <1>5 DEF Typed

\* What a process writes, and the file before.
LEMMA Writes ==
  ASSUME Typed, NEW p \in Process, On(p)
  PROVE  /\ Current(p) \in Segments /\ Current(p).by = p /\ Current(p).at = recorder[p].at
         /\ recorder[p].at \in Nat /\ now \in Nat /\ recorder[p].at <= now
         /\ recorder[p].last # None =>
              /\ Last(p) \in Segments /\ Last(p).by = p /\ Last(p).at = recorder[p].last
              /\ recorder[p].last \in Nat /\ recorder[p].last < recorder[p].at
<1>1. TypeOK /\ Clock
  BY DEF Typed
<1>2. recorder[p].last # None => recorder[p].last \in Time
  BY <1>1, Fields
<1>3. Current(p) \in Segments /\ Current(p).by = p /\ Current(p).at = recorder[p].at
  BY <1>1, Fields, OfSegment DEF Current
<1>4. recorder[p].last # None =>
        Last(p) \in Segments /\ Last(p).by = p /\ Last(p).at = recorder[p].last
  BY <1>1, <1>2, OfSegment DEF Last
<1> QED
  BY <1>1, <1>2, <1>3, <1>4, Fields, Slots DEF Clock

\* The segment a step opens, if it opens one.
StartedAs(p, c, second) == [name |-> Name(c, now, now, second), by |-> p, at |-> now]

LEMMA TypedStart ==
  ASSUME Typed, NEW p \in Process, NEW c \in Camera, NEW n \in 0..(Seconds - 1), Start(p, c, n)
  PROVE  /\ Typed' /\ StartedAs(p, c, n) \in Segments
         /\ On(p)' /\ recorder'[p].at = now /\ recorder'[p].last = None
         /\ Current(p)' = StartedAs(p, c, n)
         /\ \A q \in Process : q # p => recorder'[q] = recorder[q]
<1>0. TypeOK /\ Clock /\ now \in Time
  BY DEF Typed, TypeOK
<1>1. StartedAs(p, c, n) \in Segments
  BY <1>0, Named DEF StartedAs, Segments
<1>2. /\ Open(StartedAs(p, c, n)) /\ UNCHANGED <<now, rows, purge, deleting, due, removed, history>>
      /\ recorder' = [recorder EXCEPT ![p] = [state |-> "on", cam |-> c, since |-> now,
                                              second |-> n, at |-> now, last |-> None]]
  BY DEF Start, StartedAs
<1>3. /\ recorder' \in [Process -> Recorder]
      /\ recorder'[p] = [state |-> "on", cam |-> c, since |-> now,
                         second |-> n, at |-> now, last |-> None]
      /\ \A q \in Process : q # p => recorder'[q] = recorder[q]
  BY <1>0, <1>2 DEF TypeOK, Recorder
<1>4. TypeOK'
  BY <1>0, <1>1, <1>2, <1>3, Opening DEF TypeOK, history
<1>5. Clock'
  BY <1>0, <1>2, <1>3, Slots DEF Clock, On
<1>6. Current(p)' = StartedAs(p, c, n)
  BY <1>3 DEF Current, Of, StartedAs
<1> QED
  BY <1>1, <1>3, <1>4, <1>5, <1>6 DEF Typed, On

LEMMA TypedRotate ==
  ASSUME Typed, NEW p \in Process, Rotate(p)
  PROVE  /\ Typed' /\ On(p)' /\ recorder'[p].at = now /\ recorder'[p].last = recorder[p].at
         /\ Current(p)' = Of(p, now) /\ Last(p)' = Current(p)
         /\ \A q \in Process : q # p => recorder'[q] = recorder[q]
<1>0. /\ TypeOK /\ Clock /\ now \in Time /\ On(p) /\ recorder[p].at < now
      /\ recorder[p] \in Recorder /\ recorder[p].at \in Time /\ Of(p, now) \in Segments
  BY Fields, OfSegment DEF Typed, TypeOK, Rotate
<1>1. /\ Open(Of(p, now)) /\ UNCHANGED <<now, rows, purge, deleting, due, removed, history>>
      /\ recorder' = [recorder EXCEPT ![p].at = now, ![p].last = recorder[p].at]
  BY DEF Rotate
<1>2. /\ recorder'[p] = [recorder[p] EXCEPT !.at = now, !.last = recorder[p].at]
      /\ \A q \in Process : q # p => recorder'[q] = recorder[q]
  BY <1>0, <1>1 DEF TypeOK
<1>3. /\ recorder'[p] \in Recorder /\ recorder'[p].state = "on"
      /\ recorder'[p].cam = recorder[p].cam /\ recorder'[p].since = recorder[p].since
      /\ recorder'[p].second = recorder[p].second
      /\ recorder'[p].at = now /\ recorder'[p].last = recorder[p].at
  BY <1>0, <1>2 DEF Recorder, On
<1>4. recorder' \in [Process -> Recorder]
  BY <1>0, <1>1, <1>2, <1>3 DEF TypeOK
<1>5. TypeOK'
  BY <1>0, <1>1, <1>4, Opening DEF TypeOK, history
<1>6. Clock'
  <2>1. recorder[p].since \in Nat /\ recorder[p].at \in Nat /\ now \in Nat
    BY <1>0, Fields, Slots
  <2>2. recorder[p].since <= recorder[p].at
    BY <1>0 DEF Clock
  <2>3. recorder'[p].since <= now /\ recorder'[p].last < now
    BY <1>0, <1>3, <2>1, <2>2
  <2>4. now' = now /\ recorder'[p].at <= now
    BY <1>1, <1>3, <2>1
  <2>5. SUFFICES ASSUME NEW q \in Process, On(q)'
                 PROVE  /\ recorder'[q].since <= recorder'[q].at /\ recorder'[q].at <= now'
                        /\ recorder'[q].last # None =>
                             recorder'[q].last < recorder'[q].at /\ recorder'[q].at = now'
    BY DEF Clock
  <2>6. CASE q = p
    BY <1>3, <2>3, <2>4, <2>6
  <2>7. CASE q # p
    BY <1>0, <1>2, <2>4, <2>5, <2>7 DEF Clock, On
  <2> QED
    BY <2>6, <2>7
<1>7. Current(p)' = Of(p, now) /\ Last(p)' = Current(p)
  BY <1>1, <1>3 DEF Current, Last, Of
<1> QED
  BY <1>2, <1>3, <1>5, <1>6, <1>7 DEF Typed, On

\* A row is written, or none: what the process was behind with is settled.
LEMMA TypedIndex ==
  ASSUME Typed, NEW p \in Process, Index(p)
  PROVE  /\ Typed' /\ On(p)' /\ recorder'[p].at = recorder[p].at /\ recorder'[p].last = None
         /\ Current(p)' = Current(p)
         /\ \A q \in Process : q # p => recorder'[q] = recorder[q]
<1>0. /\ TypeOK /\ Clock /\ On(p) /\ recorder[p].last # None /\ recorder[p] \in Recorder
      /\ Last(p) \in Segments
  BY Fields, Writes DEF Typed, Index
<1>1. /\ rows' = Closed(Last(p)) /\ recorder' = [recorder EXCEPT ![p].last = None]
      /\ UNCHANGED <<now, files, opened, purge, deleting, due, removed, history>>
  BY DEF Index
<1>2. /\ recorder'[p] = [recorder[p] EXCEPT !.last = None]
      /\ \A q \in Process : q # p => recorder'[q] = recorder[q]
  BY <1>0, <1>1 DEF TypeOK
<1>3. /\ recorder'[p] \in Recorder /\ recorder'[p].state = "on"
      /\ recorder'[p].cam = recorder[p].cam /\ recorder'[p].since = recorder[p].since
      /\ recorder'[p].second = recorder[p].second
      /\ recorder'[p].at = recorder[p].at /\ recorder'[p].last = None
  BY <1>0, <1>2 DEF Recorder, On
<1>4. recorder' \in [Process -> Recorder]
  BY <1>0, <1>1, <1>2, <1>3 DEF TypeOK
<1>5. rows' \subseteq Rows
  BY <1>0, <1>1, Closing
<1>6. TypeOK'
  BY <1>0, <1>1, <1>4, <1>5 DEF TypeOK, history
<1>7. Clock'
  BY <1>0, <1>1, <1>2, <1>3 DEF Clock, On
<1>8. Current(p)' = Current(p)
  BY <1>3 DEF Current, Of
<1> QED
  BY <1>2, <1>3, <1>6, <1>7, <1>8 DEF Typed, On

LEMMA TypedStop ==
  ASSUME Typed, NEW p \in Process, Stop(p) \/ StopUnindexed(p)
  PROVE  /\ Typed' /\ ~On(p)' /\ recorder'[p].state = "off"
         /\ \A q \in Process : q # p => recorder'[q] = recorder[q]
<1>0. TypeOK /\ Clock /\ On(p) /\ Current(p) \in Segments
  BY Writes DEF Typed, Stop, StopUnindexed
<1>1. recorder' = [recorder EXCEPT ![p] = [Unused EXCEPT !.state = "off"]] /\ now' = now
  BY DEF Stop, StopUnindexed
<1>2. /\ recorder'[p] = [Unused EXCEPT !.state = "off"]
      /\ \A q \in Process : q # p => recorder'[q] = recorder[q]
  BY <1>0, <1>1 DEF TypeOK
<1>3. recorder' \in [Process -> Recorder] /\ recorder'[p].state = "off"
  BY <1>0, <1>1, <1>2, UnusedFields DEF TypeOK
<1>4. CASE Stop(p)
  <2>1. /\ rows' = Closed(Current(p))
        /\ UNCHANGED <<now, files, opened, purge, deleting, due, removed, history>>
    BY <1>4 DEF Stop
  <2>2. rows' \subseteq Rows
    BY <1>0, <2>1, Closing
  <2> QED
    BY <1>0, <1>2, <1>3, <2>1, <2>2 DEF Typed, TypeOK, history, Clock, On
<1>5. CASE StopUnindexed(p)
  <2>1. /\ abandoned' = abandoned \cup Unindexed(p) /\ faults' = faults + 1
        /\ calls + faults < MaxEvents
        /\ UNCHANGED <<now, files, rows, opened, purge, deleting, due, removed, calls, spoiled>>
    BY <1>5 DEF StopUnindexed, Fault, store
  <2>2. abandoned' \subseteq Segments /\ faults' \in 0..MaxEvents
    BY <1>0, <2>1, Slots DEF Unindexed, TypeOK
  <2> QED
    BY <1>0, <1>2, <1>3, <2>1, <2>2 DEF Typed, TypeOK, Clock, On
<1> QED
  BY <1>2, <1>3, <1>4, <1>5 DEF On

LEMMA TypedTick == ASSUME Typed, Tick PROVE Typed'
<1>1. /\ TypeOK /\ Clock /\ now < MaxTime /\ now' = now + 1 /\ now \in Nat
      /\ due' = 1 \/ due' = due
      /\ UNCHANGED <<recorder, files, rows, opened, purge, deleting, removed, history>>
  BY Slots DEF Typed, TypeOK, Tick, store
<1>2. now' \in Time
  BY <1>1, Slots DEF Time
<1>3. TypeOK'
  BY <1>1, <1>2 DEF TypeOK, history
<1>4. Clock'
  <2>1. \A p \in Process : On(p) => recorder[p].at = now /\ recorder[p].last = None
    BY DEF Tick
  <2>2. \A p \in Process : On(p) => recorder[p].since <= now + 1
    BY <1>1, <2>1, Fields, Slots DEF Clock
  <2> QED
    BY <1>1, <2>1, <2>2, Slots DEF Clock, On
<1> QED
  BY <1>3, <1>4 DEF Typed
-----------------------------------------------------------------------------
(* What a removal does *)

\* Rows whose files somebody has unlinked.
Left == deleting \cup UNION {purge[w].gone : w \in Purger}

LEMMA LeftIs ==
  /\ \A r : r \in Left <=> r \in deleting \/ \E w \in Purger : r \in purge[w].gone
  /\ \A r : r \in Known <=> \/ r \in rows \cup deleting
                            \/ \E w \in Purger : r \in purge[w].todo \cup purge[w].gone
  /\ Left \subseteq Known /\ rows \subseteq Known
BY DEF Left, Known

\* All that the purge and the API do to files and rows: a file that goes has the name of a
\* row selected or named in a request, a row goes after its file has been tried, and a row
\* whose removal is given up lacks its file for good or has one still.
Removal ==
  /\ UNCHANGED <<now, recorder, opened>>
  /\ files' \subseteq files /\ rows' \subseteq rows
  /\ abandoned \subseteq abandoned' /\ spoiled \subseteq spoiled'
  /\ \A r \in Known' : r \in Known
  /\ \A r \in Left' : r \in Left \/ (Segment(r) \in files' => Segment(r) \in abandoned')
  /\ \A r \in rows \ rows' : r \in Left
  /\ \A r \in Left : r \in rows' => \/ r \in Left' \cup spoiled'
                                    \/ \E f \in files' : f.name = r.name
  /\ \A f \in files \ files' : \E r \in Left' :
       /\ r \in Known /\ r.name = f.name
       /\ (r \in rows /\ r \in deleting' \ deleting) \/ \E w \in Purger : r \in purge[w].todo

\* A step of one child: the rows of the others stay known and left.
LEMMA OneChild ==
  ASSUME TypeOK, NEW w \in Purger, NEW p \in Purge, purge' = [purge EXCEPT ![w] = p],
         deleting' = deleting, rows' \subseteq rows,
         p.todo \subseteq purge[w].todo \cup rows, p.gone \subseteq purge[w].gone \cup purge[w].todo
  PROVE  /\ purge' \in [Purger -> Purge]
         /\ \A r \in Known' : r \in Known
         /\ \A r \in Left' : r \in Left \/ r \in p.gone
         /\ \A r \in Left : r \in Left' \/ r \in purge[w].gone
         /\ \A r \in p.gone : r \in Left'
<1>1. /\ purge \in [Purger -> Purge] /\ purge[w] \in Purge
      /\ purge'[w] = p /\ \A v \in Purger : v # w => purge'[v] = purge[v]
  BY DEF TypeOK
<1>2. p.gone \subseteq Rows /\ p.todo \subseteq Rows
  BY DEF Purge
<1>3. purge' \in [Purger -> Purge]
  BY <1>1
<1>4. \A r : r \in Known' <=> \/ r \in rows' \cup deleting'
                              \/ \E v \in Purger : r \in purge'[v].todo \cup purge'[v].gone
  BY DEF Known
<1>5. \A r : r \in Left' <=> r \in deleting' \/ \E v \in Purger : r \in purge'[v].gone
  BY DEF Left
<1>6. \A r \in Known' : r \in Known
  BY <1>1, <1>4, LeftIs
<1>7. \A r \in Left' : r \in Left \/ r \in p.gone
  BY <1>1, <1>5, LeftIs
<1>8. \A r \in Left : r \in Left' \/ r \in purge[w].gone
  BY <1>1, <1>5, LeftIs
<1>9. \A r \in p.gone : r \in Left'
  BY <1>1, <1>5
<1> QED
  BY <1>3, <1>6, <1>7, <1>8, <1>9

\* Steps that select rows or wait: no row, no file, no unlinked row.
LEMMA Selecting ==
  ASSUME Typed, NEW w \in Purger
  PROVE  BeginPurge(w) \/ (\E c \in Camera : SelectExpired(w, c)) \/ SelectOldest(w)
           \/ EndEmergency(w)
         => TypeOK' /\ Removal
<1>0. /\ TypeOK /\ now \in Time /\ purge \in [Purger -> Purge] /\ purge[w] \in Purge
      /\ Resting \in Purge /\ removed \subseteq Camera
  BY PurgeFields DEF Typed, TypeOK
<1>1. ASSUME NEW p \in Purge, purge' = [purge EXCEPT ![w] = p],
             p.todo \subseteq purge[w].todo \cup rows, p.gone = purge[w].gone,
             UNCHANGED <<now, recorder, files, rows, opened, deleting, abandoned, spoiled>>
      PROVE  Removal /\ purge' \in [Purger -> Purge]
  <2>1. /\ purge' \in [Purger -> Purge]
        /\ \A r \in Known' : r \in Known
        /\ \A r \in Left' : r \in Left \/ r \in p.gone
        /\ \A r \in Left : r \in Left' \/ r \in purge[w].gone
        /\ \A r \in p.gone : r \in Left'
    BY <1>0, <1>1, OneChild
  <2>2. \A r \in p.gone : r \in Left
    BY <1>0, <1>1, LeftIs
  <2> QED
    BY <1>1, <2>1, <2>2 DEF Removal
<1>2. ASSUME BeginPurge(w) PROVE TypeOK' /\ Removal
  <2>1. PICK p : p = [Resting EXCEPT !.stage = "purging", !.from = now, !.left = Camera \ removed]
    OBVIOUS
  <2>2. p = [stage |-> "purging", from |-> now, left |-> Camera \ removed,
             todo |-> {}, gone |-> {}]
    BY <2>1 DEF Resting
  <2>3. p \in Purge /\ p.todo = {} /\ p.gone = {}
    BY <1>0, <2>2 DEF Purge
  <2>4. purge' = [purge EXCEPT ![w] = p] /\ purge[w].gone = {}
    BY <1>2, <2>1 DEF BeginPurge, Resting
  <2>5. UNCHANGED <<now, recorder, files, rows, opened, deleting, removed, calls, faults,
                    spoiled, abandoned>>
    BY <1>2 DEF BeginPurge, store, history
  <2>6. Removal /\ purge' \in [Purger -> Purge]
    BY <1>1, <2>3, <2>4, <2>5
  <2>7. due' \in 0..1
    BY <1>0, <1>2 DEF BeginPurge, TypeOK
  <2> QED
    BY <1>0, <2>5, <2>6, <2>7 DEF TypeOK
<1>3. ASSUME NEW c \in Camera, SelectExpired(w, c) PROVE TypeOK' /\ Removal
  <2>1. PICK B \in Limited(PurgeLimit, Expired(c, purge[w].from)) :
          purge' = [purge EXCEPT ![w].left = @ \ {c}, ![w].todo = B]
    BY <1>3 DEF SelectExpired
  <2>2. B \subseteq rows /\ B \subseteq Rows
    BY <1>0, <2>1 DEF Limited, Expired, TypeOK
  <2>3. PICK p : p = [purge[w] EXCEPT !.left = @ \ {c}, !.todo = B]
    OBVIOUS
  <2>4. p \in Purge /\ p.todo = B /\ p.gone = purge[w].gone
    BY <1>0, <2>2, <2>3 DEF Purge
  <2>5. purge' = [purge EXCEPT ![w] = p]
    BY <1>0, <2>1, <2>3
  <2>6. UNCHANGED <<now, recorder, files, rows, opened, deleting, due, removed, calls, faults,
                    spoiled, abandoned>>
    BY <1>3 DEF SelectExpired, store, history
  <2>7. Removal /\ purge' \in [Purger -> Purge]
    BY <1>1, <2>2, <2>4, <2>5, <2>6
  <2> QED
    BY <1>0, <2>6, <2>7 DEF TypeOK
<1>4. ASSUME SelectOldest(w) PROVE TypeOK' /\ Removal
  <2>1. PICK B \in Oldest(EmergencyLimit) : purge' = [purge EXCEPT ![w].todo = B]
    BY <1>4 DEF SelectOldest
  <2>2. B \subseteq rows /\ B \subseteq Rows
    BY <1>0, <2>1 DEF Limited, Oldest, TypeOK
  <2>3. PICK p : p = [purge[w] EXCEPT !.todo = B]
    OBVIOUS
  <2>4. p \in Purge /\ p.todo = B /\ p.gone = purge[w].gone
    BY <1>0, <2>2, <2>3 DEF Purge
  <2>5. purge' = [purge EXCEPT ![w] = p]
    BY <1>0, <2>1, <2>3
  <2>6. UNCHANGED <<now, recorder, files, rows, opened, deleting, due, removed, calls, faults,
                    spoiled, abandoned>>
    BY <1>4 DEF SelectOldest, store, history
  <2>7. Removal /\ purge' \in [Purger -> Purge]
    BY <1>1, <2>2, <2>4, <2>5, <2>6
  <2> QED
    BY <1>0, <2>6, <2>7 DEF TypeOK
<1>5. ASSUME EndEmergency(w) PROVE TypeOK' /\ Removal
  <2>1. Resting.todo = {} /\ Resting.gone = purge[w].gone
    BY <1>5 DEF EndEmergency, Resting
  <2>2. purge' = [purge EXCEPT ![w] = Resting]
        /\ UNCHANGED <<now, recorder, files, rows, opened, deleting, due, removed, calls, faults,
                       spoiled, abandoned>>
    BY <1>5 DEF EndEmergency, store, history
  <2>3. Removal /\ purge' \in [Purger -> Purge]
    BY <1>0, <1>1, <2>1, <2>2
  <2> QED
    BY <1>0, <2>2, <2>3 DEF TypeOK
<1> QED
  BY <1>2, <1>3, <1>4, <1>5

\* Steps that unlink, fail to unlink, delete rows or give up.
LEMMA Unlinking ==
  ASSUME Typed, NEW w \in Purger
  PROVE  (\E r \in purge[w].todo : UnlinkOne(w, r) \/ UnlinkFails(w, r))
           \/ CommitPurge(w) \/ CommitBatch(w) \/ AbortPurge(w)
         => TypeOK' /\ Removal
<1>0. /\ TypeOK /\ now \in Time /\ purge \in [Purger -> Purge] /\ purge[w] \in Purge
      /\ Resting \in Purge /\ purge[w].todo \subseteq Rows /\ purge[w].gone \subseteq Rows
      /\ \A r \in purge[w].gone : r \in Left
      /\ \A r \in purge[w].todo : r \in Known
  BY PurgeFields, LeftIs DEF Typed, TypeOK
<1>1. ASSUME NEW r \in purge[w].todo, UnlinkOne(w, r) \/ UnlinkFails(w, r) PROVE TypeOK' /\ Removal
  <2>1. PICK p : p = [purge[w] EXCEPT !.todo = @ \ {r}, !.gone = @ \cup {r}]
    OBVIOUS
  <2>2. /\ p \in Purge /\ p.todo = purge[w].todo \ {r} /\ p.gone = purge[w].gone \cup {r}
    BY <1>0, <2>1 DEF Purge
  <2>3. purge' = [purge EXCEPT ![w] = p]
    BY <1>0, <1>1, <2>1 DEF UnlinkOne, UnlinkFails
  <2>4. UNCHANGED <<now, recorder, rows, opened, deleting, due, removed, calls, spoiled>>
    BY <1>1 DEF UnlinkOne, UnlinkFails, store, history
  <2>5. /\ purge' \in [Purger -> Purge]
        /\ \A s \in Known' : s \in Known
        /\ \A s \in Left' : s \in Left \/ s \in p.gone
        /\ \A s \in Left : s \in Left' \/ s \in purge[w].gone
        /\ \A s \in p.gone : s \in Left'
    BY <1>0, <2>2, <2>3, <2>4, OneChild
  <2>6. /\ files' \subseteq files /\ abandoned \subseteq abandoned'
        /\ abandoned' \subseteq abandoned \cup files
        /\ faults' \in 0..MaxEvents
        /\ Segment(r) \in files' => Segment(r) \in abandoned'
        /\ \A f \in files \ files' : f.name = r.name
    <3>1. CASE UnlinkOne(w, r)
      <4>1. files' = Without(r.name) /\ UNCHANGED <<calls, faults, spoiled, abandoned>>
        BY <3>1 DEF UnlinkOne, history
      <4> QED
        BY <1>0, <4>1 DEF Without, TypeOK, Segment
    <3>2. CASE UnlinkFails(w, r)
      BY <1>0, <3>2, Slots DEF UnlinkFails, Fault, store, TypeOK
    <3> QED
      BY <1>1, <3>1, <3>2
  <2>7. TypeOK'
    BY <1>0, <2>4, <2>5, <2>6 DEF TypeOK
  <2>8. \A s \in Left : s \in Left'
    BY <2>2, <2>5
  <2>9. \A s \in Left' : s \in Left \/ s = r
    BY <1>0, <2>2, <2>5
  <2>10. r \in Left' /\ r \in Known
    BY <1>0, <2>2, <2>5
  <2> QED
    BY <2>4, <2>5, <2>6, <2>7, <2>8, <2>9, <2>10 DEF Removal
<1>2. ASSUME NEW p \in Purge, purge' = [purge EXCEPT ![w] = p], p.todo \subseteq purge[w].todo,
             p.gone = {}, rows' = rows \ purge[w].gone,
             UNCHANGED <<now, recorder, files, opened, deleting, abandoned, spoiled>>
      PROVE  Removal /\ purge' \in [Purger -> Purge]
  <2>1. /\ purge' \in [Purger -> Purge]
        /\ \A s \in Known' : s \in Known
        /\ \A s \in Left' : s \in Left \/ s \in p.gone
        /\ \A s \in Left : s \in Left' \/ s \in purge[w].gone
    BY <1>0, <1>2, OneChild
  <2>2. rows \ rows' \subseteq purge[w].gone /\ rows' \cap purge[w].gone = {}
    BY <1>2
  <2> QED
    BY <1>0, <1>2, <2>1, <2>2 DEF Removal
<1>3. ASSUME CommitPurge(w) PROVE TypeOK' /\ Removal
  <2>1. PICK p : p = IF Cardinality(files) >= Critical
                     THEN [Resting EXCEPT !.stage = "emergency"] ELSE Resting
    OBVIOUS
  <2>2. p \in Purge /\ p.todo = {} /\ p.gone = {}
    BY <1>0, <2>1 DEF Purge, Resting
  <2>3. purge' = [purge EXCEPT ![w] = p] /\ purge[w].todo = {} /\ rows' = rows \ purge[w].gone
    BY <1>3, <2>1 DEF CommitPurge
  <2>4. UNCHANGED <<now, recorder, files, opened, deleting, due, removed, calls, faults, spoiled,
                    abandoned>>
    BY <1>3 DEF CommitPurge, history
  <2>5. Removal /\ purge' \in [Purger -> Purge]
    BY <1>2, <2>2, <2>3, <2>4
  <2> QED
    BY <1>0, <2>3, <2>4, <2>5 DEF TypeOK
<1>4. ASSUME CommitBatch(w) PROVE TypeOK' /\ Removal
  <2>1. PICK p : p = [purge[w] EXCEPT !.gone = {}]
    OBVIOUS
  <2>2. p \in Purge /\ p.todo = purge[w].todo /\ p.gone = {}
    BY <1>0, <2>1 DEF Purge
  <2>3. purge' = [purge EXCEPT ![w] = p] /\ rows' = rows \ purge[w].gone
    BY <1>0, <1>4, <2>1 DEF CommitBatch
  <2>4. UNCHANGED <<now, recorder, files, opened, deleting, due, removed, calls, faults, spoiled,
                    abandoned>>
    BY <1>4 DEF CommitBatch, history
  <2>5. Removal /\ purge' \in [Purger -> Purge]
    BY <1>2, <2>2, <2>3, <2>4
  <2> QED
    BY <1>0, <2>3, <2>4, <2>5 DEF TypeOK
<1>5. ASSUME AbortPurge(w) PROVE TypeOK' /\ Removal
  <2>1. Resting.todo = {} /\ Resting.gone = {}
    BY DEF Resting
  <2>2. /\ UNCHANGED <<now, recorder, files, rows, opened, deleting, due, removed, calls, abandoned>>
        /\ spoiled' = spoiled \cup {r \in purge[w].gone : ~Exists(r.name)}
        /\ purge' = [purge EXCEPT ![w] = Resting]
    BY <1>5 DEF AbortPurge, store
  <2>3. /\ purge' \in [Purger -> Purge]
        /\ \A s \in Known' : s \in Known
        /\ \A s \in Left' : s \in Left
        /\ \A s \in Left : s \in Left' \/ s \in purge[w].gone
    BY <1>0, <2>1, <2>2, OneChild
  <2>4. \A s \in purge[w].gone : s \in spoiled' \/ \E f \in files' : f.name = s.name
    BY <2>2 DEF Exists
  <2>5. faults' \in 0..MaxEvents
    BY <1>0, <1>5, Slots DEF AbortPurge, Fault, TypeOK
  <2>6. TypeOK'
    BY <1>0, <2>2, <2>3, <2>5 DEF TypeOK
  <2> QED
    BY <2>2, <2>3, <2>4, <2>6 DEF Removal
<1> QED
  BY <1>1, <1>3, <1>4, <1>5

\* Requests and the message of the purge.
LEMMA Requesting ==
  ASSUME Typed
  PROVE  /\ SendPurge \/ (\E c \in Camera : DeleteCamera(c)) => TypeOK' /\ Removal
         /\ (\E r \in rows \cup deleting : DeleteFile(r) \/ CommitDelete(r) \/ AbortDelete(r))
              => TypeOK' /\ Removal
<1>0. /\ TypeOK /\ deleting \subseteq Left /\ deleting \subseteq Rows /\ rows \subseteq Rows
      /\ rows \subseteq Known
  BY LeftIs DEF Typed, TypeOK
<1>1. ASSUME NEW c \in Camera, DeleteCamera(c) PROVE TypeOK' /\ Removal
  <2>1. Known' = Known /\ Left' = Left
    BY <1>1 DEF DeleteCamera, Known, Left, store
  <2>2. calls' \in 0..MaxEvents
    BY <1>0, <1>1, Slots DEF DeleteCamera, Call, TypeOK
  <2> QED
    BY <1>0, <1>1, <2>1, <2>2 DEF DeleteCamera, TypeOK, Removal, store
<1>6. ASSUME SendPurge PROVE TypeOK' /\ Removal
  <2>1. Known' = Known /\ Left' = Left
    BY <1>6 DEF SendPurge, Known, Left, store
  <2> QED
    BY <1>0, <1>6, <2>1 DEF SendPurge, TypeOK, Removal, store, history
<1>2. ASSUME NEW r \in rows \cup deleting, DeleteFile(r) PROVE TypeOK' /\ Removal
  <2>1. /\ r \in rows \ deleting /\ files' = Without(r.name) /\ deleting' = deleting \cup {r}
        /\ UNCHANGED <<now, recorder, rows, opened, purge, due, removed, faults, spoiled, abandoned>>
    BY <1>2 DEF DeleteFile
  <2>2. calls' \in 0..MaxEvents
    BY <1>0, <1>2, Slots DEF DeleteFile, Call, TypeOK
  <2>3. TypeOK'
    BY <1>0, <2>1, <2>2 DEF TypeOK, Without
  <2>4. (\A s \in Known' : s \in Known) /\ Left' = Left \cup {r}
    BY <1>0, <2>1 DEF Known, Left
  <2>5. Segment(r) \notin files'
    BY <2>1 DEF Without, Segment
  <2> QED
    BY <1>0, <2>1, <2>3, <2>4, <2>5 DEF Removal, Without
<1>3. ASSUME NEW r \in rows \cup deleting, CommitDelete(r) PROVE TypeOK' /\ Removal
  <2>1. /\ r \in deleting /\ rows' = rows \ {r} /\ deleting' = deleting \ {r}
        /\ UNCHANGED <<now, recorder, files, opened, purge, due, removed, calls, faults, spoiled,
                        abandoned>>
    BY <1>3 DEF CommitDelete, history
  <2>2. TypeOK'
    BY <1>0, <2>1 DEF TypeOK
  <2>3. /\ \A s \in Known' : s \in Known
        /\ \A s \in Left' : s \in Left
        /\ \A s \in Left : s \in Left' \/ s = r
    BY <1>0, <2>1 DEF Known, Left
  <2> QED
    BY <1>0, <2>1, <2>2, <2>3 DEF Removal
<1>4. ASSUME NEW r \in rows \cup deleting, AbortDelete(r) PROVE TypeOK' /\ Removal
  <2>1. /\ r \in deleting /\ spoiled' = spoiled \cup {r} /\ deleting' = deleting \ {r}
        /\ UNCHANGED <<now, recorder, files, rows, opened, purge, due, removed, calls, faults,
                       abandoned>>
    BY <1>4 DEF AbortDelete, store
  <2>2. TypeOK'
    BY <1>0, <2>1 DEF TypeOK
  <2>3. /\ \A s \in Known' : s \in Known
        /\ \A s \in Left' : s \in Left
        /\ \A s \in Left : s \in Left' \/ s = r
    BY <1>0, <2>1 DEF Known, Left
  <2> QED
    BY <1>0, <2>1, <2>2, <2>3 DEF Removal
<1> QED
  BY <1>1, <1>2, <1>3, <1>4, <1>6

\* Every step is one of recording, the passing of a slot, or a removal.
LEMMA Steps ==
  ASSUME Typed, [Next]_vars
  PROVE  /\ Typed'
         /\ \/ Tick
            \/ \E p \in Process :
                 \/ \E c \in Camera, n \in 0..(Seconds - 1) : Start(p, c, n)
                 \/ Rotate(p) \/ Index(p) \/ Stop(p) \/ StopUnindexed(p)
            \/ Removal
<1>0. ASSUME TypeOK', Removal PROVE Typed'
  BY <1>0 DEF Typed, Removal, Clock, On
<1>1. CASE UNCHANGED vars
  <2>1. TypeOK' /\ Known' = Known /\ Left' = Left
    BY <1>1 DEF Typed, vars, TypeOK, Known, Left
  <2> QED
    BY <1>0, <1>1, <2>1 DEF vars, Removal
<1>2. CASE Tick
  BY <1>2, TypedTick
<1>3. ASSUME NEW p \in Process,
             \/ \E c \in Camera, n \in 0..(Seconds - 1) : Start(p, c, n)
             \/ Rotate(p) \/ Index(p) \/ Stop(p) \/ StopUnindexed(p)
      PROVE  Typed'
  BY <1>3, TypedStart, TypedRotate, TypedIndex, TypedStop
<1>4. ASSUME NEW w \in Purger,
             \/ BeginPurge(w)
             \/ \E c \in Camera : SelectExpired(w, c)
             \/ \E r \in purge[w].todo : UnlinkOne(w, r) \/ UnlinkFails(w, r)
             \/ CommitPurge(w) \/ SelectOldest(w) \/ CommitBatch(w) \/ EndEmergency(w)
             \/ AbortPurge(w)
      PROVE  Typed' /\ Removal
  BY <1>0, <1>4, Selecting, Unlinking
<1>5. ASSUME SendPurge \/ (\E c \in Camera : DeleteCamera(c))
              \/ \E r \in rows \cup deleting : DeleteFile(r) \/ CommitDelete(r) \/ AbortDelete(r)
      PROVE  Typed' /\ Removal
  BY <1>0, <1>5, Requesting
<1> QED
  BY <1>1, <1>2, <1>3, <1>4, <1>5 DEF Next

\* Every variable keeps its type: names stay within a day's slots and the days of the run.
THEOREM TypeCorrect == Spec => []TypeOK
<1>1. Init => Typed
  BY TypedInit
<1>2. Typed /\ [Next]_vars => Typed'
  BY Steps
<1>3. Typed => TypeOK
  BY DEF Typed
<1> QED
  BY <1>1, <1>2, <1>3, PTL DEF Spec
-----------------------------------------------------------------------------
(* Segments and rows *)

\* Files and rows are of segments that were opened.
OpenedAll ==
  /\ files \subseteq opened /\ \A r \in Known : Segment(r) \in opened
  /\ \A p \in Process : On(p) =>
       Current(p) \in opened /\ (recorder[p].last # None => Last(p) \in opened)

\* A process opens a segment in a slot once: in the slots up to that of the file it writes.
OpenedDated ==
  \A s \in opened :
    /\ s \in Segments /\ recorder[s.by].state # "new"
    /\ On(s.by) => s.at <= recorder[s.by].at

\* A process has no row yet for what it writes or its task has not indexed.
RowsBehind ==
  \A r \in Known : On(r.by) =>
    /\ r.at < recorder[r.by].at
    /\ recorder[r.by].last # None => r.at < recorder[r.by].last

\* A segment has one row at most.
OneRow == \A r, s \in Known : Segment(r) = Segment(s) => r = s

Ledger == OpenedAll /\ OpenedDated /\ RowsBehind /\ OneRow

LEMMA KnownTyped ==
  ASSUME TypeOK
  PROVE  \A r \in Known : /\ r \in Rows /\ r.by \in Process /\ r.at \in Nat
                          /\ Segment(r).by = r.by /\ Segment(r).at = r.at
                          /\ Segment(r).name = r.name
<1>1. \A r \in Known : r \in Rows
  BY LeftIs, PurgeFields DEF TypeOK
<1> QED
  BY <1>1, Slots DEF Rows, Segment

\* A new file: of a segment that was never opened, whose process has no such row.
Opens(p, s) ==
  /\ Open(s) /\ s \in Segments /\ s.by = p /\ s.at = now /\ s \notin opened
  /\ On(p)' /\ recorder'[p].at = now /\ Current(p)' = s
  /\ \A q \in Process : q # p => recorder'[q] = recorder[q]
  /\ recorder'[p].last # None =>
       Last(p)' \in opened /\ \A r \in Known : r.by = p => r.at < recorder'[p].last
  /\ \A o \in opened : o.by = p => o.at < now
  /\ UNCHANGED <<now, rows, purge, deleting, spoiled, abandoned>>

LEMMA StartOpens ==
  ASSUME Typed, Ledger, NEW p \in Process, NEW c \in Camera, NEW n \in 0..(Seconds - 1),
         Start(p, c, n)
  PROVE  Opens(p, StartedAs(p, c, n)) /\ recorder[p].state = "new"
<1>1. /\ StartedAs(p, c, n) \in Segments
      /\ On(p)' /\ recorder'[p].at = now /\ recorder'[p].last = None
      /\ Current(p)' = StartedAs(p, c, n)
      /\ \A q \in Process : q # p => recorder'[q] = recorder[q]
  BY TypedStart
<1>2. /\ Open(StartedAs(p, c, n)) /\ recorder[p].state = "new"
      /\ UNCHANGED <<now, rows, purge, deleting, spoiled, abandoned>>
  BY DEF Start, StartedAs, history
<1>3. \A o \in opened : o.by # p
  BY <1>2 DEF Ledger, OpenedDated
<1>4. StartedAs(p, c, n).by = p /\ StartedAs(p, c, n).at = now
  BY DEF StartedAs
<1> HIDE DEF StartedAs
<1> QED
  BY <1>1, <1>2, <1>3, <1>4 DEF Opens

LEMMA RotateOpens ==
  ASSUME Typed, Ledger, NEW p \in Process, Rotate(p)
  PROVE  Opens(p, Of(p, now)) /\ Last(p)' = Current(p) /\ recorder'[p].last # None
<1>0. /\ TypeOK /\ On(p) /\ recorder[p].at < now /\ now \in Time /\ now \in Nat
      /\ recorder[p].at \in Nat
  BY Fields, Slots DEF Typed, TypeOK, Rotate
<1>1. /\ On(p)' /\ recorder'[p].at = now /\ recorder'[p].last = recorder[p].at
      /\ Current(p)' = Of(p, now) /\ Last(p)' = Current(p)
      /\ \A q \in Process : q # p => recorder'[q] = recorder[q]
  BY TypedRotate
<1>2. /\ Open(Of(p, now))
      /\ UNCHANGED <<now, rows, purge, deleting, spoiled, abandoned>>
  BY DEF Rotate, history
<1>3. Of(p, now) \in Segments /\ Of(p, now).by = p /\ Of(p, now).at = now
  BY <1>0, OfSegment
<1>4. \A o \in opened : o.by = p => o.at < now
  <2>1. \A o \in opened : o.by = p => o.at <= recorder[p].at /\ o.at \in Nat
    BY <1>0, Slots DEF Ledger, OpenedDated, Segments
  <2> QED
    BY <1>0, <2>1
<1>5. Of(p, now) \notin opened
  BY <1>0, <1>3, <1>4
<1>6. Current(p) \in opened /\ \A r \in Known : r.by = p => r.at < recorder[p].at
  BY <1>0 DEF Ledger, OpenedAll, RowsBehind
<1>7. recorder'[p].last # None
  BY <1>0, <1>1, Slots
<1> QED
  BY <1>1, <1>2, <1>3, <1>4, <1>5, <1>6, <1>7 DEF Opens

LEMMA LedgerOpens ==
  ASSUME Typed, Ledger, NEW p \in Process, NEW s, Opens(p, s)
  PROVE  Ledger'
<1>0. TypeOK /\ now \in Nat
  BY Slots DEF Typed, TypeOK
<1>1. /\ files' = Without(s.name) \cup {s} /\ opened' = opened \cup {s}
      /\ s \in Segments /\ s.by = p /\ s.at = now /\ s \notin opened
      /\ On(p)' /\ recorder'[p].at = now /\ Current(p)' = s
      /\ \A q \in Process : q # p => recorder'[q] = recorder[q]
      /\ recorder'[p].last # None =>
           Last(p)' \in opened /\ \A r \in Known : r.by = p => r.at < recorder'[p].last
      /\ \A o \in opened : o.by = p => o.at < now
      /\ UNCHANGED <<now, rows, purge, deleting>>
  BY DEF Opens, Open
<1>2. Known' = Known
  BY <1>1 DEF Known
<1>3. OneRow'
  BY <1>2 DEF Ledger, OneRow
<1>4. OpenedAll'
  <2>1. files' \subseteq opened' /\ \A r \in Known' : Segment(r) \in opened'
    BY <1>1, <1>2 DEF Ledger, OpenedAll, Without
  <2>2. ASSUME NEW q \in Process, q # p, On(q)'
        PROVE  Current(q)' \in opened' /\ (recorder'[q].last # None => Last(q)' \in opened')
    <3>1. On(q) /\ Current(q)' = Current(q) /\ Last(q)' = Last(q)
      BY <1>1, <2>2 DEF On, Current, Last, Of
    <3> QED
      BY <1>1, <2>2, <3>1 DEF Ledger, OpenedAll
  <2> QED
    BY <1>1, <2>1, <2>2 DEF OpenedAll
<1>5. OpenedDated'
  <2>1. \A o \in opened : /\ o \in Segments /\ o.by \in Process /\ recorder[o.by].state # "new"
                          /\ On(o.by) => o.at <= recorder[o.by].at
    BY DEF Ledger, OpenedDated, Segments
  <2>2. recorder'[p].state # "new"
    BY <1>1 DEF On
  <2>3. SUFFICES ASSUME NEW o \in opened'
                 PROVE  /\ o \in Segments /\ recorder'[o.by].state # "new"
                        /\ On(o.by)' => o.at <= recorder'[o.by].at
    BY DEF OpenedDated
  <2>4. CASE o = s
    BY <1>0, <1>1, <2>2, <2>4
  <2>5. CASE o \in opened /\ o.by = p
    <3>1. o.at \in Nat
      BY <2>1, <2>5, Slots DEF Segments
    <3> QED
      BY <1>0, <1>1, <2>1, <2>2, <2>5, <3>1
  <2>6. CASE o \in opened /\ o.by # p
    BY <1>1, <2>1, <2>6 DEF On
  <2> QED
    BY <1>1, <2>3, <2>4, <2>5, <2>6
<1>6. RowsBehind'
  <2>1. SUFFICES ASSUME NEW r \in Known, On(r.by)'
                 PROVE  /\ r.at < recorder'[r.by].at
                        /\ recorder'[r.by].last # None => r.at < recorder'[r.by].last
    BY <1>2 DEF RowsBehind
  <2>2. /\ r.by \in Process /\ Segment(r) \in opened
        /\ Segment(r).by = r.by /\ Segment(r).at = r.at
    BY <1>0, KnownTyped DEF Ledger, OpenedAll
  <2>3. CASE r.by = p
    BY <1>1, <2>2, <2>3
  <2>4. CASE r.by # p
    BY <1>1, <2>1, <2>2, <2>4 DEF Ledger, RowsBehind, On
  <2> QED
    BY <2>3, <2>4
<1> QED
  BY <1>3, <1>4, <1>5, <1>6 DEF Ledger

\* A row is written, or none: of a segment that was opened, has none yet and will not be
\* indexed again.
Writing(p, s) ==
  /\ rows' = Closed(s) /\ s \in Segments /\ s \in opened /\ s.by = p
  /\ \A r \in Known : r.by = p => r.at < s.at
  /\ On(p)' => /\ recorder'[p].at = recorder[p].at /\ recorder'[p].last = None
               /\ Current(p)' = Current(p) /\ s.at < recorder[p].at
  /\ On(p) /\ recorder'[p].state # "new"
  /\ \A q \in Process : q # p => recorder'[q] = recorder[q]
  /\ UNCHANGED <<now, files, opened, purge, deleting, spoiled, abandoned>>

LEMMA IndexWrites ==
  ASSUME Typed, Ledger, NEW p \in Process, Index(p)
  PROVE  Writing(p, Last(p))
<1>0. On(p) /\ recorder[p].last # None
  BY DEF Index
<1>1. /\ Last(p) \in Segments /\ Last(p).by = p /\ Last(p).at = recorder[p].last
      /\ recorder[p].last < recorder[p].at
  BY <1>0, Writes
<1>2. Last(p) \in opened /\ \A r \in Known : r.by = p => r.at < recorder[p].last
  BY <1>0 DEF Ledger, OpenedAll, RowsBehind
<1>3. /\ rows' = Closed(Last(p))
      /\ UNCHANGED <<now, files, opened, purge, deleting, spoiled, abandoned>>
  BY DEF Index, history
<1>4. /\ On(p)' /\ recorder'[p].at = recorder[p].at /\ recorder'[p].last = None
      /\ Current(p)' = Current(p)
      /\ \A q \in Process : q # p => recorder'[q] = recorder[q]
  BY TypedIndex
<1>5. recorder'[p].state # "new"
  BY <1>4 DEF On
<1> QED
  BY <1>0, <1>1, <1>2, <1>3, <1>4, <1>5 DEF Writing

LEMMA StopWrites ==
  ASSUME Typed, Ledger, NEW p \in Process, Stop(p)
  PROVE  Writing(p, Current(p)) /\ ~On(p)'
<1>0. On(p)
  BY DEF Stop
<1>1. Current(p) \in Segments /\ Current(p).by = p /\ Current(p).at = recorder[p].at
  BY <1>0, Writes
<1>2. Current(p) \in opened /\ \A r \in Known : r.by = p => r.at < recorder[p].at
  BY <1>0 DEF Ledger, OpenedAll, RowsBehind
<1>3. /\ rows' = Closed(Current(p))
      /\ UNCHANGED <<now, files, opened, purge, deleting, spoiled, abandoned>>
  BY DEF Stop, history
<1>4. /\ ~On(p)' /\ recorder'[p].state = "off"
      /\ \A q \in Process : q # p => recorder'[q] = recorder[q]
  BY TypedStop
<1> QED
  BY <1>0, <1>1, <1>2, <1>3, <1>4 DEF Writing

LEMMA LedgerWriting ==
  ASSUME Typed, Ledger, NEW p \in Process, NEW s, Writing(p, s)
  PROVE  Ledger'
<1>0. TypeOK /\ now \in Nat
  BY Slots DEF Typed, TypeOK
<1>1. /\ rows' = Closed(s) /\ s \in Segments /\ s \in opened /\ s.by = p
      /\ \A r \in Known : r.by = p => r.at < s.at
      /\ On(p)' => /\ recorder'[p].at = recorder[p].at /\ recorder'[p].last = None
                   /\ Current(p)' = Current(p) /\ s.at < recorder[p].at
      /\ On(p) /\ recorder'[p].state # "new"
      /\ \A q \in Process : q # p => recorder'[q] = recorder[q]
      /\ UNCHANGED <<now, files, opened, purge, deleting>>
  BY DEF Writing
<1>2. RowOf(s) \in Rows /\ Segment(RowOf(s)) = s /\ RowOf(s).by = p /\ RowOf(s).at = s.at
      /\ s.at \in Nat
  BY <1>0, <1>1, Closing, Slots DEF RowOf, Segments
<1>3. \A r \in Known' : r \in Known \/ r = RowOf(s)
  <2>1. rows' \subseteq rows \cup {RowOf(s)}
    BY <1>0, <1>1, Closing
  <2> QED
    BY <1>1, <2>1 DEF Known
<1>4. \A r \in Known : Segment(r) # s
  BY <1>0, <1>1, <1>2, KnownTyped
<1>5. OneRow'
  BY <1>2, <1>3, <1>4 DEF Ledger, OneRow
<1>6. OpenedAll'
  <2>1. files' \subseteq opened' /\ \A r \in Known' : Segment(r) \in opened'
    BY <1>1, <1>2, <1>3 DEF Ledger, OpenedAll
  <2>2. ASSUME NEW q \in Process, q # p, On(q)'
        PROVE  Current(q)' \in opened' /\ (recorder'[q].last # None => Last(q)' \in opened')
    <3>1. On(q) /\ Current(q)' = Current(q) /\ Last(q)' = Last(q)
      BY <1>1, <2>2 DEF On, Current, Last, Of
    <3> QED
      BY <1>1, <2>2, <3>1 DEF Ledger, OpenedAll
  <2>3. On(p)' => Current(p)' \in opened' /\ recorder'[p].last = None
    BY <1>1 DEF Ledger, OpenedAll
  <2> QED
    BY <2>1, <2>2, <2>3 DEF OpenedAll
<1>7. OpenedDated'
  <2>1. \A o \in opened : /\ o \in Segments /\ o.by \in Process /\ recorder[o.by].state # "new"
                          /\ On(o.by) => o.at <= recorder[o.by].at
    BY DEF Ledger, OpenedDated, Segments
  <2>2. ASSUME NEW o \in opened
        PROVE  recorder'[o.by].state # "new" /\ (On(o.by)' => o.at <= recorder'[o.by].at)
    <3>1. CASE o.by = p
      BY <1>1, <2>1, <3>1
    <3>2. CASE o.by # p
      BY <1>1, <2>1, <3>2 DEF On
    <3> QED
      BY <3>1, <3>2
  <2> QED
    BY <1>1, <2>1, <2>2 DEF OpenedDated
<1>8. RowsBehind'
  <2>1. SUFFICES ASSUME NEW r \in Known', On(r.by)'
                 PROVE  /\ r.at < recorder'[r.by].at
                        /\ recorder'[r.by].last # None => r.at < recorder'[r.by].last
    BY DEF RowsBehind
  <2>2. CASE r = RowOf(s)
    BY <1>1, <1>2, <2>1, <2>2
  <2>3. CASE r \in Known /\ r.by = p
    <3>1. r.at < s.at /\ r.at \in Nat /\ recorder[p].at \in Nat
      BY <1>0, <1>1, <2>3, KnownTyped, Fields, Slots
    <3> QED
      BY <1>1, <1>2, <2>1, <2>3, <3>1
  <2>4. CASE r \in Known /\ r.by # p
    <3>1. r.by \in Process
      BY <1>0, <2>4, KnownTyped
    <3> QED
      BY <1>1, <2>1, <2>4, <3>1 DEF Ledger, RowsBehind, On
  <2> QED
    BY <1>3, <2>2, <2>3, <2>4
<1> QED
  BY <1>5, <1>6, <1>7, <1>8 DEF Ledger

LEMMA LedgerGivenUp ==
  ASSUME Typed, Ledger, NEW p \in Process, StopUnindexed(p)
  PROVE  Ledger'
<1>1. /\ ~On(p)' /\ recorder'[p].state = "off"
      /\ \A q \in Process : q # p => recorder'[q] = recorder[q]
      /\ TypeOK
  BY TypedStop DEF Typed
<1>2. UNCHANGED <<now, files, rows, opened, purge, deleting>>
  BY DEF StopUnindexed, store
<1>3. Known' = Known
  BY <1>2 DEF Known
<1>4. \A q \in Process : On(q)' =>
        On(q) /\ q # p /\ Current(q)' = Current(q) /\ Last(q)' = Last(q)
  BY <1>1 DEF On, Current, Last, Of
<1>5. OpenedAll'
  BY <1>1, <1>2, <1>3, <1>4 DEF Ledger, OpenedAll
<1>6. OpenedDated'
  BY <1>1, <1>2, <1>4 DEF Ledger, OpenedDated, Segments
<1>7. RowsBehind' /\ OneRow'
  BY <1>1, <1>3, <1>4, KnownTyped DEF Ledger, RowsBehind, OneRow
<1> QED
  BY <1>5, <1>6, <1>7 DEF Ledger

LEMMA LedgerRemoval == ASSUME Typed, Ledger, Removal PROVE Ledger'
<1>1. /\ UNCHANGED <<recorder, opened>> /\ files' \subseteq files
      /\ \A r \in Known' : r \in Known
  BY DEF Removal
<1>2. \A q \in Process : Current(q)' = Current(q) /\ Last(q)' = Last(q) /\ On(q)' = On(q)
  BY <1>1 DEF On, Current, Last, Of
<1>3. OpenedAll'
  BY <1>1, <1>2 DEF Ledger, OpenedAll
<1>4. OpenedDated'
  BY <1>1 DEF Ledger, OpenedDated, On
<1>5. RowsBehind' /\ OneRow'
  BY <1>1 DEF Ledger, RowsBehind, OneRow, On
<1> QED
  BY <1>3, <1>4, <1>5 DEF Ledger

LEMMA LedgerTick == ASSUME Typed, Ledger, Tick PROVE Ledger'
<1>1. UNCHANGED <<recorder, files, rows, opened, purge, deleting>>
  BY DEF Tick, store
<1>2. /\ Known' = Known
      /\ \A q \in Process : Current(q)' = Current(q) /\ Last(q)' = Last(q) /\ On(q)' = On(q)
  BY <1>1 DEF Known, On, Current, Last, Of
<1>3. OpenedAll'
  BY <1>1, <1>2 DEF Ledger, OpenedAll
<1>4. OpenedDated' /\ RowsBehind' /\ OneRow'
  BY <1>1, <1>2 DEF Ledger, OpenedDated, RowsBehind, OneRow, On
<1> QED
  BY <1>3, <1>4 DEF Ledger

LEMMA LedgerInit == Init => Ledger
<1> SUFFICES ASSUME Init PROVE Ledger
  OBVIOUS
<1>1. /\ files = {} /\ rows = {} /\ deleting = {} /\ opened = {}
      /\ \A p \in Process : recorder[p] = Unused
      /\ \A w \in Purger : purge[w].todo = {} /\ purge[w].gone = {}
  BY DEF Init, Resting
<1>2. \A r : r \notin Known
  BY <1>1, LeftIs
<1>3. \A p \in Process : ~On(p)
  BY <1>1, UnusedFields DEF On
<1> QED
  BY <1>1, <1>2, <1>3 DEF Ledger, OpenedAll, OpenedDated, RowsBehind, OneRow

LEMMA LedgerStep == ASSUME Typed, Ledger, [Next]_vars PROVE Ledger'
BY Steps, LedgerTick, StartOpens, RotateOpens, LedgerOpens, IndexWrites, StopWrites,
   LedgerWriting, LedgerGivenUp, LedgerRemoval
-----------------------------------------------------------------------------
(* Files are accounted for *)

\* The file of a row on its way out is not there, or its removal has failed.
Departed == \A r \in Left : Segment(r) \in files => Segment(r) \in abandoned

\* A file is being written by its process, which may be about to write its row.
Kept(f) == \E p \in Process : On(p) /\ f \in Unindexed(p)

Accounted == Departed /\ FilesAreAccounted

LEMMA KeptIs ==
  /\ \A f : Kept(f) <=> /\ f \in files
                        /\ \E p \in Process :
                             On(p) /\ (f = Current(p) \/ (recorder[p].last # None /\ f = Last(p)))
  /\ \A f : Kept(f)' <=>
       /\ f \in files'
       /\ \E p \in Process :
            On(p)' /\ (f = Current(p)' \/ (recorder'[p].last # None /\ f = Last(p)'))
<1>1. ASSUME NEW p, NEW f
      PROVE  /\ f \in Unindexed(p) <=>
                  f \in files /\ (f = Current(p) \/ (recorder[p].last # None /\ f = Last(p)))
             /\ f \in Unindexed(p)' <=>
                  f \in files' /\ (f = Current(p)' \/ (recorder'[p].last # None /\ f = Last(p)'))
  <2>1. f \in Unindexed(p) <=>
          f \in files /\ (f = Current(p) \/ (recorder[p].last # None /\ f = Last(p)))
    <3>1. CASE recorder[p].last = None BY <3>1, Zenon DEF Unindexed
    <3>2. CASE recorder[p].last # None BY <3>2, Zenon DEF Unindexed
    <3> QED BY <3>1, <3>2
  <2>2. f \in Unindexed(p)' <=>
          f \in files' /\ (f = Current(p)' \/ (recorder'[p].last # None /\ f = Last(p)'))
    <3>1. CASE recorder'[p].last = None BY <3>1, Zenon DEF Unindexed
    <3>2. CASE recorder'[p].last # None BY <3>2, Zenon DEF Unindexed
    <3> QED BY <3>1, <3>2
  <2> QED BY <2>1, <2>2
<1> QED
  BY <1>1 DEF Kept

LEMMA AccountedOpens ==
  ASSUME Typed, Ledger, Accounted, NEW p \in Process, NEW s, Opens(p, s),
         \/ recorder[p].state = "new"
         \/ recorder[p].last = None /\ recorder'[p].last # None /\ Last(p)' = Current(p)
  PROVE  Accounted'
<1>1. /\ files' = Without(s.name) \cup {s} /\ opened' = opened \cup {s} /\ s \notin opened
      /\ On(p)' /\ Current(p)' = s
      /\ \A q \in Process : q # p => recorder'[q] = recorder[q]
      /\ UNCHANGED <<rows, purge, deleting, abandoned>>
  BY DEF Opens, Open
<1>2. Left' = Left
  BY <1>1 DEF Left
<1>3. \A r \in Left : Segment(r) # s
  BY <1>1, LeftIs DEF Ledger, OpenedAll
<1>4. Departed'
  BY <1>1, <1>2, <1>3 DEF Accounted, Departed, Without
<1>5. ASSUME NEW f \in files'
      PROVE  f \in abandoned' \/ (\E r \in rows' : Segment(r) = f) \/ Kept(f)'
  <2>0. Kept(f)' <=> /\ f \in files'
                     /\ \E q \in Process :
                          On(q)' /\ (f = Current(q)' \/ (recorder'[q].last # None /\ f = Last(q)'))
    BY KeptIs
  <2>1. CASE f = s
    BY <1>1, <1>5, <2>0, <2>1
  <2>2. CASE f \in files /\ ~Kept(f)
    BY <1>1, <2>2 DEF Accounted, FilesAreAccounted, Kept
  <2>3. CASE f \in files /\ Kept(f)
    <3>1. PICK q \in Process : On(q) /\ (f = Current(q) \/ (recorder[q].last # None /\ f = Last(q)))
      BY <2>3, KeptIs
    <3>2. CASE q = p
      <4>1. recorder[p].last = None /\ recorder'[p].last # None /\ Last(p)' = Current(p)
        BY <3>1, <3>2 DEF On
      <4> QED
        BY <1>1, <1>5, <2>0, <3>1, <3>2, <4>1
    <3>3. CASE q # p
      <4>1. On(q)' /\ Current(q)' = Current(q) /\ Last(q)' = Last(q) /\ recorder'[q] = recorder[q]
        BY <1>1, <3>1, <3>3 DEF On, Current, Last, Of
      <4> QED
        BY <1>5, <2>0, <3>1, <4>1
    <3> QED
      BY <3>2, <3>3
  <2> QED
    BY <1>1, <2>1, <2>2, <2>3 DEF Without
<1> QED
  BY <1>4, <1>5 DEF Accounted, FilesAreAccounted, Kept

\* What the process was to index is indexed, or gone.
LEMMA AccountedWriting ==
  ASSUME Typed, Ledger, Accounted, NEW p \in Process, NEW s, Writing(p, s),
         \/ s = Last(p) /\ On(p)'
         \/ s = Current(p) /\ recorder[p].last = None
  PROVE  Accounted'
<1>0. TypeOK
  BY DEF Typed
<1>1. /\ rows' = Closed(s) /\ s \in Segments
      /\ On(p)' => Current(p)' = Current(p) /\ recorder'[p].last = None
      /\ \A q \in Process : q # p => recorder'[q] = recorder[q]
      /\ UNCHANGED <<files, opened, purge, deleting, abandoned>>
  BY DEF Writing
<1>2. Left' = Left
  BY <1>1 DEF Left
<1>3. Departed'
  BY <1>1, <1>2 DEF Accounted, Departed
<1>4. rows \subseteq rows' /\ (s \in files => \E r \in rows' : Segment(r) = s)
  BY <1>0, <1>1, Closing
<1>5. ASSUME NEW f \in files'
      PROVE  f \in abandoned' \/ (\E r \in rows' : Segment(r) = f) \/ Kept(f)'
  <2>0. Kept(f)' <=> /\ f \in files'
                     /\ \E q \in Process :
                          On(q)' /\ (f = Current(q)' \/ (recorder'[q].last # None /\ f = Last(q)'))
    BY KeptIs
  <2>1. CASE f = s
    BY <1>1, <1>4, <1>5, <2>1
  <2>2. CASE ~Kept(f)
    BY <1>1, <1>4, <1>5, <2>2 DEF Accounted, FilesAreAccounted, Kept
  <2>3. CASE f # s /\ Kept(f)
    <3>1. PICK q \in Process : On(q) /\ (f = Current(q) \/ (recorder[q].last # None /\ f = Last(q)))
      BY <2>3, KeptIs
    <3>2. CASE q = p
      <4>1. On(p)' /\ f = Current(p)
        BY <2>3, <3>1, <3>2
      <4> QED
        BY <1>1, <1>5, <2>0, <4>1
    <3>3. CASE q # p
      <4>1. On(q)' /\ Current(q)' = Current(q) /\ Last(q)' = Last(q) /\ recorder'[q] = recorder[q]
        BY <1>1, <3>1, <3>3 DEF On, Current, Last, Of
      <4> QED
        BY <1>5, <2>0, <3>1, <4>1
    <3> QED
      BY <3>2, <3>3
  <2> QED
    BY <2>1, <2>2, <2>3
<1> QED
  BY <1>3, <1>5 DEF Accounted, FilesAreAccounted, Kept

LEMMA AccountedGivenUp ==
  ASSUME Typed, Accounted, NEW p \in Process, StopUnindexed(p)
  PROVE  Accounted'
<1>1. \A q \in Process : q # p => recorder'[q] = recorder[q]
  BY TypedStop
<1>2. /\ abandoned' = abandoned \cup Unindexed(p)
      /\ UNCHANGED <<files, rows, purge, deleting>>
  BY DEF StopUnindexed, store
<1>3. Departed'
  <2>1. Left' = Left
    BY <1>2 DEF Left
  <2> QED
    BY <1>2, <2>1 DEF Accounted, Departed
<1>4. \A q \in Process : q # p => On(q)' = On(q) /\ Unindexed(q)' = Unindexed(q)
  BY <1>1, <1>2 DEF On, Unindexed, Current, Last, Of
<1> QED
  BY <1>2, <1>3, <1>4 DEF Accounted, FilesAreAccounted

LEMMA AccountedRemoval == ASSUME Typed, Accounted, Removal PROVE Accounted'
<1>1. /\ recorder' = recorder /\ files' \subseteq files /\ abandoned \subseteq abandoned'
      /\ \A r \in rows \ rows' : r \in Left
      /\ \A r \in Left' : r \in Left \/ (Segment(r) \in files' => Segment(r) \in abandoned')
  BY DEF Removal
<1>2. Departed'
  BY <1>1 DEF Accounted, Departed
<1>3. \A q \in Process : On(q)' = On(q) /\ \A f \in files' : f \in Unindexed(q) => f \in Unindexed(q)'
  BY <1>1 DEF On, Unindexed, Current, Last, Of
<1> QED
  BY <1>1, <1>2, <1>3 DEF Accounted, FilesAreAccounted, Departed

LEMMA AccountedTick == ASSUME Typed, Accounted, Tick PROVE Accounted'
<1>1. UNCHANGED <<recorder, files, rows, purge, deleting, abandoned>>
  BY DEF Tick, store, history
<1>2. Left' = Left
  BY <1>1 DEF Left
<1>3. \A q \in Process : On(q)' = On(q) /\ Unindexed(q)' = Unindexed(q)
  BY <1>1 DEF On, Unindexed, Current, Last, Of
<1> QED
  BY <1>1, <1>2, <1>3 DEF Accounted, Departed, FilesAreAccounted

LEMMA AccountedInit == Init => Accounted
<1> SUFFICES ASSUME Init PROVE Accounted
  OBVIOUS
<1>1. files = {}
  BY DEF Init
<1> QED
  BY <1>1 DEF Accounted, Departed, FilesAreAccounted

\* A process rotates only when its task is not behind.
LEMMA InTime ==
  ASSUME Typed, Ledger, Accounted, NEW p \in Process, Rotate(p)
  PROVE  Accounted'
<1>1. Opens(p, Of(p, now)) /\ Last(p)' = Current(p) /\ recorder'[p].last # None
  BY RotateOpens
<1>2. recorder[p].last = None
  BY Fields, Slots DEF Rotate, Typed, Clock
<1> QED
  BY <1>1, <1>2, AccountedOpens

LEMMA AccountedStep ==
  ASSUME Typed, Ledger, Accounted, [Next]_vars PROVE Accounted'
<1>1. CASE Tick
  BY <1>1, AccountedTick
<1>2. CASE Removal
  BY <1>2, AccountedRemoval
<1>3. ASSUME NEW p \in Process, NEW c \in Camera, NEW n \in 0..(Seconds - 1), Start(p, c, n)
      PROVE  Accounted'
  BY <1>3, StartOpens, AccountedOpens
<1>4. ASSUME NEW p \in Process, Index(p) PROVE Accounted'
  BY <1>4, IndexWrites, TypedIndex, AccountedWriting
<1>5. ASSUME NEW p \in Process, Stop(p) PROVE Accounted'
  <2>1. recorder[p].last = None
    BY <1>5 DEF Stop
  <2> QED
    BY <1>5, <2>1, StopWrites, AccountedWriting
<1>6. ASSUME NEW p \in Process, StopUnindexed(p) PROVE Accounted'
  BY <1>6, AccountedGivenUp
<1>7. ASSUME NEW p \in Process, Rotate(p) PROVE Accounted'
  BY <1>7, InTime
<1> QED
  BY Steps, <1>1, <1>2, <1>3, <1>4, <1>5, <1>6, <1>7

\* Every file on disk is being written, has a row or is about to get one, or was left without
\* one by a task that gave up or a removal that failed.
THEOREM FilesAccounted == Spec => []FilesAreAccounted
<1>1. Init => Typed /\ Ledger /\ Accounted
  BY TypedInit, LedgerInit, AccountedInit
<1>2. Typed /\ Ledger /\ Accounted /\ [Next]_vars => Typed' /\ Ledger' /\ Accounted'
  BY Steps, LedgerStep, AccountedStep
<1>3. Accounted => FilesAreAccounted
  BY DEF Accounted
<1> QED
  BY <1>1, <1>2, <1>3, PTL DEF Spec
-----------------------------------------------------------------------------
(* Rows are true *)

\* A row whose name was opened once has its file, or its file was unlinked.
Present ==
  \A r \in rows : Reused(r.name) \/ r \in Left \cup spoiled \/ Segment(r) \in files

\* What was reused stays reused, and files and rows of a name that was not are one segment.
LEMMA OneSegment ==
  ASSUME NEW n, ~Reused(n), NEW s \in opened, NEW o \in opened, s.name = n, o.name = n
  PROVE  s = o
BY DEF Reused

LEMMA ReusedStays ==
  ASSUME NEW n, Reused(n), opened \subseteq opened'
  PROVE  Reused(n)'
BY DEF Reused

LEMMA PresentOpens ==
  ASSUME Typed, Ledger, Present, NEW p \in Process, NEW s, Opens(p, s)
  PROVE  Present'
<1>0. TypeOK
  BY DEF Typed
<1>1. /\ files' = Without(s.name) \cup {s} /\ opened' = opened \cup {s} /\ s \notin opened
      /\ UNCHANGED <<rows, purge, deleting, spoiled>>
  BY DEF Opens, Open
<1>2. Left' = Left
  BY <1>1 DEF Left
<1>3. SUFFICES ASSUME NEW r \in rows, ~Reused(r.name)', r \notin Left \cup spoiled
               PROVE  Segment(r) \in files'
  BY <1>1, <1>2 DEF Present
<1>4. Segment(r) \in files /\ Segment(r) \in opened /\ Segment(r).name = r.name
  BY <1>0, <1>1, <1>3, ReusedStays, LeftIs, KnownTyped DEF Present, Ledger, OpenedAll
<1>5. s.name # r.name
  BY <1>1, <1>3, <1>4 DEF Reused
<1> QED
  BY <1>1, <1>4, <1>5 DEF Without

LEMMA PresentWriting ==
  ASSUME Typed, Ledger, Present, NEW p \in Process, NEW s, Writing(p, s)
  PROVE  Present'
<1>0. TypeOK
  BY DEF Typed
<1>1. /\ rows' = Closed(s) /\ s \in Segments /\ s \in opened
      /\ UNCHANGED <<files, opened, purge, deleting, spoiled>>
  BY DEF Writing
<1>2. Left' = Left /\ \A n : Reused(n)' = Reused(n)
  BY <1>1 DEF Left, Reused
<1>3. SUFFICES ASSUME NEW r \in rows', r \notin rows, ~Reused(r.name)
               PROVE  Segment(r) \in files
  BY <1>1, <1>2 DEF Present
<1>4. Segment(r) = s /\ r.name = s.name /\ \E f \in files : f.name = s.name
  <2>1. Closed(s) = rows \cup {RowOf(s)} /\ r = RowOf(s)
    BY <1>0, <1>1, <1>3, Closing
  <2>2. Closed(s) # rows
    BY <1>1, <1>3
  <2>3. r.name = s.name
    BY <2>1 DEF RowOf
  <2> QED
    BY <1>0, <1>1, <2>1, <2>2, <2>3, Closing
<1>5. PICK f \in files : f.name = s.name
  BY <1>4
<1>6. f = s
  BY <1>1, <1>3, <1>4, <1>5, OneSegment DEF Ledger, OpenedAll
<1> QED
  BY <1>4, <1>5, <1>6

LEMMA PresentRemoval == ASSUME Typed, Ledger, Present, Removal PROVE Present'
<1>0. /\ TypeOK /\ opened' = opened /\ \A n : Reused(n)' = Reused(n)
      /\ files' \subseteq files /\ rows' \subseteq rows /\ spoiled \subseteq spoiled'
  BY DEF Typed, Removal, Reused
<1>1. SUFFICES ASSUME NEW r \in rows', ~Reused(r.name), r \notin Left' \cup spoiled'
               PROVE  Segment(r) \in files'
  BY <1>0 DEF Present
<1>2. /\ r \in Known /\ Segment(r) \in opened /\ Segment(r).name = r.name
  BY <1>0, <1>1, LeftIs, KnownTyped DEF Ledger, OpenedAll
<1>3. CASE r \in Left
  <2>1. PICK f \in files' : f.name = r.name
    BY <1>1, <1>3 DEF Removal
  <2>2. f = Segment(r)
    BY <1>0, <1>1, <1>2, <2>1, OneSegment DEF Ledger, OpenedAll
  <2> QED
    BY <2>1, <2>2
<1>4. CASE r \notin Left
  <2>1. Segment(r) \in files
    BY <1>0, <1>1, <1>4 DEF Present
  <2>2. SUFFICES ASSUME Segment(r) \notin files' PROVE FALSE
    OBVIOUS
  <2>3. PICK o \in Left' : o \in Known /\ o.name = r.name
    BY <1>2, <2>1, <2>2 DEF Removal
  <2>4. Segment(o) \in opened /\ Segment(o).name = r.name
    BY <1>0, <2>3, KnownTyped DEF Ledger, OpenedAll
  <2>5. o = r
    BY <1>1, <1>2, <2>3, <2>4, OneSegment DEF Ledger, OneRow
  <2> QED
    BY <1>1, <2>3, <2>5
<1> QED
  BY <1>3, <1>4

LEMMA PresentUndisturbed ==
  ASSUME Present, UNCHANGED <<files, rows, opened, purge, deleting, spoiled>>
  PROVE  Present'
<1>1. Left' = Left /\ \A n : Reused(n)' = Reused(n)
  BY DEF Left, Reused
<1> QED
  BY <1>1 DEF Present

LEMMA PresentStep ==
  ASSUME Typed, Ledger, Present, [Next]_vars PROVE Present'
<1>1. ASSUME NEW p \in Process, StopUnindexed(p) PROVE Present'
  <2>1. UNCHANGED <<files, rows, opened, purge, deleting, spoiled>>
    BY <1>1 DEF StopUnindexed, store
  <2> QED
    BY <2>1, PresentUndisturbed
<1>2. CASE Tick
  <2>1. UNCHANGED <<files, rows, opened, purge, deleting, spoiled>>
    BY <1>2 DEF Tick, store, history
  <2> QED
    BY <2>1, PresentUndisturbed
<1> QED
  BY Steps, <1>1, <1>2, StartOpens, RotateOpens, PresentOpens, IndexWrites, StopWrites,
     PresentWriting, PresentRemoval

\* Whatever the processes of a camera are and however long they live: the file a row names
\* contains what the row was written for, unless the file was unlinked and the row is to
\* follow, or FFmpeg opened the name more than once.
THEOREM RowsTrue == Spec => []UniqueNamesHold
<1>1. Init => Typed /\ Ledger /\ Present
  BY TypedInit, LedgerInit DEF Init, Present
<1>2. Typed /\ Ledger /\ Present /\ [Next]_vars => Typed' /\ Ledger' /\ Present'
  BY Steps, LedgerStep, PresentStep
<1>3. Present => UniqueNamesHold
  BY LeftIs DEF Present, UniqueNamesHold, InRemoval
<1> QED
  BY <1>1, <1>2, <1>3, PTL DEF Spec
-----------------------------------------------------------------------------
(* Recent footage is kept *)

\* What a purge selected was expired when it began, which is not later than now.
Chosen ==
  \A w \in Purger :
    /\ purge[w].from <= now
    /\ purge[w].stage = "purging" => \A r \in purge[w].todo : r.end < purge[w].from - Retention
    /\ purge[w].stage = "idle" => purge[w].todo = {}

LEMMA ChosenInit == Init => Chosen
<1> SUFFICES ASSUME Init PROVE Chosen
  OBVIOUS
<1>1. now = 0 /\ \A w \in Purger : purge[w] = Resting
  BY DEF Init
<1> QED
  BY <1>1 DEF Chosen, Resting

LEMMA ChosenPurge ==
  ASSUME Typed, Chosen, NEW w \in Purger,
         \/ BeginPurge(w)
         \/ \E c \in Camera : SelectExpired(w, c)
         \/ \E r \in purge[w].todo : UnlinkOne(w, r) \/ UnlinkFails(w, r)
         \/ CommitPurge(w) \/ SelectOldest(w) \/ CommitBatch(w) \/ EndEmergency(w)
         \/ AbortPurge(w)
  PROVE  Chosen'
<1> DEFINE Sound(p) == /\ p.from <= now
                       /\ p.stage = "purging" => \A r \in p.todo : r.end < p.from - Retention
                       /\ p.stage = "idle" => p.todo = {}
<1>0. /\ purge \in [Purger -> Purge] /\ purge[w] \in Purge /\ now \in Nat
      /\ \A v \in Purger : Sound(purge[v])
  BY Slots DEF Typed, TypeOK, Chosen
<1>1. Sound(Resting)
  BY <1>0 DEF Resting
<1>2. now' = now
  BY DEF BeginPurge, SelectExpired, UnlinkOne, UnlinkFails, CommitPurge, SelectOldest,
         CommitBatch, EndEmergency, AbortPurge
<1>3. ASSUME NEW p, purge' = [purge EXCEPT ![w] = p], Sound(p) PROVE Chosen'
  <2>1. \A v \in Purger : Sound(purge'[v])
    BY <1>0, <1>3
  <2> QED
    BY <1>2, <2>1 DEF Chosen
<1>4. ASSUME BeginPurge(w) PROVE Chosen'
  <2>1. PICK p : p = [Resting EXCEPT !.stage = "purging", !.from = now, !.left = Camera \ removed]
    OBVIOUS
  <2>2. p.stage = "purging" /\ p.from = now /\ p.todo = {}
    BY <2>1 DEF Resting
  <2>3. Sound(p)
    BY <1>0, <2>2
  <2> QED
    BY <1>3, <1>4, <2>1, <2>3 DEF BeginPurge
<1>5. ASSUME NEW c \in Camera, SelectExpired(w, c) PROVE Chosen'
  <2>1. PICK B \in Limited(PurgeLimit, Expired(c, purge[w].from)) :
          purge' = [purge EXCEPT ![w].left = @ \ {c}, ![w].todo = B]
    BY <1>5 DEF SelectExpired
  <2>2. \A r \in B : r.end < purge[w].from - Retention
    BY <2>1 DEF Expired, Limited
  <2>3. PICK p : p = [purge[w] EXCEPT !.left = @ \ {c}, !.todo = B]
    OBVIOUS
  <2>4. p.stage = purge[w].stage /\ p.from = purge[w].from /\ p.todo = B
    BY <1>0, <2>3 DEF Purge
  <2>5. purge[w].stage = "purging"
    BY <1>5 DEF SelectExpired
  <2>6. Sound(p)
    BY <1>0, <2>2, <2>4, <2>5
  <2>7. purge' = [purge EXCEPT ![w] = p]
    BY <1>0, <2>1, <2>3
  <2> QED
    BY <1>3, <2>6, <2>7
<1>6. ASSUME NEW r \in purge[w].todo, UnlinkOne(w, r) \/ UnlinkFails(w, r) PROVE Chosen'
  <2>1. PICK p : p = [purge[w] EXCEPT !.todo = @ \ {r}, !.gone = @ \cup {r}]
    OBVIOUS
  <2>2. p.stage = purge[w].stage /\ p.from = purge[w].from /\ p.todo = purge[w].todo \ {r}
    BY <1>0, <2>1 DEF Purge
  <2>3. Sound(p)
    BY <1>0, <2>2
  <2>4. purge' = [purge EXCEPT ![w] = p]
    BY <1>0, <1>6, <2>1 DEF UnlinkOne, UnlinkFails
  <2> QED
    BY <1>3, <2>3, <2>4
<1>7. ASSUME CommitPurge(w) PROVE Chosen'
  <2>1. PICK p : p = IF Cardinality(files) >= Critical
                     THEN [Resting EXCEPT !.stage = "emergency"] ELSE Resting
    OBVIOUS
  <2>2. Sound(p)
    BY <1>0, <1>1, <2>1 DEF Resting
  <2> QED
    BY <1>3, <1>7, <2>1, <2>2 DEF CommitPurge
<1>8. ASSUME SelectOldest(w) \/ CommitBatch(w) PROVE Chosen'
  <2>1. /\ purge'[w].stage = "emergency" /\ purge'[w].from = purge[w].from
        /\ \A v \in Purger : v # w => purge'[v] = purge[v]
    BY <1>0, <1>8 DEF SelectOldest, CommitBatch, Purge
  <2>2. \A v \in Purger : Sound(purge'[v])
    BY <1>0, <2>1
  <2> QED
    BY <1>2, <2>2 DEF Chosen
<1>9. ASSUME EndEmergency(w) \/ AbortPurge(w) PROVE Chosen'
  <2>1. purge' = [purge EXCEPT ![w] = Resting]
    BY <1>9 DEF EndEmergency, AbortPurge
  <2> QED
    BY <1>1, <1>3, <2>1
<1> QED
  BY <1>4, <1>5, <1>6, <1>7, <1>8, <1>9

LEMMA ChosenStep == ASSUME Typed, Chosen, [Next]_vars PROVE Chosen'
<1>1. ASSUME purge' = purge, now' = now \/ now' = now + 1 PROVE Chosen'
  <2>1. \A w \in Purger : purge[w].from \in Int /\ now \in Nat
    BY Slots DEF Typed, TypeOK, Purge
  <2> QED
    BY <1>1, <2>1 DEF Chosen
<1>2. CASE UNCHANGED vars
  BY <1>1, <1>2 DEF vars
<1>3. CASE Tick
  <2>1. purge' = purge /\ now' = now + 1
    BY <1>3 DEF Tick
  <2> QED
    BY <1>1, <2>1
<1>4. ASSUME NEW p \in Process,
             \/ \E c \in Camera, n \in 0..(Seconds - 1) : Start(p, c, n)
             \/ Rotate(p) \/ Index(p) \/ Stop(p) \/ StopUnindexed(p)
      PROVE  Chosen'
  <2>1. purge' = purge /\ now' = now
    BY <1>4 DEF Start, Rotate, Index, Stop, StopUnindexed
  <2> QED
    BY <1>1, <2>1
<1>5. ASSUME NEW w \in Purger,
             \/ BeginPurge(w)
             \/ \E c \in Camera : SelectExpired(w, c)
             \/ \E r \in purge[w].todo : UnlinkOne(w, r) \/ UnlinkFails(w, r)
             \/ CommitPurge(w) \/ SelectOldest(w) \/ CommitBatch(w) \/ EndEmergency(w)
             \/ AbortPurge(w)
      PROVE  Chosen'
  BY <1>5, ChosenPurge
<1>6. ASSUME SendPurge \/ (\E c \in Camera : DeleteCamera(c))
              \/ \E r \in rows \cup deleting : DeleteFile(r) \/ CommitDelete(r) \/ AbortDelete(r)
      PROVE  Chosen'
  <2>1. purge' = purge /\ now' = now
    BY <1>6 DEF SendPurge, DeleteCamera, DeleteFile, CommitDelete, AbortDelete
  <2> QED
    BY <1>1, <2>1
<1> QED
  BY <1>2, <1>3, <1>4, <1>5, <1>6 DEF Next

Keeps == \A r \in rows : Segment(r) \in files \ files' => Excused(r)

LEMMA KeepsStep ==
  ASSUME Typed, Ledger, Chosen, [Next]_vars
  PROVE  Keeps
<1> SUFFICES ASSUME NEW r \in rows, Segment(r) \in files \ files'
             PROVE  Excused(r)
  BY DEF Keeps
<1>1. TypeOK /\ r \in Known /\ Segment(r) \in opened /\ Segment(r).name = r.name
  BY LeftIs, KnownTyped DEF Typed, Ledger, OpenedAll
<1>2. ASSUME Removal PROVE Excused(r)
  <2>1. PICK s \in Left' : /\ s \in Known /\ s.name = r.name
                           /\ \/ s \in rows /\ s \in deleting' \ deleting
                              \/ \E w \in Purger : s \in purge[w].todo
    BY <1>1, <1>2 DEF Removal
  <2>2. s \in {r} \cup {o \in Known : Reused(r.name)}
    <3>1. Segment(s) \in opened /\ Segment(s).name = r.name
      BY <1>1, <2>1, KnownTyped DEF Ledger, OpenedAll
    <3>2. CASE Reused(r.name)
      BY <2>1, <3>2
    <3>3. CASE ~Reused(r.name)
      BY <1>1, <2>1, <3>1, <3>3, OneSegment DEF Ledger, OneRow
    <3> QED
      BY <3>2, <3>3
  <2>3. CASE s \in deleting' \ deleting
    BY <2>1, <2>2, <2>3 DEF Excused
  <2>4. ASSUME NEW w \in Purger, s \in purge[w].todo PROVE Excused(r)
    <3>1. /\ purge[w].stage \in {"idle", "purging", "emergency"}
          /\ purge[w].from \in Nat /\ s.end \in Nat /\ now \in Nat /\ Retention \in Nat
      BY <1>1, <2>1, Slots, KnownTyped DEF TypeOK, Purge, Rows
    <3>2. CASE purge[w].stage = "purging"
      <4>1. s.end < now - Retention
        BY <2>4, <3>1, <3>2 DEF Chosen
      <4> QED
        BY <2>1, <2>2, <4>1 DEF Excused
    <3>3. CASE purge[w].stage # "purging"
      BY <2>4, <3>1, <3>3 DEF Chosen, Excused
    <3> QED
      BY <3>2, <3>3
  <2> QED
    BY <2>1, <2>3, <2>4
<1>3. ASSUME NEW p \in Process, NEW s, Opens(p, s) PROVE Excused(r)
  <2>1. files' = Without(s.name) \cup {s} /\ s \in opened' \ opened
    BY <1>3 DEF Opens, Open
  <2>2. s.name = r.name
    BY <1>1, <2>1 DEF Without
  <2> QED
    BY <2>1, <2>2 DEF Excused
<1>4. CASE Tick
  BY <1>4 DEF Tick, store
<1>5. ASSUME NEW p \in Process, Index(p) \/ Stop(p) \/ StopUnindexed(p) PROVE FALSE
  BY <1>5 DEF Index, Stop, StopUnindexed, store
<1> QED
  BY <1>2, <1>3, <1>4, <1>5, Steps, StartOpens, RotateOpens

\* While no emergency is on, the footage of a row goes because FFmpeg opens its name again, on
\* request, or after the retention of the row, or of another row of a name that was reused.
THEOREM RecentKept == Spec => RecentFootageKept
<1> SUFFICES Spec => [][Keeps]_vars
  BY DEF RecentFootageKept, Keeps
<1>1. Init => Typed /\ Ledger /\ Chosen
  BY TypedInit, LedgerInit, ChosenInit
<1>2. Typed /\ Ledger /\ Chosen /\ [Next]_vars => Typed' /\ Ledger' /\ Chosen'
  BY Steps, LedgerStep, ChosenStep
<1>3. Typed /\ Ledger /\ Chosen /\ [Next]_vars => Keeps
  BY KeepsStep
<1> QED
  BY <1>1, <1>2, <1>3, PTL DEF Spec
=============================================================================
