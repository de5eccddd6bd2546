------------------------------ MODULE Timeline ------------------------------
(***************************************************************************)
(* What the recordings API computes from the segments of a camera: the     *)
(* timeline of a day with its gaps and coverage, the lookup of a moment,   *)
(* the calendar of a month and the pages of a list.  Time is in slots, a   *)
(* segment is a record with its start and its end (`from` < `to`), and a   *)
(* day is given by the slots it starts and ends with, after its local date *)
(* has been taken to UTC.                                                  *)
(***************************************************************************)
EXTENDS Integers, Sequences, FiniteSetsExt, SequencesExt

CONSTANT DaySlots  \* slots of a day (86400 seconds)

ASSUME DaySlotsOK == DaySlots \in Nat \ {0}

Larger(a, b) == IF a > b THEN a ELSE b
Smaller(a, b) == IF a < b THEN a ELSE b

(* Segments that overlap a period, the corrupt ones too. *)
InRange(S, a, b) == {s \in S : s.from < b /\ s.to > a}

(* The query of the timeline of one day. *)
OnDay(S, a, b) == InRange(S, a, b)

(* The answers ordered by start: segments that start together come in any  *)
(* order, and in another one when they are asked for again.                *)
OldestFirst(S) == {q \in SetToSeqs(S) : \A i, j \in DOMAIN q : i < j => q[i].from <= q[j].from}
NewestFirst(S) == {q \in SetToSeqs(S) : \A i, j \in DOMAIN q : i < j => q[i].from >= q[j].from}

(* Where the cursor is when it has passed over the first i segments.       *)
Cursor(q, a, b) ==
  LET cursor[i \in 0..Len(q)] ==
        IF i = 0 THEN a ELSE Larger(cursor[i - 1], Smaller(q[i].to, b))
  IN  cursor

GapsByLastEnd(q, a, b) ==
  LET cursor == [i \in 0..Len(q) |-> IF i = 0 THEN a ELSE Smaller(q[i].to, b)]
      met == {<<cursor[i - 1], Larger(q[i].from, a)>> : i \in DOMAIN q}
  IN  {g \in met \cup {<<cursor[Len(q)], b>>} : g[1] < g[2]}

(* A gap is what the cursor leaves out when it comes to a segment that     *)
(* starts later, or to the end of the day.                                 *)
Gaps(q, a, b) ==
  LET cursor == Cursor(q, a, b)
      met == {<<cursor[i - 1], Larger(q[i].from, a)>> : i \in DOMAIN q}
  IN  {g \in met \cup {<<cursor[Len(q)], b>>} : g[1] < g[2]}

(* Overlapping segments count twice; the percentage is cut at 100. *)
Covered(q, a, b) ==
  LET sum[i \in 0..Len(q)] ==
        IF i = 0 THEN 0 ELSE sum[i - 1] + (Smaller(q[i].to, b) - Larger(q[i].from, a))
  IN  Smaller(DaySlots, sum[Len(q)])

(* The segments that can play the moment t, of which the latest is taken. *)
SegmentAt(S, t) ==
  LET playing == {s \in S : s.from <= t /\ s.to >= t}
  IN  {s \in playing : \A o \in playing : o.from <= s.from}

(* The days of the calendar go by the starts of the segments. *)
HasRecordings(S, day) == \E s \in S : s.from \div DaySlots = day

(* The n-th page of a list. *)
Listed(S, a, b) == {s \in S : s.from >= a /\ s.from <= b}
Page(q, n, size) == SubSeq(q, (n - 1) * size + 1, Smaller(n * size, Len(q)))

(***************************************************************************)
(* Reference                                                               *)
(***************************************************************************)

Slots(a, b) == a..(b - 1)

Apart(S) == \A s, t \in S : s # t => s.to <= t.from \/ t.to <= s.from

(* What the answers about the day a..b owe to the footage S and to each    *)
(* other: the gaps are the slots without footage; gaps and coverage make   *)
(* up the day unless segments overlap; a moment strictly inside a gap has  *)
(* no segment, and one outside all gaps has; a day the calendar marks has  *)
(* something on its timeline.                                              *)
DayExact(S, a, b) ==
  \A q \in OldestFirst(OnDay(S, a, b)) :
    LET gaps == Gaps(q, a, b)
        empty == UNION {Slots(g[1], g[2]) : g \in gaps}
    IN  /\ empty = Slots(a, b) \ UNION {Slots(s.from, s.to) : s \in S}
        /\ \A g, h \in gaps : g # h => Slots(g[1], g[2]) \cap Slots(h[1], h[2]) = {}
        /\ Apart(S) => Covered(q, a, b) + Cardinality(empty) = DaySlots
        /\ \A t \in Slots(a, b) :
             /\ (\E g \in gaps : g[1] < t /\ t < g[2]) => SegmentAt(S, t) = {}
             /\ t \notin empty => SegmentAt(S, t) # {}
        /\ HasRecordings(S, a \div DaySlots) => OnDay(S, a, b) # {}

(* Each segment is on one page, when pages are asked for one by one and no *)
(* two segments start together.                                            *)
PagesExact(S, a, b, size) ==
  LET listed == Listed(S, a, b)
      numbers == 1..(Cardinality(S) + 1)
  IN  (\A s, t \in listed : s.from = t.from => s = t) =>
        \A q \in [numbers -> NewestFirst(listed)] :
          LET page(n) == Range(Page(q[n], n, size))
          IN  /\ UNION {page(n) : n \in numbers} = listed
              /\ \A m, n \in numbers : m # n => page(m) \cap page(n) = {}

=============================================================================
