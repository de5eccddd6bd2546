------------------------------ MODULE MCExport ------------------------------
EXTENDS Export

CONSTANT Horizon  \* bound of the footage

(* Segments on the slots up to Horizon, of one slot or three; one of the  *)
(* two is good until it is purged.                                         *)
MCSegment(states) ==
  {s \in [from : 0..Horizon, to : 0..Horizon, state : states] : s.to - s.from \in {1, 3}}

MCSpan == <<1, 3>>

MCInit == \E s \in MCSegment({"good"}), t \in MCSegment({"good", "corrupt", "missing"}) :
            InitWith({s, t})

MCSpec == MCInit /\ [][Next]_vars /\ Fairness

=============================================================================
