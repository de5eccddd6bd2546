----------------------------- MODULE MCDetection -----------------------------
(***************************************************************************)
(* The two parts of the detection service, side by side: how the zones get *)
(* to it (ZoneConfig) and what its worker makes of frames under zones that *)
(* change at any time (Detector, whose Reload is any change the first can  *)
(* bring).  They share no variable: a behaviour is one of either, while    *)
(* the other stays as it begins.                                           *)
(***************************************************************************)
EXTENDS Detector, ZoneConfig, TLC

CONSTANTS t1, n1, z1, z2, w1, w2

VARIABLE part  \* the one that runs

MCZone(restricted, mask, hours) ==
  [name |-> n1, restricted |-> restricted, mask |-> mask, hours |-> hours, dwell |-> 2]

(* A mask alone, so that the full frame stands in; a restricted zone; a    *)
(* zone with hours over midnight and a restricted one of the same name.    *)
MCConfig ==
  {{MCZone(FALSE, TRUE, <<>>)}, {MCZone(TRUE, FALSE, <<>>)},
   {MCZone(FALSE, FALSE, <<2, 0>>), MCZone(TRUE, FALSE, <<>>)}}

MCSymmetry == Permutations(Writer) \cup Permutations(ZoneData)

MCInit ==
  /\ part \in {"zones", "frames"}
  /\ ZCInit /\ Init
  /\ part = "zones" => config = CHOOSE c \in Config : TRUE

MCNext ==
  \/ part = "zones" /\ ZCNext /\ UNCHANGED <<part, vars>>
  \/ part = "frames" /\ Next /\ UNCHANGED <<part, ZCvars>>

MCSpec == MCInit /\ [][MCNext]_<<part, vars, ZCvars>>
=============================================================================
