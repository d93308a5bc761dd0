----------------------------- MODULE MCUploadLane -----------------------------
EXTENDS UploadLane, TLC

CONSTANTS b1, b2, fa, fb, sa, sb, z, p1, p2

AllListed == [b \in Batch |-> File]
(* The second manifest of the day lists what the first one missed as well. *)
PartThenAll == [b \in Batch |-> IF b = b1 THEN {fa} ELSE File]
OneEach == [f \in File |-> IF f = fa THEN sa ELSE sb]
=============================================================================
