----------------------------- MODULE MCNsdlLane -----------------------------
EXTENDS NsdlLane, TLC

CONSTANTS p1, p2, g

(* One report per call, as the orchestrator posts it. *)
One == {<<Latest>>}
(* Any version by its number, or the same file twice in one call.           *)
Numbered == {<<v>> : v \in Version}
NumberedOrTwice == Numbered \cup {<<Latest, 1>>}
Symmetric == Permutations({p1, p2})
=============================================================================
