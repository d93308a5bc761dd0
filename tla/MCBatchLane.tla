----------------------------- MODULE MCBatchLane -----------------------------
EXTENDS BatchLane, TLC

CONSTANTS b1, b2, f1, h1, h2, s1

OneFolder == [b \in Batch |-> f1]

HandlerSymmetry == Permutations(Handler)
=============================================================================
