--------------------------- MODULE MCSettlementLane ---------------------------
EXTENDS SettlementLane

CONSTANTS r1, r2
=============================================================================
