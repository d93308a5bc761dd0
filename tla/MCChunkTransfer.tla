--------------------------- MODULE MCChunkTransfer ---------------------------
EXTENDS ChunkTransfer

AllLanes == {"cbos", "dp", "nsdl"}
=============================================================================
