------------------------------- MODULE FileFate -------------------------------
(***************************************************************************)
(* What becomes of the files of one segment and date, with no batches, no  *)
(* worker and no audit table: a file arrives in the source folder, and     *)
(* leaves it once per arrival, for uploaded/ if something is registered    *)
(* under its UploadID by then, or for uploadFailed/.  Nothing is ever      *)
(* registered for a file that is not there, and no folder loses a file.    *)
(***************************************************************************)
CONSTANTS File, Slot, Match

VARIABLES
  source, uploaded, uploadFailed,  \* the three folders
  registered                       \* UploadIDs CBOS holds a file for

vars == <<source, uploaded, uploadFailed, registered>>

Init == source = {} /\ uploaded = {} /\ uploadFailed = {} /\ registered = {}

Arrive ==
  /\ \E fs \in SUBSET File : source' = source \cup fs
  /\ UNCHANGED <<uploaded, uploadFailed, registered>>

Register(f) ==
  /\ f \in source
  /\ registered' = registered \cup {Match[f]}
  /\ UNCHANGED <<source, uploaded, uploadFailed>>

Upload(f) ==
  /\ f \in source /\ Match[f] \in registered
  /\ source' = source \ {f}
  /\ uploaded' = uploaded \cup {f}
  /\ UNCHANGED <<uploadFailed, registered>>

Return(f) ==
  /\ f \in source
  /\ source' = source \ {f}
  /\ uploadFailed' = uploadFailed \cup {f}
  /\ UNCHANGED <<uploaded, registered>>

Next == Arrive \/ \E f \in File : Register(f) \/ Upload(f) \/ Return(f)

Spec == Init /\ [][Next]_vars
=============================================================================
