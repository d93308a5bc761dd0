-------------------------------- MODULE RowFate --------------------------------
(***************************************************************************)
(* What becomes of the rows of the settlement lane and of their files at   *)
(* DP, with no threads, attempts, polls or status words: a row is open     *)
(* while its POST is under way; DP is given the file only then, and not    *)
(* once a Tran_Id has been kept; a Tran_Id is kept once and for all; what  *)
(* a row says of it is DP's verdict.  Only its own POST takes a verdict    *)
(* back, and a row that was refused stays refused, without a Tran_Id.      *)
(***************************************************************************)
CONSTANTS RowId, Tran, NoTran, NoRow

VARIABLES
  posting,   \* rows whose POST is under way
  told,      \* what a row says: none, open, failed, success or processed
  tran,      \* the Tran_Id a row has kept
  owner,     \* the row a Tran_Id was registered for
  code,      \* DP's verdict on a Tran_Id
  processed  \* how often Step 7 ran for a Tran_Id

vars == <<posting, told, tran, owner, code, processed>>

Init ==
  /\ posting = {}
  /\ told = [k \in RowId |-> "none"]
  /\ tran = [k \in RowId |-> NoTran]
  /\ owner = [t \in Tran |-> NoRow]
  /\ code = [t \in Tran |-> "pending"]
  /\ processed = [t \in Tran |-> 0]

Says(k, what) == told' = [told EXCEPT ![k] = what]
Leaves(k) == posting' = posting \ {k}
MayLeave(k) == UNCHANGED posting \/ Leaves(k)

Open(k) ==
  /\ told[k] = "none"
  /\ Says(k, "open")
  /\ posting' = posting \cup {k}
  /\ UNCHANGED <<tran, owner, code, processed>>

(* The POST ends before DP is known to have the file. *)
Refuse(k) ==
  /\ k \in posting /\ tran[k] = NoTran
  /\ Says(k, "failed")
  /\ Leaves(k)
  /\ UNCHANGED <<tran, owner, code, processed>>

Register(k, t) ==
  /\ k \in posting /\ tran[k] = NoTran
  /\ owner[t] = NoRow
  /\ owner' = [owner EXCEPT ![t] = k]
  /\ UNCHANGED <<posting, told, tran, code, processed>>

Keep(k, t) ==
  /\ k \in posting /\ tran[k] = NoTran
  /\ owner[t] = k
  /\ tran' = [tran EXCEPT ![k] = t]
  /\ Says(k, "open")
  /\ UNCHANGED <<posting, owner, code, processed>>

Settle(t) ==
  /\ owner[t] # NoRow /\ code[t] = "pending"
  /\ \E verdict \in {"success", "error"} : code' = [code EXCEPT ![t] = verdict]
  /\ UNCHANGED <<posting, told, tran, owner, processed>>

(* By the POST, which ends with it, or by a status request. *)
Tell(k) ==
  /\ tran[k] # NoTran
  /\ \/ code[tran[k]] = "success" /\ Says(k, "success")
     \/ code[tran[k]] = "error" /\ Says(k, "failed")
  /\ MayLeave(k)
  /\ UNCHANGED <<tran, owner, code, processed>>

(* The POST writes where it is, or that it stopped waiting, over whatever   *)
(* the row said.                                                            *)
Reopen(k) ==
  /\ k \in posting
  /\ Says(k, "open")
  /\ MayLeave(k)
  /\ UNCHANGED <<tran, owner, code, processed>>

Process(k) ==
  /\ k \in posting /\ tran[k] # NoTran
  /\ code[tran[k]] = "success" /\ processed[tran[k]] = 0
  /\ processed' = [processed EXCEPT ![tran[k]] = 1]
  /\ MayLeave(k)
  /\ UNCHANGED <<told, tran, owner, code>>

Report(k) ==
  /\ k \in posting /\ tran[k] # NoTran /\ processed[tran[k]] = 1
  /\ Says(k, "processed")
  /\ Leaves(k)
  /\ UNCHANGED <<tran, owner, code, processed>>

(* The POST gives up without a word in the row. *)
Drop(k) == Leaves(k) /\ UNCHANGED <<told, tran, owner, code, processed>>
DropAll == posting' = {} /\ UNCHANGED <<told, tran, owner, code, processed>>

Next ==
  \/ \E k \in RowId :
       \/ Open(k) \/ Refuse(k) \/ Tell(k) \/ Reopen(k) \/ Process(k) \/ Report(k) \/ Drop(k)
       \/ \E t \in Tran : Register(k, t) \/ Keep(k, t)
  \/ \E t \in Tran : Settle(t)
  \/ DropAll

Spec == Init /\ [][Next]_vars
=============================================================================
