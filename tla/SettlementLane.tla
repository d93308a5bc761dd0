---------------------------- MODULE SettlementLane ----------------------------
(***************************************************************************)
(* The settlement lane: a POST takes one file through the DP File Upload   *)
(* API, from the row it inserts to the verdict of the poll, and fires the  *)
(* process (Step 7) where the upload's master record asks for it.  Steps 3 *)
(* to 5 are tried again from Step 3.  A GET polls the Tran_Id of a row.    *)
(* Every POST has a row of its own; nothing resumes, the caller posts      *)
(* again.                                                                  *)
(*                                                                         *)
(* Actions end at a commit, at a call to DP, or where a row is read.  A    *)
(* call may fail, its answer may be lost after DP has acted, and the       *)
(* process may die.                                                        *)
(***************************************************************************)
EXTENDS Naturals

CONSTANTS
  RowId,       \* ids of settlement_uploads, in ascending order
  Thread,      \* request threads
  Tran,        \* Tran_Ids DP can hand out, in ascending order
  NoTran, NoRow,
  MaxAttempts, \* settings.cbos_setl_max_retries + 1
  MaxPolls,    \* settings.cbos_setl_poll_max_attempts
  MaxFault     \* bound: failed calls, lost or empty answers and crashes

ASSUME ConstantsAssumption ==
  /\ RowId \subseteq Nat /\ NoRow \notin RowId
  /\ Tran \subseteq Nat /\ NoTran \notin Tran
  /\ MaxAttempts \in Nat \ {0} /\ MaxPolls \in Nat \ {0}
  /\ MaxFault \in Nat

VARIABLES
  row,       \* status, tran_id and process_required of each row
  owner,     \* DP: the row each Tran_Id was registered for
  registrations, \* DP: how often the file of a row was registered
  code,      \* DP: pending (1, 2), success (3) or error (4)
  processed, \* DP: how often Step 7 ran for a Tran_Id
  req,       \* what each request thread does
  unheard,   \* registrations of a row whose answer never came
  faults

dp == <<owner, registrations, code, processed>>
vars == <<row, dp, req, unheard, faults>>
-----------------------------------------------------------------------------
Final == {"success", "processed", "failed"}
Status == Final \cup {"pending", "validating", "uploading", "uploaded", "registered",
                      "polling", "in_progress"}
Row == [status : Status \cup {"none"}, tran : Tran \cup {NoTran}, process : BOOLEAN]
Code == {"pending", "success", "error"}

Idle == [pc |-> "idle", row |-> NoRow, attempt |-> 1, tran |-> NoTran, polls |-> 0,
         loaded |-> "none", read |-> "pending"]
Attempting == {"validate", "chunks", "finalize"}

Init ==
  /\ row = [k \in RowId |-> [status |-> "none", tran |-> NoTran, process |-> FALSE]]
  /\ owner = [t \in Tran |-> NoRow]
  /\ registrations = [k \in RowId |-> 0]
  /\ code = [t \in Tran |-> "pending"]
  /\ processed = [t \in Tran |-> 0]
  /\ req = [r \in Thread |-> Idle]
  /\ unheard = [k \in RowId |-> 0]
  /\ faults = 0
-----------------------------------------------------------------------------
(* DP works off a registered file. *)
DpSettles(t) ==
  /\ owner[t] # NoRow
  /\ code[t] = "pending"
  /\ \E outcome \in {"success", "error"} : code' = [code EXCEPT ![t] = outcome]
  /\ UNCHANGED <<row, owner, registrations, processed, req, unheard, faults>>
-----------------------------------------------------------------------------
At(r, pc) == req[r].pc = pc
Goes(r, pc) == req' = [req EXCEPT ![r].pc = pc]
Answers(r) == req' = [req EXCEPT ![r] = Idle]
SetStatus(r, status) == row' = [row EXCEPT ![req[r].row].status = status]
Faulty == faults < MaxFault /\ faults' = faults + 1

Submit(r, k) ==
  /\ At(r, "idle")
  /\ row[k].status = "none"
  /\ \A j \in RowId : j < k => row[j].status # "none"
  /\ row' = [row EXCEPT ![k].status = "pending"]
  /\ req' = [req EXCEPT ![r] = [Idle EXCEPT !.pc = "locate", !.row = k]]
  /\ UNCHANGED <<dp, unheard, faults>>

(* The file is in the settlement folder, or the answer is 404. *)
Locate(r) ==
  /\ At(r, "locate")
  /\ \/ Goes(r, "master") /\ UNCHANGED row
     \/ SetStatus(r, "failed") /\ Answers(r)
  /\ UNCHANGED <<dp, unheard, faults>>

(* Step 2. *)
GetMaster(r) ==
  /\ At(r, "master")
  /\ \E required \in BOOLEAN :
       row' = [row EXCEPT ![req[r].row].status = "validating", ![req[r].row].process = required]
  /\ Goes(r, "validate")
  /\ UNCHANGED <<dp, unheard, faults>>

(* Step 3, and the first commit of the attempt. *)
Validate(r) ==
  /\ At(r, "validate")
  /\ SetStatus(r, "uploading")
  /\ Goes(r, "chunks")
  /\ UNCHANGED <<dp, unheard, faults>>

(* Step 4. *)
UploadChunks(r) ==
  /\ At(r, "chunks")
  /\ SetStatus(r, "uploaded")
  /\ Goes(r, "finalize")
  /\ UNCHANGED <<dp, unheard, faults>>

DpRegisters(k, t) ==
  /\ owner[t] = NoRow
  /\ \A u \in Tran : u < t => owner[u] # NoRow
  /\ owner' = [owner EXCEPT ![t] = k]
  /\ registrations' = [registrations EXCEPT ![k] = @ + 1]
  /\ UNCHANGED <<code, processed>>

(* Step 5. *)
Register(r) ==
  /\ At(r, "finalize")
  /\ \E t \in Tran :
       /\ DpRegisters(req[r].row, t)
       /\ req' = [req EXCEPT ![r].pc = "registering", ![r].tran = t]
  /\ UNCHANGED <<row, unheard, faults>>

RegisterLost(r) ==
  /\ At(r, "finalize")
  /\ Faulty
  /\ \E t \in Tran : DpRegisters(req[r].row, t)
  /\ unheard' = [unheard EXCEPT ![req[r].row] = @ + 1]
  /\ Goes(r, "attempt_failed")
  /\ UNCHANGED row

(* Faulty: the tran_id is committed and the attempt then fails. *)
RecordTranOnly(r) ==
  /\ At(r, "registering")
  /\ row' = [row EXCEPT ![req[r].row].tran = req[r].tran]
  /\ Goes(r, "attempt_failed")
  /\ UNCHANGED <<dp, unheard, faults>>

RecordTran(r) ==
  /\ At(r, "registering")
  /\ row' = [row EXCEPT ![req[r].row].status = "registered", ![req[r].row].tran = req[r].tran]
  /\ Goes(r, "registered")
  /\ UNCHANGED <<dp, unheard, faults>>

StepFails(r) ==
  /\ req[r].pc \in Attempting
  /\ Faulty
  /\ Goes(r, "attempt_failed")
  /\ UNCHANGED <<row, dp, unheard>>

(* retry_count, then Step 3 again or the end. *)
Retry(r) ==
  /\ At(r, "attempt_failed")
  /\ \/ /\ req[r].attempt < MaxAttempts
        /\ req' = [req EXCEPT ![r].pc = "validate", ![r].attempt = @ + 1]
     \/ /\ req[r].attempt = MaxAttempts
        /\ Goes(r, "give_up")
  /\ UNCHANGED <<row, dp, unheard, faults>>

GiveUp(r) ==
  /\ At(r, "give_up")
  /\ SetStatus(r, "failed")
  /\ Answers(r)
  /\ UNCHANGED <<dp, unheard, faults>>

(* DPUploadError outside the retry loop: 502, and the row stays as it is. *)
CallFails(r) ==
  /\ req[r].pc \in {"master", "poll", "process", "check"}
  /\ Faulty
  /\ Answers(r)
  /\ UNCHANGED <<row, dp, unheard>>
-----------------------------------------------------------------------------
StartPolling(r) ==
  /\ At(r, "registered")
  /\ SetStatus(r, "polling")
  /\ Goes(r, "poll")
  /\ UNCHANGED <<dp, unheard, faults>>

(* Faulty: the attempt budget is exceeded by one. *)
PollOnceMore(r) ==
  /\ At(r, "poll")
  /\ req' = [req EXCEPT ![r].polls = @ + 1, ![r].read = code[req[r].tran],
                        ![r].pc = IF code[req[r].tran] # "pending" THEN "verdict"
                                  ELSE IF req[r].polls = MaxPolls THEN "timed_out" ELSE @]
  /\ UNCHANGED <<row, dp, unheard, faults>>

(* Step 6: one reading; the loop ends with any code that is not pending, or *)
(* with its budget.                                                         *)
Poll(r) ==
  /\ At(r, "poll")
  /\ req' = [req EXCEPT ![r].polls = @ + 1, ![r].read = code[req[r].tran],
                        ![r].pc = IF code[req[r].tran] # "pending" THEN "verdict"
                                  ELSE IF req[r].polls + 1 = MaxPolls THEN "timed_out" ELSE @]
  /\ UNCHANGED <<row, dp, unheard, faults>>

(* An answer without Result reads as POLL_TIMED_OUT, which is not a pending *)
(* code either.                                                             *)
PollEmpty(r) ==
  /\ At(r, "poll")
  /\ Faulty
  /\ req' = [req EXCEPT ![r].polls = @ + 1, ![r].pc = "timed_out"]
  /\ UNCHANGED <<row, dp, unheard>>

(* Faulty: Step 7 is fired for any terminal code. *)
VerdictAnyCode(r) ==
  /\ At(r, "verdict")
  /\ \/ /\ row[req[r].row].process
        /\ Goes(r, "process")
        /\ UNCHANGED row
     \/ /\ req[r].read = "success" /\ ~row[req[r].row].process
        /\ SetStatus(r, "success") /\ Answers(r)
     \/ /\ req[r].read = "error" /\ ~row[req[r].row].process
        /\ SetStatus(r, "failed") /\ Answers(r)
  /\ UNCHANGED <<dp, unheard, faults>>

Verdict(r) ==
  /\ At(r, "verdict")
  /\ \/ /\ req[r].read = "success" /\ row[req[r].row].process
        /\ Goes(r, "process")
        /\ UNCHANGED row
     \/ /\ req[r].read = "success" /\ ~row[req[r].row].process
        /\ SetStatus(r, "success") /\ Answers(r)
     \/ /\ req[r].read = "error"
        /\ SetStatus(r, "failed") /\ Answers(r)
  /\ UNCHANGED <<dp, unheard, faults>>

(* Faulty: running out of polls counts as a failure. *)
TimedOutAsFailed(r) ==
  /\ At(r, "timed_out")
  /\ SetStatus(r, "failed") /\ Answers(r)
  /\ UNCHANGED <<dp, unheard, faults>>

(* Step 7 is not fired later either. *)
TimedOut(r) ==
  /\ At(r, "timed_out")
  /\ SetStatus(r, "in_progress") /\ Answers(r)
  /\ UNCHANGED <<dp, unheard, faults>>

(* Step 7, answered or not. *)
RunProcess(r) ==
  /\ At(r, "process")
  /\ processed' = [processed EXCEPT ![req[r].tran] = @ + 1]
  /\ \/ Goes(r, "record_processed") /\ UNCHANGED faults
     \/ Faulty /\ Answers(r)
  /\ UNCHANGED <<row, owner, registrations, code, unheard>>

RecordProcessed(r) ==
  /\ At(r, "record_processed")
  /\ SetStatus(r, "processed") /\ Answers(r)
  /\ UNCHANGED <<dp, unheard, faults>>
-----------------------------------------------------------------------------
(* Faulty: only rows in progress are polled. *)
GetInProgress(r, k) ==
  /\ At(r, "idle")
  /\ row[k].tran # NoTran
  /\ IF row[k].status = "in_progress"
     THEN req' = [req EXCEPT ![r] = [Idle EXCEPT !.pc = "check", !.row = k,
                                       !.tran = row[k].tran, !.loaded = row[k].status]]
     ELSE UNCHANGED req
  /\ UNCHANGED <<row, dp, unheard, faults>>

(* GET .../status: polls whatever the row's status is; 404 without Tran_Id. *)
Get(r, k) ==
  /\ At(r, "idle")
  /\ row[k].tran # NoTran
  /\ req' = [req EXCEPT ![r] = [Idle EXCEPT !.pc = "check", !.row = k,
                                  !.tran = row[k].tran, !.loaded = row[k].status]]
  /\ UNCHANGED <<row, dp, unheard, faults>>

Check(r) ==
  /\ At(r, "check")
  /\ req' = [req EXCEPT ![r].pc = "checked", ![r].read = code[req[r].tran]]
  /\ UNCHANGED <<row, dp, unheard, faults>>

CheckEmpty(r) ==
  /\ At(r, "check")
  /\ Faulty
  /\ req' = [req EXCEPT ![r].pc = "checked", ![r].read = "pending"]
  /\ UNCHANGED <<row, dp, unheard>>

(* Faulty: no verdict yet reads as in progress, as it does for the POST. *)
ApplyCheckAnyCode(r) ==
  /\ At(r, "checked")
  /\ SetStatus(r, CASE req[r].read = "success" -> "success"
                    [] req[r].read = "error" -> "failed"
                    [] OTHER -> "in_progress")
  /\ Answers(r)
  /\ UNCHANGED <<dp, unheard, faults>>

(* A flush writes the status only if it differs from the one loaded. *)
ApplyCheck(r) ==
  /\ At(r, "checked")
  /\ LET status == CASE req[r].read = "success" -> "success"
                     [] req[r].read = "error" -> "failed"
                     [] OTHER -> req[r].loaded
     IN  IF status = req[r].loaded THEN UNCHANGED row ELSE SetStatus(r, status)
  /\ Answers(r)
  /\ UNCHANGED <<dp, unheard, faults>>

(* The process dies; a registration on its way into the row is unheard of. *)
Crash ==
  /\ Faulty
  /\ unheard' = [k \in RowId |->
       IF \E r \in Thread : At(r, "registering") /\ req[r].row = k THEN unheard[k] + 1
       ELSE unheard[k]]
  /\ req' = [r \in Thread |-> Idle]
  /\ UNCHANGED <<row, dp>>
-----------------------------------------------------------------------------
Work(r) ==
  \/ Locate(r) \/ GetMaster(r)
  \/ Validate(r) \/ UploadChunks(r) \/ Register(r) \/ RegisterLost(r) \/ RecordTran(r)
  \/ StepFails(r) \/ Retry(r) \/ GiveUp(r) \/ CallFails(r)
  \/ StartPolling(r) \/ Poll(r) \/ PollEmpty(r) \/ Verdict(r) \/ TimedOut(r)
  \/ RunProcess(r) \/ RecordProcessed(r)
  \/ Check(r) \/ CheckEmpty(r) \/ ApplyCheck(r)

Next ==
  \/ \E r \in Thread, k \in RowId : Submit(r, k) \/ Get(r, k)
  \/ \E r \in Thread : Work(r)
  \/ \E t \in Tran : DpSettles(t)
  \/ Crash

Spec == Init /\ [][Next]_vars

(* The threads run, DP works, and the caller asks for every row's status    *)
(* again and again.                                                         *)
LiveSpec ==
  /\ Spec
  /\ \A r \in Thread : WF_vars(Work(r))
  /\ \A t \in Tran : WF_vars(DpSettles(t))
  /\ \A r \in Thread, k \in RowId : SF_vars(Get(r, k))
-----------------------------------------------------------------------------
(* Every variable keeps its type. *)
Pc == Attempting \cup {"idle", "locate", "master", "registering", "attempt_failed", "give_up",
        "registered", "poll", "verdict", "timed_out", "process", "record_processed", "check", "checked"}
Req == [pc : Pc, row : RowId \cup {NoRow}, attempt : 1..MaxAttempts, tran : Tran \cup {NoTran},
        polls : 0..MaxPolls, loaded : Status \cup {"none"}, read : Code]

TypeOK ==
  /\ row \in [RowId -> Row]
  /\ owner \in [Tran -> RowId \cup {NoRow}]
  /\ registrations \in [RowId -> Nat]
  /\ code \in [Tran -> Code] /\ processed \in [Tran -> Nat]
  /\ req \in [Thread -> Req]
  /\ unheard \in [RowId -> Nat]
  /\ faults \in 0..MaxFault

(* Steps 3 to 5 are tried again from the start, and yet DP has the file of  *)
(* a row once, and once more for every registration whose answer never      *)
(* came; no GET, poll or failed step registers it again.                    *)
RegistrationsAccounted == \A k \in RowId : registrations[k] <= 1 + unheard[k]

(* Whatever POST and GETs crossed: a success or processed is DP's success   *)
(* of the row's own Tran_Id, and a failure with a Tran_Id is DP's error.    *)
VerdictBacked ==
  \A k \in RowId : LET t == row[k].tran IN
    /\ row[k].status \in {"success", "processed"} =>
         t # NoTran /\ owner[t] = k /\ code[t] = "success"
    /\ row[k].status = "failed" /\ t # NoTran => code[t] = "error"

(* Step 7 runs at most once for a Tran_Id, only after DP's success and only *)
(* where the master record requires it, and a row says processed only if it *)
(* ran.                                                                     *)
ProcessFiredRight ==
  /\ \A t \in Tran : processed[t] > 0 =>
       /\ processed[t] = 1
       /\ code[t] = "success"
       /\ row[owner[t]].process /\ row[owner[t]].tran = t
  /\ \A k \in RowId : row[k].status = "processed" => processed[row[k].tran] = 1

(* A row that has a Tran_Id gets DP's verdict in the end, through crashes,  *)
(* failed polls and a POST that writes in_progress over it.                 *)
Resolved(k) ==
  /\ row[k].status \in Final /\ row[k].tran # NoTran
  /\ code[row[k].tran] = IF row[k].status = "failed" THEN "error" ELSE "success"
RowResolves == \A k \in RowId : row[k].tran # NoTran ~> []Resolved(k)
(* To the caller and to DP the lane is RowFate: the file of a row is given  *)
(* to DP only by its POST and only while no Tran_Id is kept, the Tran_Id    *)
(* stays, a refused row stays refused, and once the POST is over no         *)
(* verdict in the row is taken back or contradicts DP.                      *)
Reading(status) ==
  IF status \in Final \cup {"none"} THEN status ELSE "open"

(* The POST has not come to Step 5, or Step 5 left nothing behind. *)
Unsent == Attempting \cup {"locate", "master", "attempt_failed", "give_up"}
(* The poll is over. *)
Polled == {"verdict", "timed_out", "process", "record_processed"}
Posting == Unsent \cup {"registering", "registered", "poll"} \cup Polled

Posted == {k \in RowId : \E r \in Thread : req[r].pc \in Posting /\ req[r].row = k}
Told == [k \in RowId |-> Reading(row[k].status)]
Kept == [k \in RowId |-> row[k].tran]

Fate == INSTANCE RowFate WITH posting <- Posted, told <- Told, tran <- Kept

ImplementsRowFate == Fate!Spec
=============================================================================
