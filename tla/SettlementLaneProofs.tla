------------------------- MODULE SettlementLaneProofs -------------------------
(***************************************************************************)
(* Safety of the settlement lane for any number of rows, threads, Tran_Ids,*)
(* attempts, polls and faults: what DP was asked to do and what the rows   *)
(* say of it agree.                                                        *)
(***************************************************************************)
EXTENDS SettlementLane, TLAPS

(* The row carries the Tran_Id in hand. *)
Sent == {"registered", "poll", "check", "checked"} \cup Polled

(* What a thread in hand of q may rely on. *)
ThreadOK(q) ==
  /\ q.pc # "idle" => q.row \in RowId
  /\ q.pc \notin Polled => q.polls < MaxPolls
  /\ q.pc \in Posting => row[q.row].status # "none"
  /\ q.pc \in Unsent \cup {"registering"} => row[q.row].tran = NoTran
  /\ q.pc \in Sent => row[q.row].tran = q.tran
  /\ q.pc \in Sent \cup {"registering"} => q.tran \in Tran /\ owner[q.tran] = q.row
  /\ q.pc = "verdict" => q.read # "pending" /\ code[q.tran] = q.read
  /\ q.pc \in {"process", "record_processed"} => code[q.tran] = "success" /\ row[q.row].process
  /\ q.pc \in {"registering", "registered", "poll", "verdict", "process"} =>
       processed[q.tran] = 0
  /\ q.pc = "record_processed" => processed[q.tran] = 1
  /\ q.pc = "checked" => q.read = "pending" \/ code[q.tran] = q.read

Threads == \A r \in Thread : ThreadOK(req[r])

(* A row belongs to the POST that inserted it. *)
Sole ==
  \A r, s \in Thread :
    r # s /\ req[r].pc \in Posting /\ req[s].pc \in Posting => req[r].row # req[s].row

(* What a row says of DP. *)
RowOK(k) ==
  /\ row[k].status = "none" => row[k].tran = NoTran
  /\ row[k].tran # NoTran => owner[row[k].tran] = k
  /\ row[k].status \in {"success", "processed"} =>
       row[k].tran # NoTran /\ code[row[k].tran] = "success"
  /\ row[k].status = "failed" /\ row[k].tran # NoTran => code[row[k].tran] = "error"
  /\ row[k].status = "processed" => processed[row[k].tran] = 1

Rows == \A k \in RowId : RowOK(k)

(* A Tran_Id for which Step 7 ran. *)
ProcessedOK ==
  \A t \in Tran : processed[t] # 0 =>
    /\ processed[t] = 1
    /\ owner[t] \in RowId
    /\ code[t] = "success"
    /\ row[owner[t]].process /\ row[owner[t]].tran = t

Registering(k) == \E r \in Thread : req[r].pc = "registering" /\ req[r].row = k

(* A registration is in the row, on its way into it, or unheard of. *)
Counted ==
  \A k \in RowId :
    /\ registrations[k] <= 1 + unheard[k]
    /\ row[k].tran = NoTran /\ ~Registering(k) => registrations[k] <= unheard[k]

Inv == TypeOK /\ Threads /\ Sole /\ Rows /\ ProcessedOK /\ Counted
-----------------------------------------------------------------------------
(* A request with some of its fields replaced by others of their type.      *)
LEMMA ReqFields ==
  ASSUME NEW q \in Req
  PROVE  /\ \A pc \in Pc : [q EXCEPT !.pc = pc] \in Req
         /\ \A pc \in Pc, t \in Tran \cup {NoTran} : [q EXCEPT !.pc = pc, !.tran = t] \in Req
         /\ \A pc \in Pc, n \in 1..MaxAttempts : [q EXCEPT !.pc = pc, !.attempt = n] \in Req
         /\ \A pc \in Pc, n \in 0..MaxPolls : [q EXCEPT !.polls = n, !.pc = pc] \in Req
         /\ \A pc \in Pc, n \in 0..MaxPolls, c \in Code :
              [q EXCEPT !.polls = n, !.read = c, !.pc = pc] \in Req
         /\ \A pc \in Pc, c \in Code : [q EXCEPT !.pc = pc, !.read = c] \in Req
<1> USE DEF Req
<1> QED
  OBVIOUS

(* The requests a thread begins with. *)
LEMMA IdleTyped ==
  /\ Idle \in Req
  /\ \A k \in RowId : [Idle EXCEPT !.pc = "locate", !.row = k] \in Req
  /\ \A k \in RowId, t \in Tran \cup {NoTran}, l \in Status \cup {"none"} :
       [Idle EXCEPT !.pc = "check", !.row = k, !.tran = t, !.loaded = l] \in Req
<1>1. Idle \in Req
  BY ConstantsAssumption DEF Idle, Req, Pc, Attempting, Code
<1>2. \A q \in Req, k \in RowId : [q EXCEPT !.pc = "locate", !.row = k] \in Req
  BY DEF Req, Pc
<1>3. \A q \in Req, k \in RowId, t \in Tran \cup {NoTran}, l \in Status \cup {"none"} :
        [q EXCEPT !.pc = "check", !.row = k, !.tran = t, !.loaded = l] \in Req
  BY DEF Req, Pc
<1> QED
  BY <1>1, <1>2, <1>3

(* The fields of a request and of a row have their types. *)
LEMMA FieldTypes ==
  /\ \A q \in Req : /\ q.pc \in Pc /\ q.row \in RowId \cup {NoRow} /\ q.attempt \in 1..MaxAttempts
                    /\ q.tran \in Tran \cup {NoTran} /\ q.polls \in 0..MaxPolls
                    /\ q.loaded \in Status \cup {"none"} /\ q.read \in Code
  /\ \A w \in Row : w.status \in Status \cup {"none"} /\ w.tran \in Tran \cup {NoTran}
                      /\ w.process \in BOOLEAN
  BY DEF Req, Row

(* Only the request of r changes. *)
Mine(r) == \A s \in Thread : s # r => req'[s] = req[s]

(* A step that only goes to another program counter. *)
LEMMA GoesTo ==
  ASSUME NEW r \in Thread, NEW pc \in Pc, req \in [Thread -> Req], Goes(r, pc)
  PROVE  /\ req' \in [Thread -> Req] /\ Mine(r)
         /\ req'[r].pc = pc
         /\ req'[r].row = req[r].row /\ req'[r].tran = req[r].tran
         /\ req'[r].polls = req[r].polls /\ req'[r].read = req[r].read
<1> DEFINE q == [req[r] EXCEPT !.pc = pc]
<1>1. q \in Req
  BY ReqFields
<1>2. req' = [req EXCEPT ![r] = q]
  BY DEF Goes
<1>3. req' \in [Thread -> Req] /\ Mine(r) /\ req'[r] = q
  BY <1>1, <1>2 DEF Mine
<1>4. req[r] \in Req
  OBVIOUS
<1>5. q.pc = pc /\ q.row = req[r].row /\ q.tran = req[r].tran
        /\ q.polls = req[r].polls /\ q.read = req[r].read
  BY <1>4 DEF Req
<1> QED
  BY <1>3, <1>5

(* A thread answers. *)
LEMMA AnswersTo ==
  ASSUME NEW r \in Thread, req \in [Thread -> Req], Answers(r)
  PROVE  req' \in [Thread -> Req] /\ Mine(r) /\ req'[r] = Idle /\ req'[r].pc = "idle"
  BY IdleTyped DEF Answers, Mine, Idle

(* A status is written to the row in hand; nothing else changes. *)
LEMMA StatusSet ==
  ASSUME NEW r \in Thread, NEW status \in Status, row \in [RowId -> Row],
         req[r].row \in RowId, SetStatus(r, status)
  PROVE  /\ row' \in [RowId -> Row]
         /\ row'[req[r].row].status = status
         /\ \A k \in RowId : row'[k].tran = row[k].tran /\ row'[k].process = row[k].process
         /\ \A k \in RowId : k # req[r].row => row'[k] = row[k]
<1> DEFINE k == req[r].row
           w == [row[k] EXCEPT !.status = status]
<1>1. row[k] \in Row
  OBVIOUS
<1>2. w \in Row /\ w.status = status /\ w.tran = row[k].tran /\ w.process = row[k].process
  BY <1>1 DEF Row
<1>3. row' = [row EXCEPT ![k] = w]
  BY DEF SetStatus
<1> QED
  BY <1>2, <1>3

(* "none" is no status. *)
LEMMA NoneIsNoStatus == "none" \notin Status
  BY DEF Status, Final

(* An idle thread relies on nothing. *)
LEMMA IdleOK == ASSUME NEW r \in Thread, req'[r] = Idle PROVE ThreadOK(req[r])'
  BY ConstantsAssumption DEF Idle, ThreadOK, Posting, Unsent, Attempting, Polled, Sent
-----------------------------------------------------------------------------
(* Rows and DP only grow: a row stays, and so do the Tran_Id it has, whom a *)
(* Tran_Id belongs to and how it ended.                                     *)
Grows ==
  /\ \A k \in RowId : row[k].status # "none" => row'[k].status # "none"
  /\ \A k \in RowId : row[k].tran # NoTran =>
       row'[k].tran = row[k].tran /\ row'[k].process = row[k].process
  /\ \A t \in Tran : owner[t] # NoRow => owner'[t] = owner[t]
  /\ \A t \in Tran : code[t] # "pending" => code'[t] = code[t]

(* What a thread relies on survives the growth, if the row of a POST keeps  *)
(* lacking its Tran_Id and its Tran_Id is not processed meanwhile.          *)
LEMMA OthersKept ==
  ASSUME TypeOK, NEW s \in Thread, req'[s] = req[s], ThreadOK(req[s]), Grows,
         req[s].pc \in Posting => row'[req[s].row].tran = row[req[s].row].tran,
         req[s].pc \in Posting /\ req[s].tran \in Tran /\ owner[req[s].tran] = req[s].row =>
           processed'[req[s].tran] = processed[req[s].tran]
  PROVE  ThreadOK(req[s])'
<1>1. req[s].pc \in Sent \cup {"registering"} => req[s].row \in RowId /\ req[s].row # NoRow /\ req[s].tran # NoTran
  BY ConstantsAssumption DEF ThreadOK, Sent, Polled
<1>2. req[s].pc \in Posting => req[s].row \in RowId
  BY DEF ThreadOK, Posting, Unsent, Attempting, Polled
<1>3. /\ req[s].pc # "idle" => req[s].row \in RowId
      /\ req[s].pc \notin Polled => req[s].polls < MaxPolls
  BY DEF ThreadOK
<1>4. req[s].pc \in Posting => row'[req[s].row].status # "none"
  BY <1>2 DEF ThreadOK, Grows
<1>5. req[s].pc \in Unsent \cup {"registering"} => row'[req[s].row].tran = NoTran
  BY DEF ThreadOK, Posting
<1>6. req[s].pc \in Sent => row'[req[s].row].tran = req[s].tran
  BY <1>1 DEF ThreadOK, Grows
<1>7. req[s].pc \in Sent \cup {"registering"} => req[s].tran \in Tran /\ owner'[req[s].tran] = req[s].row
  BY <1>1 DEF ThreadOK, Grows
<1>8. /\ req[s].pc = "verdict" => req[s].read # "pending" /\ code'[req[s].tran] = req[s].read
      /\ req[s].pc = "checked" => req[s].read = "pending" \/ code'[req[s].tran] = req[s].read
  BY DEF ThreadOK, Grows, Sent, Polled
<1>9. req[s].pc \in {"process", "record_processed"} => code'[req[s].tran] = "success" /\ row'[req[s].row].process
  BY <1>1 DEF ThreadOK, Grows, Sent, Polled
<1>10. /\ req[s].pc \in {"registering", "registered", "poll", "verdict", "process"} =>
            processed'[req[s].tran] = 0
       /\ req[s].pc = "record_processed" => processed'[req[s].tran] = 1
  BY DEF ThreadOK, Posting, Polled, Sent
<1> QED
  BY <1>3, <1>4, <1>5, <1>6, <1>7, <1>8, <1>9, <1>10 DEF ThreadOK

(* A POST keeps its row, and no other thread takes it. *)
LEMMA SoleKept ==
  ASSUME Sole, NEW r \in Thread, Mine(r),
         req'[r].pc \in Posting => req[r].pc \in Posting /\ req'[r].row = req[r].row
  PROVE  Sole'
  BY DEF Sole, Mine
-----------------------------------------------------------------------------
(* A step of r alone that neither registers nor processes: it may write the *)
(* status of its row, and process_required as long as there is no Tran_Id.  *)
Quiet(r) ==
  /\ Mine(r)
  /\ UNCHANGED <<dp, unheard>>
  /\ \A k \in RowId : k # req[r].row => row'[k] = row[k]
  /\ \A k \in RowId : row'[k].tran = row[k].tran
  /\ \A k \in RowId : row[k].tran # NoTran => row'[k].process = row[k].process
  /\ \A k \in RowId : row[k].status # "none" => row'[k].status # "none"
  /\ req[r].pc # "registering" /\ req'[r].pc # "registering"
  /\ req'[r].pc \in Posting => req[r].pc \in Posting /\ req'[r].row = req[r].row

LEMMA QuietKeeps ==
  ASSUME Inv, NEW r \in Thread, Quiet(r), TypeOK', ThreadOK(req[r])',
         \A k \in RowId : k = req[r].row => RowOK(k)'
  PROVE  Inv'
<1> USE DEF Inv
<1>1. Grows
  BY DEF Quiet, Grows, dp
<1>2. ASSUME NEW s \in Thread PROVE ThreadOK(req[s])'
  <2>1. CASE s = r
    BY <2>1
  <2>2. CASE s # r
    <3>1. req'[s] = req[s] /\ ThreadOK(req[s]) /\ processed' = processed
      BY <2>2 DEF Quiet, Mine, Threads, dp
    <3>2. req[s].pc \in Posting => req[s].row \in RowId
      BY <3>1 DEF ThreadOK, Posting, Unsent, Attempting, Polled
    <3>3. req[s].pc \in Posting => row'[req[s].row].tran = row[req[s].row].tran
      BY <3>2 DEF Quiet
    <3> QED
      BY <1>1, <3>1, <3>3, OthersKept
  <2> QED
    BY <2>1, <2>2
<1>3. Sole'
  BY SoleKept DEF Quiet
<1>4. ASSUME NEW k \in RowId PROVE RowOK(k)'
  <2>1. CASE k = req[r].row
    BY <2>1
  <2>2. CASE k # req[r].row
    BY <2>2 DEF Quiet, Rows, RowOK, dp
  <2> QED
    BY <2>1, <2>2
<1>5. ProcessedOK'
  <2> SUFFICES ASSUME NEW t \in Tran, processed'[t] # 0
               PROVE  /\ processed'[t] = 1
                      /\ owner'[t] \in RowId
                      /\ code'[t] = "success"
                      /\ row'[owner'[t]].process /\ row'[owner'[t]].tran = t
    BY DEF ProcessedOK
  <2>1. processed[t] # 0 /\ t # NoTran
    BY ConstantsAssumption DEF Quiet, dp
  <2>2. /\ processed[t] = 1 /\ owner[t] \in RowId /\ code[t] = "success"
        /\ row[owner[t]].process /\ row[owner[t]].tran = t
    BY <2>1 DEF ProcessedOK
  <2> QED
    BY <2>1, <2>2 DEF Quiet, dp
<1>6. Counted'
  <2>1. \A k \in RowId : Registering(k) <=> Registering(k)'
    BY DEF Registering, Quiet, Mine
  <2> QED
    BY <2>1 DEF Counted, Quiet, dp
<1> QED
  BY <1>2, <1>3, <1>4, <1>5, <1>6 DEF Threads, Rows
(* In particular a step that leaves the rows alone. *)
LEMMA MoveKeeps ==
  ASSUME Inv, NEW r \in Thread, Mine(r), UNCHANGED <<row, dp, unheard>>,
         req' \in [Thread -> Req], faults' \in 0..MaxFault,
         req[r].pc # "registering", req'[r].pc # "registering",
         req'[r].pc \in Posting => req[r].pc \in Posting /\ req'[r].row = req[r].row,
         ThreadOK(req[r])'
  PROVE  Inv'
<1>1. TypeOK'
  BY DEF Inv, TypeOK, dp
<1>2. Quiet(r)
  BY DEF Quiet
<1>3. \A k \in RowId : RowOK(k)'
  BY DEF Inv, Rows, RowOK, dp
<1> QED
  BY <1>1, <1>2, <1>3, QuietKeeps

(* And one that writes a status that DP bears out. *)
LEMMA WriteKeeps ==
  ASSUME Inv, NEW r \in Thread, Mine(r), UNCHANGED <<dp, unheard, faults>>,
         req' \in [Thread -> Req], req[r].pc # "idle",
         NEW status \in Status, SetStatus(r, status),
         status \in {"success", "processed"} =>
           row[req[r].row].tran # NoTran /\ code[row[req[r].row].tran] = "success",
         status = "failed" /\ row[req[r].row].tran # NoTran => code[row[req[r].row].tran] = "error",
         status = "processed" => processed[row[req[r].row].tran] = 1,
         req[r].pc # "registering", req'[r].pc # "registering",
         req'[r].pc \in Posting => req[r].pc \in Posting /\ req'[r].row = req[r].row,
         ThreadOK(req[r])'
  PROVE  Inv'
<1>1. req[r].row \in RowId /\ row \in [RowId -> Row]
  BY DEF Inv, TypeOK, Threads, ThreadOK
<1>2. /\ row' \in [RowId -> Row]
      /\ row'[req[r].row].status = status
      /\ \A k \in RowId : row'[k].tran = row[k].tran /\ row'[k].process = row[k].process
      /\ \A k \in RowId : k # req[r].row => row'[k] = row[k]
  BY <1>1, StatusSet
<1>3. TypeOK'
  BY <1>2 DEF Inv, TypeOK, dp
<1>4. Quiet(r)
  BY <1>1, <1>2, NoneIsNoStatus DEF Quiet
<1>5. ASSUME NEW k \in RowId, k = req[r].row PROVE RowOK(k)'
  <2>1. row'[k].status = status /\ row'[k].tran = row[k].tran /\ status # "none"
    BY <1>2, <1>5, NoneIsNoStatus
  <2>2. RowOK(k)
    BY DEF Inv, Rows
  <2> QED
    BY <1>5, <2>1, <2>2 DEF RowOK, dp
<1> QED
  BY <1>3, <1>4, <1>5, QuietKeeps

(* A fault more is within the bound. *)
LEMMA FaultCounted == ASSUME TypeOK, Faulty PROVE faults' \in 0..MaxFault
  BY ConstantsAssumption DEF TypeOK, Faulty
-----------------------------------------------------------------------------
(* The steps that only go on. *)
LEMMA LocateKeeps == ASSUME Inv, NEW r \in Thread, Locate(r) PROVE Inv'
<1> USE DEF Posting, Unsent, Attempting, Polled
<1>1. req \in [Thread -> Req] /\ ThreadOK(req[r]) /\ req[r].pc = "locate"
  BY DEF Inv, TypeOK, Threads, Locate, At
<1>2. CASE Goes(r, "master") /\ UNCHANGED row
  <2>1. "master" \in Pc
    BY DEF Pc
  <2>2. req' \in [Thread -> Req] /\ Mine(r) /\ req'[r].pc = "master"
          /\ req'[r].row = req[r].row /\ req'[r].tran = req[r].tran
          /\ req'[r].polls = req[r].polls /\ req'[r].read = req[r].read
    BY <1>1, <1>2, <2>1, GoesTo
  <2>3. ThreadOK(req[r])'
    BY <1>1, <1>2, <2>2 DEF ThreadOK, Sent, Locate
  <2> QED
    BY <1>1, <1>2, <2>2, <2>3, MoveKeeps DEF Locate, Inv, TypeOK
<1>3. CASE SetStatus(r, "failed") /\ Answers(r)
  <2>1. req' \in [Thread -> Req] /\ Mine(r) /\ req'[r] = Idle /\ req'[r].pc = "idle"
    BY <1>1, <1>3, AnswersTo
  <2>2. ThreadOK(req[r])'
    BY <2>1, IdleOK
  <2>3. row[req[r].row].tran = NoTran /\ "failed" \in Status
    BY <1>1 DEF ThreadOK, Status, Final
  <2> QED
    BY <1>1, <1>3, <2>1, <2>2, <2>3, WriteKeeps DEF Locate
<1> QED
  BY <1>2, <1>3 DEF Locate
LEMMA ValidateKeeps == ASSUME Inv, NEW r \in Thread, Validate(r) PROVE Inv'
<1> USE DEF Posting, Unsent, Attempting, Polled
<1>1. /\ req \in [Thread -> Req] /\ row \in [RowId -> Row]
      /\ ThreadOK(req[r]) /\ req[r].pc = "validate" /\ req[r].row \in RowId
  BY DEF Inv, TypeOK, Threads, ThreadOK, Validate, At
<1>2. "chunks" \in Pc /\ "uploading" \in Status
  BY DEF Pc, Status, Final
<1>3. req' \in [Thread -> Req] /\ Mine(r) /\ req'[r].pc = "chunks"
        /\ req'[r].row = req[r].row /\ req'[r].tran = req[r].tran
        /\ req'[r].polls = req[r].polls /\ req'[r].read = req[r].read
  BY <1>1, <1>2, GoesTo DEF Validate
<1>4. row'[req[r].row].status = "uploading" /\ "uploading" # "none"
        /\ row'[req[r].row].tran = row[req[r].row].tran
  BY <1>1, <1>2, StatusSet DEF Validate
<1>5. ThreadOK(req[r])'
  BY <1>1, <1>3, <1>4 DEF ThreadOK, Sent, Validate, dp
<1> QED
  BY <1>1, <1>2, <1>3, <1>5, WriteKeeps DEF Validate

LEMMA UploadChunksKeeps == ASSUME Inv, NEW r \in Thread, UploadChunks(r) PROVE Inv'
<1> USE DEF Posting, Unsent, Attempting, Polled
<1>1. /\ req \in [Thread -> Req] /\ row \in [RowId -> Row]
      /\ ThreadOK(req[r]) /\ req[r].pc = "chunks" /\ req[r].row \in RowId
  BY DEF Inv, TypeOK, Threads, ThreadOK, UploadChunks, At
<1>2. "finalize" \in Pc /\ "uploaded" \in Status
  BY DEF Pc, Status, Final
<1>3. req' \in [Thread -> Req] /\ Mine(r) /\ req'[r].pc = "finalize"
        /\ req'[r].row = req[r].row /\ req'[r].tran = req[r].tran
        /\ req'[r].polls = req[r].polls /\ req'[r].read = req[r].read
  BY <1>1, <1>2, GoesTo DEF UploadChunks
<1>4. row'[req[r].row].status = "uploaded" /\ "uploaded" # "none"
        /\ row'[req[r].row].tran = row[req[r].row].tran
  BY <1>1, <1>2, StatusSet DEF UploadChunks
<1>5. ThreadOK(req[r])'
  BY <1>1, <1>3, <1>4 DEF ThreadOK, Sent, UploadChunks, dp
<1> QED
  BY <1>1, <1>2, <1>3, <1>5, WriteKeeps DEF UploadChunks

LEMMA StartPollingKeeps == ASSUME Inv, NEW r \in Thread, StartPolling(r) PROVE Inv'
<1> USE DEF Posting, Unsent, Attempting, Polled
<1>1. /\ req \in [Thread -> Req] /\ row \in [RowId -> Row]
      /\ ThreadOK(req[r]) /\ req[r].pc = "registered" /\ req[r].row \in RowId
  BY DEF Inv, TypeOK, Threads, ThreadOK, StartPolling, At
<1>2. "poll" \in Pc /\ "polling" \in Status
  BY DEF Pc, Status, Final
<1>3. req' \in [Thread -> Req] /\ Mine(r) /\ req'[r].pc = "poll"
        /\ req'[r].row = req[r].row /\ req'[r].tran = req[r].tran
        /\ req'[r].polls = req[r].polls /\ req'[r].read = req[r].read
  BY <1>1, <1>2, GoesTo DEF StartPolling
<1>4. row'[req[r].row].status = "polling" /\ "polling" # "none"
        /\ row'[req[r].row].tran = row[req[r].row].tran
  BY <1>1, <1>2, StatusSet DEF StartPolling
<1>5. ThreadOK(req[r])'
  BY <1>1, <1>3, <1>4 DEF ThreadOK, Sent, StartPolling, dp
<1> QED
  BY <1>1, <1>2, <1>3, <1>5, WriteKeeps DEF StartPolling

LEMMA StepFailsKeeps == ASSUME Inv, NEW r \in Thread, StepFails(r) PROVE Inv'
<1> USE DEF Posting, Unsent, Attempting, Polled
<1>1. req \in [Thread -> Req] /\ ThreadOK(req[r]) /\ req[r].pc \in Attempting /\ TypeOK
  BY DEF Inv, TypeOK, Threads, StepFails
<1>2. "attempt_failed" \in Pc
  BY DEF Pc
<1>3. req' \in [Thread -> Req] /\ Mine(r) /\ req'[r].pc = "attempt_failed"
        /\ req'[r].row = req[r].row /\ req'[r].tran = req[r].tran
        /\ req'[r].polls = req[r].polls /\ req'[r].read = req[r].read
  BY <1>1, <1>2, GoesTo DEF StepFails
<1>4. ThreadOK(req[r])'
  BY <1>1, <1>3 DEF ThreadOK, Sent, StepFails
<1> QED
  BY <1>1, <1>3, <1>4, FaultCounted, MoveKeeps DEF StepFails

LEMMA RetryKeeps == ASSUME Inv, NEW r \in Thread, Retry(r) PROVE Inv'
<1> USE DEF Posting, Unsent, Attempting, Polled
<1>1. /\ req \in [Thread -> Req] /\ ThreadOK(req[r]) /\ req[r].pc = "attempt_failed"
      /\ faults \in 0..MaxFault
  BY DEF Inv, TypeOK, Threads, Retry, At
<1>2. CASE /\ req[r].attempt < MaxAttempts
           /\ req' = [req EXCEPT ![r].pc = "validate", ![r].attempt = @ + 1]
  <2> DEFINE q == [req[r] EXCEPT !.pc = "validate", !.attempt = req[r].attempt + 1]
  <2>1. req[r] \in Req /\ req[r].attempt + 1 \in 1..MaxAttempts /\ "validate" \in Pc
    BY <1>1, <1>2, FieldTypes, ConstantsAssumption DEF Pc
  <2>2. q \in Req
    BY <2>1, ReqFields
  <2>3. q.pc = "validate" /\ q.row = req[r].row /\ q.tran = req[r].tran /\ q.polls = req[r].polls
    BY <2>1 DEF Req
  <2>4. req' = [req EXCEPT ![r] = q]
    BY <1>2
  <2>5. req' \in [Thread -> Req] /\ Mine(r) /\ req'[r] = q
    BY <1>1, <2>2, <2>4 DEF Mine
  <2>6. ThreadOK(req[r])'
    BY <1>1, <2>3, <2>5 DEF ThreadOK, Sent, Retry
  <2> QED
    BY <1>1, <2>3, <2>5, <2>6, MoveKeeps DEF Retry
<1>3. CASE Goes(r, "give_up")
  <2>1. "give_up" \in Pc
    BY DEF Pc
  <2>2. req' \in [Thread -> Req] /\ Mine(r) /\ req'[r].pc = "give_up"
          /\ req'[r].row = req[r].row /\ req'[r].tran = req[r].tran
          /\ req'[r].polls = req[r].polls /\ req'[r].read = req[r].read
    BY <1>1, <1>3, <2>1, GoesTo
  <2>3. ThreadOK(req[r])'
    BY <1>1, <2>2 DEF ThreadOK, Sent, Retry
  <2> QED
    BY <1>1, <2>2, <2>3, MoveKeeps DEF Retry
<1> QED
  BY <1>2, <1>3 DEF Retry

LEMMA CallFailsKeeps == ASSUME Inv, NEW r \in Thread, CallFails(r) PROVE Inv'
<1>1. req \in [Thread -> Req] /\ TypeOK /\ req[r].pc # "registering"
  BY DEF Inv, TypeOK, CallFails
<1>2. req' \in [Thread -> Req] /\ Mine(r) /\ req'[r] = Idle /\ req'[r].pc = "idle"
  BY <1>1, AnswersTo DEF CallFails
<1>3. ThreadOK(req[r])' /\ "idle" \notin Posting
  BY <1>2, IdleOK DEF Posting, Unsent, Attempting, Polled
<1> QED
  BY <1>1, <1>2, <1>3, FaultCounted, MoveKeeps DEF CallFails

LEMMA TimedOutKeeps == ASSUME Inv, NEW r \in Thread, TimedOut(r) PROVE Inv'
<1>1. req \in [Thread -> Req] /\ ThreadOK(req[r]) /\ req[r].pc = "timed_out"
  BY DEF Inv, TypeOK, Threads, TimedOut, At
<1>2. req' \in [Thread -> Req] /\ Mine(r) /\ req'[r] = Idle /\ req'[r].pc = "idle"
  BY <1>1, AnswersTo DEF TimedOut
<1>3. ThreadOK(req[r])' /\ "in_progress" \in Status /\ "idle" \notin Posting
  BY <1>2, IdleOK DEF Status, Final, Posting, Unsent, Attempting, Polled
<1> QED
  BY <1>1, <1>2, <1>3, WriteKeeps DEF TimedOut

LEMMA GiveUpKeeps == ASSUME Inv, NEW r \in Thread, GiveUp(r) PROVE Inv'
<1>1. req \in [Thread -> Req] /\ ThreadOK(req[r]) /\ req[r].pc = "give_up"
  BY DEF Inv, TypeOK, Threads, GiveUp, At
<1>2. req' \in [Thread -> Req] /\ Mine(r) /\ req'[r] = Idle /\ req'[r].pc = "idle"
  BY <1>1, AnswersTo DEF GiveUp
<1>3. /\ ThreadOK(req[r])' /\ "failed" \in Status /\ "idle" \notin Posting
      /\ row[req[r].row].tran = NoTran
  BY <1>1, <1>2, IdleOK DEF ThreadOK, Status, Final, Posting, Unsent, Attempting, Polled
<1> QED
  BY <1>1, <1>2, <1>3, WriteKeeps DEF GiveUp

LEMMA RecordProcessedKeeps == ASSUME Inv, NEW r \in Thread, RecordProcessed(r) PROVE Inv'
<1>1. req \in [Thread -> Req] /\ ThreadOK(req[r]) /\ req[r].pc = "record_processed"
  BY DEF Inv, TypeOK, Threads, RecordProcessed, At
<1>2. req' \in [Thread -> Req] /\ Mine(r) /\ req'[r] = Idle /\ req'[r].pc = "idle"
  BY <1>1, AnswersTo DEF RecordProcessed
<1>3. ThreadOK(req[r])' /\ "processed" \in Status /\ "idle" \notin Posting
  BY <1>2, IdleOK DEF Status, Final, Posting, Unsent, Attempting, Polled
<1>4. /\ row[req[r].row].tran # NoTran /\ code[row[req[r].row].tran] = "success"
      /\ processed[row[req[r].row].tran] = 1
  BY <1>1, ConstantsAssumption DEF ThreadOK, Sent, Polled
<1> QED
  BY <1>1, <1>2, <1>3, <1>4, WriteKeeps DEF RecordProcessed
-----------------------------------------------------------------------------
(* The steps that read or use DP's verdict. *)
LEMMA PollKeeps == ASSUME Inv, NEW r \in Thread, Poll(r) PROVE Inv'
<1> USE DEF Posting, Unsent, Attempting, Polled
<1>1. /\ req \in [Thread -> Req] /\ req[r] \in Req /\ ThreadOK(req[r]) /\ req[r].pc = "poll"
      /\ code \in [Tran -> Code] /\ req[r].tran \in Tran /\ req[r].polls < MaxPolls
      /\ faults \in 0..MaxFault
  BY DEF Inv, TypeOK, Threads, ThreadOK, Poll, At, Sent
<1> DEFINE next == IF code[req[r].tran] # "pending" THEN "verdict"
                   ELSE IF req[r].polls + 1 = MaxPolls THEN "timed_out" ELSE req[r].pc
           q == [req[r] EXCEPT !.polls = req[r].polls + 1, !.read = code[req[r].tran], !.pc = next]
<1>2. /\ next \in Pc /\ next \in {"poll", "verdict", "timed_out"}
      /\ next = "verdict" => code[req[r].tran] # "pending"
      /\ next = "poll" => req[r].polls + 1 # MaxPolls
      /\ code[req[r].tran] \in Code /\ req[r].polls + 1 \in 0..MaxPolls
  <2>1. req[r].polls \in 0..MaxPolls /\ MaxPolls \in Nat
    BY <1>1, FieldTypes, ConstantsAssumption
  <2>2. req[r].polls + 1 \in 0..MaxPolls
    BY <1>1, <2>1
  <2> QED
    BY <1>1, <2>2 DEF Pc
<1>3. q \in Req
  BY <1>1, <1>2, ReqFields
<1>4. /\ q.pc = next /\ q.row = req[r].row /\ q.tran = req[r].tran
      /\ q.polls = req[r].polls + 1 /\ q.read = code[req[r].tran]
  BY <1>1 DEF Req
<1>5. req' = [req EXCEPT ![r] = q]
  BY DEF Poll
<1>6. req' \in [Thread -> Req] /\ Mine(r) /\ req'[r] = q
  BY <1>1, <1>3, <1>5 DEF Mine
<1>7. q.polls < MaxPolls \/ q.pc \in {"verdict", "timed_out"}
  BY <1>1, <1>2, <1>4, ConstantsAssumption, FieldTypes
<1>8. ThreadOK(req[r])'
  <2> HIDE DEF next, q
  <2> QED
    BY <1>1, <1>2, <1>4, <1>6, <1>7 DEF ThreadOK, Sent, Poll, dp
<1> QED
  BY <1>1, <1>2, <1>4, <1>6, <1>8, MoveKeeps DEF Poll

LEMMA PollEmptyKeeps == ASSUME Inv, NEW r \in Thread, PollEmpty(r) PROVE Inv'
<1> USE DEF Posting, Unsent, Attempting, Polled
<1>1. /\ req \in [Thread -> Req] /\ req[r] \in Req /\ ThreadOK(req[r]) /\ req[r].pc = "poll"
      /\ req[r].polls < MaxPolls /\ TypeOK
  BY DEF Inv, TypeOK, Threads, ThreadOK, PollEmpty, At
<1> DEFINE q == [req[r] EXCEPT !.polls = req[r].polls + 1, !.pc = "timed_out"]
<1>2. "timed_out" \in Pc /\ req[r].polls + 1 \in 0..MaxPolls
  BY <1>1, FieldTypes, ConstantsAssumption DEF Pc
<1>3. q \in Req
  BY <1>1, <1>2, ReqFields
<1>4. q.pc = "timed_out" /\ q.row = req[r].row /\ q.tran = req[r].tran
  BY <1>1 DEF Req
<1>5. req' \in [Thread -> Req] /\ Mine(r) /\ req'[r] = q
  BY <1>1, <1>3 DEF Mine, PollEmpty
<1>6. ThreadOK(req[r])'
  BY <1>1, <1>4, <1>5 DEF ThreadOK, Sent, PollEmpty, dp
<1> QED
  BY <1>1, <1>4, <1>5, <1>6, FaultCounted, MoveKeeps DEF PollEmpty

LEMMA VerdictKeeps == ASSUME Inv, NEW r \in Thread, Verdict(r) PROVE Inv'
<1> USE DEF Posting, Unsent, Attempting, Polled
<1>1. /\ req \in [Thread -> Req] /\ ThreadOK(req[r]) /\ req[r].pc = "verdict"
      /\ faults \in 0..MaxFault /\ UNCHANGED <<dp, unheard, faults>>
  BY DEF Inv, TypeOK, Threads, Verdict, At
<1>2. /\ req[r].tran \in Tran /\ row[req[r].row].tran = req[r].tran
      /\ row[req[r].row].tran # NoTran /\ code[row[req[r].row].tran] = req[r].read
  BY <1>1, ConstantsAssumption DEF ThreadOK, Sent
<1>3. CASE req[r].read = "success" /\ row[req[r].row].process /\ Goes(r, "process") /\ UNCHANGED row
  <2>1. "process" \in Pc
    BY DEF Pc
  <2>2. req' \in [Thread -> Req] /\ Mine(r) /\ req'[r].pc = "process"
          /\ req'[r].row = req[r].row /\ req'[r].tran = req[r].tran
          /\ req'[r].polls = req[r].polls /\ req'[r].read = req[r].read
    BY <1>1, <1>3, <2>1, GoesTo
  <2>3. ThreadOK(req[r])'
    BY <1>1, <1>2, <1>3, <2>2 DEF ThreadOK, Sent, dp
  <2> QED
    BY <1>1, <1>3, <2>2, <2>3, MoveKeeps
<1>4. CASE \/ req[r].read = "success" /\ SetStatus(r, "success") /\ Answers(r)
           \/ req[r].read = "error" /\ SetStatus(r, "failed") /\ Answers(r)
  <2>1. req' \in [Thread -> Req] /\ Mine(r) /\ req'[r] = Idle /\ req'[r].pc = "idle"
    BY <1>1, <1>4, AnswersTo
  <2>2. ThreadOK(req[r])' /\ "success" \in Status /\ "failed" \in Status
    BY <2>1, IdleOK DEF Status, Final
  <2>3. CASE req[r].read = "success" /\ SetStatus(r, "success")
    BY <1>1, <1>2, <2>1, <2>2, <2>3, WriteKeeps
  <2>4. CASE req[r].read = "error" /\ SetStatus(r, "failed")
    BY <1>1, <1>2, <2>1, <2>2, <2>4, WriteKeeps
  <2> QED
    BY <1>4, <2>3, <2>4
<1> QED
  BY <1>3, <1>4 DEF Verdict

LEMMA CheckKeeps == ASSUME Inv, NEW r \in Thread, Check(r) PROVE Inv'
<1> USE DEF Posting, Unsent, Attempting, Polled
<1>1. /\ req \in [Thread -> Req] /\ req[r] \in Req /\ ThreadOK(req[r]) /\ req[r].pc = "check"
      /\ code \in [Tran -> Code] /\ req[r].tran \in Tran /\ faults \in 0..MaxFault /\ TypeOK
  BY DEF Inv, TypeOK, Threads, ThreadOK, Check, At, Sent
<1> DEFINE q == [req[r] EXCEPT !.pc = "checked", !.read = code[req[r].tran]]
<1>2. "checked" \in Pc /\ code[req[r].tran] \in Code
  BY <1>1 DEF Pc, Code
<1>3. q \in Req
  BY <1>1, <1>2, ReqFields
<1>4. /\ q.pc = "checked" /\ q.row = req[r].row /\ q.tran = req[r].tran
      /\ q.polls = req[r].polls /\ q.read = code[req[r].tran]
  BY <1>1 DEF Req
<1>5. req' \in [Thread -> Req] /\ Mine(r) /\ req'[r] = q
  BY <1>1, <1>3 DEF Mine, Check
<1>6. ThreadOK(req[r])'
  BY <1>1, <1>4, <1>5 DEF ThreadOK, Sent, Check, dp
<1> QED
  BY <1>1, <1>4, <1>5, <1>6, MoveKeeps DEF Check

LEMMA CheckEmptyKeeps == ASSUME Inv, NEW r \in Thread, CheckEmpty(r) PROVE Inv'
<1> USE DEF Posting, Unsent, Attempting, Polled
<1>1. /\ req \in [Thread -> Req] /\ req[r] \in Req /\ ThreadOK(req[r]) /\ req[r].pc = "check"
      /\ code \in [Tran -> Code] /\ req[r].tran \in Tran /\ faults \in 0..MaxFault /\ TypeOK
  BY DEF Inv, TypeOK, Threads, ThreadOK, CheckEmpty, At, Sent
<1> DEFINE q == [req[r] EXCEPT !.pc = "checked", !.read = "pending"]
<1>2. "checked" \in Pc /\ "pending" \in Code
  BY <1>1 DEF Pc, Code
<1>3. q \in Req
  BY <1>1, <1>2, ReqFields
<1>4. /\ q.pc = "checked" /\ q.row = req[r].row /\ q.tran = req[r].tran
      /\ q.polls = req[r].polls /\ q.read = "pending"
  BY <1>1 DEF Req
<1>5. req' \in [Thread -> Req] /\ Mine(r) /\ req'[r] = q
  BY <1>1, <1>3 DEF Mine, CheckEmpty
<1>6. ThreadOK(req[r])'
  BY <1>1, <1>4, <1>5 DEF ThreadOK, Sent, CheckEmpty, dp
<1> QED
  BY <1>1, <1>4, <1>5, <1>6, FaultCounted, MoveKeeps DEF CheckEmpty

LEMMA ApplyCheckKeeps == ASSUME Inv, NEW r \in Thread, ApplyCheck(r) PROVE Inv'
<1>1. /\ req \in [Thread -> Req] /\ req[r] \in Req /\ ThreadOK(req[r]) /\ req[r].pc = "checked"
      /\ faults \in 0..MaxFault /\ req[r].read \in Code
  BY FieldTypes DEF Inv, TypeOK, Threads, ApplyCheck, At
<1>2. /\ req' \in [Thread -> Req] /\ Mine(r) /\ req'[r] = Idle /\ req'[r].pc = "idle"
      /\ UNCHANGED <<dp, unheard, faults>>
  BY <1>1, AnswersTo DEF ApplyCheck
<1>3. ThreadOK(req[r])' /\ "idle" \notin Posting /\ "success" \in Status /\ "failed" \in Status
  BY <1>2, IdleOK DEF Posting, Unsent, Attempting, Polled, Status, Final
<1>4. /\ row[req[r].row].tran # NoTran
      /\ req[r].read # "pending" => code[row[req[r].row].tran] = req[r].read
  BY <1>1, ConstantsAssumption DEF ThreadOK, Sent
<1>5. \/ UNCHANGED row
      \/ req[r].read = "success" /\ SetStatus(r, "success")
      \/ req[r].read = "error" /\ SetStatus(r, "failed")
  BY <1>1 DEF ApplyCheck, Code
<1>6. CASE UNCHANGED row
  BY <1>1, <1>2, <1>3, <1>6, MoveKeeps
<1>7. CASE req[r].read = "success" /\ SetStatus(r, "success")
  BY <1>1, <1>2, <1>3, <1>4, <1>7, WriteKeeps
<1>8. CASE req[r].read = "error" /\ SetStatus(r, "failed")
  BY <1>1, <1>2, <1>3, <1>4, <1>8, WriteKeeps
<1> QED
  BY <1>5, <1>6, <1>7, <1>8

LEMMA GetKeeps == ASSUME Inv, NEW r \in Thread, NEW k \in RowId, Get(r, k) PROVE Inv'
<1> USE DEF Posting, Unsent, Attempting, Polled
<1>1. /\ req \in [Thread -> Req] /\ row \in [RowId -> Row] /\ req[r].pc = "idle"
      /\ faults \in 0..MaxFault /\ RowOK(k) /\ UNCHANGED <<row, dp>>
  BY DEF Inv, TypeOK, Rows, Get, At
<1> DEFINE q == [Idle EXCEPT !.pc = "check", !.row = k, !.tran = row[k].tran, !.loaded = row[k].status]
<1>2. row[k].tran \in Tran /\ row[k].status \in Status \cup {"none"} /\ owner[row[k].tran] = k
  BY <1>1, FieldTypes DEF Get, RowOK
<1>3. q \in Req
  BY <1>2, IdleTyped
<1>4. q.pc = "check" /\ q.row = k /\ q.tran = row[k].tran /\ q.polls = 0
  BY DEF Idle
<1>5. req' \in [Thread -> Req] /\ Mine(r) /\ req'[r] = q
  BY <1>1, <1>3 DEF Mine, Get
<1>6. ThreadOK(req[r])'
  <2> HIDE DEF q
  <2> QED
    BY <1>1, <1>2, <1>4, <1>5, ConstantsAssumption DEF ThreadOK, Sent, dp
<1> QED
  BY <1>1, <1>4, <1>5, <1>6, MoveKeeps DEF Get

LEMMA GetMasterKeeps == ASSUME Inv, NEW r \in Thread, GetMaster(r) PROVE Inv'
<1> USE DEF Posting, Unsent, Attempting, Polled
<1>1. /\ req \in [Thread -> Req] /\ row \in [RowId -> Row] /\ ThreadOK(req[r])
      /\ req[r].pc = "master" /\ req[r].row \in RowId /\ Inv
  BY DEF Inv, TypeOK, Threads, ThreadOK, GetMaster, At
<1> DEFINE k == req[r].row
<1>2. PICK w \in Row :
        /\ w.status = "validating" /\ w.tran = row[k].tran
        /\ row' = [row EXCEPT ![k] = w]
  <2>1. PICK required \in BOOLEAN :
          row' = [row EXCEPT ![k].status = "validating", ![k].process = required]
    BY DEF GetMaster
  <2> DEFINE w == [row[k] EXCEPT !.status = "validating", !.process = required]
  <2>2. row[k] \in Row /\ "validating" \in Status
    BY <1>1 DEF Status
  <2>3. w \in Row /\ w.status = "validating" /\ w.tran = row[k].tran
    BY <2>2 DEF Row
  <2>4. row' = [row EXCEPT ![k] = w]
    BY <1>1, <2>1
  <2> QED
    BY <2>3, <2>4
<1>3. "validate" \in Pc
  BY DEF Pc
<1>4. req' \in [Thread -> Req] /\ Mine(r) /\ req'[r].pc = "validate"
        /\ req'[r].row = req[r].row /\ req'[r].tran = req[r].tran
        /\ req'[r].polls = req[r].polls /\ req'[r].read = req[r].read
  BY <1>1, <1>3, GoesTo DEF GetMaster
<1>5. row' \in [RowId -> Row] /\ row'[k] = w /\ \A j \in RowId : j # k => row'[j] = row[j]
  BY <1>1, <1>2
<1>6. row[k].tran = NoTran /\ RowOK(k)
  BY <1>1 DEF ThreadOK, Inv, Rows
<1>7. TypeOK' /\ UNCHANGED <<dp, unheard>>
  BY <1>4, <1>5 DEF GetMaster, Inv, TypeOK, dp
<1>8. ThreadOK(req[r])'
  BY <1>1, <1>2, <1>4, <1>5 DEF ThreadOK, Sent
<1>9. Quiet(r)
  BY <1>1, <1>2, <1>4, <1>5, <1>6, <1>7 DEF Quiet
<1>10. \A j \in RowId : j = k => RowOK(j)'
  BY <1>2, <1>5, <1>6 DEF RowOK
<1> QED
  BY <1>1, <1>7, <1>8, <1>9, <1>10, QuietKeeps
-----------------------------------------------------------------------------
(* A POST begins with a row that nobody has. *)
LEMMA SubmitKeeps == ASSUME Inv, NEW r \in Thread, NEW k \in RowId, Submit(r, k) PROVE Inv'
<1> USE DEF Posting, Unsent, Attempting, Polled
<1>1. /\ req \in [Thread -> Req] /\ row \in [RowId -> Row] /\ req[r].pc = "idle"
      /\ row[k].status = "none" /\ row[k].tran = NoTran /\ UNCHANGED <<dp, unheard, faults>>
  BY DEF Inv, TypeOK, Rows, RowOK, Submit, At
<1> DEFINE q == [Idle EXCEPT !.pc = "locate", !.row = k]
           w == [row[k] EXCEPT !.status = "pending"]
<1>2. /\ q \in Req /\ q.pc = "locate" /\ q.row = k /\ q.polls = 0
      /\ req' \in [Thread -> Req] /\ Mine(r) /\ req'[r] = q
  BY <1>1, IdleTyped DEF Idle, Mine, Submit
<1>3. w \in Row /\ w.status = "pending" /\ w.tran = NoTran
  <2>1. row[k] \in Row /\ "pending" \in Status
    BY <1>1 DEF Status
  <2> QED
    BY <1>1, <2>1 DEF Row
<1>4. /\ row' \in [RowId -> Row] /\ row'[k] = w
      /\ \A j \in RowId : j # k => row'[j] = row[j]
  BY <1>1, <1>3 DEF Submit
<1> HIDE DEF q, w
<1>5. TypeOK'
  BY <1>1, <1>2, <1>4 DEF Inv, TypeOK, dp
<1>6. Grows
  BY <1>1, <1>3, <1>4 DEF Grows, dp
<1>7. ASSUME NEW s \in Thread, req[s].pc \in Posting PROVE req[s].row \in RowId \ {k}
  BY <1>1, <1>7 DEF Inv, Threads, ThreadOK
<1>8. ASSUME NEW s \in Thread PROVE ThreadOK(req[s])'
  <2>1. CASE s = r
    BY <1>1, <1>2, <1>3, <1>4, <2>1, ConstantsAssumption DEF ThreadOK, Sent
  <2>2. CASE s # r
    <3>1. req'[s] = req[s] /\ ThreadOK(req[s]) /\ TypeOK /\ processed' = processed
      BY <1>1, <1>2, <2>2 DEF Mine, Inv, Threads, dp
    <3>2. req[s].pc \in Posting => row'[req[s].row].tran = row[req[s].row].tran
      BY <1>4, <1>7
    <3> QED
      BY <1>6, <3>1, <3>2, OthersKept
  <2> QED
    BY <2>1, <2>2
<1>9. Sole'
  BY <1>2, <1>7 DEF Inv, Sole, Mine
<1>10. ASSUME NEW j \in RowId PROVE RowOK(j)'
  BY <1>1, <1>3, <1>4 DEF Inv, Rows, RowOK, dp
<1>11. ProcessedOK'
  <2>1. k \in RowId /\ row[k].tran \notin Tran
    BY <1>1, ConstantsAssumption
  <2>2. ASSUME NEW t \in Tran, processed'[t] # 0
        PROVE  /\ processed'[t] = 1 /\ owner'[t] \in RowId /\ code'[t] = "success"
               /\ row'[owner'[t]].process /\ row'[owner'[t]].tran = t
    <3>1. /\ processed[t] = 1 /\ owner[t] \in RowId /\ code[t] = "success"
          /\ row[owner[t]].process /\ row[owner[t]].tran = t
      BY <1>1, <2>2 DEF Inv, ProcessedOK, dp
    <3> QED
      BY <1>1, <1>4, <2>1, <3>1 DEF dp
  <2> QED
    BY <2>2 DEF ProcessedOK
<1>12. Counted'
  <2>1. \A j \in RowId : Registering(j) <=> Registering(j)'
    BY <1>1, <1>2 DEF Registering, Mine
  <2>2. \A j \in RowId : row'[j].tran = row[j].tran
    BY <1>1, <1>3, <1>4
  <2> QED
    BY <1>1, <2>1, <2>2 DEF Inv, Counted, dp
<1> QED
  BY <1>5, <1>8, <1>9, <1>10, <1>11, <1>12 DEF Inv, Threads, Rows

(* DP takes the file: a new Tran_Id, and one registration more. *)
LEMMA Registered ==
  ASSUME TypeOK, NEW k \in RowId, NEW t \in Tran, DpRegisters(k, t)
  PROVE  /\ owner' \in [Tran -> RowId \cup {NoRow}] /\ registrations' \in [RowId -> Nat]
         /\ owner'[t] = k /\ \A u \in Tran : u # t => owner'[u] = owner[u]
         /\ registrations'[k] = registrations[k] + 1
         /\ \A j \in RowId : j # k => registrations'[j] = registrations[j]
         /\ registrations[k] \in Nat
         /\ UNCHANGED <<code, processed>>
  BY DEF TypeOK, DpRegisters

LEMMA RegisterKeeps == ASSUME Inv, NEW r \in Thread, Register(r) PROVE Inv'
<1> USE DEF Posting, Unsent, Attempting, Polled
<1> DEFINE k == req[r].row
<1>1. /\ req \in [Thread -> Req] /\ ThreadOK(req[r]) /\ req[r].pc = "finalize"
      /\ k \in RowId /\ k # NoRow /\ row[k].tran = NoTran /\ TypeOK
      /\ UNCHANGED <<row, unheard, faults>>
  BY ConstantsAssumption DEF Inv, TypeOK, Threads, ThreadOK, Register, At
<1>2. PICK t \in Tran : /\ DpRegisters(k, t)
                        /\ req' = [req EXCEPT ![r].pc = "registering", ![r].tran = t]
  BY DEF Register
<1> DEFINE q == [req[r] EXCEPT !.pc = "registering", !.tran = t]
<1>3. q \in Req /\ q.pc = "registering" /\ q.row = k /\ q.tran = t /\ q.polls = req[r].polls
  <2>1. req[r] \in Req /\ "registering" \in Pc
    BY <1>1 DEF Pc
  <2> QED
    BY <2>1, ReqFields DEF Req
<1>4. req' \in [Thread -> Req] /\ Mine(r) /\ req'[r] = q
  BY <1>1, <1>2, <1>3 DEF Mine
<1>5. /\ owner' \in [Tran -> RowId \cup {NoRow}] /\ registrations' \in [RowId -> Nat]
      /\ owner'[t] = k /\ \A u \in Tran : u # t => owner'[u] = owner[u]
      /\ registrations'[k] = registrations[k] + 1
      /\ \A j \in RowId : j # k => registrations'[j] = registrations[j]
      /\ registrations[k] \in Nat
      /\ UNCHANGED <<code, processed>> /\ owner[t] = NoRow
  BY <1>1, <1>2, Registered DEF DpRegisters
<1> HIDE DEF q
<1>6. TypeOK'
  BY <1>1, <1>4, <1>5 DEF TypeOK
<1>7. Grows
  BY <1>1, <1>5 DEF Grows
<1>8. ASSUME NEW s \in Thread PROVE ThreadOK(req[s])'
  <2>1. CASE s = r
    <3>1. processed[t] = 0
      BY <1>5, ConstantsAssumption DEF Inv, ProcessedOK
    <3> QED
      BY <1>1, <1>3, <1>4, <1>5, <2>1, <3>1 DEF ThreadOK, Sent
  <2>2. CASE s # r
    BY <1>1, <1>4, <1>5, <1>7, <2>2, OthersKept DEF Mine, Inv, Threads
  <2> QED
    BY <2>1, <2>2
<1>9. Sole'
  BY <1>1, <1>3, <1>4, SoleKept DEF Inv
<1>10. ASSUME NEW j \in RowId PROVE RowOK(j)'
  <2>1. RowOK(j) /\ row[j].tran \in Tran \cup {NoTran} /\ j # NoRow
    BY ConstantsAssumption, FieldTypes DEF Inv, TypeOK, Rows
  <2> QED
    BY <1>1, <1>5, <2>1 DEF RowOK
<1>11. ProcessedOK'
  BY <1>1, <1>5, ConstantsAssumption DEF Inv, ProcessedOK
<1>12. ASSUME NEW j \in RowId
       PROVE  /\ registrations'[j] <= 1 + unheard'[j]
              /\ row'[j].tran = NoTran /\ ~Registering(j)' => registrations'[j] <= unheard'[j]
  <2>1. unheard[j] \in Nat /\ registrations[j] \in Nat
    BY <1>1 DEF TypeOK
  <2>2. CASE j = k
    <3>1. ~Registering(k)
      <4> SUFFICES ASSUME NEW s \in Thread, req[s].pc = "registering", req[s].row = k
                   PROVE  FALSE
        BY DEF Registering
      <4>1. s # r
        BY <1>1
      <4> QED
        BY <1>1, <4>1 DEF Inv, Sole
    <3>2. Registering(j)'
      BY <1>3, <1>4, <2>2 DEF Registering
    <3> QED
      BY <1>1, <1>5, <2>1, <2>2, <3>1, <3>2 DEF Inv, Counted
  <2>3. CASE j # k
    <3>1. Registering(j) => Registering(j)'
      BY <1>1, <1>4 DEF Registering, Mine
    <3> QED
      BY <1>1, <1>5, <2>3, <3>1 DEF Inv, Counted
  <2> QED
    BY <2>2, <2>3
<1> QED
  BY <1>6, <1>8, <1>9, <1>10, <1>11, <1>12 DEF Inv, Threads, Rows, Counted

LEMMA RegisterLostKeeps == ASSUME Inv, NEW r \in Thread, RegisterLost(r) PROVE Inv'
<1> USE DEF Posting, Unsent, Attempting, Polled
<1> DEFINE k == req[r].row
<1>1. /\ req \in [Thread -> Req] /\ ThreadOK(req[r]) /\ req[r].pc = "finalize"
      /\ k \in RowId /\ k # NoRow /\ row[k].tran = NoTran /\ TypeOK
      /\ UNCHANGED row
  BY ConstantsAssumption DEF Inv, TypeOK, Threads, ThreadOK, RegisterLost, At
<1>2. PICK t \in Tran : DpRegisters(k, t)
  BY DEF RegisterLost
<1>3. /\ req' \in [Thread -> Req] /\ Mine(r) /\ req'[r].pc = "attempt_failed"
      /\ req'[r].row = k /\ req'[r].tran = req[r].tran
      /\ req'[r].polls = req[r].polls /\ req'[r].read = req[r].read
  <2>1. "attempt_failed" \in Pc
    BY DEF Pc
  <2> QED
    BY <1>1, <2>1, GoesTo DEF RegisterLost
<1>4. /\ unheard' \in [RowId -> Nat] /\ unheard'[k] = unheard[k] + 1
      /\ \A j \in RowId : j # k => unheard'[j] = unheard[j]
      /\ faults' \in 0..MaxFault
  BY <1>1, FaultCounted DEF RegisterLost, TypeOK
<1>5. /\ owner' \in [Tran -> RowId \cup {NoRow}] /\ registrations' \in [RowId -> Nat]
      /\ owner'[t] = k /\ \A u \in Tran : u # t => owner'[u] = owner[u]
      /\ registrations'[k] = registrations[k] + 1
      /\ \A j \in RowId : j # k => registrations'[j] = registrations[j]
      /\ registrations[k] \in Nat
      /\ UNCHANGED <<code, processed>> /\ owner[t] = NoRow
  BY <1>1, <1>2, Registered DEF DpRegisters
<1>6. TypeOK'
  BY <1>1, <1>3, <1>4, <1>5 DEF TypeOK
<1>7. Grows
  BY <1>1, <1>5 DEF Grows
<1>8. ASSUME NEW s \in Thread PROVE ThreadOK(req[s])'
  <2>1. CASE s = r
    BY <1>1, <1>3, <2>1 DEF ThreadOK, Sent
  <2>2. CASE s # r
    BY <1>1, <1>3, <1>5, <1>7, <2>2, OthersKept DEF Mine, Inv, Threads
  <2> QED
    BY <2>1, <2>2
<1>9. Sole'
  BY <1>1, <1>3, SoleKept DEF Inv
<1>10. ASSUME NEW j \in RowId PROVE RowOK(j)'
  <2>1. RowOK(j) /\ row[j].tran \in Tran \cup {NoTran} /\ j # NoRow
    BY ConstantsAssumption, FieldTypes DEF Inv, TypeOK, Rows
  <2> QED
    BY <1>1, <1>5, <2>1 DEF RowOK
<1>11. ProcessedOK'
  BY <1>1, <1>5, ConstantsAssumption DEF Inv, ProcessedOK
<1>12. ASSUME NEW j \in RowId
       PROVE  /\ registrations'[j] <= 1 + unheard'[j]
              /\ row'[j].tran = NoTran /\ ~Registering(j)' => registrations'[j] <= unheard'[j]
  <2>1. unheard[j] \in Nat /\ registrations[j] \in Nat
    BY <1>1 DEF TypeOK
  <2>2. Registering(j) <=> Registering(j)'
    BY <1>1, <1>3 DEF Registering, Mine
  <2> QED
    BY <1>1, <1>4, <1>5, <2>1, <2>2 DEF Inv, Counted
<1> QED
  BY <1>6, <1>8, <1>9, <1>10, <1>11, <1>12 DEF Inv, Threads, Rows, Counted

(* The Tran_Id comes into the row. *)
LEMMA RecordTranKeeps == ASSUME Inv, NEW r \in Thread, RecordTran(r) PROVE Inv'
<1> USE DEF Posting, Unsent, Attempting, Polled
<1> DEFINE k == req[r].row
           t == req[r].tran
           w == [row[k] EXCEPT !.status = "registered", !.tran = t]
<1>1. /\ req \in [Thread -> Req] /\ row \in [RowId -> Row] /\ ThreadOK(req[r])
      /\ req[r].pc = "registering" /\ k \in RowId /\ t \in Tran /\ t # NoTran
      /\ row[k].tran = NoTran /\ owner[t] = k /\ TypeOK
      /\ UNCHANGED <<dp, unheard, faults>>
  BY ConstantsAssumption DEF Inv, TypeOK, Threads, ThreadOK, RecordTran, At
<1>2. w \in Row /\ w.status = "registered" /\ w.tran = t
  <2>1. row[k] \in Row /\ "registered" \in Status
    BY <1>1 DEF Status
  <2> QED
    BY <1>1, <2>1 DEF Row
<1>3. row' = [row EXCEPT ![k] = w]
  BY <1>1 DEF RecordTran
<1>4. row' \in [RowId -> Row] /\ row'[k] = w /\ \A j \in RowId : j # k => row'[j] = row[j]
  BY <1>1, <1>2, <1>3
<1>5. /\ req' \in [Thread -> Req] /\ Mine(r) /\ req'[r].pc = "registered"
      /\ req'[r].row = k /\ req'[r].tran = t
      /\ req'[r].polls = req[r].polls /\ req'[r].read = req[r].read
  <2>1. "registered" \in Pc
    BY DEF Pc
  <2> QED
    BY <1>1, <2>1, GoesTo DEF RecordTran
<1> HIDE DEF w
<1>6. TypeOK'
  BY <1>1, <1>4, <1>5 DEF TypeOK, dp
<1>7. Grows
  BY <1>1, <1>2, <1>4 DEF Grows, dp
<1>8. ASSUME NEW s \in Thread PROVE ThreadOK(req[s])'
  <2>1. CASE s = r
    BY <1>1, <1>2, <1>4, <1>5, <2>1 DEF ThreadOK, Sent, dp
  <2>2. CASE s # r
    <3>1. req'[s] = req[s] /\ ThreadOK(req[s]) /\ processed' = processed
      BY <1>1, <1>5, <2>2 DEF Mine, Inv, Threads, dp
    <3>2. req[s].pc \in Posting => req[s].row \in RowId \ {k}
      BY <1>1, <2>2, <3>1 DEF Inv, Sole, ThreadOK
    <3> QED
      BY <1>1, <1>4, <1>7, <3>1, <3>2, OthersKept
  <2> QED
    BY <2>1, <2>2
<1>9. Sole'
  BY <1>1, <1>5, SoleKept DEF Inv
<1>10. ASSUME NEW j \in RowId PROVE RowOK(j)'
  BY <1>1, <1>2, <1>4 DEF Inv, Rows, RowOK, dp
<1>11. ProcessedOK'
  <2>1. ASSUME NEW u \in Tran, processed'[u] # 0
        PROVE  /\ processed'[u] = 1 /\ owner'[u] \in RowId /\ code'[u] = "success"
               /\ row'[owner'[u]].process /\ row'[owner'[u]].tran = u
    <3>1. /\ processed[u] = 1 /\ owner[u] \in RowId /\ code[u] = "success"
          /\ row[owner[u]].process /\ row[owner[u]].tran = u /\ u # NoTran
      BY <1>1, <2>1, ConstantsAssumption DEF Inv, ProcessedOK, dp
    <3> QED
      BY <1>1, <1>4, <3>1 DEF dp
  <2> QED
    BY <2>1 DEF ProcessedOK
<1>12. ASSUME NEW j \in RowId
       PROVE  /\ registrations'[j] <= 1 + unheard'[j]
              /\ row'[j].tran = NoTran /\ ~Registering(j)' => registrations'[j] <= unheard'[j]
  <2>1. CASE j = k
    BY <1>1, <1>2, <1>4, <2>1 DEF Inv, Counted, dp
  <2>2. CASE j # k
    <3>1. Registering(j) => Registering(j)'
      BY <1>5, <2>2 DEF Registering, Mine
    <3> QED
      BY <1>1, <1>4, <2>2, <3>1 DEF Inv, Counted, dp
  <2> QED
    BY <2>1, <2>2
<1> QED
  BY <1>6, <1>8, <1>9, <1>10, <1>11, <1>12 DEF Inv, Threads, Rows, Counted

(* Step 7. *)
LEMMA RunProcessKeeps == ASSUME Inv, NEW r \in Thread, RunProcess(r) PROVE Inv'
<1> USE DEF Posting, Unsent, Attempting, Polled
<1> DEFINE k == req[r].row
           t == req[r].tran
<1>1. /\ req \in [Thread -> Req] /\ ThreadOK(req[r]) /\ req[r].pc = "process"
      /\ k \in RowId /\ t \in Tran /\ t # NoTran
      /\ row[k].tran = t /\ row[k].process /\ owner[t] = k /\ code[t] = "success"
      /\ processed[t] = 0 /\ TypeOK
      /\ UNCHANGED <<row, owner, registrations, code, unheard>>
  BY ConstantsAssumption DEF Inv, TypeOK, Threads, ThreadOK, RunProcess, At, Sent
<1>2. /\ processed' \in [Tran -> Nat] /\ processed'[t] = 1
      /\ \A u \in Tran : u # t => processed'[u] = processed[u]
  BY <1>1 DEF RunProcess, TypeOK
<1>3. /\ req' \in [Thread -> Req] /\ Mine(r) /\ faults' \in 0..MaxFault
      /\ req'[r].pc \in {"record_processed", "idle"}
      /\ req'[r].pc = "record_processed" => ThreadOK(req[r])' /\ req'[r].row = k
      /\ req'[r].pc = "idle" => ThreadOK(req[r])'
  <2>1. CASE Goes(r, "record_processed") /\ UNCHANGED faults
    <3>1. "record_processed" \in Pc
      BY DEF Pc
    <3>2. /\ req' \in [Thread -> Req] /\ Mine(r) /\ req'[r].pc = "record_processed"
          /\ req'[r].row = k /\ req'[r].tran = t
          /\ req'[r].polls = req[r].polls /\ req'[r].read = req[r].read
      BY <1>1, <2>1, <3>1, GoesTo
    <3>3. ThreadOK(req[r])'
      BY <1>1, <1>2, <3>2 DEF ThreadOK, Sent
    <3> QED
      BY <1>1, <2>1, <3>2, <3>3 DEF TypeOK
  <2>2. CASE Faulty /\ Answers(r)
    BY <1>1, <2>2, AnswersTo, FaultCounted, IdleOK
  <2> QED
    BY <2>1, <2>2 DEF RunProcess
<1>4. TypeOK'
  BY <1>1, <1>2, <1>3 DEF TypeOK
<1>5. Grows
  BY <1>1 DEF Grows
<1>6. ASSUME NEW s \in Thread PROVE ThreadOK(req[s])'
  <2>1. CASE s = r
    BY <1>3, <2>1
  <2>2. CASE s # r
    <3>1. req'[s] = req[s] /\ ThreadOK(req[s])
      BY <1>3, <2>2 DEF Mine, Inv, Threads
    <3>2. req[s].pc \in Posting => req[s].row # k
      BY <1>1, <2>2 DEF Inv, Sole
    <3> QED
      BY <1>1, <1>2, <1>5, <3>1, <3>2, OthersKept
  <2> QED
    BY <2>1, <2>2
<1>7. Sole'
  BY <1>1, <1>3, SoleKept DEF Inv
<1>8. ASSUME NEW j \in RowId PROVE RowOK(j)'
  <2>1. RowOK(j) /\ row[j].tran \in Tran \cup {NoTran}
    BY FieldTypes DEF Inv, TypeOK, Rows
  <2> QED
    BY <1>1, <1>2, <2>1, ConstantsAssumption DEF RowOK
<1>9. ProcessedOK'
  BY <1>1, <1>2 DEF Inv, ProcessedOK
<1>10. Counted'
  <2>1. \A j \in RowId : Registering(j) <=> Registering(j)'
    BY <1>1, <1>3 DEF Registering, Mine
  <2> QED
    BY <1>1, <2>1 DEF Inv, Counted
<1> QED
  BY <1>4, <1>6, <1>7, <1>8, <1>9, <1>10 DEF Inv, Threads, Rows
-----------------------------------------------------------------------------
(* DP and the process that dies. *)
LEMMA DpSettlesKeeps == ASSUME Inv, NEW t \in Tran, DpSettles(t) PROVE Inv'
<1>1. PICK outcome \in {"success", "error"} : code' = [code EXCEPT ![t] = outcome]
  BY DEF DpSettles
<1>2. /\ TypeOK /\ code[t] = "pending"
      /\ UNCHANGED <<row, owner, registrations, processed, req, unheard, faults>>
  BY DEF DpSettles, Inv
<1>3. code' \in [Tran -> Code] /\ \A u \in Tran : code[u] # "pending" => code'[u] = code[u]
  BY <1>1, <1>2 DEF TypeOK, Code
<1>4. TypeOK'
  BY <1>2, <1>3 DEF TypeOK
<1>5. Grows
  BY <1>2, <1>3 DEF Grows
<1>6. \A s \in Thread : ThreadOK(req[s])'
  BY <1>2, <1>5, OthersKept DEF Inv, Threads
<1>7. ASSUME NEW j \in RowId PROVE RowOK(j)'
  <2>1. RowOK(j) /\ row[j].tran \in Tran \cup {NoTran}
    BY FieldTypes DEF Inv, TypeOK, Rows
  <2> QED
    BY <1>2, <1>3, <2>1 DEF RowOK
<1>8. Sole' /\ ProcessedOK' /\ Counted'
  BY <1>2, <1>3 DEF Inv, Sole, ProcessedOK, Counted, Registering
<1> QED
  BY <1>4, <1>6, <1>7, <1>8 DEF Inv, Threads, Rows

LEMMA CrashKeeps == ASSUME Inv, Crash PROVE Inv'
<1>1. /\ req' \in [Thread -> Req] /\ \A s \in Thread : req'[s] = Idle
      /\ TypeOK /\ UNCHANGED <<row, dp>> /\ faults' \in 0..MaxFault
  BY IdleTyped, FaultCounted DEF Crash, Inv
<1>2. /\ unheard' \in [RowId -> Nat]
      /\ \A k \in RowId : unheard'[k] = IF Registering(k) THEN unheard[k] + 1 ELSE unheard[k]
  BY <1>1 DEF Crash, TypeOK, Registering, At
<1>3. TypeOK'
  BY <1>1, <1>2 DEF TypeOK, dp
<1>4. \A s \in Thread : ThreadOK(req[s])'
  BY <1>1, IdleOK
<1>5. Sole'
  BY <1>1 DEF Sole, Idle, Posting, Unsent, Attempting, Polled
<1>6. Rows' /\ ProcessedOK'
  BY <1>1 DEF Inv, Rows, RowOK, ProcessedOK, dp
<1>7. ASSUME NEW k \in RowId
      PROVE  registrations'[k] <= 1 + unheard'[k]
             /\ (row'[k].tran = NoTran => registrations'[k] <= unheard'[k])
  <2>1. unheard[k] \in Nat /\ registrations[k] \in Nat /\ registrations' = registrations /\ row' = row
    BY <1>1 DEF TypeOK, dp
  <2> QED
    BY <1>2, <2>1 DEF Inv, Counted
<1> QED
  BY <1>3, <1>4, <1>5, <1>6, <1>7 DEF Inv, Threads, Counted
-----------------------------------------------------------------------------
LEMMA InvInit == Init => Inv
<1> SUFFICES ASSUME Init PROVE Inv
  OBVIOUS
<1>1. TypeOK
  <2>1. [status |-> "none", tran |-> NoTran, process |-> FALSE] \in Row
    BY DEF Row
  <2>2. row \in [RowId -> Row] /\ req \in [Thread -> Req]
    BY <2>1, IdleTyped DEF Init
  <2>3. code \in [Tran -> Code] /\ faults \in 0..MaxFault
    BY ConstantsAssumption DEF Init, Code
  <2> QED
    BY <2>2, <2>3 DEF Init, TypeOK
<1>2. \A r \in Thread : req[r] = Idle
  BY DEF Init
<1>3. Threads /\ Sole
  BY <1>2, ConstantsAssumption
  DEF Threads, ThreadOK, Sole, Idle, Posting, Unsent, Attempting, Polled, Sent
<1>4. Rows /\ ProcessedOK /\ Counted
  BY DEF Init, Rows, RowOK, ProcessedOK, Counted
<1> QED
  BY <1>1, <1>3, <1>4 DEF Inv

LEMMA InvNext == Inv /\ [Next]_vars => Inv'
<1> SUFFICES ASSUME Inv, [Next]_vars PROVE Inv'
  OBVIOUS
<1>1. ASSUME NEW r \in Thread, NEW k \in RowId, Submit(r, k) \/ Get(r, k) PROVE Inv'
  BY <1>1, SubmitKeeps, GetKeeps
<1>2. ASSUME NEW r \in Thread, Work(r) PROVE Inv'
  <2>1. CASE \/ Locate(r) \/ GetMaster(r) \/ Validate(r) \/ UploadChunks(r)
    BY <2>1, LocateKeeps, GetMasterKeeps, ValidateKeeps, UploadChunksKeeps
  <2>2. CASE \/ Register(r) \/ RegisterLost(r) \/ RecordTran(r)
    BY <2>2, RegisterKeeps, RegisterLostKeeps, RecordTranKeeps
  <2>3. CASE \/ StepFails(r) \/ Retry(r) \/ GiveUp(r) \/ CallFails(r)
    BY <2>3, StepFailsKeeps, RetryKeeps, GiveUpKeeps, CallFailsKeeps
  <2>4. CASE \/ StartPolling(r) \/ Poll(r) \/ PollEmpty(r) \/ Verdict(r) \/ TimedOut(r)
    BY <2>4, StartPollingKeeps, PollKeeps, PollEmptyKeeps, VerdictKeeps, TimedOutKeeps
  <2>5. CASE \/ RunProcess(r) \/ RecordProcessed(r)
    BY <2>5, RunProcessKeeps, RecordProcessedKeeps
  <2>6. CASE \/ Check(r) \/ CheckEmpty(r) \/ ApplyCheck(r)
    BY <2>6, CheckKeeps, CheckEmptyKeeps, ApplyCheckKeeps
  <2> QED
    BY <1>2, <2>1, <2>2, <2>3, <2>4, <2>5, <2>6 DEF Work
<1>3. ASSUME NEW t \in Tran, DpSettles(t) PROVE Inv'
  BY <1>3, DpSettlesKeeps
<1>4. CASE Crash
  BY <1>4, CrashKeeps
<1>5. CASE UNCHANGED vars
  BY <1>5
  DEF vars, dp, Inv, TypeOK, Threads, ThreadOK, Sole, Rows, RowOK, ProcessedOK, Counted, Registering
<1> QED
  BY <1>1, <1>2, <1>3, <1>4, <1>5 DEF Next

LEMMA InvAlways == Spec => []Inv
<1> QED
  BY InvInit, InvNext, PTL DEF Spec

(* Rows, requests, Tran_Ids and counters keep their types; the polls of a   *)
(* request stay within poll_max_attempts and its attempts within the        *)
(* retries of dp_upload_client's settings.                                  *)
THEOREM TypeCorrect == Spec => []TypeOK
<1>1. Inv => TypeOK
  BY DEF Inv
<1> QED
  BY <1>1, InvAlways, PTL

(* DP has the file of a row at most once, and once more for every           *)
(* registration whose answer never came.                                    *)
THEOREM SubmittedOnce == Spec => []RegistrationsAccounted
<1>1. Inv => RegistrationsAccounted
  BY DEF Inv, Counted, RegistrationsAccounted
<1> QED
  BY <1>1, InvAlways, PTL

(* A final status of a row that has a Tran_Id is DP's own verdict on it,    *)
(* whatever POST and GETs crossed.                                          *)
THEOREM VerdictsTrue == Spec => []VerdictBacked
<1>1. Inv => VerdictBacked
  BY DEF Inv, Rows, RowOK, VerdictBacked
<1> QED
  BY <1>1, InvAlways, PTL

(* Step 7 runs at most once for a Tran_Id, after DP's success, where the    *)
(* master record requires it, and a row says processed only if it ran.      *)
THEOREM ProcessOnce == Spec => []ProcessFiredRight
<1>1. Inv => ProcessFiredRight
  <2> SUFFICES ASSUME Inv PROVE ProcessFiredRight
    OBVIOUS
  <2>1. \A t \in Tran : processed[t] > 0 => processed[t] # 0
    OBVIOUS
  <2> QED
    BY <2>1 DEF Inv, ProcessedOK, Rows, RowOK, ProcessFiredRight
<1> QED
  BY <1>1, InvAlways, PTL
-----------------------------------------------------------------------------
(* RowFate: every step is one of its steps, or none that it shows.          *)

(* No POST begins or ends. *)
LEMMA PostedSame ==
  ASSUME NEW r \in Thread, Mine(r),
         req[r].pc \in Posting <=> req'[r].pc \in Posting,
         req[r].pc \in Posting => req'[r].row = req[r].row
  PROVE  UNCHANGED Posted
<1>1. ASSUME NEW k \in RowId
      PROVE  (\E s \in Thread : req[s].pc \in Posting /\ req[s].row = k)
               <=> \E s \in Thread : req'[s].pc \in Posting /\ req'[s].row = k
  BY DEF Mine
<1> QED
  BY <1>1 DEF Posted

(* A POST ends, and no other one works on its row. *)
LEMMA PostedLeaves ==
  ASSUME Inv, NEW r \in Thread, Mine(r), req[r].pc \in Posting, req'[r].pc \notin Posting
  PROVE  Posted' = Posted \ {req[r].row}
<1>1. \A s \in Thread : s # r /\ req[s].pc \in Posting => req[s].row # req[r].row
  BY DEF Inv, Sole
<1>2. ASSUME NEW k \in RowId
      PROVE  (\E s \in Thread : req'[s].pc \in Posting /\ req'[s].row = k)
               <=> k # req[r].row /\ \E s \in Thread : req[s].pc \in Posting /\ req[s].row = k
  BY <1>1 DEF Mine
<1> QED
  BY <1>2 DEF Posted

(* The row of a POST. *)
LEMMA PostedHere ==
  ASSUME Inv, NEW r \in Thread, req[r].pc \in Posting
  PROVE  req[r].row \in RowId /\ req[r].row \in Posted
<1>1. req[r].row \in RowId
  BY DEF Inv, Threads, ThreadOK, Posting, Unsent, Attempting, Polled
<1> QED
  BY <1>1 DEF Posted

(* What a row says, and the Tran_Id it keeps. *)
LEMMA RowShown ==
  ASSUME NEW k \in RowId
  PROVE  Told[k] = Reading(row[k].status) /\ Kept[k] = row[k].tran
  BY DEF Told, Kept

LEMMA RowsSame == ASSUME UNCHANGED row PROVE UNCHANGED <<Told, Kept>>
  BY DEF Told, Kept

(* A status is written. *)
LEMMA StatusShown ==
  ASSUME TypeOK, NEW r \in Thread, NEW status \in Status, req[r].row \in RowId,
         SetStatus(r, status)
  PROVE  Told' = [Told EXCEPT ![req[r].row] = Reading(status)] /\ UNCHANGED Kept
<1> DEFINE k == req[r].row
<1>1. /\ row' \in [RowId -> Row] /\ row'[k].status = status /\ row'[k].tran = row[k].tran
      /\ \A j \in RowId : j # k => row'[j] = row[j]
  BY StatusSet DEF TypeOK
<1>2. \A j \in RowId : Reading(row'[j].status) = IF j = k THEN Reading(status) ELSE Reading(row[j].status)
  BY <1>1
<1>3. \A j \in RowId : row'[j].tran = row[j].tran
  BY <1>1
<1> QED
  BY <1>2, <1>3 DEF Told, Kept

LEMMA Readings ==
  /\ Reading("failed") = "failed" /\ Reading("success") = "success"
  /\ Reading("processed") = "processed" /\ Reading("none") = "none"
  /\ \A s \in {"pending", "validating", "uploading", "uploaded", "registered", "polling",
               "in_progress"} : Reading(s) = "open"
  BY DEF Reading, Final

(* A step that goes on with its POST, or with a GET, without a word. *)
LEMMA MoveHidden ==
  ASSUME NEW r \in Thread, Mine(r), UNCHANGED <<row, dp>>,
         req[r].pc \in Posting <=> req'[r].pc \in Posting,
         req[r].pc \in Posting => req'[r].row = req[r].row
  PROVE  UNCHANGED Fate!vars
  BY PostedSame, RowsSame DEF Fate!vars, dp

(* A POST writes where it is. *)
LEMMA WriteReopens ==
  ASSUME Inv, NEW r \in Thread, NEW status \in Status, SetStatus(r, status),
         Reading(status) = "open", UNCHANGED dp, Mine(r), req[r].pc \in Posting,
         req'[r].pc \in Posting => req'[r].row = req[r].row
  PROVE  Fate!Next
<1> DEFINE k == req[r].row
<1>1. k \in RowId /\ k \in Posted
  BY PostedHere
<1>2. Told' = [Told EXCEPT ![k] = "open"] /\ UNCHANGED Kept
  BY <1>1, StatusShown DEF Inv
<1>3. UNCHANGED Posted \/ Posted' = Posted \ {k}
  BY PostedSame, PostedLeaves
<1>4. Fate!Reopen(k)
  BY <1>1, <1>2, <1>3 DEF Fate!Reopen, Fate!Says, Fate!MayLeave, Fate!Leaves, dp
<1> QED
  BY <1>1, <1>4 DEF Fate!Next

(* DP's verdict is written, by a POST that ends with it or by a GET. *)
LEMMA WriteTells ==
  ASSUME Inv, NEW r \in Thread, NEW status \in {"success", "failed"}, SetStatus(r, status),
         UNCHANGED dp, Mine(r), req'[r].pc \notin Posting,
         req[r].row \in RowId, row[req[r].row].tran # NoTran,
         code[row[req[r].row].tran] = IF status = "success" THEN "success" ELSE "error"
  PROVE  Fate!Next
<1> DEFINE k == req[r].row
<1>1. Told' = [Told EXCEPT ![k] = status] /\ UNCHANGED Kept
  BY StatusShown, Readings DEF Inv, Status, Final
<1>2. UNCHANGED Posted \/ Posted' = Posted \ {k}
  BY PostedSame, PostedLeaves
<1>3. Kept[k] # NoTran /\ code[Kept[k]] = IF status = "success" THEN "success" ELSE "error"
  BY RowShown
<1>4. Fate!Tell(k)
  BY <1>1, <1>2, <1>3 DEF Fate!Tell, Fate!Says, Fate!MayLeave, Fate!Leaves, dp
<1> QED
  BY <1>4 DEF Fate!Next

(* A POST ends before DP is known to have its file. *)
LEMMA WriteRefuses ==
  ASSUME Inv, NEW r \in Thread, SetStatus(r, "failed"), Answers(r), UNCHANGED dp,
         req[r].pc \in Unsent
  PROVE  Fate!Next
<1> DEFINE k == req[r].row
<1>1. Mine(r) /\ req'[r].pc \notin Posting /\ req[r].pc \in Posting
  BY AnswersTo DEF Inv, TypeOK, Posting, Unsent, Attempting, Polled
<1>2. k \in RowId /\ k \in Posted /\ row[k].tran = NoTran
  BY <1>1, PostedHere DEF Inv, Threads, ThreadOK
<1>3. Told' = [Told EXCEPT ![k] = "failed"] /\ UNCHANGED Kept
  BY <1>2, StatusShown, Readings DEF Inv, Status, Final
<1>4. Posted' = Posted \ {k} /\ Kept[k] = NoTran
  BY <1>1, <1>2, PostedLeaves, RowShown
<1>5. Fate!Refuse(k)
  BY <1>2, <1>3, <1>4 DEF Fate!Refuse, Fate!Says, Fate!Leaves, dp
<1> QED
  BY <1>2, <1>5 DEF Fate!Next

(* The steps before the retry loop and within it that write nothing but the *)
(* row, or nothing.                                                         *)
LEMMA OpeningShown ==
  ASSUME Inv, NEW r \in Thread,
         \/ Locate(r) \/ Validate(r) \/ UploadChunks(r) \/ StartPolling(r)
         \/ StepFails(r) \/ GiveUp(r) \/ TimedOut(r)
  PROVE  Fate!Next \/ UNCHANGED Fate!vars
<1> USE DEF Posting, Unsent, Attempting, Polled
<1>1. req \in [Thread -> Req]
  BY DEF Inv, TypeOK
<1>2. CASE Locate(r)
  <2>1. req[r].pc = "locate" /\ UNCHANGED dp
    BY <1>2 DEF Locate, At
  <2>2. CASE Goes(r, "master") /\ UNCHANGED row
    <3>1. Mine(r) /\ req'[r].pc = "master" /\ req'[r].row = req[r].row
      BY <1>1, <2>2, GoesTo DEF Pc
    <3> QED
      BY <2>1, <2>2, <3>1, MoveHidden
  <2>3. CASE SetStatus(r, "failed") /\ Answers(r)
    BY <2>1, <2>3, WriteRefuses
  <2> QED
    BY <1>2, <2>2, <2>3 DEF Locate
<1>3. CASE GiveUp(r)
  BY <1>3, WriteRefuses DEF GiveUp, At
<1>4. CASE StepFails(r)
  <2>1. Mine(r) /\ req'[r].pc = "attempt_failed" /\ req'[r].row = req[r].row
    BY <1>1, <1>4, GoesTo DEF StepFails, Pc
  <2> QED
    BY <1>4, <2>1, MoveHidden DEF StepFails
<1>5. CASE Validate(r)
  <2>1. Mine(r) /\ req'[r].pc = "chunks" /\ req'[r].row = req[r].row
    BY <1>1, <1>5, GoesTo DEF Validate, Pc
  <2> QED
    BY <1>5, <2>1, WriteReopens, Readings DEF Validate, At, Status
<1>6. CASE UploadChunks(r)
  <2>1. Mine(r) /\ req'[r].pc = "finalize" /\ req'[r].row = req[r].row
    BY <1>1, <1>6, GoesTo DEF UploadChunks, Pc
  <2> QED
    BY <1>6, <2>1, WriteReopens, Readings DEF UploadChunks, At, Status
<1>7. CASE StartPolling(r)
  <2>1. Mine(r) /\ req'[r].pc = "poll" /\ req'[r].row = req[r].row
    BY <1>1, <1>7, GoesTo DEF StartPolling, Pc
  <2> QED
    BY <1>7, <2>1, WriteReopens, Readings DEF StartPolling, At, Status
<1>8. CASE TimedOut(r)
  <2>1. Mine(r) /\ req'[r].pc = "idle"
    BY <1>1, <1>8, AnswersTo DEF TimedOut
  <2> QED
    BY <1>8, <2>1, WriteReopens, Readings DEF TimedOut, At, Status, Final
<1> QED
  BY <1>2, <1>3, <1>4, <1>5, <1>6, <1>7, <1>8

(* The steps that only read, count or begin again. *)
LEMMA ReadingHidden ==
  ASSUME Inv, NEW r \in Thread,
         \/ Retry(r) \/ Poll(r) \/ PollEmpty(r) \/ Check(r) \/ CheckEmpty(r)
         \/ \E k \in RowId : Get(r, k)
  PROVE  UNCHANGED Fate!vars
<1> USE DEF Posting, Unsent, Attempting, Polled
<1>1. req \in [Thread -> Req] /\ req[r] \in Req
  BY DEF Inv, TypeOK
<1>2. UNCHANGED <<row, dp>>
  BY DEF Retry, Poll, PollEmpty, Check, CheckEmpty, Get
<1>3. PICK q : req' = [req EXCEPT ![r] = q] /\
        \/ req[r].pc \in Posting /\ q.pc \in Posting /\ q.row = req[r].row
        \/ req[r].pc \notin Posting /\ q.pc \notin Posting
  <2>1. CASE Retry(r)
    <3>1. req' = [req EXCEPT ![r] = [req[r] EXCEPT !.pc = "validate", !.attempt = req[r].attempt + 1]]
            \/ req' = [req EXCEPT ![r] = [req[r] EXCEPT !.pc = "give_up"]]
      BY <2>1 DEF Retry, Goes
    <3>2. \A n : LET q == [req[r] EXCEPT !.pc = "validate", !.attempt = n]
                 IN  q.pc = "validate" /\ q.row = req[r].row
      BY <1>1 DEF Req
    <3>3. LET q == [req[r] EXCEPT !.pc = "give_up"] IN q.pc = "give_up" /\ q.row = req[r].row
      BY <1>1 DEF Req
    <3> QED
      BY <2>1, <3>1, <3>2, <3>3 DEF Retry, At
  <2>2. CASE Poll(r)
    <3> DEFINE next == IF code[req[r].tran] # "pending" THEN "verdict"
                       ELSE IF req[r].polls + 1 = MaxPolls THEN "timed_out" ELSE req[r].pc
               q == [req[r] EXCEPT !.polls = req[r].polls + 1, !.read = code[req[r].tran], !.pc = next]
    <3>1. req' = [req EXCEPT ![r] = q]
      BY <2>2 DEF Poll
    <3>2. req[r].pc = "poll" /\ next \in {"poll", "verdict", "timed_out"}
      BY <2>2 DEF Poll, At
    <3>3. q.pc = next /\ q.row = req[r].row
      BY <1>1 DEF Req
    <3> HIDE DEF q, next
    <3> QED
      BY <3>1, <3>2, <3>3
  <2>3. CASE PollEmpty(r)
    <3> DEFINE q == [req[r] EXCEPT !.polls = req[r].polls + 1, !.pc = "timed_out"]
    <3>1. req' = [req EXCEPT ![r] = q] /\ q.pc = "timed_out" /\ q.row = req[r].row
      BY <1>1, <2>3 DEF PollEmpty, Req
    <3> QED
      BY <2>3, <3>1 DEF PollEmpty, At
  <2>4. CASE Check(r)
    <3> DEFINE q == [req[r] EXCEPT !.pc = "checked", !.read = code[req[r].tran]]
    <3>1. req' = [req EXCEPT ![r] = q] /\ q.pc = "checked"
      BY <1>1, <2>4 DEF Check, Req
    <3> QED
      BY <2>4, <3>1 DEF Check, At
  <2>5. CASE CheckEmpty(r)
    <3> DEFINE q == [req[r] EXCEPT !.pc = "checked", !.read = "pending"]
    <3>1. req' = [req EXCEPT ![r] = q] /\ q.pc = "checked"
      BY <1>1, <2>5 DEF CheckEmpty, Req
    <3> QED
      BY <2>5, <3>1 DEF CheckEmpty, At
  <2>6. ASSUME NEW k \in RowId, Get(r, k)
        PROVE  \E q : req' = [req EXCEPT ![r] = q] /\ req[r].pc \notin Posting /\ q.pc \notin Posting
    <3> DEFINE q == [Idle EXCEPT !.pc = "check", !.row = k,
                                 !.tran = row[k].tran, !.loaded = row[k].status]
    <3>1. req' = [req EXCEPT ![r] = q] /\ q.pc = "check"
      BY <2>6 DEF Get, Idle
    <3> QED
      BY <2>6, <3>1 DEF Get, At
  <2> QED
    BY <2>1, <2>2, <2>3, <2>4, <2>5, <2>6
<1>4. Mine(r) /\ req'[r] = q
  BY <1>1, <1>3 DEF Mine
<1> QED
  BY <1>2, <1>3, <1>4, MoveHidden

(* A call outside the retry loop fails: the POST is over. *)
LEMMA CallFailsShown ==
  ASSUME Inv, NEW r \in Thread, CallFails(r) PROVE Fate!Next \/ UNCHANGED Fate!vars
<1>1. Mine(r) /\ req'[r].pc = "idle" /\ UNCHANGED <<row, dp>>
  BY AnswersTo DEF CallFails, Inv, TypeOK
<1>2. req'[r].pc \notin Posting
  BY <1>1 DEF Posting, Unsent, Attempting, Polled
<1>3. CASE req[r].pc \in Posting
  <2>1. req[r].row \in RowId
    BY <1>3, PostedHere
  <2>2. Fate!Drop(req[r].row)
    BY <1>1, <1>2, <1>3, PostedLeaves, RowsSame DEF Fate!Drop, Fate!Leaves, dp
  <2> QED
    BY <2>1, <2>2 DEF Fate!Next
<1>4. CASE req[r].pc \notin Posting
  BY <1>1, <1>2, <1>4, MoveHidden
<1> QED
  BY <1>3, <1>4

(* What DP said comes into the row. *)
LEMMA VerdictShown ==
  ASSUME Inv, NEW r \in Thread, Verdict(r) PROVE Fate!Next \/ UNCHANGED Fate!vars
<1> USE DEF Posting, Unsent, Attempting, Polled
<1>1. req \in [Thread -> Req] /\ ThreadOK(req[r]) /\ req[r].pc = "verdict" /\ UNCHANGED dp
  BY DEF Inv, TypeOK, Threads, Verdict, At
<1>2. /\ req[r].row \in RowId /\ row[req[r].row].tran # NoTran
      /\ code[row[req[r].row].tran] = req[r].read
  BY <1>1, ConstantsAssumption DEF ThreadOK, Sent
<1>3. CASE Goes(r, "process") /\ UNCHANGED row
  <2>1. Mine(r) /\ req'[r].pc = "process" /\ req'[r].row = req[r].row
    BY <1>1, <1>3, GoesTo DEF Pc
  <2> QED
    BY <1>1, <1>3, <2>1, MoveHidden
<1>4. CASE \/ req[r].read = "success" /\ SetStatus(r, "success") /\ Answers(r)
           \/ req[r].read = "error" /\ SetStatus(r, "failed") /\ Answers(r)
  <2>1. Mine(r) /\ req'[r].pc = "idle"
    BY <1>1, <1>4, AnswersTo
  <2> QED
    BY <1>1, <1>2, <1>4, <2>1, WriteTells
<1> QED
  BY <1>3, <1>4 DEF Verdict

LEMMA ApplyCheckShown ==
  ASSUME Inv, NEW r \in Thread, ApplyCheck(r) PROVE Fate!Next \/ UNCHANGED Fate!vars
<1>1. /\ req \in [Thread -> Req] /\ ThreadOK(req[r]) /\ req[r].pc = "checked" /\ UNCHANGED dp
      /\ req[r].read \in Code /\ Answers(r)
  BY FieldTypes DEF Inv, TypeOK, Threads, ApplyCheck, At
<1>2. /\ req[r].row \in RowId /\ row[req[r].row].tran # NoTran
      /\ req[r].read # "pending" => code[row[req[r].row].tran] = req[r].read
  BY <1>1, ConstantsAssumption DEF ThreadOK, Sent
<1>3. Mine(r) /\ req'[r].pc = "idle"
  BY <1>1, AnswersTo
<1>4. req'[r].pc \notin Posting /\ req[r].pc \notin Posting
  BY <1>1, <1>3 DEF Posting, Unsent, Attempting, Polled
<1>5. \/ UNCHANGED row
      \/ req[r].read = "success" /\ SetStatus(r, "success")
      \/ req[r].read = "error" /\ SetStatus(r, "failed")
  BY <1>1 DEF ApplyCheck, Code
<1>6. CASE UNCHANGED row
  BY <1>1, <1>3, <1>4, <1>6, MoveHidden
<1>7. CASE \/ req[r].read = "success" /\ SetStatus(r, "success")
           \/ req[r].read = "error" /\ SetStatus(r, "failed")
  BY <1>1, <1>2, <1>3, <1>4, <1>7, WriteTells
<1> QED
  BY <1>5, <1>6, <1>7

LEMMA RecordProcessedShown ==
  ASSUME Inv, NEW r \in Thread, RecordProcessed(r) PROVE Fate!Next
<1> USE DEF Posting, Unsent, Attempting, Polled
<1> DEFINE k == req[r].row
<1>1. req \in [Thread -> Req] /\ ThreadOK(req[r]) /\ req[r].pc = "record_processed" /\ UNCHANGED dp
  BY DEF Inv, TypeOK, Threads, RecordProcessed, At
<1>2. Mine(r) /\ req'[r].pc = "idle"
  BY <1>1, AnswersTo DEF RecordProcessed
<1>3. k \in RowId /\ k \in Posted /\ Posted' = Posted \ {k}
  BY <1>1, <1>2, PostedHere, PostedLeaves
<1>4. Told' = [Told EXCEPT ![k] = "processed"] /\ UNCHANGED Kept
  BY <1>3, StatusShown, Readings DEF RecordProcessed, Inv, Status, Final
<1>5. Kept[k] # NoTran /\ processed[Kept[k]] = 1
  BY <1>1, <1>3, RowShown, ConstantsAssumption DEF ThreadOK, Sent
<1>6. Fate!Report(k)
  BY <1>1, <1>3, <1>4, <1>5 DEF Fate!Report, Fate!Says, Fate!Leaves, dp
<1> QED
  BY <1>3, <1>6 DEF Fate!Next

(* Step 2, which writes two columns. *)
LEMMA GetMasterShown == ASSUME Inv, NEW r \in Thread, GetMaster(r) PROVE Fate!Next
<1> USE DEF Posting, Unsent, Attempting, Polled
<1> DEFINE k == req[r].row
<1>1. /\ req \in [Thread -> Req] /\ row \in [RowId -> Row] /\ req[r].pc = "master"
      /\ k \in RowId /\ k \in Posted /\ UNCHANGED dp
  BY PostedHere DEF Inv, TypeOK, GetMaster, At
<1>2. Mine(r) /\ req'[r].pc = "validate" /\ req'[r].row = k
  BY <1>1, GoesTo DEF GetMaster, Pc
<1>3. UNCHANGED Posted
  BY <1>1, <1>2, PostedSame
<1>4. PICK required \in BOOLEAN :
        row' = [row EXCEPT ![k].status = "validating", ![k].process = required]
  BY DEF GetMaster
<1> DEFINE w == [row[k] EXCEPT !.status = "validating", !.process = required]
<1>5. w.status = "validating" /\ w.tran = row[k].tran
  BY <1>1 DEF Row
<1>6. row' = [row EXCEPT ![k] = w]
  BY <1>1, <1>4
<1> HIDE DEF w
<1>7. \A j \in RowId : /\ Reading(row'[j].status) = IF j = k THEN "open" ELSE Reading(row[j].status)
                       /\ row'[j].tran = row[j].tran
  BY <1>1, <1>5, <1>6, Readings
<1>8. Told' = [Told EXCEPT ![k] = "open"] /\ UNCHANGED Kept
  BY <1>7 DEF Told, Kept
<1>9. Fate!Reopen(k)
  BY <1>1, <1>3, <1>8 DEF Fate!Reopen, Fate!Says, Fate!MayLeave, dp
<1> QED
  BY <1>1, <1>9 DEF Fate!Next

(* DP takes the file, and the answer comes back or not. *)
LEMMA RegisterShown ==
  ASSUME Inv, NEW r \in Thread, Register(r) \/ RegisterLost(r) PROVE Fate!Next
<1> USE DEF Posting, Unsent, Attempting, Polled
<1> DEFINE k == req[r].row
<1>1. /\ req \in [Thread -> Req] /\ req[r] \in Req /\ req[r].pc = "finalize"
      /\ row[k].tran = NoTran /\ UNCHANGED row
  BY DEF Inv, TypeOK, Threads, ThreadOK, Register, RegisterLost, At
<1>2. k \in RowId /\ k \in Posted
  BY <1>1, PostedHere
<1>3. PICK t \in Tran : DpRegisters(k, t) /\
        (\/ req' = [req EXCEPT ![r] = [req[r] EXCEPT !.pc = "registering", !.tran = t]]
         \/ Goes(r, "attempt_failed"))
  BY DEF Register, RegisterLost
<1>4. Mine(r) /\ req'[r].pc \in Posting /\ req'[r].row = k
  <2>1. CASE req' = [req EXCEPT ![r] = [req[r] EXCEPT !.pc = "registering", !.tran = t]]
    <3> DEFINE q == [req[r] EXCEPT !.pc = "registering", !.tran = t]
    <3>1. q.pc = "registering" /\ q.row = k
      BY <1>1 DEF Req
    <3>2. Mine(r) /\ req'[r] = q
      BY <1>1, <2>1 DEF Mine
    <3> QED
      BY <3>1, <3>2
  <2>2. CASE Goes(r, "attempt_failed")
    BY <1>1, <2>2, GoesTo DEF Pc
  <2> QED
    BY <1>3, <2>1, <2>2
<1>5. UNCHANGED <<Posted, Told, Kept>> /\ Kept[k] = NoTran
  BY <1>1, <1>2, <1>4, PostedSame, RowsSame, RowShown
<1>6. Fate!Register(k, t)
  BY <1>2, <1>3, <1>5 DEF Fate!Register, DpRegisters
<1> QED
  BY <1>2, <1>6 DEF Fate!Next

(* The Tran_Id is kept. *)
LEMMA RecordTranShown == ASSUME Inv, NEW r \in Thread, RecordTran(r) PROVE Fate!Next
<1> USE DEF Posting, Unsent, Attempting, Polled
<1> DEFINE k == req[r].row
           t == req[r].tran
           w == [row[k] EXCEPT !.status = "registered", !.tran = t]
<1>1. /\ req \in [Thread -> Req] /\ row \in [RowId -> Row] /\ req[r].pc = "registering"
      /\ row[k].tran = NoTran /\ t \in Tran /\ owner[t] = k /\ UNCHANGED dp
  BY DEF Inv, TypeOK, Threads, ThreadOK, RecordTran, At
<1>2. k \in RowId /\ k \in Posted
  BY <1>1, PostedHere
<1>3. Mine(r) /\ req'[r].pc = "registered" /\ req'[r].row = k
  BY <1>1, GoesTo DEF RecordTran, Pc
<1>4. UNCHANGED Posted
  BY <1>1, <1>3, PostedSame
<1>5. w.status = "registered" /\ w.tran = t
  BY <1>1, <1>2 DEF Row
<1>6. row' = [row EXCEPT ![k] = w]
  BY <1>1, <1>2 DEF RecordTran
<1> HIDE DEF w
<1>7. \A j \in RowId : /\ Reading(row'[j].status) = IF j = k THEN "open" ELSE Reading(row[j].status)
                       /\ row'[j].tran = IF j = k THEN t ELSE row[j].tran
  BY <1>1, <1>5, <1>6, Readings
<1>8. Told' = [Told EXCEPT ![k] = "open"] /\ Kept' = [Kept EXCEPT ![k] = t] /\ Kept[k] = NoTran
  BY <1>1, <1>2, <1>7, RowShown DEF Told, Kept
<1>9. Fate!Keep(k, t)
  BY <1>1, <1>2, <1>4, <1>8 DEF Fate!Keep, Fate!Says, dp
<1> QED
  BY <1>1, <1>2, <1>9 DEF Fate!Next

(* Step 7, answered or not. *)
LEMMA RunProcessShown == ASSUME Inv, NEW r \in Thread, RunProcess(r) PROVE Fate!Next
<1> USE DEF Posting, Unsent, Attempting, Polled
<1> DEFINE k == req[r].row
           t == req[r].tran
<1>1. /\ req \in [Thread -> Req] /\ req[r].pc = "process" /\ row[k].tran = t
      /\ t \in Tran /\ t # NoTran /\ code[t] = "success" /\ processed \in [Tran -> Nat]
      /\ processed[t] = 0 /\ UNCHANGED <<row, owner, code>>
  BY ConstantsAssumption DEF Inv, TypeOK, Threads, ThreadOK, RunProcess, At, Sent
<1>2. k \in RowId /\ k \in Posted
  BY <1>1, PostedHere
<1>3. /\ Mine(r)
      /\ (req'[r].pc = "record_processed" /\ req'[r].row = k) \/ req'[r].pc = "idle"
  <2>1. CASE Goes(r, "record_processed")
    BY <1>1, <2>1, GoesTo DEF Pc
  <2>2. CASE Answers(r)
    BY <1>1, <2>2, AnswersTo
  <2> QED
    BY <2>1, <2>2 DEF RunProcess
<1>4. UNCHANGED Posted \/ Posted' = Posted \ {k}
  BY <1>1, <1>3, PostedSame, PostedLeaves
<1>5. UNCHANGED <<Told, Kept>> /\ Kept[k] = t
  BY <1>1, <1>2, RowsSame, RowShown
<1>6. processed' = [processed EXCEPT ![t] = 1]
  BY <1>1 DEF RunProcess
<1>7. Fate!Process(k)
  BY <1>1, <1>2, <1>4, <1>5, <1>6 DEF Fate!Process, Fate!MayLeave, Fate!Leaves
<1> QED
  BY <1>2, <1>7 DEF Fate!Next

(* A row begins with its POST. *)
LEMMA SubmitShown ==
  ASSUME Inv, NEW r \in Thread, NEW k \in RowId, Submit(r, k) PROVE Fate!Next
<1> USE DEF Posting, Unsent, Attempting, Polled
<1> DEFINE w == [row[k] EXCEPT !.status = "pending"]
           q == [Idle EXCEPT !.pc = "locate", !.row = k]
<1>1. /\ req \in [Thread -> Req] /\ row \in [RowId -> Row] /\ req[r].pc = "idle"
      /\ row[k].status = "none" /\ UNCHANGED dp
  BY DEF Inv, TypeOK, Submit, At
<1>2. Mine(r) /\ req'[r] = q /\ q.pc = "locate" /\ q.row = k
  BY <1>1 DEF Submit, Mine, Idle
<1>3. w.status = "pending" /\ w.tran = row[k].tran /\ row' = [row EXCEPT ![k] = w]
  BY <1>1 DEF Row, Submit
<1> HIDE DEF w, q
<1>4. \A j \in RowId : /\ Reading(row'[j].status) = IF j = k THEN "open" ELSE Reading(row[j].status)
                       /\ row'[j].tran = row[j].tran
  BY <1>1, <1>3, Readings
<1>5. Told' = [Told EXCEPT ![k] = "open"] /\ UNCHANGED Kept /\ Told[k] = "none"
  BY <1>1, <1>4, RowShown, Readings DEF Told, Kept
<1>6. ASSUME NEW j \in RowId
      PROVE  (\E s \in Thread : req'[s].pc \in Posting /\ req'[s].row = j)
               <=> j = k \/ \E s \in Thread : req[s].pc \in Posting /\ req[s].row = j
  BY <1>1, <1>2 DEF Mine
<1>7. Posted' = Posted \cup {k}
  BY <1>6 DEF Posted
<1>8. Fate!Open(k)
  BY <1>1, <1>5, <1>7 DEF Fate!Open, Fate!Says, dp
<1> QED
  BY <1>8 DEF Fate!Next

(* DP and the process that dies. *)
LEMMA DpSettlesShown == ASSUME NEW t \in Tran, DpSettles(t) PROVE Fate!Next
<1>1. UNCHANGED <<Posted, Told, Kept>>
  BY RowsSame DEF DpSettles, Posted
<1>2. Fate!Settle(t)
  BY <1>1 DEF DpSettles, Fate!Settle
<1> QED
  BY <1>2 DEF Fate!Next

LEMMA CrashShown == ASSUME Crash PROVE Fate!Next
<1>1. UNCHANGED <<row, dp>> /\ \A r \in Thread : req'[r].pc \notin Posting
  BY DEF Crash, Idle, Posting, Unsent, Attempting, Polled
<1>2. Posted' = {} /\ UNCHANGED <<Told, Kept>>
  BY <1>1, RowsSame DEF Posted
<1> QED
  BY <1>1, <1>2 DEF Fate!Next, Fate!DropAll, dp

LEMMA FateStep == Inv /\ [Next]_vars => [Fate!Next]_(Fate!vars)
<1> SUFFICES ASSUME Inv, [Next]_vars PROVE Fate!Next \/ UNCHANGED Fate!vars
  OBVIOUS
<1>1. ASSUME NEW r \in Thread, NEW k \in RowId, Submit(r, k) \/ Get(r, k)
      PROVE  Fate!Next \/ UNCHANGED Fate!vars
  BY <1>1, SubmitShown, ReadingHidden
<1>2. ASSUME NEW r \in Thread, Work(r) PROVE Fate!Next \/ UNCHANGED Fate!vars
  BY <1>2, OpeningShown, ReadingHidden, CallFailsShown, VerdictShown, ApplyCheckShown,
     RecordProcessedShown, GetMasterShown, RegisterShown, RecordTranShown, RunProcessShown
  DEF Work
<1>3. CASE UNCHANGED vars
  <2>1. UNCHANGED <<Posted, Told, Kept>>
    BY <1>3, RowsSame DEF vars, Posted
  <2> QED
    BY <1>3, <2>1 DEF vars, dp, Fate!vars
<1> QED
  BY <1>1, <1>2, <1>3, DpSettlesShown, CrashShown DEF Next

LEMMA FateInit == Init => Fate!Init
<1> SUFFICES ASSUME Init PROVE Fate!Init
  OBVIOUS
<1>1. Posted = {}
  BY DEF Init, Posted, Idle, Posting, Unsent, Attempting, Polled
<1>2. \A k \in RowId : row[k].tran = NoTran /\ row[k].status = "none"
  BY DEF Init
<1>3. Told = [k \in RowId |-> "none"] /\ Kept = [k \in RowId |-> NoTran]
  BY <1>2, Readings DEF Told, Kept
<1> QED
  BY <1>1, <1>3 DEF Init, Fate!Init

(* The lane implements RowFate: process_upload gives the file of a row to   *)
(* DP only while no Tran_Id is kept, a Tran_Id once kept stays, a refused   *)
(* row stays refused, Step 7 follows a success and never comes twice, and   *)
(* once the POST is over check_status writes nothing but DP's verdict.      *)
THEOREM RowFateImplemented == Spec => ImplementsRowFate
<1> QED
  BY FateStep, FateInit, InvInit, InvNext, PTL DEF Spec, Fate!Spec, ImplementsRowFate
=============================================================================
