---------------------------- MODULE NsdlLaneProofs ----------------------------
(***************************************************************************)
(* Safety of the NSDL Speedy lane for any number of versions, request      *)
(* threads, TRANIDs, forces and faults: a success is NSDL's, and as long   *)
(* as no two POSTs overlapped every append is accounted for.               *)
(***************************************************************************)
EXTENDS NsdlLane, TLAPS

(* The POST is about to send the file. *)
Sending == {"begin", "validating", "uploading", "uploaded", "registering"}
(* A TRANID is in hand. *)
InHand == {"registering", "registered", "polling", "repoll"}

(* NSDL has loaded the rows of v. *)
Loaded(v) == \E t \in Tran : owner[t] = v /\ verdict[t] = "success"

(* What a request in hand of q may rely on. *)
ThreadOK(q) ==
  /\ q.pc \in Entry => q.file \in Version
  /\ q.pc \in InHand => q.tran \in Tran /\ owner[q.tran] = q.file
  /\ q.pc = "read" /\ q.read = "success" => Loaded(q.file)

Threads == \A r \in Request : ThreadOK(req[r])

(* A GET only polls, and only the row it names. *)
Polls(q) == q.pc \in {"idle", "repoll", "read"} /\ q.todo = <<>>
GettersOnlyPoll == \A r \in Getter : Polls(req[r])

RowOK(v) ==
  /\ row[v].tran # NoTran => owner[row[v].tran] = v
  /\ row[v].status = "success" => Loaded(v)

Rows == \A v \in Version : RowOK(v)

(* As long as no two POSTs overlapped: one is under way at most, *)
Alone ==
  \A r, s \in Poster : r # s /\ req[r].pc # "idle" => req[s].pc = "idle"

(* it sends a file only while its row has no TRANID, *)
Clean == \A r \in Poster : req[r].pc \in Sending => row[req[r].file].tran = NoTran

(* and an append is in the row, on its way into it, or excused. *)
Registering(v) == \E r \in Poster : req[r].pc = "registering" /\ req[r].file = v
Counted ==
  \A v \in Version :
    /\ appends[v] <= 1 + excused[v]
    /\ row[v].tran = NoTran /\ ~Registering(v) => appends[v] <= excused[v]

Solo == ~overlapped => Alone /\ Clean /\ Counted

Inv == TypeOK /\ Threads /\ GettersOnlyPoll /\ Rows /\ Solo
-----------------------------------------------------------------------------
(* A request with some of its fields replaced by others of their type. *)
Pc == {"idle"} \cup Loop \cup Entry
Loading == Status \cup {"none", "expired"}

LEMMA ReqFields ==
  ASSUME NEW q \in Req
  PROVE  /\ \A pc \in Pc : [q EXCEPT !.pc = pc] \in Req
         /\ \A pc \in Pc, v \in Version : [q EXCEPT !.pc = pc, !.file = v] \in Req
         /\ \A pc \in Pc, l \in Loading : [q EXCEPT !.pc = pc, !.loaded = l] \in Req
         /\ \A pc \in Pc, t \in Tran \cup {NoTran} : [q EXCEPT !.pc = pc, !.tran = t] \in Req
         /\ \A pc \in Pc, t \in Tran \cup {NoTran}, o \in Verdict :
              [q EXCEPT !.pc = pc, !.tran = t, !.read = o] \in Req
         /\ \A pc \in Pc, v \in Version, l \in Loading, t \in Tran \cup {NoTran} :
              [q EXCEPT !.pc = pc, !.file = v, !.loaded = l, !.tran = t] \in Req
         /\ \A pc \in Pc, f \in BOOLEAN, todo \in Seq(Version \cup {Latest}) :
              [q EXCEPT !.pc = pc, !.force = f, !.todo = todo] \in Req
<1> USE DEF Req, Pc, Loading
<1>1. \A pc \in Pc : [q EXCEPT !.pc = pc] \in Req
  OBVIOUS
<1>2. \A pc \in Pc, v \in Version : [q EXCEPT !.pc = pc, !.file = v] \in Req
  OBVIOUS
<1>3. \A pc \in Pc, l \in Loading : [q EXCEPT !.pc = pc, !.loaded = l] \in Req
  OBVIOUS
<1>4. \A pc \in Pc, t \in Tran \cup {NoTran} : [q EXCEPT !.pc = pc, !.tran = t] \in Req
  OBVIOUS
<1>5. \A pc \in Pc, t \in Tran \cup {NoTran}, o \in Verdict :
        [q EXCEPT !.pc = pc, !.tran = t, !.read = o] \in Req
  OBVIOUS
<1>6. \A pc \in Pc, v \in Version, l \in Loading, t \in Tran \cup {NoTran} :
        [q EXCEPT !.pc = pc, !.file = v, !.loaded = l, !.tran = t] \in Req
  OBVIOUS
<1>7. \A pc \in Pc, f \in BOOLEAN, todo \in Seq(Version \cup {Latest}) :
        [q EXCEPT !.pc = pc, !.force = f, !.todo = todo] \in Req
  OBVIOUS
<1> QED
  BY <1>1, <1>2, <1>3, <1>4, <1>5, <1>6, <1>7

(* The fields of a request and of a row have their types. *)
LEMMA FieldTypes ==
  /\ \A q \in Req : /\ q.pc \in Pc /\ q.force \in BOOLEAN /\ q.todo \in Seq(Version \cup {Latest})
                    /\ q.file \in Version \cup {NoVersion} /\ q.loaded \in Loading
                    /\ q.tran \in Tran \cup {NoTran} /\ q.read \in Verdict
  /\ \A w \in Row : w.status \in Status \cup {"none"} /\ w.tran \in Tran \cup {NoTran}
  BY DEF Req, Row, Pc, Loading

(* A thread without a request. *)
LEMMA IdleTyped == Idle \in Req /\ Idle.pc = "idle" /\ Idle.todo = <<>>
  BY DEF Idle, Req, Verdict

(* Only the request of r changes. *)
Mine(r) == \A s \in Request : s # r => req'[s] = req[s]

(* A step that only goes to another program counter. *)
LEMMA GoesTo ==
  ASSUME NEW r \in Request, NEW pc \in Pc, req \in [Request -> Req], Goes(r, pc)
  PROVE  /\ req' \in [Request -> Req] /\ Mine(r)
         /\ req'[r].pc = pc
         /\ req'[r].file = req[r].file /\ req'[r].tran = req[r].tran /\ req'[r].read = req[r].read
<1> DEFINE q == [req[r] EXCEPT !.pc = pc]
<1>1. q \in Req /\ req[r] \in Req
  BY ReqFields
<1>2. req' = [req EXCEPT ![r] = q]
  BY DEF Goes
<1>3. req' \in [Request -> Req] /\ Mine(r) /\ req'[r] = q
  BY <1>1, <1>2 DEF Mine
<1>4. q.pc = pc /\ q.file = req[r].file /\ q.tran = req[r].tran /\ q.read = req[r].read
  BY <1>1 DEF Req
<1> QED
  BY <1>3, <1>4

(* The next file of the call, or its answer. *)
LEMMA NextGoes ==
  ASSUME NEW r \in Request, req \in [Request -> Req], NextEntry(r)
  PROVE  /\ req' \in [Request -> Req] /\ Mine(r)
         /\ req'[r].pc \in {"idle", "locate"}
         /\ Len(req[r].todo) < 2 => req'[r] = Idle
<1> DEFINE rest == Tail(req[r].todo)
           q == [Idle EXCEPT !.pc = "locate", !.force = req[r].force, !.todo = rest]
<1>1. CASE Len(req[r].todo) < 2
  BY <1>1, IdleTyped DEF NextEntry, Mine
<1>2. CASE ~(Len(req[r].todo) < 2)
  <2>1. req[r].todo \in Seq(Version \cup {Latest}) /\ req[r].force \in BOOLEAN
    BY FieldTypes
  <2>2. rest \in Seq(Version \cup {Latest})
    BY <1>2, <2>1
  <2>3. "locate" \in Pc
    BY DEF Pc, Loop
  <2>4. q \in Req
    BY <2>1, <2>2, <2>3, IdleTyped, ReqFields
  <2>5. q.pc = "locate"
    BY DEF Idle
  <2>6. req' = [req EXCEPT ![r] = q]
    BY <1>2 DEF NextEntry
  <2> QED
    BY <1>2, <2>4, <2>5, <2>6 DEF Mine
<1> QED
  BY <1>1, <1>2

LEMMA RaisesTo ==
  ASSUME NEW r \in Request, req \in [Request -> Req], Raises(r)
  PROVE  req' \in [Request -> Req] /\ Mine(r) /\ req'[r] = Idle /\ req'[r].pc = "idle"
  BY IdleTyped DEF Raises, Mine

(* A TRANID in the row: the request takes it along. *)
LEMMA LoadsGoes ==
  ASSUME TypeOK, NEW r \in Request, NEW v \in Version, Loads(r, v)
  PROVE  /\ req' \in [Request -> Req] /\ Mine(r)
         /\ req'[r].pc = "repoll" /\ req'[r].file = v /\ req'[r].tran = row[v].tran
         /\ req'[r].todo = req[r].todo
<1> DEFINE q == [req[r] EXCEPT !.pc = "repoll", !.file = v,
                               !.loaded = row[v].status, !.tran = row[v].tran]
<1>1. req \in [Request -> Req] /\ req[r] \in Req /\ row[v] \in Row
  BY DEF TypeOK
<1>2. row[v].status \in Loading /\ row[v].tran \in Tran \cup {NoTran} /\ "repoll" \in Pc
  BY <1>1, FieldTypes DEF Loading, Pc, Entry
<1>3. q \in Req
  BY <1>1, <1>2, ReqFields
<1>4. q.pc = "repoll" /\ q.file = v /\ q.tran = row[v].tran /\ q.todo = req[r].todo
  BY <1>1 DEF Req
<1>5. req' = [req EXCEPT ![r] = q]
  BY DEF Loads
<1> QED
  BY <1>1, <1>3, <1>4, <1>5 DEF Mine

(* A status is written to the row in hand; nothing else changes. *)
LEMMA StatusSet ==
  ASSUME NEW r \in Request, NEW status \in Status, row \in [Version -> Row],
         req[r].file \in Version, SetStatus(r, status)
  PROVE  /\ row' \in [Version -> Row]
         /\ row'[req[r].file].status = status
         /\ \A v \in Version : row'[v].tran = row[v].tran
         /\ \A v \in Version : v # req[r].file => row'[v] = row[v]
<1> DEFINE f == req[r].file
           w == [row[f] EXCEPT !.status = status]
<1>1. row[f] \in Row
  OBVIOUS
<1>2. w \in Row /\ w.status = status /\ w.tran = row[f].tran
  BY <1>1 DEF Row
<1>3. row' = [row EXCEPT ![f] = w]
  BY DEF SetStatus
<1> QED
  BY <1>2, <1>3

(* A flush writes it or leaves the row alone. *)
LEMMA StatusFlushed ==
  ASSUME NEW r \in Request, NEW status, FlushStatus(r, status)
  PROVE  UNCHANGED row \/ SetStatus(r, status)
  BY DEF FlushStatus, SetStatus

(* A fault more is within the bound. *)
LEMMA FaultCounted == ASSUME TypeOK, Faulty PROVE faults' \in 0..MaxFault
  BY ConstantsAssumption DEF TypeOK, Faulty
-----------------------------------------------------------------------------
(* NSDL forgets neither what a TRANID stands for nor how it ended. *)
Grows ==
  /\ \A t \in Tran : owner[t] # NoVersion => owner'[t] = owner[t]
  /\ \A t \in Tran : verdict[t] # "in_progress" => verdict'[t] = verdict[t]

LEMMA LoadedStays == ASSUME Grows, NEW v \in Version, Loaded(v) PROVE Loaded(v)'
  BY ConstantsAssumption DEF Grows, Loaded

LEMMA OthersKept ==
  ASSUME NEW s \in Request, req'[s] = req[s], ThreadOK(req[s]), Grows
  PROVE  ThreadOK(req[s])'
<1>1. req[s].pc \in InHand \cup {"read"} => req[s].file \in Version /\ req[s].file # NoVersion
  BY ConstantsAssumption DEF ThreadOK, InHand, Entry
<1>2. req[s].pc \in InHand => req[s].tran \in Tran /\ owner'[req[s].tran] = req[s].file
  BY <1>1 DEF ThreadOK, Grows
<1>3. req[s].pc = "read" /\ req[s].read = "success" =>
        \E t \in Tran : owner'[t] = req[s].file /\ verdict'[t] = "success"
  BY <1>1 DEF ThreadOK, Loaded, Grows
<1> QED
  BY <1>2, <1>3 DEF ThreadOK, Loaded
(* A step of r alone that neither appends nor touches a TRANID of a row. *)
Quiet(r) ==
  /\ Mine(r)
  /\ UNCHANGED <<nsdl, excused, overlapped>>
  /\ \A v \in Version : row'[v].tran = row[v].tran
  /\ \A v \in Version : row'[v].status = "success" => row[v].status = "success" \/ Loaded(v)
  /\ req[r].pc # "registering" /\ req'[r].pc # "registering"
  /\ r \in Getter => Polls(req'[r])
  /\ r \in Poster /\ req'[r].pc # "idle" => req[r].pc # "idle"
  /\ ~overlapped /\ r \in Poster /\ req'[r].pc \in Sending => row[req'[r].file].tran = NoTran

LEMMA QuietKeeps ==
  ASSUME Inv, NEW r \in Request, Quiet(r), TypeOK', ThreadOK(req[r])'
  PROVE  Inv'
<1> USE DEF Inv
<1>1. Grows
  BY DEF Quiet, Grows, nsdl
<1>2. Threads'
  <2>1. ASSUME NEW s \in Request PROVE ThreadOK(req[s])'
    <3>1. CASE s = r
      BY <3>1
    <3>2. CASE s # r
      BY <1>1, <3>2, OthersKept DEF Quiet, Mine, Threads
    <3> QED
      BY <3>1, <3>2
  <2> QED
    BY <2>1 DEF Threads
<1>3. GettersOnlyPoll'
  BY DEF GettersOnlyPoll, Polls, Quiet, Mine, Request
<1>4. Rows'
  <2>1. ASSUME NEW v \in Version PROVE RowOK(v)'
    <3>1. row'[v].status = "success" => Loaded(v)'
      <4>1. row'[v].status = "success" => Loaded(v)
        BY DEF Quiet, Rows, RowOK
      <4> QED
        BY <1>1, <4>1, LoadedStays
    <3> QED
      BY <3>1 DEF Quiet, Rows, RowOK, nsdl
  <2> QED
    BY <2>1 DEF Rows
<1>5. Solo'
  <2> SUFFICES ASSUME ~overlapped' PROVE Alone' /\ Clean' /\ Counted'
    BY DEF Solo
  <2>1. Alone /\ Clean /\ Counted /\ ~overlapped
    BY DEF Quiet, Solo
  <2>2. Alone'
    BY <2>1 DEF Alone, Quiet, Mine, Request
  <2>3. Clean'
    <3> SUFFICES ASSUME NEW s \in Poster, req'[s].pc \in Sending
                 PROVE  row'[req'[s].file].tran = NoTran
      BY DEF Clean
    <3>1. req'[s].file \in Version /\ row[req'[s].file].tran = NoTran
      <4>1. ThreadOK(req[s])'
        BY <1>2 DEF Threads, Request
      <4> QED
        BY <2>1, <4>1 DEF Clean, Quiet, Mine, Request, ThreadOK, Sending, Entry
    <3> QED
      BY <3>1 DEF Quiet
  <2>4. Counted'
    <3>1. \A v \in Version : Registering(v) <=> Registering(v)'
      BY DEF Registering, Quiet, Mine, Request
    <3> QED
      BY <2>1, <3>1 DEF Counted, Quiet, nsdl
  <2> QED
    BY <2>2, <2>3, <2>4
<1> QED
  BY <1>2, <1>3, <1>4, <1>5

(* In particular a step that leaves the rows alone. *)
LEMMA MoveKeeps ==
  ASSUME Inv, NEW r \in Request, Mine(r), UNCHANGED <<disk, row, nsdl, excused, overlapped, forces>>,
         placeholders' \in Nat, req' \in [Request -> Req], faults' \in 0..MaxFault,
         req[r].pc # "registering", req'[r].pc # "registering",
         r \in Getter => Polls(req'[r]),
         r \in Poster /\ req'[r].pc # "idle" => req[r].pc # "idle",
         ~overlapped /\ r \in Poster /\ req'[r].pc \in Sending => row[req'[r].file].tran = NoTran,
         ThreadOK(req[r])'
  PROVE  Inv'
<1>1. TypeOK'
  BY DEF Inv, TypeOK, nsdl
<1>2. Quiet(r)
  BY DEF Quiet
<1> QED
  BY <1>1, <1>2, QuietKeeps

(* And one that writes a status, a success only if NSDL loaded the file. *)
LEMMA WriteKeeps ==
  ASSUME Inv, NEW r \in Request, Mine(r),
         UNCHANGED <<disk, placeholders, nsdl, excused, overlapped, forces>>,
         NEW status \in Status, SetStatus(r, status), req[r].pc \in Entry,
         status = "success" => Loaded(req[r].file),
         req' \in [Request -> Req], faults' \in 0..MaxFault,
         req[r].pc # "registering", req'[r].pc # "registering",
         r \in Getter => Polls(req'[r]),
         ~overlapped /\ r \in Poster /\ req'[r].pc \in Sending => row[req'[r].file].tran = NoTran,
         ThreadOK(req[r])'
  PROVE  Inv'
<1>1. req[r].file \in Version /\ row \in [Version -> Row]
  BY DEF Inv, TypeOK, Threads, ThreadOK
<1>2. /\ row' \in [Version -> Row]
      /\ row'[req[r].file].status = status
      /\ \A v \in Version : row'[v].tran = row[v].tran
      /\ \A v \in Version : v # req[r].file => row'[v] = row[v]
  BY <1>1, StatusSet
<1>3. TypeOK'
  BY <1>2 DEF Inv, TypeOK, nsdl
<1>4. Quiet(r)
  BY <1>1, <1>2 DEF Quiet, Entry
<1> QED
  BY <1>3, <1>4, QuietKeeps
-----------------------------------------------------------------------------
(* What a POST or any request finds. *)
LEMMA Facts ==
  ASSUME Inv, NEW r \in Request
  PROVE  /\ TypeOK /\ req \in [Request -> Req] /\ req[r] \in Req /\ row \in [Version -> Row]
         /\ placeholders \in Nat /\ faults \in 0..MaxFault /\ ThreadOK(req[r])
         /\ r \in Poster => r \notin Getter
  BY ConstantsAssumption DEF Inv, TypeOK, Threads

LEMMA PosterIsRequest == ASSUME NEW r \in Poster PROVE r \in Request
  BY DEF Request

(* The next file, or the answer, after a step that left the rows alone. *)
LEMMA NextKeeps ==
  ASSUME Inv, NEW r \in Poster, NextEntry(r) \/ Raises(r), req[r].pc \notin {"idle", "registering"},
         UNCHANGED <<disk, row, nsdl, excused, overlapped, forces>>,
         placeholders' \in Nat, faults' \in 0..MaxFault
  PROVE  Inv'
<1>1. r \in Request
  BY PosterIsRequest
<1>2. req' \in [Request -> Req] /\ Mine(r) /\ req'[r].pc \in {"idle", "locate"} /\ r \notin Getter
  BY <1>1, Facts, NextGoes, RaisesTo
<1>3. ThreadOK(req[r])'
  BY <1>2 DEF ThreadOK, Entry, InHand
<1> QED
  BY <1>1, <1>2, <1>3, MoveKeeps DEF Sending

(* The same after a status was written. *)
LEMMA NextWriteKeeps ==
  ASSUME Inv, NEW r \in Poster, NextEntry(r) \/ Raises(r), req[r].pc \in Entry \ {"registering"},
         NEW status \in Status, SetStatus(r, status), status = "success" => Loaded(req[r].file),
         UNCHANGED <<disk, placeholders, nsdl, excused, overlapped, forces>>,
         faults' \in 0..MaxFault
  PROVE  Inv'
<1>1. r \in Request
  BY PosterIsRequest
<1>2. req' \in [Request -> Req] /\ Mine(r) /\ req'[r].pc \in {"idle", "locate"} /\ r \notin Getter
  BY <1>1, Facts, NextGoes, RaisesTo
<1>3. ThreadOK(req[r])'
  BY <1>2 DEF ThreadOK, Entry, InHand
<1> QED
  BY <1>1, <1>2, <1>3, WriteKeeps DEF Sending

(* The steps of a POST that look up files and rows. *)
LEMMA LocateKeeps == ASSUME Inv, NEW r \in Poster, Locate(r) PROVE Inv'
<1>1. r \in Request /\ req[r].pc = "locate"
  BY PosterIsRequest DEF Locate, At
<1>2. PICK v \in disk : req' = [req EXCEPT ![r].pc = "find", ![r].file = v]
  BY DEF Locate
<1> DEFINE q == [req[r] EXCEPT !.pc = "find", !.file = v]
<1>3. req \in [Request -> Req] /\ req[r] \in Req /\ v \in Version /\ "find" \in Pc /\ r \notin Getter
        /\ faults \in 0..MaxFault /\ placeholders \in Nat
  BY <1>1, Facts DEF TypeOK, Pc, Entry
<1>4. q \in Req /\ q.pc = "find" /\ q.file = v
  <2>1. q \in Req
    BY <1>3, ReqFields
  <2>2. q.pc = "find" /\ q.file = v
    BY <1>3 DEF Req
  <2> QED
    BY <2>1, <2>2
<1>5. req' \in [Request -> Req] /\ Mine(r) /\ req'[r] = q
  BY <1>1, <1>2, <1>3, <1>4 DEF Mine
<1>6. ThreadOK(req[r])'
  BY <1>3, <1>4, <1>5 DEF ThreadOK, InHand
<1> QED
  BY <1>1, <1>3, <1>4, <1>5, <1>6, MoveKeeps DEF Locate, ghost, Sending

LEMMA LocateFailsKeeps == ASSUME Inv, NEW r \in Poster, LocateFails(r) PROVE Inv'
<1>1. r \in Request /\ req[r].pc = "locate"
  BY PosterIsRequest DEF LocateFails, At
<1>2. req \in [Request -> Req] /\ req[r] \in Req /\ r \notin Getter
        /\ faults \in 0..MaxFault /\ placeholders \in Nat
  BY <1>1, Facts
<1>3. CASE Raises(r)
  BY <1>1, <1>2, <1>3, NextKeeps DEF LocateFails, ghost
<1>4. CASE req' = [req EXCEPT ![r].pc = "record_missing",
                              ![r].loaded = IF placeholders = 0 THEN "none" ELSE "failed"]
  <2> DEFINE l == IF placeholders = 0 THEN "none" ELSE "failed"
             q == [req[r] EXCEPT !.pc = "record_missing", !.loaded = l]
  <2>1. l \in Loading /\ "record_missing" \in Pc
    BY DEF Loading, Status, Verdict, Pc, Loop
  <2>2. q \in Req /\ q.pc = "record_missing"
    <3>1. q \in Req
      BY <1>2, <2>1, ReqFields
    <3>2. q.pc = "record_missing"
      BY <1>2 DEF Req
    <3> QED
      BY <3>1, <3>2
  <2>3. req' = [req EXCEPT ![r] = q]
    BY <1>4
  <2>4. req' \in [Request -> Req] /\ Mine(r) /\ req'[r] = q
    BY <1>1, <1>2, <2>2, <2>3 DEF Mine
  <2>5. ThreadOK(req[r])'
    BY <2>2, <2>4 DEF ThreadOK, InHand, Entry
  <2> QED
    BY <1>1, <1>2, <2>2, <2>4, <2>5, MoveKeeps DEF LocateFails, ghost, Sending
<1> QED
  BY <1>3, <1>4 DEF LocateFails

LEMMA RecordMissingKeeps == ASSUME Inv, NEW r \in Poster, RecordMissing(r) PROVE Inv'
<1>1. r \in Request /\ req[r].pc = "record_missing"
  BY PosterIsRequest DEF RecordMissing, At
<1>2. placeholders' \in Nat /\ faults \in 0..MaxFault
  BY <1>1, Facts DEF RecordMissing
<1> QED
  BY <1>1, <1>2, NextKeeps DEF RecordMissing, ghost

LEMMA FindKeeps == ASSUME Inv, NEW r \in Poster, Find(r) PROVE Inv'
<1> DEFINE v == req[r].file
<1>1. r \in Request /\ req[r].pc = "find"
  BY PosterIsRequest DEF Find, At
<1>2. /\ req \in [Request -> Req] /\ req[r] \in Req /\ r \notin Getter /\ TypeOK
      /\ faults \in 0..MaxFault /\ placeholders \in Nat /\ ThreadOK(req[r])
      /\ v \in Version /\ row[v] \in Row
      /\ UNCHANGED <<disk, row, placeholders, nsdl, ghost>>
  BY <1>1, Facts DEF ThreadOK, Entry, Find
<1>3. CASE NextEntry(r)
  BY <1>1, <1>2, <1>3, NextKeeps DEF ghost
<1>4. ASSUME NEW pc \in {"insert", "clear", "begin"}, Goes(r, pc),
             pc = "begin" => row[v].tran = NoTran
      PROVE  Inv'
  <2>1. pc \in Pc
    BY <1>4 DEF Pc, Entry
  <2>2. req' \in [Request -> Req] /\ Mine(r) /\ req'[r].pc = pc /\ req'[r].file = v
    BY <1>1, <1>2, <1>4, <2>1, GoesTo
  <2>3. ThreadOK(req[r])'
    BY <1>2, <1>4, <2>2 DEF ThreadOK, InHand
  <2> QED
    BY <1>1, <1>2, <1>4, <2>2, <2>3, MoveKeeps DEF ghost, Sending
<1>5. CASE Loads(r, v) /\ row[v].tran # NoTran
  <2>1. /\ req' \in [Request -> Req] /\ Mine(r)
        /\ req'[r].pc = "repoll" /\ req'[r].file = v /\ req'[r].tran = row[v].tran
    BY <1>1, <1>2, <1>5, LoadsGoes
  <2>2. row[v].tran \in Tran /\ owner[row[v].tran] = v
    BY <1>2, <1>5, FieldTypes DEF Inv, Rows, RowOK
  <2>3. ThreadOK(req[r])'
    BY <1>2, <2>1, <2>2 DEF ThreadOK, nsdl
  <2> QED
    BY <1>1, <1>2, <2>1, <2>3, MoveKeeps DEF ghost, Sending
<1>6. \/ NextEntry(r)
      \/ Goes(r, "insert")
      \/ Goes(r, "clear")
      \/ Goes(r, "begin") /\ row[v].tran = NoTran
      \/ Loads(r, v) /\ row[v].tran # NoTran
  BY DEF Find
<1> QED
  BY <1>3, <1>4, <1>5, <1>6

LEMMA InsertKeeps == ASSUME Inv, NEW r \in Poster, Insert(r) PROVE Inv'
<1>1. r \in Request /\ req[r].pc = "insert"
  BY PosterIsRequest DEF Insert, At
<1>2. /\ req \in [Request -> Req] /\ r \notin Getter /\ faults \in 0..MaxFault
      /\ placeholders \in Nat /\ ThreadOK(req[r])
      /\ UNCHANGED <<disk, placeholders, nsdl, ghost>>
  BY <1>1, Facts DEF Insert
<1>3. CASE SetStatus(r, "pending") /\ Goes(r, "find")
  <2>1. "find" \in Pc /\ "pending" \in Status /\ req[r].pc \in Entry
    BY <1>1 DEF Pc, Entry, Status
  <2>2. /\ req' \in [Request -> Req] /\ Mine(r) /\ req'[r].pc = "find"
        /\ req'[r].file = req[r].file
    BY <1>1, <1>2, <1>3, <2>1, GoesTo
  <2>3. ThreadOK(req[r])'
    BY <1>1, <1>2, <2>1, <2>2 DEF ThreadOK, InHand
  <2> QED
    BY <1>1, <1>2, <1>3, <2>1, <2>2, <2>3, WriteKeeps DEF ghost, Sending
<1>4. CASE Raises(r) /\ UNCHANGED row
  BY <1>1, <1>2, <1>4, NextKeeps DEF ghost
<1> QED
  BY <1>3, <1>4 DEF Insert

(* The steps of a POST that send the file. *)
LEMMA BeginUploadKeeps == ASSUME Inv, NEW r \in Poster, BeginUpload(r) PROVE Inv'
<1>1. r \in Request /\ req[r].pc = "begin"
  BY PosterIsRequest DEF BeginUpload, At
<1>2. /\ req \in [Request -> Req] /\ r \notin Getter /\ faults \in 0..MaxFault /\ ThreadOK(req[r])
      /\ UNCHANGED <<disk, placeholders, nsdl, ghost>>
  BY <1>1, Facts DEF BeginUpload
<1>3. "validating" \in Pc /\ "validating" \in Status /\ req[r].pc \in Entry
  BY <1>1 DEF Pc, Entry, Status
<1>4. req' \in [Request -> Req] /\ Mine(r) /\ req'[r].pc = "validating" /\ req'[r].file = req[r].file
  BY <1>1, <1>2, <1>3, GoesTo DEF BeginUpload
<1>5. ThreadOK(req[r])'
  BY <1>2, <1>3, <1>4 DEF ThreadOK, InHand
<1>6. ~overlapped => row[req[r].file].tran = NoTran
  BY <1>1 DEF Inv, Solo, Clean, Sending
<1> QED
  BY <1>1, <1>2, <1>3, <1>4, <1>5, <1>6, WriteKeeps DEF BeginUpload, ghost

LEMMA ValidatedKeeps == ASSUME Inv, NEW r \in Poster, Validated(r) PROVE Inv'
<1>1. r \in Request /\ req[r].pc = "validating"
  BY PosterIsRequest DEF Validated, At
<1>2. /\ req \in [Request -> Req] /\ r \notin Getter /\ faults \in 0..MaxFault /\ ThreadOK(req[r])
      /\ UNCHANGED <<disk, placeholders, nsdl, ghost>>
  BY <1>1, Facts DEF Validated
<1>3. "uploading" \in Pc /\ "uploading" \in Status /\ req[r].pc \in Entry
  BY <1>1 DEF Pc, Entry, Status
<1>4. req' \in [Request -> Req] /\ Mine(r) /\ req'[r].pc = "uploading" /\ req'[r].file = req[r].file
  BY <1>1, <1>2, <1>3, GoesTo DEF Validated
<1>5. ThreadOK(req[r])'
  BY <1>2, <1>3, <1>4 DEF ThreadOK, InHand
<1>6. ~overlapped => row[req[r].file].tran = NoTran
  BY <1>1 DEF Inv, Solo, Clean, Sending
<1> QED
  BY <1>1, <1>2, <1>3, <1>4, <1>5, <1>6, WriteKeeps DEF Validated, ghost

LEMMA ChunkedKeeps == ASSUME Inv, NEW r \in Poster, Chunked(r) PROVE Inv'
<1>1. r \in Request /\ req[r].pc = "uploading"
  BY PosterIsRequest DEF Chunked, At
<1>2. /\ req \in [Request -> Req] /\ r \notin Getter /\ faults \in 0..MaxFault /\ ThreadOK(req[r])
      /\ UNCHANGED <<disk, placeholders, nsdl, ghost>>
  BY <1>1, Facts DEF Chunked
<1>3. "uploaded" \in Pc /\ "uploaded" \in Status /\ req[r].pc \in Entry
  BY <1>1 DEF Pc, Entry, Status
<1>4. req' \in [Request -> Req] /\ Mine(r) /\ req'[r].pc = "uploaded" /\ req'[r].file = req[r].file
  BY <1>1, <1>2, <1>3, GoesTo DEF Chunked
<1>5. ThreadOK(req[r])'
  BY <1>2, <1>3, <1>4 DEF ThreadOK, InHand
<1>6. ~overlapped => row[req[r].file].tran = NoTran
  BY <1>1 DEF Inv, Solo, Clean, Sending
<1> QED
  BY <1>1, <1>2, <1>3, <1>4, <1>5, <1>6, WriteKeeps DEF Chunked, ghost

(* The steps that poll a TRANID, of a POST and of a GET. *)
LEMMA StartPollingKeeps == ASSUME Inv, NEW r \in Poster, StartPolling(r) PROVE Inv'
<1> DEFINE q == [req[r] EXCEPT !.pc = "polling", !.loaded = "expired"]
<1>1. r \in Request /\ req[r].pc = "registered"
  BY PosterIsRequest DEF StartPolling, At
<1>2. /\ req \in [Request -> Req] /\ req[r] \in Req /\ r \notin Getter
      /\ faults \in 0..MaxFault /\ ThreadOK(req[r])
      /\ UNCHANGED <<disk, placeholders, nsdl, ghost>>
  BY <1>1, Facts DEF StartPolling
<1>3. "polling" \in Pc /\ "expired" \in Loading /\ "polling" \in Status /\ req[r].pc \in Entry
  BY <1>1 DEF Pc, Entry, Loading, Status
<1>4. q \in Req
  BY <1>2, <1>3, ReqFields
<1>5. q.pc = "polling" /\ q.file = req[r].file /\ q.tran = req[r].tran
  BY <1>2 DEF Req
<1>6. req' \in [Request -> Req] /\ Mine(r) /\ req'[r] = q
  BY <1>1, <1>2, <1>4 DEF StartPolling, Mine
<1>7. ThreadOK(req[r])'
  BY <1>1, <1>2, <1>5, <1>6 DEF ThreadOK, InHand, Entry, nsdl
<1> QED
  BY <1>1, <1>2, <1>3, <1>5, <1>6, <1>7, WriteKeeps DEF StartPolling, ghost, Sending

LEMMA Reads ==
  ASSUME Inv, NEW r \in Request, req[r].pc \in {"polling", "repoll"}, NEW o \in Verdict,
         o = "success" => verdict[req[r].tran] = "success",
         req' = [req EXCEPT ![r].pc = "read", ![r].tran = NoTran, ![r].read = o],
         UNCHANGED <<disk, row, placeholders, nsdl, excused, overlapped, forces>>,
         faults' \in 0..MaxFault
  PROVE  Inv'
<1> DEFINE q == [req[r] EXCEPT !.pc = "read", !.tran = NoTran, !.read = o]
<1>1. /\ req \in [Request -> Req] /\ req[r] \in Req /\ ThreadOK(req[r])
      /\ placeholders \in Nat
  BY Facts
<1>2. "read" \in Pc
  BY DEF Pc, Entry
<1>3. q \in Req
  BY <1>1, <1>2, ReqFields
<1>4. q.pc = "read" /\ q.file = req[r].file /\ q.read = o /\ q.todo = req[r].todo
  BY <1>1 DEF Req
<1>5. req' \in [Request -> Req] /\ Mine(r) /\ req'[r] = q
  BY <1>1, <1>3 DEF Mine
<1>6. ThreadOK(req[r])'
  BY <1>1, <1>4, <1>5 DEF ThreadOK, InHand, Entry, Loaded, nsdl
<1>7. r \in Getter => Polls(req'[r])
  BY <1>4, <1>5 DEF Inv, GettersOnlyPoll, Polls
<1> QED
  BY <1>1, <1>4, <1>5, <1>6, <1>7, MoveKeeps DEF Sending

LEMMA PollKeeps == ASSUME Inv, NEW r \in Request, Poll(r) PROVE Inv'
<1>1. TypeOK /\ ThreadOK(req[r]) /\ faults \in 0..MaxFault /\ req[r].pc \in {"polling", "repoll"}
  BY Facts DEF Poll
<1>2. verdict[req[r].tran] \in Verdict
  BY <1>1 DEF ThreadOK, InHand, TypeOK
<1> QED
  BY <1>1, <1>2, Reads DEF Poll, ghost

LEMMA PollEmptyKeeps == ASSUME Inv, NEW r \in Request, PollEmpty(r) PROVE Inv'
<1>1. TypeOK /\ "in_progress" \in Verdict /\ req[r].pc \in {"polling", "repoll"}
  BY Facts DEF PollEmpty, Verdict
<1>2. faults' \in 0..MaxFault
  BY <1>1, FaultCounted DEF PollEmpty
<1> QED
  BY <1>1, <1>2, Reads DEF PollEmpty

LEMMA ApplyStatusKeeps == ASSUME Inv, NEW r \in Request, ApplyStatus(r) PROVE Inv'
<1>1. /\ req \in [Request -> Req] /\ req[r] \in Req /\ req[r].pc = "read" /\ ThreadOK(req[r])
      /\ placeholders \in Nat /\ faults \in 0..MaxFault
      /\ UNCHANGED <<disk, placeholders, nsdl, ghost>>
  BY Facts DEF ApplyStatus, At
<1>2. req' \in [Request -> Req] /\ Mine(r) /\ req'[r].pc \in {"idle", "locate"}
  BY <1>1, NextGoes DEF ApplyStatus
<1>3. r \in Getter => Polls(req'[r])
  <2>1. r \in Getter => Len(req[r].todo) < 2
    BY DEF Inv, GettersOnlyPoll, Polls
  <2> QED
    BY <1>1, <2>1, IdleTyped, NextGoes DEF ApplyStatus, Polls
<1>4. ThreadOK(req[r])'
  BY <1>2 DEF ThreadOK, Entry, InHand
<1>5. req[r].read \in Status /\ req[r].pc \in Entry
  BY <1>1, FieldTypes DEF Status, Entry
<1>6. CASE UNCHANGED row
  BY <1>1, <1>2, <1>3, <1>4, <1>6, MoveKeeps DEF ghost, Sending
<1>7. CASE SetStatus(r, req[r].read)
  BY <1>1, <1>2, <1>3, <1>4, <1>5, <1>7, WriteKeeps DEF ghost, Sending, ThreadOK
<1> QED
  BY <1>6, <1>7, StatusFlushed DEF ApplyStatus

LEMMA EntryFailsKeeps == ASSUME Inv, NEW r \in Poster, EntryFails(r) PROVE Inv'
<1>1. /\ r \in Request /\ req[r].pc \in Entry \ {"registering"}
      /\ UNCHANGED <<disk, placeholders, nsdl, excused, overlapped, forces>>
  BY PosterIsRequest DEF EntryFails, At, Entry
<1>2. placeholders \in Nat /\ TypeOK /\ "failed" \in Status /\ req[r].pc \notin {"idle", "registering"}
  BY <1>1, Facts DEF Status, Verdict, Entry
<1>3. faults' \in 0..MaxFault
  BY <1>1, <1>2, Facts, FaultCounted DEF EntryFails
<1>4. UNCHANGED row \/ SetStatus(r, "failed")
  BY DEF EntryFails, FlushStatus, SetStatus
<1>5. CASE UNCHANGED row
  BY <1>1, <1>2, <1>3, <1>5, NextKeeps DEF EntryFails
<1>6. CASE SetStatus(r, "failed")
  BY <1>1, <1>2, <1>3, <1>6, NextWriteKeeps DEF EntryFails
<1> QED
  BY <1>4, <1>5, <1>6

LEMMA GetKeeps == ASSUME Inv, NEW r \in Getter, NEW v \in Version, Get(r, v) PROVE Inv'
<1>1. r \in Request /\ r \notin Poster /\ req[r].pc = "idle"
  BY ConstantsAssumption DEF Request, Get, At
<1>2. /\ TypeOK /\ faults \in 0..MaxFault /\ placeholders \in Nat /\ row[v] \in Row
      /\ UNCHANGED <<disk, row, placeholders, nsdl, ghost>>
  BY <1>1, Facts DEF Get
<1>3. /\ req' \in [Request -> Req] /\ Mine(r)
      /\ req'[r].pc = "repoll" /\ req'[r].file = v /\ req'[r].tran = row[v].tran
      /\ req'[r].todo = req[r].todo
  BY <1>1, <1>2, LoadsGoes DEF Get
<1>4. row[v].tran \in Tran /\ owner[row[v].tran] = v
  BY <1>2, FieldTypes DEF Inv, Rows, RowOK, Get
<1>5. ThreadOK(req[r])'
  BY <1>2, <1>3, <1>4 DEF ThreadOK, nsdl
<1>6. Polls(req'[r])
  BY <1>3 DEF Inv, GettersOnlyPoll, Polls
<1> QED
  BY <1>1, <1>2, <1>3, <1>5, <1>6, MoveKeeps DEF ghost

LEMMA GetFailsKeeps == ASSUME Inv, NEW r \in Getter, GetFails(r) PROVE Inv'
<1>1. r \in Request /\ r \notin Poster /\ req[r].pc = "repoll"
  BY ConstantsAssumption DEF Request, GetFails, At
<1>2. /\ TypeOK /\ placeholders \in Nat /\ req \in [Request -> Req]
      /\ UNCHANGED <<disk, row, placeholders, nsdl, excused, overlapped, forces>>
  BY <1>1, Facts DEF GetFails
<1>3. req' \in [Request -> Req] /\ Mine(r) /\ req'[r] = Idle /\ req'[r].pc = "idle"
        /\ faults' \in 0..MaxFault
  BY <1>1, <1>2, RaisesTo, FaultCounted DEF GetFails
<1>4. ThreadOK(req[r])'
  BY <1>3 DEF ThreadOK, Entry, InHand
<1>5. Polls(req'[r])
  BY <1>3, IdleTyped DEF Polls
<1> QED
  BY <1>1, <1>2, <1>3, <1>4, <1>5, MoveKeeps
-----------------------------------------------------------------------------
(* A POST begins; the account is kept only as long as it is alone. *)
LEMMA PostKeeps ==
  ASSUME Inv, NEW r \in Poster, NEW selection \in Selection, NEW force \in BOOLEAN,
         Post(r, selection, force)
  PROVE  Inv'
<1> DEFINE q == [Idle EXCEPT !.pc = "locate", !.force = force, !.todo = selection]
<1>1. /\ r \in Request /\ r \notin Getter /\ req[r].pc = "idle" /\ TypeOK
      /\ UNCHANGED <<disk, row, placeholders, nsdl, excused, faults>>
  BY PosterIsRequest, Facts DEF Post, At
<1>2. q \in Req /\ q.pc = "locate"
  <2>1. "locate" \in Pc /\ selection \in Seq(Version \cup {Latest})
    BY ConstantsAssumption DEF Pc, Loop
  <2>2. q \in Req
    BY <2>1, IdleTyped, ReqFields
  <2> QED
    BY <2>2 DEF Idle
<1>3. req' \in [Request -> Req] /\ Mine(r) /\ req'[r] = q
  BY <1>1, <1>2 DEF Post, Mine, TypeOK
<1>4. forces' \in 0..MaxForce /\ overlapped' \in BOOLEAN
  BY <1>1, ConstantsAssumption DEF Post, TypeOK
<1> HIDE DEF q
<1>5. TypeOK'
  BY <1>1, <1>3, <1>4 DEF TypeOK, nsdl
<1>6. Threads'
  <2>1. Grows
    BY <1>1 DEF Grows, nsdl
  <2>2. ASSUME NEW s \in Request PROVE ThreadOK(req[s])'
    <3>1. CASE s = r
      BY <1>2, <1>3, <3>1 DEF ThreadOK, Entry, InHand
    <3>2. CASE s # r
      BY <1>3, <2>1, <3>2, OthersKept DEF Mine, Inv, Threads
    <3> QED
      BY <3>1, <3>2
  <2> QED
    BY <2>2 DEF Threads
<1>7. GettersOnlyPoll'
  BY <1>1, <1>3 DEF Inv, GettersOnlyPoll, Mine, Request
<1>8. Rows'
  BY <1>1 DEF Inv, Rows, RowOK, Loaded, nsdl
<1>9. Solo'
  <2> SUFFICES ASSUME ~overlapped' PROVE Alone' /\ Clean' /\ Counted'
    BY DEF Solo
  <2>1. Alone /\ Clean /\ Counted /\ \A s \in Poster : s # r => req[s].pc = "idle"
    BY DEF Post, Inv, Solo
  <2>2. \A s \in Poster : s # r => req'[s].pc = "idle"
    BY <1>3, <2>1 DEF Mine, Request
  <2>3. Alone'
    BY <2>2 DEF Alone
  <2>4. Clean'
    BY <1>2, <1>3, <2>2 DEF Clean, Sending
  <2>5. \A v \in Version : Registering(v) <=> Registering(v)'
    BY <1>1, <1>2, <1>3, <2>1, <2>2 DEF Registering
  <2>6. Counted'
    BY <1>1, <2>1, <2>5 DEF Counted, nsdl
  <2> QED
    BY <2>3, <2>4, <2>6
<1> QED
  BY <1>5, <1>6, <1>7, <1>8, <1>9 DEF Inv

(* A step of the only POST under way that touches TRANIDs or appends: what  *)
(* is left to show of the account is about its own file.                    *)
LEMMA SoloKeeps ==
  ASSUME Inv, NEW r \in Poster, Mine(r), UNCHANGED overlapped, req[r].pc # "idle",
         req[r].file \in Version, req'[r].file = req[r].file,
         \A v \in Version : v # req[r].file =>
           row'[v] = row[v] /\ appends'[v] = appends[v] /\ excused'[v] = excused[v],
         ~overlapped /\ req'[r].pc \in Sending => row'[req[r].file].tran = NoTran,
         ~overlapped => appends'[req[r].file] <= 1 + excused'[req[r].file],
         ~overlapped /\ row'[req[r].file].tran = NoTran /\ req'[r].pc # "registering" =>
           appends'[req[r].file] <= excused'[req[r].file]
  PROVE  Solo'
<1> SUFFICES ASSUME ~overlapped' PROVE Alone' /\ Clean' /\ Counted'
  BY DEF Solo
<1>1. ~overlapped /\ Alone /\ Clean /\ Counted
  BY DEF Inv, Solo
<1>2. \A s \in Poster : s # r => req[s].pc = "idle" /\ req'[s].pc = "idle"
  BY <1>1 DEF Alone, Mine, Request
<1>3. Alone'
  BY <1>2 DEF Alone
<1>4. Clean'
  BY <1>1, <1>2 DEF Clean, Sending
<1>5. ASSUME NEW v \in Version
      PROVE  /\ appends'[v] <= 1 + excused'[v]
             /\ row'[v].tran = NoTran /\ ~Registering(v)' => appends'[v] <= excused'[v]
  <2>1. CASE v = req[r].file
    <3>1. ~Registering(v)' => req'[r].pc # "registering"
      BY <2>1 DEF Registering
    <3> QED
      BY <1>1, <2>1, <3>1
  <2>2. CASE v # req[r].file
    <3>1. ~Registering(v)
      BY <1>2, <2>2 DEF Registering
    <3> QED
      BY <1>1, <2>2, <3>1 DEF Counted
  <2> QED
    BY <2>1, <2>2
<1> QED
  BY <1>3, <1>4, <1>5 DEF Counted

(* An append more is excused while the account is kept. *)
LEMMA Excused ==
  ASSUME TypeOK, NEW v \in Version, Excuse(v)
  PROVE  /\ excused' \in [Version -> Nat]
         /\ \A w \in Version : w # v => excused'[w] = excused[w]
         /\ ~overlapped => excused'[v] = excused[v] + 1
         /\ excused[v] \in Nat
  BY DEF TypeOK, Excuse

(* NSDL appends: a new TRANID, and one append more. *)
LEMMA Appended ==
  ASSUME TypeOK, NEW v \in Version, NEW t \in Tran, NsdlAppends(v, t)
  PROVE  /\ owner' \in [Tran -> Version \cup {NoVersion}] /\ appends' \in [Version -> Nat]
         /\ owner'[t] = v /\ appends'[v] = appends[v] + 1 /\ appends[v] \in Nat
         /\ \A w \in Version : w # v => appends'[w] = appends[w]
         /\ Grows /\ UNCHANGED verdict
  BY DEF TypeOK, NsdlAppends, Grows

(* What a row says survives a new TRANID. *)
LEMMA RowsKept ==
  ASSUME Inv, Grows,
         \A v \in Version : row'[v].tran = row[v].tran \/ row'[v].tran = NoTran,
         \A v \in Version : row'[v].status = "success" => row[v].status = "success"
  PROVE  Rows'
<1>1. ASSUME NEW v \in Version PROVE RowOK(v)'
  <2>1. RowOK(v) /\ row[v] \in Row
    BY DEF Inv, TypeOK, Rows
  <2>2. row'[v].tran # NoTran => owner'[row'[v].tran] = v
    <3>1. row[v].tran \in Tran \cup {NoTran} /\ v # NoVersion
      BY <2>1, FieldTypes, ConstantsAssumption
    <3> QED
      BY <2>1, <3>1 DEF RowOK, Grows
  <2>3. row'[v].status = "success" => Loaded(v)'
    BY <2>1, LoadedStays DEF RowOK
  <2> QED
    BY <2>2, <2>3 DEF RowOK
<1> QED
  BY <1>1 DEF Rows

LEMMA ClearTranKeeps == ASSUME Inv, NEW r \in Poster, ClearTran(r) PROVE Inv'
<1> DEFINE f == req[r].file
           w == [status |-> "pending", tran |-> NoTran]
<1>1. r \in Request /\ req[r].pc = "clear"
  BY PosterIsRequest DEF ClearTran, At
<1>2. /\ req \in [Request -> Req] /\ TypeOK /\ ThreadOK(req[r]) /\ f \in Version /\ r \notin Getter
      /\ UNCHANGED <<disk, placeholders, nsdl, overlapped, forces, faults>>
  BY <1>1, Facts DEF ClearTran, ThreadOK, Entry
<1>3. w \in Row /\ w.status = "pending" /\ w.tran = NoTran
  BY DEF Row, Status
<1>4. row' \in [Version -> Row] /\ row'[f] = w /\ \A v \in Version : v # f => row'[v] = row[v]
  BY <1>2, <1>3 DEF ClearTran, TypeOK
<1>5. /\ excused' \in [Version -> Nat]
      /\ \A v \in Version : v # f => excused'[v] = excused[v]
      /\ ~overlapped => excused'[f] = excused[f] + 1
      /\ excused[f] \in Nat
  BY <1>2, Excused DEF ClearTran
<1>6. req' \in [Request -> Req] /\ Mine(r) /\ req'[r].pc = "begin" /\ req'[r].file = f
  <2>1. "begin" \in Pc
    BY DEF Pc, Entry
  <2> QED
    BY <1>1, <1>2, <2>1, GoesTo DEF ClearTran
<1> HIDE DEF w
<1>7. TypeOK'
  BY <1>2, <1>4, <1>5, <1>6 DEF TypeOK, nsdl
<1>8. Grows
  BY <1>2 DEF Grows, nsdl
<1>9. ASSUME NEW s \in Request PROVE ThreadOK(req[s])'
  <2>1. CASE s = r
    BY <1>2, <1>6, <2>1 DEF ThreadOK, InHand
  <2>2. CASE s # r
    BY <1>6, <1>8, <2>2, OthersKept DEF Mine, Inv, Threads
  <2> QED
    BY <2>1, <2>2
<1>10. GettersOnlyPoll'
  BY <1>2, <1>6 DEF Inv, GettersOnlyPoll, Mine, Request
<1>11. Rows'
  <2>1. \A v \in Version : row'[v].tran = row[v].tran \/ row'[v].tran = NoTran
    BY <1>3, <1>4
  <2>2. \A v \in Version : row'[v].status = "success" => row[v].status = "success"
    BY <1>3, <1>4
  <2> QED
    BY <1>8, <2>1, <2>2, RowsKept
<1>12. Solo'
  <2>1. \A v \in Version : v # f =>
          row'[v] = row[v] /\ appends'[v] = appends[v] /\ excused'[v] = excused[v]
    BY <1>2, <1>4, <1>5 DEF nsdl
  <2>2. ~overlapped => appends'[f] <= excused'[f] /\ appends'[f] <= 1 + excused'[f]
    <3>1. appends' = appends /\ appends[f] \in Nat
      BY <1>2 DEF nsdl, TypeOK
    <3>2. ~overlapped => appends[f] <= 1 + excused[f]
      BY <1>2 DEF Inv, Solo, Counted
    <3> QED
      BY <1>5, <3>1, <3>2
  <2>3. req[r].pc # "idle" /\ row'[f].tran = NoTran
    BY <1>1, <1>3, <1>4
  <2> QED
    BY <1>2, <1>6, <2>1, <2>2, <2>3, SoloKeeps
<1> QED
  BY <1>7, <1>9, <1>10, <1>11, <1>12 DEF Inv, Threads

(* finalize_upload(), with its answer. *)
LEMMA FinalizeKeeps == ASSUME Inv, NEW r \in Poster, Finalize(r) PROVE Inv'
<1> DEFINE f == req[r].file
<1>1. r \in Request /\ req[r].pc = "uploaded"
  BY PosterIsRequest DEF Finalize, At
<1>2. /\ req \in [Request -> Req] /\ req[r] \in Req /\ TypeOK /\ ThreadOK(req[r])
      /\ f \in Version /\ r \notin Getter
      /\ UNCHANGED <<disk, row, placeholders, ghost>>
  BY <1>1, Facts DEF Finalize, ThreadOK, Entry
<1>3. PICK t \in Tran : /\ NsdlAppends(f, t)
                        /\ req' = [req EXCEPT ![r].pc = "registering", ![r].tran = t]
  BY DEF Finalize
<1> DEFINE q == [req[r] EXCEPT !.pc = "registering", !.tran = t]
<1>4. q \in Req /\ q.pc = "registering" /\ q.file = f /\ q.tran = t
  <2>1. "registering" \in Pc
    BY DEF Pc, Entry
  <2>2. q \in Req
    BY <1>2, <2>1, ReqFields
  <2> QED
    BY <1>2, <2>2 DEF Req
<1>5. req' \in [Request -> Req] /\ Mine(r) /\ req'[r] = q
  BY <1>1, <1>2, <1>3, <1>4 DEF Mine
<1>6. /\ owner' \in [Tran -> Version \cup {NoVersion}] /\ appends' \in [Version -> Nat]
      /\ owner'[t] = f /\ appends'[f] = appends[f] + 1 /\ appends[f] \in Nat
      /\ \A w \in Version : w # f => appends'[w] = appends[w]
      /\ Grows /\ UNCHANGED verdict
  BY <1>2, <1>3, Appended
<1> HIDE DEF q
<1>7. TypeOK'
  BY <1>2, <1>5, <1>6 DEF TypeOK, ghost
<1>8. ASSUME NEW s \in Request PROVE ThreadOK(req[s])'
  <2>1. CASE s = r
    BY <1>2, <1>4, <1>5, <1>6, <2>1 DEF ThreadOK
  <2>2. CASE s # r
    BY <1>5, <1>6, <2>2, OthersKept DEF Mine, Inv, Threads
  <2> QED
    BY <2>1, <2>2
<1>9. GettersOnlyPoll'
  BY <1>2, <1>5 DEF Inv, GettersOnlyPoll, Mine, Request
<1>10. Rows'
  BY <1>2, <1>6, RowsKept
<1>11. Solo'
  <2>1. \A v \in Version : v # f =>
          row'[v] = row[v] /\ appends'[v] = appends[v] /\ excused'[v] = excused[v]
    BY <1>2, <1>6 DEF ghost
  <2>2. ~overlapped => row[f].tran = NoTran /\ appends[f] <= excused[f]
    <3> SUFFICES ASSUME ~overlapped PROVE row[f].tran = NoTran /\ appends[f] <= excused[f]
      OBVIOUS
    <3>1. Alone /\ Clean /\ Counted
      BY DEF Inv, Solo
    <3>2. row[f].tran = NoTran
      BY <1>1, <3>1 DEF Clean, Sending
    <3>3. ~Registering(f)
      BY <1>1, <3>1 DEF Alone, Registering
    <3> QED
      BY <1>2, <3>1, <3>2, <3>3 DEF Counted
  <2>3. ~overlapped => appends'[f] <= 1 + excused'[f]
    <3>1. excused' = excused /\ excused[f] \in Nat
      BY <1>2 DEF ghost, TypeOK
    <3> QED
      BY <1>6, <2>2, <3>1
  <2>4. req'[r].pc = "registering" /\ req'[r].file = f /\ row' = row /\ overlapped' = overlapped
    BY <1>2, <1>4, <1>5 DEF ghost
  <2> QED
    BY <1>1, <1>2, <1>5, <2>1, <2>2, <2>3, <2>4, SoloKeeps
<1> QED
  BY <1>7, <1>8, <1>9, <1>10, <1>11 DEF Inv, Threads

(* finalize_upload(), whose answer is lost. *)
LEMMA FinalizeLostKeeps == ASSUME Inv, NEW r \in Poster, FinalizeLost(r) PROVE Inv'
<1> DEFINE f == req[r].file
<1>1. r \in Request /\ req[r].pc = "uploaded"
  BY PosterIsRequest DEF FinalizeLost, At
<1>2. /\ req \in [Request -> Req] /\ TypeOK /\ ThreadOK(req[r])
      /\ f \in Version /\ r \notin Getter
      /\ UNCHANGED <<disk, row, placeholders, overlapped, forces>>
  BY <1>1, Facts DEF FinalizeLost, ThreadOK, Entry
<1>3. PICK t \in Tran : NsdlAppends(f, t)
  BY DEF FinalizeLost
<1>4. /\ excused' \in [Version -> Nat]
      /\ \A v \in Version : v # f => excused'[v] = excused[v]
      /\ ~overlapped => excused'[f] = excused[f] + 1
      /\ excused[f] \in Nat
  BY <1>2, Excused DEF FinalizeLost
<1>5. /\ req' \in [Request -> Req] /\ Mine(r) /\ req'[r].pc = "failing" /\ req'[r].file = f
      /\ faults' \in 0..MaxFault
  <2>1. "failing" \in Pc
    BY DEF Pc, Entry
  <2> QED
    BY <1>1, <1>2, <2>1, GoesTo, FaultCounted DEF FinalizeLost
<1>6. /\ owner' \in [Tran -> Version \cup {NoVersion}] /\ appends' \in [Version -> Nat]
      /\ owner'[t] = f /\ appends'[f] = appends[f] + 1 /\ appends[f] \in Nat
      /\ \A w \in Version : w # f => appends'[w] = appends[w]
      /\ Grows /\ UNCHANGED verdict
  BY <1>2, <1>3, Appended
<1>7. TypeOK'
  BY <1>2, <1>4, <1>5, <1>6 DEF TypeOK
<1>8. ASSUME NEW s \in Request PROVE ThreadOK(req[s])'
  <2>1. CASE s = r
    BY <1>2, <1>5, <2>1 DEF ThreadOK, InHand
  <2>2. CASE s # r
    BY <1>5, <1>6, <2>2, OthersKept DEF Mine, Inv, Threads
  <2> QED
    BY <2>1, <2>2
<1>9. GettersOnlyPoll'
  BY <1>2, <1>5 DEF Inv, GettersOnlyPoll, Mine, Request
<1>10. Rows'
  BY <1>2, <1>6, RowsKept
<1>11. Solo'
  <2>1. \A v \in Version : v # f =>
          row'[v] = row[v] /\ appends'[v] = appends[v] /\ excused'[v] = excused[v]
    BY <1>2, <1>4, <1>6
  <2>2. ~overlapped => appends[f] <= excused[f]
    <3> SUFFICES ASSUME ~overlapped PROVE appends[f] <= excused[f]
      OBVIOUS
    <3>1. Alone /\ Clean /\ Counted
      BY DEF Inv, Solo
    <3>2. row[f].tran = NoTran
      BY <1>1, <3>1 DEF Clean, Sending
    <3>3. ~Registering(f)
      BY <1>1, <3>1 DEF Alone, Registering
    <3> QED
      BY <1>2, <3>1, <3>2, <3>3 DEF Counted
  <2>3. ~overlapped => appends'[f] <= excused'[f] /\ appends'[f] <= 1 + excused'[f]
    BY <1>4, <1>6, <2>2
  <2> QED
    BY <1>1, <1>2, <1>5, <2>1, <2>3, SoloKeeps DEF Sending
<1> QED
  BY <1>7, <1>8, <1>9, <1>10, <1>11 DEF Inv, Threads

(* The TRANID comes into the row. *)
LEMMA RecordTranKeeps == ASSUME Inv, NEW r \in Poster, RecordTran(r) PROVE Inv'
<1> DEFINE f == req[r].file
           t == req[r].tran
           w == [status |-> "registered", tran |-> t]
<1>1. r \in Request /\ req[r].pc = "registering"
  BY PosterIsRequest DEF RecordTran, At
<1>2. /\ req \in [Request -> Req] /\ TypeOK /\ ThreadOK(req[r])
      /\ f \in Version /\ t \in Tran /\ t # NoTran /\ owner[t] = f /\ r \notin Getter
      /\ UNCHANGED <<disk, placeholders, nsdl, ghost>>
  BY <1>1, Facts, ConstantsAssumption DEF RecordTran, ThreadOK, Entry, InHand
<1>3. w \in Row /\ w.status = "registered" /\ w.tran = t
  BY <1>2 DEF Row, Status
<1>4. row' \in [Version -> Row] /\ row'[f] = w /\ \A v \in Version : v # f => row'[v] = row[v]
  BY <1>2, <1>3 DEF RecordTran, TypeOK
<1>5. /\ req' \in [Request -> Req] /\ Mine(r) /\ req'[r].pc = "registered"
      /\ req'[r].file = f /\ req'[r].tran = t
  <2>1. "registered" \in Pc
    BY DEF Pc, Entry
  <2> QED
    BY <1>1, <1>2, <2>1, GoesTo DEF RecordTran
<1> HIDE DEF w
<1>6. TypeOK'
  BY <1>2, <1>4, <1>5 DEF TypeOK, nsdl, ghost
<1>7. Grows
  BY <1>2 DEF Grows, nsdl
<1>8. ASSUME NEW s \in Request PROVE ThreadOK(req[s])'
  <2>1. CASE s = r
    BY <1>2, <1>5, <2>1 DEF ThreadOK, InHand, nsdl
  <2>2. CASE s # r
    BY <1>5, <1>7, <2>2, OthersKept DEF Mine, Inv, Threads
  <2> QED
    BY <2>1, <2>2
<1>9. GettersOnlyPoll'
  BY <1>2, <1>5 DEF Inv, GettersOnlyPoll, Mine, Request
<1>10. ASSUME NEW v \in Version PROVE RowOK(v)'
  <2>1. RowOK(v)
    BY DEF Inv, Rows
  <2> QED
    BY <1>2, <1>3, <1>4, <2>1 DEF RowOK, Loaded, nsdl
<1>11. Solo'
  <2>1. \A v \in Version : v # f =>
          row'[v] = row[v] /\ appends'[v] = appends[v] /\ excused'[v] = excused[v]
    BY <1>2, <1>4 DEF nsdl, ghost
  <2>2. ~overlapped => appends'[f] <= 1 + excused'[f]
    BY <1>2 DEF Inv, Solo, Counted, nsdl, ghost
  <2>3. row'[f].tran # NoTran /\ overlapped' = overlapped
    BY <1>2, <1>3, <1>4 DEF ghost
  <2> QED
    BY <1>1, <1>2, <1>5, <2>1, <2>2, <2>3, SoloKeeps DEF Sending
<1> QED
  BY <1>6, <1>8, <1>9, <1>10, <1>11 DEF Inv, Threads, Rows
-----------------------------------------------------------------------------
(* The bot, NSDL and the process that dies. *)
LEMMA DownloadKeeps == ASSUME Inv, NEW v \in Version, Download(v) PROVE Inv'
<1>1. TypeOK' /\ UNCHANGED <<row, nsdl, req, ghost>>
  BY DEF Download, Inv, TypeOK, nsdl, ghost
<1> QED
  BY <1>1
  DEF Inv, Threads, ThreadOK, GettersOnlyPoll, Rows, RowOK, Loaded, Solo, Alone, Clean,
      Counted, Registering, nsdl, ghost

LEMMA NsdlSettlesKeeps == ASSUME Inv, NEW t \in Tran, NsdlSettles(t) PROVE Inv'
<1>1. /\ verdict[t] = "in_progress" /\ TypeOK
      /\ UNCHANGED <<disk, row, placeholders, owner, appends, req, ghost>>
  BY DEF NsdlSettles, Inv
<1>2. PICK outcome \in {"success", "failed"} : verdict' = [verdict EXCEPT ![t] = outcome]
  BY DEF NsdlSettles
<1>3. verdict' \in [Tran -> Verdict] /\ \A u \in Tran : verdict[u] # "in_progress" => verdict'[u] = verdict[u]
  BY <1>1, <1>2 DEF TypeOK, Verdict
<1>4. TypeOK'
  BY <1>1, <1>3 DEF TypeOK, ghost
<1>5. Grows
  BY <1>1, <1>3 DEF Grows
<1>6. Threads'
  BY <1>1, <1>5, OthersKept DEF Inv, Threads
<1>7. Rows'
  BY <1>1, <1>5, RowsKept
<1>8. GettersOnlyPoll' /\ Solo'
  BY <1>1 DEF Inv, GettersOnlyPoll, Solo, Alone, Clean, Counted, Registering, ghost
<1> QED
  BY <1>4, <1>6, <1>7, <1>8 DEF Inv

LEMMA CrashKeeps == ASSUME Inv, Crash PROVE Inv'
<1>1. /\ req' \in [Request -> Req] /\ \A s \in Request : req'[s] = Idle
      /\ TypeOK /\ UNCHANGED <<disk, row, placeholders, nsdl, overlapped, forces>>
      /\ faults' \in 0..MaxFault
  BY IdleTyped, FaultCounted DEF Crash, Inv
<1>2. /\ excused' \in [Version -> Nat]
      /\ \A v \in Version :
           excused'[v] = IF ~overlapped /\ Registering(v) THEN excused[v] + 1 ELSE excused[v]
  BY <1>1 DEF Crash, TypeOK, Registering, At
<1>3. TypeOK'
  BY <1>1, <1>2 DEF TypeOK, nsdl
<1>4. Threads' /\ GettersOnlyPoll'
  BY <1>1, IdleTyped DEF Threads, ThreadOK, GettersOnlyPoll, Polls, Entry, InHand, Request
<1>5. Rows'
  BY <1>1 DEF Inv, Rows, RowOK, Loaded, nsdl
<1>6. Solo'
  <2> SUFFICES ASSUME ~overlapped PROVE Alone' /\ Clean' /\ Counted'
    BY <1>1 DEF Solo
  <2>1. \A s \in Poster : req'[s].pc = "idle"
    BY <1>1, IdleTyped DEF Request
  <2>2. Counted
    BY DEF Inv, Solo
  <2>3. ASSUME NEW v \in Version
        PROVE  appends'[v] <= 1 + excused'[v] /\ (row'[v].tran = NoTran => appends'[v] <= excused'[v])
    <3>1. appends' = appends /\ row' = row /\ appends[v] \in Nat /\ excused[v] \in Nat
      BY <1>1 DEF nsdl, TypeOK
    <3> QED
      BY <1>2, <2>2, <3>1 DEF Counted
  <2> QED
    BY <2>1, <2>3 DEF Alone, Clean, Counted, Sending
<1> QED
  BY <1>3, <1>4, <1>5, <1>6 DEF Inv
-----------------------------------------------------------------------------
LEMMA InvInit == Init => Inv
<1> SUFFICES ASSUME Init PROVE Inv
  OBVIOUS
<1>1. TypeOK
  <2>1. [status |-> "none", tran |-> NoTran] \in Row
    BY DEF Row
  <2>2. row \in [Version -> Row] /\ req \in [Request -> Req]
    BY <2>1, IdleTyped DEF Init
  <2>3. verdict \in [Tran -> Verdict] /\ forces \in 0..MaxForce /\ faults \in 0..MaxFault
    BY ConstantsAssumption DEF Init, Verdict
  <2> QED
    BY <2>2, <2>3 DEF Init, TypeOK
<1>2. \A r \in Request : req[r] = Idle
  BY DEF Init
<1>3. Threads /\ GettersOnlyPoll /\ Alone /\ Clean
  BY <1>2, IdleTyped
  DEF Threads, ThreadOK, GettersOnlyPoll, Polls, Alone, Clean, Entry, InHand, Sending, Request
<1>4. Rows /\ Counted
  BY DEF Init, Rows, RowOK, Counted
<1> QED
  BY <1>1, <1>3, <1>4 DEF Inv, Solo

LEMMA InvNext == Inv /\ [Next]_vars => Inv'
<1> SUFFICES ASSUME Inv, [Next]_vars PROVE Inv'
  OBVIOUS
<1>1. ASSUME NEW r \in Poster, NEW selection \in Selection, NEW force \in BOOLEAN,
             Post(r, selection, force)
      PROVE  Inv'
  BY <1>1, PostKeeps
<1>2. ASSUME NEW r \in Poster, PostStep(r) PROVE Inv'
  <2>1. CASE Locate(r) \/ LocateFails(r) \/ RecordMissing(r)
    BY <2>1, LocateKeeps, LocateFailsKeeps, RecordMissingKeeps
  <2>2. CASE Find(r) \/ Insert(r) \/ ClearTran(r)
    BY <2>2, FindKeeps, InsertKeeps, ClearTranKeeps
  <2>3. CASE BeginUpload(r) \/ Validated(r) \/ Chunked(r)
    BY <2>3, BeginUploadKeeps, ValidatedKeeps, ChunkedKeeps
  <2>4. CASE Finalize(r) \/ FinalizeLost(r) \/ RecordTran(r) \/ StartPolling(r)
    BY <2>4, FinalizeKeeps, FinalizeLostKeeps, RecordTranKeeps, StartPollingKeeps
  <2>5. CASE Poll(r) \/ PollEmpty(r) \/ ApplyStatus(r) \/ EntryFails(r)
    BY <2>5, PosterIsRequest, PollKeeps, PollEmptyKeeps, ApplyStatusKeeps, EntryFailsKeeps
  <2> QED
    BY <1>2, <2>1, <2>2, <2>3, <2>4, <2>5 DEF PostStep
<1>3. ASSUME NEW r \in Getter, NEW v \in Version, Get(r, v) PROVE Inv'
  BY <1>3, GetKeeps
<1>4. ASSUME NEW r \in Getter, GetStep(r) PROVE Inv'
  <2>1. r \in Request
    BY DEF Request
  <2> QED
    BY <1>4, <2>1, PollKeeps, PollEmptyKeeps, ApplyStatusKeeps, GetFailsKeeps DEF GetStep
<1>5. ASSUME NEW v \in Version, Download(v) PROVE Inv'
  BY <1>5, DownloadKeeps
<1>6. ASSUME NEW t \in Tran, NsdlSettles(t) PROVE Inv'
  BY <1>6, NsdlSettlesKeeps
<1>7. CASE Crash
  BY <1>7, CrashKeeps
<1>8. CASE UNCHANGED vars
  BY <1>8
  DEF vars, nsdl, ghost, Inv, TypeOK, Threads, ThreadOK, GettersOnlyPoll, Rows, RowOK, Loaded,
      Solo, Alone, Clean, Counted, Registering
<1> QED
  BY <1>1, <1>2, <1>3, <1>4, <1>5, <1>6, <1>7, <1>8 DEF Next

LEMMA InvAlways == Spec => []Inv
<1> QED
  BY InvInit, InvNext, PTL DEF Spec

(* Only a force takes the TRANID of a row away, as long as POSTs do not     *)
(* overlap; a step that writes a status leaves it.                          *)
LEMMA StatusKeepsTran ==
  ASSUME Inv, NEW r \in Request, req[r].file \in Version, NEW status \in Status,
         SetStatus(r, status) \/ UNCHANGED row
  PROVE  \A v \in Version : row'[v].tran = row[v].tran
<1>1. row \in [Version -> Row]
  BY DEF Inv, TypeOK
<1> QED
  BY <1>1, StatusSet

LEMMA TranKept ==
  ASSUME Inv, [Next]_vars, ~overlapped', NEW v \in Version, row[v].tran # NoTran
  PROVE  row'[v].tran \in {row[v].tran, NoTran}
<1>1. CASE UNCHANGED row
  BY <1>1
<1>2. ASSUME NEW r \in Poster, ClearTran(r) PROVE row'[v].tran \in {row[v].tran, NoTran}
  BY <1>2 DEF ClearTran, Inv, TypeOK
<1>3. ASSUME NEW r \in Poster, RecordTran(r) PROVE row'[v].tran \in {row[v].tran, NoTran}
  <2>1. ~overlapped /\ req[r].pc = "registering"
    BY <1>3 DEF RecordTran, ghost, At
  <2>2. row[req[r].file].tran = NoTran
    BY <2>1 DEF Inv, Solo, Clean, Sending
  <2> QED
    BY <1>3, <2>2 DEF RecordTran, Inv, TypeOK
<1>4. ASSUME NEW r \in Request, req[r].pc \in Entry, NEW status \in Status,
             SetStatus(r, status) \/ UNCHANGED row
      PROVE  row'[v].tran \in {row[v].tran, NoTran}
  <2>1. req[r].file \in Version
    BY <1>4 DEF Inv, Threads, ThreadOK
  <2> QED
    BY <1>4, <2>1, StatusKeepsTran
<1>5. ASSUME NEW r \in Poster, Insert(r) \/ BeginUpload(r) \/ Validated(r) \/ Chunked(r) \/ StartPolling(r)
      PROVE  row'[v].tran \in {row[v].tran, NoTran}
  <2>1. r \in Request /\ req[r].pc \in Entry
    BY <1>5, PosterIsRequest DEF Insert, BeginUpload, Validated, Chunked, StartPolling, At, Entry
  <2>2. /\ "pending" \in Status /\ "validating" \in Status /\ "uploading" \in Status
        /\ "uploaded" \in Status /\ "polling" \in Status
    BY DEF Status
  <2>3. CASE Insert(r)
    BY <1>4, <2>1, <2>2, <2>3 DEF Insert
  <2>4. CASE BeginUpload(r)
    BY <1>4, <2>1, <2>2, <2>4 DEF BeginUpload
  <2>5. CASE Validated(r)
    BY <1>4, <2>1, <2>2, <2>5 DEF Validated
  <2>6. CASE Chunked(r)
    BY <1>4, <2>1, <2>2, <2>6 DEF Chunked
  <2>7. CASE StartPolling(r)
    BY <1>4, <2>1, <2>2, <2>7 DEF StartPolling
  <2> QED
    BY <1>5, <2>3, <2>4, <2>5, <2>6, <2>7
<1>6. ASSUME NEW r \in Request, ApplyStatus(r) PROVE row'[v].tran \in {row[v].tran, NoTran}
  <2>1. req[r].pc \in Entry /\ req[r].read \in Status
    BY <1>6, Facts, FieldTypes DEF ApplyStatus, At, Entry, Status
  <2> QED
    BY <1>4, <1>6, <2>1, StatusFlushed DEF ApplyStatus
<1>7. ASSUME NEW r \in Poster, EntryFails(r) PROVE row'[v].tran \in {row[v].tran, NoTran}
  <2>1. r \in Request /\ req[r].pc \in Entry /\ "failed" \in Status
    BY <1>7, PosterIsRequest DEF EntryFails, At, Entry, Status, Verdict
  <2>2. SetStatus(r, "failed") \/ UNCHANGED row
    BY <1>7 DEF EntryFails, FlushStatus, SetStatus
  <2> QED
    BY <1>4, <2>1, <2>2
<1>8. \/ UNCHANGED row
      \/ \E r \in Poster : \/ ClearTran(r) \/ RecordTran(r) \/ EntryFails(r)
                           \/ Insert(r) \/ BeginUpload(r) \/ Validated(r) \/ Chunked(r) \/ StartPolling(r)
      \/ \E r \in Request : ApplyStatus(r)
  BY DEF Next, PostStep, GetStep, vars, Post, Get, GetFails, Download, NsdlSettles, Crash, Request,
         Locate, LocateFails, RecordMissing, Find, Finalize, FinalizeLost, Poll, PollEmpty
<1> QED
  BY <1>1, <1>2, <1>3, <1>5, <1>6, <1>7, <1>8

(* Rows, requests, TRANIDs and counters keep their types; a request past    *)
(* the lookup has a file in hand.                                           *)
THEOREM TypeCorrect == Spec => []TypeOK
<1>1. Inv => TypeOK
  BY DEF Inv
<1> QED
  BY <1>1, InvAlways, PTL

(* The rows of a file are at NSDL once, and once more for every force, lost *)
(* answer and crash that excuses it, as long as POSTs do not overlap.       *)
THEOREM AppendedOnce == Spec => []AppendsAccounted
<1>1. Inv => AppendsAccounted
  BY DEF Inv, Solo, Counted, AppendsAccounted
<1> QED
  BY <1>1, InvAlways, PTL

(* A row that says success is about a file NSDL has loaded, whatever        *)
(* requests, forces and stale readings crossed: POSTs that overlap too.     *)
THEOREM SuccessTrue == Spec => []SuccessAppended
<1>1. Inv => SuccessAppended
  BY DEF Inv, Rows, RowOK, Loaded, SuccessAppended
<1> QED
  BY <1>1, InvAlways, PTL

(* The TRANID of a row gives way to another one only through a force.       *)
THEOREM TranKeptSafe == Spec => TranNotOverwritten
<1>1. Inv /\ [Next]_vars =>
        [~overlapped' => \A v \in Version :
           row[v].tran # NoTran => row'[v].tran \in {row[v].tran, NoTran}]_vars
  BY TranKept
<1> QED
  BY <1>1, InvAlways, PTL DEF Spec, TranNotOverwritten
=============================================================================
