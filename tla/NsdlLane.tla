------------------------------- MODULE NsdlLane -------------------------------
(***************************************************************************)
(* The NSDL Speedy lane for one report of one account on one trade date.   *)
(* The bot numbers each download; a POST uploads the latest version or the *)
(* versions it names, a GET polls the transaction of one row again.  NSDL  *)
(* appends: what is finalized twice is there twice, and no call says so.   *)
(* The row of a version, committed after every call, is the only record    *)
(* that the file was sent.                                                 *)
(*                                                                         *)
(* Each action ends at a commit, at an NSDL call, or where a row is read;  *)
(* other requests, the bot and NSDL act in between.  A call may fail, its  *)
(* answer may be lost after NSDL has acted, and the process may die.       *)
(***************************************************************************)
EXTENDS Naturals, Sequences

CONSTANTS
  Version,    \* the numbers the bot gives its downloads
  Poster,     \* threads that serve POST
  Getter,     \* threads that serve GET
  Selection,  \* the lists of versions a POST may ask for, Latest among them
  Tran,       \* TRANIDs NSDL can hand out, in ascending order
  NoTran,     \* tran_id IS NULL
  Latest,     \* a selector without a version
  NoVersion,
  MaxForce,   \* bound: POSTs with force=true
  MaxFault    \* bound: failed or empty calls, lost answers and crashes

ASSUME ConstantsAssumption ==
  /\ Version \subseteq Nat
  /\ Latest \notin Version /\ NoVersion \notin Version
  /\ Selection \subseteq Seq(Version \cup {Latest}) \ {<<>>}
  /\ Poster \cap Getter = {}
  /\ Tran \subseteq Nat /\ NoTran \notin Tran
  /\ MaxForce \in Nat /\ MaxFault \in Nat

VARIABLES
  disk,         \* the versions in the dated folder
  row,          \* status and tran_id of the row of each version
  placeholders, \* rows with file_version NULL: reports that were not there
  owner,        \* NSDL: the file each TRANID stands for
  verdict,      \* NSDL: how far each TRANID is
  appends,      \* NSDL: how often the rows of a file were appended
  req,          \* what each request thread does
  excused,      \* appends a file may have besides one: forced, or unrecorded
  overlapped,   \* two POSTs were under way at the same time
  forces, faults

nsdl == <<owner, verdict, appends>>
ghost == <<excused, overlapped, forces, faults>>
vars == <<disk, row, placeholders, nsdl, req, ghost>>
-----------------------------------------------------------------------------
Verdict == {"in_progress", "success", "failed"}
Status == Verdict \cup {"pending", "validating", "uploading", "uploaded", "registered", "polling"}
(* "none": there is no such row. *)
Row == [status : Status \cup {"none"}, tran : Tran \cup {NoTran}]

Idle == [pc |-> "idle", force |-> FALSE, todo |-> <<>>, file |-> NoVersion,
         loaded |-> "expired", tran |-> NoTran, read |-> "in_progress"]
Loop == {"locate", "record_missing"}
Entry == {"find", "insert", "clear", "begin", "validating", "uploading", "uploaded",
          "registering", "registered", "polling", "repoll", "read", "failing"}

Request == Poster \cup Getter
Init ==
  /\ disk = {}
  /\ row = [v \in Version |-> [status |-> "none", tran |-> NoTran]]
  /\ placeholders = 0
  /\ owner = [t \in Tran |-> NoVersion]
  /\ verdict = [t \in Tran |-> "in_progress"]
  /\ appends = [v \in Version |-> 0]
  /\ req = [r \in Request |-> Idle]
  /\ excused = [v \in Version |-> 0]
  /\ overlapped = FALSE
  /\ forces = 0 /\ faults = 0
-----------------------------------------------------------------------------
(* The bot and NSDL. *)

Download(v) ==
  /\ v \notin disk
  /\ \A w \in Version : w < v => w \in disk
  /\ disk' = disk \cup {v}
  /\ UNCHANGED <<row, placeholders, nsdl, req, ghost>>

(* The stored procedure behind a TRANID ends. *)
NsdlSettles(t) ==
  /\ owner[t] # NoVersion
  /\ verdict[t] = "in_progress"
  /\ \E outcome \in {"success", "failed"} : verdict' = [verdict EXCEPT ![t] = outcome]
  /\ UNCHANGED <<disk, row, placeholders, owner, appends, req, ghost>>
-----------------------------------------------------------------------------
(* Steps of a request. *)
At(r, pc) == req[r].pc = pc
Goes(r, pc) == req' = [req EXCEPT ![r].pc = pc]
Loads(r, file) ==
  req' = [req EXCEPT ![r].pc = "repoll", ![r].file = file,
                     ![r].loaded = row[file].status, ![r].tran = row[file].tran]

(* The next file of the call, or its answer. *)
NextEntry(r) ==
  LET rest == Tail(req[r].todo)
  IN  req' = [req EXCEPT ![r] =
        IF Len(req[r].todo) < 2 THEN Idle
        ELSE [Idle EXCEPT !.pc = "locate", !.force = req[r].force, !.todo = rest]]

(* An exception that process_upload lets through: the files left are dropped. *)
Raises(r) == req' = [req EXCEPT ![r] = Idle]

(* An append that the row will not account for. *)
Excuse(v) == excused' = IF overlapped THEN excused ELSE [excused EXCEPT ![v] = @ + 1]

Faulty == faults < MaxFault /\ faults' = faults + 1
SetStatus(r, status) == row' = [row EXCEPT ![req[r].file].status = status]
(* A flush writes a column only if it differs from the value that was loaded; *)
(* after a commit nothing is loaded.                                          *)
FlushStatus(r, status) ==
  row' = IF req[r].loaded = status THEN row
         ELSE [row EXCEPT ![req[r].file].status = status]
-----------------------------------------------------------------------------
(* POST, its selectors resolved and the categories listed. *)
Post(r, selection, force) ==
  /\ At(r, "idle")
  /\ force => forces < MaxForce
  /\ req' = [req EXCEPT ![r] = [Idle EXCEPT !.pc = "locate", !.force = force, !.todo = selection]]
  /\ forces' = IF force THEN forces + 1 ELSE forces
  /\ overlapped' = (overlapped \/ \E q \in Poster \ {r} : req[q].pc # "idle")
  /\ UNCHANGED <<disk, row, placeholders, nsdl, excused, faults>>

(* The file a selector means: the version it names, or the highest there is. *)
Located(r, v) ==
  /\ v \in disk
  /\ \/ Head(req[r].todo) = v
     \/ Head(req[r].todo) = Latest /\ \A w \in disk : w <= v

Locate(r) ==
  /\ At(r, "locate")
  /\ \E v \in disk : Located(r, v) /\ req' = [req EXCEPT ![r].pc = "find", ![r].file = v]
  /\ UNCHANGED <<disk, row, placeholders, nsdl, ghost>>

(* find() of the placeholder: one_or_none() raises when there are two. *)
LocateFails(r) ==
  /\ At(r, "locate")
  /\ ~\E v \in disk : Located(r, v)
  /\ \/ placeholders > 1 /\ Raises(r)
     \/ /\ placeholders < 2
        /\ req' = [req EXCEPT ![r].pc = "record_missing",
                              ![r].loaded = IF placeholders = 0 THEN "none" ELSE "failed"]
  /\ UNCHANGED <<disk, row, placeholders, nsdl, ghost>>

(* NULL versions are distinct to the unique constraint. *)
RecordMissing(r) ==
  /\ At(r, "record_missing")
  /\ placeholders' = IF req[r].loaded = "none" THEN placeholders + 1 ELSE placeholders
  /\ NextEntry(r)
  /\ UNCHANGED <<disk, row, nsdl, ghost>>

(* Faulty: a failed row is sent again although it has a tran_id. *)
FindResendsFailed(r) ==
  /\ At(r, "find")
  /\ LET v == req[r].file IN
     \/ row[v].status = "none" /\ Goes(r, "insert")
     \/ row[v].status = "success" /\ ~req[r].force /\ NextEntry(r)
     \/ /\ row[v].status \in Status /\ (row[v].status # "success" \/ req[r].force)
        /\ \/ row[v].tran = NoTran /\ Goes(r, "begin")
           \/ row[v].tran # NoTran /\ req[r].force /\ Goes(r, "clear")
           \/ row[v].tran # NoTran /\ ~req[r].force /\ row[v].status = "failed" /\ Goes(r, "begin")
           \/ row[v].tran # NoTran /\ ~req[r].force /\ row[v].status # "failed" /\ Loads(r, v)
  /\ UNCHANGED <<disk, row, placeholders, nsdl, ghost>>

(* Faulty: a failed row with a tran_id is not polled again. *)
FindLeavesFailed(r) ==
  /\ At(r, "find")
  /\ LET v == req[r].file IN
     \/ row[v].status = "none" /\ Goes(r, "insert")
     \/ row[v].status \in {"success", "failed"} /\ row[v].tran # NoTran /\ ~req[r].force /\ NextEntry(r)
     \/ /\ row[v].status \in Status /\ (row[v].status \notin {"success", "failed"} \/ row[v].tran = NoTran \/ req[r].force)
        /\ \/ row[v].tran = NoTran /\ Goes(r, "begin")
           \/ row[v].tran # NoTran /\ req[r].force /\ Goes(r, "clear")
           \/ row[v].tran # NoTran /\ ~req[r].force /\ Loads(r, v)
  /\ UNCHANGED <<disk, row, placeholders, nsdl, ghost>>

(* find(), and what the row says: finished; to be sent anew; sent, to be    *)
(* polled; not sent.                                                        *)
Find(r) ==
  /\ At(r, "find")
  /\ LET v == req[r].file IN
     \/ row[v].status = "none" /\ Goes(r, "insert")
     \/ row[v].status = "success" /\ ~req[r].force /\ NextEntry(r)
     \/ /\ row[v].status \in Status /\ (row[v].status # "success" \/ req[r].force)
        /\ \/ row[v].tran = NoTran /\ Goes(r, "begin")
           \/ row[v].tran # NoTran /\ req[r].force /\ Goes(r, "clear")
           \/ row[v].tran # NoTran /\ ~req[r].force /\ Loads(r, v)
  /\ UNCHANGED <<disk, row, placeholders, nsdl, ghost>>

(* insert(); another request may have been faster, and IntegrityError is    *)
(* nobody's to catch.                                                       *)
Insert(r) ==
  /\ At(r, "insert")
  /\ \/ /\ row[req[r].file].status = "none"
        /\ SetStatus(r, "pending")
        /\ Goes(r, "find")
     \/ /\ row[req[r].file].status # "none"
        /\ Raises(r)
        /\ UNCHANGED row
  /\ UNCHANGED <<disk, placeholders, nsdl, ghost>>

(* force: the old TRANID is forgotten. *)
ClearTran(r) ==
  /\ At(r, "clear")
  /\ row' = [row EXCEPT ![req[r].file] = [status |-> "pending", tran |-> NoTran]]
  /\ Excuse(req[r].file)
  /\ Goes(r, "begin")
  /\ UNCHANGED <<disk, placeholders, nsdl, overlapped, forces, faults>>

(* retry_count, the category and its settings, then the row. *)
BeginUpload(r) ==
  /\ At(r, "begin")
  /\ SetStatus(r, "validating")
  /\ Goes(r, "validating")
  /\ UNCHANGED <<disk, placeholders, nsdl, ghost>>

Validated(r) ==
  /\ At(r, "validating")
  /\ SetStatus(r, "uploading")
  /\ Goes(r, "uploading")
  /\ UNCHANGED <<disk, placeholders, nsdl, ghost>>

Chunked(r) ==
  /\ At(r, "uploading")
  /\ SetStatus(r, "uploaded")
  /\ Goes(r, "uploaded")
  /\ UNCHANGED <<disk, placeholders, nsdl, ghost>>

(* finalize_upload(): NSDL appends the rows and hands out a TRANID. *)
NsdlAppends(v, t) ==
  /\ owner[t] = NoVersion
  /\ \A u \in Tran : u < t => owner[u] # NoVersion
  /\ owner' = [owner EXCEPT ![t] = v]
  /\ appends' = [appends EXCEPT ![v] = @ + 1]
  /\ UNCHANGED verdict

Finalize(r) ==
  /\ At(r, "uploaded")
  /\ \E t \in Tran :
       /\ NsdlAppends(req[r].file, t)
       /\ req' = [req EXCEPT ![r].pc = "registering", ![r].tran = t]
  /\ UNCHANGED <<disk, row, placeholders, ghost>>

(* The rows are appended and the TRANID does not reach the caller. *)
FinalizeLost(r) ==
  /\ At(r, "uploaded")
  /\ Faulty
  /\ \E t \in Tran : NsdlAppends(req[r].file, t)
  /\ Excuse(req[r].file)
  /\ Goes(r, "failing")
  /\ UNCHANGED <<disk, row, placeholders, overlapped, forces>>

(* Faulty: the tran_id is not committed with the status. *)
RecordTranLater(r) ==
  /\ At(r, "registering")
  /\ SetStatus(r, "registered")
  /\ Goes(r, "registered")
  /\ UNCHANGED <<disk, placeholders, nsdl, ghost>>

RecordTran(r) ==
  /\ At(r, "registering")
  /\ row' = [row EXCEPT ![req[r].file] = [status |-> "registered", tran |-> req[r].tran]]
  /\ Goes(r, "registered")
  /\ UNCHANGED <<disk, placeholders, nsdl, ghost>>

StartPolling(r) ==
  /\ At(r, "registered")
  /\ SetStatus(r, "polling")
  /\ req' = [req EXCEPT ![r].pc = "polling", ![r].loaded = "expired"]
  /\ UNCHANGED <<disk, placeholders, nsdl, ghost>>

(* Faulty: the remark is stored as NSDL words it. *)
PollUnclassified(r) ==
  /\ req[r].pc \in {"polling", "repoll"}
  /\ req' = [req EXCEPT ![r].pc = "read", ![r].tran = NoTran, ![r].read = "IN PROGRESS..."]
  /\ UNCHANGED <<disk, row, placeholders, nsdl, ghost>>

(* Faulty: whatever is not a failure reads as a success. *)
PollNoMarker(r) ==
  /\ req[r].pc \in {"polling", "repoll"}
  /\ req' = [req EXCEPT ![r].pc = "read", ![r].tran = NoTran,
                        ![r].read = IF verdict[req[r].tran] = "failed" THEN "failed" ELSE "success"]
  /\ UNCHANGED <<disk, row, placeholders, nsdl, ghost>>

(* The last reading of poll_status(), or the one of check_status_once(). *)
Poll(r) ==
  /\ req[r].pc \in {"polling", "repoll"}
  /\ req' = [req EXCEPT ![r].pc = "read", ![r].tran = NoTran,
                        ![r].read = verdict[req[r].tran]]
  /\ UNCHANGED <<disk, row, placeholders, nsdl, ghost>>

(* An answer without Result reads as in progress. *)
PollEmpty(r) ==
  /\ req[r].pc \in {"polling", "repoll"}
  /\ Faulty
  /\ req' = [req EXCEPT ![r].pc = "read", ![r].tran = NoTran, ![r].read = "in_progress"]
  /\ UNCHANGED <<disk, row, placeholders, nsdl, excused, overlapped, forces>>

ApplyStatus(r) ==
  /\ At(r, "read")
  /\ FlushStatus(r, req[r].read)
  /\ NextEntry(r)
  /\ UNCHANGED <<disk, placeholders, nsdl, ghost>>

(* NsdlSpeedeError is the file's verdict; a tran_id on the row stays there. *)
EntryFails(r) ==
  /\ r \in Poster
  /\ \/ At(r, "failing") /\ UNCHANGED faults
     \/ /\ req[r].pc \in {"begin", "validating", "uploading", "uploaded", "polling", "repoll"}
        /\ Faulty
  /\ IF At(r, "repoll") THEN FlushStatus(r, "failed") ELSE SetStatus(r, "failed")
  /\ NextEntry(r)
  /\ UNCHANGED <<disk, placeholders, nsdl, excused, overlapped, forces>>
-----------------------------------------------------------------------------
(* GET: polls a row that has a TRANID and no verdict; 502 if that fails. *)
Get(r, v) ==
  /\ At(r, "idle")
  /\ row[v].tran # NoTran
  /\ row[v].status \notin {"success", "failed"}
  /\ Loads(r, v)
  /\ UNCHANGED <<disk, row, placeholders, nsdl, ghost>>

GetFails(r) ==
  /\ At(r, "repoll")
  /\ Faulty
  /\ Raises(r)
  /\ UNCHANGED <<disk, row, placeholders, nsdl, excused, overlapped, forces>>

(* The process dies; NSDL keeps what it has. *)
Crash ==
  /\ Faulty
  /\ excused' = [v \in Version |->
       IF ~overlapped /\ \E r \in Poster : At(r, "registering") /\ req[r].file = v
       THEN excused[v] + 1 ELSE excused[v]]
  /\ req' = [r \in Request |-> Idle]
  /\ UNCHANGED <<disk, row, placeholders, nsdl, overlapped, forces>>
-----------------------------------------------------------------------------
PostStep(r) ==
  \/ Locate(r) \/ LocateFails(r) \/ RecordMissing(r)
  \/ Find(r) \/ Insert(r) \/ ClearTran(r)
  \/ BeginUpload(r) \/ Validated(r) \/ Chunked(r)
  \/ Finalize(r) \/ FinalizeLost(r) \/ RecordTran(r) \/ StartPolling(r)
  \/ Poll(r) \/ PollEmpty(r) \/ ApplyStatus(r) \/ EntryFails(r)

GetStep(r) == Poll(r) \/ PollEmpty(r) \/ ApplyStatus(r) \/ GetFails(r)

Next ==
  \/ \E r \in Poster, selection \in Selection, force \in BOOLEAN : Post(r, selection, force)
  \/ \E r \in Poster : PostStep(r)
  \/ \E r \in Getter, v \in Version : Get(r, v)
  \/ \E r \in Getter : GetStep(r)
  \/ \E v \in Version : Download(v)
  \/ \E t \in Tran : NsdlSettles(t)
  \/ Crash

Spec == Init /\ [][Next]_vars

(* The threads run, NSDL's procedures end, the bot downloads, and the       *)
(* orchestrator posts every version again and again.                        *)
Retried == \A r \in Poster, v \in Version : SF_vars(Post(r, <<v>>, FALSE))
LiveSpec ==
  /\ Spec
  /\ \A r \in Poster : WF_vars(PostStep(r))
  /\ \A r \in Getter : WF_vars(GetStep(r))
  /\ \A t \in Tran : WF_vars(NsdlSettles(t))
  /\ Retried
-----------------------------------------------------------------------------
(* Every variable keeps its type; a request past the lookup has a file, and *)
(* one with a TRANID in hand has one that was handed out.                   *)
Req == [pc : {"idle"} \cup Loop \cup Entry, force : BOOLEAN, todo : Seq(Version \cup {Latest}),
        file : Version \cup {NoVersion}, loaded : Status \cup {"none", "expired"},
        tran : Tran \cup {NoTran}, read : Verdict]

TypeOK ==
  /\ disk \subseteq Version
  /\ row \in [Version -> Row]
  /\ placeholders \in Nat
  /\ owner \in [Tran -> Version \cup {NoVersion}]
  /\ verdict \in [Tran -> Verdict]
  /\ appends \in [Version -> Nat] /\ excused \in [Version -> Nat]
  /\ req \in [Request -> Req]
  /\ overlapped \in BOOLEAN
  /\ forces \in 0..MaxForce /\ faults \in 0..MaxFault

(* "A row that already carries a tran_id never reaches finalize_upload()    *)
(* again": as long as no two POSTs overlapped, the rows of a file are at    *)
(* NSDL once, and once more for every force that dropped a TRANID, every    *)
(* answer to a finalize that was lost and every crash before the commit of  *)
(* a TRANID.  Failed polls, empty answers, GETs and plain retries add none. *)
AppendsAccounted == ~overlapped => \A v \in Version : appends[v] <= 1 + excused[v]

(* A row that says success is about a file whose rows NSDL has loaded,      *)
(* whatever requests, forces and stale readings crossed.                    *)
SuccessAppended ==
  \A v \in Version : row[v].status = "success" =>
    \E t \in Tran : owner[t] = v /\ verdict[t] = "success"

(* The TRANID of a row gives way to another one only through a force, which *)
(* clears it first: the append it stands for is not forgotten unseen.       *)
TranNotOverwritten ==
  [][~overlapped' => \A v \in Version : row[v].tran # NoTran => row'[v].tran \in {row[v].tran, NoTran}]_vars

(* A version that was downloaded and keeps being posted ends: the row says  *)
(* success, or it names a TRANID NSDL has refused.  No crossing of polls,   *)
(* GETs, forces, lost answers and crashes leaves it in between for good.    *)
Ended(v) ==
  \/ row[v].status = "success"
  \/ row[v].tran # NoTran /\ owner[row[v].tran] = v /\ verdict[row[v].tran] = "failed"
FileEnds == \A v \in Version : v \in disk ~> []Ended(v)

(* The docstring of nsdl_speede_service, line 22, as it stands: a finalize  *)
(* is never issued for a row that carries a tran_id.                        *)
NeverFinalizedAgain ==
  [][\A v \in Version : appends'[v] > appends[v] => row[v].tran = NoTran]_vars
=============================================================================
