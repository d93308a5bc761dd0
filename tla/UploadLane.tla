------------------------------ MODULE UploadLane ------------------------------
(***************************************************************************)
(* The CBOS upload lane: what the worker does with the tasks of one        *)
(* segment and trade date, one task at a time.  It resolves a PROCESSID,   *)
(* sends and registers the listed files, moves every file to the folder    *)
(* its outcome calls for, passes or fails the completeness gate, and       *)
(* writes the batch's verdict; force-proceed excuses named slots instead.  *)
(*                                                                         *)
(* Between any two of its steps CBOS, the bot and the engine may act, a    *)
(* call may fail with or without having taken effect, and the process may  *)
(* die.  Queue, guard and intake are BatchLane's; here a batch is run      *)
(* again while its row says queued or uploading; with any other status in  *)
(* MayRun, by a POST that read the row before the run ended and reached    *)
(* the guard after it was released.                                        *)
(***************************************************************************)
EXTENDS Naturals, FiniteSets

CONSTANTS
  Batch,          \* batch_ids of this segment and date
  File,           \* file names
  Listed,         \* the files a batch's manifest lists
  Slot,           \* UploadIDs of Table2 that expect a file
  Match,          \* the UploadID whose rule a file matches
  ZeroStep,       \* steps of Table2 with UploadID 0: no file, ever
  Template,       \* steps CBOS flags optional in every process it creates
  Allowlist,      \* optional_slots.yaml, for this segment
  Pid,            \* PROCESSIDs CBOS can hand out
  NoPid,          \* "0", or no PROCESSID at all
  NoBatch, NoFile,
  MayRun,         \* statuses with which a known batch is run again
  HolidayCheckEnforced, \* settings.cbos_holiday_check_enforced
  CbosMaxRetries, \* settings.cbos_max_retries
  MaxAbort,       \* bound: how many runs die on the way
  MaxLost         \* bound: how many answers are lost after CBOS has acted

ASSUME ConstantsAssumption ==
  /\ Listed \in [Batch -> SUBSET File]
  /\ Match \in [File -> Slot]
  /\ Slot \cap ZeroStep = {}
  /\ Template \subseteq Slot \cup ZeroStep
  /\ Allowlist \subseteq Slot
  /\ NoPid \notin Pid /\ NoBatch \notin Batch /\ NoFile \notin File
  /\ {"queued", "uploading"} \subseteq MayRun
  /\ HolidayCheckEnforced \in BOOLEAN
  /\ CbosMaxRetries \in Nat \ {0}
  /\ MaxAbort \in Nat /\ MaxLost \in Nat

VARIABLES
  row,          \* status column of the batches table
  source,       \* names in the source folder
  uploaded,     \* names in uploaded/
  uploadFailed, \* names in uploadFailed/
  audit,        \* uploaded_files: batch, file name and status of each row
  minted,       \* CBOS: the processes created for this segment and date
  entries,      \* CBOS: how often a file was registered, per process
  done,         \* CBOS: slots whose STATUS says a file was accepted
  failed,       \* CBOS: slots whose STATUS is FAILED
  skipped,      \* CBOS: steps marked optional by Step 8
  run,          \* the task in hand and how far the worker is with it
  asked,        \* slots named in the force-proceed task that waits, per batch
  aborts, lost, \* what was used of MaxAbort and MaxLost
  refusals      \* how often CBOS refused what was registered for a slot

folders == <<source, uploaded, uploadFailed>>
cbos == <<minted, entries, done, failed, skipped>>
outside == <<asked, aborts, lost, refusals>>
vars == <<row, folders, audit, cbos, run, outside>>
-----------------------------------------------------------------------------
Settled == {"confirmed", "unconfirmed", "incomplete", "failed"}
Status == Settled \cup {"queued", "uploading"}
Step == Slot \cup ZeroStep

(* Table2 as a reservation reads it back: which slots already have a file     *)
(* and which steps carry the optional flag.  FAILED counts as PENDING.        *)
Table == [done : SUBSET Slot, optional : SUBSET Step]
TableOf(p) == [done |-> done[p], optional |-> Template \cup skipped[p]]
EmptyTable == [done |-> {}, optional |-> {}]

(* UploadCandidate.needs_upload, for every step of the table. *)
NeedsUpload(t) == Step \ (t.done \cup t.optional)

IdleRun ==
  [pc |-> "idle", batch |-> NoBatch, pid |-> NoPid, table |-> EmptyTable, attempt |-> 1,
   files |-> {}, todo |-> {}, chunked |-> {}, reached |-> {}, filled |-> {},
   file |-> NoFile, outcome |-> "none", back |-> "none", verdict |-> "none", named |-> {}]

Init ==
  /\ row = [b \in Batch |-> "none"]
  /\ source = {} /\ uploaded = {} /\ uploadFailed = {}
  /\ audit = {}
  /\ minted = {}
  /\ entries = [p \in Pid |-> [f \in File |-> 0]]
  /\ done = [p \in Pid |-> {}]
  /\ failed = [p \in Pid |-> {}]
  /\ skipped = [p \in Pid |-> {}]
  /\ run = IdleRun
  /\ asked = [b \in Batch |-> {}]
  /\ aborts = 0 /\ lost = 0
  /\ refusals = [u \in Slot |-> 0]
-----------------------------------------------------------------------------
(* The others: the bot, ops, the engine, CBOS itself. *)

(* The bot downloads the files of a batch, over what is there, and its       *)
(* manifest is accepted.                                                     *)
Publish(b) ==
  /\ row[b] = "none"
  /\ row' = [row EXCEPT ![b] = "queued"]
  /\ source' = source \cup Listed[b]
  /\ UNCHANGED <<uploaded, uploadFailed, audit, cbos, run, outside>>

(* Ops names slots of a batch that is INCOMPLETE; a second decision is       *)
(* dropped while the task of the first one waits.                            *)
RequestProceed(b, named) ==
  /\ row[b] = "incomplete"
  /\ asked[b] = {} /\ named # {}
  /\ asked' = [asked EXCEPT ![b] = named]
  /\ UNCHANGED <<row, folders, audit, cbos, run, aborts, lost, refusals>>

(* The engine reserves the PROCESSID of this segment and date. *)
EngineReserves ==
  /\ minted = {}
  /\ \E p \in Pid : minted' = {p}
  /\ UNCHANGED <<row, folders, audit, entries, done, failed, skipped, run, outside>>

Registered(p, u) == \E f \in File : Match[f] = u /\ entries[p][f] > 0

(* CBOS works off what was registered for a slot. *)
CbosAccepts(p, u) ==
  /\ Registered(p, u)
  /\ u \notin done[p] \cup failed[p]
  /\ done' = [done EXCEPT ![p] = @ \cup {u}]
  /\ UNCHANGED <<row, folders, audit, minted, entries, failed, skipped, run, outside>>

CbosRefuses(p, u) ==
  /\ Registered(p, u)
  /\ u \notin done[p] \cup failed[p]
  /\ failed' = [failed EXCEPT ![p] = @ \cup {u}]
  /\ refusals' = [refusals EXCEPT ![u] = @ + 1]
  /\ UNCHANGED <<row, folders, audit, minted, entries, done, skipped, run, asked, aborts, lost>>
-----------------------------------------------------------------------------
(* Steps of the worker.  Ends writes the batch's row and drops the run. *)
At(pc) == run.pc = pc
SetBatchStatus(status) == row' = [row EXCEPT ![run.batch] = status]
Ends(status) == SetBatchStatus(status) /\ run' = IdleRun

(* A task of mode "upload" is taken.  Every listed file gone: superseded.    *)
Superseded(b) ==
  /\ At("idle") /\ row[b] \in MayRun
  /\ Listed[b] # {} /\ Listed[b] \cap source = {}
  /\ row' = [row EXCEPT ![b] = "unconfirmed"]
  /\ UNCHANGED <<folders, audit, cbos, run, outside>>

(* A rescan carries no PROCESSID, the engine's POST does. *)
BeginUpload(b, supplied) ==
  /\ At("idle") /\ row[b] \in MayRun
  /\ Listed[b] = {} \/ Listed[b] \cap source # {}
  /\ supplied => minted # {}
  /\ row' = [row EXCEPT ![b] = "uploading"]
  /\ run' = [IdleRun EXCEPT !.pc = IF supplied THEN "supplied" ELSE "find",
                            !.batch = b,
                            !.files = Listed[b] \cap source,
                            !.todo = Listed[b] \cap source]
  /\ UNCHANGED <<folders, audit, cbos, outside>>

(* The supplied Table2 was read some time ago: what it lacks may have been   *)
(* done since.  Its optional flags are the engine's own: it may flag a slot  *)
(* that CBOS has not recorded, or not know of one that CBOS has.             *)
TakeSupplied ==
  /\ At("supplied")
  /\ \E p \in minted :
       \E d \in SUBSET done[p], o \in SUBSET Step :
         run' = [run EXCEPT !.pc = "setup", !.pid = p,
                            !.table = [done |-> d, optional |-> Template \cup o]]
  /\ UNCHANGED <<row, folders, audit, cbos, outside>>

(* Step 1, only for a batch that reserves its PROCESSID itself. *)
Holiday ==
  /\ At("find")
  /\ HolidayCheckEnforced
  /\ Ends("queued")
  /\ UNCHANGED <<folders, audit, cbos, outside>>

(* find_existing_process_id: no match and a failed call both read as "0". *)
FindExisting ==
  /\ At("find")
  /\ \E p \in minted \cup {NoPid} : run' = [run EXCEPT !.pc = "reserve", !.pid = p]
  /\ UNCHANGED <<row, folders, audit, cbos, outside>>

(* Step 2: "0" creates a process, any other PROCESSID is read back. *)
Reserves(p) ==
  \/ run.pid = p /\ UNCHANGED minted
  \/ run.pid = NoPid /\ p \notin minted /\ minted' = minted \cup {p}

Reserve ==
  /\ At("reserve")
  /\ \E p \in Pid :
       /\ Reserves(p)
       /\ run' = [run EXCEPT !.pc = "setup", !.pid = p, !.table = TableOf(p)]
  /\ UNCHANGED <<row, folders, audit, entries, done, failed, skipped, outside>>

(* Faulty: one attempt too many. *)
SetupAttemptFailsOnceMore ==
  /\ At("reserve")
  /\ UNCHANGED minted \/ \E p \in Pid : Reserves(p)
  /\ run' = IF run.attempt <= CbosMaxRetries
            THEN [run EXCEPT !.attempt = @ + 1]
            ELSE [run EXCEPT !.pc = "failing"]
  /\ UNCHANGED <<row, folders, audit, entries, done, failed, skipped, outside>>

(* Step 2 or Step 4 fails; Step 2 may have created a process all the same.   *)
(* The next attempt asks with the same PROCESSID or "0" as this one.         *)
SetupAttemptFails ==
  /\ At("reserve")
  /\ UNCHANGED minted \/ \E p \in Pid : Reserves(p)
  /\ run' = IF run.attempt < CbosMaxRetries
            THEN [run EXCEPT !.attempt = @ + 1]
            ELSE [run EXCEPT !.pc = "failing"]
  /\ UNCHANGED <<row, folders, audit, entries, done, failed, skipped, outside>>

SuppliedInvalid ==
  /\ At("supplied")
  /\ run' = [run EXCEPT !.pc = "failing"]
  /\ UNCHANGED <<row, folders, audit, cbos, outside>>

NotRunnable ==
  /\ At("setup")
  /\ Ends("queued")
  /\ UNCHANGED <<folders, audit, cbos, outside>>

(* Step 8 for some of these steps: each call may fail, which is not fatal. *)
MarkOptional(steps) ==
  \E marked \in SUBSET steps :
    skipped' = [skipped EXCEPT ![run.pid] = @ \cup marked]

SkipZeroSteps ==
  /\ At("setup")
  /\ MarkOptional(ZeroStep \cap run.table.optional)
  /\ run' = [run EXCEPT !.pc = "files"]
  /\ UNCHANGED <<row, folders, audit, minted, entries, done, failed, outside>>
-----------------------------------------------------------------------------
(* apply_outcome, in two steps: the file moves, then its audit row follows.  *)
InHand(f, outcome, back) ==
  [run EXCEPT !.pc = "move", !.file = f, !.outcome = outcome, !.back = back,
              !.todo = @ \ {f}, !.chunked = @ \ {f}]

(* Faulty: the file is copied and stays in the source folder. *)
MoveFileCopied ==
  /\ At("move")
  /\ IF run.outcome = "uploaded"
     THEN uploaded' = uploaded \cup {run.file} /\ UNCHANGED uploadFailed
     ELSE uploadFailed' = uploadFailed \cup {run.file} /\ UNCHANGED uploaded
  /\ run' = [run EXCEPT !.pc = "record"]
  /\ UNCHANGED <<row, source, audit, cbos, outside>>

MoveFile ==
  /\ At("move")
  /\ source' = source \ {run.file}
  /\ IF run.outcome = "uploaded"
     THEN uploaded' = uploaded \cup {run.file} /\ UNCHANGED uploadFailed
     ELSE uploadFailed' = uploadFailed \cup {run.file} /\ UNCHANGED uploaded
  /\ run' = [run EXCEPT !.pc = "record"]
  /\ UNCHANGED <<row, audit, cbos, outside>>

Row(status) == [batch |-> run.batch, file |-> run.file, status |-> status]
Open(f) == {r \in audit : r.file = f /\ r.status = "pending"}

RecordOutcome ==
  /\ At("record")
  /\ audit' = (audit \ Open(run.file)) \cup {Row(run.outcome)}
  /\ run' = [run EXCEPT !.pc = run.back, !.file = NoFile, !.outcome = "none", !.back = "none"]
  /\ UNCHANGED <<row, folders, cbos, outside>>

(* _fail_all_files *)
FailFile ==
  /\ At("failing")
  /\ \E f \in run.todo : run' = InHand(f, "failed", "failing")
  /\ UNCHANGED <<row, folders, audit, cbos, outside>>

SetupFailed ==
  /\ At("failing") /\ run.todo = {}
  /\ Ends("failed")
  /\ UNCHANGED <<folders, audit, cbos, outside>>
-----------------------------------------------------------------------------
(* Step 5, file by file. *)

(* No rule, an ambiguous one, an empty file or a wrong column count. *)
RejectFile ==
  /\ At("files")
  /\ \E f \in run.todo : run' = InHand(f, "failed", "files")
  /\ UNCHANGED <<row, folders, audit, cbos, outside>>

(* The audit row is written, or the one a dead run left here is taken over. *)
MatchFile ==
  /\ At("files")
  /\ \E f \in run.todo :
       /\ run' = [run EXCEPT !.pc = "matched", !.file = f]
       /\ audit' = (audit \ Open(f))
                   \cup {[batch |-> run.batch, file |-> f, status |-> "pending"]}
  /\ UNCHANGED <<row, folders, cbos, outside>>

(* Faulty: the look-up forgets the status, or asks for this batch's rows only. *)
CompletedAnyStatus(f) == \E r \in audit : r.file = f /\ r.status # "pending"
CompletedHere(f) ==
  \E r \in audit : r.file = f /\ r.status = "uploaded" /\ r.batch = run.batch

(* find_completed: a row for this name that says it reached CBOS. *)
Completed(f) == \E r \in audit : r.file = f /\ r.status = "uploaded"
AlreadyInCbos(f) == Match[f] \in run.table.done

SkipFile ==
  /\ At("matched")
  /\ AlreadyInCbos(run.file) \/ Completed(run.file)
  /\ run' = [InHand(run.file, "uploaded", "files")
               EXCEPT !.filled = @ \cup {Match[run.file]}]
  /\ UNCHANGED <<row, folders, audit, cbos, outside>>

UploadFile ==
  /\ At("matched")
  /\ ~AlreadyInCbos(run.file) /\ ~Completed(run.file)
  /\ run' = [run EXCEPT !.pc = "files", !.file = NoFile,
                        !.todo = @ \ {run.file}, !.chunked = @ \cup {run.file}]
  /\ UNCHANGED <<row, folders, audit, cbos, outside>>

(* Chunks sent under a GUID that is never registered have no effect. *)
UploadFails ==
  /\ At("matched")
  /\ ~AlreadyInCbos(run.file) /\ ~Completed(run.file)
  /\ run' = InHand(run.file, "failed", "files")
  /\ UNCHANGED <<row, folders, audit, cbos, outside>>

(* Faulty: Step 7 starts while files are still to be sent. *)
AllSentEarly ==
  /\ At("files")
  /\ run' = [run EXCEPT !.pc = "register"]
  /\ UNCHANGED <<row, folders, audit, cbos, outside>>

AllSent ==
  /\ At("files") /\ run.todo = {}
  /\ run' = [run EXCEPT !.pc = "register"]
  /\ UNCHANGED <<row, folders, audit, cbos, outside>>
-----------------------------------------------------------------------------
(* Step 7, once every file was sent. *)

CreateEntry(f) ==
  /\ entries' = [entries EXCEPT ![run.pid][f] = @ + 1]
  /\ failed' = [failed EXCEPT ![run.pid] = @ \ {Match[f]}]
  /\ UNCHANGED <<minted, done, skipped>>

(* Faulty: the entry is made, and the file is left out of what is delivered. *)
RegisterFileForgets ==
  /\ At("register")
  /\ \E f \in run.chunked :
       /\ CreateEntry(f)
       /\ run' = [run EXCEPT !.chunked = @ \ {f}, !.filled = @ \cup {Match[f]}]
  /\ UNCHANGED <<row, folders, audit, outside>>

RegisterFile ==
  /\ At("register")
  /\ \E f \in run.chunked :
       /\ CreateEntry(f)
       /\ run' = [run EXCEPT !.chunked = @ \ {f}, !.reached = @ \cup {f},
                             !.filled = @ \cup {Match[f]}]
  /\ UNCHANGED <<row, folders, audit, outside>>

(* Faulty: the slot is counted before the answer is looked at. *)
RegisterFailsCounted ==
  /\ At("register")
  /\ \E f \in run.chunked :
       run' = [InHand(f, "failed", "register") EXCEPT !.filled = @ \cup {Match[f]}]
  /\ UNCHANGED <<row, folders, audit, cbos, outside>>

RegisterFails ==
  /\ At("register")
  /\ \E f \in run.chunked : run' = InHand(f, "failed", "register")
  /\ UNCHANGED <<row, folders, audit, cbos, outside>>

(* The entry is made and the answer lost. *)
RegisterUnanswered ==
  /\ At("register") /\ lost < MaxLost
  /\ \E f \in run.chunked :
       /\ CreateEntry(f)
       /\ run' = InHand(f, "failed", "register")
  /\ lost' = lost + 1
  /\ UNCHANGED <<row, folders, audit, asked, aborts, refusals>>

NothingUploaded ==
  /\ At("register") /\ run.chunked = {}
  /\ Listed[run.batch] # {} /\ run.reached = {} /\ run.filled = {}
  /\ Ends("failed")
  /\ UNCHANGED <<folders, audit, cbos, outside>>
-----------------------------------------------------------------------------
(* Step 8, the completeness gate, and the verdict. *)

SkipUnfilledOptional ==
  /\ At("register") /\ run.chunked = {}
  /\ Listed[run.batch] = {} \/ run.reached # {} \/ run.filled # {}
  /\ MarkOptional((Slot \cap run.table.optional) \ (run.filled \cup run.table.done))
  /\ run' = [run EXCEPT !.pc = "gate"]
  /\ UNCHANGED <<row, folders, audit, minted, entries, done, failed, outside>>

MissingRequired == (Slot \cap NeedsUpload(run.table)) \ (run.filled \cup Allowlist)

Gate ==
  /\ At("gate")
  /\ run' = [run EXCEPT !.pc = "deliver",
               !.verdict = IF MissingRequired = {} THEN "confirmed" ELSE "incomplete"]
  /\ UNCHANGED <<row, folders, audit, cbos, outside>>

(* Confirmed or gate_parked: either way the registered files are delivered. *)
DeliverFile ==
  /\ At("deliver")
  /\ \E f \in run.reached :
       run' = [InHand(f, "uploaded", "deliver") EXCEPT !.reached = @ \ {f}]
  /\ UNCHANGED <<row, folders, audit, cbos, outside>>

(* Faulty: the verdict is written before the files are delivered. *)
RecordVerdictFirst ==
  /\ At("deliver")
  /\ Ends(run.verdict)
  /\ UNCHANGED <<folders, audit, cbos, outside>>

RecordVerdict ==
  /\ At("deliver") /\ run.reached = {}
  /\ Ends(run.verdict)
  /\ UNCHANGED <<folders, audit, cbos, outside>>
-----------------------------------------------------------------------------
(* _proceed_batch: billing may run without the slots ops named.  The batch   *)
(* may have run again since the decision.                                    *)

BeginProceed(b) ==
  /\ At("idle") /\ asked[b] # {}
  /\ run' = [IdleRun EXCEPT !.pc = "proceed", !.batch = b, !.named = asked[b]]
  /\ asked' = [asked EXCEPT ![b] = {}]
  /\ UNCHANGED <<row, folders, audit, cbos, aborts, lost, refusals>>

(* No PROCESSID, or it cannot be read back. *)
ProceedNoProcess ==
  /\ At("proceed")
  /\ Ends("incomplete")
  /\ UNCHANGED <<folders, audit, cbos, outside>>

ProceedRead ==
  /\ At("proceed")
  /\ \E p \in minted : run' = [run EXCEPT !.pc = "approve", !.pid = p, !.table = TableOf(p)]
  /\ UNCHANGED <<row, folders, audit, cbos, outside>>

EmptySlots == Slot \cap NeedsUpload(run.table)

(* A named slot is not empty, or an empty one is neither named nor allowed. *)
ProceedRefused ==
  /\ At("approve")
  /\ ~(run.named \subseteq EmptySlots /\ EmptySlots \subseteq Allowlist \cup run.named)
  /\ Ends("incomplete")
  /\ UNCHANGED <<folders, audit, cbos, outside>>

ProceedMarks ==
  /\ At("approve")
  /\ run.named \subseteq EmptySlots /\ EmptySlots \subseteq Allowlist \cup run.named
  /\ MarkOptional(NeedsUpload(run.table))
  /\ run' = [run EXCEPT !.pc = "proceeded"]
  /\ UNCHANGED <<row, folders, audit, minted, entries, done, failed, outside>>

ProceedConfirms ==
  /\ At("proceeded")
  /\ Ends("confirmed")
  /\ UNCHANGED <<folders, audit, cbos, outside>>
-----------------------------------------------------------------------------
(* An exception escapes the run; mark_batch_failed may fail as well. *)
Fault ==
  /\ ~At("idle") /\ aborts < MaxAbort
  /\ SetBatchStatus("failed") \/ UNCHANGED row
  /\ run' = IdleRun
  /\ aborts' = aborts + 1
  /\ UNCHANGED <<folders, audit, cbos, asked, lost, refusals>>

(* The process dies where the run stands, and the queue with it. *)
Die ==
  /\ ~At("idle") /\ aborts < MaxAbort
  /\ run' = IdleRun
  /\ asked' = [b \in Batch |-> {}]
  /\ aborts' = aborts + 1
  /\ UNCHANGED <<row, folders, audit, cbos, lost, refusals>>

UploadRun ==
  \/ TakeSupplied \/ SuppliedInvalid
  \/ Holiday \/ FindExisting \/ Reserve \/ SetupAttemptFails
  \/ NotRunnable \/ SkipZeroSteps
  \/ MoveFile \/ RecordOutcome
  \/ FailFile \/ SetupFailed
  \/ RejectFile \/ MatchFile \/ SkipFile \/ UploadFile \/ UploadFails \/ AllSent
  \/ RegisterFile \/ RegisterFails \/ RegisterUnanswered \/ NothingUploaded
  \/ SkipUnfilledOptional \/ Gate \/ DeliverFile \/ RecordVerdict

ProceedRun ==
  \/ ProceedNoProcess \/ ProceedRead
  \/ ProceedRefused \/ ProceedMarks \/ ProceedConfirms

Environment ==
  \/ \E b \in Batch : Publish(b) \/ \E named \in SUBSET Slot : RequestProceed(b, named)
  \/ EngineReserves
  \/ \E p \in Pid, u \in Slot : CbosAccepts(p, u) \/ CbosRefuses(p, u)

Next ==
  \/ Environment
  \/ \E b \in Batch :
       \/ Superseded(b)
       \/ \E supplied \in BOOLEAN : BeginUpload(b, supplied)
       \/ BeginProceed(b)
  \/ UploadRun
  \/ ProceedRun
  \/ Fault
  \/ Die

Spec == Init /\ [][Next]_vars

(* The worker thread does not stop in the middle of a task. *)
FairSpec == Spec /\ WF_vars(UploadRun \/ ProceedRun)
-----------------------------------------------------------------------------
Place ==
  {"idle", "supplied", "find", "reserve", "setup", "failing", "files", "matched", "move",
   "record", "register", "gate", "deliver", "proceed", "approve", "proceeded"}
Outcome == {"none", "uploaded", "failed"}
Back == {"none", "failing", "files", "register", "deliver"}
Verdict == {"none", "confirmed", "incomplete"}
Attempt == 1..CbosMaxRetries

RunState ==
  [pc : Place, batch : Batch \cup {NoBatch}, pid : Pid \cup {NoPid}, table : Table,
   attempt : Attempt, files : SUBSET File, todo : SUBSET File, chunked : SUBSET File,
   reached : SUBSET File, filled : SUBSET Slot, file : File \cup {NoFile},
   outcome : Outcome, back : Back, verdict : Verdict, named : SUBSET Slot]

TypeOK ==
  /\ row \in [Batch -> Status \cup {"none"}]
  /\ source \subseteq File /\ uploaded \subseteq File /\ uploadFailed \subseteq File
  /\ audit \subseteq [batch : Batch, file : File, status : {"pending", "uploaded", "failed"}]
  /\ minted \subseteq Pid
  /\ entries \in [Pid -> [File -> Nat]]
  /\ done \in [Pid -> SUBSET Slot]
  /\ failed \in [Pid -> SUBSET Slot]
  /\ skipped \in [Pid -> SUBSET Step]
  /\ run \in RunState
  /\ asked \in [Batch -> SUBSET Slot]
  /\ aborts \in 0..MaxAbort /\ lost \in 0..MaxLost
  /\ refusals \in [Slot -> Nat]
-----------------------------------------------------------------------------
(* A file in uploaded/, or recorded as uploaded, has a file registered for   *)
(* its UploadID: neither a skip, nor a dead run, nor a lost answer makes the *)
(* folder or the audit table claim what CBOS never got (apply_outcome).      *)
UploadedIsRegistered ==
  \A f \in File :
    f \in uploaded \/ (\E r \in audit : r.file = f /\ r.status = "uploaded") =>
      \E p \in minted : Registered(p, Match[f])

(* Every code path ends in apply_outcome for a given file: a run that ends    *)
(* with its own verdict leaves a settled audit row for each file it took,     *)
(* and no open one.                                                           *)
Concludes == ~At("idle") /\ run'.pc = "idle" /\ aborts' = aborts

OutcomeForEveryFile ==
  [][Concludes /\ row'[run.batch] # "queued" =>
       \A f \in run.files :
         /\ \E r \in audit : r.batch = run.batch /\ r.file = f /\ r.status # "pending"
         /\ Open(f) = {}]_vars

(* Step 7 waits for every Step 5 of the batch (pending_registration).         *)
RegisterAfterAllSent == [][entries' # entries => run.todo = {}]_vars

(* A slot another process of the date already has: a file the manifest lists *)
(* for it is recorded as uploaded, and find_completed keeps it from going to *)
(* the run's own process.                                                    *)
FilledElsewhere(u) ==
  /\ \E f \in Listed[run.batch] : Match[f] = u /\ Completed(f)
  /\ \E p \in minted \ {run.pid} : Registered(p, u)

(* The completeness gate: no batch is CONFIRMED, by its run or by ops, while *)
(* a slot of its process is empty that neither CBOS, nor the allowlist, nor  *)
(* ops excuses, unless a second process of the date has the slot's file.     *)
GateHolds ==
  [][Concludes /\ row'[run.batch] = "confirmed" =>
       \A u \in Slot : \/ u \in run.table.optional \cup Allowlist \cup run.named
                       \/ Registered(run.pid, u)
                       \/ FilledElsewhere(u)]_vars

(* How often CBOS was given a file, over all processes: one element each.     *)
Registrations(f) == UNION {{p} \X (1..entries[p][f]) : p \in Pid}

Accounted(f) ==
  Completed(f) \/ f \in run.reached \/ (run.file = f /\ run.outcome = "uploaded")

(* Of what CBOS holds only as much is unknown to find_completed as runs died *)
(* and answers were lost: any further registration of a file means that it   *)
(* is recorded as uploaded, or about to be, and the next run can know.       *)
EntriesAccounted ==
  \A f \in File : Cardinality(Registrations(f)) > aborts + lost => Accounted(f)

(* A file is registered once over all runs, manifests and processes of its   *)
(* segment and date, and once more at most for each run that died, each      *)
(* answer that was lost, and each time CBOS answered its slot FAILED: then   *)
(* it is to be sent again (UploadedFileRepository: "so a re-dropped,         *)
(* already-uploaded file isn't sent to CBOS twice").                         *)
AtMostOnce ==
  \A f \in File : Cardinality(Registrations(f)) <= 1 + aborts + lost + refusals[Match[f]]

(* A file whose slot CBOS has answered FAILED is sent again when its next    *)
(* manifest is run: no row of that batch says uploaded without it            *)
(* (already_in_cbos: taking it for one that CBOS has "would idempotent-skip  *)
(* a slot on every retry").                                                  *)
Redropped(b, f, p) ==
  /\ row[b] = "queued" /\ At("idle")
  /\ f \in Listed[b] \cap source
  /\ Match[f] \in failed[p]

RecordedBy(b, f) == \E r \in audit : r.batch = b /\ r.file = f /\ r.status = "uploaded"

RefusedIsSentAgain ==
  \A b \in Batch, f \in File, p \in Pid, n \in 1..(1 + MaxAbort + MaxLost) :
    [](Redropped(b, f, p) /\ entries[p][f] = n => [](RecordedBy(b, f) => entries[p][f] > n))

(* To the outside the lane only ever takes files out of the source folder,   *)
(* and shows as uploaded only what is registered.                            *)
Fate == INSTANCE FileFate WITH
  registered <- {u \in Slot : \E p \in Pid : Registered(p, u)}

ImplementsFileFate == Fate!Spec
=============================================================================
