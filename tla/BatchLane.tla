------------------------------ MODULE BatchLane ------------------------------
(***************************************************************************)
(* The batch lane of the uploader: request threads that take manifests in  *)
(* and queue them, the bounded BatchQueue with its in-flight guard, the    *)
(* single worker thread that drains it, the batches table and the process  *)
(* life cycle around them (start, orderly shutdown, crash).                *)
(*                                                                         *)
(* What a batch run does to CBOS and to each file belongs to the upload    *)
(* lane; here a run is its status writes, the files leaving the source     *)
(* folder, and its verdict.  The row of the batches table, the manifest on *)
(* disk and the source folder survive a restart; the queue, the guard, the *)
(* worker and the request threads do not.                                  *)
(***************************************************************************)
EXTENDS Naturals, Sequences, FiniteSets

CONSTANTS
  Batch,       \* batch_ids
  EmptyBatch,  \* batch_ids whose manifest declares no file at all
  Folder,      \* the {date}/{SEGMENT} folders, each with one manifest.json
  FolderOf,    \* the folder a batch's manifest is written to
  Slot,        \* UploadIDs that force-proceed may name
  Handler,     \* request threads
  NoBatch,     \* no batch_id
  MaxSize,     \* settings.batch_queue_maxsize, 0 for an unbounded queue
  MaxRestart   \* bound: how often the process may die with work in hand

ASSUME ConstantsAssumption ==
  /\ EmptyBatch \subseteq Batch
  /\ FolderOf \in [Batch -> Folder]
  /\ NoBatch \notin Batch
  /\ MaxSize \in Nat
  /\ MaxRestart \in Nat

VARIABLES
  row,        \* status column of the batches table, "none" when there is no row
  proceed,    \* proceed_slots column: the slots ops last asked to excuse
  manifest,   \* batch_id of the manifest.json on disk, per folder
  source,     \* which listed files are still in the source folder
  queue,      \* BatchQueue._queue: tasks, and the SHUTDOWN sentinel
  inFlight,   \* BatchQueue._in_flight: guard keys
  unfinished, \* Queue.unfinished_tasks
  worker,     \* the worker thread: pc, the task in hand, the verdict reached
  handler,    \* per request thread: pc, manifests left to submit, the task
  server,     \* where the lifespan is: "up", "stopping", "joining"
  restarts    \* how often the process died with work in hand

durable == <<row, proceed, manifest, source>>
batchQueue == <<queue, inFlight, unfinished>>
volatile == <<batchQueue, worker, handler, server>>
vars == <<durable, volatile, restarts>>
-----------------------------------------------------------------------------
Settled == {"confirmed", "unconfirmed", "incomplete", "failed", "rejected"}
Status == Settled \cup {"queued", "uploading"}

(* SegmentBatchTask, cut down to what decides anything in this lane. *)
Task == [batch : Batch, mode : {"upload", "proceed"}, slots : SUBSET Slot]
UploadTask(b) == [batch |-> b, mode |-> "upload", slots |-> {}]
SHUTDOWN == [batch |-> NoBatch, mode |-> "shutdown", slots |-> {}]

(* Faulty: without the batch_id, as before superseding manifests had one. *)
KeyOfFolder(t) == <<IF t.batch = NoBatch THEN NoBatch ELSE FolderOf[t.batch], t.mode>>

(* date|segment|mode|batch_id: the batch fixes the date and the segment. *)
Key(t) == <<t.batch, t.mode>>

Full == MaxSize > 0 /\ Len(queue) >= MaxSize

NoTask == [batch |-> NoBatch, mode |-> "none", slots |-> {}]
IdleWorker == [pc |-> "idle", task |-> NoTask, verdict |-> "none"]
IdleHandler == [pc |-> "idle", todo |-> {}, task |-> NoTask]

(* A batch has files to upload, none of which is left in the source folder. *)
Gone(b) == b \notin EmptyBatch /\ source[FolderOf[b]] = "none"

Init ==
  /\ row = [b \in Batch |-> "none"]
  /\ proceed = [b \in Batch |-> {}]
  /\ manifest = [f \in Folder |-> NoBatch]
  /\ source = [f \in Folder |-> "none"]
  /\ queue = <<>>
  /\ inFlight = {}
  /\ unfinished = 0
  /\ worker = IdleWorker
  /\ handler = [h \in Handler |-> IdleHandler]
  /\ server = "up"
  /\ restarts = 0
-----------------------------------------------------------------------------
(* The bot: downloads the files of a batch and renames its manifest into     *)
(* place last.  A later batch of the same folder supersedes the earlier one. *)
Publish(b) ==
  /\ row[b] = "none"
  /\ \A f \in Folder : manifest[f] # b
  /\ \A h \in Handler : handler[h].task.batch # b
  /\ manifest' = [manifest EXCEPT ![FolderOf[b]] = b]
  /\ source' = IF b \in EmptyBatch THEN source
               ELSE [source EXCEPT ![FolderOf[b]] = "all"]
  /\ UNCHANGED <<row, proceed, volatile, restarts>>
-----------------------------------------------------------------------------
(* Intake.  A POST submits one manifest, a rescan every manifest on disk.   *)

Goto(h, pc) == handler' = [handler EXCEPT ![h].pc = pc]

(* The submission is over; a rescan goes on with its next manifest. *)
Answer(h, todo) ==
  handler' = [handler EXCEPT ![h] =
    [pc |-> IF todo = {} THEN "idle" ELSE "load", todo |-> todo, task |-> NoTask]]

(* Faulty: every known batch is queued again, whatever its verdict. *)
AcknowledgeAny(h, b, todo) ==
  handler' = [handler EXCEPT ![h] = [pc |-> "guard", todo |-> todo, task |-> UploadTask(b)]]

(* Faulty: a row left at UPLOADING by a dead process is not picked up. *)
AcknowledgeQueuedOnly(h, b, todo) ==
  IF row[b] = "queued"
  THEN handler' = [handler EXCEPT ![h] =
                     [pc |-> "guard", todo |-> todo, task |-> UploadTask(b)]]
  ELSE Answer(h, todo)

(* _acknowledge_known: only a row read as queued or uploading is queued again. *)
Acknowledge(h, b, todo) ==
  IF row[b] \in {"queued", "uploading"}
  THEN handler' = [handler EXCEPT ![h] =
                     [pc |-> "guard", todo |-> todo, task |-> UploadTask(b)]]
  ELSE Answer(h, todo)

Post(h, f) ==
  /\ server = "up"
  /\ handler[h].pc = "idle"
  /\ manifest[f] # NoBatch
  /\ handler' = [handler EXCEPT ![h].pc = "load", ![h].todo = {f}]
  /\ UNCHANGED <<durable, batchQueue, worker, server, restarts>>

Rescan(h) ==
  /\ server = "up"
  /\ handler[h].pc = "idle"
  /\ \E f \in Folder : manifest[f] # NoBatch
  /\ handler' = [handler EXCEPT ![h].pc = "load",
                                ![h].todo = {f \in Folder : manifest[f] # NoBatch}]
  /\ UNCHANGED <<durable, batchQueue, worker, server, restarts>>

(* load_manifest, then find_by_batch_id. *)
Load(h) ==
  /\ handler[h].pc = "load"
  /\ \E f \in handler[h].todo :
       LET b == manifest[f]
           rest == handler[h].todo \ {f}
       IN IF row[b] = "none"
          THEN handler' = [handler EXCEPT ![h] =
                             [pc |-> "verify", todo |-> rest, task |-> UploadTask(b)]]
          ELSE Acknowledge(h, b, rest)
  /\ UNCHANGED <<durable, batchQueue, worker, server, restarts>>

(* verify_checksums: a listed file that is missing, torn or changed rejects. *)
Verify(h) ==
  LET b == handler[h].task.batch
  IN /\ handler[h].pc = "verify"
     /\ \/ /\ b \in EmptyBatch \/ source[FolderOf[b]] = "all"
           /\ Goto(h, "create")
        \/ /\ b \notin EmptyBatch
           /\ Goto(h, "reject")
     /\ UNCHANGED <<durable, batchQueue, worker, server, restarts>>

(* The REJECTED row is for the audit trail only; a row someone else created   *)
(* first stays as it is (IntegrityError, rollback).  Either way 422.          *)
Reject(h) ==
  LET b == handler[h].task.batch
  IN /\ handler[h].pc = "reject"
     /\ row' = IF row[b] = "none" THEN [row EXCEPT ![b] = "rejected"] ELSE row
     /\ Answer(h, handler[h].todo)
     /\ UNCHANGED <<proceed, manifest, source, batchQueue, worker, server, restarts>>

(* The QUEUED row.  Losing the create race leads to a second look-up. *)
Create(h) ==
  LET b == handler[h].task.batch
  IN /\ handler[h].pc = "create"
     /\ \/ /\ row[b] = "none"
           /\ row' = [row EXCEPT ![b] = "queued"]
           /\ Goto(h, "guard")
        \/ /\ row[b] # "none"
           /\ Goto(h, "refind")
           /\ UNCHANGED row
     /\ UNCHANGED <<proceed, manifest, source, batchQueue, worker, server, restarts>>

Refind(h) ==
  /\ handler[h].pc = "refind"
  /\ Acknowledge(h, handler[h].task.batch, handler[h].todo)
  /\ UNCHANGED <<durable, batchQueue, worker, server, restarts>>

(* Faulty: the task is queued without the decision being recorded. *)
RequestProceedUnrecorded(h, b, slots) ==
  /\ server = "up"
  /\ handler[h].pc = "idle"
  /\ row[b] = "incomplete"
  /\ handler' = [handler EXCEPT ![h].pc = "guard",
       ![h].task = [batch |-> b, mode |-> "proceed", slots |-> slots]]
  /\ UNCHANGED <<durable, batchQueue, worker, server, restarts>>

(* request_proceed: the status is read here, the slots are recorded in the   *)
(* next step, the task is queued after that.                                 *)
RequestProceed(h, b, slots) ==
  /\ server = "up"
  /\ handler[h].pc = "idle"
  /\ row[b] = "incomplete"
  /\ handler' = [handler EXCEPT ![h].pc = "record",
       ![h].task = [batch |-> b, mode |-> "proceed", slots |-> slots]]
  /\ UNCHANGED <<durable, batchQueue, worker, server, restarts>>

RecordProceed(h) ==
  LET t == handler[h].task
  IN /\ handler[h].pc = "record"
     /\ proceed' = [proceed EXCEPT ![t.batch] = t.slots]
     /\ Goto(h, "guard")
     /\ UNCHANGED <<row, manifest, source, batchQueue, worker, server, restarts>>
-----------------------------------------------------------------------------
(* BatchQueue.enqueue: the guard is taken under the lock, the put happens    *)
(* after the lock is released, a full queue takes the lock again.            *)

(* enqueue returned False: the caller is told the batch is already queued. *)
EnqueueDropped(h) ==
  /\ handler[h].pc = "guard"
  /\ Key(handler[h].task) \in inFlight
  /\ Answer(h, handler[h].todo)
  /\ UNCHANGED <<durable, batchQueue, worker, server, restarts>>

(* Faulty: the guard is taken without a look at who holds it. *)
TakeGuardUnchecked(h) ==
  /\ handler[h].pc = "guard"
  /\ inFlight' = inFlight \cup {Key(handler[h].task)}
  /\ Goto(h, "put")
  /\ UNCHANGED <<durable, queue, unfinished, worker, server, restarts>>

TakeGuard(h) ==
  /\ handler[h].pc = "guard"
  /\ Key(handler[h].task) \notin inFlight
  /\ inFlight' = inFlight \cup {Key(handler[h].task)}
  /\ Goto(h, "put")
  /\ UNCHANGED <<durable, queue, unfinished, worker, server, restarts>>

(* Faulty: the put ignores the bound of the queue. *)
PutUnbounded(h) ==
  /\ handler[h].pc = "put"
  /\ queue' = Append(queue, handler[h].task)
  /\ unfinished' = unfinished + 1
  /\ Answer(h, handler[h].todo)
  /\ UNCHANGED <<durable, inFlight, worker, server, restarts>>

PutNowait(h) ==
  /\ handler[h].pc = "put"
  /\ ~Full
  /\ queue' = Append(queue, handler[h].task)
  /\ unfinished' = unfinished + 1
  /\ Answer(h, handler[h].todo)
  /\ UNCHANGED <<durable, inFlight, worker, server, restarts>>

PutFull(h) ==
  /\ handler[h].pc = "put"
  /\ Full
  /\ Goto(h, "discard")
  /\ UNCHANGED <<durable, batchQueue, worker, server, restarts>>

(* Faulty: the guard taken for a refused put is not given back. *)
DiscardNothing(h) ==
  /\ handler[h].pc = "discard"
  /\ Answer(h, {})
  /\ UNCHANGED <<durable, batchQueue, worker, server, restarts>>

(* QueueFullError: 503 to a POST, and the end of a rescan or a proceed. *)
DiscardGuard(h) ==
  /\ handler[h].pc = "discard"
  /\ inFlight' = inFlight \ {Key(handler[h].task)}
  /\ Answer(h, {})
  /\ UNCHANGED <<durable, queue, unfinished, worker, server, restarts>>
-----------------------------------------------------------------------------
(* The worker thread. *)

(* Faulty: the guard is dropped as soon as the worker takes the task. *)
GetAndRelease ==
  /\ worker.pc = "idle"
  /\ queue # <<>>
  /\ Head(queue).mode # "shutdown"
  /\ queue' = Tail(queue)
  /\ inFlight' = inFlight \ {Key(Head(queue))}
  /\ worker' = [pc |-> "start", task |-> Head(queue), verdict |-> "none"]
  /\ UNCHANGED <<durable, unfinished, handler, server, restarts>>

Get ==
  /\ worker.pc = "idle"
  /\ queue # <<>>
  /\ Head(queue).mode # "shutdown"
  /\ queue' = Tail(queue)
  /\ worker' = [pc |-> "start", task |-> Head(queue), verdict |-> "none"]
  /\ UNCHANGED <<durable, inFlight, unfinished, handler, server, restarts>>

(* Faulty: the sentinel is never marked done. *)
GetShutdownUndone ==
  /\ worker.pc = "idle"
  /\ queue # <<>>
  /\ Head(queue).mode = "shutdown"
  /\ queue' = Tail(queue)
  /\ worker' = [worker EXCEPT !.pc = "stopped"]
  /\ UNCHANGED <<durable, inFlight, unfinished, handler, server, restarts>>

GetShutdown ==
  /\ worker.pc = "idle"
  /\ queue # <<>>
  /\ Head(queue).mode = "shutdown"
  /\ queue' = Tail(queue)
  /\ unfinished' = unfinished - 1
  /\ worker' = [worker EXCEPT !.pc = "stopped"]
  /\ UNCHANGED <<durable, inFlight, handler, server, restarts>>

(* A step of the run in hand that touches no queue and no request thread; *)
(* a verdict is only carried to the step that records it.                 *)
RunStep(mode, from, to) ==
  /\ worker.pc = from
  /\ worker.task.mode = mode
  /\ worker' = [worker EXCEPT !.pc = to, !.verdict = "none"]
  /\ UNCHANGED <<proceed, manifest, batchQueue, handler, server, restarts>>

SetBatchStatus(status) == row' = [row EXCEPT ![worker.task.batch] = status]

(* Every listed file is gone: a newer batch is taken to have uploaded them. *)
Superseded ==
  /\ RunStep("upload", "start", "finally")
  /\ Gone(worker.task.batch)
  /\ SetBatchStatus("unconfirmed")
  /\ UNCHANGED source

BeginUpload ==
  /\ RunStep("upload", "start", "setup")
  /\ ~Gone(worker.task.batch)
  /\ SetBatchStatus("uploading")
  /\ UNCHANGED source

(* A holiday, or a PROCESSID that is not runnable: files stay, row is QUEUED. *)
Defer ==
  /\ RunStep("upload", "setup", "finally")
  /\ SetBatchStatus("queued")
  /\ UNCHANGED source

SetupDone ==
  /\ RunStep("upload", "setup", "files")
  /\ UNCHANGED <<row, source>>

(* Reserving the PROCESSID failed: every file goes to uploadFailed. *)
SetupFails ==
  /\ RunStep("upload", "setup", "failing")
  /\ UNCHANGED <<row, source>>

(* One of several files has its outcome applied and leaves the folder. *)
MoveFile ==
  /\ \E pc \in {"failing", "files"} : RunStep("upload", pc, pc)
  /\ worker.task.batch \notin EmptyBatch
  /\ source[FolderOf[worker.task.batch]] = "all"
  /\ source' = [source EXCEPT ![FolderOf[worker.task.batch]] = "some"]
  /\ UNCHANGED row

(* The verdict is reached when every file of the run has been moved.  Files   *)
(* a superseding download put back meanwhile may stay.                        *)
Conclude(from, verdict) ==
  LET b == worker.task.batch
      f == FolderOf[b]
  IN /\ worker.pc = from
     /\ worker.task.mode = "upload"
     /\ worker' = [worker EXCEPT !.pc = "verdict", !.verdict = verdict]
     /\ \/ b \in EmptyBatch /\ UNCHANGED source
        \/ b \notin EmptyBatch /\ source' = [source EXCEPT ![f] = "none"]
        \/ b \notin EmptyBatch /\ manifest[f] # b /\ UNCHANGED source
     /\ UNCHANGED <<row, proceed, manifest, batchQueue, handler, server, restarts>>

SetupFailed == Conclude("failing", "failed")

(* A run is parked only over a slot that may be left unfilled and excused, *)
(* and fails only over a file.                                             *)
LaneEnds ==
  \E verdict \in {"confirmed", "incomplete", "failed"} :
    /\ verdict = "incomplete" => Slot # {}
    /\ verdict = "failed" => worker.task.batch \notin EmptyBatch
    /\ Conclude("files", verdict)

RecordVerdict ==
  /\ RunStep("upload", "verdict", "finally")
  /\ SetBatchStatus(worker.verdict)
  /\ UNCHANGED source

(* _proceed_batch: the named slots are excused and the batch is CONFIRMED, or *)
(* it stays INCOMPLETE with the reason.                                       *)
ProceedConfirms ==
  /\ RunStep("proceed", "start", "finally")
  /\ SetBatchStatus("confirmed")
  /\ UNCHANGED source

ProceedParks ==
  /\ RunStep("proceed", "start", "finally")
  /\ SetBatchStatus("incomplete")
  /\ UNCHANGED source

(* An exception out of process_batch, wherever the run is. *)
Fault ==
  /\ worker.pc \in {"start", "setup", "failing", "files", "verdict"}
  /\ worker' = [worker EXCEPT !.pc = "caught", !.verdict = "none"]
  /\ UNCHANGED <<durable, batchQueue, handler, server, restarts>>

(* mark_batch_failed, best effort: the status write may fail as well. *)
MarkBatchFailed ==
  /\ worker.pc = "caught"
  /\ \/ SetBatchStatus("failed")
     \/ UNCHANGED row
  /\ worker' = [worker EXCEPT !.pc = "finally"]
  /\ UNCHANGED <<proceed, manifest, source, batchQueue, handler, server, restarts>>

TaskDone ==
  /\ worker.pc = "finally"
  /\ unfinished' = unfinished - 1
  /\ worker' = [worker EXCEPT !.pc = "release"]
  /\ UNCHANGED <<durable, queue, inFlight, handler, server, restarts>>

(* Faulty: the worker never drops the guard of a finished run. *)
ReleaseNothing ==
  /\ worker.pc = "release"
  /\ worker' = IdleWorker
  /\ UNCHANGED <<durable, batchQueue, handler, server, restarts>>

Release ==
  /\ worker.pc = "release"
  /\ inFlight' = inFlight \ {Key(worker.task)}
  /\ worker' = IdleWorker
  /\ UNCHANGED <<durable, queue, unfinished, handler, server, restarts>>
-----------------------------------------------------------------------------
(* Faulty: the lifespan ends while requests are still being served. *)
BeginShutdownAtOnce ==
  /\ server = "up"
  /\ server' = "stopping"
  /\ UNCHANGED <<durable, batchQueue, worker, handler, restarts>>

(* The process.  The server stops taking requests and waits for those it has *)
(* before the lifespan's shutdown part runs.                                 *)
BeginShutdown ==
  /\ server = "up"
  /\ \A h \in Handler : handler[h].pc = "idle"
  /\ server' = "stopping"
  /\ UNCHANGED <<durable, batchQueue, worker, handler, restarts>>

(* Faulty: a put that does not wait; a full queue loses the sentinel. *)
RequestShutdownNowait ==
  /\ server = "stopping"
  /\ queue' = IF Full THEN queue ELSE Append(queue, SHUTDOWN)
  /\ unfinished' = IF Full THEN unfinished ELSE unfinished + 1
  /\ server' = "joining"
  /\ UNCHANGED <<durable, inFlight, worker, handler, restarts>>

(* A blocking put: the sentinel waits for room in a full queue. *)
RequestShutdown ==
  /\ server = "stopping"
  /\ ~Full
  /\ queue' = Append(queue, SHUTDOWN)
  /\ unfinished' = unfinished + 1
  /\ server' = "joining"
  /\ UNCHANGED <<durable, inFlight, worker, handler, restarts>>

(* The next process starts empty-handed: after a clean stop, or (a crash, or *)
(* the grace period of the join running out) with work lost.                 *)
Restart ==
  /\ \/ worker.pc = "stopped" /\ UNCHANGED restarts
     \/ restarts < MaxRestart /\ restarts' = restarts + 1
  /\ queue' = <<>>
  /\ inFlight' = {}
  /\ unfinished' = 0
  /\ worker' = IdleWorker
  /\ handler' = [h \in Handler |-> IdleHandler]
  /\ server' = "up"
  /\ UNCHANGED durable
-----------------------------------------------------------------------------
HandlerStep(h) ==
  \/ Load(h) \/ Verify(h) \/ Reject(h) \/ Create(h) \/ Refind(h)
  \/ RecordProceed(h)
  \/ EnqueueDropped(h) \/ TakeGuard(h) \/ PutNowait(h) \/ PutFull(h)
  \/ DiscardGuard(h)

WorkerStep ==
  \/ Get \/ GetShutdown
  \/ Superseded \/ BeginUpload \/ Defer \/ SetupDone \/ SetupFails
  \/ MoveFile \/ SetupFailed \/ LaneEnds \/ RecordVerdict
  \/ ProceedConfirms \/ ProceedParks
  \/ Fault \/ MarkBatchFailed \/ TaskDone \/ Release

Next ==
  \/ \E b \in Batch : Publish(b)
  \/ \E h \in Handler :
       \/ \E f \in Folder : Post(h, f)
       \/ Rescan(h)
       \/ \E b \in Batch, slots \in (SUBSET Slot) \ {{}} : RequestProceed(h, b, slots)
       \/ HandlerStep(h)
  \/ WorkerStep
  \/ BeginShutdown \/ RequestShutdown \/ Restart

Spec == Init /\ [][Next]_vars

(* What the process itself guarantees while it lives: its threads run. *)
ThreadFairness ==
  /\ WF_vars(WorkerStep)
  /\ \A h \in Handler : WF_vars(HandlerStep(h))
  /\ WF_vars(RequestShutdown)

LiveSpec == Spec /\ ThreadFairness

(* What recovery rests on besides: a process that stopped is started again, *)
(* whoever published a manifest posts it again and again, some attempt finds *)
(* room in the queue, CBOS does not defer every run of a batch, and the     *)
(* status write that would settle it does not fail every time.              *)
InHand(b) == worker.task.batch = b

RecoveryFairness(b) ==
  /\ WF_vars(worker.pc = "stopped" /\ Restart)
  /\ SF_vars(\E h \in Handler : Post(h, FolderOf[b]))
  /\ SF_vars(\E h \in Handler : handler[h].task.batch = b /\ PutNowait(h))
  /\ SF_vars(InHand(b) /\ SetupDone)
  /\ SF_vars(InHand(b) /\ (Superseded \/ RecordVerdict \/ MarkBatchFailed)
              /\ row'[b] \in Settled)
-----------------------------------------------------------------------------
WorkerState ==
  [pc : {"idle", "start", "setup", "failing", "files", "verdict", "caught",
         "finally", "release", "stopped"},
   task : Task \cup {NoTask},
   verdict : Status \cup {"none"}]

HandlerState ==
  [pc : {"idle", "load", "verify", "reject", "create", "refind", "record",
         "guard", "put", "discard"},
   todo : SUBSET Folder,
   task : Task \cup {NoTask}]

TypeOK ==
  /\ row \in [Batch -> Status \cup {"none"}]
  /\ proceed \in [Batch -> SUBSET Slot]
  /\ manifest \in [Folder -> Batch \cup {NoBatch}]
  /\ source \in [Folder -> {"all", "some", "none"}]
  /\ queue \in Seq(Task \cup {SHUTDOWN})
  /\ MaxSize > 0 => Len(queue) <= MaxSize
  /\ inFlight \subseteq Batch \X {"upload", "proceed"}
  /\ unfinished \in Nat
  /\ worker \in WorkerState
  /\ handler \in [Handler -> HandlerState]
  /\ server \in {"up", "stopping", "joining"}
  /\ restarts \in 0..MaxRestart
-----------------------------------------------------------------------------
(* Who holds a guard key: a task in the queue, the worker's task until it is *)
(* released, and a request thread between the two halves of enqueue.         *)
TasksIn(q) == {q[i] : i \in DOMAIN q} \ {SHUTDOWN}
KeysIn(q) == {Key(t) : t \in TasksIn(q)}
QueuedKeys == KeysIn(queue)
Busy == worker.pc \notin {"idle", "stopped"}
RunningKeys == IF Busy THEN {Key(worker.task)} ELSE {}
Putting == {h \in Handler : handler[h].pc \in {"put", "discard"}}
PuttingKeys == {Key(handler[h].task) : h \in Putting}

(* No batch is ever queued twice, queued while it is being processed, or     *)
(* claimed by two request threads (BatchQueue: "stops the same batch being   *)
(* queued twice while it is already queued or being processed").             *)
NoKeyHeldTwice ==
  /\ \A i, j \in DOMAIN queue : i # j => Key(queue[i]) # Key(queue[j])
  /\ \A g, h \in Putting : g # h => Key(handler[g].task) # Key(handler[h].task)
  /\ QueuedKeys \cap RunningKeys = {}
  /\ QueuedKeys \cap PuttingKeys = {}
  /\ RunningKeys \cap PuttingKeys = {}

(* The guard holds the keys of exactly those: one too few and a batch can be *)
(* queued twice, one too many and it can never be enqueued again for the     *)
(* life of the process (the comment in enqueue's Full branch).               *)
GuardExact == inFlight = QueuedKeys \cup RunningKeys \cup PuttingKeys

(* unfinished counts the queue and the task taken out of it, the sentinel    *)
(* included: zero on GET /queue-status means nothing is waiting or running.  *)
UnfinishedExact ==
  unfinished = Len(queue) +
    (IF worker.pc \in {"idle", "release", "stopped"} THEN 0 ELSE 1)

Claimed == TasksIn(queue)
           \cup (IF Busy THEN {worker.task} ELSE {})
           \cup {handler[h].task : h \in Putting}

(* enqueue refuses a batch only for the sake of that batch: a superseding    *)
(* manifest of the same folder is never swallowed by the one it supersedes   *)
(* (SegmentBatchTask.key).                                                   *)
SupersedingNotSwallowed ==
  \A h \in Handler :
    handler[h].pc = "guard" /\ Key(handler[h].task) \in inFlight =>
      \E t \in Claimed : t.batch = handler[h].task.batch /\ t.mode = handler[h].task.mode

(* A manifest whose checksums failed is recorded and never uploaded, however *)
(* concurrent posts of it interleave (submit_manifest).                      *)
RejectedNeverRuns ==
  \A b \in Batch : row[b] = "rejected" =>
    /\ \A t \in Claimed : t.batch # b
    /\ \A h \in Handler : handler[h].pc = "guard" => handler[h].task.batch # b

(* The ops decision is on the batches row before a force-proceed can run     *)
(* (request_proceed: "Records the ops decision, then queues").               *)
AuditBeforeProceed ==
  \A t \in Claimed : t.mode = "proceed" => proceed[t.batch] # {}

(* "Queue worker stopped cleanly": nothing that had been accepted is left.   *)
CleanStop ==
  worker.pc = "stopped" => queue = <<>> /\ inFlight = {} /\ unfinished = 0

(* Every guard key is given back in the end, so no batch is locked out of    *)
(* the queue (enqueue, upload_worker.run).                                   *)
Mode == {"upload"} \cup {"proceed" : s \in Slot}
GuardReleased ==
  \A b \in Batch, m \in Mode : <<b, m>> \in inFlight ~> <<b, m>> \notin inFlight

(* An orderly shutdown ends, also when the queue is full at that moment.     *)
ShutdownCompletes == server = "stopping" ~> worker.pc = "stopped" \/ server = "up"

(* POST /batches is its own recovery path: a manifest that is posted until   *)
(* its batch is settled does get it settled, through crashes, a full queue,  *)
(* lost races and deferrals (submit_manifest), if recovery's own assumptions *)
(* hold as well.                                                             *)
Current(b) == manifest[FolderOf[b]] = b
RepostRecovers ==
  \A b \in Batch :
    RecoveryFairness(b) => (Current(b) ~> row[b] \in Settled \/ ~Current(b))

(* The lane does what the guard is there for, whatever the threads do: the   *)
(* set _in_flight and the worker's task follow SingleFlight step by step.    *)
Flight == INSTANCE SingleFlight WITH
  Keys <- Batch \X {"upload", "proceed"}, claimed <- inFlight, running <- RunningKeys

ImplementsSingleFlight == Flight!Spec
=============================================================================
