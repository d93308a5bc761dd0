--------------------------- MODULE BatchLaneProofs ---------------------------
(***************************************************************************)
(* The safety of the batch lane for any number of batches, folders, slots  *)
(* and request threads, any queue bound and any number of restarts.        *)
(***************************************************************************)
EXTENDS BatchLane, SequenceTheorems, TLAPS

(* What a request thread's program counter says about the rest of its state. *)
HandlerOK ==
  \A h \in Handler :
    /\ handler[h].pc \notin {"idle", "load"} => handler[h].task \in Task
    /\ \A f \in handler[h].todo : manifest[f] \in Batch
    /\ server # "up" => handler[h].pc = "idle"

WorkerOK == Busy => worker.task \in Task

-----------------------------------------------------------------------------
(* How the request threads' moves change the state of one thread only. *)

(* Goto moves one request thread and leaves its task and its manifests alone. *)
LEMMA GotoMoves ==
  ASSUME handler \in [Handler -> HandlerState], NEW h \in Handler, NEW pc, Goto(h, pc)
  PROVE  /\ handler'[h].pc = pc
         /\ handler'[h].todo = handler[h].todo
         /\ handler'[h].task = handler[h].task
         /\ \A g \in Handler \ {h} : handler'[g] = handler[g]
  BY DEF Goto, HandlerState

(* Answer ends one thread's submission: no task, back to idle or the next manifest. *)
LEMMA AnswerMoves ==
  ASSUME handler \in [Handler -> HandlerState], NEW h \in Handler, NEW todo, Answer(h, todo)
  PROVE  /\ handler'[h].pc \in {"idle", "load"}
         /\ handler'[h].todo = todo
         /\ handler'[h].task = NoTask
         /\ \A g \in Handler \ {h} : handler'[g] = handler[g]
  BY DEF Answer, HandlerState

(* A known batch is either answered or taken to the guard as an upload task. *)
LEMMA AcknowledgeMoves ==
  ASSUME handler \in [Handler -> HandlerState], NEW h \in Handler, NEW b \in Batch, NEW todo,
         Acknowledge(h, b, todo)
  PROVE  /\ handler'[h].todo = todo
         /\ \/ /\ handler'[h].pc = "guard"
               /\ handler'[h].task = UploadTask(b)
               /\ row[b] \in {"queued", "uploading"}
            \/ /\ handler'[h].pc \in {"idle", "load"}
               /\ handler'[h].task = NoTask
         /\ \A g \in Handler \ {h} : handler'[g] = handler[g]
<1>1. CASE row[b] \in {"queued", "uploading"}
  BY <1>1 DEF Acknowledge
<1>2. CASE row[b] \notin {"queued", "uploading"}
  BY <1>2, AnswerMoves DEF Acknowledge
<1> QED
  BY <1>1, <1>2

(* A request thread's step moves that thread and neither the worker nor the server. *)
LEMMA HandlerStepKeeps ==
  ASSUME TypeOK, HandlerOK, NEW h \in Handler, HandlerStep(h)
  PROVE  HandlerOK'
<1> USE DEF HandlerOK
<1>0. handler \in [Handler -> HandlerState]
  BY DEF TypeOK
<1>1. CASE Load(h)
  <2>1. PICK f \in handler[h].todo :
          \/ handler' = [handler EXCEPT ![h] =
                          [pc |-> "verify", todo |-> handler[h].todo \ {f},
                           task |-> UploadTask(manifest[f])]]
          \/ Acknowledge(h, manifest[f], handler[h].todo \ {f})
    BY <1>1 DEF Load
  <2>2. manifest[f] \in Batch /\ UploadTask(manifest[f]) \in Task
    BY DEF UploadTask, Task
  <2>3. UNCHANGED <<manifest, server>> /\ handler[h].pc = "load"
    BY <1>1 DEF Load, durable
  <2> QED
    BY <1>0, <2>1, <2>2, <2>3, AcknowledgeMoves
<1>2. CASE Verify(h)
  BY <1>0, <1>2, GotoMoves DEF Verify, durable
<1>3. CASE Reject(h)
  BY <1>0, <1>3, AnswerMoves DEF Reject
<1>4. CASE Create(h)
  BY <1>0, <1>4, GotoMoves DEF Create
<1>5. CASE Refind(h)
  <2>1. handler[h].task.batch \in Batch /\ Acknowledge(h, handler[h].task.batch, handler[h].todo)
    BY <1>5 DEF Refind, Task
  <2>2. UploadTask(handler[h].task.batch) \in Task
    BY <2>1 DEF UploadTask, Task
  <2>3. UNCHANGED <<manifest, server>> /\ handler[h].pc = "refind"
    BY <1>5 DEF Refind, durable
  <2> QED
    BY <1>0, <2>1, <2>2, <2>3, AcknowledgeMoves
<1>6. CASE RecordProceed(h)
  BY <1>0, <1>6, GotoMoves DEF RecordProceed
<1>7. CASE EnqueueDropped(h)
  BY <1>0, <1>7, AnswerMoves DEF EnqueueDropped, durable
<1>8. CASE TakeGuard(h)
  BY <1>0, <1>8, GotoMoves DEF TakeGuard, durable
<1>9. CASE PutNowait(h)
  BY <1>0, <1>9, AnswerMoves DEF PutNowait, durable
<1>10. CASE PutFull(h)
  BY <1>0, <1>10, GotoMoves DEF PutFull, durable
<1>11. CASE DiscardGuard(h)
  BY <1>0, <1>11, AnswerMoves DEF DiscardGuard, durable
<1> QED
  BY <1>1, <1>2, <1>3, <1>4, <1>5, <1>6, <1>7, <1>8, <1>9, <1>10, <1>11 DEF HandlerStep

(* A step of the worker thread moves no request thread and not the server. *)
LEMMA WorkerStepKeeps ==
  ASSUME TypeOK, WorkerOK, WorkerStep
  PROVE  WorkerOK' /\ worker' \in WorkerState
<1> USE DEF WorkerOK, Busy, WorkerState
<1>0. worker \in WorkerState
  BY DEF TypeOK
<1>1. CASE Get
  <2>1. queue \in Seq(Task \cup {SHUTDOWN}) /\ queue # <<>> /\ Head(queue).mode # "shutdown"
    BY <1>1 DEF Get, TypeOK
  <2>2. Head(queue) \in Task
    BY <2>1, HeadTailProperties DEF SHUTDOWN
  <2> QED
    BY <1>1, <2>2 DEF Get
<1>2. CASE GetShutdown
  BY <1>0, <1>2 DEF GetShutdown
<1>3. CASE Superseded \/ BeginUpload \/ Defer \/ SetupDone \/ SetupFails \/ RecordVerdict
          \/ ProceedConfirms \/ ProceedParks
  BY <1>0, <1>3 DEF Superseded, BeginUpload, Defer, SetupDone, SetupFails, RecordVerdict,
                    ProceedConfirms, ProceedParks, RunStep
<1>4. CASE MoveFile
  BY <1>0, <1>4 DEF MoveFile, RunStep
<1>5. CASE SetupFailed \/ LaneEnds
  BY <1>0, <1>5 DEF SetupFailed, LaneEnds, Conclude, Status, Settled
<1>6. CASE Fault \/ MarkBatchFailed \/ TaskDone
  BY <1>0, <1>6 DEF Fault, MarkBatchFailed, TaskDone
<1>7. CASE Release
  BY <1>7 DEF Release, IdleWorker
<1> QED
  BY <1>1, <1>2, <1>3, <1>4, <1>5, <1>6, <1>7 DEF WorkerStep

-----------------------------------------------------------------------------
(* Sequences of tasks. *)

Distinct(q) == \A i, j \in DOMAIN q : i # j => Key(q[i]) # Key(q[j])

(* Appending to the queue adds one task to its tasks, unless it is the sentinel. *)
LEMMA TasksAppend ==
  ASSUME NEW S, NEW q \in Seq(S), NEW t \in S
  PROVE  TasksIn(Append(q, t)) = TasksIn(q) \cup ({t} \ {SHUTDOWN})
<1>1. DOMAIN Append(q, t) = DOMAIN q \cup {Len(q) + 1}
  OBVIOUS
<1>2. /\ Append(q, t)[Len(q) + 1] = t
      /\ \A i \in DOMAIN q : Append(q, t)[i] = q[i]
  OBVIOUS
<1> QED
  BY <1>1, <1>2 DEF TasksIn

(* The head of the queue is the only task its tail lacks. *)
LEMMA TasksTail ==
  ASSUME NEW S, NEW q \in Seq(S), q # <<>>
  PROVE  TasksIn(q) = TasksIn(Tail(q)) \cup ({Head(q)} \ {SHUTDOWN})
<1>1. /\ DOMAIN q = 1..Len(q) /\ Len(q) \in Nat \ {0}
      /\ DOMAIN Tail(q) = 1..(Len(q) - 1)
      /\ Head(q) = q[1]
      /\ \A i \in 1..(Len(q) - 1) : Tail(q)[i] = q[i + 1]
  OBVIOUS
<1>2. \A i \in DOMAIN q : q[i] = Head(q) \/ (i - 1 \in DOMAIN Tail(q) /\ q[i] = Tail(q)[i - 1])
  BY <1>1
<1>3. \A i \in DOMAIN Tail(q) : i + 1 \in DOMAIN q /\ Tail(q)[i] = q[i + 1]
  BY <1>1
<1>4. 1 \in DOMAIN q /\ q[1] = Head(q)
  BY <1>1
<1>5. \A x : x \in {q[i] : i \in DOMAIN q}
               <=> x = Head(q) \/ x \in {Tail(q)[i] : i \in DOMAIN Tail(q)}
  <2>1. ASSUME NEW i \in DOMAIN q
        PROVE  q[i] = Head(q) \/ q[i] \in {Tail(q)[j] : j \in DOMAIN Tail(q)}
    BY <1>2
  <2>2. ASSUME NEW i \in DOMAIN Tail(q)
        PROVE  Tail(q)[i] \in {q[j] : j \in DOMAIN q}
    BY <1>3
  <2>3. Head(q) \in {q[i] : i \in DOMAIN q}
    BY <1>4
  <2> QED
    BY <2>1, <2>2, <2>3, Zenon
<1>6. {q[i] : i \in DOMAIN q}
        = {Head(q)} \cup {Tail(q)[i] : i \in DOMAIN Tail(q)}
  BY <1>5, Zenon
<1> QED
  BY <1>6 DEF TasksIn

(* Appending a task whose key is not queued keeps the queued keys distinct. *)
LEMMA DistinctAppend ==
  ASSUME NEW S, NEW q \in Seq(S), NEW t \in S, Distinct(q),
         \A i \in DOMAIN q : Key(q[i]) # Key(t)
  PROVE  Distinct(Append(q, t))
<1>1. /\ DOMAIN Append(q, t) = DOMAIN q \cup {Len(q) + 1}
      /\ Append(q, t)[Len(q) + 1] = t
      /\ \A i \in DOMAIN q : Append(q, t)[i] = q[i]
  OBVIOUS
<1> QED
  BY <1>1 DEF Distinct

(* Taking the head off keeps the queued keys distinct and removes the head's own. *)
LEMMA DistinctTail ==
  ASSUME NEW S, NEW q \in Seq(S), q # <<>>, Distinct(q)
  PROVE  /\ Distinct(Tail(q))
         /\ Key(Head(q)) \notin KeysIn(Tail(q))
<1>1. /\ Head(q) = q[1] /\ 1 \in DOMAIN q
      /\ \A i \in DOMAIN Tail(q) : i + 1 \in DOMAIN q /\ i + 1 # 1 /\ Tail(q)[i] = q[i + 1]
  OBVIOUS
<1>2. \A i, j \in DOMAIN Tail(q) : i # j => i + 1 # j + 1
  OBVIOUS
<1> QED
  BY <1>1, <1>2 DEF Distinct, KeysIn, TasksIn

-----------------------------------------------------------------------------
(* Most steps leave every claim where it is; the others are these few.       *)
ClaimsKept ==
  /\ UNCHANGED <<queue, inFlight, RunningKeys, Putting, PuttingKeys>>
  /\ \A h \in Putting : handler'[h].task = handler[h].task
  /\ UNCHANGED worker \/ (Busy /\ Busy' /\ worker'.task = worker.task)
  /\ server # "up" => UNCHANGED server

ClaimStep ==
  \/ \E h \in Handler : TakeGuard(h) \/ PutNowait(h) \/ DiscardGuard(h)
  \/ Get \/ GetShutdown \/ Release \/ RequestShutdown \/ Restart

(* A move of one thread that neither enters nor leaves "put" and "discard",   *)
(* nor changes the task it holds there, keeps the claims of all of them.     *)
LEMMA PuttingKept ==
  ASSUME NEW h \in Handler,
         \A g \in Handler \ {h} : handler'[g] = handler[g],
         \/ handler[h].pc \notin {"put", "discard"} /\ handler'[h].pc \notin {"put", "discard"}
         \/ /\ handler[h].pc \in {"put", "discard"} /\ handler'[h].pc \in {"put", "discard"}
            /\ handler'[h].task = handler[h].task
  PROVE  /\ UNCHANGED <<Putting, PuttingKeys>>
         /\ \A g \in Putting : handler'[g].task = handler[g].task
<1>1. Putting' = Putting
  BY DEF Putting
<1>2. \A g \in Putting : handler'[g].task = handler[g].task
  BY DEF Putting
<1> QED
  BY <1>1, <1>2 DEF PuttingKeys

(* A request thread moves alone. *)
LEMMA HandlerStepFrame ==
  ASSUME TypeOK, HandlerOK, NEW h \in Handler, HandlerStep(h)
  PROVE  \A g \in Handler \ {h} : handler'[g] = handler[g]
<1>0. handler \in [Handler -> HandlerState]
  BY DEF TypeOK
<1>1. ASSUME NEW state, handler' = [handler EXCEPT ![h] = state]
      PROVE  \A g \in Handler \ {h} : handler'[g] = handler[g]
  BY <1>0, <1>1
<1>2. CASE Load(h) \/ Refind(h)
  BY <1>0, <1>2 DEF Load, Refind, Acknowledge, Answer
<1>3. CASE Verify(h) \/ Create(h) \/ RecordProceed(h) \/ TakeGuard(h) \/ PutFull(h)
  BY <1>0, <1>3, GotoMoves DEF Verify, Create, RecordProceed, TakeGuard, PutFull
<1>4. CASE Reject(h) \/ EnqueueDropped(h) \/ PutNowait(h) \/ DiscardGuard(h)
  BY <1>0, <1>4, AnswerMoves DEF Reject, EnqueueDropped, PutNowait, DiscardGuard
<1> QED
  BY <1>2, <1>3, <1>4 DEF HandlerStep

(* What a request thread's step can do to the guard, the queue and the worker's task. *)
LEMMA HandlerStepClaims ==
  ASSUME TypeOK, HandlerOK, NEW h \in Handler, HandlerStep(h)
  PROVE  ClaimsKept \/ ClaimStep
<1>0. handler \in [Handler -> HandlerState]
  BY DEF TypeOK
<1>1. ASSUME UNCHANGED <<queue, inFlight, worker, server>>,
             UNCHANGED <<Putting, PuttingKeys>>,
             \A g \in Putting : handler'[g].task = handler[g].task
      PROVE  ClaimsKept
  BY <1>1 DEF ClaimsKept, RunningKeys, Busy
<1>2. CASE Load(h)
  <2>1. /\ UNCHANGED <<queue, inFlight, worker, server>>
        /\ handler[h].pc = "load" /\ handler'[h].pc \notin {"put", "discard"}
        /\ \A g \in Handler \ {h} : handler'[g] = handler[g]
    <3>1. PICK f \in handler[h].todo :
            \/ handler' = [handler EXCEPT ![h] =
                            [pc |-> "verify", todo |-> handler[h].todo \ {f},
                             task |-> UploadTask(manifest[f])]]
            \/ Acknowledge(h, manifest[f], handler[h].todo \ {f})
      BY <1>2 DEF Load
    <3>2. manifest[f] \in Batch
      BY DEF HandlerOK
    <3> QED
      BY <1>0, <1>2, <3>1, <3>2, AcknowledgeMoves DEF Load, batchQueue
  <2> QED
    BY <1>1, <2>1, PuttingKept
<1>3. CASE Refind(h)
  <2>1. handler[h].task.batch \in Batch
    BY <1>3 DEF Refind, HandlerOK, Task
  <2>2. /\ UNCHANGED <<queue, inFlight, worker, server>>
        /\ handler[h].pc = "refind" /\ handler'[h].pc \notin {"put", "discard"}
        /\ \A g \in Handler \ {h} : handler'[g] = handler[g]
    BY <1>0, <1>3, <2>1, AcknowledgeMoves DEF Refind, batchQueue
  <2> QED
    BY <1>1, <2>2, PuttingKept
<1>4. CASE Verify(h) \/ Create(h) \/ RecordProceed(h)
  <2>1. /\ UNCHANGED <<queue, inFlight, worker, server>>
        /\ handler[h].pc \in {"verify", "create", "record"}
        /\ \E pc \in {"create", "reject", "guard", "refind"} : Goto(h, pc)
    BY <1>4 DEF Verify, Create, RecordProceed, batchQueue
  <2>2. /\ handler'[h].pc \notin {"put", "discard"}
        /\ \A g \in Handler \ {h} : handler'[g] = handler[g]
    BY <1>0, <2>1, GotoMoves
  <2> QED
    BY <1>1, <2>1, <2>2, PuttingKept
<1>5. CASE Reject(h) \/ EnqueueDropped(h)
  <2>1. /\ UNCHANGED <<queue, inFlight, worker, server>>
        /\ handler[h].pc \in {"reject", "guard"}
        /\ Answer(h, handler[h].todo)
    BY <1>5 DEF Reject, EnqueueDropped, batchQueue
  <2>2. /\ handler'[h].pc \notin {"put", "discard"}
        /\ \A g \in Handler \ {h} : handler'[g] = handler[g]
    BY <1>0, <2>1, AnswerMoves
  <2> QED
    BY <1>1, <2>1, <2>2, PuttingKept
<1>6. CASE PutFull(h)
  <2>1. /\ UNCHANGED <<queue, inFlight, worker, server>>
        /\ handler[h].pc = "put"
        /\ Goto(h, "discard")
    BY <1>6 DEF PutFull, batchQueue
  <2>2. /\ handler'[h].pc = "discard" /\ handler'[h].task = handler[h].task
        /\ \A g \in Handler \ {h} : handler'[g] = handler[g]
    BY <1>0, <2>1, GotoMoves
  <2> QED
    BY <1>1, <2>1, <2>2, PuttingKept
<1>7. CASE TakeGuard(h) \/ PutNowait(h) \/ DiscardGuard(h)
  BY <1>7 DEF ClaimStep
<1> QED
  BY <1>2, <1>3, <1>4, <1>5, <1>6, <1>7 DEF HandlerStep

(* The run in hand and its task stay the same until the worker releases it.  *)
LEMMA WorkerStepClaims ==
  ASSUME worker \in WorkerState, WorkerStep
  PROVE  ClaimsKept \/ ClaimStep
<1>1. CASE Get \/ GetShutdown \/ Release
  BY <1>1 DEF ClaimStep
<1>2. ASSUME UNCHANGED <<queue, inFlight, handler, server>>, Busy, Busy', worker'.task = worker.task
      PROVE  ClaimsKept
  BY <1>2 DEF ClaimsKept, RunningKeys, Putting, PuttingKeys
<1>3. CASE Superseded \/ BeginUpload \/ Defer \/ SetupDone \/ SetupFails \/ RecordVerdict
          \/ ProceedConfirms \/ ProceedParks \/ MoveFile
  <2>1. \E mode \in {"upload", "proceed"},
          from \in {"start", "setup", "failing", "files", "verdict"},
          to \in {"setup", "failing", "files", "finally"} : RunStep(mode, from, to)
    BY <1>3 DEF Superseded, BeginUpload, Defer, SetupDone, SetupFails, RecordVerdict,
                ProceedConfirms, ProceedParks, MoveFile
  <2> QED
    BY <1>2, <2>1 DEF RunStep, Busy, batchQueue, WorkerState
<1>4. CASE SetupFailed \/ LaneEnds
  <2>1. \E from \in {"failing", "files"}, verdict \in {"confirmed", "incomplete", "failed"} :
          Conclude(from, verdict)
    BY <1>4 DEF SetupFailed, LaneEnds
  <2> QED
    BY <1>2, <2>1 DEF Conclude, Busy, batchQueue, WorkerState
<1>5. CASE Fault \/ MarkBatchFailed \/ TaskDone
  BY <1>2, <1>5 DEF Fault, MarkBatchFailed, TaskDone, Busy, batchQueue, WorkerState
<1> QED
  BY <1>1, <1>3, <1>4, <1>5 DEF WorkerStep

(* What any step of the lane can do to the guard, the queue and the worker's task. *)
LEMMA StepClaims ==
  ASSUME TypeOK, HandlerOK, [Next]_vars
  PROVE  ClaimsKept \/ ClaimStep
<1>0. handler \in [Handler -> HandlerState] /\ worker \in WorkerState
  BY DEF TypeOK
<1>1. CASE \E h \in Handler : HandlerStep(h)
  BY <1>1, HandlerStepClaims
<1>2. CASE WorkerStep
  BY <1>0, <1>2, WorkerStepClaims
<1>3. ASSUME UNCHANGED <<queue, inFlight, worker>>, server # "up" => UNCHANGED server,
             UNCHANGED <<Putting, PuttingKeys>>,
             \A g \in Putting : handler'[g].task = handler[g].task
      PROVE  ClaimsKept
  BY <1>3 DEF ClaimsKept, RunningKeys, Busy
<1>4. ASSUME NEW h \in Handler,
             \/ \E f \in Folder : Post(h, f)
             \/ Rescan(h)
             \/ \E b \in Batch, slots \in SUBSET Slot : RequestProceed(h, b, slots)
      PROVE  ClaimsKept
  <2>1. /\ UNCHANGED <<queue, inFlight, worker, server>>
        /\ handler[h].pc = "idle" /\ handler'[h].pc \notin {"put", "discard"}
        /\ \A g \in Handler \ {h} : handler'[g] = handler[g]
    BY <1>0, <1>4 DEF Post, Rescan, RequestProceed, HandlerState, batchQueue
  <2> QED
    BY <1>3, <2>1, PuttingKept
<1>5. CASE UNCHANGED <<queue, inFlight, worker, handler>> /\ (server # "up" => UNCHANGED server)
  BY <1>3, <1>5 DEF Putting, PuttingKeys
<1>6. CASE RequestShutdown \/ Restart
  BY <1>6 DEF ClaimStep
<1>7. CASE UNCHANGED vars \/ BeginShutdown \/ \E b \in Batch : Publish(b)
  BY <1>5, <1>7 DEF vars, volatile, batchQueue, BeginShutdown, Publish
<1> QED
  BY <1>1, <1>2, <1>4, <1>6, <1>7 DEF Next

-----------------------------------------------------------------------------
(* The inductive invariant.                                                  *)

(* The sentinel is put last and only while the lifespan joins the worker;    *)
(* the worker has stopped only when it has taken it.                         *)
Sentinel ==
  /\ \A i \in DOMAIN queue : queue[i] = SHUTDOWN => i = Len(queue) /\ server = "joining"
  /\ worker.pc = "stopped" => server = "joining" /\ queue = <<>>

Inv ==
  /\ TypeOK
  /\ HandlerOK
  /\ WorkerOK
  /\ UnfinishedExact
  /\ Sentinel
  /\ GuardExact
  /\ NoKeyHeldTwice

(* The process starts with an empty queue, no guard and every thread idle (lifespan). *)
LEMMA InvInit == Init => Inv
<1> SUFFICES ASSUME Init PROVE Inv
  OBVIOUS
<1>1. TypeOK
  BY ConstantsAssumption, EmptySeq
     DEF Init, TypeOK, ConstantsAssumption, WorkerState, HandlerState, IdleWorker, IdleHandler
<1>2. HandlerOK /\ WorkerOK
  BY DEF Init, HandlerOK, WorkerOK, Busy, IdleWorker, IdleHandler
<1>3. UnfinishedExact /\ Sentinel
  BY DEF Init, UnfinishedExact, Sentinel, IdleWorker
<1>4. TasksIn(queue) = {} /\ RunningKeys = {} /\ Putting = {}
  BY DEF Init, TasksIn, RunningKeys, Busy, IdleWorker, Putting, IdleHandler
<1>5. GuardExact /\ NoKeyHeldTwice
  BY <1>4 DEF Init, GuardExact, NoKeyHeldTwice, QueuedKeys, KeysIn, PuttingKeys
<1> QED
  BY <1>1, <1>2, <1>3, <1>5 DEF Inv

(* Every step leaves the request threads in states they can be in. *)
LEMMA HandlerStepTypes ==
  ASSUME TypeOK, HandlerOK, NEW h \in Handler, HandlerStep(h)
  PROVE  handler' \in [Handler -> HandlerState]
<1>0. handler \in [Handler -> HandlerState]
  BY DEF TypeOK
<1>1. ASSUME NEW pc \in {"reject", "create", "refind", "guard", "put", "discard"}, Goto(h, pc)
      PROVE  handler' \in [Handler -> HandlerState]
  BY <1>0, <1>1 DEF Goto, HandlerState
<1>2. ASSUME NEW todo \in SUBSET Folder, Answer(h, todo)
      PROVE  handler' \in [Handler -> HandlerState]
  BY <1>0, <1>2 DEF Answer, HandlerState
<1>3. ASSUME NEW b \in Batch, NEW todo \in SUBSET Folder, Acknowledge(h, b, todo)
      PROVE  handler' \in [Handler -> HandlerState]
  <2>1. UploadTask(b) \in Task
    BY DEF UploadTask, Task
  <2> QED
    BY <1>0, <1>2, <1>3, <2>1 DEF Acknowledge, HandlerState
<1>4. handler[h].todo \in SUBSET Folder
  BY <1>0 DEF HandlerState
<1>5. CASE Load(h)
  <2>1. PICK f \in handler[h].todo :
          \/ handler' = [handler EXCEPT ![h] =
                          [pc |-> "verify", todo |-> handler[h].todo \ {f},
                           task |-> UploadTask(manifest[f])]]
          \/ Acknowledge(h, manifest[f], handler[h].todo \ {f})
    BY <1>5 DEF Load
  <2>2. manifest[f] \in Batch /\ UploadTask(manifest[f]) \in Task
    BY DEF HandlerOK, UploadTask, Task
  <2> QED
    BY <1>0, <1>3, <1>4, <2>1, <2>2 DEF HandlerState
<1>6. CASE Refind(h)
  <2>1. handler[h].task.batch \in Batch
    BY <1>6 DEF Refind, HandlerOK, Task
  <2> QED
    BY <1>3, <1>4, <1>6, <2>1 DEF Refind
<1>7. CASE Verify(h) \/ Create(h) \/ RecordProceed(h) \/ TakeGuard(h) \/ PutFull(h)
  BY <1>1, <1>7 DEF Verify, Create, RecordProceed, TakeGuard, PutFull
<1>8. CASE Reject(h) \/ EnqueueDropped(h) \/ PutNowait(h) \/ DiscardGuard(h)
  BY <1>2, <1>4, <1>8 DEF Reject, EnqueueDropped, PutNowait, DiscardGuard
<1> QED
  BY <1>5, <1>6, <1>7, <1>8 DEF HandlerStep

(* Every step leaves the request threads and the worker in states they can be in. *)
LEMMA ThreadsStep ==
  ASSUME TypeOK, HandlerOK, WorkerOK, [Next]_vars
  PROVE  /\ HandlerOK' /\ handler' \in [Handler -> HandlerState]
         /\ WorkerOK' /\ worker' \in WorkerState
<1>0. handler \in [Handler -> HandlerState] /\ worker \in WorkerState
  BY DEF TypeOK
<1>1. ASSUME UNCHANGED worker PROVE WorkerOK' /\ worker' \in WorkerState
  BY <1>0, <1>1 DEF WorkerOK, Busy
<1>2. ASSUME UNCHANGED <<handler, manifest, server>>
      PROVE  HandlerOK' /\ handler' \in [Handler -> HandlerState]
  BY <1>0, <1>2 DEF HandlerOK
<1>3. CASE \E h \in Handler : HandlerStep(h)
  <2>1. UNCHANGED worker
    BY <1>3 DEF HandlerStep, Load, Verify, Reject, Create, Refind, RecordProceed, EnqueueDropped,
                TakeGuard, PutNowait, PutFull, DiscardGuard
  <2> QED
    BY <1>1, <1>3, <2>1, HandlerStepKeeps, HandlerStepTypes
<1>4. CASE WorkerStep
  <2>1. UNCHANGED <<handler, manifest, server>>
    BY <1>4 DEF WorkerStep, Get, GetShutdown, Superseded, BeginUpload, Defer, SetupDone,
                SetupFails, MoveFile, SetupFailed, LaneEnds, RecordVerdict, ProceedConfirms,
                ProceedParks, Fault, MarkBatchFailed, TaskDone, Release, RunStep, Conclude, durable
  <2> QED
    BY <1>2, <1>4, <2>1, WorkerStepKeeps
<1>5. ASSUME NEW h \in Handler,
             (\E f \in Folder : Post(h, f)) \/ Rescan(h)
      PROVE  /\ HandlerOK' /\ handler' \in [Handler -> HandlerState] /\ UNCHANGED worker
  <2>1. PICK todo \in SUBSET Folder :
          /\ handler' = [handler EXCEPT ![h].pc = "load", ![h].todo = todo]
          /\ \A f \in todo : manifest[f] # NoBatch
    <3>1. ASSUME Rescan(h), NEW T, T = {f \in Folder : manifest[f] # NoBatch}
          PROVE  /\ handler' = [handler EXCEPT ![h].pc = "load", ![h].todo = T]
                 /\ T \in SUBSET Folder /\ \A f \in T : manifest[f] # NoBatch
      BY <3>1 DEF Rescan
    <3>2. ASSUME NEW f \in Folder, Post(h, f)
          PROVE  /\ handler' = [handler EXCEPT ![h].pc = "load", ![h].todo = {f}]
                 /\ manifest[f] # NoBatch /\ {f} \in SUBSET Folder
      BY <3>2 DEF Post
    <3> QED
      BY <1>5, <3>1, <3>2
  <2>2. \A f \in todo : manifest[f] \in Batch
    BY <2>1 DEF TypeOK
  <2>3. server = "up" /\ UNCHANGED <<manifest, server, worker>>
    BY <1>5 DEF Post, Rescan, durable
  <2> QED
    BY <1>0, <2>1, <2>2, <2>3 DEF HandlerOK, HandlerState
<1>6. ASSUME NEW h \in Handler, NEW b \in Batch, NEW slots \in SUBSET Slot,
             RequestProceed(h, b, slots)
      PROVE  /\ HandlerOK' /\ handler' \in [Handler -> HandlerState] /\ UNCHANGED worker
  <2>1. [batch |-> b, mode |-> "proceed", slots |-> slots] \in Task
    BY DEF Task
  <2>2. server = "up" /\ UNCHANGED <<manifest, server, worker>>
    BY <1>6 DEF RequestProceed, durable
  <2> QED
    BY <1>0, <1>6, <2>1, <2>2 DEF RequestProceed, HandlerOK, HandlerState
<1>7. ASSUME NEW b \in Batch, Publish(b)
      PROVE  /\ HandlerOK' /\ handler' \in [Handler -> HandlerState] /\ UNCHANGED worker
  BY <1>0, <1>7 DEF Publish, volatile, HandlerOK, TypeOK
<1>8. CASE BeginShutdown \/ RequestShutdown
  BY <1>0, <1>1, <1>8 DEF BeginShutdown, RequestShutdown, HandlerOK, durable
<1>9. CASE Restart
  BY <1>9 DEF Restart, HandlerOK, WorkerOK, Busy, IdleWorker, IdleHandler, HandlerState,
              WorkerState, durable
<1>10. CASE UNCHANGED vars
  BY <1>1, <1>2, <1>10 DEF vars, durable, volatile
<1> QED
  BY <1>1, <1>3, <1>4, <1>5, <1>6, <1>7, <1>8, <1>9, <1>10 DEF Next

(* The columns, the manifests and the folders hold what they may hold. *)
DurableType ==
  /\ row \in [Batch -> Status \cup {"none"}]
  /\ proceed \in [Batch -> SUBSET Slot]
  /\ manifest \in [Folder -> Batch \cup {NoBatch}]
  /\ source \in [Folder -> {"all", "some", "none"}]

(* Every step keeps the types of what survives a restart: table, manifests, files. *)
LEMMA DurableStep ==
  ASSUME TypeOK, HandlerOK, WorkerOK, [Next]_vars
  PROVE  DurableType'
<1> USE DEF DurableType
<1>0. DurableType
  BY DEF TypeOK
<1>1. CASE UNCHANGED durable
  BY <1>0, <1>1 DEF durable
<1>2. ASSUME NEW h \in Handler, HandlerStep(h) PROVE DurableType'
  <2>1. CASE Reject(h)
    BY <1>0, <2>1 DEF Reject, Status, Settled
  <2>2. CASE Create(h)
    BY <1>0, <2>2 DEF Create, Status
  <2>3. CASE RecordProceed(h)
    <3>1. handler[h].task \in Task
      BY <2>3 DEF RecordProceed, HandlerOK
    <3> QED
      BY <1>0, <2>3, <3>1 DEF RecordProceed, Task
  <2>4. CASE UNCHANGED durable
    BY <1>1, <2>4
  <2> QED
    BY <1>2, <2>1, <2>2, <2>3, <2>4
       DEF HandlerStep, Load, Verify, Refind, EnqueueDropped, TakeGuard, PutNowait, PutFull,
           DiscardGuard
<1>3. CASE WorkerStep
  <2>0. worker \in WorkerState
    BY DEF TypeOK
  <2>1. ASSUME NEW status \in Status, SetBatchStatus(status)
        PROVE  row' \in [Batch -> Status \cup {"none"}]
    BY <1>0, <2>1 DEF SetBatchStatus
  <2>2. CASE Superseded \/ BeginUpload \/ Defer \/ ProceedConfirms \/ ProceedParks
    BY <1>0, <2>1, <2>2 DEF Superseded, BeginUpload, Defer, ProceedConfirms, ProceedParks,
                            RunStep, Status, Settled
  <2>3. CASE RecordVerdict
    BY <1>0, <2>0, <2>3 DEF RecordVerdict, RunStep, SetBatchStatus, WorkerState
  <2>4. CASE SetupDone \/ SetupFails \/ MoveFile
    BY <1>0, <2>4 DEF SetupDone, SetupFails, MoveFile, RunStep
  <2>5. CASE SetupFailed \/ LaneEnds
    BY <1>0, <2>5 DEF SetupFailed, LaneEnds, Conclude
  <2>6. CASE MarkBatchFailed
    BY <1>0, <2>1, <2>6 DEF MarkBatchFailed, Status, Settled
  <2>7. CASE UNCHANGED durable
    BY <1>1, <2>7
  <2> QED
    BY <1>3, <2>2, <2>3, <2>4, <2>5, <2>6, <2>7
       DEF WorkerStep, Get, GetShutdown, Fault, TaskDone, Release
<1>4. ASSUME NEW b \in Batch, Publish(b) PROVE DurableType'
  BY <1>0, <1>4 DEF Publish
<1> QED
  BY <1>1, <1>2, <1>3, <1>4
     DEF Next, Post, Rescan, RequestProceed, BeginShutdown, RequestShutdown, Restart, vars

(* The queue stays within its bound, and only keys of batches are guarded. *)
QueueType ==
  /\ queue \in Seq(Task \cup {SHUTDOWN})
  /\ MaxSize > 0 => Len(queue) <= MaxSize
  /\ inFlight \subseteq Batch \X {"upload", "proceed"}

(* Every step keeps the types of queue and guard, and the queue its bound. *)
LEMMA QueueStep ==
  ASSUME TypeOK, HandlerOK, WorkerOK, [Next]_vars
  PROVE  QueueType'
<1> USE DEF QueueType
<1>0. QueueType
  BY DEF TypeOK
<1>1. CASE ClaimsKept
  BY <1>0, <1>1 DEF ClaimsKept
<1>2. ASSUME NEW h \in Handler, TakeGuard(h) PROVE QueueType'
  <2>1. handler[h].task \in Task
    BY <1>2 DEF TakeGuard, HandlerOK
  <2> QED
    BY <1>0, <1>2, <2>1 DEF TakeGuard, Key, Task
<1>3. ASSUME NEW t \in Task \cup {SHUTDOWN}, ~Full, queue' = Append(queue, t)
      PROVE  /\ queue' \in Seq(Task \cup {SHUTDOWN})
             /\ MaxSize > 0 => Len(queue') <= MaxSize
  BY <1>0, <1>3, ConstantsAssumption DEF Full, ConstantsAssumption
<1>4. ASSUME NEW h \in Handler, PutNowait(h) PROVE QueueType'
  <2>1. handler[h].task \in Task
    BY <1>4 DEF PutNowait, HandlerOK
  <2> QED
    BY <1>0, <1>3, <1>4, <2>1 DEF PutNowait
<1>5. ASSUME NEW h \in Handler, DiscardGuard(h) PROVE QueueType'
  BY <1>0, <1>5 DEF DiscardGuard
<1>6. CASE Get \/ GetShutdown
  <2>1. queue # <<>> /\ queue' = Tail(queue) /\ UNCHANGED inFlight
    BY <1>6 DEF Get, GetShutdown
  <2>2. queue' \in Seq(Task \cup {SHUTDOWN}) /\ Len(queue') = Len(queue) - 1 /\ Len(queue) \in Nat
    BY <1>0, <2>1
  <2> QED
    BY <1>0, <2>1, <2>2, ConstantsAssumption DEF ConstantsAssumption
<1>7. CASE Release
  BY <1>0, <1>7 DEF Release
<1>8. CASE RequestShutdown
  BY <1>0, <1>3, <1>8 DEF RequestShutdown
<1>9. CASE Restart
  BY <1>9, EmptySeq, ConstantsAssumption DEF Restart, ConstantsAssumption
<1> QED
  BY <1>1, <1>2, <1>4, <1>5, <1>6, <1>7, <1>8, <1>9, StepClaims DEF ClaimStep

(* The count of unfinished tasks moves with the queue and the worker.        *)
LEMMA UnfinishedStep ==
  ASSUME TypeOK, HandlerOK, WorkerOK, UnfinishedExact, [Next]_vars
  PROVE  UnfinishedExact'
<1> USE DEF UnfinishedExact
<1>0. /\ queue \in Seq(Task \cup {SHUTDOWN}) /\ Len(queue) \in Nat /\ unfinished \in Nat
      /\ worker \in WorkerState
  BY DEF TypeOK
<1>1. CASE UNCHANGED <<queue, unfinished, worker>>
  BY <1>1
<1>2. ASSUME NEW t \in Task \cup {SHUTDOWN}, queue' = Append(queue, t),
             unfinished' = unfinished + 1, UNCHANGED worker
      PROVE  UnfinishedExact'
  <2>1. Len(queue') = Len(queue) + 1
    BY <1>0, <1>2
  <2> QED
    BY <1>0, <1>2, <2>1
<1>3. ASSUME NEW h \in Handler, HandlerStep(h) PROVE UnfinishedExact'
  <2>1. CASE PutNowait(h)
    <3>1. handler[h].task \in Task
      BY <2>1 DEF PutNowait, HandlerOK
    <3> QED
      BY <1>2, <2>1, <3>1 DEF PutNowait
  <2> QED
    BY <1>1, <1>3, <2>1
       DEF HandlerStep, Load, Verify, Reject, Create, Refind, RecordProceed, EnqueueDropped,
           TakeGuard, PutFull, DiscardGuard, batchQueue
<1>4. CASE WorkerStep
  <2>1. ASSUME Get \/ GetShutdown PROVE Len(queue') = Len(queue) - 1
    BY <1>0, <2>1 DEF Get, GetShutdown
  <2>2. CASE Get \/ GetShutdown
    BY <1>0, <2>1, <2>2 DEF Get, GetShutdown, WorkerState
  <2>3. CASE TaskDone \/ Release
    BY <1>0, <2>3 DEF TaskDone, Release, IdleWorker, WorkerState
  <2>4. ASSUME UNCHANGED <<queue, unfinished>>,
               {worker.pc, worker'.pc} \cap {"idle", "release", "stopped"} = {}
        PROVE  UnfinishedExact'
    BY <2>4
  <2>5. CASE Superseded \/ BeginUpload \/ Defer \/ SetupDone \/ SetupFails \/ MoveFile
            \/ RecordVerdict \/ ProceedConfirms \/ ProceedParks
    BY <1>0, <2>4, <2>5 DEF Superseded, BeginUpload, Defer, SetupDone, SetupFails, MoveFile,
         RecordVerdict, ProceedConfirms, ProceedParks, RunStep, batchQueue, WorkerState
  <2>6. CASE SetupFailed \/ LaneEnds \/ Fault \/ MarkBatchFailed
    BY <1>0, <2>4, <2>6
       DEF SetupFailed, LaneEnds, Conclude, Fault, MarkBatchFailed, batchQueue, WorkerState
  <2> QED
    BY <1>4, <2>2, <2>3, <2>5, <2>6 DEF WorkerStep
<1>5. CASE RequestShutdown
  BY <1>2, <1>5 DEF RequestShutdown
<1>6. CASE Restart
  BY <1>6 DEF Restart, IdleWorker
<1> QED
  BY <1>1, <1>3, <1>4, <1>5, <1>6
     DEF Next, Publish, Post, Rescan, RequestProceed, BeginShutdown, vars, volatile, batchQueue

(* Every step keeps the type invariant. *)
LEMMA TypeStep ==
  ASSUME TypeOK, HandlerOK, WorkerOK, UnfinishedExact, [Next]_vars
  PROVE  TypeOK'
<1>1. handler' \in [Handler -> HandlerState] /\ worker' \in WorkerState
  BY ThreadsStep
<1>2. DurableType' /\ QueueType'
  BY DurableStep, QueueStep
<1>3. unfinished' \in Nat
  <2>1. UnfinishedExact' /\ Len(queue') \in Nat
    BY <1>2, UnfinishedStep DEF QueueType
  <2> QED
    BY <2>1 DEF UnfinishedExact
<1>4. server' \in {"up", "stopping", "joining"} /\ restarts' \in 0..MaxRestart
  <2>1. server \in {"up", "stopping", "joining"} /\ restarts \in 0..MaxRestart
    BY DEF TypeOK
  <2>2. CASE UNCHANGED <<server, restarts>>
    BY <2>1, <2>2
  <2>3. CASE BeginShutdown \/ RequestShutdown \/ Restart
    BY <2>1, <2>3, ConstantsAssumption
       DEF BeginShutdown, RequestShutdown, Restart, ConstantsAssumption
  <2>4. ASSUME NEW h \in Handler, HandlerStep(h) PROVE UNCHANGED <<server, restarts>>
    BY <2>4 DEF HandlerStep, Load, Verify, Reject, Create, Refind, RecordProceed, EnqueueDropped,
                TakeGuard, PutNowait, PutFull, DiscardGuard
  <2>5. ASSUME WorkerStep PROVE UNCHANGED <<server, restarts>>
    BY <2>5 DEF WorkerStep, Get, GetShutdown, Superseded, BeginUpload, Defer, SetupDone,
                SetupFails, MoveFile, SetupFailed, LaneEnds, RecordVerdict, ProceedConfirms,
                ProceedParks, Fault, MarkBatchFailed, TaskDone, Release, RunStep, Conclude
  <2> QED
    BY <2>2, <2>3, <2>4, <2>5
       DEF Next, Publish, Post, Rescan, RequestProceed, vars, volatile
<1> QED
  BY <1>1, <1>2, <1>3, <1>4 DEF TypeOK, DurableType, QueueType

(* Every step keeps the sentinel last in the queue and put only during shutdown. *)
LEMMA SentinelStep ==
  ASSUME Inv, [Next]_vars
  PROVE  Sentinel'
<1> USE DEF Inv, Sentinel
<1>0. queue \in Seq(Task \cup {SHUTDOWN}) /\ Len(queue) \in Nat /\ worker \in WorkerState
  BY DEF TypeOK
<1>1. CASE ClaimsKept
  BY <1>1 DEF ClaimsKept, Busy
<1>2. ASSUME NEW h \in Handler, TakeGuard(h) \/ DiscardGuard(h) PROVE Sentinel'
  BY <1>2 DEF TakeGuard, DiscardGuard
<1>3. ASSUME NEW h \in Handler, PutNowait(h) PROVE Sentinel'
  <2>1. /\ handler[h].task \in Task /\ handler[h].task # SHUTDOWN
        /\ queue' = Append(queue, handler[h].task)
        /\ server = "up" /\ UNCHANGED <<server, worker>>
    BY <1>3 DEF PutNowait, HandlerOK, Task, SHUTDOWN
  <2>2. /\ DOMAIN queue' = DOMAIN queue \cup {Len(queue) + 1}
        /\ queue'[Len(queue) + 1] = handler[h].task
        /\ \A i \in DOMAIN queue : queue'[i] = queue[i]
    BY <1>0, <2>1
  <2> QED
    BY <2>1, <2>2
<1>4. CASE RequestShutdown
  <2>1. /\ queue' = Append(queue, SHUTDOWN)
        /\ server = "stopping" /\ server' = "joining" /\ UNCHANGED worker
    BY <1>4 DEF RequestShutdown
  <2>2. /\ DOMAIN queue' = DOMAIN queue \cup {Len(queue) + 1}
        /\ Len(queue') = Len(queue) + 1
        /\ \A i \in DOMAIN queue : queue'[i] = queue[i]
    BY <1>0, <2>1
  <2> QED
    BY <2>1, <2>2
<1>5. CASE Get \/ GetShutdown
  <2>1. queue # <<>> /\ queue' = Tail(queue) /\ UNCHANGED server
    BY <1>5 DEF Get, GetShutdown
  <2>2. /\ 1 \in DOMAIN queue /\ Head(queue) = queue[1]
        /\ Len(queue') = Len(queue) - 1
        /\ Len(queue) = 1 => queue' = <<>>
        /\ \A i \in DOMAIN queue' : i + 1 \in DOMAIN queue /\ queue'[i] = queue[i + 1] /\ i \in Nat
    BY <1>0, <2>1
  <2>3. \A i \in DOMAIN queue' : queue'[i] = SHUTDOWN => i = Len(queue') /\ server' = "joining"
    BY <1>0, <2>1, <2>2
  <2>4. CASE Get
    BY <2>3, <2>4 DEF Get
  <2>5. CASE GetShutdown
    <3>1. Head(queue) = SHUTDOWN
      BY <1>0, <2>2, <2>5 DEF GetShutdown, Task
    <3> QED
      BY <2>1, <2>2, <2>3, <3>1
  <2> QED
    BY <1>5, <2>4, <2>5
<1>6. CASE Release
  BY <1>6 DEF Release, IdleWorker
<1>7. CASE Restart
  BY <1>7 DEF Restart, IdleWorker
<1> QED
  BY <1>1, <1>2, <1>3, <1>4, <1>5, <1>6, <1>7, StepClaims DEF ClaimStep

-----------------------------------------------------------------------------
(* The guard, step by step. *)

(* A thread that takes the guard adds its key to those held by threads. *)
LEMMA PuttingGains ==
  ASSUME NEW h \in Handler \ Putting, handler'[h].pc \in {"put", "discard"},
         \A g \in Handler \ {h} : handler'[g] = handler[g]
  PROVE  /\ Putting' = Putting \cup {h}
         /\ PuttingKeys' = PuttingKeys \cup {Key(handler'[h].task)}
         /\ \A g \in Putting : handler'[g].task = handler[g].task
<1>1. Putting' = Putting \cup {h} /\ \A g \in Putting : g # h /\ g \in Handler
  BY DEF Putting
<1>2. \A g \in Putting : handler'[g].task = handler[g].task
  BY <1>1
<1> QED
  BY <1>1, <1>2 DEF PuttingKeys

(* A thread that leaves enqueue takes just its own key out of those held by threads. *)
LEMMA PuttingLoses ==
  ASSUME NEW h \in Putting, handler'[h].pc \notin {"put", "discard"},
         \A g \in Handler \ {h} : handler'[g] = handler[g],
         \A f, g \in Putting : f # g => Key(handler[f].task) # Key(handler[g].task)
  PROVE  /\ Putting' = Putting \ {h}
         /\ PuttingKeys' = PuttingKeys \ {Key(handler[h].task)}
         /\ \A g \in Putting' : handler'[g].task = handler[g].task
<1>1. Putting' = Putting \ {h} /\ \A g \in Putting' : g # h /\ g \in Handler
  BY DEF Putting
<1>2. \A g \in Putting' : handler'[g].task = handler[g].task
  BY <1>1
<1> QED
  BY <1>1, <1>2 DEF PuttingKeys

(* The two halves of the invariant that speak of the guard. *)
Guard == GuardExact /\ NoKeyHeldTwice

(* Every step keeps the guard equal to the keys held, and each key held once. *)
LEMMA GuardStep ==
  ASSUME Inv, [Next]_vars
  PROVE  Guard'
<1> USE DEF Inv
<1>0. /\ queue \in Seq(Task \cup {SHUTDOWN})
      /\ handler \in [Handler -> HandlerState]
  BY DEF TypeOK
<1>1. /\ Distinct(queue)
      /\ \A f, g \in Putting : f # g => Key(handler[f].task) # Key(handler[g].task)
      /\ QueuedKeys \cap RunningKeys = {}
      /\ QueuedKeys \cap PuttingKeys = {}
      /\ RunningKeys \cap PuttingKeys = {}
      /\ inFlight = QueuedKeys \cup RunningKeys \cup PuttingKeys
  BY DEF NoKeyHeldTwice, GuardExact, Distinct
<1>2. SUFFICES /\ Distinct(queue')
               /\ \A f, g \in Putting' : f # g => Key(handler'[f].task) # Key(handler'[g].task)
               /\ QueuedKeys' \cap RunningKeys' = {}
               /\ QueuedKeys' \cap PuttingKeys' = {}
               /\ RunningKeys' \cap PuttingKeys' = {}
               /\ inFlight' = QueuedKeys' \cup RunningKeys' \cup PuttingKeys'
  BY DEF NoKeyHeldTwice, GuardExact, Distinct, Guard, Key
<1>3. \A i \in DOMAIN queue : queue[i] # SHUTDOWN => Key(queue[i]) \in QueuedKeys
  BY DEF QueuedKeys, KeysIn, TasksIn
<1>4. CASE ClaimsKept
  BY <1>1, <1>4 DEF ClaimsKept, QueuedKeys
<1>5. ASSUME NEW h \in Handler, TakeGuard(h) PROVE <1>2!1
  <2>1. /\ h \notin Putting /\ Key(handler[h].task) \notin inFlight
        /\ inFlight' = inFlight \cup {Key(handler[h].task)}
        /\ UNCHANGED <<queue, worker>> /\ Goto(h, "put")
    BY <1>5 DEF TakeGuard, Putting
  <2>2. /\ handler'[h].pc = "put" /\ handler'[h].task = handler[h].task
        /\ \A g \in Handler \ {h} : handler'[g] = handler[g]
    BY <1>0, <2>1, GotoMoves
  <2>3. /\ Putting' = Putting \cup {h}
        /\ PuttingKeys' = PuttingKeys \cup {Key(handler[h].task)}
        /\ \A g \in Putting : handler'[g].task = handler[g].task
    BY <2>1, <2>2, PuttingGains
  <2>4. UNCHANGED <<QueuedKeys, RunningKeys>>
    BY <2>1 DEF QueuedKeys, RunningKeys, Busy
  <2>5. \A g \in Putting : Key(handler[g].task) \in PuttingKeys
    BY DEF PuttingKeys
  <2> QED
    BY <1>1, <2>1, <2>2, <2>3, <2>4, <2>5
<1>6. ASSUME NEW h \in Handler, PutNowait(h) PROVE <1>2!1
  <2> DEFINE t == handler[h].task
  <2>1. /\ h \in Putting /\ t \in Task /\ t # SHUTDOWN
        /\ queue' = Append(queue, t)
        /\ UNCHANGED <<inFlight, worker>> /\ Answer(h, handler[h].todo)
        /\ server = "up"
    BY <1>6 DEF PutNowait, Putting, HandlerOK, Task, SHUTDOWN
  <2>2. /\ handler'[h].pc \notin {"put", "discard"}
        /\ \A g \in Handler \ {h} : handler'[g] = handler[g]
    BY <1>0, <2>1, AnswerMoves
  <2>3. /\ Putting' = Putting \ {h}
        /\ PuttingKeys' = PuttingKeys \ {Key(t)}
        /\ \A g \in Putting' : handler'[g].task = handler[g].task
    BY <1>1, <2>1, <2>2, PuttingLoses
  <2>4. Key(t) \in PuttingKeys
    BY <2>1 DEF PuttingKeys
  <2>5. TasksIn(queue') = TasksIn(queue) \cup {t}
    BY <1>0, <2>1, TasksAppend
  <2>6. QueuedKeys' = QueuedKeys \cup {Key(t)}
    BY <2>5 DEF QueuedKeys, KeysIn
  <2>7. \A i \in DOMAIN queue : Key(queue[i]) # Key(t)
    BY <1>1, <1>3, <2>1, <2>4 DEF Sentinel
  <2>8. Distinct(queue')
    BY <1>0, <1>1, <2>1, <2>7, DistinctAppend
  <2>9. UNCHANGED RunningKeys
    BY <2>1 DEF RunningKeys, Busy
  <2> HIDE DEF t
  <2> QED
    BY <1>1, <2>1, <2>3, <2>4, <2>6, <2>8, <2>9
<1>7. ASSUME NEW h \in Handler, DiscardGuard(h) PROVE <1>2!1
  <2>1. /\ h \in Putting
        /\ inFlight' = inFlight \ {Key(handler[h].task)}
        /\ UNCHANGED <<queue, worker>> /\ Answer(h, {})
    BY <1>7 DEF DiscardGuard, Putting
  <2>2. /\ handler'[h].pc \notin {"put", "discard"}
        /\ \A g \in Handler \ {h} : handler'[g] = handler[g]
    BY <1>0, <2>1, AnswerMoves
  <2>3. /\ Putting' = Putting \ {h}
        /\ PuttingKeys' = PuttingKeys \ {Key(handler[h].task)}
        /\ \A g \in Putting' : handler'[g].task = handler[g].task
    BY <1>1, <2>1, <2>2, PuttingLoses
  <2>4. Key(handler[h].task) \in PuttingKeys
    BY <2>1 DEF PuttingKeys
  <2>5. UNCHANGED <<QueuedKeys, RunningKeys>>
    BY <2>1 DEF QueuedKeys, RunningKeys, Busy
  <2> QED
    BY <1>1, <2>1, <2>3, <2>4, <2>5
<1>8. CASE Get
  <2>1. /\ queue # <<>> /\ queue' = Tail(queue) /\ UNCHANGED <<inFlight, handler>>
        /\ worker.pc = "idle" /\ worker'.pc = "start" /\ worker'.task = Head(queue)
        /\ Head(queue) # SHUTDOWN
    BY <1>8 DEF Get, SHUTDOWN
  <2>2. TasksIn(queue) = TasksIn(queue') \cup {Head(queue)}
    BY <1>0, <2>1, TasksTail
  <2>3. QueuedKeys = QueuedKeys' \cup {Key(Head(queue))}
    BY <2>2 DEF QueuedKeys, KeysIn
  <2>4. Distinct(queue') /\ Key(Head(queue)) \notin QueuedKeys'
    BY <1>0, <1>1, <2>1, DistinctTail DEF QueuedKeys
  <2>5. RunningKeys = {} /\ RunningKeys' = {Key(Head(queue))}
    BY <2>1 DEF RunningKeys, Busy
  <2>6. UNCHANGED <<Putting, PuttingKeys>>
    BY <2>1 DEF Putting, PuttingKeys
  <2> QED
    BY <1>1, <2>1, <2>3, <2>4, <2>5, <2>6
<1>9. CASE GetShutdown
  <2>1. /\ queue # <<>> /\ queue' = Tail(queue) /\ UNCHANGED <<inFlight, handler>>
        /\ worker.pc = "idle" /\ worker'.pc = "stopped"
        /\ Head(queue) = SHUTDOWN
    BY <1>0, <1>9, HeadTailProperties DEF GetShutdown, Task, TypeOK, WorkerState
  <2>2. UNCHANGED QueuedKeys
    BY <1>0, <2>1, TasksTail DEF QueuedKeys, KeysIn
  <2>3. Distinct(queue')
    BY <1>0, <1>1, <2>1, DistinctTail
  <2>4. RunningKeys = {} /\ RunningKeys' = {}
    BY <2>1 DEF RunningKeys, Busy
  <2>5. UNCHANGED <<Putting, PuttingKeys>>
    BY <2>1 DEF Putting, PuttingKeys
  <2> QED
    BY <1>1, <2>1, <2>2, <2>3, <2>4, <2>5
<1>10. CASE Release
  <2>1. /\ inFlight' = inFlight \ {Key(worker.task)} /\ UNCHANGED <<queue, handler>>
        /\ RunningKeys = {Key(worker.task)} /\ RunningKeys' = {}
    BY <1>10 DEF Release, IdleWorker, RunningKeys, Busy
  <2>2. UNCHANGED <<QueuedKeys, Putting, PuttingKeys>>
    BY <2>1 DEF QueuedKeys, Putting, PuttingKeys
  <2> QED
    BY <1>1, <2>1, <2>2
<1>11. CASE RequestShutdown
  <2>1. /\ queue' = Append(queue, SHUTDOWN) /\ server = "stopping"
        /\ UNCHANGED <<inFlight, worker, handler>>
    BY <1>11 DEF RequestShutdown
  <2>2. TasksIn(queue') = TasksIn(queue)
    <3>1. SHUTDOWN \in Task \cup {SHUTDOWN}
      OBVIOUS
    <3>2. TasksIn(queue') = TasksIn(queue) \cup ({SHUTDOWN} \ {SHUTDOWN})
      BY <1>0, <2>1, <3>1, TasksAppend
    <3> QED
      BY <3>2
  <2>3. UNCHANGED <<QueuedKeys, RunningKeys, Putting, PuttingKeys>>
    BY <2>1, <2>2 DEF QueuedKeys, KeysIn, RunningKeys, Busy, Putting, PuttingKeys
  <2>4. \A i \in DOMAIN queue : queue[i] \in Task
    BY <1>0, <2>1 DEF Sentinel
  <2>5. \A i \in DOMAIN queue : Key(queue[i]) # Key(SHUTDOWN)
    BY <2>4, ConstantsAssumption DEF Key, Task, SHUTDOWN, ConstantsAssumption
  <2>6. Distinct(queue')
    BY <1>0, <1>1, <2>1, <2>5, DistinctAppend
  <2> QED
    BY <1>1, <2>1, <2>3, <2>6
<1>12. CASE Restart
  <2>1. TasksIn(queue') = {} /\ RunningKeys' = {} /\ Putting' = {} /\ Distinct(queue')
    BY <1>12 DEF Restart, TasksIn, RunningKeys, Busy, IdleWorker, Putting, IdleHandler, Distinct
  <2> QED
    BY <1>12, <2>1 DEF Restart, QueuedKeys, KeysIn, PuttingKeys
<1> QED
  BY <1>4, <1>5, <1>6, <1>7, <1>8, <1>9, <1>10, <1>11, <1>12, StepClaims DEF ClaimStep

(* Inv is inductive. *)
LEMMA InvStep == Inv /\ [Next]_vars => Inv'
<1> SUFFICES ASSUME Inv, [Next]_vars PROVE Inv'
  OBVIOUS
<1>1. TypeOK' /\ HandlerOK' /\ WorkerOK' /\ UnfinishedExact'
  BY TypeStep, ThreadsStep, UnfinishedStep DEF Inv
<1> QED
  BY <1>1, SentinelStep, GuardStep DEF Inv, Guard

(* The inductive invariant of the lane holds in every reachable state. *)
THEOREM InvHolds == Spec => []Inv
  BY InvInit, InvStep, PTL DEF Spec

-----------------------------------------------------------------------------
(* What follows from it. *)

(* Every variable of the lane keeps its type, the queue its bound. *)
THEOREM TypeSafe == Spec => []TypeOK
<1>1. Inv => TypeOK
  BY DEF Inv
<1> QED
  BY <1>1, InvHolds, PTL

(* No batch is queued twice, queued while it runs, or claimed by two threads. *)
THEOREM NoDuplicates == Spec => []NoKeyHeldTwice
<1>1. Inv => NoKeyHeldTwice
  BY DEF Inv
<1> QED
  BY <1>1, InvHolds, PTL

(* The guard holds exactly the keys that are being put, queued or run, so a  *)
(* refused or finished batch can always be enqueued again.                   *)
THEOREM GuardIsExact == Spec => []GuardExact
<1>1. Inv => GuardExact
  BY DEF Inv
<1> QED
  BY <1>1, InvHolds, PTL

(* unfinished_tasks is zero only when nothing waits and nothing runs. *)
THEOREM UnfinishedIsExact == Spec => []UnfinishedExact
<1>1. Inv => UnfinishedExact
  BY DEF Inv
<1> QED
  BY <1>1, InvHolds, PTL

(* A worker that stopped on the sentinel left nothing behind. *)
THEOREM StopsClean == Spec => []CleanStop
<1>1. Inv => CleanStop
  <2> SUFFICES ASSUME Inv, worker.pc = "stopped"
               PROVE  queue = <<>> /\ inFlight = {} /\ unfinished = 0
    BY DEF CleanStop
  <2>1. queue = <<>> /\ server # "up"
    BY DEF Inv, Sentinel
  <2>2. unfinished = 0
    BY <2>1 DEF Inv, UnfinishedExact
  <2>3. TasksIn(queue) = {} /\ RunningKeys = {} /\ Putting = {}
    BY <2>1 DEF Inv, TasksIn, RunningKeys, Busy, Putting, HandlerOK
  <2> QED
    BY <2>1, <2>2, <2>3 DEF Inv, GuardExact, QueuedKeys, KeysIn, PuttingKeys
<1> QED
  BY <1>1, InvHolds, PTL

(* enqueue drops a task only for another task of the same batch and mode. *)
THEOREM OnlyDuplicatesDropped == Spec => []SupersedingNotSwallowed
<1>1. Inv => SupersedingNotSwallowed
  <2> SUFFICES ASSUME Inv, NEW h \in Handler, Key(handler[h].task) \in inFlight
               PROVE  \E t \in Claimed :
                        t.batch = handler[h].task.batch /\ t.mode = handler[h].task.mode
    BY DEF SupersedingNotSwallowed
  <2>1. \E t \in Claimed : Key(t) = Key(handler[h].task)
    BY DEF Inv, GuardExact, QueuedKeys, KeysIn, RunningKeys, PuttingKeys, Claimed
  <2> QED
    BY <2>1 DEF Key
<1> QED
  BY <1>1, InvHolds, PTL

-----------------------------------------------------------------------------
(* The lane implements the single-flight guard. *)

(* The lane starts in an initial state of SingleFlight. *)
LEMMA FlightInit == Init => Flight!Init
  BY DEF Init, Flight!Init, RunningKeys, Busy, IdleWorker

(* Each step of the lane is a step of SingleFlight or leaves claims and run alone. *)
LEMMA FlightStep ==
  ASSUME Inv, [Next]_vars
  PROVE  [Flight!Next]_(Flight!vars)
<1> USE DEF Inv
<1> DEFINE keys == Batch \X {"upload", "proceed"}
<1>0. queue \in Seq(Task \cup {SHUTDOWN})
  BY DEF TypeOK
<1>1. \A t \in Task : Key(t) \in keys
  BY DEF Key, Task
<1>2. CASE ClaimsKept
  BY <1>2 DEF ClaimsKept, Flight!vars
<1>3. ASSUME NEW h \in Handler, TakeGuard(h) PROVE Flight!Next
  <2>1. Key(handler[h].task) \in keys
    BY <1>1, <1>3 DEF TakeGuard, HandlerOK
  <2>2. Flight!Claim(Key(handler[h].task))
    BY <1>3 DEF TakeGuard, Flight!Claim, RunningKeys, Busy
  <2> QED
    BY <2>1, <2>2 DEF Flight!Next
<1>4. ASSUME NEW h \in Handler, PutNowait(h) PROVE UNCHANGED Flight!vars
  BY <1>4 DEF PutNowait, Flight!vars, RunningKeys, Busy
<1>5. ASSUME NEW h \in Handler, DiscardGuard(h) PROVE Flight!Next
  <2>1. h \in Putting /\ Key(handler[h].task) \in keys
    BY <1>1, <1>5 DEF DiscardGuard, HandlerOK, Putting
  <2>2. Key(handler[h].task) \in PuttingKeys
    BY <2>1 DEF PuttingKeys
  <2>3. Key(handler[h].task) \in inFlight \ RunningKeys
    BY <2>2 DEF GuardExact, NoKeyHeldTwice
  <2>4. Flight!Abandon(Key(handler[h].task))
    BY <1>5, <2>3 DEF DiscardGuard, Flight!Abandon, RunningKeys, Busy
  <2> QED
    BY <2>1, <2>4 DEF Flight!Next
<1>6. CASE Get
  <2>1. queue # <<>> /\ Head(queue) \in Task /\ Head(queue) # SHUTDOWN
    BY <1>0, <1>6, HeadTailProperties DEF Get, SHUTDOWN
  <2>2. Key(Head(queue)) \in inFlight
    BY <1>0, <2>1, TasksTail DEF GuardExact, QueuedKeys, KeysIn
  <2>3. Flight!Run(Key(Head(queue)))
    BY <1>6, <2>2 DEF Get, Flight!Run, RunningKeys, Busy
  <2> QED
    BY <1>1, <2>1, <2>3 DEF Flight!Next
<1>7. CASE GetShutdown
  BY <1>7 DEF GetShutdown, TypeOK, WorkerState, Flight!vars, RunningKeys, Busy
<1>8. CASE Release
  <2>1. worker.task \in Task
    BY <1>8 DEF Release, WorkerOK, Busy
  <2>2. Flight!Finish(Key(worker.task))
    BY <1>8 DEF Release, IdleWorker, Flight!Finish, RunningKeys, Busy
  <2> QED
    BY <1>1, <2>1, <2>2 DEF Flight!Next
<1>9. CASE RequestShutdown
  BY <1>9 DEF RequestShutdown, Flight!vars, RunningKeys, Busy
<1>10. CASE Restart
  BY <1>10 DEF Restart, IdleWorker, Flight!Next, Flight!Lose, RunningKeys, Busy
<1> QED
  BY <1>2, <1>3, <1>4, <1>5, <1>6, <1>7, <1>8, <1>9, <1>10, StepClaims DEF ClaimStep

(* Whatever its threads do, the lane claims, runs and gives back keys the way *)
(* SingleFlight allows.                                                      *)
THEOREM SingleFlightImplemented == Spec => ImplementsSingleFlight
<1>1. Inv /\ [Next]_vars => [Flight!Next]_(Flight!vars)
  BY FlightStep
<1> QED
  BY <1>1, InvHolds, FlightInit, PTL DEF Spec, Flight!Spec, ImplementsSingleFlight
-----------------------------------------------------------------------------
(* What a task that got past the look-up owes to the batches table: a row    *)
(* that is not REJECTED, and an ops decision if it is a force-proceed.       *)
Recorded(b) == row[b] \notin {"none", "rejected"}
Decided(b) == proceed[b] # {}
Backed(t) == Recorded(t.batch) /\ (t.mode = "proceed" => Decided(t.batch))

Accepted ==
  /\ \A t \in TasksIn(queue) : Backed(t)
  /\ Busy => Backed(worker.task)
  /\ worker.pc = "verdict" => worker.verdict \in {"confirmed", "incomplete", "failed"}
  /\ \A h \in Handler :
       /\ handler[h].pc \in {"guard", "put", "discard"} => Backed(handler[h].task)
       /\ handler[h].pc \in {"verify", "reject", "create", "refind"} =>
            handler[h].task.mode = "upload"
       /\ handler[h].pc = "record" =>
            Recorded(handler[h].task.batch) /\ handler[h].task.slots # {}

(* No step takes a batch's row or its ops decision away. *)
LEMMA BackedKept ==
  ASSUME Inv, Accepted, [Next]_vars, NEW b \in Batch
  PROVE  (Recorded(b) => Recorded(b)') /\ (Decided(b) => Decided(b)')
<1> DEFINE Kept == (Recorded(b) => Recorded(b)') /\ (Decided(b) => Decided(b)')
<1> USE DEF Inv, Recorded, Decided
<1>0. row \in [Batch -> Status \cup {"none"}] /\ proceed \in [Batch -> SUBSET Slot]
  BY DEF TypeOK
<1>1. CASE UNCHANGED <<row, proceed>>
  BY <1>1
<1>2. ASSUME NEW h \in Handler, HandlerStep(h) PROVE Kept
  <2>1. CASE Reject(h)
    BY <1>0, <2>1 DEF Reject
  <2>2. CASE Create(h)
    BY <1>0, <2>2 DEF Create
  <2>3. CASE RecordProceed(h)
    BY <1>0, <2>3 DEF RecordProceed, Accepted
  <2> QED
    BY <1>1, <1>2, <2>1, <2>2, <2>3
       DEF HandlerStep, Load, Verify, Refind, EnqueueDropped, TakeGuard, PutNowait, PutFull,
           DiscardGuard, durable
<1>3. CASE WorkerStep
  <2>1. ASSUME NEW status \in {"queued", "uploading", "confirmed", "unconfirmed", "incomplete",
                               "failed"},
               SetBatchStatus(status), UNCHANGED proceed
        PROVE  Kept
    BY <1>0, <2>1 DEF SetBatchStatus
  <2>2. CASE Superseded \/ BeginUpload \/ Defer \/ ProceedConfirms \/ ProceedParks
    BY <2>1, <2>2 DEF Superseded, BeginUpload, Defer, ProceedConfirms, ProceedParks, RunStep
  <2>3. CASE RecordVerdict
    BY <2>1, <2>3 DEF RecordVerdict, RunStep, Accepted
  <2>4. CASE MarkBatchFailed
    BY <1>1, <2>1, <2>4 DEF MarkBatchFailed
  <2> QED
    BY <1>1, <1>3, <2>2, <2>3, <2>4
       DEF WorkerStep, Get, GetShutdown, SetupDone, SetupFails, MoveFile, SetupFailed, LaneEnds,
           Conclude, Fault, TaskDone, Release, RunStep, durable
<1> QED
  BY <1>1, <1>2, <1>3
     DEF Next, Publish, Post, Rescan, RequestProceed, BeginShutdown, RequestShutdown, Restart,
         vars, durable

(* Backed in the next state, of a task of this one. *)
StillBacked(t) ==
  row'[t.batch] \notin {"none", "rejected"} /\ (t.mode = "proceed" => proceed'[t.batch] # {})

HandlerAccepted(h) ==
  /\ handler[h].pc \in {"guard", "put", "discard"} => Backed(handler[h].task)
  /\ handler[h].pc \in {"verify", "reject", "create", "refind"} =>
       handler[h].task.mode = "upload"
  /\ handler[h].pc = "record" =>
       Recorded(handler[h].task.batch) /\ handler[h].task.slots # {}

(* Whatever step is taken, the row and the decision that back a task still do. *)
LEMMA StillBackedKept ==
  ASSUME Inv, Accepted, [Next]_vars, NEW t \in Task, Backed(t)
  PROVE  StillBacked(t)
<1>1. t.batch \in Batch
  BY DEF Task
<1> QED
  BY <1>1, BackedKept DEF Backed, StillBacked, Recorded, Decided

(* A thread that does not move keeps what it has. *)
LEMMA OthersAccepted ==
  ASSUME Inv, Accepted, [Next]_vars, NEW g \in Handler, handler'[g] = handler[g]
  PROVE  HandlerAccepted(g)'
<1>1. HandlerAccepted(g)
  BY DEF Accepted, HandlerAccepted
<1>2. handler[g].pc \notin {"idle", "load"} => handler[g].task \in Task /\ handler[g].task.batch \in Batch
  BY DEF Inv, HandlerOK, Task
<1>3. handler[g].pc \in {"guard", "put", "discard"} => StillBacked(handler[g].task)
  BY <1>1, <1>2, StillBackedKept DEF HandlerAccepted
<1>4. handler[g].pc = "record" => row'[handler[g].task.batch] \notin {"none", "rejected"}
  BY <1>1, <1>2, BackedKept DEF HandlerAccepted, Recorded
<1> QED
  BY <1>1, <1>3, <1>4 DEF HandlerAccepted, Backed, StillBacked, Recorded, Decided

(* A request thread's step leaves its own task backed by a row or a decision. *)
LEMMA HandlerStepAccepted ==
  ASSUME Inv, Accepted, [Next]_vars, NEW h \in Handler, HandlerStep(h)
  PROVE  HandlerAccepted(h)'
<1>0. handler \in [Handler -> HandlerState] /\ row \in [Batch -> Status \cup {"none"}]
      /\ proceed \in [Batch -> SUBSET Slot]
  BY DEF Inv, TypeOK
<1>1. /\ handler[h].pc \notin {"idle", "load"} => handler[h].task \in Task
      /\ handler[h].pc \notin {"idle", "load"} => handler[h].task.batch \in Batch
      /\ HandlerAccepted(h)
  BY DEF Inv, HandlerOK, Accepted, HandlerAccepted, Task
<1>2. ASSUME handler'[h].pc \in {"idle", "load"} PROVE HandlerAccepted(h)'
  BY <1>2 DEF HandlerAccepted
<1>3. ASSUME NEW todo, Answer(h, todo) PROVE HandlerAccepted(h)'
  BY <1>0, <1>2, <1>3, AnswerMoves
<1>4. ASSUME NEW b \in Batch, NEW todo, Acknowledge(h, b, todo), UNCHANGED row
      PROVE  HandlerAccepted(h)'
  <2>1. \/ handler'[h].pc \in {"idle", "load"}
        \/ handler'[h].pc = "guard" /\ handler'[h].task = UploadTask(b)
           /\ row[b] \in {"queued", "uploading"}
    BY <1>0, <1>4, AcknowledgeMoves
  <2> QED
    BY <1>2, <1>4, <2>1 DEF HandlerAccepted, Backed, Recorded, UploadTask
<1>5. CASE Load(h)
  <2>1. PICK f \in handler[h].todo :
          \/ handler' = [handler EXCEPT ![h] =
                          [pc |-> "verify", todo |-> handler[h].todo \ {f},
                           task |-> UploadTask(manifest[f])]]
          \/ Acknowledge(h, manifest[f], handler[h].todo \ {f})
    BY <1>5 DEF Load
  <2>2. manifest[f] \in Batch
    BY DEF Inv, HandlerOK
  <2>3. UNCHANGED row
    BY <1>5 DEF Load, durable
  <2>4. CASE handler' = [handler EXCEPT ![h] =
                          [pc |-> "verify", todo |-> handler[h].todo \ {f},
                           task |-> UploadTask(manifest[f])]]
    BY <1>0, <2>4 DEF HandlerAccepted, UploadTask
  <2> QED
    BY <1>4, <2>1, <2>2, <2>3, <2>4
<1>6. CASE Refind(h)
  BY <1>1, <1>4, <1>6 DEF Refind, durable
<1>7. CASE Verify(h)
  <2>1. /\ handler[h].pc = "verify" /\ handler'[h].pc \in {"create", "reject"}
        /\ handler'[h].task = handler[h].task
    BY <1>0, <1>7, GotoMoves DEF Verify
  <2> QED
    BY <1>1, <2>1 DEF HandlerAccepted
<1>8. CASE Create(h)
  <2>1. /\ handler[h].pc = "create" /\ handler'[h].task = handler[h].task
        /\ \/ handler'[h].pc = "refind"
           \/ handler'[h].pc = "guard" /\ row' = [row EXCEPT ![handler[h].task.batch] = "queued"]
    BY <1>0, <1>8, GotoMoves DEF Create
  <2>2. handler'[h].pc = "guard" => row'[handler[h].task.batch] = "queued"
    BY <1>0, <1>1, <2>1
  <2> QED
    BY <1>1, <2>1, <2>2 DEF HandlerAccepted, Backed, Recorded
<1>9. CASE RecordProceed(h)
  <2>1. /\ handler[h].pc = "record" /\ handler'[h].pc = "guard"
        /\ handler'[h].task = handler[h].task /\ UNCHANGED row
        /\ proceed'[handler[h].task.batch] = handler[h].task.slots
    BY <1>0, <1>1, <1>9, GotoMoves DEF RecordProceed
  <2> QED
    BY <1>1, <2>1 DEF HandlerAccepted, Backed, Recorded, Decided
<1>10. CASE TakeGuard(h) \/ PutFull(h)
  <2>1. /\ handler[h].pc \in {"guard", "put"} /\ handler'[h].pc \in {"put", "discard"}
        /\ handler'[h].task = handler[h].task
    BY <1>0, <1>10, GotoMoves DEF TakeGuard, PutFull
  <2>2. StillBacked(handler[h].task)
    BY <1>1, <2>1, StillBackedKept DEF HandlerAccepted
  <2> QED
    BY <2>1, <2>2 DEF HandlerAccepted, Backed, StillBacked, Recorded, Decided
<1>11. CASE Reject(h) \/ EnqueueDropped(h) \/ PutNowait(h) \/ DiscardGuard(h)
  BY <1>3, <1>11 DEF Reject, EnqueueDropped, PutNowait, DiscardGuard
<1> QED
  BY <1>5, <1>6, <1>7, <1>8, <1>9, <1>10, <1>11 DEF HandlerStep

(* Whoever takes a step, every request thread keeps its part of Accepted. *)
LEMMA HandlersAccepted ==
  ASSUME Inv, Accepted, [Next]_vars, NEW g \in Handler
  PROVE  HandlerAccepted(g)'
<1>0. handler \in [Handler -> HandlerState]
  BY DEF Inv, TypeOK
<1>1. CASE handler'[g] = handler[g]
  BY <1>1, OthersAccepted
<1>2. ASSUME NEW h \in Handler, HandlerStep(h) PROVE HandlerAccepted(g)'
  <2>1. h # g => handler'[g] = handler[g]
    BY <1>2, HandlerStepFrame DEF Inv
  <2> QED
    BY <1>1, <1>2, <2>1, HandlerStepAccepted
<1>3. ASSUME NEW h \in Handler, (\E f \in Folder : Post(h, f)) \/ Rescan(h)
      PROVE  HandlerAccepted(g)'
  <2>1. handler'[h].pc = "load" /\ (h # g => handler'[g] = handler[g])
    BY <1>0, <1>3 DEF Post, Rescan, HandlerState
  <2> QED
    BY <1>1, <2>1 DEF HandlerAccepted
<1>4. ASSUME NEW h \in Handler, NEW b \in Batch, NEW slots \in (SUBSET Slot) \ {{}},
             RequestProceed(h, b, slots)
      PROVE  HandlerAccepted(g)'
  <2>1. /\ handler'[h].pc = "record" /\ (h # g => handler'[g] = handler[g])
        /\ handler'[h].task = [batch |-> b, mode |-> "proceed", slots |-> slots]
        /\ row[b] = "incomplete" /\ UNCHANGED row
    BY <1>0, <1>4 DEF RequestProceed, HandlerState, durable
  <2>2. handler'[h].task.batch = b /\ handler'[h].task.slots = slots
    BY <2>1
  <2>3. CASE h = g
    <3>1. /\ handler'[g].pc = "record" /\ handler'[g].task.batch = b
          /\ handler'[g].task.slots # {} /\ row'[b] = "incomplete"
      BY <2>1, <2>2, <2>3
    <3> QED
      BY <3>1 DEF HandlerAccepted, Recorded
  <2> QED
    BY <1>1, <2>1, <2>3
<1>5. CASE WorkerStep
  BY <1>1, <1>5 DEF WorkerStep, Get, GetShutdown, Superseded, BeginUpload, Defer, SetupDone,
              SetupFails, MoveFile, SetupFailed, LaneEnds, RecordVerdict, ProceedConfirms,
              ProceedParks, Fault, MarkBatchFailed, TaskDone, Release, RunStep, Conclude
<1>6. CASE Restart
  BY <1>6 DEF Restart, IdleHandler, HandlerAccepted
<1> QED
  BY <1>1, <1>2, <1>3, <1>4, <1>5, <1>6
     DEF Next, Publish, BeginShutdown, RequestShutdown, vars, volatile

(* Accepted is inductive relative to Inv. *)
LEMMA AcceptedStep ==
  ASSUME Inv, Accepted, [Next]_vars
  PROVE  Accepted'
<1>0. queue \in Seq(Task \cup {SHUTDOWN}) /\ worker \in WorkerState
  BY DEF Inv, TypeOK
<1>1. TasksIn(queue) \subseteq Task
  BY <1>0 DEF TasksIn
<1>2. \A t \in TasksIn(queue) : StillBacked(t)
  BY <1>1, StillBackedKept DEF Accepted
<1>3. Busy => StillBacked(worker.task)
  BY StillBackedKept DEF Accepted, Inv, WorkerOK
<1>4. \A h \in Handler : HandlerAccepted(h)'
  BY HandlersAccepted
<1>5. \A t \in TasksIn(queue') : StillBacked(t)
  <2>1. CASE UNCHANGED queue
    BY <1>2, <2>1 DEF TasksIn
  <2>2. ASSUME NEW h \in Handler, PutNowait(h) PROVE <1>5!:
    <3>1. /\ handler[h].task \in Task /\ StillBacked(handler[h].task)
          /\ queue' = Append(queue, handler[h].task)
      BY <2>2, StillBackedKept DEF PutNowait, Inv, HandlerOK, Accepted
    <3>2. TasksIn(queue') \subseteq TasksIn(queue) \cup {handler[h].task}
      BY <1>0, <3>1, TasksAppend
    <3> QED
      BY <1>2, <3>1, <3>2
  <2>3. CASE Get \/ GetShutdown
    <3>1. queue # <<>> /\ queue' = Tail(queue)
      BY <2>3 DEF Get, GetShutdown
    <3> QED
      BY <1>0, <1>2, <3>1, TasksTail
  <2>4. CASE RequestShutdown
    <3>1. queue' = Append(queue, SHUTDOWN) /\ SHUTDOWN \in Task \cup {SHUTDOWN}
      BY <2>4 DEF RequestShutdown
    <3>2. TasksIn(queue') = TasksIn(queue) \cup ({SHUTDOWN} \ {SHUTDOWN})
      BY <1>0, <3>1, TasksAppend
    <3> QED
      BY <1>2, <3>2
  <2>5. CASE Restart
    BY <2>5 DEF Restart, TasksIn
  <2> QED
    BY <2>1, <2>2, <2>3, <2>4, <2>5, StepClaims
       DEF Inv, ClaimsKept, ClaimStep, TakeGuard, DiscardGuard, Release
<1>6. Busy' => StillBacked(worker'.task)
  <2>1. CASE UNCHANGED worker \/ (Busy /\ Busy' /\ worker'.task = worker.task)
    BY <1>3, <2>1 DEF Busy
  <2>2. CASE Get
    <3>1. Head(queue) \in TasksIn(queue)
      BY <1>0, <2>2, TasksTail DEF Get, SHUTDOWN
    <3> QED
      BY <1>2, <2>2, <3>1 DEF Get
  <2>3. CASE GetShutdown \/ Release \/ Restart
    BY <1>0, <2>3 DEF GetShutdown, Release, Restart, IdleWorker, WorkerState, Busy
  <2> QED
    BY <2>1, <2>2, <2>3, StepClaims
       DEF Inv, ClaimsKept, ClaimStep, TakeGuard, DiscardGuard, PutNowait, RequestShutdown
<1>7. worker'.pc = "verdict" => worker'.verdict \in {"confirmed", "incomplete", "failed"}
  <2>1. CASE UNCHANGED worker
    BY <2>1 DEF Accepted
  <2>2. CASE SetupFailed \/ LaneEnds
    BY <1>0, <2>2 DEF SetupFailed, LaneEnds, Conclude, WorkerState
  <2>3. CASE WorkerStep /\ ~SetupFailed /\ ~LaneEnds
    <3>1. CASE Superseded \/ BeginUpload \/ Defer \/ SetupDone \/ SetupFails \/ MoveFile
                 \/ RecordVerdict \/ ProceedConfirms \/ ProceedParks
      <4>1. \E mode \in {"upload", "proceed"}, from \in {"start", "setup", "failing", "files", "verdict"},
              to \in {"setup", "failing", "files", "finally"} : RunStep(mode, from, to)
        BY <3>1 DEF Superseded, BeginUpload, Defer, SetupDone, SetupFails, MoveFile,
                    RecordVerdict, ProceedConfirms, ProceedParks
      <4> QED
        BY <1>0, <4>1 DEF RunStep, WorkerState
    <3>2. CASE Get \/ GetShutdown \/ Fault \/ MarkBatchFailed \/ TaskDone \/ Release
      <4>1. CASE Get \/ Release
        BY <4>1 DEF Get, Release, IdleWorker
      <4>2. CASE GetShutdown \/ Fault
        BY <1>0, <4>2 DEF GetShutdown, Fault, WorkerState
      <4>3. CASE MarkBatchFailed \/ TaskDone
        BY <1>0, <4>3 DEF MarkBatchFailed, TaskDone, WorkerState
      <4> QED
        BY <3>2, <4>1, <4>2, <4>3
    <3> QED
      BY <2>3, <3>1, <3>2 DEF WorkerStep
  <2>4. CASE Restart
    BY <2>4 DEF Restart, IdleWorker
  <2>5. ASSUME NEW h \in Handler, HandlerStep(h) PROVE UNCHANGED worker
    BY <2>5 DEF HandlerStep, Load, Verify, Reject, Create, Refind, RecordProceed, EnqueueDropped,
                TakeGuard, PutNowait, PutFull, DiscardGuard
  <2> QED
    BY <2>1, <2>2, <2>3, <2>4, <2>5
       DEF Next, Publish, Post, Rescan, RequestProceed, BeginShutdown, RequestShutdown, vars,
           volatile
<1> QED
  BY <1>4, <1>5, <1>6, <1>7
     DEF Accepted, HandlerAccepted, Backed, StillBacked, Recorded, Decided

(* Every task that waits or runs was accepted: its batch has a row, not REJECTED. *)
THEOREM AcceptedHolds == Spec => [](Inv /\ Accepted)
<1>1. Init => Accepted
  BY DEF Init, Accepted, TasksIn, Busy, IdleWorker, IdleHandler
<1>2. Inv /\ [Next]_vars => Inv'
  BY InvStep
<1>3. Inv /\ Accepted /\ [Next]_vars => Accepted'
  BY AcceptedStep
<1> QED
  BY InvInit, <1>1, <1>2, <1>3, PTL DEF Spec

(* However its posts interleave, a batch recorded as REJECTED is neither     *)
(* waiting, nor running, nor about to be queued (submit_manifest).           *)
THEOREM RejectedStaysOut == Spec => []RejectedNeverRuns
<1>1. Inv /\ Accepted => RejectedNeverRuns
  BY DEF Accepted, RejectedNeverRuns, Claimed, Backed, Recorded, Putting
<1> QED
  BY <1>1, AcceptedHolds, PTL

(* A force-proceed that waits or runs has its decision on the batches row.   *)
THEOREM DecisionRecorded == Spec => []AuditBeforeProceed
<1>1. Inv /\ Accepted => AuditBeforeProceed
  BY DEF Accepted, AuditBeforeProceed, Claimed, Backed, Decided, Putting
<1> QED
  BY <1>1, AcceptedHolds, PTL
=============================================================================
