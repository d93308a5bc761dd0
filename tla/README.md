# Verification of the EDP billing file uploader

TLA+ models of the service under `src/app`, the TLC runs that check them and
the TLAPS proofs about them. The service takes manifests of billing files from
an Automation Agent bot, uploads the files to CBOS and moves them to folders
that say what became of them; three smaller lanes upload to other systems.

## The system

| part | state it keeps | operations | talks to |
|---|---|---|---|
| batch intake (`services/batch_service.py`, `endpoints/batches.py`) | the `batches` table (SQL, survives restarts) | submit a manifest, rescan the disk, force-proceed | manifest files, batch queue |
| batch queue (`core/queue.py`) | FIFO, `_in_flight` guard, `unfinished_tasks` (memory) | enqueue, get, task_done, release, request_shutdown | intake threads, worker |
| worker and lifespan (`workers/upload_worker.py`, `main.py`) | one thread, one task in hand | run, start, stop | queue, upload lane |
| CBOS upload lane (`services/upload_service.py`, `upload_outcome.py`, `file_service.py`) | source/uploaded/uploadFailed folders, `uploaded_files` audit table | process a batch, force-proceed a batch | CBOS client, audit repository |
| CBOS client (`clients/cbos_client.py`) | none; CBOS keeps PROCESSIDs and upload slots | reserve, upload, register, mark optional, confirm | CBOS over HTTP, with retries |
| matching, file names, slots (`upload_matching.py`, `cbos_filename.py`, `optional_slots.py`) | none (pure) | match files to UploadIDs, T-1 names, slot status | upload lane, post-trade lane |
| NSDL Speede lane (`nsdl_speede_service.py`) | `nsdl_speede_uploads` table, one row per file version | process uploads, check status | NSDL client |
| settlement lane (`settlement_service.py`) | `settlement_uploads` table | process upload with retries and polling, check status | DP upload client |
| post-trade lane (`post_trade_upload_service.py`) | none | upload one named file under one named UploadID | CBOS client |
| clients of NSDL and DP (`nsdl_speede_client.py`, `dp_upload_client.py`) | none of their own | validate, send chunks, register, poll | the two systems over HTTP |
| the rest (`core/config.py`, logging, schemas, mock, scripts) | settings | - | - |

How a batch travels: the bot downloads files into `{date}/{SEGMENT}`, renames
`manifest.json` into place and POSTs. A request thread loads and verifies the
manifest, writes a `QUEUED` row and enqueues a task. The single worker thread
takes the task, writes `UPLOADING`, reserves a PROCESSID at CBOS, uploads and
registers the files, moves each one out of the folder and writes the verdict
(`CONFIRMED`, `INCOMPLETE`, `UNCONFIRMED`, `FAILED`). An `INCOMPLETE` batch may
be force-proceeded by ops through a second kind of task.

What is hard in it:

- request threads interleave with each other and with the worker; `enqueue`
  is not atomic (lock, put, lock), and the status an intake decides on is read
  long before its enqueue;
- the queue, the guard and the worker die with the process while the rows, the
  manifests and the files do not; recovery is "the bot POSTs again";
- a later manifest of the same folder replaces the earlier one, files included;
- a deferral puts a row back to `QUEUED` with no task behind it;
- a full queue, a lost insert race, a failing status write, a shutdown that
  finds the queue full;
- a run of the upload lane is a chain of calls to CBOS, file moves and database
  commits, none atomic with the next: it may stop between any two, and CBOS may
  have acted on a call that looked failed;
- two idempotency rules (the slot's STATUS in CBOS, the audit table) decide
  whether a file is sent again, on data read when the run began or before;
- NSDL appends: what is finalized twice is there twice, and only the row of the
  file version, written after the call, knows that it was sent;
- the settlement lane repeats its steps after a lost answer, polls under a
  budget, and shares its row with a status endpoint that polls too;
- the post-trade lane keeps nothing at all while the bot moves the file about;
- which UploadID a file goes to is decided by rules that come from two calls,
  one of which may fail silently, and by a date that may be rewritten.

What makes each part correct:

- *queue*: it never holds a batch twice and its guard never leaks; a decision is
  on record before it is executed; every accepted batch comes to an end;
- *upload lane*: folders and audit table say of CBOS only what is true; each
  listed file gets an outcome; no batch is confirmed with an unexcused empty
  slot; no file is registered twice;
- *NSDL lane*: the rows of a file version are appended once unless something
  that happened to it explains more; success means loaded; every file posted
  again and again ends;
- *settlement lane*: a row says what DP said of its own Tran_Id, Step 7 runs
  once and where required, a registered row gets its verdict;
- *transfer*: what is reported complete is the whole file, and NSDL gets every
  data row closed and no other;
- *routing*: the UploadID does not depend on the order of CBOS's answer, a rule
  that constrains nothing only takes what is left, a rename never passes off
  stale data, and the post-trade answers mean what the endpoint says.

## Modules

| module | models | kind |
|---|---|---|
| `BatchLane` | intake, batch queue, worker loop, lifespan, crash, `batches` table | state machine |
| `SingleFlight` | what guard and worker promise together | abstract specification |
| `UploadLane` | the runs of one segment and date: reservation, files, CBOS, folders, audit table, gate, force-proceed | state machine |
| `FileFate` | what may become of a file, seen from the folders and CBOS | abstract specification |
| `NsdlLane` | one report of one account and date: POST, GET, rows, NSDL | state machine |
| `SettlementLane` | settlement uploads: POST with retries and polls, status GET, rows, DP | state machine |
| `RowFate` | what may become of a settlement row and of its file at DP | abstract specification |
| `ChunkTransfer` | one file through the chunk loop of each of the three clients, byte by byte | state machine |
| `UploadMatching` | rules of Steps 4 and 40, `match_file`, the date rewrite, `translate_name` | pure operators |
| `FileRouting` | the batch's route of a file, and the post-trade request, over `UploadMatching` | state machine |
| `MCBatchLane`, `MCUploadLane`, `MCNsdlLane`, `MCSettlementLane`, `MCChunkTransfer`, `MCFileRouting` | instances for TLC | model checking |
| `BatchLaneProofs`, `UploadLaneProofs`, `UploadOnceProofs`, `NsdlLaneProofs`, `SettlementLaneProofs` | safety of the four lanes for all constants | TLAPS proofs |
| `ChunkTransferProofs`, `FileRoutingProofs` | the transfer, the matching and the date rewrite for every file, table and setting | TLAPS proofs |
| `NumberSets` | induction over sets of numbers, what the two modules above rest on | TLAPS lemmas |

`BatchLane` and `UploadLane` meet at the run: what is one `Begin...` and one
verdict in the first is the whole state machine of the second. `BatchLane` says
which statuses a batch can be run again with; `UploadLane` takes that as the
constant `MayRun` and otherwise leaves out queue, guard and intake. What
`UploadLane` has as the constant `Match` is what `FileRouting` computes in
`Fetch` and `Route`; what is one step `UploadFile`, `Chunked` or `UploadChunks`
in a lane is the whole machine of `ChunkTransfer`. A transfer leaves nothing in
the far system until it is registered, which is why the lanes may treat it as
one step that succeeds or fails.

### BatchLane

| variable | code |
|---|---|
| `row`, `proceed` | `Batch.status`, `Batch.proceed_slots` (durable) |
| `manifest`, `source` | the `manifest.json` of each folder, and whether its listed files are all, partly or not there (durable) |
| `queue`, `inFlight`, `unfinished` | `BatchQueue._queue`, `._in_flight`, `.unfinished` |
| `worker` | program counter of `upload_worker.run`/`_process_batch`, its task, the verdict reached |
| `handler[h]` | program counter of a request thread in `submit_manifest`, `rescan`, `request_proceed`, `enqueue` |
| `server`, `restarts` | where the lifespan is; how often the process died |

One action is one step between two points where another thread can act: a
database commit, the acquisition of the queue's lock, the put, one status write
of the run. So `submit_manifest` is `Load`, `Verify`, then `Reject` or
`Create`, then perhaps `Refind`; and `enqueue` is `TakeGuard` or
`EnqueueDropped`, then `PutNowait`, or `PutFull` followed by `DiscardGuard`.
`Publish` is the bot, the only action that is not this program's.

What a run does to CBOS and to single files is left to the upload lane. In
`BatchLane` a run is `Superseded`, or `BeginUpload` followed by `Defer`,
`SetupFails`/`SetupFailed`, or `SetupDone`, `MoveFile` and `LaneEnds`; its
verdict is written by `RecordVerdict`, and `Fault` may end it anywhere.

Simplifications, all on the side of more behaviour unless noted:

- the batches of one folder list the same files, so one `source` value per
  folder stands for them (a superseding download replaces all files);
- `Verify` may fail although the files are there (torn or changed content);
- a batch has its own `batch_id`; the bot never reuses one;
- a database failure inside a request thread ends that request with a 500 and
  is not modelled; one inside the worker is `Fault`;
- Python's `Queue` keeps `unfinished_tasks` under its own mutex together with
  the put, so both change in one action.

### UploadLane

| variable | code |
|---|---|
| `row`, `audit` | `batches.status`; the rows of `uploaded_files` with batch, file name and status (durable) |
| `source`, `uploaded`, `uploadFailed` | the names in the three folders (durable) |
| `minted`, `entries`, `done`, `failed`, `skipped` | CBOS: processes of the date, registered files, slots whose STATUS says accepted or FAILED, steps marked optional (external, durable) |
| `run` | the locals of `_process_batch`/`_proceed_batch`: where it is, PROCESSID, Table2 as read, files still to send, sent, registered, slots filled, the file in `apply_outcome`, the verdict |
| `asked` | slots of the force-proceed task that waits in the queue |
| `aborts`, `lost` | how much of the two bounds is used up |
| `refusals` | how often CBOS answered a slot with FAILED, for the properties; bounded by the registrations |

One action is one CBOS call, one file move or one commit together with the
decisions that lead to it. `apply_outcome` is `MoveFile` and then
`RecordOutcome`, because the process can die in between; `InHand` is where it
is called. A run is taken with `BeginUpload` (or it is `Superseded` at once),
obtains its PROCESSID (`TakeSupplied`, or `FindExisting` and `Reserve` with
`SetupAttemptFails` as its retries), marks the zero-UploadID steps, works off
its files (`RejectFile`, `MatchFile` and then `SkipFile`, `UploadFile` or
`UploadFails`), registers what was sent (`RegisterFile`, `RegisterFails`,
`RegisterUnanswered`), runs Step 8 and the gate, delivers, and ends with
`RecordVerdict`. `FailFile`/`SetupFailed` is the setup that failed. `Fault` is
an exception that reaches the worker loop, `Die` the death of the process.

What is abstracted:

- *Matching* is the constant `Match`; that a file matches no rule, or is empty
  or malformed, is `RejectFile`, which may happen to any file.
- *Chunks* leave nothing behind in CBOS until they are registered, so sending a
  file either succeeds or fails.
- *Table2* is the set of slots CBOS reports as holding a file and the set of
  steps flagged optional. A reservation reads both as they are; in the table the
  engine's POST supplies the slots may be any earlier state, and the optional
  flags are the engine's own, any set of steps. A supplied PROCESSID is one that
  exists.
- *Zero-UploadID steps* have no file and are only worked off after the trigger,
  so here they are never done, only marked optional.
- *CBOS* accepts or refuses what is registered for a slot at any time, forgets
  nothing, and clears FAILED when a file is registered for the slot again. It
  creates a new process whenever it is asked with "0".
- *Names*: the bot overwrites a file that is still there; a file that comes
  again under its name after it was moved is the same name in `source` again.

### NsdlLane

| variable | code |
|---|---|
| `disk` | the numbered copies in the dated folder |
| `row`, `placeholders` | `nsdl_speede_uploads`: status and `tran_id` of each version; rows with `file_version` NULL (durable) |
| `owner`, `verdict`, `appends` | NSDL: what a TRANID stands for, what became of it, how often a file's rows were appended (external) |
| `req[r]` | a request thread: where it is, the selectors left, the file, what it read of the row |
| `excused`, `overlapped` | bookkeeping for the properties: appends that a force, a lost answer or a crash explains; whether two POSTs were ever under way together |

A POST takes its selectors one by one: `Locate` or `LocateFails`, `Find`, then
nothing (already uploaded), `ClearTran` (force), a poll of the old TRANID, or
`BeginUpload`, `Validated`, `Chunked`, `Finalize`, `RecordTran`, `StartPolling`,
`Poll`, `ApplyStatus`. `EntryFails` is the `except NsdlSpeedeError` around all
of it. A GET is `Get`, `Poll` and `ApplyStatus`. The loop of `poll_status` is
one `Poll`, its last reading: the earlier ones are thrown away and NSDL may
settle the TRANID before any of them. A flush writes only what differs from
what was loaded (`FlushStatus`), as SQLAlchemy does, which is what decides who
wins between a POST and a GET. The names of categories and columns are left
out; that a file fails validation is `EntryFails`.

### SettlementLane

| variable | code |
|---|---|
| `row` | `settlement_uploads`: status, `tran_id`, `process_required` (durable) |
| `owner`, `registrations`, `code`, `processed` | DP: the row of a Tran_Id, how often its file was registered, the status code, how often Step 7 ran (external) |
| `req[r]` | a request thread: step, attempt, polls used, the reading, the status it loaded |
| `unheard` | registrations whose answer never came, for the property |

`Submit` to `GetMaster` are the lines before the retry loop; `Validate`,
`UploadChunks`, `Register` and `RecordTran` an attempt; `StepFails` and
`RegisterLost` end one and `Retry` begins the next or leads to `GiveUp`. `Poll`
is one reading, so that the budget is visible; `Verdict`, `RunProcess`,
`RecordProcessed` and `TimedOut` are what follows. `CallFails` is a
`DPUploadError` outside the loop: 502, with the row as it was. `Get`, `Check`
and `ApplyCheck` are the status endpoint.

`RowFate` is what is left of this without threads, attempts, polls and status
words: which rows have a POST under way (`Posted`), what a row says (`Told`:
every status that is not final reads as open) and which Tran_Id it keeps
(`Kept`). It says three things no invariant over one state does: DP is given the
file of a row only by its POST and never after a Tran_Id is kept; a Tran_Id that
is kept and a row that is refused stay as they are; and once the POST is over, by
an answer, a 502 or a crash, what is written to the row is DP's verdict and
nothing else. `ApplyCheckAnyCode`, a status request that writes `in_progress`
where it has no verdict, breaks only that last one.

### ChunkTransfer

A file is any sequence of up to `MaxSize` bytes, of which only the newline is
told apart; sizes are in bytes where the code has kilobytes. `SendChunk` is one
call of the loop with the answer the server chose: the expected one, a refusal,
none, or a Status nobody expects, each with the chunk kept or not where that can
be. What each client makes of it is `CbosTakes`, `DpTakes`, `NsdlTakes`. The CBOS
client takes any Status that is not a failing one for success, an odd one
included; that CBOS keeps each chunk it does not call failed is an assumption
about CBOS on which `WholeFile` rests for that lane, as is that a server keeps
one copy of a chunk number. Left
out: the byte order mark, a chunk read that comes back short.

### UploadMatching and FileRouting

A text is a sequence of characters and keeps everything these functions look at
(containment, prefix, suffix, length, case, runs of digits). A date is shortened:
`DDMMYYYY` is a run of three digits and `ddmmyy` a run of two that is the long
one without its century, so that, as in the code, one form may occur inside
another run. `FetchUploadRules`, `MatchFile` and `ResolveUploadName` translate
the functions of these names. A list comprehension, a sort or a search in the
code is a set of positions here: the rules that match, the longest of them, what
a tie-break leaves (`Narrow`), the places of a run of digits; the list of rules
is a recursive function of the number of slots looked at. `FileRouting` applies
them where
`process_batch` does, with each Step 40 call failing or not (an answer that
cannot be decoded raises instead: in the batch it is a failed setup, in the
post-trade request the 502 of `GetRule`), and has the
post-trade request as a machine of its own: `LocateInFolder`, `LocateInRoot`,
`GetRule`, `Send`, `Register`, an answer. A request goes on after an answer that
is not final (404, 500, 502). Several callers may ask for the same file at once.

Definitions commented `Faulty:` are not part of the specification: each is a
plausible wrong version of the action that follows it, kept to show that the
properties notice.

## Runs

Bounds of the `batch_` runs: two batches `b1`, `b2`, because every hazard is
between a batch and itself or a batch and the one that supersedes it; two request
threads, so that one can lose the row, the guard or the last place to the other;
a queue of one, so that full is reached; at most one death with work in hand
(`MaxRestart`), after which the interesting state is what survived.

Bounds of the `upload_` runs: two batches of the same date, because a run meets
only what earlier runs left, whoever they belonged to. `upload_safety` follows one
file of one slot through all that can happen to it: `MaxAbort = 1` dead run and
`MaxLost = 1` lost answer, each at any step, refusals by CBOS, two setup attempts
and two PROCESSIDs, so that an attempt whose answer was lost can leave a process
behind. `upload_slots` has two files with a slot each, so that one file can be
settled and the other not, one slot filled and the other empty; nothing dies or
is lost there. The number of runs is not bounded: a batch is run again as often
as its status allows. `MayRun` is every status, since a re-POST may act on an old
one. A manifest that is declared empty is in no `upload_` instance (`b2` of
`batch_live` is one); the proofs have it.

Bounds of the `nsdl_` runs: one version, since rows of different versions meet
only in the default selector; two POSTs and a GET, which is what it takes to
overlap and to cross; one fault anywhere; as many TRANIDs as the posts can use
up. `nsdl_live` has one POST thread, a force and calls that name a file twice.

Bounds of `settlement`: one row, since rows share nothing (every POST has its
own); a second thread for the status GET; three attempts so that one is in the
middle; two polls so that the budget can end and be ended early; three faults,
so that every attempt may fail, or a registration be lost twice.

Bounds of `transfer`: six bytes in chunks of two, so that there are up to three
full chunks and the added newline may need a fourth; three faults against two
tries per chunk, so that a chunk may fail for good.

Bounds of `routing`: two slots of every pair of thirteen kinds, one listed twice
and one that expects no file; thirteen files chosen so that each operator, each
tie-break, each column case and each date form occurs; years of three days; two
failed calls.

| run | instance | shows |
|---|---|---|
| `batch_safety` | one folder, so `b2` supersedes `b1`; two request threads (symmetric); one slot; queue of 1; one crash | types, the guard, the counters, the decision's order, the clean stop, rejected batches stay out, and refinement of `SingleFlight` |
| `batch_live` | one folder, `b2` declares no files; two request threads; queue of 1; one crash; no slots, hence no parked batch and no force-proceed | every guard key is released, an orderly shutdown ends, and a batch whose manifest stays current and is posted again and again gets settled |
| `upload_safety` | two manifests of one file; two PROCESSIDs, two setup attempts; a zero-UploadID step, the holiday check; a dead run and a lost answer | types; nothing is shown as uploaded that CBOS has nothing for; registrations are accounted for, one per file and per reason for another; refinement of `FileFate` |
| `upload_slots` | overlapping manifests of two files for two slots, one allowlisted; two PROCESSIDs; nothing dies or is lost | every run settles its files, Step 7 comes after every Step 5, and nothing unexcused is empty in a confirmed batch unless the other process has it |
| `nsdl_safety` | two POST threads (symmetric) and a GET, one fault | no append without a reason, no TRANID lost, success means loaded |
| `nsdl_live` | one POST thread, one GET thread, a force, one fault; fair | every file that keeps being posted ends |
| `settlement` | a row, two threads, three faults; fair | registrations accounted for, verdicts are DP's, Step 7 right, every registered row resolved, and refinement of `RowFate` |
| `transfer` | every file and every setting, three lanes, three faults | a completed transfer is the whole file, in chunks of the right size; rows are neither lost nor added |
| `routing` | slots and files as above; two post-trade callers; two faults; fair | types, and that matching, renaming and the post-trade answers are right |
| `upload_refused` | expected violation; two manifests of one file, one slot, one PROCESSID, no fault; fair | a file sent again for a slot that CBOS answered FAILED is skipped |
| `nsdl_twice` | expected violation; two POSTs, no fault | overlapping POSTs finalize a row that carries a TRANID |
| `routing_permanent` | expected violation | a failed Step 40 is answered as a configuration error |

`batch_live` has no slots, so no batch is parked and none force-proceeded: with a queue of one the put of a
force-proceed may come first every time, and then nothing brings a re-posted
batch through. What a force-proceed does to guard and counters is in
`batch_safety`.

`AppendsAccounted` and `TranNotOverwritten` hold as long as no two POSTs
overlap, and say so: `nsdl_twice` shows what happens when they do. The
orchestrator posts one file per call and waits, so that is how the lane is run,
but nothing in the code makes it so. `SuccessAppended` needs no such condition.

Three properties of `UploadLane` say in themselves what may weaken them, and hold
for every value of the constants:

- `GateHolds` lets a slot of a confirmed batch be empty in its own process when
  another process of the date holds a file there that the batch lists and that is
  recorded as uploaded: with a second PROCESSID (see below) `find_completed` skips
  such a file and counts its slot as filled. `upload_slots` has that case.
- `AtMostOnce` and `EntriesAccounted` allow one registration more for every run
  that died and every answer that was lost: a run that dies between a
  registration and the audit commit leaves an entry nobody knows of, and the next
  run registers the file again. `upload_safety` has one of each.
- `AtMostOnce` allows one more for each time CBOS answered the file's slot FAILED,
  since such a file is to be sent again. The code does not use this: it skips the
  file (`upload_refused`, below). The property therefore says nothing in favour of
  that skip, and would hold as well if it were repaired.

Deadlock is checked in the `batch_`, `upload_` and passing `nsdl_` runs, where a
request can always come. It is not in `settlement`, where the bound on rows ends
the posts, in `transfer`, which ends with the file sent, and in `routing`, which
ends when the file is routed or every caller settled.

### Fairness

`ThreadFairness` is what the process gives while it lives: the worker thread and
each request thread inside a request get to run, and the lifespan's blocking put
of the sentinel proceeds once there is room. Nothing is assumed of the bot, of
ops, or of a crash. `GuardReleased` and `ShutdownCompletes` need only this.

`RecoveryFairness` is the environment a recovery needs, and is the hypothesis of
`RepostRecovers`, stated for each batch rather than assumed silently: a stopped
process is started again; whoever published its manifest keeps posting it (strong fairness, since the server may go down in
between); a put for the batch that is possible again and again is made (the
queue is not always filled by others first); CBOS does not defer every run of a
batch; and the write that settles it does not fail every time. The last three
are needed because the code retries nothing by itself: without any one of them
TLC shows an endless loop of 503s, of deferrals, or of failing status writes.

`UploadLane` has no liveness property of its own: that a run ends is the worker
thread's fairness, used in `batch_live`. `FairSpec` of `upload_refused` is that
same fairness; the counterexample does not come from a run that stops.

The other lanes assume that a request thread inside a request goes on and that
the far system settles what it was given (NSDL's procedures, DP's loads end).
That a row ends needs a caller who does not give up: the orchestrator posts a
version again and again (`Retried`), the status of a row is asked for again and
again, a post-trade caller repeats what was not final. `PublishedIsSettled`
excepts a caller who names no folder once the bot has filed the file away: that
caller looks only in the root and gets 404 each time (see below). Those are
strong where
another request may occupy the thread in between. A crash or a failed call is
never assumed away: they are bounded in number, not excluded.

## Proofs

`BatchLaneProofs` proves, for any finite or infinite set of batches, folders,
slots and threads, any queue bound and any number of restarts, and from
`ConstantsAssumption` alone:

| theorem | says |
|---|---|
| `TypeSafe` | `Spec => []TypeOK`, the queue's bound included |
| `NoDuplicates` | `Spec => []NoKeyHeldTwice` |
| `GuardIsExact` | `Spec => []GuardExact` |
| `UnfinishedIsExact` | `Spec => []UnfinishedExact` |
| `StopsClean` | `Spec => []CleanStop` |
| `OnlyDuplicatesDropped` | `Spec => []SupersedingNotSwallowed` |
| `RejectedStaysOut` | `Spec => []RejectedNeverRuns` |
| `DecisionRecorded` | `Spec => []AuditBeforeProceed` |
| `SingleFlightImplemented` | `Spec => ImplementsSingleFlight` |

The inductive invariant `Inv` is `TypeOK` with what it needs to go through a
step: `HandlerOK` (a thread past `load` holds a real task; no request is open
once shutdown has begun), `WorkerOK` (a busy worker holds a real task),
`Sentinel` (the sentinel is in the queue only while joining, and last),
`UnfinishedExact`, `GuardExact` and `NoKeyHeldTwice`. The last two need each
other: the guard can only keep keys unique if it holds every key in use, and
releasing a key is only right if nobody else holds it. To keep the case split
small, `StepClaims` first reduces every step to one that leaves all claims
alone or to one of eight that do not, and `GuardStep` treats those.

`Accepted` strengthens `Inv` for the two properties about the table: whatever
sits in the queue, the worker or the second half of a submission has a row
that is not `REJECTED`, and for a force-proceed a recorded decision.
`RejectedNeverRuns` is not inductive without it, because it says nothing of a
thread that is about to create or to enqueue.

`UploadLaneProofs` proves, for any batches, manifests, files, slots, matching
and PROCESSIDs, any `MayRun`, and any number of dead runs and lost answers:

| theorem | says |
|---|---|
| `UploadTypeSafe` | `Spec => []TypeOK` |
| `ShownIsRegistered` | `Spec => []UploadedIsRegistered` |
| `RegistersLast` | `Spec => RegisterAfterAllSent` |
| `EveryFileSettled` | `Spec => OutcomeForEveryFile` |
| `FileFateImplemented` | `Spec => ImplementsFileFate` |

The argument has four layers, each inductive given those before it. `Typed` is
`TypeOK` with what the program counter says about the other fields: a file in
hand in `move` and `record` and nowhere else, a PROCESSID of CBOS's from `setup`
on. `Evidence` is why a claim is true: what Table2 reports as done, what the run
holds as registered, a file in hand for `uploaded/`, the folder and the audit
rows all rest on an entry of some process, and entries are never taken back
(`RegisteredGrows`). `UploadedIsRegistered` alone is not inductive: it says
nothing of the run that is about to move a file. `FilesOK` says that the lists
of the run are disjoint and lie in the source folder and that none still waits to
be sent in Step 7; with `Evidence` it gives the step simulation of `FileFate`.
`OutcomesOK` and `ListsOK` say that a file the run took up and no longer holds
is settled or in hand, and which lists are empty where; a run that concludes
holds nothing.

`UploadOnceProofs` goes on from there, for the same constants, with what relates
several runs:

| theorem | says |
|---|---|
| `RegistrationsKnown` | `Spec => []EntriesAccounted` |
| `RegisteredOnce` | `Spec => []AtMostOnce` |
| `ConfirmedIsComplete` | `Spec => GateHolds` |

A step is first reduced to what it does to the run's fields (`QuietFields`,
`SetsAsideFields`, `SkipFields`, `DeliverFields`, ...), since some thirty actions
fall into seven kinds. `SentOK` then says that what waits for Step 7 is not
recorded as uploaded, which is why a registration finds its file unaccounted for.
`CountsOK` counts: the registrations of a file are at most the dead runs and lost
answers, plus one if the file is accounted for (which is more than `AtMostOnce`
asks: no refusal is needed to explain one). `AtMostOnce` alone is not
inductive, since it does not say why the next registration is still allowed, and
`EntriesAccounted` alone says nothing once a fault has happened. A registration
adds one element to a finite set (`EntryRegisters`) and accounts for the file, or
is itself the lost answer; a step takes the account of a file away only by dying
(`AccountedStays`). `GateOK` says that what the run takes for filled is registered
in its process or filled elsewhere, and what each place where a verdict is formed
has checked.

`NsdlLaneProofs` and `SettlementLaneProofs` prove, for any versions or rows,
threads, TRANIDs, selections, budgets and numbers of faults:

| theorem | says |
|---|---|
| `NsdlLaneProofs!TypeCorrect` | `Spec => []TypeOK` |
| `AppendedOnce` | `Spec => []AppendsAccounted` |
| `SuccessTrue` | `Spec => []SuccessAppended` |
| `TranKeptSafe` | `Spec => TranNotOverwritten` |
| `SettlementLaneProofs!TypeCorrect` | `Spec => []TypeOK` |
| `SubmittedOnce` | `Spec => []RegistrationsAccounted` |
| `VerdictsTrue` | `Spec => []VerdictBacked` |
| `ProcessOnce` | `Spec => []ProcessFiredRight` |
| `RowFateImplemented` | `Spec => ImplementsRowFate` |

For NSDL the inductive invariant adds to the types what the program counter says
of a thread (`Threads`: a TRANID in hand was handed out for the file in hand, a
success that was read is NSDL's), that a GET only polls (`GettersOnlyPoll`),
that a row's TRANID is one of its file's and a success on it is backed (`Rows`),
and `Solo`, which holds while no two POSTs overlapped: at most one POST is under
way (`Alone`), a row whose file is being sent has no TRANID (`Clean`), and the
appends of a file are at most the excused ones, plus one if its row has a TRANID
or a TRANID is on its way into it (`Counted`). `AppendsAccounted` alone is not
inductive: it does not say why the next finalize is still allowed.

For the settlement lane it adds what each program counter knows (`Threads`),
that a row has at most one thread that works on it (`Sole`), that rows name
their own Tran_Ids and carry DP's verdict (`Rows`), where Step 7 may have run
(`ProcessedOK`), and the count of registrations with the one that is on its way
into the row (`Counted`). The retry is what makes `Counted` necessary: an attempt
may begin again only while no Tran_Id was heard of. The same invariant carries
the step simulation of `RowFate`: each action is shown to be one of its steps or
none (`...Shown`), by way of three ways to write a row (`WriteReopens`,
`WriteTells`, `WriteRefuses`); `Sole` is why a POST that ends takes its row, and
no other, out of `Posted`.

`ChunkTransferProofs` proves, for every file, chunk size, header scan, retry
budget and number of faults:

| theorem | says |
|---|---|
| `TransferIsWhole` | `Spec => []WholeFile` |
| `RowsArrive` | `Spec => []RowsKept` |

What is to be sent is written down once, as `Data`: the file behind its header,
with the terminator it may need. `ChunkIs` shows that what each call of the loop
cuts out of the file, the last one with the terminator, is the piece `ChunkAt` of
`Data`, and `Assembles` that the pieces put together are `Data` again; both rest
on the rounding up of the number of chunks (`RoundsUp`). The inductive invariant
`Kept` says that the server holds a first part of those pieces, each in its
place, and how much of it is certain for each of the three clients. That the rows
of `Data` are those of the file (`RowsBehind`, `RowsEnd`) gives `RowsArrive`.

`FileRoutingProofs` proves, for every table of slots, every file, text, calendar,
caller and number of failed calls:

| theorem | says |
|---|---|
| `RoutingTypes` | `Spec => []TypeOK` |
| `OrderDoesNotDecide` | `Spec => []OrderIrrelevant` |
| `CatchAllIsLast` | `Spec => []CatchAllLast` |
| `NothingStarts` | `Spec => []NothingStartsFailing` |
| `RewriteIsSafe` | `Spec => []RewriteSafe` |
| `DeclaredIsAccepted` | `Spec => []DeclaredAccepted` |

The invariant `Routing` is short; the work is in the operators. `RulesFetched`
shows that the list gathered from the table names no UploadID twice. `PoolIs` and
`MatchIs` say what the tie-breaks leave, and `MatchMirrored` that a position `i`
survives them exactly if `n - i + 1` does in the reversed list, hence
`OrderDoesNotDecide`. `NameTaken` shows that a prefixed name contains its prefix
in any case. For the rewrite, `RunsApart` shows that two runs of digits are the
same or have a character between them that is no digit, so that a date put in the
place of another of its length (`Spliced`, `DateReplaced`) leaves every run where
it was and every other date as it was. `Sent` remembers from which slot the name
was made.

`RoutingAssumption` is what these proofs use of the constants: names, patterns
and dates are texts over the characters that have a lower case; Step 40 answers
alike for one UploadID; the configured delimiter is among those counted
(`_candidate_delimiters` puts it first); CBOS's trading dates are of the century
that the six-digit form means (`_as_date` adds 2000).

`NumberSets` replaces induction over a predicate, which needs an operator as a
parameter, by induction over a set: a set of numbers that has 0 and with every
number its successor has all of them, shown by counting finite sets
(`SetInduction`). From it follow least and greatest elements and that the
functions exist by which `FetchUploadRules` and `FlattenSeq` recurse
(`GatheringExists`, `FlattenIs`).

Every safety invariant and every action property that a passing run checks is
proved. Only model-checked is the liveness: `GuardReleased`,
`ShutdownCompletes`, `RepostRecovers`, `FileEnds`, `RowResolves` and
`PublishedIsSettled` rest on fairness, which is out of this prover's reach.

## What the checks found

Three runs end with a counterexample to a sentence of the repository;
`PROJECT.json` quotes it.

- `nsdl_twice`: two POSTs for one file that overlap both read a row without a
  TRANID; both finalize, NSDL has the rows twice, and the second TRANID
  overwrites the first. The rule the module calls its most important one is kept
  by reading the row before, with no lock until the append.
- `routing_permanent`: when Step 40 fails for a post-trade slot whose pattern
  Step 4 leaves blank, the failure is logged and read as "no pattern", and the
  caller gets the 422 that is documented as "retrying will not fix".
- `upload_refused`: a file that comes again under its name for a slot CBOS has
  meanwhile answered FAILED passes `already_in_cbos`, as it should, and is then
  skipped on account of the audit row of its first upload. It is shown as
  uploaded, its slot counts as filled, and nothing is ever sent
  (`upload_service.py:687`; `cbos_client.py:317`).

Earlier work on the two main lanes showed five more by counterexample. Their
properties are false of the code and are not kept as runs:

- A re-POST that read `uploading` before the run ended and reaches the guard
  after it was released queues a `CONFIRMED` batch again, and its row becomes
  `unconfirmed` because the files are gone (`batch_service.py:138`; the comment
  at 142 says such an enqueue is dropped).
- `proceed_slots` may name other slots than the force-proceed that confirmed the
  batch excused, because the decision of a dropped duplicate is recorded too
  (`batch_service.py:239`; `docs/BATCH_HANDOFF_CONTRACT.md:153`).
- A superseded batch whose task was lost is not settled by anything: recovery
  starts from the manifest on disk, which is no longer its own
  (`batch_service.py:206`; `docs/BATCH_HANDOFF_CONTRACT.md:76`).
- A run that moved its files to `uploadFailed/` and died before writing FAILED
  leaves an empty source folder, which the next run reports as superseded, with
  the files "in CBOS under the winning batch" (`upload_service.py:321`, 330).
- An empty slot that is allowlisted but not flagged optional by CBOS passes the
  gate; Step 8 is not called for it, though the detail of the confirmed upload
  says every empty slot was marked (`upload_service.py:853`, 136).

One more is seen in the model at once and has no run: a post-trade caller who
names no folder looks only in the root (`post_trade_upload_service.py:96`), so
once the bot has filed the file away every repetition is answered 404, though
`_locate` says that with both places tried "a caller that does not know about
folders ... still works" (88-91). `PublishedIsSettled` excepts that caller by name
(`FiledOutOfReach`).

Seen while modelling, and not in contradiction to a sentence of the repository:

- While a refused put has not yet given its guard back, a submission of the same
  batch is answered "already queued" though nothing is.
- `find_existing_process_id` reads a failed look-up as "no process", so a batch
  may create a second PROCESSID for a date that has one, and a setup attempt
  whose answer was lost does the same.
- A batch with a failed file is confirmed when its slot may stay empty.
- Every Step 8 call may fail; the batch is confirmed all the same.
- Force-proceed marks the zero-UploadID and the allowlisted steps too, not only
  the slots ops named.
- NSDL's placeholder row can exist twice, because NULL versions are distinct to
  the unique constraint; from then on a report that is not there yet raises out
  of the call, and the files after it are not attempted.
- Settlement's "timed out" is also what an answer without Result reads as: it is
  no pending code, so it ends the polling before its budget is spent
  (`dp_upload_client.py:451`).
- The post-trade lane remembers nothing: every answer lost after Step 41, and
  every second caller, registers the file once more.
- A post-trade file that the bot files away between the look in the folder and
  the look in the root is answered with 404, and one filed away after it was
  found with an error nobody catches; both end once the caller asks again.
- The post-trade name check uses the whole file name where `match_file` uses the
  stem, so rules that compare by EQUALS or ENDSWITH differ between the lanes;
  `translate_name` treats every rule as a containment.
- The date rewrite replaces the first occurrence of the digits in the name,
  which may lie inside another run of digits; `RewriteSafe` excludes that case.
- The same swallowed Step 40 failure drops a slot from a batch's rules, and its
  file is then rejected as matching nothing.

## Plan

1. `BatchLane` with `SingleFlight` and the proofs (done).
2. `UploadLane` with `FileFate` and the proofs (done).
3. `NsdlLane` and its proofs (done).
4. `SettlementLane` with `RowFate` and the proofs (done).
5. `ChunkTransfer`, `UploadMatching`, `FileRouting` (done).
6. Proofs of what relates several runs of the upload lane, of the transfer, the
   matching and the date rewrite (done).
7. Left: `BatchLane`'s view of a run implemented by `UploadLane`; an abstract
   specification for the NSDL lane ("at most one append per decision"); the
   allowlist of optional slots and the manifest rules as
   operators.

## Not modelled

JSON and HTTP formats, hashing, encryption, request signing and token caching;
logging, correlation ids and redaction; configuration, whose values are
constants; the read-only endpoints; the parsing of the optional-slot allowlist;
the mock and the scripts. `PROJECT.json` lists each with its reason.
