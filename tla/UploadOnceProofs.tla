---------------------------- MODULE UploadOnceProofs ----------------------------
(***************************************************************************)
(* The two rules of the upload lane that are about several runs: how often *)
(* a file is registered, and what a confirmed batch may leave empty, for   *)
(* any batches, files, slots and PROCESSIDs, any number of dead runs and   *)
(* of lost answers.                                                        *)
(***************************************************************************)
EXTENDS UploadLaneProofs, FiniteSetTheorems

(* The run's lists where UploadLaneProofs needs nothing of them: none        *)
(* without a run or in a force-proceed, and no file of Step 7 is in hand or  *)
(* known from an earlier run.                                                *)
SentOK ==
  /\ run.pc = "idle" \/ Proceeding => run.chunked = {} /\ run.reached = {}
  /\ Moving => run.file \notin run.chunked
  /\ \A f \in run.chunked : ~Completed(f)

(* No run, nothing sent. *)
LEMMA SentInit == Init => SentOK
  BY DEF Init, SentOK, Proceeding, Moving, IdleRun

(* Steps that end a run and leave the audit table alone keep it. *)
LEMMA SentDropped ==
  ASSUME run'.chunked = {}, run'.reached = {}
  PROVE  SentOK'
  BY DEF SentOK

(* So do those that change neither the lists nor what is recorded. *)
LEMMA SentKept ==
  ASSUME SentOK, UNCHANGED audit, run'.chunked = run.chunked, run'.reached = run.reached,
         run'.pc # "idle", Proceeding' => Proceeding, ~Moving' \/ (Moving /\ run'.file = run.file)
  PROVE  SentOK'
<1>1. \A f : Completed(f)' = Completed(f)
  BY DEF Completed
<1> QED
  BY <1>1 DEF SentOK

(* A file in hand is taken out of Step 7's list. *)
LEMMA SentInHand ==
  ASSUME SentOK, UNCHANGED audit, NEW f, run'.pc = "move", run'.file = f,
         run'.chunked = run.chunked \ {f}
  PROVE  SentOK'
<1>1. \A g : Completed(g)' = Completed(g)
  BY DEF Completed
<1> QED
  BY <1>1 DEF SentOK, Proceeding

-----------------------------------------------------------------------------
(* What the steps of a run do to its fields.  First those that work on no    *)
(* file.                                                                     *)
Quiet ==
  \/ TakeSupplied \/ SuppliedInvalid \/ FindExisting \/ Reserve \/ SetupAttemptFails
  \/ SkipZeroSteps \/ AllSent \/ SkipUnfilledOptional \/ Gate \/ ProceedRead \/ ProceedMarks

LEMMA QuietFields ==
  ASSUME Typed, Quiet
  PROVE  /\ run'.batch = run.batch /\ run'.todo = run.todo /\ run'.chunked = run.chunked
         /\ run'.reached = run.reached /\ run'.filled = run.filled /\ run'.file = run.file
         /\ run'.outcome = run.outcome /\ run'.back = run.back /\ run'.named = run.named
         /\ ~Moving /\ run.pc # "idle" /\ ~Moving' /\ run'.pc # "idle"
         /\ Proceeding' => Proceeding
         /\ UNCHANGED <<audit, entries, aborts, lost>>
<1>1. run \in RunState
  BY DEF Typed, TypeOK
<1>2. UNCHANGED <<audit, entries, aborts, lost>> /\ ~Moving /\ run.pc # "idle"
  BY DEF Quiet, TakeSupplied, SuppliedInvalid, FindExisting, Reserve, SetupAttemptFails,
     SkipZeroSteps, AllSent, SkipUnfilledOptional, Gate, ProceedRead, ProceedMarks, At, Moving,
     cbos, outside
<1>3. CASE TakeSupplied \/ FindExisting \/ Reserve \/ ProceedRead
  <2>1. \E pc \in {"setup", "reserve", "approve"} : \E p, t :
          /\ run' = [run EXCEPT !.pc = pc, !.pid = p, !.table = t]
          /\ pc = "approve" => run.pc = "proceed"
    <3>1. CASE FindExisting
      <4>1. PICK p : run' = [run EXCEPT !.pc = "reserve", !.pid = p]
        BY <3>1 DEF FindExisting
      <4>2. run' = [run EXCEPT !.pc = "reserve", !.pid = p, !.table = run.table]
        BY <1>1, <4>1 DEF RunState
      <4> QED
        BY <4>2
    <3>2. CASE TakeSupplied \/ Reserve \/ ProceedRead
      BY <3>2 DEF TakeSupplied, Reserve, ProceedRead, At
    <3> QED
      BY <1>3, <3>1, <3>2
  <2> QED
    BY <1>1, <1>2, <2>1 DEF RunState, Moving, Proceeding
<1>4. CASE SetupAttemptFails \/ Gate
  BY <1>1, <1>2, <1>4 DEF SetupAttemptFails, Gate, RunState, At, Moving, Proceeding
<1>5. CASE \/ SuppliedInvalid \/ SkipZeroSteps \/ AllSent \/ SkipUnfilledOptional \/ ProceedMarks
  BY <1>1, <1>2, <1>5 DEF SuppliedInvalid, SkipZeroSteps, AllSent, SkipUnfilledOptional,
     ProceedMarks, RunState, At, Moving, Proceeding
<1> QED
  BY <1>3, <1>4, <1>5 DEF Quiet

(* Those that end a run with a verdict of its own, or hand it back.          *)
Ending ==
  \/ Holiday \/ NotRunnable \/ SetupFailed \/ NothingUploaded \/ RecordVerdict
  \/ ProceedNoProcess \/ ProceedRefused \/ ProceedConfirms

LEMMA EndingFields ==
  ASSUME Ending
  PROVE  /\ run' = IdleRun /\ run.pc # "idle" /\ ~Moving
         /\ UNCHANGED <<audit, entries, aborts, lost>>
  BY DEF Ending, Holiday, NotRunnable, SetupFailed, NothingUploaded, RecordVerdict,
     ProceedNoProcess, ProceedRefused, ProceedConfirms, Ends, At, Moving, cbos, outside

(* A run begins with files of its batch, or with none. *)
LEMMA BeginFields ==
  ASSUME NEW b \in Batch, BeginProceed(b) \/ \E supplied \in BOOLEAN : BeginUpload(b, supplied)
  PROVE  /\ run.pc = "idle" /\ run'.pc \in {"supplied", "find", "proceed"} /\ run'.back = "none"
         /\ run'.todo \subseteq Listed[run'.batch] /\ run'.chunked = {} /\ run'.reached = {}
         /\ run'.filled = {} /\ run'.table.done = {} /\ run'.outcome = "none"
         /\ UNCHANGED <<audit, entries, aborts, lost>>
<1>1. CASE BeginProceed(b)
  BY <1>1 DEF BeginProceed, At, IdleRun, EmptyTable, cbos
<1>2. ASSUME NEW supplied \in BOOLEAN, BeginUpload(b, supplied)
      PROVE  /\ run.pc = "idle" /\ run'.pc \in {"supplied", "find"} /\ run'.back = "none"
             /\ run'.todo \subseteq Listed[run'.batch] /\ run'.chunked = {} /\ run'.reached = {}
             /\ run'.filled = {} /\ run'.table.done = {} /\ run'.outcome = "none"
             /\ UNCHANGED <<audit, entries, aborts, lost>>
  BY <1>2 DEF BeginUpload, At, IdleRun, EmptyTable, cbos, outside
<1> QED
  BY <1>1, <1>2

(* The others, and a task that was superseded, leave the run alone.          *)
LEMMA OutsideFields ==
  ASSUME Environment \/ UNCHANGED vars \/ \E b \in Batch : Superseded(b)
  PROVE  UNCHANGED <<run, audit, entries, aborts, lost>>
  BY DEF Environment, Publish, RequestProceed, EngineReserves, CbosAccepts, CbosRefuses,
     Superseded, vars, cbos, outside

(* A step that sets a file aside: it goes to uploadFailed/, registered or not. *)
SetsAside == FailFile \/ RejectFile \/ UploadFails \/ RegisterFails \/ RegisterUnanswered

(* The fields no step on a file changes. *)
SameTask ==
  /\ run'.batch = run.batch /\ run'.pid = run.pid /\ run'.table = run.table
  /\ run'.verdict = run.verdict

LEMMA SetsAsideFields ==
  ASSUME Typed, FilesOK, SetsAside
  PROVE  /\ SameTask /\ UNCHANGED <<audit, aborts>> /\ ~Moving /\ run'.pc = "move"
         /\ run'.outcome = "failed" /\ run'.reached = run.reached /\ run'.filled = run.filled
         /\ run'.back # "deliver" /\ (run'.back = "failing" => run.pc = "failing")
         /\ \E f \in run.todo \cup run.chunked :
              /\ run'.file = f /\ run'.todo = run.todo \ {f} /\ run'.chunked = run.chunked \ {f}
<1>1. run \in RunState
  BY DEF Typed, TypeOK
<1>2. PICK f \in File, k \in {"failing", "files", "register"} :
        /\ run' = InHand(f, "failed", k) /\ f \in run.todo \cup run.chunked
        /\ k = "failing" => run.pc = "failing"
  <2>1. run.pc = "matched" => run.file \in run.todo
    BY DEF FilesOK
  <2> QED
    BY <1>1, <2>1 DEF SetsAside, FailFile, RejectFile, UploadFails, RegisterFails,
       RegisterUnanswered, RunState, At
<1>3. UNCHANGED <<audit, aborts>> /\ ~Moving
  BY DEF SetsAside, FailFile, RejectFile, UploadFails, RegisterFails, RegisterUnanswered, At,
     Moving, outside
<1>4. k # "deliver"
  OBVIOUS
<1> QED
  BY <1>1, <1>2, <1>3, <1>4, InHandRun DEF SameTask

(* A file that is skipped goes to uploaded/, and its slot counts as filled.  *)
LEMMA SkipFields ==
  ASSUME Typed, FilesOK, SkipFile
  PROVE  /\ SameTask /\ UNCHANGED <<audit, entries, aborts, lost>> /\ ~Moving
         /\ run'.pc = "move" /\ run'.outcome = "uploaded" /\ run'.back = "files"
         /\ run'.reached = run.reached /\ run'.filled = run.filled \cup {Match[run.file]}
         /\ run.file \in run.todo /\ run.file \in File /\ run'.file = run.file
         /\ run'.todo = run.todo \ {run.file} /\ run'.chunked = run.chunked \ {run.file}
<1>1. run \in RunState
  BY DEF Typed, TypeOK
<1> DEFINE r == InHand(run.file, "uploaded", "files")
           us == r.filled \cup {Match[run.file]}
<1>2. /\ run' = [r EXCEPT !.filled = us] /\ run.file \in run.todo /\ run.file \in File
      /\ UNCHANGED <<audit, entries, aborts, lost>> /\ ~Moving
  BY <1>1 DEF SkipFile, FilesOK, At, Moving, RunState, cbos, outside
<1>3. /\ r \in RunState /\ r.pc = "move" /\ r.file = run.file /\ r.back = "files"
      /\ r.outcome = "uploaded" /\ r.todo = run.todo \ {run.file}
      /\ r.chunked = run.chunked \ {run.file} /\ r.reached = run.reached
      /\ us = run.filled \cup {Match[run.file]} /\ r.batch = run.batch /\ r.pid = run.pid
      /\ r.table = run.table /\ r.verdict = run.verdict
  BY <1>1, <1>2, InHandRun
<1> HIDE DEF r, us
<1> QED
  BY <1>2, <1>3 DEF RunState, SameTask

(* A registered file is delivered to uploaded/. *)
LEMMA DeliverFields ==
  ASSUME Typed, DeliverFile
  PROVE  /\ SameTask /\ UNCHANGED <<audit, entries, aborts, lost>> /\ ~Moving
         /\ run.pc = "deliver"
         /\ run'.pc = "move" /\ run'.outcome = "uploaded" /\ run'.back = "deliver"
         /\ run'.filled = run.filled
         /\ \E f \in run.reached :
              /\ run'.file = f /\ run'.reached = run.reached \ {f}
              /\ run'.todo = run.todo \ {f} /\ run'.chunked = run.chunked \ {f}
<1>1. run \in RunState
  BY DEF Typed, TypeOK
<1>2. PICK f \in run.reached : run' = [InHand(f, "uploaded", "deliver") EXCEPT !.reached = @ \ {f}]
  BY DEF DeliverFile
<1> DEFINE r == InHand(f, "uploaded", "deliver")
           fs == r.reached \ {f}
<1>3. f \in File /\ run.pc = "deliver" /\ ~Moving /\ UNCHANGED <<audit, entries, aborts, lost>>
  BY <1>1 DEF RunState, DeliverFile, At, Moving, cbos, outside
<1>4. /\ r \in RunState /\ r.pc = "move" /\ r.file = f /\ r.back = "deliver"
      /\ r.outcome = "uploaded" /\ r.todo = run.todo \ {f} /\ r.chunked = run.chunked \ {f}
      /\ fs = run.reached \ {f} /\ r.filled = run.filled /\ r.batch = run.batch
      /\ r.pid = run.pid /\ r.table = run.table /\ r.verdict = run.verdict
      /\ run' = [r EXCEPT !.reached = fs]
  BY <1>1, <1>2, <1>3, InHandRun
<1> HIDE DEF r, fs
<1> QED
  BY <1>3, <1>4 DEF RunState, SameTask

(* The steps on a file that leave it where it is, or where it was to go. *)
LEMMA FileFields ==
  ASSUME Typed, MoveFile \/ RecordOutcome \/ MatchFile \/ UploadFile \/ RegisterFile
  PROVE  /\ SameTask /\ UNCHANGED <<aborts, lost>>
         /\ MoveFile =>
              /\ run'.pc = "record" /\ run'.file = run.file /\ run'.outcome = run.outcome
              /\ run'.back = run.back /\ run'.todo = run.todo /\ run'.chunked = run.chunked
              /\ run'.reached = run.reached /\ run'.filled = run.filled
         /\ RecordOutcome =>
              /\ run'.pc = run.back /\ run'.outcome = "none" /\ run'.back = "none"
              /\ run'.todo = run.todo /\ run'.chunked = run.chunked
              /\ run'.reached = run.reached /\ run'.filled = run.filled
         /\ MatchFile =>
              /\ run'.pc = "matched" /\ run'.outcome = run.outcome /\ run'.back = run.back
              /\ run'.todo = run.todo /\ run'.chunked = run.chunked
              /\ run'.reached = run.reached /\ run'.filled = run.filled
         /\ UploadFile =>
              /\ run'.pc = "files" /\ run'.outcome = run.outcome /\ run'.back = run.back
              /\ run'.todo = run.todo \ {run.file} /\ run'.chunked = run.chunked \cup {run.file}
              /\ run'.reached = run.reached /\ run'.filled = run.filled
         /\ RegisterFile => \E f \in run.chunked :
              /\ CreateEntry(f)
              /\ run'.pc = "register" /\ run'.outcome = run.outcome /\ run'.back = run.back
              /\ run'.todo = run.todo /\ run'.chunked = run.chunked \ {f}
              /\ run'.reached = run.reached \cup {f} /\ run'.filled = run.filled \cup {Match[f]}
<1>1. run \in RunState
  BY DEF Typed, TypeOK
<1>2. UNCHANGED <<aborts, lost>>
  BY DEF MoveFile, RecordOutcome, MatchFile, UploadFile, RegisterFile, outside
<1>3. CASE MoveFile
  BY <1>1, <1>2, <1>3 DEF MoveFile, RunState, SameTask, At, RecordOutcome, MatchFile, UploadFile,
     RegisterFile
<1>4. CASE RecordOutcome
  BY <1>1, <1>2, <1>4 DEF MoveFile, RunState, SameTask, At, RecordOutcome, MatchFile, UploadFile,
     RegisterFile
<1>5. CASE MatchFile
  BY <1>1, <1>2, <1>5 DEF MoveFile, RunState, SameTask, At, RecordOutcome, MatchFile, UploadFile,
     RegisterFile
<1>6. CASE UploadFile
  BY <1>1, <1>2, <1>6 DEF MoveFile, RunState, SameTask, At, RecordOutcome, MatchFile, UploadFile,
     RegisterFile
<1>7. CASE RegisterFile
  <2>1. PICK f \in run.chunked :
          /\ CreateEntry(f)
          /\ run' = [run EXCEPT !.chunked = @ \ {f}, !.reached = @ \cup {f},
                                !.filled = @ \cup {Match[f]}]
    BY <1>7 DEF RegisterFile
  <2>2. /\ run'.pc = "register" /\ run'.outcome = run.outcome /\ run'.back = run.back
        /\ run'.todo = run.todo /\ run'.chunked = run.chunked \ {f}
        /\ run'.reached = run.reached \cup {f} /\ run'.filled = run.filled \cup {Match[f]}
    BY <1>1, <1>7, <2>1 DEF RegisterFile, At, RunState
  <2>3. SameTask
    BY <1>1, <2>1 DEF SameTask, RunState
  <2>4. ~MoveFile /\ ~RecordOutcome /\ ~MatchFile /\ ~UploadFile
    BY <1>7 DEF RegisterFile, MoveFile, RecordOutcome, MatchFile, UploadFile, At
  <2> QED
    BY <1>2, <2>1, <2>2, <2>3, <2>4
<1> QED
  BY <1>3, <1>4, <1>5, <1>6, <1>7

(* There is no other step. *)
LEMMA Steps ==
  ASSUME [Next]_vars
  PROVE  \/ Environment \/ UNCHANGED vars \/ \E b \in Batch : Superseded(b)
         \/ \E b \in Batch : BeginProceed(b) \/ \E supplied \in BOOLEAN : BeginUpload(b, supplied)
         \/ Quiet \/ Ending \/ SetsAside \/ SkipFile \/ DeliverFile
         \/ MoveFile \/ RecordOutcome \/ MatchFile \/ UploadFile \/ RegisterFile
         \/ Fault \/ Die
  BY DEF Next, UploadRun, ProceedRun, Quiet, Ending, SetsAside
-----------------------------------------------------------------------------
(* A row that says uploaded stays, and only an outcome in hand makes one.    *)
LEMMA CompletedStep ==
  ASSUME Typed, FilesOK, [Next]_vars
  PROVE  /\ \A f : Completed(f) => Completed(f)'
         /\ \A f : RecordOutcome /\ run.outcome = "uploaded" /\ f = run.file => Completed(f)'
         /\ \A f : Completed(f)' => Completed(f) \/ (RecordOutcome /\ f = run.file)
<1>1. CASE RecordOutcome
  <2>1. audit' = (audit \ Open(run.file)) \cup {Row(run.outcome)}
    BY <1>1 DEF RecordOutcome
  <2>2. Row(run.outcome).file = run.file /\ Row(run.outcome).status = run.outcome
    BY DEF Row
  <2>3. \A r \in audit : r.status = "uploaded" => r \in audit'
    BY <2>1 DEF Open
  <2>4. Row(run.outcome) \in audit' /\ \A r \in audit' : r \in audit \/ r = Row(run.outcome)
    BY <2>1
  <2>5. \A f : run.outcome = "uploaded" /\ f = run.file => Completed(f)'
    BY <2>2, <2>4 DEF Completed
  <2>6. \A f : Completed(f)' => Completed(f) \/ f = run.file
    BY <2>2, <2>4 DEF Completed
  <2>7. \A f : Completed(f) => Completed(f)'
    BY <2>3 DEF Completed
  <2> QED
    BY <1>1, <2>5, <2>6, <2>7
<1>2. CASE MatchFile
  <2>1. PICK f \in run.todo :
          audit' = (audit \ Open(f)) \cup {[batch |-> run.batch, file |-> f, status |-> "pending"]}
    BY <1>2 DEF MatchFile
  <2>2. ~RecordOutcome
    BY <1>2 DEF MatchFile, RecordOutcome, At
  <2>3. \A r \in audit' : r \in audit \/ r.status = "pending"
    BY <2>1
  <2>4. \A r \in audit : r.status = "uploaded" => r \in audit'
    BY <2>1 DEF Open
  <2> QED
    BY <2>2, <2>3, <2>4 DEF Completed
<1>3. CASE ~RecordOutcome /\ ~MatchFile
  <2>1. UNCHANGED audit
    BY <1>3, Steps, OutsideFields, BeginFields, QuietFields, EndingFields, SetsAsideFields,
       SkipFields, DeliverFields
    DEF MoveFile, UploadFile, RegisterFile, Fault, Die
  <2> QED
    BY <1>3, <2>1 DEF Completed
<1> QED
  BY <1>1, <1>2, <1>3

(* The run's lists stay what Step 7 goes by. *)
LEMMA SentStep == Typed /\ FilesOK /\ SentOK /\ [Next]_vars => SentOK'
<1> SUFFICES ASSUME Typed, FilesOK, SentOK, [Next]_vars PROVE SentOK'
  OBVIOUS
<1>1. CASE Environment \/ UNCHANGED vars \/ \E b \in Batch : Superseded(b)
  <2>1. UNCHANGED <<run, audit>>
    BY <1>1, OutsideFields
  <2> QED
    BY <2>1 DEF SentOK, Moving, Proceeding, Completed
<1>2. CASE \E b \in Batch : BeginProceed(b) \/ \E supplied \in BOOLEAN : BeginUpload(b, supplied)
  BY <1>2, BeginFields, SentDropped
<1>3. CASE Quiet
  BY <1>3, QuietFields, SentKept
<1>4. CASE Ending \/ Fault \/ Die
  <2>1. run' = IdleRun
    BY <1>4, EndingFields DEF Fault, Die
  <2> QED
    BY <2>1, SentDropped DEF IdleRun
<1>5. CASE SetsAside
  BY <1>5, SetsAsideFields, SentInHand
<1>6. CASE SkipFile
  BY <1>6, SkipFields, SentInHand
<1>7. CASE DeliverFile
  BY <1>7, DeliverFields, SentInHand
<1>8. CASE MoveFile
  <2>1. Moving /\ UNCHANGED audit /\ ~Proceeding'
    BY <1>8, FileFields DEF MoveFile, Moving, At, Proceeding
  <2> QED
    BY <1>8, <2>1, FileFields, SentKept
<1>9. CASE RecordOutcome
  <2>1. run'.chunked = run.chunked /\ run.file \notin run.chunked
        /\ run'.pc \in {"failing", "files", "register", "deliver"}
    BY <1>9, FileFields DEF RecordOutcome, SentOK, Moving, At, Typed, RunOK, TypeOK, RunState, Back
  <2>2. \A f \in run.chunked : ~Completed(f)'
    BY <2>1, CompletedStep DEF SentOK
  <2> QED
    BY <2>1, <2>2 DEF SentOK, Moving, Proceeding
<1>10. CASE MatchFile
  <2>1. run'.chunked = run.chunked /\ run'.pc = "matched" /\ ~RecordOutcome
    BY <1>10, FileFields DEF MatchFile, RecordOutcome, At
  <2> QED
    BY <2>1, CompletedStep DEF SentOK, Moving, Proceeding
<1>11. CASE UploadFile
  <2>1. run'.chunked = run.chunked \cup {run.file} /\ run'.pc = "files" /\ ~RecordOutcome
        /\ ~Completed(run.file)
    BY <1>11, FileFields DEF UploadFile, RecordOutcome, At
  <2> QED
    BY <2>1, CompletedStep DEF SentOK, Moving, Proceeding
<1>12. CASE RegisterFile
  <2>1. run'.chunked \subseteq run.chunked /\ run'.pc = "register" /\ ~RecordOutcome
    BY <1>12, FileFields DEF RegisterFile, RecordOutcome, At
  <2> QED
    BY <2>1, CompletedStep DEF SentOK, Moving, Proceeding
<1> QED
  BY <1>1, <1>2, <1>3, <1>4, <1>5, <1>6, <1>7, <1>8, <1>9, <1>10, <1>11, <1>12, Steps

(* What find_completed knows, or will: a file the run accounts for is lost   *)
(* only with the run itself.                                                 *)
LEMMA AccountedStays ==
  ASSUME Typed, FilesOK, ListsOK, SentOK, [Next]_vars, NEW f, Accounted(f)
  PROVE  Accounted(f)' \/ aborts' = aborts + 1
<1>1. CASE Completed(f)
  BY <1>1, CompletedStep DEF Accounted
<1>2. run.outcome = "uploaded" => Moving
  BY DEF Typed, RunOK
<1>3. CASE Environment \/ UNCHANGED vars \/ \E b \in Batch : Superseded(b)
  <2>1. UNCHANGED <<run, audit>>
    BY <1>3, OutsideFields
  <2> QED
    BY <2>1 DEF Accounted, Completed
<1>4. CASE \E b \in Batch : BeginProceed(b) \/ \E supplied \in BOOLEAN : BeginUpload(b, supplied)
  <2>1. run.pc = "idle"
    BY <1>4, BeginFields
  <2> QED
    BY <1>1, <1>2, <2>1 DEF SentOK, Moving, Accounted
<1>5. CASE Quiet
  BY <1>1, <1>5, QuietFields DEF Accounted
<1>6. CASE Ending
  <2>1. run.reached = {}
    BY <1>6
    DEF Ending, Holiday, NotRunnable, SetupFailed, NothingUploaded, RecordVerdict,
        ProceedNoProcess, ProceedRefused, ProceedConfirms, At, ListsOK, Early, SentOK, Proceeding
  <2>2. ~Moving
    BY <1>6, EndingFields
  <2> QED
    BY <1>1, <1>2, <2>1, <2>2 DEF Accounted
<1>7. CASE Fault \/ Die
  BY <1>7 DEF Fault, Die
<1>8. CASE SetsAside
  BY <1>1, <1>2, <1>8, SetsAsideFields DEF Accounted
<1>9. CASE SkipFile
  BY <1>1, <1>2, <1>9, SkipFields DEF Accounted
<1>10. CASE DeliverFile
  BY <1>1, <1>2, <1>10, DeliverFields DEF Accounted
<1>11. CASE MoveFile
  BY <1>1, <1>11, FileFields DEF Accounted
<1>12. CASE RecordOutcome
  <2>1. run'.reached = run.reached
    BY <1>12, FileFields
  <2>2. run.file = f /\ run.outcome = "uploaded" => Completed(f)'
    BY <1>12, CompletedStep
  <2> QED
    BY <1>1, <2>1, <2>2 DEF Accounted
<1>13. CASE MatchFile \/ UploadFile \/ RegisterFile
  <2>1. ~Moving
    BY <1>13 DEF MatchFile, UploadFile, RegisterFile, At, Moving
  <2> QED
    BY <1>1, <1>2, <1>13, <2>1, FileFields DEF Accounted
<1> QED
  BY <1>3, <1>4, <1>5, <1>6, <1>7, <1>8, <1>9, <1>10, <1>11, <1>12, <1>13, Steps

(* Runs die and answers are lost one at a time, and never are undone. *)
LEMMA FaultsStep ==
  ASSUME Typed, FilesOK, [Next]_vars
  PROVE  /\ aborts \in Nat /\ lost \in Nat
         /\ aborts' \in {aborts, aborts + 1} /\ lost' \in {lost, lost + 1}
         /\ RegisterUnanswered => lost' = lost + 1 /\ aborts' = aborts
         /\ aborts' = aborts + 1 => Fault \/ Die
<1>1. aborts \in Nat /\ lost \in Nat
  BY ConstantsAssumption DEF Typed, TypeOK
<1>2. CASE Fault \/ Die
  BY <1>1, <1>2 DEF Fault, Die, RegisterUnanswered, outside, At
<1>3. CASE SetsAside
  <2>1. aborts' = aborts
    BY <1>3, SetsAsideFields
  <2>2. lost' \in {lost, lost + 1} /\ (RegisterUnanswered => lost' = lost + 1)
    BY <1>3 DEF SetsAside, FailFile, RejectFile, UploadFails, RegisterFails, RegisterUnanswered,
       outside
  <2> QED
    BY <1>1, <2>1, <2>2
<1>4. CASE ~SetsAside /\ ~Fault /\ ~Die
  <2>1. UNCHANGED <<aborts, lost>>
    BY <1>4, Steps, OutsideFields, BeginFields, QuietFields, EndingFields, SkipFields,
       DeliverFields, FileFields
  <2> QED
    BY <1>1, <1>4, <2>1 DEF SetsAside
<1> QED
  BY <1>2, <1>3, <1>4
-----------------------------------------------------------------------------
(* A registration is a process and a number up to that of its entries. *)
LEMMA RegistrationsElements ==
  ASSUME NEW f
  PROVE  \A x : x \in Registrations(f) <=> \E p \in Pid : \E n \in 1..entries[p][f] : x = <<p, n>>
  BY DEF Registrations

(* An entry for a file is one registration more of it, and of it alone.      *)
LEMMA EntryRegisters ==
  ASSUME Typed, At("register"), NEW f \in run.chunked, CreateEntry(f), NEW g \in File
  PROVE  /\ g # f => Registrations(g)' = Registrations(g)
         /\ g = f => \E x : x \notin Registrations(g) /\ Registrations(g)' = Registrations(g) \cup {x}
<1>1. run.pid \in Pid /\ f \in File /\ entries \in [Pid -> [File -> Nat]]
  BY DEF Typed, TypeOK, RunOK, RunState, HasProcess, At
<1>2. entries' = [entries EXCEPT ![run.pid][f] = @ + 1]
  BY DEF CreateEntry
<1>3. CASE g # f
  <2>1. \A p \in Pid : entries'[p][g] = entries[p][g]
    BY <1>1, <1>2, <1>3
  <2> QED
    BY <1>3, <2>1 DEF Registrations
<1>4. CASE g = f
  <2> DEFINE n == entries[run.pid][f]
             x == <<run.pid, n + 1>>
  <2>1. n \in Nat
    BY <1>1
  <2>2. /\ entries'[run.pid][f] = n + 1
        /\ \A p \in Pid \ {run.pid} : entries'[p][f] = entries[p][f]
    BY <1>1, <1>2
  <2>3. x \notin Registrations(f)
    <3>1. \A a, k, p, m : <<a, k>> = <<p, m>> => p = a /\ m = k
      OBVIOUS
    <3>2. n + 1 \notin 1..n
      BY <2>1
    <3> QED
      BY <3>1, <3>2 DEF Registrations
  <2>4. ASSUME NEW y, NEW p \in Pid, NEW m
        PROVE  m \in 1..entries'[p][f] /\ y = <<p, m>>
                 <=> (m \in 1..entries[p][f] /\ y = <<p, m>>) \/ (p = run.pid /\ m = n + 1 /\ y = x)
    <3>1. CASE p = run.pid
      <4>1. m \in 1..(n + 1) <=> m \in 1..n \/ m = n + 1
        BY <2>1
      <4> QED
        BY <2>2, <3>1, <4>1
    <3>2. CASE p # run.pid
      BY <2>2, <3>2
    <3> QED
      BY <3>1, <3>2
  <2>5. \A y : y \in Registrations(f)' <=> y \in Registrations(f) \/ y = x
    <3>1. \A y : y \in Registrations(f)' <=> \E p \in Pid : \E m \in 1..entries'[p][f] : y = <<p, m>>
      BY <1>4 DEF Registrations
    <3> QED
      BY <1>1, <2>4, <3>1, RegistrationsElements
  <2> QED
    BY <1>4, <2>3, <2>5
<1> QED
  BY <1>3, <1>4

(* Of a file's registrations one may be accounted for, all others are owed   *)
(* to runs that died and answers that were lost.                             *)
Counted(f) ==
  /\ IsFiniteSet(Registrations(f))
  /\ Cardinality(Registrations(f)) <= aborts + lost + (IF Accounted(f) THEN 1 ELSE 0)

CountsOK == \A f \in File : Counted(f)

(* Nothing is registered yet. *)
LEMMA CountsInit == Init => CountsOK
<1> SUFFICES ASSUME Init, NEW f \in File PROVE Counted(f)
  BY DEF CountsOK
<1>1. \A p \in Pid : 1..entries[p][f] = {}
  BY DEF Init
<1>2. Registrations(f) = {}
  BY <1>1 DEF Registrations
<1>3. aborts = 0 /\ lost = 0
  BY DEF Init
<1> QED
  BY <1>2, <1>3, FS_EmptySet DEF Counted

(* A step that registers nothing keeps the count: the account is lost only   *)
(* to an abort.                                                              *)
LEMMA CountKept ==
  ASSUME Typed, FilesOK, ListsOK, SentOK, [Next]_vars, NEW f, Counted(f),
         Registrations(f)' = Registrations(f)
  PROVE  Counted(f)'
<1>1. Cardinality(Registrations(f)) \in Nat
  BY FS_CardinalityType DEF Counted
<1>2. aborts \in Nat /\ lost \in Nat /\ aborts' \in {aborts, aborts + 1} /\ lost' \in {lost, lost + 1}
  BY FaultsStep
<1>3. Accounted(f) => Accounted(f)' \/ aborts' = aborts + 1
  BY AccountedStays
<1>4. Cardinality(Registrations(f))' = Cardinality(Registrations(f))
  OBVIOUS
<1>5. CASE Accounted(f)
  <2>1. Cardinality(Registrations(f)) <= aborts + lost + 1
    BY <1>5 DEF Counted
  <2>2. CASE Accounted(f)'
    BY <1>1, <1>2, <1>4, <2>1, <2>2 DEF Counted
  <2>3. CASE ~Accounted(f)' /\ aborts' = aborts + 1
    BY <1>1, <1>2, <1>4, <2>1, <2>3 DEF Counted
  <2> QED
    BY <1>3, <1>5, <2>2, <2>3
<1>6. CASE ~Accounted(f)
  <2>1. Cardinality(Registrations(f)) <= aborts + lost
    BY <1>2, <1>6 DEF Counted
  <2>2. CASE Accounted(f)'
    BY <1>1, <1>2, <1>4, <2>1, <2>2 DEF Counted
  <2>3. CASE ~Accounted(f)'
    BY <1>1, <1>2, <1>4, <2>1, <2>3 DEF Counted
  <2> QED
    BY <2>2, <2>3
<1> QED
  BY <1>5, <1>6

(* One more of a file nobody accounted for is accounted for, or its answer   *)
(* was lost.                                                                 *)
LEMMA CountAdded ==
  ASSUME Typed, FilesOK, SentOK, [Next]_vars, NEW f, Counted(f), ~Accounted(f),
         NEW x, x \notin Registrations(f), Registrations(f)' = Registrations(f) \cup {x},
         Accounted(f)' \/ lost' = lost + 1
  PROVE  Counted(f)'
<1>1. /\ IsFiniteSet(Registrations(f)) /\ Cardinality(Registrations(f)) \in Nat
      /\ Cardinality(Registrations(f)) <= aborts + lost + 0
  BY FS_CardinalityType DEF Counted
<1>2. /\ IsFiniteSet(Registrations(f)')
      /\ Cardinality(Registrations(f)') = Cardinality(Registrations(f)) + 1
  BY <1>1, FS_AddElement
<1>3. aborts \in Nat /\ lost \in Nat /\ aborts' \in {aborts, aborts + 1} /\ lost' \in {lost, lost + 1}
  BY FaultsStep
<1>4. CASE Accounted(f)'
  BY <1>1, <1>2, <1>3, <1>4 DEF Counted
<1>5. CASE ~Accounted(f)' /\ lost' = lost + 1
  BY <1>1, <1>2, <1>3, <1>5 DEF Counted
<1> QED
  BY <1>4, <1>5

(* Every step keeps the count. *)
LEMMA CountsStep ==
  Typed /\ FilesOK /\ ListsOK /\ SentOK /\ CountsOK /\ [Next]_vars => CountsOK'
<1> SUFFICES ASSUME Typed, FilesOK, ListsOK, SentOK, CountsOK, [Next]_vars, NEW g \in File
             PROVE  Counted(g)'
  BY DEF CountsOK
<1>1. Counted(g)
  BY DEF CountsOK
<1>2. CASE UNCHANGED entries
  <2>1. Registrations(g)' = Registrations(g)
    BY <1>2 DEF Registrations
  <2> QED
    BY <1>1, <2>1, CountKept
<1>3. CASE RegisterFile \/ RegisterUnanswered
  <2>1. PICK f \in run.chunked :
          /\ CreateEntry(f)
          /\ f \in run'.reached \/ lost' = lost + 1
    <3>1. CASE RegisterFile
      BY <3>1, FileFields
    <3>2. CASE RegisterUnanswered
      BY <3>2 DEF RegisterUnanswered
    <3> QED
      BY <1>3, <3>1, <3>2
  <2>2. At("register") /\ ~Moving
    BY <1>3 DEF RegisterFile, RegisterUnanswered, At, Moving
  <2>3. CASE g # f
    BY <1>1, <2>1, <2>2, <2>3, EntryRegisters, CountKept
  <2>4. CASE g = f
    <3>1. ~Accounted(g)
      BY <2>2, <2>4 DEF Accounted, SentOK, FilesOK, Typed, RunOK
    <3>2. Accounted(g)' \/ lost' = lost + 1
      BY <2>1, <2>4 DEF Accounted
    <3>3. PICK x : x \notin Registrations(g) /\ Registrations(g)' = Registrations(g) \cup {x}
      BY <2>1, <2>2, <2>4, EntryRegisters
    <3> QED
      BY <1>1, <3>1, <3>2, <3>3, CountAdded
  <2> QED
    BY <2>3, <2>4
<1>4. UNCHANGED entries \/ RegisterFile \/ RegisterUnanswered
  <2>1. CASE SetsAside /\ ~RegisterUnanswered
    BY <2>1 DEF SetsAside, FailFile, RejectFile, UploadFails, RegisterFails, cbos
  <2>2. CASE MoveFile \/ RecordOutcome \/ MatchFile \/ UploadFile \/ Fault \/ Die
    BY <2>2 DEF MoveFile, RecordOutcome, MatchFile, UploadFile, Fault, Die, cbos
  <2> QED
    BY <2>1, <2>2, Steps, OutsideFields, BeginFields, QuietFields, EndingFields, SkipFields,
       DeliverFields
<1> QED
  BY <1>2, <1>3, <1>4

(* What an inductive count says of each state. *)
LEMMA CountSafe == Typed /\ CountsOK => EntriesAccounted /\ AtMostOnce
<1> SUFFICES ASSUME Typed, CountsOK, NEW f \in File
             PROVE  /\ Cardinality(Registrations(f)) > aborts + lost => Accounted(f)
                    /\ Cardinality(Registrations(f)) <= 1 + aborts + lost + refusals[Match[f]]
  BY DEF EntriesAccounted, AtMostOnce
<1>1. /\ Cardinality(Registrations(f)) \in Nat /\ aborts \in Nat /\ lost \in Nat
      /\ refusals[Match[f]] \in Nat
  BY FS_CardinalityType, ConstantsAssumption DEF CountsOK, Counted, Typed, TypeOK
<1>2. Counted(f)
  BY DEF CountsOK
<1>3. CASE Accounted(f)
  <2>1. Cardinality(Registrations(f)) <= aborts + lost + 1
    BY <1>2, <1>3 DEF Counted
  <2> QED
    BY <1>1, <1>3, <2>1
<1>4. CASE ~Accounted(f)
  <2>1. Cardinality(Registrations(f)) <= aborts + lost + 0
    BY <1>2, <1>4 DEF Counted
  <2> QED
    BY <1>1, <2>1
<1> QED
  BY <1>3, <1>4

(* However the runs go, the count of every file holds. *)
LEMMA CountsHold == Spec => [](Typed /\ CountsOK)
<1>1. Init => Typed /\ FilesOK /\ OutcomesOK /\ ListsOK /\ SentOK /\ CountsOK
  BY TypedInit, FilesInit, OutcomesInit, SentInit, CountsInit
<1>2. Typed /\ [Next]_vars => Typed'
  BY TypedStep
<1>3. Typed /\ FilesOK /\ [Next]_vars => FilesOK'
  BY FilesStep
<1>4. Typed /\ FilesOK /\ OutcomesOK /\ ListsOK /\ [Next]_vars => OutcomesOK' /\ ListsOK'
  BY OutcomesStep
<1>5. Typed /\ FilesOK /\ SentOK /\ [Next]_vars => SentOK'
  BY SentStep
<1>6. Typed /\ FilesOK /\ ListsOK /\ SentOK /\ CountsOK /\ [Next]_vars => CountsOK'
  BY CountsStep
<1> QED
  BY <1>1, <1>2, <1>3, <1>4, <1>5, <1>6, PTL DEF Spec

(* Whatever CBOS holds of a file beyond one registration per dead run and    *)
(* lost answer is recorded as uploaded, or about to be.                      *)
THEOREM RegistrationsKnown == Spec => []EntriesAccounted
  BY CountSafe, CountsHold, PTL

(* A file goes to CBOS once, whatever manifests list it, whatever process    *)
(* its runs have and however often they run, and once more at most for each  *)
(* run that died, each answer that was lost and each time CBOS refused what  *)
(* its slot was given.                                                       *)
THEOREM RegisteredOnce == Spec => []AtMostOnce
  BY CountSafe, CountsHold, PTL
-----------------------------------------------------------------------------
(* The gate: what the run counts as filled, and what it knows of its own     *)
(* process, is what CBOS holds.                                              *)
Fresh ==
  run.pc \in {"idle", "supplied", "find", "reserve", "failing", "proceed"} \/ run.back = "failing"

GateOK ==
  /\ \A u \in run.table.done : Registered(run.pid, u)
  /\ \A u \in run.filled : Registered(run.pid, u) \/ FilledElsewhere(u)
  /\ Fresh => run.filled = {} /\ run.table.done = {}
  /\ run.todo \subseteq Listed[run.batch] \/ run.todo = {}
  /\ run.pc = "deliver" \/ run.back = "deliver" =>
       (run.verdict = "confirmed" => MissingRequired = {})
  /\ run.pc = "proceeded" => EmptySlots \subseteq Allowlist \cup run.named

(* Without a run nothing counts. *)
LEMMA GateInit == Init => GateOK
  BY DEF Init, GateOK, IdleRun, EmptyTable

(* Nor after one. *)
LEMMA GateIdle == ASSUME run' = IdleRun PROVE GateOK'
<1>1. /\ run'.pc = "idle" /\ run'.back = "none" /\ run'.todo = {} /\ run'.filled = {}
      /\ run'.table.done = {}
  BY DEF IdleRun, EmptyTable
<1> QED
  BY <1>1 DEF GateOK

(* What counted once counts as long as the task stays the same. *)
LEMMA FilledStays ==
  ASSUME Typed, FilesOK, [Next]_vars, run'.batch = run.batch, run'.pid = run.pid,
         run.pid \in Pid, NEW u
  PROVE  /\ Registered(run.pid, u) => Registered(run.pid, u)'
         /\ FilledElsewhere(u) => FilledElsewhere(u)'
<1>1. Registered(run.pid, u) => Registered(run.pid, u)'
  <2>1. \A p \in Pid : Registered(p, u) => \E f \in File : Match[f] = u /\ entries'[p][f] > 0
    BY RegisteredGrows DEF Registered
  <2> QED
    BY <2>1 DEF Registered
<1>2. ASSUME FilledElsewhere(u) PROVE FilledElsewhere(u)'
  <2>1. PICK f \in Listed[run.batch] : Match[f] = u /\ Completed(f)
    BY <1>2 DEF FilledElsewhere
  <2>2. Completed(f)'
    BY <2>1, CompletedStep
  <2>3. PICK p \in minted \ {run.pid} : Registered(p, u)
    BY <1>2 DEF FilledElsewhere
  <2>4. p \in minted' \ {run'.pid} /\ p \in Pid
    BY <2>3, MintedStep DEF Typed, TypeOK
  <2>5. Registered(p, u)'
    BY <2>3, <2>4, RegisteredGrows
  <2> QED
    BY <2>1, <2>2, <2>4, <2>5 DEF FilledElsewhere
<1> QED
  BY <1>1, <1>2

(* Past its setup a run has a process of its own. *)
LEMMA FreshOrNot ==
  ASSUME Typed, ~Fresh
  PROVE  run.pid \in minted /\ run.pid \in Pid
<1>1. HasProcess
  BY DEF Typed, TypeOK, RunOK, RunState, Moving, HasProcess, Fresh, Place, Back
<1> QED
  BY <1>1 DEF Typed, TypeOK, RunOK

(* A step of the task that counts nothing new. *)
LEMMA GateKept ==
  ASSUME Typed, FilesOK, [Next]_vars, GateOK, SameTask,
         \A u \in run'.filled :
           u \in run.filled \/ Registered(run.pid, u)' \/ FilledElsewhere(u)',
         Fresh' => Fresh /\ run'.filled = run.filled, run'.todo \subseteq run.todo
  PROVE  /\ \A u \in run'.table.done : Registered(run.pid, u)'
         /\ \A u \in run'.filled : Registered(run.pid, u)' \/ FilledElsewhere(u)'
         /\ Fresh' => run'.filled = {} /\ run'.table.done = {}
         /\ run'.todo \subseteq Listed[run'.batch] \/ run'.todo = {}
<1>1. /\ run'.batch = run.batch /\ run'.pid = run.pid /\ run'.table = run.table
  BY DEF SameTask
<1>2. Fresh' => run'.filled = {} /\ run'.table.done = {}
  BY <1>1 DEF GateOK
<1>3. run'.todo \subseteq Listed[run'.batch] \/ run'.todo = {}
  BY <1>1 DEF GateOK
<1>4. CASE Fresh
  BY <1>1, <1>2, <1>3, <1>4 DEF GateOK
<1>5. CASE ~Fresh
  <2>1. run.pid \in Pid
    BY <1>5, FreshOrNot
  <2>2. /\ \A u : Registered(run.pid, u) => Registered(run.pid, u)'
        /\ \A u : FilledElsewhere(u) => FilledElsewhere(u)'
    BY <1>1, <2>1, FilledStays
  <2> QED
    BY <1>1, <1>2, <1>3, <2>2 DEF GateOK
<1> QED
  BY <1>4, <1>5
(* The steps that pick a process, or read its table. *)
LEMMA GateReads ==
  ASSUME Typed, Evidence, [Next]_vars, GateOK,
         TakeSupplied \/ FindExisting \/ Reserve \/ ProceedRead
  PROVE  GateOK'
<1>1. run \in RunState /\ run.filled = {} /\ run.table.done = {} /\ UNCHANGED entries
  BY DEF Typed, TypeOK, GateOK, Fresh, TakeSupplied, FindExisting, Reserve, ProceedRead, At, cbos
<1>2. Quiet
  BY DEF Quiet
<1>3. run'.batch = run.batch /\ run'.todo = run.todo /\ run'.filled = {} /\ run'.back = run.back
  BY <1>1, <1>2, QuietFields
<1>4. run.back = "none" /\ run'.pc \in {"setup", "reserve", "approve"}
  BY <1>1, <1>2, QuietFields
  DEF TakeSupplied, FindExisting, Reserve, ProceedRead, RunState, Typed, RunOK
<1>5. \A u \in run'.table.done : Registered(run.pid, u)'
  <2>1. CASE FindExisting
    BY <1>1, <2>1 DEF FindExisting, RunState
  <2>2. CASE TakeSupplied \/ Reserve \/ ProceedRead
    <3>1. PICK p, t : p \in Pid /\ run'.pid = p /\ run'.table = t /\ t.done \subseteq done[p]
      <4>1. CASE TakeSupplied
        <5>1. PICK p \in minted : \E d \in SUBSET done[p], o \in SUBSET Step :
                run' = [run EXCEPT !.pc = "setup", !.pid = p,
                                   !.table = [done |-> d, optional |-> Template \cup o]]
          BY <4>1 DEF TakeSupplied
        <5>2. PICK d \in SUBSET done[p], o \in SUBSET Step :
                run' = [run EXCEPT !.pc = "setup", !.pid = p,
                                   !.table = [done |-> d, optional |-> Template \cup o]]
          BY <5>1
        <5>3. /\ run'.pid = p /\ run'.table = [done |-> d, optional |-> Template \cup o]
              /\ p \in Pid
          BY <1>1, <5>2 DEF RunState, Typed, TypeOK
        <5> QED
          BY <5>3
      <4>2. CASE Reserve \/ ProceedRead
        <5>1. PICK p \in Pid, pc \in {"setup", "approve"} :
                run' = [run EXCEPT !.pc = pc, !.pid = p, !.table = TableOf(p)]
          BY <4>2 DEF Reserve, ProceedRead, Typed, TypeOK
        <5>2. run'.pid = p /\ run'.table = TableOf(p)
          BY <1>1, <5>1 DEF RunState
        <5> QED
          BY <5>2 DEF TableOf
      <4> QED
        BY <2>2, <4>1, <4>2
    <3>2. \A u \in t.done : Registered(p, u)
      BY <3>1 DEF Evidence
    <3> QED
      BY <1>1, <3>1, <3>2 DEF Registered
  <2> QED
    BY <2>1, <2>2
<1>6. run'.pc = "reserve" => run'.table.done = {}
  BY <1>1 DEF TakeSupplied, FindExisting, Reserve, ProceedRead, RunState
<1> QED
  BY <1>3, <1>4, <1>5, <1>6 DEF GateOK, Fresh

(* The gate itself, and what ops may excuse. *)
LEMMA GateQuietSteps ==
  ASSUME Typed, FilesOK, Evidence, [Next]_vars, GateOK, Quiet
  PROVE  GateOK'
<1>1. run \in RunState
  BY DEF Typed, TypeOK
<1>2. /\ run'.todo = run.todo /\ run'.filled = run.filled /\ run'.back = run.back
      /\ run.back = "none" /\ run'.batch = run.batch /\ run'.named = run.named
  BY QuietFields DEF Typed, RunOK
<1>3. CASE Gate
  <2>1. /\ run'.pid = run.pid /\ run'.table = run.table /\ run'.pc = "deliver" /\ run.pc = "gate"
        /\ run'.verdict = "confirmed" => MissingRequired = {}
    BY <1>1, <1>3 DEF Gate, At, RunState
  <2>2. /\ \A u : Registered(run.pid, u) => Registered(run.pid, u)'
        /\ \A u : FilledElsewhere(u) => FilledElsewhere(u)'
    BY <1>2, <2>1, FilledStays, FreshOrNot DEF Fresh
  <2>3. MissingRequired' = MissingRequired
    BY <1>2, <2>1 DEF MissingRequired, NeedsUpload
  <2> QED
    BY <1>2, <2>1, <2>2, <2>3 DEF GateOK, Fresh
<1>4. CASE \/ SuppliedInvalid \/ SetupAttemptFails \/ SkipZeroSteps \/ AllSent
           \/ SkipUnfilledOptional \/ ProceedMarks
  <2>1. /\ SameTask /\ run'.pc # "deliver"
        /\ run'.pc = "proceeded" => ProceedMarks
        /\ Fresh' => Fresh
    <3>1. CASE SetupAttemptFails
      BY <1>1, <1>2, <3>1 DEF SetupAttemptFails, At, RunState, SameTask, Fresh
    <3>2. CASE SuppliedInvalid \/ SkipZeroSteps \/ AllSent \/ SkipUnfilledOptional \/ ProceedMarks
      BY <1>1, <1>2, <3>2 DEF SuppliedInvalid, SkipZeroSteps, AllSent, SkipUnfilledOptional,
         ProceedMarks, At, RunState, SameTask, Fresh
    <3> QED
      BY <1>4, <3>1, <3>2
  <2>2. ProceedMarks => EmptySlots \subseteq Allowlist \cup run.named
    BY DEF ProceedMarks
  <2>3. EmptySlots' = EmptySlots
    BY <2>1 DEF EmptySlots, NeedsUpload, SameTask
  <2> QED
    BY <1>2, <2>1, <2>2, <2>3, GateKept DEF GateOK
<1>5. CASE TakeSupplied \/ FindExisting \/ Reserve \/ ProceedRead
  BY <1>5, GateReads
<1> QED
  BY <1>3, <1>4, <1>5 DEF Quiet

(* The steps on a file: what is counted as filled is registered, or skipped  *)
(* with evidence.                                                            *)
LEMMA GateFileSteps ==
  ASSUME Typed, FilesOK, Evidence, [Next]_vars, GateOK,
         \/ SetsAside \/ SkipFile \/ DeliverFile \/ MoveFile \/ RecordOutcome \/ MatchFile
         \/ UploadFile \/ RegisterFile
  PROVE  GateOK'
<1>1. SameTask
  BY SetsAsideFields, SkipFields, DeliverFields, FileFields
<1>2. MissingRequired' = MissingRequired \/ run'.filled # run.filled
  BY <1>1 DEF SameTask, MissingRequired, NeedsUpload
<1>3. CASE SetsAside
  BY <1>1, <1>3, SetsAsideFields, GateKept DEF GateOK, Fresh
<1>4. CASE SkipFile
  <2>1. /\ run'.filled = run.filled \cup {Match[run.file]} /\ run'.todo \subseteq run.todo
        /\ run'.pc = "move" /\ run'.back = "files" /\ run.pc = "matched"
        /\ run.file \in run.todo
    BY <1>4, SkipFields DEF SkipFile, At
  <2>2. Registered(run.pid, Match[run.file]) \/ FilledElsewhere(Match[run.file])
    <3>1. CASE AlreadyInCbos(run.file)
      BY <3>1 DEF AlreadyInCbos, GateOK
    <3>2. CASE Completed(run.file)
      <4>1. Known(Match[run.file])
        BY <3>2 DEF Completed, Evidence
      <4>2. run.file \in Listed[run.batch]
        BY <2>1 DEF GateOK
      <4> QED
        BY <3>2, <4>1, <4>2 DEF Known, FilledElsewhere
    <3> QED
      BY <1>4, <3>1, <3>2 DEF SkipFile
  <2>3. ASSUME NEW u, u = Match[run.file] PROVE Registered(run.pid, u)' \/ FilledElsewhere(u)'
    <3>1. run.pid \in Pid
      BY <2>1, FreshOrNot DEF Fresh, Typed, RunOK, Moving
    <3> QED
      BY <1>1, <2>2, <2>3, <3>1, FilledStays DEF SameTask
  <2> QED
    BY <1>1, <2>1, <2>3, GateKept DEF GateOK, Fresh
<1>5. CASE RegisterFile
  <2>1. PICK f \in run.chunked :
          /\ CreateEntry(f)
          /\ run'.pc = "register" /\ run'.back = run.back /\ run'.todo = run.todo
          /\ run'.filled = run.filled \cup {Match[f]}
    BY <1>5, FileFields
  <2>2. run.pc = "register" /\ run.back = "none"
    BY <1>5 DEF RegisterFile, At, Typed, RunOK, Moving
  <2>3. ASSUME NEW u, u = Match[f] PROVE Registered(run.pid, u)'
    <3>1. run.pid \in Pid /\ f \in File /\ entries \in [Pid -> [File -> Nat]] /\ run'.pid = run.pid
      BY <1>1, <2>2, FreshOrNot DEF Fresh, Typed, TypeOK, RunState, SameTask
    <3>2. entries[run.pid][f] \in Nat
      BY <3>1
    <3>3. entries'[run.pid][f] > 0
      BY <2>1, <3>1, <3>2 DEF CreateEntry
    <3> QED
      BY <2>3, <3>1, <3>3 DEF Registered
  <2> QED
    BY <1>1, <2>1, <2>2, <2>3, GateKept DEF GateOK, Fresh
<1>6. CASE DeliverFile \/ MoveFile \/ RecordOutcome \/ MatchFile \/ UploadFile
  <2>1. /\ run'.filled = run.filled /\ run'.todo \subseteq run.todo
        /\ run'.pc = "deliver" \/ run'.back = "deliver" => run.pc = "deliver" \/ run.back = "deliver"
        /\ run'.pc # "proceeded"
        /\ Fresh' => Fresh
    <3>1. CASE DeliverFile
      BY <3>1, DeliverFields DEF Fresh
    <3>2. CASE MoveFile
      BY <3>2, FileFields DEF Fresh
    <3>3. CASE RecordOutcome
      <4>1. run.back \in {"failing", "files", "register", "deliver"}
        BY <3>3 DEF RecordOutcome, At, Typed, RunOK, Moving, TypeOK, RunState, Back
      <4> QED
        BY <3>3, <4>1, FileFields DEF Fresh
    <3>4. CASE MatchFile \/ UploadFile
      <4>1. run.back = "none"
        BY <3>4 DEF MatchFile, UploadFile, At, Typed, RunOK, Moving
      <4> QED
        BY <3>4, <4>1, FileFields DEF Fresh
    <3> QED
      BY <1>6, <3>1, <3>2, <3>3, <3>4
  <2> QED
    BY <1>1, <1>2, <2>1, GateKept DEF GateOK, SameTask
<1> QED
  BY <1>3, <1>4, <1>5, <1>6

(* Every step keeps what the gate goes by. *)
LEMMA GateStep == Typed /\ FilesOK /\ Evidence /\ GateOK /\ [Next]_vars => GateOK'
<1> SUFFICES ASSUME Typed, FilesOK, Evidence, GateOK, [Next]_vars PROVE GateOK'
  OBVIOUS
<1>1. CASE Environment \/ UNCHANGED vars \/ \E b \in Batch : Superseded(b)
  <2>1. UNCHANGED run
    BY <1>1, OutsideFields
  <2>2. SameTask /\ (Fresh' <=> Fresh) /\ MissingRequired' = MissingRequired /\ EmptySlots' = EmptySlots
    BY <2>1 DEF SameTask, Fresh, MissingRequired, EmptySlots, NeedsUpload
  <2> QED
    BY <2>1, <2>2, GateKept DEF GateOK
<1>2. CASE \E b \in Batch : BeginProceed(b) \/ \E supplied \in BOOLEAN : BeginUpload(b, supplied)
  <2>1. /\ run'.pc \in {"supplied", "find", "proceed"} /\ run'.back = "none"
        /\ run'.todo \subseteq Listed[run'.batch] /\ run'.filled = {} /\ run'.table.done = {}
    BY <1>2, BeginFields
  <2> QED
    BY <2>1 DEF GateOK
<1>3. CASE Ending \/ Fault \/ Die
  <2>1. run' = IdleRun
    BY <1>3, EndingFields DEF Fault, Die
  <2> QED
    BY <2>1, GateIdle
<1> QED
  BY <1>1, <1>2, <1>3, GateQuietSteps, GateFileSteps, Steps

(* No batch is confirmed, by its run or by ops, with a slot that is neither  *)
(* excused nor filled, in its own process or by a file of the same manifest  *)
(* that another process of the date was given.                               *)
THEOREM ConfirmedIsComplete == Spec => GateHolds
<1>1. ASSUME Typed, GateOK, [Next]_vars
      PROVE  Concludes /\ row'[run.batch] = "confirmed" =>
               \A u \in Slot : \/ u \in run.table.optional \cup Allowlist \cup run.named
                               \/ Registered(run.pid, u)
                               \/ FilledElsewhere(u)
  <2> SUFFICES ASSUME Concludes, row'[run.batch] = "confirmed", NEW u \in Slot,
                      u \notin run.table.optional \cup Allowlist \cup run.named
               PROVE  Registered(run.pid, u) \/ FilledElsewhere(u)
    OBVIOUS
  <2>1. /\ \/ SetupFailed \/ NothingUploaded \/ RecordVerdict
           \/ ProceedNoProcess \/ ProceedRefused \/ ProceedConfirms
        /\ run.batch \in Batch /\ row \in [Batch -> Status \cup {"none"}]
    BY <1>1, Conclusions DEF Concludes, At, Typed, TypeOK, RunOK
  <2>2. (RecordVerdict /\ run.verdict = "confirmed") \/ ProceedConfirms
    BY <2>1
    DEF SetupFailed, NothingUploaded, RecordVerdict, ProceedNoProcess, ProceedRefused, Ends,
        SetBatchStatus
  <2>3. u \in run.table.done \/ u \in run.filled
    <3>1. CASE RecordVerdict /\ run.verdict = "confirmed"
      <4>1. MissingRequired = {}
        BY <1>1, <3>1 DEF GateOK, RecordVerdict, At
      <4> QED
        BY <4>1 DEF MissingRequired, NeedsUpload, Step
    <3>2. CASE ProceedConfirms
      <4>1. EmptySlots \subseteq Allowlist \cup run.named
        BY <1>1, <3>2 DEF GateOK, ProceedConfirms, At
      <4> QED
        BY <4>1 DEF EmptySlots, NeedsUpload, Step
    <3> QED
      BY <2>2, <3>1, <3>2
  <2> QED
    BY <1>1, <2>3 DEF GateOK
<1>2. Typed /\ GateOK /\ [Next]_vars
        => [Concludes /\ row'[run.batch] = "confirmed" =>
              \A u \in Slot : \/ u \in run.table.optional \cup Allowlist \cup run.named
                              \/ Registered(run.pid, u)
                              \/ FilledElsewhere(u)]_vars
  BY <1>1
<1>3. Typed /\ [Next]_vars => Typed'
  BY TypedStep
<1>4. Typed /\ FilesOK /\ [Next]_vars => FilesOK'
  BY FilesStep
<1>5. Typed /\ Evidence /\ [Next]_vars => Evidence'
  BY EvidenceStep
<1>6. Typed /\ FilesOK /\ Evidence /\ GateOK /\ [Next]_vars => GateOK'
  BY GateStep
<1> QED
  BY <1>2, <1>3, <1>4, <1>5, <1>6, TypedInit, FilesInit, EvidenceInit, GateInit, PTL
  DEF Spec, GateHolds
=============================================================================
