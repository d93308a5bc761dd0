--------------------------- MODULE UploadLaneProofs ---------------------------
(***************************************************************************)
(* Safety of the upload lane for any batches, files, slots and PROCESSIDs, *)
(* any number of dead runs and of lost answers: what folders and audit     *)
(* table claim about CBOS is true, and the lane implements FileFate.       *)
(***************************************************************************)
EXTENDS UploadLane, TLAPS

Moving == run.pc \in {"move", "record"}

(* The program counters at which the run has a PROCESSID of its own. *)
HasProcess ==
  \/ run.pc \in {"setup", "files", "matched", "register", "gate", "deliver", "approve", "proceeded"}
  \/ run.back \in {"files", "register", "deliver"}

(* What the program counter says about the rest of the run. *)
RunOK ==
  /\ run.pc # "idle" => run.batch \in Batch
  /\ Moving => run.file \in File /\ run.outcome # "none" /\ run.back # "none"
  /\ ~Moving => run.outcome = "none" /\ run.back = "none"
  /\ run.pc = "matched" => run.file \in File
  /\ run.pc = "deliver" \/ run.back = "deliver" => run.verdict # "none"
  /\ run.pid \in minted \cup {NoPid}
  /\ HasProcess => run.pid \in minted

Typed == TypeOK /\ RunOK

(* Initially no run is in hand and nothing is stored. *)
LEMMA TypedInit == Init => Typed
  BY ConstantsAssumption
  DEF Init, Typed, TypeOK, RunOK, Moving, HasProcess, IdleRun, RunState, Table, EmptyTable,
      Place, Outcome, Back, Verdict, Attempt

(* A run with some of its fields replaced by others of their type is a run. *)
LEMMA RunFields ==
  ASSUME NEW r \in RunState
  PROVE  /\ \A pc \in Place : [r EXCEPT !.pc = pc] \in RunState
         /\ \A pc \in Place, p \in Pid \cup {NoPid} : [r EXCEPT !.pc = pc, !.pid = p] \in RunState
         /\ \A pc \in Place, p \in Pid \cup {NoPid}, t \in Table :
              [r EXCEPT !.pc = pc, !.pid = p, !.table = t] \in RunState
         /\ \A n \in Attempt : [r EXCEPT !.attempt = n] \in RunState
         /\ \A pc \in Place, v \in Verdict : [r EXCEPT !.pc = pc, !.verdict = v] \in RunState
         /\ \A us \in SUBSET Slot : [r EXCEPT !.filled = us] \in RunState
         /\ \A fs \in SUBSET File : [r EXCEPT !.reached = fs] \in RunState
<1> USE DEF RunState
<1> QED
  OBVIOUS

(* The same for the fields that say which file is in hand and which ones wait. *)
LEMMA RunFiles ==
  ASSUME NEW r \in RunState, NEW pc \in Place, NEW f \in File \cup {NoFile}
  PROVE  /\ [r EXCEPT !.pc = pc, !.file = f] \in RunState
         /\ \A o \in Outcome, k \in Back :
              [r EXCEPT !.pc = pc, !.file = f, !.outcome = o, !.back = k] \in RunState
         /\ \A o \in Outcome, k \in Back, fs, gs \in SUBSET File :
              [r EXCEPT !.pc = pc, !.file = f, !.outcome = o, !.back = k,
                        !.todo = fs, !.chunked = gs] \in RunState
         /\ \A fs, gs \in SUBSET File :
              [r EXCEPT !.pc = pc, !.file = f, !.todo = fs, !.chunked = gs] \in RunState
         /\ \A fs, gs \in SUBSET File, us \in SUBSET Slot :
              [r EXCEPT !.chunked = fs, !.reached = gs, !.filled = us] \in RunState
<1>1. [r EXCEPT !.pc = pc, !.file = f] \in RunState
  BY DEF RunState
<1>2. \A o \in Outcome, k \in Back :
        [r EXCEPT !.pc = pc, !.file = f, !.outcome = o, !.back = k] \in RunState
  BY DEF RunState
<1>3. \A o \in Outcome, k \in Back, fs, gs \in SUBSET File :
        [r EXCEPT !.pc = pc, !.file = f, !.outcome = o, !.back = k,
                  !.todo = fs, !.chunked = gs] \in RunState
  BY DEF RunState
<1>4. \A fs, gs \in SUBSET File :
        [r EXCEPT !.pc = pc, !.file = f, !.todo = fs, !.chunked = gs] \in RunState
  BY DEF RunState
<1>5. \A fs, gs \in SUBSET File, us \in SUBSET Slot :
        [r EXCEPT !.chunked = fs, !.reached = gs, !.filled = us] \in RunState
  BY DEF RunState
<1> QED
  BY <1>1, <1>2, <1>3, <1>4, <1>5

(* Between two tasks the run is one too. *)
LEMMA IdleTyped == IdleRun \in RunState
  BY ConstantsAssumption
  DEF IdleRun, RunState, Place, Outcome, Back, Verdict, Attempt, EmptyTable, Table

(* A run begins with a batch and its files, or with a batch and named slots. *)
LEMMA RunBegins ==
  ASSUME NEW pc \in Place, NEW b \in Batch, NEW fs \in SUBSET File, NEW us \in SUBSET Slot
  PROVE  /\ [IdleRun EXCEPT !.pc = pc, !.batch = b, !.files = fs, !.todo = fs] \in RunState
         /\ [IdleRun EXCEPT !.pc = pc, !.batch = b, !.named = us] \in RunState
<1>1. \A r \in RunState :
        /\ [r EXCEPT !.pc = pc, !.batch = b, !.files = fs, !.todo = fs] \in RunState
        /\ [r EXCEPT !.pc = pc, !.batch = b, !.named = us] \in RunState
  BY DEF RunState
<1> QED
  BY <1>1, IdleTyped

(* A file in hand: the run keeps everything but its place and the file's lists. *)
LEMMA InHandRun ==
  ASSUME run \in RunState, NEW f \in File, NEW outcome \in {"uploaded", "failed"},
         NEW back \in {"failing", "files", "register", "deliver"}
  PROVE  /\ InHand(f, outcome, back) \in RunState
         /\ InHand(f, outcome, back).pc = "move"
         /\ InHand(f, outcome, back).file = f
         /\ InHand(f, outcome, back).outcome = outcome
         /\ InHand(f, outcome, back).back = back
         /\ InHand(f, outcome, back).batch = run.batch
         /\ InHand(f, outcome, back).files = run.files
         /\ InHand(f, outcome, back).pid = run.pid
         /\ InHand(f, outcome, back).table = run.table
         /\ InHand(f, outcome, back).todo = run.todo \ {f}
         /\ InHand(f, outcome, back).chunked = run.chunked \ {f}
         /\ InHand(f, outcome, back).reached = run.reached
         /\ InHand(f, outcome, back).filled = run.filled
         /\ InHand(f, outcome, back).verdict = run.verdict
<1> DEFINE r == InHand(f, outcome, back)
<1>1. run.todo \ {f} \in SUBSET File /\ run.chunked \ {f} \in SUBSET File
  BY DEF RunState
<1>2. r = [run EXCEPT !.pc = "move", !.file = f, !.outcome = outcome, !.back = back,
              !.todo = run.todo \ {f}, !.chunked = run.chunked \ {f}]
  BY DEF InHand
<1>3. "move" \in Place /\ outcome \in Outcome /\ back \in Back /\ f \in File \cup {NoFile}
  BY DEF Place, Outcome, Back
<1>4. \A fs, gs \in SUBSET File :
        [run EXCEPT !.pc = "move", !.file = f, !.outcome = outcome, !.back = back,
                    !.todo = fs, !.chunked = gs] \in RunState
  BY <1>3, RunFiles
<1>5. r \in RunState
  BY <1>1, <1>2, <1>4
<1> QED
  BY <1>2, <1>5 DEF RunState

(* A run that fails in setup keeps the types. *)
LEMMA SuppliedInvalidTyped == ASSUME Typed, SuppliedInvalid PROVE Typed'
<1> USE DEF Typed
<1>1. run' = [run EXCEPT !.pc = "failing"] /\ "failing" \in Place
  BY DEF SuppliedInvalid, Place, Verdict
<1>2. run' \in RunState
  BY <1>1, RunFields DEF TypeOK
<1>3. TypeOK'
  BY <1>2 DEF TypeOK, SuppliedInvalid, folders, cbos, outside
<1>4. RunOK'
  BY <1>1
  DEF TypeOK, SuppliedInvalid, RunOK, Moving, HasProcess, At, RunState, folders, cbos, outside
<1> QED
  BY <1>3, <1>4

(* Step 7 begins. *)
LEMMA AllSentTyped == ASSUME Typed, AllSent PROVE Typed'
<1> USE DEF Typed
<1>1. run' = [run EXCEPT !.pc = "register"] /\ "register" \in Place
  BY DEF AllSent, Place, Verdict
<1>2. run' \in RunState
  BY <1>1, RunFields DEF TypeOK
<1>3. TypeOK'
  BY <1>2 DEF TypeOK, AllSent, folders, cbos, outside
<1>4. RunOK'
  BY <1>1 DEF TypeOK, AllSent, RunOK, Moving, HasProcess, At, RunState, folders, cbos, outside
<1> QED
  BY <1>3, <1>4

(* The PROCESSID looked up is one CBOS knows, or none. *)
LEMMA FindExistingTyped == ASSUME Typed, FindExisting PROVE Typed'
<1> USE DEF Typed
<1>1. PICK p \in minted \cup {NoPid} : run' = [run EXCEPT !.pc = "reserve", !.pid = p]
  BY DEF FindExisting
<1>2. p \in Pid \cup {NoPid} /\ "reserve" \in Place
  BY DEF TypeOK, Place
<1>3. run' \in RunState
  BY <1>1, <1>2, RunFields DEF TypeOK
<1>4. TypeOK'
  BY <1>3 DEF TypeOK, FindExisting, folders, cbos, outside
<1>5. RunOK'
  BY <1>1
  DEF TypeOK, FindExisting, RunOK, Moving, HasProcess, At, RunState, folders, cbos, outside
<1> QED
  BY <1>4, <1>5

(* The supplied Table2 keeps the types. *)
LEMMA TakeSuppliedTyped == ASSUME Typed, TakeSupplied PROVE Typed'
<1> USE DEF Typed
<1>1. PICK p \in minted : \E d \in SUBSET done[p], o \in SUBSET Step :
        run' = [run EXCEPT !.pc = "setup", !.pid = p,
                           !.table = [done |-> d, optional |-> Template \cup o]]
  BY DEF TakeSupplied
<1>2. PICK d \in SUBSET done[p], o \in SUBSET Step :
        run' = [run EXCEPT !.pc = "setup", !.pid = p,
                           !.table = [done |-> d, optional |-> Template \cup o]]
  BY <1>1
<1>3. p \in Pid \cup {NoPid} /\ "setup" \in Place
  BY DEF TypeOK, Place
<1>4. [done |-> d, optional |-> Template \cup o] \in Table
  BY ConstantsAssumption DEF TypeOK, Table, Step
<1>5. run' \in RunState
  BY <1>2, <1>3, <1>4, RunFields DEF TypeOK
<1>6. TypeOK'
  BY <1>5 DEF TypeOK, TakeSupplied, folders, cbos, outside
<1>7. RunOK'
  BY <1>2, <1>4
  DEF TypeOK, TakeSupplied, RunOK, Moving, HasProcess, At, RunState, folders, cbos, outside
<1> QED
  BY <1>6, <1>7

(* The process reserved is one CBOS knows. *)
LEMMA ReserveTyped == ASSUME Typed, Reserve PROVE Typed'
<1> USE DEF Typed
<1>1. PICK p \in Pid : Reserves(p) /\ run' = [run EXCEPT !.pc = "setup", !.pid = p, !.table = TableOf(p)]
  BY DEF Reserve
<1>2. p \in minted' /\ minted \subseteq minted' /\ minted' \subseteq Pid
  BY <1>1, ConstantsAssumption DEF Reserves, TypeOK, RunOK
<1>3. TableOf(p) \in Table /\ "setup" \in Place
  BY ConstantsAssumption DEF TypeOK, Table, TableOf, Step, Place
<1>4. run' \in RunState
  BY <1>1, <1>3, RunFields DEF TypeOK
<1>5. TypeOK'
  BY <1>2, <1>4 DEF TypeOK, Reserve, folders, cbos, outside
<1>6. RunOK'
  BY <1>1, <1>2
  DEF TypeOK, Reserve, RunOK, Moving, HasProcess, At, RunState, folders, cbos, outside
<1> QED
  BY <1>5, <1>6

(* The attempts stay within cbos_max_retries. *)
LEMMA SetupAttemptFailsTyped == ASSUME Typed, SetupAttemptFails PROVE Typed'
<1> USE DEF Typed
<1>1. minted \subseteq minted' /\ minted' \subseteq Pid
  BY DEF SetupAttemptFails, Reserves, TypeOK
<1>2. run.attempt \in Nat /\ run.attempt >= 1
  BY DEF TypeOK, RunState, Attempt
<1>3. \/ run' = [run EXCEPT !.attempt = run.attempt + 1] /\ run.attempt + 1 \in Attempt
      \/ run' = [run EXCEPT !.pc = "failing"] /\ "failing" \in Place
  BY <1>2, ConstantsAssumption DEF SetupAttemptFails, Attempt, Place
<1>4. run' \in RunState
  <2>1. CASE run' = [run EXCEPT !.attempt = run.attempt + 1] /\ run.attempt + 1 \in Attempt
    BY <2>1, RunFields DEF TypeOK
  <2>2. CASE run' = [run EXCEPT !.pc = "failing"] /\ "failing" \in Place
    BY <2>2, RunFields DEF TypeOK
  <2> QED
    BY <1>3, <2>1, <2>2
<1>5. TypeOK'
  BY <1>1, <1>4 DEF TypeOK, SetupAttemptFails, folders, cbos, outside
<1>6. RunOK'
  BY <1>1, <1>3
  DEF TypeOK, SetupAttemptFails, RunOK, Moving, HasProcess, At, RunState, folders, cbos, outside
<1> QED
  BY <1>5, <1>6

(* Step 8 before the files keeps the types. *)
LEMMA SkipZeroStepsTyped == ASSUME Typed, SkipZeroSteps PROVE Typed'
<1> USE DEF Typed
<1>1. run' = [run EXCEPT !.pc = "files"] /\ "files" \in Place
  BY DEF SkipZeroSteps, Place
<1>2. run' \in RunState
  BY <1>1, RunFields DEF TypeOK
<1>3. PICK marked \in SUBSET Step : skipped' = [skipped EXCEPT ![run.pid] = @ \cup marked]
  BY DEF SkipZeroSteps, MarkOptional, NeedsUpload, Step
<1>4. skipped' \in [Pid -> SUBSET Step]
  BY <1>3 DEF TypeOK
<1>5. TypeOK'
  BY <1>2, <1>4 DEF TypeOK, SkipZeroSteps, folders, cbos, outside
<1>6. RunOK'
  BY <1>1
  DEF TypeOK, SkipZeroSteps, RunOK, Moving, HasProcess, At, RunState, folders, cbos, outside
<1> QED
  BY <1>5, <1>6

(* Step 8 after the files keeps the types. *)
LEMMA SkipUnfilledOptionalTyped == ASSUME Typed, SkipUnfilledOptional PROVE Typed'
<1> USE DEF Typed
<1>1. run' = [run EXCEPT !.pc = "gate"] /\ "gate" \in Place
  BY DEF SkipUnfilledOptional, Place
<1>2. run' \in RunState
  BY <1>1, RunFields DEF TypeOK
<1>3. PICK marked \in SUBSET Step : skipped' = [skipped EXCEPT ![run.pid] = @ \cup marked]
  BY DEF SkipUnfilledOptional, MarkOptional, NeedsUpload, Step
<1>4. skipped' \in [Pid -> SUBSET Step]
  BY <1>3 DEF TypeOK
<1>5. TypeOK'
  BY <1>2, <1>4 DEF TypeOK, SkipUnfilledOptional, folders, cbos, outside
<1>6. RunOK'
  BY <1>1
  DEF TypeOK, SkipUnfilledOptional, RunOK, Moving, HasProcess, At, RunState, folders, cbos,
      outside
<1> QED
  BY <1>5, <1>6

(* Its Step 8 keeps the types. *)
LEMMA ProceedMarksTyped == ASSUME Typed, ProceedMarks PROVE Typed'
<1> USE DEF Typed
<1>1. run' = [run EXCEPT !.pc = "proceeded"] /\ "proceeded" \in Place
  BY DEF ProceedMarks, Place
<1>2. run' \in RunState
  BY <1>1, RunFields DEF TypeOK
<1>3. PICK marked \in SUBSET Step : skipped' = [skipped EXCEPT ![run.pid] = @ \cup marked]
  BY DEF ProceedMarks, MarkOptional, NeedsUpload, Step
<1>4. skipped' \in [Pid -> SUBSET Step]
  BY <1>3 DEF TypeOK
<1>5. TypeOK'
  BY <1>2, <1>4 DEF TypeOK, ProceedMarks, folders, cbos, outside
<1>6. RunOK'
  BY <1>1
  DEF TypeOK, ProceedMarks, RunOK, Moving, HasProcess, At, RunState, folders, cbos, outside
<1> QED
  BY <1>5, <1>6

(* Force-proceed reads a process CBOS knows. *)
LEMMA ProceedReadTyped == ASSUME Typed, ProceedRead PROVE Typed'
<1> USE DEF Typed
<1>1. PICK p \in minted : run' = [run EXCEPT !.pc = "approve", !.pid = p, !.table = TableOf(p)]
  BY DEF ProceedRead
<1>2. TableOf(p) \in Table /\ "approve" \in Place /\ p \in Pid
  BY ConstantsAssumption DEF TypeOK, Table, TableOf, Step, Place
<1>3. run' \in RunState
  BY <1>1, <1>2, RunFields DEF TypeOK
<1>4. TypeOK'
  BY <1>3 DEF TypeOK, ProceedRead, folders, cbos, outside
<1>5. RunOK'
  BY <1>1 DEF TypeOK, ProceedRead, RunOK, Moving, HasProcess, At, RunState, folders, cbos, outside
<1> QED
  BY <1>4, <1>5

(* The gate leaves a verdict. *)
LEMMA GateTyped == ASSUME Typed, Gate PROVE Typed'
<1> USE DEF Typed
<1>1. PICK v \in {"confirmed", "incomplete"} : run' = [run EXCEPT !.pc = "deliver", !.verdict = v]
  BY DEF Gate
<1>2. v \in Verdict /\ "deliver" \in Place
  BY DEF Verdict, Place
<1>3. run' \in RunState
  BY <1>1, <1>2, RunFields DEF TypeOK
<1>4. TypeOK'
  BY <1>3 DEF TypeOK, Gate, folders, cbos, outside
<1>5. RunOK'
  BY <1>1 DEF TypeOK, Gate, RunOK, Moving, HasProcess, At, RunState, folders, cbos, outside
<1> QED
  BY <1>4, <1>5

(* A moved file stays in hand. *)
LEMMA MoveFileTyped == ASSUME Typed, MoveFile PROVE Typed'
<1> USE DEF Typed
<1>1. run' = [run EXCEPT !.pc = "record"] /\ "record" \in Place /\ run.file \in File
  BY DEF MoveFile, Place, RunOK, Moving, At
<1>2. run' \in RunState
  BY <1>1, RunFields DEF TypeOK
<1>3. TypeOK'
  BY <1>1, <1>2 DEF TypeOK, MoveFile, folders, cbos, outside
<1>4. RunOK'
  BY <1>1 DEF TypeOK, MoveFile, RunOK, Moving, HasProcess, At, RunState, folders, cbos, outside
<1> QED
  BY <1>3, <1>4

(* The row of the file in hand is one of the table's; the run goes back where it was. *)
LEMMA RecordOutcomeTyped == ASSUME Typed, RecordOutcome PROVE Typed'
<1> USE DEF Typed
<1>1. run' = [run EXCEPT !.pc = run.back, !.file = NoFile, !.outcome = "none", !.back = "none"]
  BY DEF RecordOutcome
<1>2. run.back \in Back \ {"none"} /\ run.outcome \in {"uploaded", "failed"} /\ run.file \in File
      /\ run.batch \in Batch
  BY DEF RecordOutcome, TypeOK, RunState, RunOK, Moving, At, Outcome
<1>3. run.back \in Place /\ "none" \in Outcome /\ "none" \in Back
  BY <1>2 DEF Place, Back, Outcome
<1>4. run' \in RunState
  BY <1>1, <1>3, RunFiles DEF TypeOK
<1>5. Row(run.outcome) \in [batch : Batch, file : File, status : {"pending", "uploaded", "failed"}]
  BY <1>2 DEF Row
<1>6. TypeOK'
  BY <1>4, <1>5 DEF TypeOK, RecordOutcome, folders, cbos, outside
<1>7. RunOK'
  BY <1>1, <1>2
  DEF TypeOK, RecordOutcome, Back, RunOK, Moving, HasProcess, At, RunState, folders, cbos, outside
<1> QED
  BY <1>6, <1>7

(* A file of a failing run goes in hand. *)
LEMMA FailFileTyped == ASSUME Typed, FailFile PROVE Typed'
<1> USE DEF Typed
<1>1. PICK f \in run.todo : run' = InHand(f, "failed", "failing")
  BY DEF FailFile
<1>2. f \in File
  BY DEF TypeOK, RunState
<1>3. run' \in RunState
  BY <1>1, <1>2, InHandRun DEF TypeOK
<1>4. TypeOK'
  BY <1>3 DEF TypeOK, FailFile, folders, cbos, outside
<1>5. RunOK'
  BY <1>1, <1>2, InHandRun
  DEF TypeOK, FailFile, RunOK, Moving, HasProcess, At, folders, cbos, outside
<1> QED
  BY <1>4, <1>5

(* A rejected file goes in hand. *)
LEMMA RejectFileTyped == ASSUME Typed, RejectFile PROVE Typed'
<1> USE DEF Typed
<1>1. PICK f \in run.todo : run' = InHand(f, "failed", "files")
  BY DEF RejectFile
<1>2. f \in File
  BY DEF TypeOK, RunState
<1>3. run' \in RunState
  BY <1>1, <1>2, InHandRun DEF TypeOK
<1>4. TypeOK'
  BY <1>3 DEF TypeOK, RejectFile, folders, cbos, outside
<1>5. RunOK'
  BY <1>1, <1>2, InHandRun
  DEF TypeOK, RejectFile, RunOK, Moving, HasProcess, At, folders, cbos, outside
<1> QED
  BY <1>4, <1>5

(* A file that could not be registered goes in hand. *)
LEMMA RegisterFailsTyped == ASSUME Typed, RegisterFails PROVE Typed'
<1> USE DEF Typed
<1>1. PICK f \in run.chunked : run' = InHand(f, "failed", "register")
  BY DEF RegisterFails
<1>2. f \in File
  BY DEF TypeOK, RunState
<1>3. run' \in RunState
  BY <1>1, <1>2, InHandRun DEF TypeOK
<1>4. TypeOK'
  BY <1>3 DEF TypeOK, RegisterFails, folders, cbos, outside
<1>5. RunOK'
  BY <1>1, <1>2, InHandRun
  DEF TypeOK, RegisterFails, RunOK, Moving, HasProcess, At, folders, cbos, outside
<1> QED
  BY <1>4, <1>5

(* A file that could not be sent goes in hand. *)
LEMMA UploadFailsTyped == ASSUME Typed, UploadFails PROVE Typed'
<1> USE DEF Typed
<1>1. run' = InHand(run.file, "failed", "files") /\ run.file \in File
  BY DEF UploadFails, RunOK, At
<1>2. run' \in RunState
  BY <1>1, InHandRun DEF TypeOK
<1>3. TypeOK'
  BY <1>2 DEF TypeOK, UploadFails, folders, cbos, outside
<1>4. RunOK'
  BY <1>1, InHandRun
  DEF TypeOK, UploadFails, RunOK, Moving, HasProcess, At, folders, cbos, outside
<1> QED
  BY <1>3, <1>4

(* A skipped file goes in hand and fills its slot. *)
LEMMA SkipFileTyped == ASSUME Typed, SkipFile PROVE Typed'
<1> USE DEF Typed
<1> DEFINE r == InHand(run.file, "uploaded", "files")
           us == r.filled \cup {Match[run.file]}
<1>1. run' = [r EXCEPT !.filled = us] /\ run.file \in File
  BY DEF SkipFile, RunOK, At
<1>2. r \in RunState /\ r.filled = run.filled
  BY <1>1, InHandRun DEF TypeOK
<1>3. us \in SUBSET Slot
  BY <1>1, <1>2, ConstantsAssumption DEF TypeOK, RunState
<1>4. run' \in RunState
  BY <1>1, <1>2, <1>3, RunFields DEF TypeOK
<1>5. TypeOK'
  BY <1>4 DEF TypeOK, SkipFile, folders, cbos, outside
<1>6. /\ run'.pc = "move" /\ run'.file = run.file /\ run'.outcome = "uploaded" /\ run'.back = "files"
      /\ run'.batch = run.batch /\ run'.pid = run.pid
  <2> HIDE DEF r, us
  <2>1. /\ run'.pc = r.pc /\ run'.file = r.file /\ run'.outcome = r.outcome /\ run'.back = r.back
        /\ run'.batch = r.batch /\ run'.pid = r.pid
    BY <1>1, <1>2 DEF RunState
  <2> USE DEF r
  <2> QED
    BY <1>1, <2>1, InHandRun DEF TypeOK
<1>7. RunOK'
  BY <1>1, <1>6 DEF SkipFile, RunOK, Moving, HasProcess, At, folders, cbos, outside
<1> QED
  BY <1>5, <1>7

(* A delivered file goes in hand. *)
LEMMA DeliverFileTyped == ASSUME Typed, DeliverFile PROVE Typed'
<1> USE DEF Typed
<1>1. PICK f \in run.reached :
        run' = [InHand(f, "uploaded", "deliver") EXCEPT !.reached = @ \ {f}]
  BY DEF DeliverFile
<1> DEFINE r == InHand(f, "uploaded", "deliver")
           fs == r.reached \ {f}
<1>2. f \in File
  BY DEF TypeOK, RunState
<1>3. r \in RunState
  BY <1>2, InHandRun DEF TypeOK
<1>4. run' = [r EXCEPT !.reached = fs]
  BY <1>1
<1>5. fs \in SUBSET File
  BY <1>3 DEF RunState
<1>6. run' \in RunState
  BY <1>3, <1>4, <1>5, RunFields
<1>7. TypeOK'
  BY <1>6 DEF TypeOK, DeliverFile, folders, cbos, outside
<1>8. /\ run'.pc = "move" /\ run'.file = f /\ run'.outcome = "uploaded" /\ run'.back = "deliver"
      /\ run'.batch = run.batch /\ run'.pid = run.pid /\ run'.verdict = run.verdict
  <2> HIDE DEF r, fs
  <2>1. /\ run'.pc = r.pc /\ run'.file = r.file /\ run'.outcome = r.outcome /\ run'.back = r.back
        /\ run'.batch = r.batch /\ run'.pid = r.pid /\ run'.verdict = r.verdict
    BY <1>3, <1>4 DEF RunState
  <2> USE DEF r
  <2> QED
    BY <1>2, <2>1, InHandRun DEF TypeOK
<1>9. RunOK'
  BY <1>2, <1>8 DEF DeliverFile, RunOK, Moving, HasProcess, At, folders, cbos, outside
<1> QED
  BY <1>7, <1>9

(* A matched file gets an open row. *)
LEMMA MatchFileTyped == ASSUME Typed, MatchFile PROVE Typed'
<1> USE DEF Typed
<1>1. PICK f \in run.todo :
        /\ run' = [run EXCEPT !.pc = "matched", !.file = f]
        /\ audit' = (audit \ Open(f)) \cup {[batch |-> run.batch, file |-> f, status |-> "pending"]}
  BY DEF MatchFile
<1>2. f \in File /\ run.batch \in Batch /\ "matched" \in Place
  BY DEF TypeOK, RunState, RunOK, MatchFile, At, Place
<1>3. run' \in RunState
  BY <1>1, <1>2, RunFiles DEF TypeOK
<1>4. TypeOK'
  BY <1>1, <1>2, <1>3 DEF TypeOK, MatchFile, folders, cbos, outside
<1>5. RunOK'
  BY <1>1, <1>2
  DEF TypeOK, MatchFile, RunOK, Moving, HasProcess, At, RunState, folders, cbos, outside
<1> QED
  BY <1>4, <1>5

(* A sent file waits for Step 7. *)
LEMMA UploadFileTyped == ASSUME Typed, UploadFile PROVE Typed'
<1> USE DEF Typed
<1> DEFINE fs == run.todo \ {run.file}
           gs == run.chunked \cup {run.file}
<1>1. /\ run' = [run EXCEPT !.pc = "files", !.file = NoFile, !.todo = fs, !.chunked = gs]
      /\ "files" \in Place /\ run.file \in File
  BY DEF UploadFile, Place, RunOK, At
<1>2. fs \in SUBSET File /\ gs \in SUBSET File
  BY <1>1 DEF TypeOK, RunState
<1>3. run' \in RunState
  BY <1>1, <1>2, RunFiles DEF TypeOK
<1>4. TypeOK'
  BY <1>3 DEF TypeOK, UploadFile, folders, cbos, outside
<1>5. RunOK'
  BY <1>1 DEF TypeOK, UploadFile, RunOK, Moving, HasProcess, At, RunState, folders, cbos, outside
<1> QED
  BY <1>4, <1>5

(* An entry of the run's own process is counted, and its slot is pending again. *)
LEMMA EntryTyped ==
  ASSUME Typed, HasProcess, NEW f \in File, CreateEntry(f)
  PROVE  /\ entries' \in [Pid -> [File -> Nat]] /\ failed' \in [Pid -> SUBSET Slot]
         /\ UNCHANGED <<minted, done, skipped>>
<1>1. run.pid \in Pid
  BY DEF Typed, TypeOK, RunOK
<1>2. entries[run.pid] \in [File -> Nat] /\ entries[run.pid][f] + 1 \in Nat
  BY <1>1 DEF Typed, TypeOK
<1> QED
  BY <1>1, <1>2 DEF CreateEntry, Typed, TypeOK

(* A registered file is counted and fills its slot. *)
LEMMA RegisterFileTyped == ASSUME Typed, RegisterFile PROVE Typed'
<1> USE DEF Typed
<1>1. PICK f \in run.chunked :
        /\ CreateEntry(f)
        /\ run' = [run EXCEPT !.chunked = @ \ {f}, !.reached = @ \cup {f},
                              !.filled = @ \cup {Match[f]}]
  BY DEF RegisterFile
<1> DEFINE fs == run.chunked \ {f}
           gs == run.reached \cup {f}
           us == run.filled \cup {Match[f]}
<1>2. f \in File /\ HasProcess
  BY DEF TypeOK, RunState, RegisterFile, HasProcess, At
<1>3. fs \in SUBSET File /\ gs \in SUBSET File /\ us \in SUBSET Slot
  BY <1>2, ConstantsAssumption DEF TypeOK, RunState
<1>4. run' = [run EXCEPT !.chunked = fs, !.reached = gs, !.filled = us]
  BY <1>1
<1>5. "register" \in Place /\ NoFile \in File \cup {NoFile}
  BY DEF Place
<1>6. run' \in RunState
  BY <1>3, <1>4, <1>5, RunFiles DEF TypeOK
<1>7. TypeOK'
  BY <1>1, <1>2, <1>6, EntryTyped DEF TypeOK, RegisterFile, folders, outside
<1>8. RunOK'
  BY <1>1, <1>2, <1>4, EntryTyped
  DEF TypeOK, RegisterFile, RunOK, Moving, HasProcess, At, RunState, folders, cbos, outside
<1> QED
  BY <1>7, <1>8

(* So is one whose registration was not answered, and it goes in hand. *)
LEMMA RegisterUnansweredTyped == ASSUME Typed, RegisterUnanswered PROVE Typed'
<1> USE DEF Typed
<1>1. PICK f \in run.chunked : CreateEntry(f) /\ run' = InHand(f, "failed", "register")
  BY DEF RegisterUnanswered
<1>2. f \in File /\ HasProcess
  BY DEF TypeOK, RunState, RegisterUnanswered, HasProcess, At
<1>3. run' \in RunState
  BY <1>1, <1>2, InHandRun DEF TypeOK
<1>4. lost' \in 0..MaxLost
  BY ConstantsAssumption DEF TypeOK, RegisterUnanswered
<1>5. TypeOK'
  BY <1>1, <1>2, <1>3, <1>4, EntryTyped DEF TypeOK, RegisterUnanswered, folders
<1>6. RunOK'
  BY <1>1, <1>2, InHandRun, EntryTyped
     DEF TypeOK, RegisterUnanswered, RunOK, Moving, HasProcess, At, folders, outside
<1> QED
  BY <1>5, <1>6

(* A run that ends leaves a status in the row and nothing in hand. *)
LEMMA EndsTyped ==
  ASSUME Typed, run.pc # "idle", NEW status \in Status, Ends(status),
         UNCHANGED <<folders, audit, cbos, outside>>
  PROVE  Typed'
<1> USE DEF Typed
<1>1. run' = IdleRun /\ IdleRun \in RunState
  BY IdleTyped DEF Ends
<1>2. TypeOK'
  BY <1>1 DEF TypeOK, RunOK, Ends, SetBatchStatus, folders, cbos, outside
<1>3. RunOK'
  BY <1>1 DEF RunOK, IdleRun, Moving, HasProcess
<1> QED
  BY <1>2, <1>3

(* Every way to end a run is one of these. *)
LEMMA EndingTyped ==
  ASSUME Typed,
         \/ Holiday \/ NotRunnable \/ SetupFailed \/ NothingUploaded \/ RecordVerdict
         \/ ProceedNoProcess \/ ProceedRefused \/ ProceedConfirms
  PROVE  Typed'
<1>1. RecordVerdict => run.verdict \in Status
  BY DEF RecordVerdict, At, Typed, TypeOK, RunOK, RunState, Verdict, Status, Settled
<1>2. {"queued", "failed", "incomplete", "confirmed"} \subseteq Status
  BY DEF Status, Settled
<1> QED
  BY <1>1, <1>2, EndsTyped
     DEF Holiday, NotRunnable, SetupFailed, NothingUploaded, RecordVerdict, ProceedNoProcess,
         ProceedRefused, ProceedConfirms, At

(* A batch is taken up, or a run is lost. *)
LEMMA BoundaryTyped ==
  ASSUME Typed,
         \/ \E b \in Batch : \/ Superseded(b) \/ BeginProceed(b)
                             \/ \E supplied \in BOOLEAN : BeginUpload(b, supplied)
         \/ Fault \/ Die
  PROVE  Typed'
<1> USE DEF Typed
<1>1. ASSUME NEW b \in Batch, Superseded(b) PROVE Typed'
  BY <1>1
  DEF Superseded, TypeOK, RunOK, Moving, HasProcess, Status, Settled, folders, cbos, outside
<1>2. ASSUME NEW b \in Batch, BeginProceed(b) PROVE Typed'
  <2>1. run' = [IdleRun EXCEPT !.pc = "proceed", !.batch = b, !.named = asked[b]]
    BY <1>2 DEF BeginProceed
  <2>2. "proceed" \in Place /\ asked[b] \in SUBSET Slot
    BY DEF Place, TypeOK
  <2>3. run' \in RunState
    BY <2>1, <2>2, RunBegins
  <2>4. TypeOK'
    BY <1>2, <2>3 DEF BeginProceed, TypeOK, folders, cbos
  <2>5. RunOK'
    BY <1>2, <2>1 DEF RunOK, Moving, HasProcess, IdleRun
  <2> QED
    BY <2>4, <2>5
<1>3. ASSUME NEW b \in Batch, NEW supplied \in BOOLEAN, BeginUpload(b, supplied) PROVE Typed'
  <2>1. PICK pc \in {"supplied", "find"} :
          run' = [IdleRun EXCEPT !.pc = pc, !.batch = b,
                                 !.files = Listed[b] \cap source, !.todo = Listed[b] \cap source]
    BY <1>3 DEF BeginUpload
  <2>2. pc \in Place /\ Listed[b] \cap source \in SUBSET File /\ {} \in SUBSET Slot
    BY DEF Place, TypeOK
  <2>3. run' \in RunState
    BY <2>1, <2>2, RunBegins
  <2>4. TypeOK'
    BY <1>3, <2>3 DEF BeginUpload, TypeOK, Status, Settled, folders, cbos, outside
  <2>5. RunOK'
    BY <1>3, <2>1 DEF RunOK, Moving, HasProcess, IdleRun
  <2> QED
    BY <2>4, <2>5
<1>4. CASE Fault \/ Die
  <2>1. run' = IdleRun /\ IdleRun \in RunState
    BY <1>4, IdleTyped DEF Fault, Die
  <2>2. row' \in [Batch -> Status \cup {"none"}] /\ aborts' \in 0..MaxAbort
    BY <1>4, ConstantsAssumption
       DEF Fault, Die, At, SetBatchStatus, TypeOK, RunOK, Status, Settled
  <2>3. TypeOK'
    BY <1>4, <2>1, <2>2 DEF Fault, Die, TypeOK, folders, cbos
  <2>4. RunOK'
    BY <2>1 DEF RunOK, Moving, HasProcess, IdleRun
  <2> QED
    BY <2>3, <2>4
<1> QED
  BY <1>1, <1>2, <1>3, <1>4

(* What the bot, ops, the engine and CBOS do is outside the run. *)
LEMMA EnvironmentTyped == ASSUME Typed, Environment PROVE Typed'
<1> USE DEF Typed
<1>1. ASSUME NEW b \in Batch, Publish(b) PROVE Typed'
  BY <1>1, ConstantsAssumption
     DEF Publish, TypeOK, RunOK, Moving, HasProcess, Status, Settled, cbos, outside
<1>2. ASSUME NEW b \in Batch, NEW named \in SUBSET Slot, RequestProceed(b, named) PROVE Typed'
  BY <1>2 DEF RequestProceed, TypeOK, RunOK, Moving, HasProcess, folders, cbos
<1>3. CASE EngineReserves
  BY <1>3 DEF EngineReserves, TypeOK, RunOK, Moving, HasProcess, folders, outside
<1>4. ASSUME NEW p \in Pid, NEW u \in Slot, CbosAccepts(p, u) \/ CbosRefuses(p, u) PROVE Typed'
  <2>1. CASE CbosAccepts(p, u)
    BY <2>1 DEF CbosAccepts, TypeOK, RunOK, Moving, HasProcess, folders, outside
  <2>2. CASE CbosRefuses(p, u)
    BY <2>2 DEF CbosRefuses, TypeOK, RunOK, Moving, HasProcess, folders, outside
  <2> QED
    BY <1>4, <2>1, <2>2
<1> QED
  BY <1>1, <1>2, <1>3, <1>4 DEF Environment

(* Every step keeps the types. *)
LEMMA TypedStep == Typed /\ [Next]_vars => Typed'
<1> SUFFICES ASSUME Typed, [Next]_vars PROVE Typed'
  OBVIOUS
<1>1. CASE UploadRun
  BY <1>1, EndingTyped, TakeSuppliedTyped, SuppliedInvalidTyped, FindExistingTyped,
      ReserveTyped, SetupAttemptFailsTyped, SkipZeroStepsTyped, MoveFileTyped,
      RecordOutcomeTyped, FailFileTyped, RejectFileTyped,
     MatchFileTyped, SkipFileTyped, UploadFileTyped, UploadFailsTyped, AllSentTyped,
     RegisterFileTyped, RegisterFailsTyped, RegisterUnansweredTyped,
     SkipUnfilledOptionalTyped, GateTyped, DeliverFileTyped
  DEF UploadRun
<1>2. CASE ProceedRun
  BY <1>2, EndingTyped, ProceedReadTyped, ProceedMarksTyped DEF ProceedRun
<1>3. CASE Next /\ ~UploadRun /\ ~ProceedRun
  BY <1>3, BoundaryTyped, EnvironmentTyped DEF Next
<1>4. CASE UNCHANGED vars
  BY <1>4 DEF vars, folders, cbos, outside, Typed, TypeOK, RunOK, Moving, HasProcess
<1> QED
  BY <1>1, <1>2, <1>3, <1>4

(* Every variable keeps its type, and the run's fields fit the place it is   *)
(* at: no step works on a file, a batch or a process that is not there.      *)
THEOREM UploadTypeSafe == Spec => []TypeOK
<1>1. Typed => TypeOK
  BY DEF Typed
<1> QED
  BY <1>1, TypedInit, TypedStep, PTL DEF Spec

-----------------------------------------------------------------------------
(* CBOS holds a file of this UploadID, under a process it created. *)
Known(u) == \E p \in minted : Registered(p, u)

(* Why a file may be shown as uploaded: everything the run, the folders and  *)
(* the audit table go by was registered before.                              *)
Evidence ==
  /\ \A p \in Pid : \A u \in done[p] : Registered(p, u)
  /\ \A u \in run.table.done : Known(u)
  /\ \A f \in run.reached : Known(Match[f])
  /\ \A f \in File : run.outcome = "uploaded" /\ run.file = f => Known(Match[f])
  /\ \A f \in uploaded : Known(Match[f])
  /\ \A r \in audit : r.status = "uploaded" => Known(Match[r.file])

(* Nothing is stored, so nothing is claimed. *)
LEMMA EvidenceInit == Init => Evidence
  BY DEF Init, Evidence, IdleRun, EmptyTable

(* Only Step 7 makes an entry. *)
LEMMA EntriesStep ==
  ASSUME [Next]_vars
  PROVE  \/ UNCHANGED entries
         \/ At("register") /\ \E f \in run.chunked : CreateEntry(f)
<1>1. CASE UploadRun
  BY <1>1 DEF UploadRun, TakeSupplied, SuppliedInvalid, Holiday, FindExisting, Reserve,
     SetupAttemptFails, NotRunnable, SkipZeroSteps, MoveFile, RecordOutcome, FailFile,
     SetupFailed, RejectFile, MatchFile, SkipFile, UploadFile, UploadFails, AllSent,
     RegisterFile, RegisterFails, RegisterUnanswered, NothingUploaded, SkipUnfilledOptional,
     Gate, DeliverFile, RecordVerdict, cbos
<1>2. CASE ProceedRun
  BY <1>2 DEF ProceedRun, ProceedNoProcess, ProceedRead, ProceedRefused, ProceedMarks,
     ProceedConfirms, cbos
<1>3. CASE Environment
  BY <1>3 DEF Environment, Publish, RequestProceed, EngineReserves, CbosAccepts, CbosRefuses, cbos
<1>4. CASE \E b \in Batch : \/ Superseded(b) \/ BeginProceed(b)
                            \/ \E supplied \in BOOLEAN : BeginUpload(b, supplied)
  BY <1>4 DEF Superseded, BeginProceed, BeginUpload, cbos
<1>5. CASE Fault \/ Die
  BY <1>5 DEF Fault, Die, cbos
<1>6. CASE UNCHANGED vars
  BY <1>6 DEF vars, cbos
<1> QED
  BY <1>1, <1>2, <1>3, <1>4, <1>5, <1>6 DEF Next

(* CBOS forgets no process. *)
LEMMA MintedStep == ASSUME [Next]_vars PROVE minted \subseteq minted'
<1>1. CASE UploadRun
  BY <1>1 DEF UploadRun, TakeSupplied, SuppliedInvalid, Holiday, FindExisting, Reserve, Reserves,
     SetupAttemptFails, NotRunnable, SkipZeroSteps, MoveFile, RecordOutcome, FailFile,
     SetupFailed, RejectFile, MatchFile, SkipFile, UploadFile, UploadFails, AllSent,
     RegisterFile, RegisterFails, RegisterUnanswered, NothingUploaded, SkipUnfilledOptional,
     Gate, DeliverFile, RecordVerdict, CreateEntry, cbos
<1>2. CASE ProceedRun
  BY <1>2 DEF ProceedRun, ProceedNoProcess, ProceedRead, ProceedRefused, ProceedMarks,
     ProceedConfirms, cbos
<1>3. CASE Environment
  BY <1>3 DEF Environment, Publish, RequestProceed, EngineReserves, CbosAccepts, CbosRefuses, cbos
<1>4. CASE \E b \in Batch : \/ Superseded(b) \/ BeginProceed(b)
                            \/ \E supplied \in BOOLEAN : BeginUpload(b, supplied)
  BY <1>4 DEF Superseded, BeginProceed, BeginUpload, cbos
<1>5. CASE Fault \/ Die
  BY <1>5 DEF Fault, Die, cbos
<1>6. CASE UNCHANGED vars
  BY <1>6 DEF vars, cbos
<1> QED
  BY <1>1, <1>2, <1>3, <1>4, <1>5, <1>6 DEF Next

(* What is registered stays registered. *)
LEMMA RegisteredGrows ==
  ASSUME Typed, [Next]_vars
  PROVE  /\ \A u : \A p \in Pid : Registered(p, u) => Registered(p, u)'
         /\ \A u : Known(u) => Known(u)'
<1>1. ASSUME NEW p \in Pid, NEW f \in File, entries[p][f] > 0 PROVE entries'[p][f] > 0
  <2>1. CASE UNCHANGED entries
    BY <1>1, <2>1
  <2>2. CASE \E g \in run.chunked : CreateEntry(g)
    <3>1. PICK g \in run.chunked : entries' = [entries EXCEPT ![run.pid][g] = entries[run.pid][g] + 1]
      BY <2>2 DEF CreateEntry
    <3>2. entries[p] \in [File -> Nat] /\ entries \in [Pid -> [File -> Nat]]
      BY DEF Typed, TypeOK
    <3>3. entries[p][f] \in Nat /\ entries[p][f] + 1 > 0
      BY <1>1, <3>2
    <3>4. entries'[p][f] = entries[p][f] \/ entries'[p][f] = entries[p][f] + 1
      BY <3>1, <3>2
    <3> QED
      BY <1>1, <3>3, <3>4
  <2> QED
    BY <2>1, <2>2, EntriesStep
<1>2. \A u : \A p \in Pid : Registered(p, u) => Registered(p, u)'
  BY <1>1 DEF Registered
<1>3. minted \subseteq Pid
  BY DEF Typed, TypeOK
<1> QED
  BY <1>2, <1>3, MintedStep DEF Known

(* A step that claims nothing new, given what it says about the run. *)
LEMMA EvidenceKept ==
  ASSUME Typed, Evidence, [Next]_vars, UNCHANGED <<uploaded, audit, done>>,
         \A u \in run'.table.done : Known(u) \/ Known(u)',
         \A f \in run'.reached : Known(Match[f]) \/ Known(Match[f])',
         \A f \in File : run'.outcome = "uploaded" /\ run'.file = f =>
                           Known(Match[f]) \/ Known(Match[f])'
  PROVE  Evidence'
<1>1. \A p \in Pid : \A u \in done'[p] : Registered(p, u)'
  BY RegisteredGrows DEF Evidence
<1>2. /\ \A u \in run'.table.done : Known(u)'
      /\ \A f \in run'.reached : Known(Match[f])'
      /\ \A f \in File : run'.outcome = "uploaded" /\ run'.file = f => Known(Match[f])'
  BY RegisteredGrows
<1>3. \A f \in uploaded' : Known(Match[f])'
  BY RegisteredGrows DEF Evidence
<1>4. \A r \in audit' : r.status = "uploaded" => Known(Match[r.file])'
  BY RegisteredGrows DEF Evidence
<1> QED
  BY <1>1, <1>2, <1>3, <1>4 DEF Evidence

(* A run that ends, or that has yet to begin, goes by nothing. *)
LEMMA EvidenceEnds ==
  ASSUME Typed, Evidence, [Next]_vars, UNCHANGED <<uploaded, audit, done>>,
         \/ run' = IdleRun \/ run' = run
         \/ run'.table = EmptyTable /\ run'.reached = {} /\ run'.outcome = "none"
  PROVE  Evidence'
<1>1. CASE run' = run
  BY <1>1, EvidenceKept DEF Evidence
<1>2. CASE run' = IdleRun \/ (run'.table = EmptyTable /\ run'.reached = {} /\ run'.outcome = "none")
  <2>1. run'.table.done = {} /\ run'.reached = {} /\ run'.outcome = "none"
    BY <1>2 DEF IdleRun, EmptyTable
  <2> QED
    BY <2>1, EvidenceKept
<1> QED
  BY <1>1, <1>2

(* Nor does a step that keeps Table2 and the registered files in hand, and   *)
(* shows no file as uploaded.                                                *)
LEMMA EvidenceQuiet ==
  ASSUME Typed, Evidence, [Next]_vars, UNCHANGED <<uploaded, audit, done>>,
         run'.table = run.table, run'.reached = run.reached, run'.outcome # "uploaded"
  PROVE  Evidence'
  BY EvidenceKept DEF Evidence

(* The steps of a run that change neither. *)
LEMMA EvidenceQuietSteps ==
  ASSUME Typed, Evidence, [Next]_vars,
         \/ SuppliedInvalid \/ FindExisting \/ SetupAttemptFails \/ SkipZeroSteps
         \/ FailFile \/ RejectFile \/ UploadFile \/ UploadFails \/ AllSent
         \/ RegisterFails \/ SkipUnfilledOptional \/ Gate \/ ProceedMarks
  PROVE  Evidence'
<1> USE DEF Typed
<1>1. UNCHANGED <<uploaded, audit, done>>
  BY DEF SuppliedInvalid, FindExisting, SetupAttemptFails, SkipZeroSteps, FailFile, RejectFile,
     UploadFile, UploadFails, AllSent, RegisterFails, SkipUnfilledOptional, Gate, ProceedMarks,
     folders, cbos
<1>2. CASE FailFile \/ RejectFile \/ UploadFails \/ RegisterFails
  <2>1. PICK f \in File, back \in {"failing", "files", "register"} : run' = InHand(f, "failed", back)
    BY <1>2 DEF FailFile, RejectFile, UploadFails, RegisterFails, TypeOK, RunState, RunOK, At
  <2>2. run'.table = run.table /\ run'.reached = run.reached /\ run'.outcome = "failed"
    BY <2>1, InHandRun DEF TypeOK
  <2> QED
    BY <1>1, <2>2, EvidenceQuiet
<1>3. CASE \/ SuppliedInvalid \/ FindExisting \/ SetupAttemptFails \/ SkipZeroSteps
           \/ UploadFile \/ AllSent \/ SkipUnfilledOptional \/ Gate \/ ProceedMarks
  <2>1. run.outcome = "none" /\ run \in RunState
    BY <1>3 DEF SuppliedInvalid, FindExisting, SetupAttemptFails, SkipZeroSteps, UploadFile,
       AllSent, SkipUnfilledOptional, Gate, ProceedMarks, At, RunOK, Moving, TypeOK
  <2>2. run'.table = run.table /\ run'.reached = run.reached /\ run'.outcome = run.outcome
    BY <1>3, <2>1
    DEF SuppliedInvalid, FindExisting, SetupAttemptFails, SkipZeroSteps, UploadFile, AllSent,
        SkipUnfilledOptional, Gate, ProceedMarks, RunState
  <2> QED
    BY <1>1, <2>1, <2>2, EvidenceQuiet
<1> QED
  BY <1>2, <1>3

(* The slots Table2 says are done are known, whenever it was read. *)
LEMMA EvidenceReads ==
  ASSUME Typed, Evidence, [Next]_vars, TakeSupplied \/ Reserve \/ ProceedRead
  PROVE  Evidence'
<1> USE DEF Typed
<1>1. UNCHANGED <<uploaded, audit, done>> /\ run.outcome = "none" /\ run \in RunState
  BY DEF TakeSupplied, Reserve, ProceedRead, folders, cbos, At, RunOK, Moving, TypeOK
<1>2. minted \subseteq minted' /\ minted \subseteq Pid
  BY MintedStep DEF TypeOK
<1>3. \E p \in Pid : p \in minted' /\ run'.table.done \subseteq done[p]
  <2>1. CASE TakeSupplied
    <3>1. PICK p \in minted : \E d \in SUBSET done[p], o \in SUBSET Step :
            run' = [run EXCEPT !.pc = "setup", !.pid = p,
                               !.table = [done |-> d, optional |-> Template \cup o]]
      BY <2>1 DEF TakeSupplied
    <3>2. PICK d \in SUBSET done[p], o \in SUBSET Step :
            run' = [run EXCEPT !.pc = "setup", !.pid = p,
                               !.table = [done |-> d, optional |-> Template \cup o]]
      BY <3>1
    <3>3. run'.table = [done |-> d, optional |-> Template \cup o]
      BY <1>1, <3>2 DEF RunState
    <3> QED
      BY <1>2, <3>2, <3>3
  <2>2. CASE Reserve
    <3>1. PICK p \in Pid :
            Reserves(p) /\ run' = [run EXCEPT !.pc = "setup", !.pid = p, !.table = TableOf(p)]
      BY <2>2 DEF Reserve
    <3>2. p \in minted'
      BY <3>1, ConstantsAssumption DEF Reserves, RunOK
    <3>3. run'.table = TableOf(p)
      BY <1>1, <3>1 DEF RunState
    <3> QED
      BY <3>2, <3>3 DEF TableOf
  <2>3. CASE ProceedRead
    <3>1. PICK p \in minted : run' = [run EXCEPT !.pc = "approve", !.pid = p, !.table = TableOf(p)]
      BY <2>3 DEF ProceedRead
    <3>2. run'.table = TableOf(p)
      BY <1>1, <3>1 DEF RunState
    <3> QED
      BY <1>2, <3>2 DEF TableOf
  <2> QED
    BY <2>1, <2>2, <2>3
<1>4. \A u \in run'.table.done : Known(u)'
  BY <1>3, RegisteredGrows DEF Evidence, Known
<1>5. run'.reached = run.reached /\ run'.outcome = run.outcome
  BY <1>1 DEF TakeSupplied, Reserve, ProceedRead, RunState
<1> QED
  BY <1>1, <1>4, <1>5, EvidenceKept DEF Evidence

(* A file is shown as uploaded, or recorded as such, only with evidence. *)
LEMMA EvidenceMoves ==
  ASSUME Typed, Evidence, [Next]_vars,
         \/ MoveFile \/ RecordOutcome \/ MatchFile \/ SkipFile \/ DeliverFile
  PROVE  Evidence'
<1> USE DEF Typed
<1>1. run \in RunState
  BY DEF TypeOK
<1>2. CASE MoveFile
  <2>1. run'.table = run.table /\ run'.reached = run.reached /\ run'.outcome = run.outcome
        /\ run'.file = run.file
    BY <1>1, <1>2 DEF MoveFile, RunState
  <2>2. UNCHANGED <<audit, done>> /\ \A f \in uploaded' : Known(Match[f])
    <3>1. run.file \in File /\ uploaded \subseteq File
      BY <1>2 DEF MoveFile, At, RunOK, Moving, TypeOK
    <3>2. \/ UNCHANGED uploaded
          \/ run.outcome = "uploaded" /\ uploaded' = uploaded \cup {run.file}
      BY <1>2 DEF MoveFile
    <3> QED
      BY <1>2, <3>1, <3>2 DEF MoveFile, Evidence, cbos
  <2> QED
    BY <2>1, <2>2, RegisteredGrows DEF Evidence
<1>3. CASE RecordOutcome
  <2>1. run'.table = run.table /\ run'.reached = run.reached /\ run'.outcome = "none"
    BY <1>1, <1>3 DEF RecordOutcome, RunState
  <2>2. Row(run.outcome).status = run.outcome /\ Row(run.outcome).file = run.file
    BY DEF Row
  <2>3. UNCHANGED <<uploaded, done>> /\ \A r \in audit' : r.status = "uploaded" => Known(Match[r.file])
    <3>1. run.file \in File
      BY <1>3 DEF RecordOutcome, At, RunOK, Moving
    <3>2. \A r \in audit' : r \in audit \/ (r.status = run.outcome /\ r.file = run.file)
      BY <1>3, <2>2 DEF RecordOutcome
    <3> QED
      BY <1>3, <3>1, <3>2 DEF RecordOutcome, Evidence, folders, cbos
  <2> QED
    BY <2>1, <2>3, RegisteredGrows DEF Evidence
<1>4. CASE MatchFile
  <2>1. PICK f \in run.todo :
          /\ run' = [run EXCEPT !.pc = "matched", !.file = f]
          /\ audit' = (audit \ Open(f)) \cup {[batch |-> run.batch, file |-> f, status |-> "pending"]}
    BY <1>4 DEF MatchFile
  <2>2. run'.table = run.table /\ run'.reached = run.reached /\ run'.outcome = "none"
    BY <1>1, <1>4, <2>1 DEF MatchFile, RunState, RunOK, Moving, At
  <2>3. UNCHANGED <<uploaded, done>> /\ \A r \in audit' : r.status = "uploaded" => Known(Match[r.file])
    <3>1. \A r \in audit' :
            r \in audit \/ r = [batch |-> run.batch, file |-> f, status |-> "pending"]
      BY <2>1
    <3>2. \A r \in audit' : r \in audit \/ r.status = "pending"
      BY <3>1
    <3> QED
      BY <1>4, <3>2 DEF MatchFile, Evidence, folders, cbos
  <2> QED
    BY <2>2, <2>3, RegisteredGrows DEF Evidence
<1>5. CASE SkipFile
  <2>1. run.file \in File /\ Known(Match[run.file]) /\ UNCHANGED <<uploaded, audit, done>>
    BY <1>5 DEF SkipFile, RunOK, At, AlreadyInCbos, Completed, Evidence, folders, cbos
  <2> DEFINE r == InHand(run.file, "uploaded", "files")
             us == r.filled \cup {Match[run.file]}
  <2>2. /\ r \in RunState /\ r.table = run.table /\ r.reached = run.reached /\ r.file = run.file
        /\ run' = [r EXCEPT !.filled = us]
    BY <1>1, <1>5, <2>1, InHandRun DEF SkipFile
  <2> HIDE DEF r, us
  <2>3. run'.table = run.table /\ run'.reached = run.reached /\ run'.file = run.file
    BY <2>2 DEF RunState
  <2> QED
    BY <2>1, <2>3, EvidenceKept DEF Evidence
<1>6. CASE DeliverFile
  <2>1. PICK f \in run.reached :
          run' = [InHand(f, "uploaded", "deliver") EXCEPT !.reached = @ \ {f}]
    BY <1>6 DEF DeliverFile
  <2>2. f \in File /\ Known(Match[f]) /\ UNCHANGED <<uploaded, audit, done>>
    BY <1>1, <1>6 DEF DeliverFile, RunState, Evidence, folders, cbos
  <2> DEFINE r == InHand(f, "uploaded", "deliver")
             fs == r.reached \ {f}
  <2>3. /\ r \in RunState /\ r.table = run.table /\ r.reached = run.reached /\ r.file = f
        /\ run' = [r EXCEPT !.reached = fs]
    BY <1>1, <2>1, <2>2, InHandRun
  <2>4. fs \subseteq run.reached
    BY <2>3
  <2> HIDE DEF r, fs
  <2>5. run'.table = run.table /\ run'.reached \subseteq run.reached /\ run'.file = f
    BY <2>3, <2>4 DEF RunState
  <2> QED
    BY <2>2, <2>5, EvidenceKept DEF Evidence
<1> QED
  BY <1>2, <1>3, <1>4, <1>5, <1>6

(* A registered file is evidence from then on. *)
LEMMA EvidenceMade ==
  ASSUME Typed, Evidence, [Next]_vars, RegisterFile \/ RegisterUnanswered
  PROVE  Evidence'
<1> USE DEF Typed
<1>1. run \in RunState /\ run.pid \in minted /\ run.pid \in Pid /\ run.outcome = "none"
  BY DEF RegisterFile, RegisterUnanswered, At, TypeOK, RunOK, HasProcess, Moving
<1>2. ASSUME NEW f \in File, CreateEntry(f)
      PROVE  Known(Match[f])' /\ UNCHANGED done
  <2>1. entries \in [Pid -> [File -> Nat]] /\ entries[run.pid][f] \in Nat
    BY <1>1 DEF TypeOK
  <2>2. entries'[run.pid][f] > 0 /\ minted' = minted /\ done' = done
    BY <1>1, <1>2, <2>1 DEF CreateEntry
  <2> QED
    BY <1>1, <2>2 DEF Known, Registered
<1>3. UNCHANGED <<uploaded, audit>>
  BY DEF RegisterFile, RegisterUnanswered, folders
<1>4. CASE RegisterFile
  <2>1. PICK f \in run.chunked :
          /\ CreateEntry(f)
          /\ run' = [run EXCEPT !.chunked = @ \ {f}, !.reached = @ \cup {f},
                                !.filled = @ \cup {Match[f]}]
    BY <1>4 DEF RegisterFile
  <2>2. f \in File /\ run'.table = run.table /\ run'.reached = run.reached \cup {f}
        /\ run'.outcome = run.outcome
    BY <1>1, <2>1 DEF RunState
  <2>3. Known(Match[f])' /\ UNCHANGED done
    BY <1>2, <2>1, <2>2
  <2> QED
    BY <1>1, <1>3, <2>2, <2>3, EvidenceKept DEF Evidence
<1>5. CASE RegisterUnanswered
  <2>1. PICK f \in run.chunked : CreateEntry(f) /\ run' = InHand(f, "failed", "register")
    BY <1>5 DEF RegisterUnanswered
  <2>2. f \in File
    BY <1>1 DEF RunState
  <2>3. run'.table = run.table /\ run'.reached = run.reached /\ run'.outcome = "failed"
    BY <1>1, <2>1, <2>2, InHandRun
  <2> QED
    BY <1>2, <1>3, <2>1, <2>2, <2>3, EvidenceQuiet
<1> QED
  BY <1>4, <1>5

(* What happens outside the run gives CBOS and the folders no false entry. *)
LEMMA EvidenceEnvironment ==
  ASSUME Typed, Evidence, [Next]_vars, Environment
  PROVE  Evidence'
<1>1. UNCHANGED <<run, uploaded, audit>>
  BY DEF Environment, Publish, RequestProceed, EngineReserves, CbosAccepts, CbosRefuses, folders
<1>2. CASE UNCHANGED done
  BY <1>1, <1>2, EvidenceEnds
<1>3. CASE \E p \in Pid, u \in Slot : CbosAccepts(p, u)
  <2>1. PICK p \in Pid, u \in Slot : CbosAccepts(p, u)
    BY <1>3
  <2>2. \A q \in Pid : \A v \in done'[q] : Registered(q, v)
    BY <2>1 DEF CbosAccepts, Evidence, Typed, TypeOK
  <2> QED
    BY <1>1, <2>2, RegisteredGrows DEF Evidence
<1> QED
  BY <1>2, <1>3
  DEF Environment, Publish, RequestProceed, EngineReserves, CbosAccepts, CbosRefuses, cbos

(* The steps by which a run begins or ends. *)
LEMMA EvidenceBounds ==
  ASSUME Typed, Evidence, [Next]_vars,
         \/ \E b \in Batch : \/ Superseded(b) \/ BeginProceed(b)
                             \/ \E supplied \in BOOLEAN : BeginUpload(b, supplied)
         \/ Fault \/ Die
         \/ Holiday \/ NotRunnable \/ SetupFailed \/ NothingUploaded \/ RecordVerdict
         \/ ProceedNoProcess \/ ProceedRefused \/ ProceedConfirms
  PROVE  Evidence'
<1>1. UNCHANGED <<uploaded, audit, done>>
  BY DEF Superseded, BeginProceed, BeginUpload, Fault, Die, Holiday, NotRunnable, SetupFailed,
     NothingUploaded, RecordVerdict, ProceedNoProcess, ProceedRefused, ProceedConfirms,
     folders, cbos
<1>2. CASE \/ Fault \/ Die
           \/ Holiday \/ NotRunnable \/ SetupFailed \/ NothingUploaded \/ RecordVerdict
           \/ ProceedNoProcess \/ ProceedRefused \/ ProceedConfirms
  <2>1. run' = IdleRun
    BY <1>2 DEF Fault, Die, Holiday, NotRunnable, SetupFailed, NothingUploaded, RecordVerdict,
       ProceedNoProcess, ProceedRefused, ProceedConfirms, Ends
  <2> QED
    BY <1>1, <2>1, EvidenceEnds
<1>3. ASSUME NEW b \in Batch, Superseded(b) PROVE Evidence'
  BY <1>1, <1>3, EvidenceEnds DEF Superseded
<1>4. ASSUME NEW b \in Batch, BeginProceed(b) PROVE Evidence'
  <2>1. run'.table = EmptyTable /\ run'.reached = {} /\ run'.outcome = "none"
    BY <1>4 DEF BeginProceed, IdleRun
  <2> QED
    BY <1>1, <2>1, EvidenceEnds
<1>5. ASSUME NEW b \in Batch, NEW supplied \in BOOLEAN, BeginUpload(b, supplied) PROVE Evidence'
  <2>1. run'.table = EmptyTable /\ run'.reached = {} /\ run'.outcome = "none"
    BY <1>5 DEF BeginUpload, IdleRun
  <2> QED
    BY <1>1, <2>1, EvidenceEnds
<1> QED
  BY <1>2, <1>3, <1>4, <1>5

(* Every step keeps the evidence. *)
LEMMA EvidenceStep == Typed /\ Evidence /\ [Next]_vars => Evidence'
<1> SUFFICES ASSUME Typed, Evidence, [Next]_vars PROVE Evidence'
  OBVIOUS
<1>1. CASE UploadRun
  BY <1>1, EvidenceQuietSteps, EvidenceReads, EvidenceMoves, EvidenceMade, EvidenceBounds
  DEF UploadRun
<1>2. CASE ProceedRun
  BY <1>2, EvidenceQuietSteps, EvidenceReads, EvidenceBounds DEF ProceedRun
<1>3. CASE Next /\ ~UploadRun /\ ~ProceedRun
  BY <1>3, EvidenceEnvironment, EvidenceBounds DEF Next
<1>4. CASE UNCHANGED vars
  BY <1>4, EvidenceEnds DEF vars, folders, cbos
<1> QED
  BY <1>1, <1>2, <1>3, <1>4

(* No file is in uploaded/, or recorded as uploaded, unless one is           *)
(* registered for its UploadID, whatever dies or goes unanswered.            *)
THEOREM ShownIsRegistered == Spec => []UploadedIsRegistered
<1>1. Evidence => UploadedIsRegistered
  BY DEF Evidence, UploadedIsRegistered, Known
<1> QED
  BY <1>1, TypedInit, TypedStep, EvidenceInit, EvidenceStep, PTL DEF Spec

-----------------------------------------------------------------------------
(* Where the files of the run are: those still in its lists lie in the       *)
(* source folder, each in one list only, and the one in hand is in none.     *)
Held == run.todo \cup run.chunked \cup run.reached

FilesOK ==
  /\ Held \subseteq source
  /\ run.todo \cap run.chunked = {} /\ run.todo \cap run.reached = {}
  /\ run.chunked \cap run.reached = {}
  /\ run.pc = "matched" => run.file \in run.todo
  /\ run.pc = "move" => run.file \in source \ Held
  /\ run.pc = "register" \/ run.back = "register" => run.todo = {}

(* No run, no files. *)
LEMMA FilesInit == Init => FilesOK
  BY DEF Init, FilesOK, Held, IdleRun

(* A step that leaves the lists alone, and does not begin Step 7, a move or  *)
(* a file of its own.                                                        *)
LEMMA FilesQuiet ==
  ASSUME FilesOK, source \subseteq source',
         run'.todo = run.todo, run'.chunked = run.chunked, run'.reached = run.reached,
         run'.back = run.back, run'.pc \notin {"matched", "move", "register"}
  PROVE  FilesOK'
  BY DEF FilesOK, Held

(* Nor does one that drops the run. *)
LEMMA FilesDropped ==
  ASSUME \/ run' = IdleRun
         \/ /\ run'.todo \subseteq source' /\ run'.chunked = {} /\ run'.reached = {}
            /\ run'.back = "none" /\ run'.pc \in {"supplied", "find", "proceed"}
  PROVE  FilesOK'
  BY DEF FilesOK, Held, IdleRun

(* A listed or a sent file goes in hand. *)
LEMMA FilesInHand ==
  ASSUME Typed, FilesOK, UNCHANGED source, NEW f \in run.todo \cup run.chunked,
         NEW o \in {"uploaded", "failed"}, NEW k \in {"failing", "files", "register", "deliver"},
         k = "register" => run.todo = {}
  PROVE  /\ f \in File /\ InHand(f, o, k) \in RunState
         /\ run' = InHand(f, o, k) => FilesOK'
<1>1. f \in File /\ run \in RunState
  BY DEF Typed, TypeOK, RunState
<1>2. InHand(f, o, k) \in RunState
  BY <1>1, InHandRun
<1>3. ASSUME run' = InHand(f, o, k) PROVE FilesOK'
  <2>1. /\ run'.pc = "move" /\ run'.file = f /\ run'.back = k
        /\ run'.todo = run.todo \ {f} /\ run'.chunked = run.chunked \ {f}
        /\ run'.reached = run.reached
    BY <1>1, <1>3, InHandRun
  <2> QED
    BY <2>1 DEF FilesOK, Held
<1> QED
  BY <1>1, <1>2, <1>3

(* The steps of a run that keep its lists. *)
LEMMA FilesQuietSteps ==
  ASSUME Typed, FilesOK,
         \/ TakeSupplied \/ SuppliedInvalid \/ FindExisting \/ Reserve \/ SetupAttemptFails
         \/ SkipZeroSteps \/ SkipUnfilledOptional \/ Gate \/ ProceedRead \/ ProceedMarks
  PROVE  FilesOK'
<1>1. run \in RunState /\ UNCHANGED source
  BY DEF Typed, TypeOK, TakeSupplied, SuppliedInvalid, FindExisting, Reserve, SetupAttemptFails,
     SkipZeroSteps, SkipUnfilledOptional, Gate, ProceedRead, ProceedMarks, folders
<1>2. /\ run'.todo = run.todo /\ run'.chunked = run.chunked /\ run'.reached = run.reached
      /\ run'.back = run.back /\ run'.pc \notin {"matched", "move", "register"}
  <2>1. CASE TakeSupplied
    BY <1>1, <2>1 DEF TakeSupplied, RunState
  <2>2. CASE FindExisting
    BY <1>1, <2>2 DEF FindExisting, RunState
  <2>3. CASE Reserve
    BY <1>1, <2>3 DEF Reserve, RunState
  <2>4. CASE SetupAttemptFails
    BY <1>1, <2>4 DEF SetupAttemptFails, At, RunState
  <2>5. CASE Gate
    BY <1>1, <2>5 DEF Gate, RunState
  <2>6. CASE ProceedRead
    BY <1>1, <2>6 DEF ProceedRead, RunState
  <2>7. CASE SuppliedInvalid \/ SkipZeroSteps \/ SkipUnfilledOptional \/ ProceedMarks
    BY <1>1, <2>7 DEF SuppliedInvalid, SkipZeroSteps, SkipUnfilledOptional, ProceedMarks, RunState
  <2> QED
    BY <2>1, <2>2, <2>3, <2>4, <2>5, <2>6, <2>7
<1> QED
  BY <1>1, <1>2, FilesQuiet

(* The steps of a run that work on a file. *)
LEMMA FilesSteps ==
  ASSUME Typed, FilesOK,
         \/ MoveFile \/ RecordOutcome \/ FailFile \/ RejectFile \/ MatchFile \/ SkipFile
         \/ UploadFile \/ UploadFails \/ AllSent \/ RegisterFile \/ RegisterFails
         \/ RegisterUnanswered \/ DeliverFile
  PROVE  FilesOK'
<1>1. run \in RunState
  BY DEF Typed, TypeOK
<1>2. CASE MoveFile
  <2>1. /\ run'.pc = "record" /\ run'.todo = run.todo /\ run'.chunked = run.chunked
        /\ run'.reached = run.reached /\ run'.back = run.back /\ source' = source \ {run.file}
    BY <1>1, <1>2 DEF MoveFile, RunState
  <2> QED
    BY <1>2, <2>1 DEF FilesOK, Held, MoveFile, At
<1>3. CASE RecordOutcome
  <2>1. /\ run'.pc = run.back /\ run'.todo = run.todo /\ run'.chunked = run.chunked
        /\ run'.reached = run.reached /\ run'.back = "none" /\ UNCHANGED source
    BY <1>1, <1>3 DEF RecordOutcome, RunState, folders
  <2>2. run.back \in {"none", "failing", "files", "register", "deliver"}
    BY <1>1 DEF RunState, Back
  <2> QED
    BY <2>1, <2>2 DEF FilesOK, Held
<1>4. CASE FailFile \/ RejectFile \/ UploadFails \/ RegisterFails \/ RegisterUnanswered
  <2>1. PICK f \in run.todo \cup run.chunked, k \in {"failing", "files", "register"} :
          run' = InHand(f, "failed", k) /\ (k = "register" => run.todo = {})
    BY <1>4 DEF FailFile, RejectFile, UploadFails, RegisterFails, RegisterUnanswered, FilesOK, At
  <2>2. UNCHANGED source
    BY <1>4 DEF FailFile, RejectFile, UploadFails, RegisterFails, RegisterUnanswered, folders
  <2> QED
    BY <2>1, <2>2, FilesInHand
<1>5. CASE MatchFile
  <2>1. PICK f \in run.todo : run' = [run EXCEPT !.pc = "matched", !.file = f]
    BY <1>5 DEF MatchFile
  <2>2. /\ run'.pc = "matched" /\ run'.file = f /\ run'.todo = run.todo
        /\ run'.chunked = run.chunked /\ run'.reached = run.reached /\ run'.back = run.back
    BY <1>1, <2>1 DEF RunState
  <2> QED
    BY <1>5, <2>2 DEF MatchFile, FilesOK, Held, folders
<1>6. CASE SkipFile
  <2> DEFINE r == InHand(run.file, "uploaded", "files")
             us == r.filled \cup {Match[run.file]}
  <2>1. run' = [r EXCEPT !.filled = us] /\ run.file \in run.todo /\ UNCHANGED source
    BY <1>6 DEF SkipFile, FilesOK, At, folders
  <2>2. run.file \in File
    BY <1>1, <2>1 DEF RunState
  <2>3. /\ r \in RunState /\ r.pc = "move" /\ r.file = run.file /\ r.back = "files"
        /\ r.todo = run.todo \ {run.file} /\ r.chunked = run.chunked \ {run.file}
        /\ r.reached = run.reached
    BY <1>1, <2>2, InHandRun
  <2> HIDE DEF r, us
  <2>4. /\ run'.pc = "move" /\ run'.file = run.file /\ run'.back = "files"
        /\ run'.todo = run.todo \ {run.file} /\ run'.chunked = run.chunked \ {run.file}
        /\ run'.reached = run.reached
    BY <2>1, <2>3 DEF RunState
  <2> QED
    BY <2>1, <2>4 DEF FilesOK, Held
<1>7. CASE UploadFile
  <2>1. /\ run'.pc = "files" /\ run'.todo = run.todo \ {run.file} /\ run'.back = run.back
        /\ run'.chunked = run.chunked \cup {run.file} /\ run'.reached = run.reached
    BY <1>1, <1>7 DEF UploadFile, RunState
  <2>2. run.file \in run.todo /\ UNCHANGED source /\ run.back = "none"
    BY <1>7 DEF UploadFile, FilesOK, Typed, RunOK, Moving, At, folders
  <2> QED
    BY <2>1, <2>2 DEF FilesOK, Held
<1>8. CASE AllSent
  <2>1. /\ run'.pc = "register" /\ run'.todo = run.todo /\ run'.chunked = run.chunked
        /\ run'.reached = run.reached /\ run'.back = run.back /\ run.todo = {} /\ UNCHANGED source
    BY <1>1, <1>8 DEF AllSent, RunState, folders
  <2> QED
    BY <2>1 DEF FilesOK, Held
<1>9. CASE RegisterFile
  <2>1. PICK f \in run.chunked :
          run' = [run EXCEPT !.chunked = @ \ {f}, !.reached = @ \cup {f},
                             !.filled = @ \cup {Match[f]}]
    BY <1>9 DEF RegisterFile
  <2>2. /\ run'.pc = run.pc /\ run'.todo = run.todo /\ run'.chunked = run.chunked \ {f}
        /\ run'.reached = run.reached \cup {f} /\ run'.back = run.back
    BY <1>1, <2>1 DEF RunState
  <2> QED
    BY <1>9, <2>2 DEF RegisterFile, FilesOK, Held, At, folders
<1>10. CASE DeliverFile
  <2>1. PICK f \in run.reached :
          run' = [InHand(f, "uploaded", "deliver") EXCEPT !.reached = @ \ {f}]
    BY <1>10 DEF DeliverFile
  <2> DEFINE r == InHand(f, "uploaded", "deliver")
             fs == r.reached \ {f}
  <2>2. f \in File
    BY <1>1 DEF RunState
  <2>3. /\ r \in RunState /\ r.pc = "move" /\ r.file = f /\ r.back = "deliver"
        /\ r.todo = run.todo \ {f} /\ r.chunked = run.chunked \ {f} /\ r.reached = run.reached
        /\ run' = [r EXCEPT !.reached = fs]
    BY <1>1, <2>1, <2>2, InHandRun
  <2>4. fs = run.reached \ {f}
    BY <2>3
  <2> HIDE DEF r, fs
  <2>5. /\ run'.pc = "move" /\ run'.file = f /\ run'.back = "deliver"
        /\ run'.todo = run.todo \ {f} /\ run'.chunked = run.chunked \ {f}
        /\ run'.reached = run.reached \ {f}
    BY <2>3, <2>4 DEF RunState
  <2> QED
    BY <1>10, <2>5 DEF DeliverFile, FilesOK, Held, folders
<1> QED
  BY <1>2, <1>3, <1>4, <1>5, <1>6, <1>7, <1>8, <1>9, <1>10

(* Every step keeps the files where the run has them. *)
LEMMA FilesStep == Typed /\ FilesOK /\ [Next]_vars => FilesOK'
<1> SUFFICES ASSUME Typed, FilesOK, [Next]_vars PROVE FilesOK'
  OBVIOUS
<1>1. CASE \/ Fault \/ Die
           \/ Holiday \/ NotRunnable \/ SetupFailed \/ NothingUploaded \/ RecordVerdict
           \/ ProceedNoProcess \/ ProceedRefused \/ ProceedConfirms
  <2>1. run' = IdleRun
    BY <1>1 DEF Fault, Die, Holiday, NotRunnable, SetupFailed, NothingUploaded, RecordVerdict,
       ProceedNoProcess, ProceedRefused, ProceedConfirms, Ends
  <2> QED
    BY <2>1, FilesDropped
<1>2. ASSUME NEW b \in Batch, Superseded(b) PROVE FilesOK'
  BY <1>2 DEF Superseded, FilesOK, Held, folders
<1>3. ASSUME NEW b \in Batch, BeginProceed(b) PROVE FilesOK'
  <2>1. /\ run'.todo = {} /\ run'.chunked = {} /\ run'.reached = {}
        /\ run'.back = "none" /\ run'.pc = "proceed"
    BY <1>3 DEF BeginProceed, IdleRun
  <2> QED
    BY <2>1, FilesDropped
<1>4. ASSUME NEW b \in Batch, NEW supplied \in BOOLEAN, BeginUpload(b, supplied) PROVE FilesOK'
  <2>1. /\ run'.todo = Listed[b] \cap source /\ run'.chunked = {} /\ run'.reached = {}
        /\ run'.back = "none" /\ run'.pc \in {"supplied", "find"} /\ UNCHANGED source
    BY <1>4 DEF BeginUpload, IdleRun, folders
  <2> QED
    BY <2>1, FilesDropped
<1>5. CASE Environment \/ UNCHANGED vars
  <2>1. UNCHANGED run /\ source \subseteq source'
    BY <1>5 DEF Environment, Publish, RequestProceed, EngineReserves, CbosAccepts, CbosRefuses,
       vars, folders
  <2> QED
    BY <2>1 DEF FilesOK, Held
<1>6. CASE UploadRun \/ ProceedRun
  BY <1>1, <1>6, FilesQuietSteps, FilesSteps DEF UploadRun, ProceedRun
<1> QED
  BY <1>1, <1>2, <1>3, <1>4, <1>5, <1>6 DEF Next

(* No entry is made while a file of the batch is still to be sent. *)
THEOREM RegistersLast == Spec => RegisterAfterAllSent
<1>1. FilesOK /\ [Next]_vars => [entries' # entries => run.todo = {}]_vars
  BY EntriesStep DEF FilesOK, At
<1>2. Typed /\ [Next]_vars => Typed'
  BY TypedStep
<1>3. Typed /\ FilesOK /\ [Next]_vars => FilesOK'
  BY FilesStep
<1> QED
  BY <1>1, <1>2, <1>3, TypedInit, FilesInit, PTL DEF Spec, RegisterAfterAllSent
-----------------------------------------------------------------------------
(* The slots for which CBOS holds a file, as FileFate sees them. *)
LEMMA FateRegisters ==
  ASSUME Typed, At("register"), NEW f \in run.chunked, CreateEntry(f)
  PROVE  {u \in Slot : \E p \in Pid : Registered(p, u)}'
           = {u \in Slot : \E p \in Pid : Registered(p, u)} \cup {Match[f]}
<1>1. run.pid \in Pid /\ f \in File /\ Match[f] \in Slot
  BY ConstantsAssumption DEF Typed, TypeOK, RunOK, RunState, HasProcess, At
<1>2. entries \in [Pid -> [File -> Nat]]
  BY DEF Typed, TypeOK
<1>3. ASSUME NEW p \in Pid, NEW g \in File
      PROVE  entries'[p][g] > 0 <=> entries[p][g] > 0 \/ (p = run.pid /\ g = f)
  <2>1. entries[p][g] \in Nat
    BY <1>2
  <2>2. CASE p = run.pid /\ g = f
    BY <1>1, <1>2, <2>1, <2>2 DEF CreateEntry
  <2>3. CASE ~(p = run.pid /\ g = f)
    BY <1>1, <1>2, <2>3 DEF CreateEntry
  <2> QED
    BY <2>2, <2>3
<1>4. ASSUME NEW p \in Pid, NEW u \in Slot
      PROVE  Registered(p, u)' <=> Registered(p, u) \/ (p = run.pid /\ u = Match[f])
  BY <1>1, <1>3, <1>4 DEF Registered
<1> QED
  BY <1>1, <1>4

(* Only these steps touch a folder, and only Step 7 makes an entry. *)
LEMMA FateUntouched ==
  ASSUME [Next]_vars
  PROVE  \/ UNCHANGED <<source, uploaded, uploadFailed>>
         \/ MoveFile
         \/ \E b \in Batch : Publish(b)
<1>1. CASE UploadRun
  BY <1>1 DEF UploadRun, TakeSupplied, SuppliedInvalid, Holiday, FindExisting, Reserve,
     SetupAttemptFails, NotRunnable, SkipZeroSteps, RecordOutcome, FailFile,
     SetupFailed, RejectFile, MatchFile, SkipFile, UploadFile, UploadFails, AllSent,
     RegisterFile, RegisterFails, RegisterUnanswered, NothingUploaded, SkipUnfilledOptional,
     Gate, DeliverFile, RecordVerdict, folders
<1>2. CASE ProceedRun
  BY <1>2 DEF ProceedRun, ProceedNoProcess, ProceedRead, ProceedRefused, ProceedMarks,
     ProceedConfirms, folders
<1>3. CASE Environment
  BY <1>3 DEF Environment, RequestProceed, EngineReserves, CbosAccepts, CbosRefuses, folders
<1>4. CASE \E b \in Batch : \/ Superseded(b) \/ BeginProceed(b)
                            \/ \E supplied \in BOOLEAN : BeginUpload(b, supplied)
  BY <1>4 DEF Superseded, BeginProceed, BeginUpload, folders
<1>5. CASE Fault \/ Die \/ UNCHANGED vars
  BY <1>5 DEF Fault, Die, vars, folders
<1> QED
  BY <1>1, <1>2, <1>3, <1>4, <1>5 DEF Next

LEMMA FateInit == Init => Fate!Init
<1> SUFFICES ASSUME Init PROVE Fate!Init
  OBVIOUS
<1>1. ~\E p \in Pid, f \in File : entries[p][f] > 0
  BY DEF Init
<1> QED
  BY <1>1 DEF Init, Fate!Init, Registered

(* Every step of the lane is a step of FileFate, or changes none of the      *)
(* folders and registers nothing.                                            *)
LEMMA FateStep ==
  ASSUME Typed, Evidence, FilesOK, [Next]_vars
  PROVE  [Fate!Next]_(Fate!vars)
<1>1. CASE ~UNCHANGED entries
  <2>1. At("register") /\ UNCHANGED <<source, uploaded, uploadFailed>>
    BY <1>1, EntriesStep, FateUntouched DEF MoveFile, Publish, At, cbos
  <2>2. PICK f \in run.chunked : CreateEntry(f)
    BY <1>1, EntriesStep
  <2>3. f \in File /\ f \in source
    BY DEF Typed, TypeOK, RunState, FilesOK, Held
  <2>4. Fate!Register(f)
    BY <2>1, <2>2, <2>3, FateRegisters DEF Fate!Register
  <2> QED
    BY <2>3, <2>4 DEF Fate!Next
<1>2. CASE UNCHANGED entries /\ UNCHANGED <<source, uploaded, uploadFailed>>
  BY <1>2 DEF Fate!vars, Registered
<1>3. CASE UNCHANGED entries /\ MoveFile
  <2>1. run.file \in File /\ run.file \in source /\ Match[run.file] \in Slot
    BY <1>3, ConstantsAssumption DEF MoveFile, At, Typed, RunOK, Moving, FilesOK
  <2>2. CASE run.outcome = "uploaded"
    <3>1. \E p \in Pid : Registered(p, Match[run.file])
      BY <2>1, <2>2 DEF Evidence, Known, Typed, TypeOK
    <3>2. Fate!Upload(run.file)
      BY <1>3, <2>1, <2>2, <3>1 DEF MoveFile, Fate!Upload, Registered
    <3> QED
      BY <2>1, <3>2 DEF Fate!Next
  <2>3. CASE run.outcome # "uploaded"
    <3>1. Fate!Return(run.file)
      BY <1>3, <2>1, <2>3 DEF MoveFile, Fate!Return, Registered
    <3> QED
      BY <2>1, <3>1 DEF Fate!Next
  <2> QED
    BY <2>2, <2>3
<1>4. ASSUME NEW b \in Batch, Publish(b) PROVE Fate!Next
  <2>1. Listed[b] \in SUBSET File
    BY ConstantsAssumption
  <2>2. Fate!Arrive
    BY <1>4, <2>1 DEF Publish, Fate!Arrive, Registered, cbos
  <2> QED
    BY <2>2 DEF Fate!Next
<1> QED
  BY <1>1, <1>2, <1>3, <1>4, FateUntouched

(* To the outside, every run of the lane is a run of FileFate: a file leaves *)
(* the source folder for uploaded/ once something is registered for its      *)
(* UploadID, or for uploadFailed/, and nothing is registered for a file that *)
(* is not in the source folder.                                              *)
THEOREM FileFateImplemented == Spec => ImplementsFileFate
<1>1. Typed /\ Evidence /\ FilesOK /\ [Next]_vars => [Fate!Next]_(Fate!vars)
  BY FateStep
<1>2. Typed /\ Evidence /\ FilesOK /\ [Next]_vars => (Typed /\ Evidence /\ FilesOK)'
  BY TypedStep, EvidenceStep, FilesStep
<1> QED
  BY <1>1, <1>2, TypedInit, EvidenceInit, FilesInit, FateInit, PTL
  DEF Spec, Fate!Spec, ImplementsFileFate
-----------------------------------------------------------------------------
(* A file of the run's batch with its outcome recorded. *)
SettledHere(f) ==
  /\ \E r \in audit : r.batch = run.batch /\ r.file = f /\ r.status # "pending"
  /\ Open(f) = {}

(* What a run took up and no longer holds is settled, or in hand; and which  *)
(* lists can still hold files where the run stands.                          *)
OutcomesOK == \A f \in run.files \ Held : (Moving /\ run.file = f) \/ SettledHere(f)

Early == run.pc \in {"supplied", "find", "reserve", "setup", "failing"} \/ run.back = "failing"
Late == run.pc \in {"gate", "deliver"} \/ run.back = "deliver"
Proceeding == run.pc \in {"proceed", "approve", "proceeded"}

ListsOK ==
  /\ Early => run.chunked = {} /\ run.reached = {}
  /\ Late => run.todo = {} /\ run.chunked = {}
  /\ Proceeding => run.files = {}

(* No run, nothing to settle. *)
LEMMA OutcomesInit == Init => OutcomesOK /\ ListsOK
  BY DEF Init, OutcomesOK, ListsOK, Early, Late, Proceeding, IdleRun

(* A settled file stays settled unless a row is opened for it. *)
LEMMA SettledStays ==
  ASSUME NEW f, SettledHere(f), run'.batch = run.batch,
         \A r \in audit : r.status # "pending" => r \in audit',
         \A r \in audit' : r.file = f /\ r.status = "pending" => r \in audit
  PROVE  SettledHere(f)'
  BY DEF SettledHere, Open

(* A step that lets go of no file keeps the outcomes. *)
LEMMA OutcomesKept ==
  ASSUME OutcomesOK, UNCHANGED audit, run'.files = run.files, run'.batch = run.batch,
         Held \subseteq Held', Moving => Moving' /\ run'.file = run.file
  PROVE  OutcomesOK'
  BY SettledStays DEF OutcomesOK

(* Nor is the outcome of a file lost that goes in hand. *)
LEMMA OutcomesInHand ==
  ASSUME Typed, OutcomesOK, UNCHANGED audit, ~Moving, NEW f,
         run'.files = run.files, run'.batch = run.batch,
         Held \ {f} \subseteq Held', run'.pc = "move", run'.file = f
  PROVE  OutcomesOK'
<1>1. ASSUME NEW g \in run'.files \ Held' PROVE (Moving /\ run.file = g)' \/ SettledHere(g)'
  BY <1>1, SettledStays DEF OutcomesOK, Moving
<1> QED
  BY <1>1 DEF OutcomesOK

(* The steps of a run that keep its lists, its files and the audit table. *)
LEMMA OutcomesQuietSteps ==
  ASSUME Typed, FilesOK, OutcomesOK, ListsOK,
         \/ TakeSupplied \/ SuppliedInvalid \/ FindExisting \/ Reserve \/ SetupAttemptFails
         \/ SkipZeroSteps \/ AllSent \/ SkipUnfilledOptional \/ Gate
         \/ ProceedRead \/ ProceedMarks
  PROVE  OutcomesOK' /\ ListsOK'
<1>1. run \in RunState /\ ~Moving /\ run.back = "none" /\ UNCHANGED audit
  BY DEF Typed, TypeOK, RunOK, Moving, At, TakeSupplied, SuppliedInvalid, FindExisting, Reserve,
     SetupAttemptFails, SkipZeroSteps, AllSent, SkipUnfilledOptional, Gate, ProceedRead,
     ProceedMarks
<1> DEFINE Same == /\ run'.todo = run.todo /\ run'.chunked = run.chunked
                   /\ run'.reached = run.reached /\ run'.back = run.back
                   /\ run'.files = run.files /\ run'.batch = run.batch
<1>2. Same /\ ListsOK'
  <2>1. CASE TakeSupplied
    <3>1. Same /\ run.pc = "supplied" /\ run'.pc = "setup"
      BY <1>1, <2>1 DEF TakeSupplied, At, RunState
    <3> QED
      BY <1>1, <3>1 DEF ListsOK, Early, Late, Proceeding
  <2>2. CASE FindExisting
    <3>1. Same /\ run.pc = "find" /\ run'.pc = "reserve"
      BY <1>1, <2>2 DEF FindExisting, At, RunState
    <3> QED
      BY <1>1, <3>1 DEF ListsOK, Early, Late, Proceeding
  <2>3. CASE Reserve
    <3>1. Same /\ run.pc = "reserve" /\ run'.pc = "setup"
      BY <1>1, <2>3 DEF Reserve, At, RunState
    <3> QED
      BY <1>1, <3>1 DEF ListsOK, Early, Late, Proceeding
  <2>4. CASE SetupAttemptFails
    <3>1. Same /\ run.pc = "reserve" /\ run'.pc \in {"reserve", "failing"}
      BY <1>1, <2>4 DEF SetupAttemptFails, At, RunState
    <3> QED
      BY <1>1, <3>1 DEF ListsOK, Early, Late, Proceeding
  <2>5. CASE Gate
    <3>1. Same /\ run.pc = "gate" /\ run'.pc = "deliver"
      BY <1>1, <2>5 DEF Gate, At, RunState
    <3> QED
      BY <1>1, <3>1 DEF ListsOK, Early, Late, Proceeding
  <2>6. CASE ProceedRead
    <3>1. Same /\ run.pc = "proceed" /\ run'.pc = "approve"
      BY <1>1, <2>6 DEF ProceedRead, At, RunState
    <3> QED
      BY <1>1, <3>1 DEF ListsOK, Early, Late, Proceeding
  <2>7. CASE SuppliedInvalid \/ SkipZeroSteps \/ AllSent \/ ProceedMarks
    <3>1. /\ Same
          /\ \/ run.pc = "supplied" /\ run'.pc = "failing"
             \/ run'.pc \in {"files", "register"}
             \/ run.pc = "approve" /\ run'.pc = "proceeded"
      BY <1>1, <2>7 DEF SuppliedInvalid, SkipZeroSteps, AllSent, ProceedMarks, At, RunState
    <3> QED
      BY <1>1, <3>1 DEF ListsOK, Early, Late, Proceeding
  <2>8. CASE SkipUnfilledOptional
    <3>1. Same /\ run'.pc = "gate" /\ run.todo = {} /\ run.chunked = {}
      BY <1>1, <2>8 DEF SkipUnfilledOptional, At, RunState, FilesOK
    <3> QED
      BY <1>1, <3>1 DEF ListsOK, Early, Late, Proceeding
  <2> QED
    BY <2>1, <2>2, <2>3, <2>4, <2>5, <2>6, <2>7, <2>8
<1>3. OutcomesOK'
  BY <1>1, <1>2, OutcomesKept DEF Held
<1> QED
  BY <1>2, <1>3

(* The steps of a run that work on a file. *)
LEMMA OutcomesSteps ==
  ASSUME Typed, FilesOK, OutcomesOK, ListsOK,
         \/ MoveFile \/ RecordOutcome \/ FailFile \/ RejectFile \/ MatchFile \/ SkipFile
         \/ UploadFile \/ UploadFails \/ RegisterFile \/ RegisterFails
         \/ RegisterUnanswered \/ DeliverFile
  PROVE  OutcomesOK' /\ ListsOK'
<1>1. run \in RunState
  BY DEF Typed, TypeOK
<1>2. CASE MoveFile
  <2>1. /\ run'.pc = "record" /\ run'.todo = run.todo /\ run'.chunked = run.chunked
        /\ run'.reached = run.reached /\ run'.back = run.back /\ run'.file = run.file
        /\ run'.files = run.files /\ run'.batch = run.batch /\ UNCHANGED audit
    BY <1>1, <1>2 DEF MoveFile, RunState
  <2>2. ListsOK'
    BY <2>1 DEF ListsOK, Early, Late, Proceeding
  <2> QED
    BY <2>1, <2>2, OutcomesKept DEF Held, Moving
<1>3. CASE RecordOutcome
  <2>1. /\ run'.pc = run.back /\ run'.todo = run.todo /\ run'.chunked = run.chunked
        /\ run'.reached = run.reached /\ run'.back = "none"
        /\ run'.files = run.files /\ run'.batch = run.batch
    BY <1>1, <1>3 DEF RecordOutcome, RunState
  <2>2. /\ run.back \in {"failing", "files", "register", "deliver"}
        /\ run.outcome # "pending" /\ Row(run.outcome).file = run.file
        /\ Row(run.outcome).batch = run.batch /\ Row(run.outcome).status = run.outcome
    BY <1>1, <1>3 DEF RecordOutcome, At, Typed, RunOK, Moving, RunState, Back, Outcome, Row
  <2>3. ListsOK'
    BY <2>1, <2>2 DEF ListsOK, Early, Late, Proceeding
  <2>4. audit' = (audit \ Open(run.file)) \cup {Row(run.outcome)}
    BY <1>3 DEF RecordOutcome
  <2>5. /\ \A r \in audit : r.status # "pending" => r \in audit'
        /\ \A r \in audit' : r.status = "pending" => r \in audit /\ r.file # run.file
    BY <2>2, <2>4 DEF Open
  <2>6. ASSUME NEW f, f = run.file PROVE SettledHere(f)'
    <3>1. \E r \in audit' : r.batch = run'.batch /\ r.file = f /\ r.status # "pending"
      BY <2>1, <2>2, <2>4, <2>6
    <3>2. ~\E r \in audit' : r.file = f /\ r.status = "pending"
      BY <2>5, <2>6
    <3> QED
      BY <3>1, <3>2 DEF SettledHere, Open
  <2>7. \A f \in run'.files \ Held' : SettledHere(f)'
    <3> SUFFICES ASSUME NEW f \in run'.files \ Held' PROVE SettledHere(f)'
      OBVIOUS
    <3>1. CASE f = run.file
      BY <2>6, <3>1
    <3>2. CASE f # run.file
      BY <2>1, <2>5, <3>2, SettledStays DEF OutcomesOK, Held
    <3> QED
      BY <3>1, <3>2
  <2> QED
    BY <2>3, <2>7 DEF OutcomesOK
<1>4. CASE FailFile \/ RejectFile \/ UploadFails \/ RegisterFails \/ RegisterUnanswered
  <2>1. PICK f \in File, k \in {"failing", "files", "register"} :
          run' = InHand(f, "failed", k) /\ (k = "failing" => run.pc = "failing")
    BY <1>1, <1>4 DEF FailFile, RejectFile, UploadFails, RegisterFails, RegisterUnanswered,
       Typed, RunOK, RunState, At
  <2>2. /\ run'.pc = "move" /\ run'.file = f /\ run'.back = k
        /\ run'.todo = run.todo \ {f} /\ run'.chunked = run.chunked \ {f}
        /\ run'.reached = run.reached /\ run'.files = run.files /\ run'.batch = run.batch
    BY <1>1, <2>1, InHandRun
  <2>3. ~Moving /\ UNCHANGED audit
    BY <1>4 DEF FailFile, RejectFile, UploadFails, RegisterFails, RegisterUnanswered, Moving, At
  <2>4. ListsOK'
    BY <2>1, <2>2 DEF ListsOK, Early, Late, Proceeding
  <2> QED
    BY <2>2, <2>3, <2>4, OutcomesInHand DEF Held
<1>5. CASE MatchFile
  <2>1. PICK g \in run.todo :
          /\ run' = [run EXCEPT !.pc = "matched", !.file = g]
          /\ audit' = (audit \ Open(g)) \cup {[batch |-> run.batch, file |-> g, status |-> "pending"]}
    BY <1>5 DEF MatchFile
  <2>2. /\ run'.pc = "matched" /\ run'.todo = run.todo /\ run'.chunked = run.chunked
        /\ run'.reached = run.reached /\ run'.back = run.back
        /\ run'.files = run.files /\ run'.batch = run.batch
    BY <1>1, <2>1 DEF RunState
  <2>3. ListsOK' /\ ~Moving
    BY <1>5, <2>2 DEF ListsOK, Early, Late, Proceeding, MatchFile, At, Moving, Typed, RunOK
  <2>4. \A r \in audit : r.status # "pending" => r \in audit'
    BY <2>1 DEF Open
  <2>5. \A r \in audit' : r \in audit \/ r.file = g
    BY <2>1
  <2>6. \A f \in run'.files \ Held' : SettledHere(f)'
    <3> SUFFICES ASSUME NEW f \in run'.files \ Held' PROVE SettledHere(f)'
      OBVIOUS
    <3>1. SettledHere(f) /\ f # g
      BY <2>2, <2>3 DEF OutcomesOK, Held
    <3> QED
      BY <2>2, <2>4, <2>5, <3>1, SettledStays
  <2> QED
    BY <2>3, <2>6 DEF OutcomesOK
<1>6. CASE SkipFile
  <2> DEFINE r == InHand(run.file, "uploaded", "files")
             us == r.filled \cup {Match[run.file]}
  <2>1. run' = [r EXCEPT !.filled = us] /\ run.file \in File /\ UNCHANGED audit /\ ~Moving
    BY <1>6 DEF SkipFile, Typed, RunOK, At, Moving
  <2>2. /\ r \in RunState /\ r.pc = "move" /\ r.file = run.file /\ r.back = "files"
        /\ r.todo = run.todo \ {run.file} /\ r.chunked = run.chunked \ {run.file}
        /\ r.reached = run.reached /\ r.files = run.files /\ r.batch = run.batch
    BY <1>1, <2>1, InHandRun
  <2> HIDE DEF r, us
  <2>3. /\ run'.pc = "move" /\ run'.file = run.file /\ run'.back = "files"
        /\ run'.todo = run.todo \ {run.file} /\ run'.chunked = run.chunked \ {run.file}
        /\ run'.reached = run.reached /\ run'.files = run.files /\ run'.batch = run.batch
    BY <2>1, <2>2 DEF RunState
  <2>4. ListsOK'
    BY <2>3 DEF ListsOK, Early, Late, Proceeding
  <2> QED
    BY <2>1, <2>3, <2>4, OutcomesInHand DEF Held
<1>7. CASE UploadFile
  <2>1. /\ run'.pc = "files" /\ run'.todo = run.todo \ {run.file} /\ run'.back = run.back
        /\ run'.chunked = run.chunked \cup {run.file} /\ run'.reached = run.reached
        /\ run'.files = run.files /\ run'.batch = run.batch
    BY <1>1, <1>7 DEF UploadFile, RunState
  <2>2. UNCHANGED audit /\ run.back = "none" /\ ~Moving
    BY <1>7 DEF UploadFile, Typed, RunOK, Moving, At
  <2>3. ListsOK'
    BY <2>1, <2>2 DEF ListsOK, Early, Late, Proceeding
  <2> QED
    BY <2>1, <2>2, <2>3, OutcomesKept DEF Held
<1>8. CASE RegisterFile
  <2>1. PICK f \in run.chunked :
          run' = [run EXCEPT !.chunked = @ \ {f}, !.reached = @ \cup {f},
                             !.filled = @ \cup {Match[f]}]
    BY <1>8 DEF RegisterFile
  <2>2. /\ run'.pc = run.pc /\ run'.todo = run.todo /\ run'.chunked = run.chunked \ {f}
        /\ run'.reached = run.reached \cup {f} /\ run'.back = run.back
        /\ run'.files = run.files /\ run'.batch = run.batch
    BY <1>1, <2>1 DEF RunState
  <2>3. UNCHANGED audit /\ run.pc = "register" /\ run.back = "none" /\ ~Moving
    BY <1>8 DEF RegisterFile, Typed, RunOK, Moving, At
  <2>4. ListsOK'
    BY <2>2, <2>3 DEF ListsOK, Early, Late, Proceeding
  <2> QED
    BY <2>2, <2>3, <2>4, OutcomesKept DEF Held
<1>9. CASE DeliverFile
  <2>1. PICK f \in run.reached :
          run' = [InHand(f, "uploaded", "deliver") EXCEPT !.reached = @ \ {f}]
    BY <1>9 DEF DeliverFile
  <2> DEFINE r == InHand(f, "uploaded", "deliver")
             fs == r.reached \ {f}
  <2>2. f \in File
    BY <1>1 DEF RunState
  <2>3. /\ r \in RunState /\ r.pc = "move" /\ r.file = f /\ r.back = "deliver"
        /\ r.todo = run.todo \ {f} /\ r.chunked = run.chunked \ {f} /\ r.reached = run.reached
        /\ r.files = run.files /\ r.batch = run.batch /\ run' = [r EXCEPT !.reached = fs]
    BY <1>1, <2>1, <2>2, InHandRun
  <2>4. fs = run.reached \ {f}
    BY <2>3
  <2> HIDE DEF r, fs
  <2>5. /\ run'.pc = "move" /\ run'.file = f /\ run'.back = "deliver"
        /\ run'.todo = run.todo \ {f} /\ run'.chunked = run.chunked \ {f}
        /\ run'.reached = run.reached \ {f} /\ run'.files = run.files /\ run'.batch = run.batch
    BY <2>3, <2>4 DEF RunState
  <2>6. ListsOK' /\ ~Moving /\ UNCHANGED audit
    BY <1>9, <2>5 DEF ListsOK, Early, Late, Proceeding, DeliverFile, At, Moving
  <2> QED
    BY <2>5, <2>6, OutcomesInHand DEF Held
<1> QED
  BY <1>2, <1>3, <1>4, <1>5, <1>6, <1>7, <1>8, <1>9

(* Every step keeps the outcomes. *)
LEMMA OutcomesStep ==
  Typed /\ FilesOK /\ OutcomesOK /\ ListsOK /\ [Next]_vars => OutcomesOK' /\ ListsOK'
<1> SUFFICES ASSUME Typed, FilesOK, OutcomesOK, ListsOK, [Next]_vars
             PROVE  OutcomesOK' /\ ListsOK'
  OBVIOUS
<1>1. CASE \/ Fault \/ Die
           \/ Holiday \/ NotRunnable \/ SetupFailed \/ NothingUploaded \/ RecordVerdict
           \/ ProceedNoProcess \/ ProceedRefused \/ ProceedConfirms
  <2>1. run' = IdleRun
    BY <1>1 DEF Fault, Die, Holiday, NotRunnable, SetupFailed, NothingUploaded, RecordVerdict,
       ProceedNoProcess, ProceedRefused, ProceedConfirms, Ends
  <2> QED
    BY <2>1 DEF OutcomesOK, ListsOK, Early, Late, Proceeding, IdleRun
<1>2. ASSUME NEW b \in Batch, BeginProceed(b) PROVE OutcomesOK' /\ ListsOK'
  <2>1. /\ run'.files = {} /\ run'.todo = {} /\ run'.chunked = {} /\ run'.reached = {}
        /\ run'.pc = "proceed" /\ run'.back = "none"
    BY <1>2 DEF BeginProceed, IdleRun
  <2> QED
    BY <2>1 DEF OutcomesOK, ListsOK, Early, Late, Proceeding
<1>3. ASSUME NEW b \in Batch, NEW supplied \in BOOLEAN, BeginUpload(b, supplied)
      PROVE  OutcomesOK' /\ ListsOK'
  <2>1. /\ run'.files = run'.todo /\ run'.chunked = {} /\ run'.reached = {}
        /\ run'.pc \in {"supplied", "find"} /\ run'.back = "none"
    BY <1>3 DEF BeginUpload, IdleRun
  <2> QED
    BY <2>1 DEF OutcomesOK, ListsOK, Early, Late, Proceeding, Held
<1>4. CASE \/ Environment \/ UNCHANGED vars
           \/ \E b \in Batch : Superseded(b)
  <2>1. UNCHANGED <<run, audit>>
    BY <1>4 DEF Environment, Publish, RequestProceed, EngineReserves, CbosAccepts, CbosRefuses,
       Superseded, vars
  <2> QED
    BY <2>1 DEF OutcomesOK, ListsOK, Early, Late, Proceeding, Held, Moving, SettledHere, Open
<1>5. CASE UploadRun \/ ProceedRun
  BY <1>1, <1>5, OutcomesQuietSteps, OutcomesSteps DEF UploadRun, ProceedRun
<1> QED
  BY <1>1, <1>2, <1>3, <1>4, <1>5 DEF Next

(* Every other step of a run leaves it in hand. *)
LEMMA RunGoesOn ==
  ASSUME Typed,
         \/ TakeSupplied \/ SuppliedInvalid \/ FindExisting \/ Reserve \/ SetupAttemptFails
         \/ SkipZeroSteps \/ AllSent \/ SkipUnfilledOptional \/ Gate
         \/ ProceedRead \/ ProceedMarks
         \/ MoveFile \/ RecordOutcome \/ FailFile \/ RejectFile \/ MatchFile \/ SkipFile
         \/ UploadFile \/ UploadFails \/ RegisterFile \/ RegisterFails
         \/ RegisterUnanswered \/ DeliverFile
  PROVE  run'.pc # "idle"
<1>1. run \in RunState
  BY DEF Typed, TypeOK
<1>2. CASE \/ FailFile \/ RejectFile \/ UploadFails \/ RegisterFails \/ RegisterUnanswered
           \/ SkipFile \/ DeliverFile
  BY <1>1, <1>2 DEF FailFile, RejectFile, UploadFails, RegisterFails, RegisterUnanswered,
     SkipFile, DeliverFile, InHand, RunState
<1>3. CASE TakeSupplied \/ FindExisting \/ Reserve \/ SetupAttemptFails \/ Gate \/ ProceedRead
  BY <1>1, <1>3 DEF TakeSupplied, FindExisting, Reserve, SetupAttemptFails, Gate, ProceedRead,
     RunState, At
<1>4. CASE \/ SuppliedInvalid \/ SkipZeroSteps \/ AllSent \/ SkipUnfilledOptional
           \/ ProceedMarks \/ MoveFile \/ MatchFile \/ UploadFile \/ RegisterFile
  BY <1>1, <1>4 DEF SuppliedInvalid, SkipZeroSteps, AllSent, SkipUnfilledOptional, ProceedMarks,
     MoveFile, MatchFile, UploadFile, RegisterFile, RunState, At
<1>5. CASE RecordOutcome
  <2>1. run'.pc = run.back
    BY <1>1, <1>5 DEF RecordOutcome, RunState
  <2> QED
    BY <1>1, <2>1 DEF RunState, Back
<1> QED
  BY <1>2, <1>3, <1>4, <1>5

(* The only steps that end a run with a verdict of its own. *)
LEMMA Conclusions ==
  ASSUME Typed, [Next]_vars, Concludes, row'[run.batch] # "queued"
  PROVE  \/ SetupFailed \/ NothingUploaded \/ RecordVerdict
         \/ ProceedNoProcess \/ ProceedRefused \/ ProceedConfirms
<1>1. /\ run.pc # "idle" /\ run'.pc = "idle" /\ aborts' = aborts /\ aborts \in Nat
      /\ run.batch \in Batch /\ row \in [Batch -> Status \cup {"none"}]
  BY DEF Concludes, At, Typed, TypeOK, RunOK
<1>2. ~Holiday /\ ~NotRunnable
  BY <1>1 DEF Holiday, NotRunnable, Ends, SetBatchStatus
<1>3. ~Fault /\ ~Die
  BY <1>1 DEF Fault, Die
<1>4. ~\E b \in Batch : \/ Superseded(b) \/ BeginProceed(b)
                        \/ \E supplied \in BOOLEAN : BeginUpload(b, supplied)
  BY <1>1 DEF Superseded, BeginProceed, BeginUpload, At
<1>5. ~Environment /\ ~UNCHANGED vars
  BY <1>1 DEF Environment, Publish, RequestProceed, EngineReserves, CbosAccepts, CbosRefuses, vars
<1> QED
  BY <1>1, <1>2, <1>3, <1>4, <1>5, RunGoesOn DEF Next, UploadRun, ProceedRun

(* A run that ends with its own verdict has settled every file it took up:   *)
(* each has a row of this batch with its outcome, and none an open one.      *)
THEOREM EveryFileSettled == Spec => OutcomeForEveryFile
<1>1. ASSUME Typed, FilesOK, OutcomesOK, ListsOK, [Next]_vars
      PROVE  Concludes /\ row'[run.batch] # "queued" => \A f \in run.files : SettledHere(f)
  <2> SUFFICES ASSUME Concludes, row'[run.batch] # "queued", NEW f \in run.files
               PROVE  SettledHere(f)
    OBVIOUS
  <2>1. CASE SetupFailed \/ NothingUploaded \/ RecordVerdict
    <3>1. ~Moving /\ Held = {}
      BY <1>1, <2>1
      DEF SetupFailed, NothingUploaded, RecordVerdict, At, Moving, ListsOK, Early, Late,
         FilesOK, Held
    <3> QED
      BY <3>1, <1>1 DEF OutcomesOK
  <2>2. CASE ProceedNoProcess \/ ProceedRefused \/ ProceedConfirms
    BY <1>1, <2>2 DEF ProceedNoProcess, ProceedRefused, ProceedConfirms, At, ListsOK, Proceeding
  <2> QED
    BY <1>1, <2>1, <2>2, Conclusions
<1>2. Typed /\ FilesOK /\ OutcomesOK /\ ListsOK /\ [Next]_vars
        => [Concludes /\ row'[run.batch] # "queued" =>
              \A f \in run.files :
                /\ \E r \in audit : r.batch = run.batch /\ r.file = f /\ r.status # "pending"
                /\ Open(f) = {}]_vars
  BY <1>1 DEF SettledHere
<1>3. Typed /\ [Next]_vars => Typed'
  BY TypedStep
<1>4. Typed /\ FilesOK /\ [Next]_vars => FilesOK'
  BY FilesStep
<1>5. Typed /\ FilesOK /\ OutcomesOK /\ ListsOK /\ [Next]_vars => OutcomesOK' /\ ListsOK'
  BY OutcomesStep
<1> QED
  BY <1>2, <1>3, <1>4, <1>5, TypedInit, FilesInit, OutcomesInit, PTL
  DEF Spec, OutcomeForEveryFile
=============================================================================
