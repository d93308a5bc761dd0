------------------------------ MODULE FileRouting ------------------------------
(* Where a file is sent and under which name, in the two lanes that decide   *)
(* it: the batch, which fetches the rule of every slot and matches the file  *)
(* against all of them (process_batch, fetch_upload_rules, match_file,       *)
(* resolve_upload_name), and the post-trade request, which names its         *)
(* UploadID and is asked again by the billing engine until it is settled     *)
(* (post_trade_upload_service.upload_one). A behaviour follows one of them.  *)
EXTENDS UploadMatching

CONSTANTS Table,     \* Table2 as the batch may find it: slots [id, row, answer]
          File,      \* the files of a batch: [stem, ext, exchange, widths]
          PostSlot,  \* the UploadIDs a post-trade request may name
          PostFile,  \* and the files it may name
          Caller,    \* callers of POST /post-trade/uploads
          Configured,\* upload_match_delimiter
          MaxFault   \* calls to CBOS that fail or whose answer is lost

Slot == PostSlot \cup UNION {ToSet(t) : t \in Table}
Text == Seq(DOMAIN Lower)

(* Step 4 and Step 40 answer by UploadID, in texts, and with dates of this   *)
(* century; a file's columns are counted under the configured delimiter.     *)
ASSUME RoutingAssumption ==
  /\ Table \subseteq Seq(Slot)
  /\ \A t \in Table : \A i, j \in DOMAIN t : t[i].id = t[j].id => t[i] = t[j]
  /\ \A s \in Slot :
       /\ s.row # None => s.row.named \in Seq([text : Text, operator : STRING]) /\ s.row.plain \in Text
       /\ s.answer.pattern \in Text /\ s.answer.last \in Text
       /\ Len(s.answer.last) = 3 /\ IsDate(s.answer.last) => Digit[s.answer.last[2]] = 2
  /\ \A f \in File \cup PostFile :
       /\ f.stem \in Text /\ f.ext \in Text
       /\ f.widths # None => Configured \in DOMAIN f.widths
  /\ {".", "_"} \subseteq DOMAIN Lower
  /\ Digit \in [DOMAIN Digit -> Nat]
  /\ {Days, MaxLateStampDays, MaxFault} \subseteq Nat

VARIABLES
  ask,       \* what is asked: the lane, the file, its slots and the request's options
  rules,     \* batch: the rules fetched, None before
  routed,    \* batch: match_file's result and the name sent, None before
  place,     \* post-trade: where the file lies (external: the download bot)
  request,   \* post-trade: each caller's request
  faults

vars == <<ask, rules, routed, place, request, faults>>
posts == <<place, request>>
batch == <<rules, routed>>

Idle == [pc |-> "idle", path |-> "none", rule |-> None, declared |-> <<>>, answer |-> "none"]

Ask ==
  [lane : {"batch"}, file : File, table : Table,
   segment : {TRUE}, folder : {FALSE}, translate : {FALSE}]
  \cup
  [lane : {"post-trade"}, file : PostFile, table : {<<s>> : s \in PostSlot},
   segment : BOOLEAN, folder : BOOLEAN, translate : BOOLEAN]

Init ==
  /\ ask \in Ask
  /\ rules = None /\ routed = None
  /\ place = "absent"
  /\ request = [c \in Caller |-> Idle]
  /\ faults = 0
-----------------------------------------------------------------------------
(* The batch.                                                                *)

(* Step 4 for every slot, and Step 40 for those without a pattern; a failed  *)
(* Step 40 only costs its slot the fallback.                                 *)
Fetch(missed) ==
  /\ ask.lane = "batch" /\ rules = None
  /\ faults + Cardinality(missed) <= MaxFault
  /\ faults' = faults + Cardinality(missed)
  /\ rules' = FetchUploadRules(ask.table,
       [id \in {s.id : s \in ToSet(ask.table)} |->
          IF id \in missed THEN Failed
          ELSE (CHOOSE s \in ToSet(ask.table) : s.id = id).answer])
  /\ UNCHANGED <<ask, routed, posts>>

(* One file: its UploadID, then the name CBOS is told (again Step 40).       *)
Route(missed) ==
  /\ ask.lane = "batch" /\ rules # None /\ routed = None
  /\ missed => faults < MaxFault
  /\ faults' = IF missed THEN faults + 1 ELSE faults
  /\ LET result == MatchFile(ask.file, rules)
         slot == CHOOSE s \in ToSet(ask.table) : s.id = result.id
         answer == IF missed THEN Failed ELSE slot.answer
     IN routed' = [id |-> result.id, why |-> result.why,
                   sent |-> IF result.why # "matched" THEN FullName(ask.file)
                            ELSE ResolveUploadName(FullName(ask.file), answer)]
  /\ UNCHANGED <<ask, rules, posts>>
-----------------------------------------------------------------------------
(* The post-trade request.                                                   *)
At(c, pc) == request[c].pc = pc
Go(c, pc) == request' = [request EXCEPT ![c].pc = pc]
Found(c, where) == request' = [request EXCEPT ![c].pc = "rule", ![c].path = where]
Answer(c, code) == request' = [request EXCEPT ![c] = [Idle EXCEPT !.answer = code]]
Fault == faults < MaxFault /\ faults' = faults + 1

(* The caller waits and asks again on 404, 500 and 502; 200 and 422 settle.  *)
Post(c) ==
  /\ ask.lane = "post-trade"
  /\ At(c, "idle") /\ request[c].answer \notin {"200", "422"}
  /\ request' = [request EXCEPT ![c] = [Idle EXCEPT !.pc = IF ask.folder THEN "folder" ELSE "root"]]
  /\ UNCHANGED <<ask, batch, place, faults>>

(* Faulty: no second place. *)
LocateOnlyInFolder(c) ==
  /\ At(c, "folder")
  /\ IF place = "folder" THEN Found(c, "folder") ELSE Answer(c, "404")
  /\ UNCHANGED <<ask, batch, place, faults>>

LocateInFolder(c) ==
  /\ At(c, "folder")
  /\ IF place = "folder" THEN Found(c, "folder") ELSE Go(c, "root")
  /\ UNCHANGED <<ask, batch, place, faults>>

LocateInRoot(c) ==
  /\ At(c, "root")
  /\ IF place = "root" THEN Found(c, "root") ELSE Answer(c, "404")
  /\ UNCHANGED <<ask, batch, place, faults>>

TheSlot == ask.table[1]
RuleFor(answer) == UploadSettings(TheSlot.id, TheSlot.row, ask.segment, answer)

Declare(c, rule, name) ==
  request' = [request EXCEPT ![c].pc = "send", ![c].rule = rule, ![c].declared = name]

(* Faulty: the UploadID the caller names is not checked against the file. *)
JudgeUnchecked(c, rule) ==
  IF rule = None THEN Answer(c, "422")
  ELSE Declare(c, rule, FullName(ask.file))

(* _rule_for, and the name check that only translate_name may overrule.      *)
Judge(c, rule) ==
  LET name == FullName(ask.file)
      declared == IF ask.translate THEN NameCbosWillAccept(rule, name) ELSE name
  IN IF rule = None THEN Answer(c, "422")
     ELSE IF ~MatchesRule(rule, name) /\ ~ask.translate THEN Answer(c, "422")
     ELSE Declare(c, rule, declared)

GetRule(c) ==
  /\ At(c, "rule")
  /\ \/ Judge(c, RuleFor(TheSlot.answer)) /\ UNCHANGED faults
     \/ Judge(c, RuleFor(Failed)) /\ Fault     \* Step 40 failed, which is only logged
     \/ Answer(c, "502") /\ Fault   \* Step 4 failed, or Step 40's answer does not decode
  /\ UNCHANGED <<ask, batch, place>>

(* Step 5. A file filed away since it was located is an error nobody catches.*)
Send(c) ==
  /\ At(c, "send")
  /\ IF request[c].path # place
     THEN Answer(c, "500") /\ UNCHANGED faults
     ELSE \/ Go(c, "register") /\ UNCHANGED faults
          \/ Answer(c, "502") /\ Fault
  /\ UNCHANGED <<ask, batch, place>>

(* Step 41, of which nothing is kept: asked again, it is done again.         *)
Register(c) ==
  /\ At(c, "register")
  /\ \/ Answer(c, "200") /\ UNCHANGED faults
     \/ Answer(c, "502") /\ Fault
  /\ UNCHANGED <<ask, batch, place>>

(* The bot publishes into the root and files what a process needs away,      *)
(* whether or not the callers name that process's folder.                    *)
Publish ==
  /\ ask.lane = "post-trade" /\ place = "absent" /\ place' = "root"
  /\ UNCHANGED <<ask, batch, request, faults>>

FileAway ==
  /\ place = "root" /\ place' = "folder"
  /\ UNCHANGED <<ask, batch, request, faults>>
-----------------------------------------------------------------------------
Step(c) ==
  LocateInFolder(c) \/ LocateInRoot(c) \/ GetRule(c) \/ Send(c) \/ Register(c)

Next ==
  \/ \E missed \in SUBSET {s.id : s \in ToSet(ask.table)} : Fetch(missed)
  \/ \E missed \in BOOLEAN : Route(missed)
  \/ \E c \in Caller : Post(c) \/ Step(c)
  \/ Publish \/ FileAway

Spec == Init /\ [][Next]_vars

(* A request thread runs on, and the engine that got no answer it takes for  *)
(* final asks again (the endpoint's "the caller should wait and ask again"). *)
LiveSpec == Spec /\ \A c \in Caller : WF_vars(Post(c)) /\ WF_vars(Step(c))
-----------------------------------------------------------------------------
TypeOK ==
  /\ ask \in Ask
  /\ rules # None => /\ \A i, j \in DOMAIN rules : i # j => rules[i].id # rules[j].id
                     /\ \A i \in DOMAIN rules : rules[i].id # 0
  /\ routed # None =>
       (routed.why \notin {"NoMatchingUploadRule", "AmbiguousUploadRule"}
          <=> \E i \in DOMAIN rules : rules[i].id = routed.id)
  /\ place \in {"absent", "root", "folder"}
  /\ \A c \in Caller :
       /\ request[c].pc \in {"idle", "folder", "root", "rule", "send", "register"}
       /\ request[c].answer \in {"none", "200", "404", "422", "500", "502"}
       /\ At(c, "send") \/ At(c, "register") <=> request[c].rule # None
  /\ faults \in 0..MaxFault

(* The order in which CBOS lists its slots does not decide where a file goes:*)
(* a tie is broken by the file or not at all (_disambiguate, "a loud         *)
(* rejection beats a silent wrong UploadID").                                *)
OrderIrrelevant ==
  routed # None =>
    MatchFile(ask.file, Reverse(rules)) = [id |-> routed.id, why |-> routed.why]

(* A slot that constrains nothing ('%%') only takes a file that matched      *)
(* nothing else (_expected_name_pattern).                                    *)
CatchAllLast ==
  routed # None => \A i, j \in DOMAIN rules :
    rules[i].id = routed.id /\ rules[i].pattern = <<>> =>
      rules[j].pattern = <<>> \/ ~MatchesRule(rules[j], ask.file.stem)

(* "Strictly more permissive than both earlier versions of this check":      *)
(* a file whose first line, or any of its first lines, had the declared      *)
(* width under the configured delimiter is not rejected for its columns.     *)
NothingStartsFailing ==
  routed # None /\ routed.why = "ColumnCountMismatch" =>
    \A i \in DOMAIN rules : rules[i].id = routed.id =>
      rules[i].columns \notin ToSet(ask.file.widths[Configured])

(* A file is renamed only towards the past and by a few days, stale data is  *)
(* never relabelled as current, and what is sent carries the wanted date     *)
(* (cbos_filename; where the date's digits occur once in the name).          *)
Once(token, t) == \A i, j \in Occurrences(token, t) : i = j

RewriteSafe ==
  routed # None /\ routed.sent # FullName(ask.file) =>
    LET name == FullName(ask.file)
        token == DateToken(name)
        slot == CHOOSE s \in ToSet(ask.table) : s.id = routed.id
    IN /\ Len(routed.sent) = Len(name)
       /\ DayOf(token) > DayOf(slot.answer.last)
       /\ DayOf(token) - DayOf(slot.answer.last) <= MaxLateStampDays
       /\ Once(token, name) => DayOf(DateToken(routed.sent)) = DayOf(slot.answer.last)

(* What is declared to CBOS passes the rule CBOS holds for the UploadID, or  *)
(* its answer comes after every chunk was sent (FileNameRejected); for rules *)
(* that compare by containment, the only ones translate_name can satisfy.    *)
DeclaredAccepted ==
  \A c \in Caller :
    (At(c, "send") \/ At(c, "register"))
      /\ request[c].rule.operator \in {"LIKE", "CONTAINS"} =>
        MatchesRule(request[c].rule, request[c].declared)

(* A published file is settled for a caller that keeps asking, and names the *)
(* folder, whatever the bot moves meanwhile (_locate's two places). One that *)
(* names none looks in the root alone, and is only settled while the file is *)
(* there.                                                                    *)
FiledOutOfReach == place = "folder" /\ ~ask.folder

PublishedIsSettled ==
  \A c \in Caller :
    place # "absent" ~> request[c].answer \in {"200", "422"} \/ FiledOutOfReach
-----------------------------------------------------------------------------
(* "422 the UploadID is unknown to CBOS, or the filename does not match its  *)
(* rule. Both are configuration, not timing, and retrying will not fix       *)
(* either." (upload_post_trade_file): what CBOS holds refuses the file.      *)
PermanentMeansConfiguration ==
  \A c \in Caller : request[c].answer = "422" =>
    LET rule == RuleFor(TheSlot.answer) IN
    rule = None \/ ~MatchesRule(rule, FullName(ask.file))
=============================================================================
