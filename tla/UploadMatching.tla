---------------------------- MODULE UploadMatching ----------------------------
(* Which UploadID a file belongs to and under which name it goes:            *)
(* upload_matching.py, the decoding of Steps 4 and 40 in cbos_client.py,     *)
(* cbos_filename.py and the naming of post_trade_upload_service.py, as pure  *)
(* operators. A text is a sequence of characters and stands for the real one *)
(* in everything these functions look at: containment, prefix, suffix,       *)
(* length, case, the wildcard and runs of digits.                            *)
EXTENDS Integers, Sequences, SequencesExt, FiniteSets

CONSTANTS None,               \* Python's None: no row, rule, pattern, column count, text
          Failed,             \* in place of the answer of a call that raised
          Lower,              \* character -> its lower case
          Digit,              \* digit character -> its value
          Days,               \* the days of a (shortened) year
          MaxLateStampDays,   \* cbos_filename._MAX_LATE_STAMP_DAYS
          ValidateColumns,    \* upload_match_validate_columns
          RewriteDate         \* cbos_rewrite_upload_filename_date

Wildcard == "%"
-----------------------------------------------------------------------------
(* Texts. *)
Folded(t) == [i \in DOMAIN t |-> Lower[t[i]]]

Within(p, t) == \E i \in 0..Len(t) - Len(p) : SubSeq(t, i + 1, i + Len(p)) = p

Strip(t) ==
  LET kept == {i \in DOMAIN t : t[i] # Wildcard} IN
  IF kept = {} THEN <<>>
  ELSE SubSeq(t, Min(kept), Max(kept))

FullName(file) == IF file.ext = <<>> THEN file.stem ELSE file.stem \o <<".">> \o file.ext
-----------------------------------------------------------------------------
(* Decoding Step 4's row and Step 40's answer.                               *)
(* A row: `named` its "FILE NAME (...)" keys, `plain` FileNameToCompare,     *)
(* `operator` FileNameCompareOperator; label is the set of exchanges that    *)
(* its NAME mentions. Operators are named without spaces and underscores.    *)

(* The first of the texts that is not empty (Python's `a or b or c`).        *)
FirstOf(texts) == texts[Min({i \in DOMAIN texts : texts[i] # ""})]

ExtractPattern(r) ==
  LET filled == {i \in DOMAIN r.named : r.named[i].text # <<>>} IN
  IF filled # {} THEN r.named[Min(filled)] ELSE [text |-> r.plain, operator |-> ""]

ParseUploadRule(id, r, override) ==
  LET found == ExtractPattern(r)
      usable == (override # None \/ found.text # <<>>) /\ r.ext # <<>>
  IN IF ~usable THEN None
     ELSE [id |-> id,
           label |-> r.label,
           pattern |-> IF override # None THEN override ELSE found.text,
           operator |-> IF override # None THEN "CONTAINS"
                        ELSE FirstOf(<<r.operator, found.operator, "LIKE">>),
           ext |-> r.ext,
           columns |-> r.columns]

(* Only a wildcard-delimited answer is a pattern; '%%' constrains nothing.   *)
(* A Step 40 that fails gives none.  An answer that does not decode fails    *)
(* the whole of Step 4 instead: GetRule's 502, a batch's failed setup.       *)
ExpectedNamePattern(answer) ==
  IF answer = Failed \/ ~(IsPrefix(<<Wildcard>>, answer.pattern)
                          /\ IsSuffix(<<Wildcard>>, answer.pattern))
  THEN None
  ELSE Strip(answer.pattern)

UploadSettings(id, r, segment, answer) ==
  LET first == IF r = None THEN None ELSE ParseUploadRule(id, r, None)
      fallback == ExpectedNamePattern(answer)
  IN IF r = None \/ first # None \/ ~segment \/ fallback = None
     THEN first
     ELSE ParseUploadRule(id, r, fallback)

(* The first slot of its UploadID. *)
Fresh(candidates, n) == \A m \in 1..n - 1 : candidates[m].id # candidates[n].id

(* Faulty: a processing step is asked for its settings too. *)
FetchEveryRule(candidates, answers) ==
  LET rules[n \in 0..Len(candidates)] ==
        IF n = 0 THEN <<>>
        ELSE LET c == candidates[n]
                 rule == UploadSettings(c.id, c.row, TRUE, answers[c.id])
             IN IF Fresh(candidates, n) /\ rule # None THEN Append(rules[n - 1], rule) ELSE rules[n - 1]
  IN rules[Len(candidates)]

(* One rule for each distinct UploadID that expects a file and has one.      *)
FetchUploadRules(candidates, answers) ==
  LET rules[n \in 0..Len(candidates)] ==
        IF n = 0 THEN <<>>
        ELSE LET c == candidates[n]
                 rule == UploadSettings(c.id, c.row, TRUE, answers[c.id])
             IN IF c.id # 0 /\ Fresh(candidates, n) /\ rule # None
                THEN Append(rules[n - 1], rule) ELSE rules[n - 1]
  IN rules[Len(candidates)]
-----------------------------------------------------------------------------
(* Matching one file against the rules.                                      *)
PatternMatches(pattern, operator, name) ==
  LET p == Folded(pattern)  n == Folded(name) IN
  CASE operator \in {"EQUALS", "EQUAL", "="} -> p = n
    [] operator = "STARTSWITH" -> IsPrefix(p, n)
    [] operator = "ENDSWITH" -> IsSuffix(p, n)
    [] OTHER -> Within(p, n)

MatchesRule(rule, name) == PatternMatches(rule.pattern, rule.operator, name)

(* Faulty: the candidates were not sorted. *)
FirstCandidate(rules, matching) == {i \in matching : \A j \in matching : i <= j}

(* Of the rules that match, a set of positions in the list of rules, those   *)
(* with the longest pattern.                                                 *)
Longest(rules, matching) ==
  {i \in matching : \A j \in matching : Len(rules[j].pattern) <= Len(rules[i].pattern)}

(* A tie is broken by whatever singles out fewer rules, and by nothing that  *)
(* would leave none: the extension first, then the exchange folder.          *)
Narrow(pool, fitting) == IF pool \cap fitting = {} THEN pool ELSE pool \cap fitting

(* Faulty: no tie-break. *)
TakeFirst(rules, tied, file) == {i \in tied : \A j \in tied : i <= j}

Disambiguate(rules, tied, file) ==
  Narrow(Narrow(tied, {i \in DOMAIN rules : Folded(rules[i].ext) = Folded(file.ext)}),
         {i \in DOMAIN rules : file.exchange \in rules[i].label})

(* Faulty: only the first line counts. *)
FirstLineFits(rule, widths) ==
  LET seen == {widths[d][1] : d \in DOMAIN widths} IN rule.columns \in seen \/ seen = {1}

(* A file's `widths` are, per delimiter tried, those of its first data lines.*)
ColumnsFit(rule, widths) ==
  LET seen == UNION {ToSet(widths[d]) : d \in DOMAIN widths} IN
  rule.columns \in seen \/ seen = {1}

(* match_file: the rule's UploadID, and why the file is rejected if it is.   *)
MatchFile(file, rules) ==
  LET candidates == {i \in DOMAIN rules : MatchesRule(rules[i], file.stem)}
      pool == Disambiguate(rules, Longest(rules, candidates), file)
      rule == rules[CHOOSE i \in pool : TRUE]
      checked == ValidateColumns /\ rule.columns # None /\ file.widths # None
      empty == \A d \in DOMAIN file.widths : file.widths[d] = <<>>
  IN IF candidates = {} THEN [id |-> 0, why |-> "NoMatchingUploadRule"]
     ELSE IF \E i, j \in pool : i # j THEN [id |-> 0, why |-> "AmbiguousUploadRule"]
     ELSE [id |-> rule.id,
           why |-> IF checked /\ empty THEN "EmptyFile"
                   ELSE IF checked /\ ~ColumnsFit(rule, file.widths) THEN "ColumnCountMismatch"
                   ELSE "matched"]
-----------------------------------------------------------------------------
(* The date in a name. DDMMYYYY is a run of three digits here (day, century, *)
(* year) and ddmmyy, of the century 2, a run of two: as in the code the short*)
(* form is the long one without its century, and its digits may also occur   *)
(* inside another run.                                                       *)
ShortForm(token) == <<token[1], token[3]>>

IsDate(token) ==
  (\A i \in DOMAIN token : token[i] \in DOMAIN Digit) /\ Digit[token[1]] \in 1..Days
YearOf(token) ==
  IF Len(token) = 3 THEN 10 * Digit[token[2]] + Digit[token[3]] ELSE 20 + Digit[token[2]]
DayOf(token) == YearOf(token) * Days + Digit[token[1]]

(* Where exactly n digits stand in a name (_D8, _D6), and where those are a  *)
(* date.                                                                     *)
DigitAt(t, i) == i \in DOMAIN t /\ t[i] \in DOMAIN Digit
DigitRuns(t, n) ==
  {i \in DOMAIN t : /\ \A j \in i..i + n - 1 : DigitAt(t, j)
                    /\ ~DigitAt(t, i - 1) /\ ~DigitAt(t, i + n)}
Dates(t, n) == {i \in DigitRuns(t, n) : IsDate(SubSeq(t, i, i + n - 1))}

(* The first date of a name, of the long form if there is one; empty without.*)
DateToken(t) ==
  LET n == IF Dates(t, 3) # {} THEN 3 ELSE 2
      at == Min(Dates(t, n))
  IN IF Dates(t, n) = {} THEN <<>> ELSE SubSeq(t, at, at + n - 1)

Occurrences(token, t) ==
  {i \in 1..Len(t) - Len(token) + 1 : SubSeq(t, i, i + Len(token) - 1) = token}

(* Faulty: the direction is not looked at. *)
Near(token, wanted) ==
  DayOf(token) - DayOf(wanted) \in -MaxLateStampDays..MaxLateStampDays

Late(token, wanted) == DayOf(token) - DayOf(wanted) \in 1..MaxLateStampDays

(* An answer of Step 40: `basis` DateBasis, `today` whether it is for the    *)
(* batch's own trade date, `last` LastTradingDate_DDMMYYYY.                  *)
ResolveUploadName(name, answer) ==
  LET found == DateToken(name)
      wanted == IF Len(found) = 3 THEN answer.last ELSE ShortForm(answer.last)
      rewritten ==
        /\ RewriteDate
        /\ answer # Failed
        /\ answer.basis = "T-1" /\ answer.today
        /\ Len(answer.last) = 3 /\ IsDate(answer.last)
        /\ found # <<>>
        /\ Late(found, answer.last)
  IN IF rewritten
     THEN ReplaceSubSeqAt(Min(Occurrences(found, name)), wanted, found, name)
     ELSE name
-----------------------------------------------------------------------------
(* A name Step 4 will take, by prefixing the real one (translate_name).      *)
NameCbosWillAccept(rule, actual) ==
  IF Within(Folded(rule.pattern), Folded(actual)) THEN actual
  ELSE rule.pattern \o <<"_">> \o actual
=============================================================================
