-------------------------- MODULE FileRoutingProofs --------------------------
(***************************************************************************)
(* Where a file goes, for every table of slots, every file, every request  *)
(* and any number of failed calls.                                         *)
(***************************************************************************)
EXTENDS FileRouting, NumberSets, SequenceTheorems

(* Least and greatest positions. *)
LEMMA MinIs ==
  ASSUME NEW S \in SUBSET Nat, S # {}
  PROVE  Min(S) \in S /\ \A k \in S : Min(S) <= k
<1>1. \E m \in S : \A k \in S : m <= k
  BY LeastExists
<1> QED
  BY <1>1 DEF Min

LEMMA MaxIs ==
  ASSUME NEW n \in Nat, NEW S \in SUBSET (1..n), S # {}
  PROVE  Max(S) \in S
<1> DEFINE w == [i \in 1..n |-> i]
<1>1. (\A i \in 1..n : w[i] \in Nat) /\ \A k \in S : w[k] = k /\ k \in Nat
  OBVIOUS
<1> HIDE DEF w
<1>2. \E m \in S : \A k \in S : w[k] <= w[m]
  BY <1>1, GreatestExists
<1>3. PICK m \in S : \A k \in S : m >= k
  BY <1>1, <1>2
<1> QED
  BY <1>3 DEF Max

(* What an expected name leaves without its wildcards is a text. *)
LEMMA StripText ==
  ASSUME NEW t \in Text
  PROVE  Strip(t) \in Text
<1> DEFINE kept == {i \in DOMAIN t : t[i] # Wildcard}
<1>1. Len(t) \in Nat /\ DOMAIN t = 1..Len(t) /\ \A i \in 1..Len(t) : t[i] \in DOMAIN Lower
  BY LenProperties, ElementOfSeq DEF Text
<1>2. <<>> \in Text
  BY EmptySeq DEF Text
<1>3. ASSUME kept # {} PROVE SubSeq(t, Min(kept), Max(kept)) \in Text
  <2>1. kept \in SUBSET (1..Len(t)) /\ kept \in SUBSET Nat
    BY <1>1
  <2>2. Min(kept) \in 1..Len(t) /\ Max(kept) \in 1..Len(t)
    BY <1>1, <1>3, <2>1, MinIs, MaxIs
  <2>3. \A i \in Min(kept)..Max(kept) : t[i] \in DOMAIN Lower
    BY <1>1, <2>2
  <2>4. Min(kept) \in Int /\ Max(kept) \in Int
    BY <1>1, <2>2
  <2> HIDE DEF kept
  <2> QED
    BY <2>3, <2>4, SubSeqProperties DEF Text
<1> QED
  BY <1>2, <1>3 DEF Strip
-----------------------------------------------------------------------------
(* What CBOS holds for a slot, as far as it is looked at. *)
RowOK(r) == r # None => r.named \in Seq([text : Text, operator : STRING]) /\ r.plain \in Text
AnswerOK(answer) == answer = Failed \/ answer.pattern \in Text

LEMMA PatternText ==
  ASSUME NEW r, RowOK(r), r # None
  PROVE  ExtractPattern(r).text \in Text
<1> DEFINE filled == {i \in DOMAIN r.named : r.named[i].text # <<>>}
<1>1. r.named \in Seq([text : Text, operator : STRING]) /\ r.plain \in Text
  BY DEF RowOK
<1>2. DOMAIN r.named = 1..Len(r.named) /\ Len(r.named) \in Nat
  BY <1>1, LenProperties
<1>3. ASSUME filled # {} PROVE r.named[Min(filled)].text \in Text
  <2>1. filled \in SUBSET Nat
    BY <1>2
  <2>2. Min(filled) \in filled
    BY <1>3, <2>1, MinIs
  <2>3. Min(filled) \in 1..Len(r.named)
    BY <1>2, <2>2
  <2> HIDE DEF filled
  <2>4. r.named[Min(filled)] \in [text : Text, operator : STRING]
    BY <1>1, <2>3, ElementOfSeq
  <2> QED
    BY <2>4
<1> QED
  BY <1>1, <1>3 DEF ExtractPattern

(* A rule is for its UploadID and has a text for its pattern. *)
LEMMA RuleParsed ==
  ASSUME NEW id, NEW r, RowOK(r), r # None, NEW override, override = None \/ override \in Text,
         ParseUploadRule(id, r, override) # None
  PROVE  /\ ParseUploadRule(id, r, override).id = id
         /\ ParseUploadRule(id, r, override).pattern \in Text
BY PatternText DEF ParseUploadRule

LEMMA SettingsRule ==
  ASSUME NEW id, NEW r, RowOK(r), NEW segment, NEW answer, AnswerOK(answer),
         UploadSettings(id, r, segment, answer) # None
  PROVE  /\ UploadSettings(id, r, segment, answer).id = id
         /\ UploadSettings(id, r, segment, answer).pattern \in Text
<1>1. r # None
  BY DEF UploadSettings
<1>2. ExpectedNamePattern(answer) = None \/ ExpectedNamePattern(answer) \in Text
  BY StripText DEF ExpectedNamePattern, AnswerOK
<1>3. \/ UploadSettings(id, r, segment, answer) = ParseUploadRule(id, r, None)
      \/ UploadSettings(id, r, segment, answer) = ParseUploadRule(id, r, ExpectedNamePattern(answer))
  BY DEF UploadSettings
<1> QED
  BY <1>1, <1>2, <1>3, RuleParsed
-----------------------------------------------------------------------------
(* A list of rules: each for a slot that expects a file, none for the slot of*)
(* another.                                                                  *)
Positions(rs) == Len(rs) \in Nat /\ DOMAIN rs = 1..Len(rs)
RulesOK(rs) ==
  /\ Positions(rs)
  /\ \A i \in DOMAIN rs : rs[i].id # 0 /\ rs[i].pattern \in Text
  /\ \A i, j \in DOMAIN rs : i # j => rs[i].id # rs[j].id

(* The list that is gathered from a table: what a slot adds to it depends on *)
(* the slots before.                                                         *)
LEMMA RulesFetched ==
  ASSUME NEW candidates, Positions(candidates), NEW answers,
         \A i \in DOMAIN candidates : RowOK(candidates[i].row) /\ AnswerOK(answers[candidates[i].id])
  PROVE  /\ RulesOK(FetchUploadRules(candidates, answers))
         /\ \A i \in DOMAIN FetchUploadRules(candidates, answers) :
              \E k \in DOMAIN candidates : FetchUploadRules(candidates, answers)[i].id = candidates[k].id
<1> DEFINE n == Len(candidates)
           c == [i \in 1..n |-> UploadSettings(candidates[i].id, candidates[i].row, TRUE,
                                               answers[candidates[i].id])]
           K == {i \in 1..n : candidates[i].id # 0 /\ Fresh(candidates, i) /\ c[i] # None}
           A(f, i) ==
             IF i = 0 THEN <<>>
             ELSE IF candidates[i].id # 0 /\ Fresh(candidates, i)
                       /\ UploadSettings(candidates[i].id, candidates[i].row, TRUE,
                                         answers[candidates[i].id]) # None
                  THEN Append(f[i - 1], UploadSettings(candidates[i].id, candidates[i].row, TRUE,
                                                       answers[candidates[i].id]))
                  ELSE f[i - 1]
           B(f, i) ==
             IF i = 0 THEN <<>> ELSE IF i \in K THEN Append(f[i - 1], c[i]) ELSE f[i - 1]
           g == CHOOSE f : f = [i \in 0..n |-> A(f, i)]
           X == {c[i] : i \in K}
<1>1. n \in Nat /\ DOMAIN candidates = 1..n
  BY DEF Positions
<1>2. FetchUploadRules(candidates, answers) = g[n]
  BY DEF FetchUploadRules
<1>3. g = [i \in 0..n |-> B(g, i)]
  <2>1. ASSUME NEW f, NEW i \in 0..n PROVE A(f, i) = B(f, i)
    <3>1. i # 0 => i \in 1..n
      BY <1>1
    <3> QED
      BY <3>1
  <2>2. \E f : f = [i \in 0..n |-> B(f, i)]
    <3> HIDE DEF c, K, n
    <3> DEFINE Gathers(k, d, J) ==
                 \E f : /\ f = [i \in 0..k |-> f[i]]
                       /\ \A i \in 0..k : f[i] = IF i = 0 THEN <<>>
                                                ELSE IF i \in J THEN Append(f[i - 1], d[i]) ELSE f[i - 1]
    <3>3. \A k \in Nat : \A d, J : Gathers(k, d, J)
      BY GatheringExists
    <3>4. Gathers(n, c, K)
      <4> HIDE DEF Gathers
      <4> QED
        BY <1>1, <3>3
    <3>1. PICK f : /\ f = [i \in 0..n |-> f[i]]
                   /\ \A i \in 0..n : f[i] = B(f, i)
      BY <3>4
    <3> HIDE DEF B
    <3>2. f = [i \in 0..n |-> B(f, i)]
      BY <3>1
    <3> QED
      BY <3>2
  <2> HIDE DEF A, B
  <2>3. \A f : [i \in 0..n |-> A(f, i)] = [i \in 0..n |-> B(f, i)]
    BY <2>1
  <2>4. \E f : f = [i \in 0..n |-> A(f, i)]
    BY <2>2, <2>3
  <2>5. g = [i \in 0..n |-> A(g, i)]
    BY <2>4
  <2> QED
    BY <2>3, <2>5
<1>4. /\ g[0] = <<>>
      /\ \A i \in 1..n : g[i] = IF i \in K THEN Append(g[i - 1], c[i]) ELSE g[i - 1]
  <2> HIDE DEF c, K, g
  <2>1. \A i \in 0..n : g[i] = IF i = 0 THEN <<>> ELSE IF i \in K THEN Append(g[i - 1], c[i]) ELSE g[i - 1]
    BY <1>3
  <2>2. 0 \in 0..n /\ \A i \in 1..n : i \in 0..n /\ i # 0
    BY <1>1
  <2> QED
    BY <2>1, <2>2
<1>5. ASSUME NEW i \in K
      PROVE  i \in 1..n /\ c[i].id = candidates[i].id /\ c[i].pattern \in Text
  <2>1. i \in 1..n /\ c[i] # None
    OBVIOUS
  <2>2. c[i] = UploadSettings(candidates[i].id, candidates[i].row, TRUE, answers[candidates[i].id])
    BY <2>1
  <2>3. RowOK(candidates[i].row) /\ AnswerOK(answers[candidates[i].id])
    BY <1>1, <2>1
  <2> DEFINE id == candidates[i].id
             r == candidates[i].row
             answer == answers[id]
  <2>4. c[i] = UploadSettings(id, r, TRUE, answer) /\ UploadSettings(id, r, TRUE, answer) # None
    BY <2>1, <2>2
  <2>5. RowOK(r) /\ AnswerOK(answer)
    BY <2>3
  <2> HIDE DEF id, r, answer
  <2>6. UploadSettings(id, r, TRUE, answer).id = id /\ UploadSettings(id, r, TRUE, answer).pattern \in Text
    BY <2>4, <2>5, SettingsRule
  <2> HIDE DEF c, K
  <2> QED
    BY <2>1, <2>4, <2>6 DEF id
<1>6. \A i \in K : candidates[i].id # 0 /\ \A m \in 1..(i - 1) : candidates[m].id # candidates[i].id
  BY DEF Fresh
<1> HIDE DEF g, c, K
<1> DEFINE From(k) == /\ g[k] \in Seq(X)
                      /\ \A i \in 1..Len(g[k]) : \E m \in K : m <= k /\ g[k][i] = c[m]
                      /\ \A i, j \in 1..Len(g[k]) : i # j => g[k][i].id # g[k][j].id
           S == {k \in Nat : k <= n => From(k)}
<1>7. 0 \in S
  <2>1. <<>> \in Seq(X) /\ Len(<<>>) = 0
    BY EmptySeq
  <2>2. 1..0 = {}
    OBVIOUS
  <2> HIDE DEF X
  <2> QED
    BY <1>4, <2>1, <2>2
<1>8. ASSUME NEW k \in Nat, k \in S PROVE k + 1 \in S
  <2> SUFFICES ASSUME k + 1 <= n PROVE From(k + 1)
    OBVIOUS
  <2>1. From(k) /\ k + 1 \in 1..n /\ (k + 1) - 1 = k
    BY <1>1, <1>8
  <2>2. g[k + 1] = IF k + 1 \in K THEN Append(g[k], c[k + 1]) ELSE g[k]
    BY <1>4, <2>1
  <2>3. CASE k + 1 \notin K
    <3>1. \A m \in K : m <= k => m <= k + 1
      BY <1>1, <1>5
    <3> QED
      BY <2>1, <2>2, <2>3, <3>1
  <2>4. CASE k + 1 \in K
    <3> DEFINE old == g[k]
               new == Append(old, c[k + 1])
               l == Len(old)
    <3>1. c[k + 1] \in X /\ old \in Seq(X) /\ l \in Nat
      BY <2>1, <2>4, LenProperties
    <3>2. /\ new \in Seq(X) /\ Len(new) = l + 1
          /\ \A i \in 1..l : new[i] = old[i]
          /\ new[l + 1] = c[k + 1]
      <4> HIDE DEF X, old
      <4> QED
        BY <3>1, AppendProperties
    <3>3. \A i \in 1..l : \E m \in K : m <= k /\ old[i] = c[m]
      BY <2>1
    <3>4. \A i, j \in 1..l : i # j => old[i].id # old[j].id
      BY <2>1
    <3>5. g[k + 1] = new
      BY <2>2, <2>4
    <3> HIDE DEF old, new, l, X
    <3>6. \A i \in 1..(l + 1) : i \in 1..l \/ i = l + 1
      BY <3>1
    <3>7. \A i \in 1..(l + 1) : \E m \in K : m <= k + 1 /\ new[i] = c[m]
      <4> SUFFICES ASSUME NEW i \in 1..(l + 1) PROVE \E m \in K : m <= k + 1 /\ new[i] = c[m]
        OBVIOUS
      <4>1. CASE i \in 1..l
        <5>1. PICK m \in K : m <= k /\ old[i] = c[m]
          BY <3>3, <4>1
        <5>2. m <= k + 1
          BY <1>1, <1>5, <5>1
        <5> QED
          BY <3>2, <4>1, <5>1, <5>2
      <4>2. CASE i = l + 1
        BY <2>4, <3>2, <4>2
      <4> QED
        BY <3>6, <4>1, <4>2
    <3>8. \A i \in 1..l : new[i].id # new[l + 1].id
      <4> SUFFICES ASSUME NEW i \in 1..l PROVE new[i].id # new[l + 1].id
        OBVIOUS
      <4>1. PICK m \in K : m <= k /\ old[i] = c[m]
        BY <3>3
      <4>2. m \in 1..((k + 1) - 1)
        BY <1>1, <1>5, <4>1
      <4>3. candidates[m].id # candidates[k + 1].id
        BY <1>6, <2>4, <4>2
      <4> QED
        BY <1>5, <2>4, <3>2, <4>1, <4>3
    <3>9. \A i, j \in 1..(l + 1) : i # j => new[i].id # new[j].id
      <4> SUFFICES ASSUME NEW i \in 1..(l + 1), NEW j \in 1..(l + 1), i # j
                   PROVE  new[i].id # new[j].id
        OBVIOUS
      <4>1. CASE i \in 1..l /\ j \in 1..l
        BY <3>2, <3>4, <4>1
      <4>2. CASE i = l + 1
        BY <3>6, <3>8, <4>2
      <4>3. CASE j = l + 1
        BY <3>6, <3>8, <4>3
      <4> QED
        BY <3>6, <4>1, <4>2, <4>3
    <3> QED
      BY <3>2, <3>5, <3>7, <3>9
  <2> QED
    BY <2>3, <2>4
<1>9. From(n)
  <2>1. n \in S
    <3>1. \A k \in Nat : k \in S => k + 1 \in S
      BY <1>8
    <3> HIDE DEF S
    <3> QED
      BY <1>1, <1>7, <3>1, SetInduction
  <2> QED
    BY <1>1, <2>1
<1> DEFINE rs == g[n]
<1>10. rs \in Seq(X) /\ Len(rs) \in Nat /\ DOMAIN rs = 1..Len(rs)
  BY <1>9, LenProperties
<1>11. \A i \in DOMAIN rs : rs[i].id # 0 /\ rs[i].pattern \in Text
  <2>1. \A i \in 1..Len(rs) : \E m \in K : rs[i] = c[m]
    BY <1>9
  <2> HIDE DEF rs
  <2> QED
    BY <1>5, <1>6, <1>10, <2>1
<1>12. \A i, j \in DOMAIN rs : i # j => rs[i].id # rs[j].id
  BY <1>9, <1>10
<1>13. FetchUploadRules(candidates, answers) = rs
  BY <1>2
<1>14. \A i \in DOMAIN rs : \E m \in K : rs[i] = c[m]
  BY <1>9, <1>10
<1>15. \A m \in K : m \in DOMAIN candidates /\ c[m].id = candidates[m].id
  BY <1>5, <1>6
<1> HIDE DEF rs
<1> QED
  BY <1>10, <1>11, <1>12, <1>13, <1>14, <1>15 DEF RulesOK, Positions
-----------------------------------------------------------------------------
(* The positions a match narrows down to. *)
Matching(file, rs) == {i \in DOMAIN rs : MatchesRule(rs[i], file.stem)}
Pool(file, rs) == Disambiguate(rs, Longest(rs, Matching(file, rs)), file)

(* Who is in the pool matches, with no shorter pattern than another that     *)
(* does; and a file that matches leaves somebody in the pool.                *)
LEMMA PoolIs ==
  ASSUME NEW file, NEW rs, RulesOK(rs)
  PROVE  /\ Pool(file, rs) \subseteq Matching(file, rs)
         /\ \A i \in Pool(file, rs), j \in Matching(file, rs) : Len(rs[j].pattern) <= Len(rs[i].pattern)
         /\ Matching(file, rs) # {} => Pool(file, rs) # {}
<1> DEFINE C == Matching(file, rs)
           L == Longest(rs, C)
           w == [i \in DOMAIN rs |-> Len(rs[i].pattern)]
<1>1. Pool(file, rs) \subseteq L /\ (L # {} => Pool(file, rs) # {})
  BY DEF Pool, Disambiguate, Narrow
<1>2. L \subseteq C /\ \A i \in L, j \in C : Len(rs[j].pattern) <= Len(rs[i].pattern)
  BY DEF Longest
<1>3. ASSUME C # {} PROVE L # {}
  <2>1. Len(rs) \in Nat /\ DOMAIN rs = 1..Len(rs) /\ C \in SUBSET (1..Len(rs))
    BY DEF RulesOK, Positions, Matching
  <2>2. \A i \in 1..Len(rs) : w[i] = Len(rs[i].pattern) /\ w[i] \in Nat
    <3>1. \A i \in 1..Len(rs) : rs[i].pattern \in Text
      BY <2>1 DEF RulesOK
    <3> QED
      BY <2>1, <3>1, LenProperties DEF Text
  <2> HIDE DEF C, w
  <2>3. \E m \in C : \A j \in C : w[j] <= w[m]
    BY <1>3, <2>1, <2>2, GreatestExists
  <2> QED
    BY <2>1, <2>2, <2>3 DEF Longest
<1> HIDE DEF L
<1> QED
  BY <1>1, <1>2, <1>3

(* A match is nobody's, or the one's who is left. *)
LEMMA MatchIs ==
  ASSUME NEW file, NEW rs, RulesOK(rs), NEW result, result = MatchFile(file, rs)
  PROVE  \/ result.id = 0 /\ result.why \in {"NoMatchingUploadRule", "AmbiguousUploadRule"}
         \/ \E p \in Pool(file, rs) :
              /\ result.id = rs[p].id
              /\ result.why \notin {"NoMatchingUploadRule", "AmbiguousUploadRule"}
              /\ result.why = "ColumnCountMismatch" =>
                   file.widths # None /\ ~ColumnsFit(rs[p], file.widths)
<1> DEFINE pool == Pool(file, rs)
           p == CHOOSE i \in pool : TRUE
           checked == ValidateColumns /\ rs[p].columns # None /\ file.widths # None
           empty == \A d \in DOMAIN file.widths : file.widths[d] = <<>>
<1>1. result = IF Matching(file, rs) = {} THEN [id |-> 0, why |-> "NoMatchingUploadRule"]
               ELSE IF \E i, j \in pool : i # j THEN [id |-> 0, why |-> "AmbiguousUploadRule"]
               ELSE [id |-> rs[p].id,
                     why |-> IF checked /\ empty THEN "EmptyFile"
                             ELSE IF checked /\ ~ColumnsFit(rs[p], file.widths) THEN "ColumnCountMismatch"
                             ELSE "matched"]
  BY DEF MatchFile, Matching, Pool
<1>2. Matching(file, rs) # {} => p \in pool
  BY PoolIs
<1> HIDE DEF p, pool
<1> QED
  BY <1>1, <1>2 DEF pool

(* The pool of the list read from its end. *)
Mirrored(n, A, B) ==
  A \subseteq 1..n /\ B \subseteq 1..n /\ \A i \in 1..n : i \in A <=> n - i + 1 \in B

LEMMA Mirror ==
  ASSUME NEW n \in Nat, NEW A, NEW B, Mirrored(n, A, B)
  PROVE  /\ \A i \in 1..n : n - i + 1 \in 1..n /\ n - (n - i + 1) + 1 = i
         /\ \A i \in A : n - i + 1 \in B
         /\ \A i \in B : n - i + 1 \in A
<1>1. \A i \in 1..n : n - i + 1 \in 1..n /\ n - (n - i + 1) + 1 = i
  OBVIOUS
<1>2. ASSUME NEW i \in B PROVE n - i + 1 \in A
  <2>1. i \in 1..n
    BY DEF Mirrored
  <2> QED
    BY <1>1, <2>1 DEF Mirrored
<1>3. ASSUME NEW i \in A PROVE n - i + 1 \in B
  BY DEF Mirrored
<1> QED
  BY <1>1, <1>2, <1>3

LEMMA NarrowMirrored ==
  ASSUME NEW n \in Nat, NEW A, NEW B, Mirrored(n, A, B), NEW E, NEW F, Mirrored(n, E, F)
  PROVE  Mirrored(n, Narrow(A, E), Narrow(B, F))
<1>1. Mirrored(n, A \cap E, B \cap F)
  BY DEF Mirrored
<1>2. A \cap E = {} <=> B \cap F = {}
  BY <1>1, Mirror
<1> QED
  BY <1>1, <1>2 DEF Narrow

(* A match does not depend on the order of the rules. *)
LEMMA MatchMirrored ==
  ASSUME NEW file, NEW rs, RulesOK(rs)
  PROVE  MatchFile(file, Reverse(rs)) = MatchFile(file, rs)
<1> DEFINE n == Len(rs)
           rv == Reverse(rs)
           C == Matching(file, rs)     D == Matching(file, rv)
           E == {i \in DOMAIN rs : Folded(rs[i].ext) = Folded(file.ext)}
           F == {i \in DOMAIN rv : Folded(rv[i].ext) = Folded(file.ext)}
           G == {i \in DOMAIN rs : file.exchange \in rs[i].label}
           H == {i \in DOMAIN rv : file.exchange \in rv[i].label}
<1>1. /\ n \in Nat /\ DOMAIN rs = 1..n /\ DOMAIN rv = 1..n
      /\ \A i \in 1..n : rv[i] = rs[n - i + 1] /\ n - i + 1 \in 1..n
  <2>1. n \in Nat /\ DOMAIN rs = 1..n
    BY DEF RulesOK, Positions
  <2>2. rv = [i \in 1..n |-> rs[(n - i) + 1]]
    BY DEF Reverse
  <2> HIDE DEF n, rv
  <2> QED
    BY <2>1, <2>2
<1> HIDE DEF n, rv
<1>2. Mirrored(n, D, C)
  BY <1>1 DEF Mirrored, Matching
<1>3. Mirrored(n, F, E) /\ Mirrored(n, H, G)
  BY <1>1 DEF Mirrored
<1> DEFINE L == Longest(rs, C)     M == Longest(rv, D)
<1>4. Mirrored(n, M, L)
  <2>1. M \subseteq 1..n /\ L \subseteq 1..n
    BY <1>2 DEF Mirrored, Longest
  <2>2. ASSUME NEW i \in 1..n PROVE i \in M <=> n - i + 1 \in L
    <3>1. i \in D <=> n - i + 1 \in C
      BY <1>2 DEF Mirrored
    <3>2. rv[i] = rs[n - i + 1]
      BY <1>1
    <3>3. (\A j \in D : Len(rv[j].pattern) <= Len(rv[i].pattern))
            <=> (\A j \in C : Len(rs[j].pattern) <= Len(rv[i].pattern))
      <4>1. \A j \in D : n - j + 1 \in C /\ rv[j] = rs[n - j + 1]
        BY <1>1, <1>2, Mirror DEF Mirrored
      <4>2. \A j \in C : n - j + 1 \in D /\ rv[n - j + 1] = rs[j]
        <5> SUFFICES ASSUME NEW j \in C PROVE n - j + 1 \in D /\ rv[n - j + 1] = rs[j]
          OBVIOUS
        <5>1. j \in 1..n /\ n - j + 1 \in D /\ n - j + 1 \in 1..n /\ n - (n - j + 1) + 1 = j
          BY <1>1, <1>2, Mirror DEF Mirrored
        <5> QED
          BY <1>1, <5>1
      <4> HIDE DEF C, D
      <4> QED
        BY <4>1, <4>2
    <3> HIDE DEF C, D
    <3> QED
      BY <3>1, <3>2, <3>3 DEF Longest
  <2> QED
    BY <2>1, <2>2 DEF Mirrored
<1> HIDE DEF C, D, E, F, G, H, L, M
<1> DEFINE P == Pool(file, rs)     Q == Pool(file, rv)
<1>5. Mirrored(n, Q, P)
  <2>1. Mirrored(n, Narrow(M, F), Narrow(L, E))
    BY <1>1, <1>3, <1>4, NarrowMirrored
  <2>2. Mirrored(n, Narrow(Narrow(M, F), H), Narrow(Narrow(L, E), G))
    BY <1>1, <1>3, <2>1, NarrowMirrored
  <2> QED
    BY <2>2 DEF Pool, Disambiguate, C, D, E, F, G, H, L, M
<1>6. C # {} => P # {}
  BY PoolIs DEF C
<1> HIDE DEF P, Q
<1>7. C = {} <=> D = {}
  BY <1>1, <1>2, Mirror
<1>8. (\E i, j \in P : i # j) <=> (\E i, j \in Q : i # j)
  <2>1. \A i, j \in P : i # j => n - i + 1 \in Q /\ n - j + 1 \in Q /\ n - i + 1 # n - j + 1
    BY <1>1, <1>5, Mirror DEF Mirrored
  <2>2. \A i, j \in Q : i # j => n - i + 1 \in P /\ n - j + 1 \in P /\ n - i + 1 # n - j + 1
    BY <1>1, <1>5, Mirror DEF Mirrored
  <2> QED
    BY <2>1, <2>2
<1> DEFINE p == CHOOSE i \in P : TRUE     q == CHOOSE i \in Q : TRUE
<1>9. ASSUME C # {}, ~ \E i, j \in P : i # j PROVE rs[p] = rv[q]
  <2>1. p \in P
    BY <1>6, <1>9
  <2>2. n - p + 1 \in Q /\ p \in 1..n /\ n - (n - p + 1) + 1 = p /\ n - p + 1 \in 1..n
    BY <1>1, <1>5, <2>1, Mirror DEF Mirrored
  <2>3. q \in Q
    BY <2>2
  <2>4. q = n - p + 1
    BY <1>8, <1>9, <2>2, <2>3
  <2> HIDE DEF p, q
  <2> QED
    BY <1>1, <2>2, <2>4
<1> DEFINE Result(A, B, r) ==
      LET checked == ValidateColumns /\ r.columns # None /\ file.widths # None
          empty == \A d \in DOMAIN file.widths : file.widths[d] = <<>>
      IN IF A = {} THEN [id |-> 0, why |-> "NoMatchingUploadRule"]
         ELSE IF \E i, j \in B : i # j THEN [id |-> 0, why |-> "AmbiguousUploadRule"]
         ELSE [id |-> r.id,
               why |-> IF checked /\ empty THEN "EmptyFile"
                       ELSE IF checked /\ ~ColumnsFit(r, file.widths) THEN "ColumnCountMismatch"
                       ELSE "matched"]
<1>10. MatchFile(file, rs) = Result(C, P, rs[p]) /\ MatchFile(file, rv) = Result(D, Q, rv[q])
  BY DEF MatchFile, Matching, Pool, C, D, P, Q
<1> HIDE DEF p, q
<1>11. Result(C, P, rs[p]) = Result(D, Q, rv[q])
  BY <1>7, <1>8, <1>9
<1> QED
  BY <1>10, <1>11 DEF rv
-----------------------------------------------------------------------------
(* A name that is prefixed with what CBOS looks for has it. *)
LEMMA FoldedText ==
  ASSUME NEW t \in Text
  PROVE  /\ Folded(t) \in Seq({Lower[k] : k \in DOMAIN Lower}) /\ Len(Folded(t)) = Len(t)
         /\ Len(t) \in Nat /\ \A i \in 1..Len(t) : Folded(t)[i] = Lower[t[i]]
<1> DEFINE R == {Lower[k] : k \in DOMAIN Lower}
           n == Len(t)
<1>1. n \in Nat /\ DOMAIN t = 1..n /\ \A i \in 1..n : t[i] \in DOMAIN Lower
  BY LenProperties, ElementOfSeq DEF Text
<1>2. Folded(t) = [i \in 1..n |-> Lower[t[i]]]
  BY <1>1 DEF Folded
<1>3. Folded(t) \in [1..n -> R]
  BY <1>1, <1>2
<1> HIDE DEF R, n
<1>4. Folded(t) \in Seq(R)
  BY <1>1, <1>3, SeqDef
<1>5. Len(Folded(t)) = n
  BY <1>1, <1>3
<1> QED
  BY <1>1, <1>2, <1>4, <1>5 DEF R, n

LEMMA PrefixWithin ==
  ASSUME NEW p \in Text, NEW t \in Text
  PROVE  p \o t \in Text /\ Within(Folded(p), Folded(p \o t))
<1> DEFINE R == {Lower[k] : k \in DOMAIN Lower}
           u == p \o t
           n == Len(p)
           f == Folded(p)
           h == Folded(u)
<1>1. /\ n \in Nat /\ Len(t) \in Nat /\ u \in Text /\ Len(u) = n + Len(t)
      /\ \A i \in 1..(n + Len(t)) : u[i] = IF i <= n THEN p[i] ELSE t[i - n]
  BY ConcatProperties, LenProperties DEF Text
<1>2. /\ f \in Seq(R) /\ Len(f) = n /\ \A i \in 1..n : f[i] = Lower[p[i]]
      /\ h \in Seq(R) /\ Len(h) = Len(u) /\ \A i \in 1..Len(u) : h[i] = Lower[u[i]]
  BY <1>1, FoldedText
<1> HIDE DEF R, u, n, f, h
<1>3. \A i \in 1..n : i \in 1..Len(u) /\ u[i] = p[i]
  BY <1>1
<1>4. \A i \in 1..n : h[i] = f[i] /\ h[i] \in R
  <2>1. \A i \in 1..n : f[i] \in R
    BY <1>2, ElementOfSeq
  <2> QED
    BY <1>2, <1>3, <2>1
<1> DEFINE v == SubSeq(h, 1, n)
<1>5. v \in Seq(R) /\ Len(v) = n /\ \A i \in 1..n : v[i] = f[i]
  <2>1. /\ v \in Seq(R) /\ Len(v) = IF 1 <= n THEN n - 1 + 1 ELSE 0
        /\ \A i \in 1..(n - 1 + 1) : v[i] = h[1 + i - 1]
    BY <1>1, <1>4, SubSeqProperties
  <2>2. \A i \in 1..n : i \in 1..(n - 1 + 1) /\ 1 + i - 1 = i
    BY <1>1
  <2>3. Len(v) = n
    BY <1>1, <2>1
  <2> QED
    BY <1>4, <2>1, <2>2, <2>3
<1> HIDE DEF v
<1>6. v = f
  BY <1>2, <1>5, SeqEqual
<1>7. 0 \in 0..(Len(h) - Len(f)) /\ 0 + 1 = 1 /\ 0 + Len(f) = n
  BY <1>1, <1>2
<1>8. SubSeq(h, 0 + 1, 0 + Len(f)) = f
  BY <1>6, <1>7 DEF v
<1>9. Within(f, h)
  BY <1>7, <1>8 DEF Within
<1> QED
  BY <1>1, <1>9 DEF u, f, h

LEMMA Marks == <<".">> \in Text /\ <<"_">> \in Text
<1> DEFINE X == DOMAIN Lower
<1>1. "." \in X /\ "_" \in X
  BY RoutingAssumption
<1> HIDE DEF X
<1>2. \A k \in X : <<k>> \in Seq(X)
  OBVIOUS
<1> QED
  BY <1>1, <1>2 DEF Text, X

(* translate_name satisfies a rule that compares by containment. *)
LEMMA NameTaken ==
  ASSUME NEW rule, rule.pattern \in Text, rule.operator \in {"LIKE", "CONTAINS"}, NEW name \in Text
  PROVE  MatchesRule(rule, NameCbosWillAccept(rule, name))
<1> DEFINE p == rule.pattern
           t == <<"_">> \o name
<1>1. \A n : MatchesRule(rule, n) <=> Within(Folded(p), Folded(n))
  BY DEF MatchesRule, PatternMatches
<1>2. <<"_">> \in Text
  BY Marks
<1>3. t \in Text /\ (p \o <<"_">>) \o name = p \o t
  <2>1. p \in Seq(DOMAIN Lower) /\ <<"_">> \in Seq(DOMAIN Lower) /\ name \in Seq(DOMAIN Lower)
    BY <1>2 DEF Text
  <2>2. t \in Text
    BY <2>1, ConcatProperties DEF Text
  <2>3. (p \o <<"_">>) \o name = p \o (<<"_">> \o name)
    <3> DEFINE X == DOMAIN Lower
               m == <<"_">>
    <3>1. p \in Seq(X) /\ m \in Seq(X) /\ name \in Seq(X)
      BY <2>1
    <3> HIDE DEF p, m, X
    <3>2. (p \o m) \o name = p \o (m \o name)
      BY <3>1, ConcatAssociative
    <3> QED
      BY <3>2 DEF m, p
  <2> QED
    BY <2>2, <2>3
<1>4. Within(Folded(p), Folded(p \o t))
  BY <1>3, PrefixWithin
<1> HIDE DEF p, t
<1>5. NameCbosWillAccept(rule, name) = IF Within(Folded(p), Folded(name)) THEN name ELSE p \o t
  BY <1>3 DEF NameCbosWillAccept, p
<1> QED
  BY <1>1, <1>4, <1>5

LEMMA FullNameText ==
  ASSUME NEW f, f.stem \in Text, f.ext \in Text
  PROVE  FullName(f) \in Text
<1>1. f.stem \o <<".">> \in Text
  BY Marks, ConcatProperties DEF Text
<1>2. f.stem \o <<".">> \o f.ext \in Text
  BY <1>1, ConcatProperties DEF Text
<1> QED
  BY <1>2 DEF FullName
-----------------------------------------------------------------------------
Req(pc, path, rule, declared, answer) ==
  [pc |-> pc, path |-> path, rule |-> rule, declared |-> declared, answer |-> answer]

(* A field of a request is set. *)
LEMMA FieldSet ==
  \A pc, path, rule, declared, answer, v :
    /\ [Req(pc, path, rule, declared, answer) EXCEPT !.pc = v] = Req(v, path, rule, declared, answer)
    /\ [Req(pc, path, rule, declared, answer) EXCEPT !.path = v] = Req(pc, v, rule, declared, answer)
    /\ [Req(pc, path, rule, declared, answer) EXCEPT !.rule = v] = Req(pc, path, v, declared, answer)
    /\ [Req(pc, path, rule, declared, answer) EXCEPT !.declared = v] = Req(pc, path, rule, v, answer)
BY DEF Req

(* A request holds a rule from when it has judged its file's name until it   *)
(* answers, and what it declares passes that rule.                           *)
RequestOK(r) ==
  /\ r = Req(r.pc, r.path, r.rule, r.declared, r.answer)
  /\ r.pc \in {"idle", "folder", "root", "rule", "send", "register"}
  /\ r.answer \in {"none", "200", "404", "422", "500", "502"}
  /\ r.pc \in {"send", "register"} <=> r.rule # None
  /\ r.pc \in {"send", "register"} /\ r.rule.operator \in {"LIKE", "CONTAINS"} =>
       MatchesRule(r.rule, r.declared)

(* A file is routed by the rules that were fetched; only a post-trade ask has*)
(* requests under way.                                                       *)
Routing ==
  /\ ask \in Ask
  /\ rules # None => RulesOK(rules)
  /\ routed # None => /\ rules # None
                      /\ routed.id = MatchFile(ask.file, rules).id
                      /\ routed.why = MatchFile(ask.file, rules).why
  /\ place \in {"absent", "root", "folder"}
  /\ request = [c \in Caller |-> request[c]]
  /\ \A c \in Caller : RequestOK(request[c]) /\ (request[c].pc # "idle" => ask.lane = "post-trade")
  /\ faults \in 0..MaxFault

(* What is asked names texts. *)
LEMMA AskIs ==
  ASSUME ask \in Ask
  PROVE  /\ ask.lane = "batch" => ask.table \in Table /\ ask.file \in File
         /\ ask.lane = "post-trade" =>
              /\ RowOK(TheSlot.row) /\ TheSlot.answer.pattern \in Text
              /\ ask.file.stem \in Text /\ ask.file.ext \in Text
<1>1. ASSUME ask.lane = "batch" PROVE ask.table \in Table /\ ask.file \in File
  BY <1>1 DEF Ask
<1>2. ASSUME ask.lane = "post-trade"
      PROVE  /\ RowOK(TheSlot.row) /\ TheSlot.answer.pattern \in Text
             /\ ask.file.stem \in Text /\ ask.file.ext \in Text
  <2>1. ask.file \in PostFile /\ ask.table \in {<<s>> : s \in PostSlot}
    BY <1>2 DEF Ask
  <2>2. TheSlot \in PostSlot
    BY <2>1 DEF TheSlot
  <2>3. TheSlot \in Slot
    BY <2>2 DEF Slot
  <2> QED
    BY <2>1, <2>3, RoutingAssumption DEF RowOK
<1> QED
  BY <1>1, <1>2

LEMMA StartRouting == Init => Routing
<1> SUFFICES ASSUME Init PROVE Routing
  OBVIOUS
<1>1. RequestOK(Idle)
  BY DEF RequestOK, Req, Idle
<1>2. request = [c \in Caller |-> request[c]] /\ \A c \in Caller : request[c] = Idle /\ request[c].pc = "idle"
  BY DEF Init, Idle
<1>3. 0 \in 0..MaxFault
  <2>1. MaxFault \in Nat
    BY RoutingAssumption
  <2> QED
    BY <2>1
<1> QED
  BY <1>1, <1>2, <1>3 DEF Init, Routing

(* One request moves. *)
LEMMA RequestMoves ==
  ASSUME Routing, NEW c \in Caller, NEW r, request' = [request EXCEPT ![c] = r],
         RequestOK(r), ask.lane = "post-trade",
         UNCHANGED <<ask, batch, place>>, faults' \in 0..MaxFault
  PROVE  Routing'
<1>1. request' = [d \in Caller |-> request'[d]]
  BY DEF Routing
<1>2. \A d \in Caller : request'[d] = IF d = c THEN r ELSE request[d]
  BY DEF Routing
<1>3. \A d \in Caller : RequestOK(request'[d])
  BY <1>2 DEF Routing
<1>4. ask' = ask /\ rules' = rules /\ routed' = routed /\ place' = place
  BY DEF batch
<1> QED
  BY <1>1, <1>3, <1>4 DEF Routing

(* What each step makes of a request. *)
LEMMA AnswerOf ==
  ASSUME NEW c \in Caller, NEW code \in {"200", "404", "422", "500", "502"}, Answer(c, code)
  PROVE  \E r : request' = [request EXCEPT ![c] = r] /\ RequestOK(r)
<1> DEFINE r == [Idle EXCEPT !.answer = code]
<1>1. RequestOK(r)
  BY DEF RequestOK, Req, Idle
<1>2. request' = [request EXCEPT ![c] = r]
  BY DEF Answer
<1> QED
  BY <1>1, <1>2

LEMMA GoOf ==
  ASSUME NEW c \in Caller, Routing, NEW pc \in {"root", "rule", "register"}, Go(c, pc),
         pc = "register" <=> request[c].pc \in {"send", "register"}
  PROVE  \E r : request' = [request EXCEPT ![c] = r] /\ RequestOK(r)
<1> DEFINE r == [request[c] EXCEPT !.pc = pc]
<1>1. RequestOK(request[c])
  BY DEF Routing
<1>2. r = Req(pc, request[c].path, request[c].rule, request[c].declared, request[c].answer)
  BY <1>1 DEF RequestOK, Req
<1>3. RequestOK(r)
  <2> HIDE DEF r
  <2> QED
    BY <1>1, <1>2 DEF RequestOK, Req
<1>4. request' = [request EXCEPT ![c] = r]
  BY DEF Go
<1> QED
  BY <1>3, <1>4

LEMMA FoundOf ==
  ASSUME NEW c \in Caller, Routing, NEW where, Found(c, where), request[c].pc \in {"folder", "root"}
  PROVE  \E r : request' = [request EXCEPT ![c] = r] /\ RequestOK(r)
<1> DEFINE old == request[c]
           p == [old EXCEPT !.pc = "rule"]
           r == Req("rule", where, old.rule, old.declared, old.answer)
<1>1. RequestOK(old)
  BY DEF Routing
<1>2. RequestOK(r)
  BY <1>1 DEF RequestOK, Req
<1>3. request' = [request EXCEPT ![c] = [p EXCEPT !.path = where]]
  BY DEF Found, Routing
<1>4. old = Req(old.pc, old.path, old.rule, old.declared, old.answer)
  BY <1>1 DEF RequestOK
<1> HIDE DEF old
<1>5. p = Req("rule", old.path, old.rule, old.declared, old.answer)
  BY <1>4, FieldSet
<1> HIDE DEF p
<1>6. [p EXCEPT !.path = where] = r
  BY <1>5, FieldSet
<1> QED
  BY <1>2, <1>3, <1>6

LEMMA JudgeOf ==
  ASSUME NEW c \in Caller, Routing, request[c].pc = "rule", ask.lane = "post-trade",
         NEW answer, AnswerOK(answer), Judge(c, RuleFor(answer))
  PROVE  \E r : request' = [request EXCEPT ![c] = r] /\ RequestOK(r)
<1> DEFINE rule == RuleFor(answer)
           name == FullName(ask.file)
           declared == IF ask.translate THEN NameCbosWillAccept(rule, name) ELSE name
           old == request[c]
           r == Req("send", old.path, rule, declared, old.answer)
<1>1. RowOK(TheSlot.row) /\ name \in Text
  BY AskIs, FullNameText DEF Routing
<1>2. rule # None => rule.pattern \in Text
  BY <1>1, SettingsRule DEF RuleFor
<1>3. /\ old = Req(old.pc, old.path, old.rule, old.declared, old.answer)
      /\ old.answer \in {"none", "200", "404", "422", "500", "502"}
  BY DEF Routing, RequestOK
<1> HIDE DEF rule, name, old
<1>4. CASE Answer(c, "422")
  BY <1>4, AnswerOf
<1>5. CASE ~Answer(c, "422")
  <2>1. /\ Declare(c, rule, declared) /\ rule # None
        /\ MatchesRule(rule, name) \/ ask.translate
    BY <1>5 DEF Judge, rule, name
  <2>2. request' = [request EXCEPT ![c] = r]
    <3> DEFINE p == [old EXCEPT !.pc = "send"]
               q == [p EXCEPT !.rule = rule]
    <3>1. request' = [request EXCEPT ![c] = [q EXCEPT !.declared = declared]]
      BY <2>1 DEF Declare, Routing, old
    <3>2. p = Req("send", old.path, old.rule, old.declared, old.answer)
      BY <1>3, FieldSet
    <3> HIDE DEF p
    <3>3. q = Req("send", old.path, rule, old.declared, old.answer)
      BY <3>2, FieldSet
    <3> HIDE DEF q
    <3>4. [q EXCEPT !.declared = declared] = r
      BY <3>3, FieldSet
    <3> QED
      BY <3>1, <3>4
  <2>3. rule.operator \in {"LIKE", "CONTAINS"} => MatchesRule(rule, declared)
    BY <1>1, <1>2, <2>1, NameTaken
  <2>4. RequestOK(r)
    BY <1>3, <2>1, <2>3 DEF RequestOK, Req
  <2> QED
    BY <2>2, <2>4
<1> QED
  BY <1>4, <1>5

(* A request's steps. *)
LEMMA StepRouting ==
  ASSUME Routing, NEW c \in Caller, Post(c) \/ Step(c)
  PROVE  Routing'
<1>1. faults \in 0..MaxFault /\ MaxFault \in Nat /\ (Fault => faults' \in 0..MaxFault)
  <2>1. faults \in 0..MaxFault /\ MaxFault \in Nat
    BY RoutingAssumption DEF Routing
  <2> QED
    BY <2>1 DEF Fault
<1>2. ASSUME \E r : request' = [request EXCEPT ![c] = r] /\ RequestOK(r), ask.lane = "post-trade",
             UNCHANGED <<ask, batch, place>>, faults' \in 0..MaxFault
      PROVE  Routing'
  BY <1>2, RequestMoves
<1>3. request[c].pc # "idle" => ask.lane = "post-trade"
  BY DEF Routing
<1>4. CASE Post(c)
  <2> DEFINE r == [Idle EXCEPT !.pc = IF ask.folder THEN "folder" ELSE "root"]
  <2>1. request' = [request EXCEPT ![c] = r]
    BY <1>4 DEF Post
  <2>2. RequestOK(r)
    BY DEF RequestOK, Req, Idle
  <2> HIDE DEF r
  <2> QED
    BY <1>1, <1>2, <1>4, <2>1, <2>2 DEF Post
<1>5. CASE LocateInFolder(c)
  <2>1. \E r : request' = [request EXCEPT ![c] = r] /\ RequestOK(r)
    BY <1>5, FoundOf, GoOf DEF LocateInFolder, At
  <2> QED
    BY <1>1, <1>2, <1>3, <1>5, <2>1 DEF LocateInFolder, At
<1>6. CASE LocateInRoot(c)
  <2>1. \E r : request' = [request EXCEPT ![c] = r] /\ RequestOK(r)
    BY <1>6, FoundOf, AnswerOf DEF LocateInRoot, At
  <2> QED
    BY <1>1, <1>2, <1>3, <1>6, <2>1 DEF LocateInRoot, At
<1>7. CASE GetRule(c)
  <2>1. request[c].pc = "rule" /\ ask.lane = "post-trade" /\ UNCHANGED <<ask, batch, place>>
    BY <1>3, <1>7 DEF GetRule, At
  <2>2. AnswerOK(TheSlot.answer) /\ AnswerOK(Failed)
    BY <2>1, AskIs DEF Routing, AnswerOK
  <2>3. \E r : request' = [request EXCEPT ![c] = r] /\ RequestOK(r)
    <3>1. CASE Judge(c, RuleFor(TheSlot.answer))
      BY <2>1, <2>2, <3>1, JudgeOf
    <3>2. CASE Judge(c, RuleFor(Failed))
      BY <2>1, <2>2, <3>2, JudgeOf
    <3>3. CASE Answer(c, "502")
      BY <3>3, AnswerOf
    <3> QED
      BY <1>7, <3>1, <3>2, <3>3 DEF GetRule
  <2>4. faults' \in 0..MaxFault
    BY <1>1, <1>7 DEF GetRule
  <2> QED
    BY <1>2, <2>1, <2>3, <2>4
<1>8. CASE Send(c)
  <2>1. request[c].pc = "send" /\ ask.lane = "post-trade" /\ UNCHANGED <<ask, batch, place>>
    BY <1>3, <1>8 DEF Send, At
  <2>2. Answer(c, "500") \/ Answer(c, "502") \/ Go(c, "register")
    BY <1>8 DEF Send
  <2>3. \E r : request' = [request EXCEPT ![c] = r] /\ RequestOK(r)
    BY <2>1, <2>2, GoOf, AnswerOf
  <2>4. faults' \in 0..MaxFault
    BY <1>1, <1>8 DEF Send
  <2> QED
    BY <1>2, <2>1, <2>3, <2>4
<1>9. CASE Register(c)
  <2>1. request[c].pc = "register" /\ ask.lane = "post-trade" /\ UNCHANGED <<ask, batch, place>>
    BY <1>3, <1>9 DEF Register, At
  <2>2. Answer(c, "200") \/ Answer(c, "502")
    BY <1>9 DEF Register
  <2>3. \E r : request' = [request EXCEPT ![c] = r] /\ RequestOK(r)
    BY <2>2, AnswerOf
  <2>4. faults' \in 0..MaxFault
    BY <1>1, <1>9 DEF Register
  <2> QED
    BY <1>2, <2>1, <2>3, <2>4
<1> QED
  BY <1>4, <1>5, <1>6, <1>7, <1>8, <1>9 DEF Step
-----------------------------------------------------------------------------
(* The batch's steps. *)
LEMMA TableIs ==
  ASSUME NEW t \in Table
  PROVE  /\ Positions(t)
         /\ ToSet(t) = {t[i] : i \in 1..Len(t)}
         /\ \A s \in ToSet(t) : RowOK(s.row) /\ AnswerOK(s.answer)
         /\ IsFiniteSet({s.id : s \in ToSet(t)})
<1>1. t \in Seq(Slot)
  BY RoutingAssumption
<1>2. Len(t) \in Nat /\ DOMAIN t = 1..Len(t) /\ \A i \in 1..Len(t) : t[i] \in Slot
  BY <1>1, LenProperties, ElementOfSeq
<1>3. ToSet(t) = {t[i] : i \in 1..Len(t)}
  BY <1>2 DEF ToSet
<1>4. \A s \in Slot : RowOK(s.row) /\ AnswerOK(s.answer)
  BY RoutingAssumption DEF RowOK, AnswerOK
<1>5. IsFiniteSet({s.id : s \in ToSet(t)})
  <2> DEFINE f == [i \in 1..Len(t) |-> t[i].id]
             ids == {s.id : s \in ToSet(t)}
  <2>1. f \in Surjection(1..Len(t), ids)
    <3>1. f \in [1..Len(t) -> ids]
      BY <1>3
    <3>2. \A d \in ids : \E i \in 1..Len(t) : f[i] = d
      BY <1>3
    <3> QED
      BY <3>1, <3>2 DEF Surjection
  <2>2. IsFiniteSet(1..Len(t))
    BY <1>2, FS_Interval
  <2> QED
    BY <2>1, <2>2, FS_Surjection
<1> QED
  BY <1>2, <1>3, <1>4, <1>5 DEF Positions

LEMMA FetchRouting ==
  ASSUME Routing, NEW missed \in SUBSET {s.id : s \in ToSet(ask.table)}, Fetch(missed)
  PROVE  Routing'
<1> DEFINE t == ask.table
           ids == {s.id : s \in ToSet(t)}
           answers == [id \in ids |-> IF id \in missed THEN Failed
                                      ELSE (CHOOSE s \in ToSet(t) : s.id = id).answer]
<1>1. t \in Table
  BY AskIs DEF Fetch, Routing
<1>2. /\ Positions(t) /\ ToSet(t) = {t[i] : i \in 1..Len(t)} /\ IsFiniteSet(ids)
      /\ \A s \in ToSet(t) : RowOK(s.row) /\ AnswerOK(s.answer)
  BY <1>1, TableIs
<1>3. rules' = FetchUploadRules(t, answers)
  BY DEF Fetch
<1>4. ASSUME NEW id \in ids PROVE AnswerOK(answers[id])
  <2>1. (CHOOSE s \in ToSet(t) : s.id = id) \in ToSet(t)
    OBVIOUS
  <2>2. answers[id] = Failed \/ answers[id] = (CHOOSE s \in ToSet(t) : s.id = id).answer
    OBVIOUS
  <2>3. AnswerOK(Failed)
    BY DEF AnswerOK
  <2> QED
    BY <1>2, <2>1, <2>2, <2>3
<1>5. \A i \in DOMAIN t : t[i] \in ToSet(t) /\ t[i].id \in ids
  BY <1>2 DEF Positions
<1>6. \A i \in DOMAIN t : RowOK(t[i].row) /\ AnswerOK(answers[t[i].id])
  BY <1>2, <1>4, <1>5
<1>7. RulesOK(rules')
  <2> HIDE DEF answers, t
  <2> QED
    BY <1>2, <1>3, <1>6, RulesFetched
<1>8. faults' \in 0..MaxFault
  <2>1. Cardinality(missed) \in Nat
    BY <1>2, FS_Subset, FS_CardinalityType
  <2>2. faults \in Nat /\ MaxFault \in Nat
    <3>1. MaxFault \in Nat
      BY RoutingAssumption
    <3>2. faults \in 0..MaxFault
      BY DEF Routing
    <3> QED
      BY <3>1, <3>2
  <2>3. faults + Cardinality(missed) <= MaxFault /\ faults' = faults + Cardinality(missed)
    BY DEF Fetch
  <2> QED
    BY <2>1, <2>2, <2>3
<1>9. ask' = ask /\ routed' = routed /\ place' = place /\ request' = request /\ rules = None
  BY DEF Fetch, posts
<1>10. routed' = None
  BY <1>9 DEF Routing
<1> QED
  BY <1>7, <1>8, <1>9, <1>10 DEF Routing

LEMMA RouteRouting ==
  ASSUME Routing, NEW missed \in BOOLEAN, Route(missed)
  PROVE  Routing'
<1>1. /\ ask' = ask /\ rules' = rules /\ place' = place /\ request' = request /\ rules # None
      /\ routed'.id = MatchFile(ask.file, rules).id /\ routed'.why = MatchFile(ask.file, rules).why
  BY DEF Route, posts
<1>2. faults' \in 0..MaxFault
  <2>1. faults \in 0..MaxFault /\ MaxFault \in Nat
    BY RoutingAssumption DEF Routing
  <2> QED
    BY <2>1 DEF Route
<1> QED
  BY <1>1, <1>2 DEF Routing

(* In every reachable state. *)
LEMMA AlwaysRouting == Spec => []Routing
<1>1. ASSUME Routing, [Next]_vars PROVE Routing'
  <2>1. CASE \E missed \in SUBSET {s.id : s \in ToSet(ask.table)} : Fetch(missed)
    BY <1>1, <2>1, FetchRouting
  <2>2. CASE \E missed \in BOOLEAN : Route(missed)
    BY <1>1, <2>2, RouteRouting
  <2>3. CASE \E c \in Caller : Post(c) \/ Step(c)
    BY <1>1, <2>3, StepRouting
  <2>4. CASE Publish \/ FileAway
    BY <1>1, <2>4 DEF Publish, FileAway, Routing, batch
  <2>5. CASE UNCHANGED vars
    BY <1>1, <2>5 DEF vars, Routing
  <2> QED
    BY <1>1, <2>1, <2>2, <2>3, <2>4, <2>5 DEF Next
<1> QED
  BY <1>1, StartRouting, PTL DEF Spec
-----------------------------------------------------------------------------
(* For every table, file and request, the variables have their types, a list *)
(* of rules names no UploadID twice and no processing step, and a file is    *)
(* rejected without an UploadID exactly if no rule is singled out.           *)
THEOREM RoutingTypes == Spec => []TypeOK
<1>1. Routing => TypeOK
  <2> SUFFICES ASSUME Routing PROVE TypeOK
    OBVIOUS
  <2>1. rules # None => /\ \A i, j \in DOMAIN rules : i # j => rules[i].id # rules[j].id
                        /\ \A i \in DOMAIN rules : rules[i].id # 0
    BY DEF Routing, RulesOK
  <2>2. ASSUME routed # None
        PROVE  routed.why \notin {"NoMatchingUploadRule", "AmbiguousUploadRule"}
                 <=> \E i \in DOMAIN rules : rules[i].id = routed.id
    <3>1. RulesOK(rules)
      BY <2>2 DEF Routing
    <3> DEFINE result == MatchFile(ask.file, rules)
    <3>2. routed.id = result.id /\ routed.why = result.why
      BY <2>2 DEF Routing
    <3>3. \/ result.id = 0 /\ result.why \in {"NoMatchingUploadRule", "AmbiguousUploadRule"}
          \/ \E p \in Pool(ask.file, rules) :
               /\ result.id = rules[p].id
               /\ result.why \notin {"NoMatchingUploadRule", "AmbiguousUploadRule"}
      BY <3>1, MatchIs
    <3>4. Pool(ask.file, rules) \subseteq DOMAIN rules
      BY <3>1, PoolIs DEF Matching
    <3> HIDE DEF result
    <3> QED
      BY <3>1, <3>2, <3>3, <3>4 DEF RulesOK
  <2>3. ASSUME NEW c \in Caller
        PROVE  /\ request[c].pc \in {"idle", "folder", "root", "rule", "send", "register"}
               /\ request[c].answer \in {"none", "200", "404", "422", "500", "502"}
               /\ At(c, "send") \/ At(c, "register") <=> request[c].rule # None
    BY DEF Routing, RequestOK, At
  <2> QED
    BY <2>1, <2>2, <2>3 DEF TypeOK, Routing
<1> QED
  BY <1>1, AlwaysRouting, PTL

(* For every list of rules and every file: read backwards, the list sends the*)
(* file to the same UploadID, or rejects it for the same reason.             *)
THEOREM OrderDoesNotDecide == Spec => []OrderIrrelevant
<1>1. Routing => OrderIrrelevant
  <2> SUFFICES ASSUME Routing, routed # None
               PROVE  MatchFile(ask.file, Reverse(rules)) = [id |-> routed.id, why |-> routed.why]
    BY DEF OrderIrrelevant
  <2> DEFINE result == MatchFile(ask.file, rules)
  <2>1. RulesOK(rules) /\ routed.id = result.id /\ routed.why = result.why
    BY DEF Routing
  <2>2. MatchFile(ask.file, Reverse(rules)) = result
    BY <2>1, MatchMirrored
  <2>3. result = [id |-> result.id, why |-> result.why]
    BY DEF MatchFile
  <2> HIDE DEF result
  <2> QED
    BY <2>1, <2>2, <2>3
<1> QED
  BY <1>1, AlwaysRouting, PTL

(* The rule a file is routed by. *)
LEMMA RoutedBy ==
  ASSUME Routing, routed # None, NEW i \in DOMAIN rules, rules[i].id = routed.id
  PROVE  /\ i \in Pool(ask.file, rules) /\ RulesOK(rules)
         /\ routed.why = "ColumnCountMismatch" =>
              ask.file.widths # None /\ ~ColumnsFit(rules[i], ask.file.widths)
<1> DEFINE result == MatchFile(ask.file, rules)
<1>1. RulesOK(rules) /\ routed.id = result.id /\ routed.why = result.why
  BY DEF Routing
<1>2. rules[i].id # 0
  BY <1>1 DEF RulesOK
<1>3. \/ result.id = 0
      \/ \E p \in Pool(ask.file, rules) :
           /\ result.id = rules[p].id
           /\ result.why = "ColumnCountMismatch" =>
                ask.file.widths # None /\ ~ColumnsFit(rules[p], ask.file.widths)
  BY <1>1, MatchIs
<1>4. Pool(ask.file, rules) \subseteq DOMAIN rules
  BY <1>1, PoolIs DEF Matching
<1> HIDE DEF result
<1>5. PICK p \in Pool(ask.file, rules) :
        /\ result.id = rules[p].id
        /\ result.why = "ColumnCountMismatch" =>
             ask.file.widths # None /\ ~ColumnsFit(rules[p], ask.file.widths)
  BY <1>1, <1>2, <1>3
<1>6. p = i
  BY <1>1, <1>4, <1>5 DEF RulesOK
<1> QED
  BY <1>1, <1>5, <1>6

(* For every list of rules: a slot that constrains nothing takes a file only *)
(* if no slot that constrains something matches it.                          *)
THEOREM CatchAllIsLast == Spec => []CatchAllLast
<1>1. Routing => CatchAllLast
  <2> SUFFICES ASSUME Routing, routed # None, NEW i \in DOMAIN rules, NEW j \in DOMAIN rules,
                      rules[i].id = routed.id, rules[i].pattern = <<>>,
                      MatchesRule(rules[j], ask.file.stem)
               PROVE  rules[j].pattern = <<>>
    BY DEF CatchAllLast
  <2>1. i \in Pool(ask.file, rules) /\ RulesOK(rules)
    BY RoutedBy
  <2>2. j \in Matching(ask.file, rules)
    BY DEF Matching
  <2>3. Len(rules[j].pattern) <= Len(rules[i].pattern)
    BY <2>1, <2>2, PoolIs
  <2>4. rules[j].pattern \in Seq(DOMAIN Lower)
    BY <2>1 DEF RulesOK, Text
  <2>5. Len(<<>>) = 0
    OBVIOUS
  <2>6. rules[j].pattern # <<>> => Len(rules[j].pattern) \in Nat \ {0}
    BY <2>4, EmptySeq
  <2> QED
    BY <2>3, <2>5, <2>6
<1> QED
  BY <1>1, AlwaysRouting, PTL

(* For every file whose columns could be counted: if one of the lines looked *)
(* at has the declared width under the configured delimiter, the file is not *)
(* rejected for its columns.                                                 *)
THEOREM NothingStarts == Spec => []NothingStartsFailing
<1>1. Routing => NothingStartsFailing
  <2> SUFFICES ASSUME Routing, routed # None, routed.why = "ColumnCountMismatch",
                      NEW i \in DOMAIN rules, rules[i].id = routed.id
               PROVE  rules[i].columns \notin ToSet(ask.file.widths[Configured])
    BY DEF NothingStartsFailing
  <2>1. ask.file.widths # None /\ ~ColumnsFit(rules[i], ask.file.widths)
    BY RoutedBy
  <2>2. ask.file \in File \cup PostFile
    BY DEF Routing, Ask
  <2>3. Configured \in DOMAIN ask.file.widths
    BY <2>1, <2>2, RoutingAssumption
  <2> QED
    BY <2>1, <2>3 DEF ColumnsFit
<1> QED
  BY <1>1, AlwaysRouting, PTL

(* For every request, rule and file name: what is declared to CBOS passes the*)
(* rule that CBOS holds.                                                     *)
THEOREM DeclaredIsAccepted == Spec => []DeclaredAccepted
<1>1. Routing => DeclaredAccepted
  BY DEF Routing, DeclaredAccepted, RequestOK, At
<1> QED
  BY <1>1, AlwaysRouting, PTL
-----------------------------------------------------------------------------
(* The date in a name. *)

(* A piece of a text. *)
LEMMA PieceOf ==
  ASSUME NEW t \in Text, NEW i \in Nat \ {0}, NEW n \in Nat, i + n - 1 <= Len(t)
  PROVE  /\ SubSeq(t, i, i + n - 1) \in Text /\ Len(SubSeq(t, i, i + n - 1)) = n
         /\ \A k \in 1..n : SubSeq(t, i, i + n - 1)[k] = t[i + k - 1]
<1>1. Len(t) \in Nat /\ \A j \in 1..Len(t) : t[j] \in DOMAIN Lower
  BY LenProperties, ElementOfSeq DEF Text
<1>2. i \in Int /\ i + n - 1 \in Int /\ \A j \in i..i + n - 1 : j \in 1..Len(t)
  BY <1>1
<1>3. \A j \in i..i + n - 1 : t[j] \in DOMAIN Lower
  BY <1>1, <1>2
<1>4. /\ SubSeq(t, i, i + n - 1) \in Text
      /\ Len(SubSeq(t, i, i + n - 1)) = IF i <= i + n - 1 THEN i + n - 1 - i + 1 ELSE 0
      /\ \A k \in 1..i + n - 1 - i + 1 : SubSeq(t, i, i + n - 1)[k] = t[i + k - 1]
  BY <1>2, <1>3, SubSeqProperties DEF Text
<1>5. (IF i <= i + n - 1 THEN i + n - 1 - i + 1 ELSE 0) = n /\ i + n - 1 - i + 1 = n
  OBVIOUS
<1> QED
  BY <1>4, <1>5

(* A text with a piece of it replaced by another of its length. *)
LEMMA Spliced ==
  ASSUME NEW t \in Text, NEW w \in Text, NEW f \in Text, NEW n \in Nat, Len(w) = n, Len(f) = n,
         NEW p \in Nat \ {0}, p + n - 1 <= Len(t),
         NEW u, u = ReplaceSubSeqAt(p, w, f, t)
  PROVE  /\ u \in Text /\ Len(u) = Len(t)
         /\ \A i \in 1..Len(t) : u[i] = IF i \in p..p + n - 1 THEN w[i - p + 1] ELSE t[i]
<1> DEFINE l == Len(t)
           a == SubSeq(t, 1, 1 + (p - 1) - 1)
           b == SubSeq(t, p + n, p + n + (l - (p + n - 1)) - 1)
<1>1. l \in Nat
  BY LenProperties DEF Text
<1>2. 1 + (p - 1) - 1 = p - 1 /\ p + n + (l - (p + n - 1)) - 1 = l
  BY <1>1
<1>3. u = (a \o w) \o b
  BY <1>2 DEF ReplaceSubSeqAt
<1>4. a \in Text /\ Len(a) = p - 1 /\ \A k \in 1..p - 1 : a[k] = t[1 + k - 1]
  <2>1. p - 1 \in Nat /\ 1 \in Nat \ {0} /\ 1 + (p - 1) - 1 <= Len(t)
    OBVIOUS
  <2> QED
    BY <2>1, PieceOf
<1>5. /\ b \in Text /\ Len(b) = l - (p + n - 1)
      /\ \A k \in 1..l - (p + n - 1) : b[k] = t[p + n + k - 1]
  <2>1. l - (p + n - 1) \in Nat /\ p + n \in Nat \ {0} /\ p + n + (l - (p + n - 1)) - 1 <= Len(t)
    BY <1>1
  <2> HIDE DEF l
  <2> QED
    BY <2>1, PieceOf
<1> HIDE DEF a, b, l
<1>6. /\ a \o w \in Text /\ Len(a \o w) = p - 1 + n
      /\ \A i \in 1..p - 1 + n : (a \o w)[i] = IF i <= p - 1 THEN a[i] ELSE w[i - (p - 1)]
  BY <1>4, ConcatProperties DEF Text
<1>7. /\ u \in Text /\ Len(u) = l
      /\ \A i \in 1..l : u[i] = IF i <= p - 1 + n THEN (a \o w)[i] ELSE b[i - (p - 1 + n)]
  <2>1. /\ u \in Text /\ Len(u) = p - 1 + n + (l - (p + n - 1))
        /\ \A i \in 1..p - 1 + n + (l - (p + n - 1)) :
             u[i] = IF i <= p - 1 + n THEN (a \o w)[i] ELSE b[i - (p - 1 + n)]
    <3> DEFINE c == a \o w
    <3>1. c \in Text /\ Len(c) = p - 1 + n /\ u = c \o b
      BY <1>3, <1>6
    <3> HIDE DEF c
    <3>2. /\ u \in Text /\ Len(u) = Len(c) + Len(b)
          /\ \A i \in 1..Len(c) + Len(b) : u[i] = IF i <= Len(c) THEN c[i] ELSE b[i - Len(c)]
      BY <1>5, <3>1, ConcatProperties DEF Text
    <3> QED
      BY <1>5, <3>1, <3>2 DEF c
  <2>2. p - 1 + n + (l - (p + n - 1)) = l
    BY <1>1
  <2> QED
    BY <2>1, <2>2
<1>8. ASSUME NEW i \in 1..l PROVE u[i] = IF i \in p..p + n - 1 THEN w[i - p + 1] ELSE t[i]
  <2>1. CASE i <= p - 1
    <3>1. i \in 1..p - 1 /\ i \in 1..p - 1 + n /\ i <= p - 1 + n /\ i \notin p..p + n - 1 /\ 1 + i - 1 = i
      BY <1>1, <2>1
    <3>2. a[i] = t[i]
      BY <1>4, <3>1
    <3> QED
      BY <1>6, <1>7, <3>1, <3>2
  <2>2. CASE i \in p..p + n - 1
    <3>1. i \in 1..p - 1 + n /\ i <= p - 1 + n /\ ~(i <= p - 1) /\ i - (p - 1) = i - p + 1
      BY <1>1, <2>2
    <3> QED
      BY <1>6, <1>7, <2>2, <3>1
  <2>3. CASE i > p + n - 1
    <3>1. /\ ~(i <= p - 1 + n) /\ i - (p - 1 + n) \in 1..l - (p + n - 1) /\ i \notin p..p + n - 1
          /\ p + n + (i - (p - 1 + n)) - 1 = i
      BY <1>1, <2>3
    <3> QED
      BY <1>5, <1>7, <3>1
  <2> QED
    BY <1>1, <2>1, <2>2, <2>3
<1> QED
  BY <1>7, <1>8 DEF l

(* A run of digits lies within its text. *)
LEMMA RunFits ==
  ASSUME NEW t \in Text, NEW n \in {2, 3}, NEW i \in DigitRuns(t, n)
  PROVE  /\ Len(t) \in Nat /\ i \in Nat \ {0} /\ i + n - 1 <= Len(t)
         /\ \A k \in i..i + n - 1 : k \in 1..Len(t) /\ t[k] \in DOMAIN Digit
<1>1. Len(t) \in Nat /\ DOMAIN t = 1..Len(t)
  BY LenProperties DEF Text
<1>2. i \in 1..Len(t) /\ \A k \in i..i + n - 1 : k \in 1..Len(t) /\ t[k] \in DOMAIN Digit
  BY <1>1 DEF DigitRuns, DigitAt
<1>3. i + n - 1 \in i..i + n - 1
  BY <1>1, <1>2
<1> QED
  BY <1>1, <1>2, <1>3

(* Two runs of digits are one, or a character that is no digit is between.   *)
LEMMA RunsApart ==
  ASSUME NEW t \in Text, NEW m \in {2, 3}, NEW n \in {2, 3},
         NEW i \in DigitRuns(t, m), NEW j \in DigitRuns(t, n)
  PROVE  (i = j /\ m = n) \/ i + m < j \/ j + n < i
<1>1. i \in Nat /\ j \in Nat
  BY RunFits
<1>2. /\ \A k \in i..i + m - 1 : DigitAt(t, k)
      /\ ~DigitAt(t, i - 1) /\ ~DigitAt(t, i + m)
      /\ \A k \in j..j + n - 1 : DigitAt(t, k)
      /\ ~DigitAt(t, j - 1) /\ ~DigitAt(t, j + n)
  BY DEF DigitRuns
<1>3. j - 1 \notin i..i + m - 1 /\ i - 1 \notin j..j + n - 1
  BY <1>2
<1>4. i + m \notin j..j + n - 1 /\ j + n \notin i..i + m - 1
  BY <1>2
<1> QED
  BY <1>1, <1>3, <1>4

(* The date of a name is where the first run of its form is one.             *)
FirstDate(t, n, s) ==
  /\ n \in {2, 3} /\ s \in Dates(t, n)
  /\ n = 2 => Dates(t, 3) = {}
  /\ \A k \in Dates(t, n) : s <= k

LEMMA DatesNumbers ==
  ASSUME NEW t \in Text, NEW n
  PROVE  Dates(t, n) \in SUBSET Nat
<1>1. Len(t) \in Nat /\ DOMAIN t = 1..Len(t)
  BY LenProperties DEF Text
<1> QED
  BY <1>1 DEF Dates, DigitRuns

LEMMA DateTokenIs ==
  ASSUME NEW t \in Text, DateToken(t) # <<>>
  PROVE  \E n, s : FirstDate(t, n, s) /\ DateToken(t) = SubSeq(t, s, s + n - 1)
<1> DEFINE n == IF Dates(t, 3) # {} THEN 3 ELSE 2
           s == Min(Dates(t, n))
<1>1. Dates(t, n) # {} /\ DateToken(t) = SubSeq(t, s, s + n - 1)
  BY DEF DateToken
<1>2. s \in Dates(t, n) /\ \A k \in Dates(t, n) : s <= k
  BY <1>1, DatesNumbers, MinIs
<1>3. n \in {2, 3} /\ (n = 2 => Dates(t, 3) = {})
  OBVIOUS
<1> QED
  BY <1>1, <1>2, <1>3 DEF FirstDate

LEMMA DateTokenFrom ==
  ASSUME NEW t \in Text, NEW n, NEW s, FirstDate(t, n, s)
  PROVE  DateToken(t) = SubSeq(t, s, s + n - 1)
<1>1. Dates(t, n) \in SUBSET Nat /\ Dates(t, n) # {} /\ s \in Nat
  BY DatesNumbers DEF FirstDate
<1>2. Min(Dates(t, n)) \in Nat /\ Min(Dates(t, n)) <= s /\ s <= Min(Dates(t, n))
  BY <1>1, MinIs DEF FirstDate
<1>3. Min(Dates(t, n)) = s
  BY <1>1, <1>2
<1>4. n = IF Dates(t, 3) # {} THEN 3 ELSE 2
  BY <1>1 DEF FirstDate
<1> QED
  BY <1>1, <1>3, <1>4 DEF DateToken

(* A date put in the place of the date of a name: the name keeps its length, *)
(* and the new date is its date if the old one occurs once.                  *)
Piece(t, n, s) == SubSeq(t, s, s + n - 1)
Redated(t, f, w) == ReplaceSubSeqAt(Min(Occurrences(f, t)), w, f, t)

LEMMA DateReplaced ==
  ASSUME NEW t \in Text, NEW n, NEW s, FirstDate(t, n, s),
         NEW w \in Text, Len(w) = n, IsDate(w),
         NEW f, f = Piece(t, n, s)
  PROVE  /\ Len(Redated(t, f, w)) = Len(t)
         /\ Once(f, t) => DateToken(Redated(t, f, w)) = w
<1> DEFINE u == Redated(t, f, w)
           p == Min(Occurrences(f, t))
           l == Len(t)
<1>1. n \in {2, 3} /\ n \in Nat /\ s \in DigitRuns(t, n)
  BY DEF FirstDate, Dates
<1>2. /\ l \in Nat /\ s \in Nat \ {0} /\ s + n - 1 <= l
      /\ \A k \in s..s + n - 1 : t[k] \in DOMAIN Digit
  BY <1>1, RunFits
<1>3. f \in Text /\ Len(f) = n /\ f = SubSeq(t, s, s + n - 1)
  BY <1>1, <1>2, PieceOf DEF Piece
<1>4. s \in Occurrences(f, t) /\ Occurrences(f, t) = {i \in 1..l - n + 1 : SubSeq(t, i, i + n - 1) = f}
  BY <1>1, <1>2, <1>3 DEF Occurrences
<1>5. p \in Occurrences(f, t)
  <2>1. Occurrences(f, t) \in SUBSET Nat /\ Occurrences(f, t) # {}
    BY <1>4
  <2> QED
    BY <2>1, MinIs
<1>6. p \in Nat \ {0} /\ p + n - 1 <= l
  <2>1. p \in 1..l - n + 1
    BY <1>4, <1>5
  <2> QED
    BY <1>1, <1>2, <2>1
<1> HIDE DEF p, u
<1>7. /\ u \in Text /\ Len(u) = l
      /\ \A i \in 1..l : u[i] = IF i \in p..p + n - 1 THEN w[i - p + 1] ELSE t[i]
  <2>1. u = ReplaceSubSeqAt(p, w, f, t)
    BY DEF p, u, Redated
  <2>2. /\ n \in Nat /\ f \in Text /\ Len(f) = n /\ w \in Text /\ Len(w) = n
        /\ p \in Nat \ {0} /\ p + n - 1 <= Len(t)
    BY <1>1, <1>3, <1>6
  <2>3. /\ u \in Text /\ Len(u) = Len(t)
        /\ \A i \in 1..Len(t) : u[i] = IF i \in p..p + n - 1 THEN w[i - p + 1] ELSE t[i]
    <3> HIDE DEF l
    <3> QED
      BY <2>1, <2>2, Spliced
  <2> QED
    BY <2>3
<1>8. ASSUME Once(f, t) PROVE DateToken(u) = w
  <2>1. p = s
    BY <1>4, <1>5, <1>8 DEF Once
  <2>2. \A i \in 1..l : u[i] = IF i \in s..s + n - 1 THEN w[i - s + 1] ELSE t[i]
    BY <1>7, <2>1
  <2>3. DOMAIN u = 1..l /\ DOMAIN t = 1..l /\ DOMAIN w = 1..n
    BY <1>7, LenProperties DEF Text
  <2>4. \A i : DigitAt(u, i) <=> DigitAt(t, i)
    <3> SUFFICES ASSUME NEW i \in 1..l PROVE u[i] \in DOMAIN Digit <=> t[i] \in DOMAIN Digit
      BY <2>3 DEF DigitAt
    <3>1. CASE i \in s..s + n - 1
      <4>1. i - s + 1 \in 1..n
        BY <1>1, <1>2, <3>1
      <4>2. w[i - s + 1] \in DOMAIN Digit
        BY <2>3, <4>1 DEF IsDate
      <4> QED
        BY <1>2, <2>2, <3>1, <4>2
    <3>2. CASE i \notin s..s + n - 1
      BY <2>2, <3>2
    <3> QED
      BY <3>1, <3>2
  <2>5. \A m : DigitRuns(u, m) = DigitRuns(t, m)
    BY <2>3, <2>4 DEF DigitRuns
  <2>6. SubSeq(u, s, s + n - 1) = w
    <3> DEFINE v == SubSeq(u, s, s + n - 1)
    <3>1. v \in Text /\ Len(v) = n /\ \A k \in 1..n : v[k] = u[s + k - 1]
      <4>1. u \in Text /\ s \in Nat \ {0} /\ n \in Nat /\ s + n - 1 <= Len(u)
        BY <1>1, <1>2, <1>7
      <4> QED
        BY <4>1, PieceOf
    <3>2. ASSUME NEW k \in 1..n PROVE v[k] = w[k]
      <4>1. s + k - 1 \in 1..l /\ s + k - 1 \in s..s + n - 1 /\ (s + k - 1) - s + 1 = k
        BY <1>1, <1>2
      <4>2. u[s + k - 1] = w[k]
        BY <2>2, <4>1
      <4> QED
        BY <3>1, <4>2
    <3> HIDE DEF v
    <3>3. v = w
      BY <3>1, <3>2, SeqEqual DEF Text
    <3> QED
      BY <3>3 DEF v
  <2>7. ASSUME NEW m \in {2, 3}, NEW i \in DigitRuns(t, m), i # s \/ m # n
        PROVE  SubSeq(u, i, i + m - 1) = SubSeq(t, i, i + m - 1)
    <3> DEFINE v == SubSeq(u, i, i + m - 1)
               v0 == SubSeq(t, i, i + m - 1)
    <3>1. i + m < s \/ s + n < i
      BY <1>1, <2>7, RunsApart
    <3>2. i \in Nat \ {0} /\ i + m - 1 <= l
      BY RunFits
    <3>3. /\ v \in Text /\ Len(v) = m /\ \A k \in 1..m : v[k] = u[i + k - 1]
          /\ v0 \in Text /\ Len(v0) = m /\ \A k \in 1..m : v0[k] = t[i + k - 1]
      BY <1>7, <3>2, PieceOf
    <3>4. ASSUME NEW k \in 1..m PROVE v[k] = v0[k]
      <4>1. i + k - 1 \in 1..l /\ i + k - 1 \notin s..s + n - 1
        BY <1>1, <1>2, <3>1, <3>2
      <4>2. u[i + k - 1] = t[i + k - 1]
        BY <2>2, <4>1
      <4> QED
        BY <3>3, <4>2
    <3> HIDE DEF v, v0
    <3>5. v = v0
      BY <3>3, <3>4, SeqEqual DEF Text
    <3> QED
      BY <3>5 DEF v, v0
  <2>8. ASSUME NEW m \in {2, 3}, NEW i \in Dates(u, m), i # s \/ m # n PROVE i \in Dates(t, m)
    <3>1. i \in DigitRuns(t, m) /\ IsDate(SubSeq(u, i, i + m - 1))
      BY <2>5 DEF Dates
    <3> QED
      BY <2>7, <2>8, <3>1 DEF Dates
  <2>9. FirstDate(u, n, s)
    <3>1. s \in Dates(u, n)
      BY <1>1, <2>5, <2>6 DEF Dates
    <3>2. n = 2 => Dates(u, 3) = {}
      BY <2>8 DEF FirstDate
    <3>3. \A k \in Dates(u, n) : s <= k
      BY <1>1, <1>2, <2>8 DEF FirstDate
    <3> QED
      BY <1>1, <3>1, <3>2, <3>3 DEF FirstDate
  <2> QED
    BY <1>7, <2>6, <2>9, DateTokenFrom
<1> QED
  BY <1>7, <1>8 DEF u

(* Days are numbers. *)
LEMMA DayNumbers ==
  ASSUME NEW t \in Text, Len(t) \in {2, 3}, IsDate(t)
  PROVE  DayOf(t) \in Nat
<1>1. \A i \in 1..Len(t) : t[i] \in DOMAIN Digit
  BY LenProperties DEF Text, IsDate
<1>2. \A i \in 1..Len(t) : Digit[t[i]] \in Nat
  BY <1>1, RoutingAssumption
<1>3. YearOf(t) \in Nat /\ Digit[t[1]] \in Nat
  BY <1>2 DEF YearOf
<1>4. Days \in Nat
  BY RoutingAssumption
<1>5. \A a, b, c \in Nat : a * b + c \in Nat
  OBVIOUS
<1> QED
  BY <1>3, <1>4, <1>5 DEF DayOf

(* A name that is changed keeps its length, was late by a few days, and has  *)
(* the day that CBOS expects.                                                *)
LEMMA RewriteIs ==
  ASSUME NEW t \in Text, NEW answer, answer.last \in Text,
         Len(answer.last) = 3 /\ IsDate(answer.last) => Digit[answer.last[2]] = 2,
         NEW u, u = ResolveUploadName(t, answer), u # t
  PROVE  /\ Len(u) = Len(t)
         /\ DayOf(DateToken(t)) > DayOf(answer.last)
         /\ DayOf(DateToken(t)) - DayOf(answer.last) <= MaxLateStampDays
         /\ Once(DateToken(t), t) => DayOf(DateToken(u)) = DayOf(answer.last)
<1> DEFINE f == DateToken(t)
           last == answer.last
           w == IF Len(f) = 3 THEN last ELSE ShortForm(last)
<1>1. /\ Len(last) = 3 /\ IsDate(last) /\ f # <<>> /\ Late(f, last)
      /\ u = ReplaceSubSeqAt(Min(Occurrences(f, t)), w, f, t)
  BY DEF ResolveUploadName
<1>2. PICK n, s : FirstDate(t, n, s) /\ f = SubSeq(t, s, s + n - 1)
  BY <1>1, DateTokenIs
<1>3. n \in {2, 3} /\ n \in Nat /\ s \in DigitRuns(t, n) /\ IsDate(f)
  BY <1>2 DEF FirstDate, Dates
<1>4. f \in Text /\ Len(f) = n
  BY <1>2, <1>3, RunFits, PieceOf
<1>5. /\ DOMAIN last = 1..3 /\ \A i \in 1..3 : last[i] \in DOMAIN Lower
      /\ \A i \in 1..3 : last[i] \in DOMAIN Digit
      /\ Digit[last[1]] \in 1..Days /\ Digit[last[2]] = 2
  BY <1>1, LenProperties, ElementOfSeq DEF Text, IsDate
<1>6. w \in Text /\ Len(w) = n /\ IsDate(w) /\ DayOf(w) = DayOf(last)
  <2>1. CASE n = 3
    BY <1>1, <1>4, <2>1
  <2>2. CASE n = 2
    <3> DEFINE v == <<last[1], last[3]>>
    <3>1. w = v
      BY <1>4, <2>2 DEF ShortForm
    <3>2. Len(v) = 2 /\ DOMAIN v = 1..2 /\ v[1] = last[1] /\ v[2] = last[3]
      OBVIOUS
    <3>3. v \in Text
      <4> DEFINE X == DOMAIN Lower
      <4>1. last[1] \in X /\ last[3] \in X
        BY <1>5
      <4> HIDE DEF X
      <4>2. v \in Seq(X)
        BY <4>1
      <4> QED
        BY <4>2 DEF X, Text
    <3> HIDE DEF v, last
    <3>4. IsDate(v)
      BY <1>5, <3>2 DEF IsDate
    <3>5. YearOf(v) = YearOf(last)
      <4>1. Digit[last[3]] \in Nat
        <5>1. Digit \in [DOMAIN Digit -> Nat]
          BY RoutingAssumption
        <5>2. last[3] \in DOMAIN Digit
          BY <1>5
        <5> QED
          BY <5>1, <5>2
      <4> QED
        BY <1>1, <1>5, <3>2, <4>1 DEF YearOf
    <3>6. DayOf(v) = DayOf(last)
      BY <3>2, <3>5 DEF DayOf
    <3> QED
      BY <2>2, <3>1, <3>2, <3>3, <3>4, <3>6
  <2> QED
    BY <1>3, <2>1, <2>2
<1> HIDE DEF w
<1>7. Len(u) = Len(t) /\ (Once(f, t) => DateToken(u) = w)
  <2> HIDE DEF f, last
  <2>1. FirstDate(t, n, s) /\ w \in Text /\ Len(w) = n /\ IsDate(w)
    BY <1>2, <1>6
  <2>2. f = Piece(t, n, s)
    BY <1>2 DEF Piece
  <2>3. u = Redated(t, f, w)
    BY <1>1 DEF Redated
  <2> QED
    BY <2>1, <2>2, <2>3, DateReplaced
<1>8. DayOf(f) \in Nat /\ DayOf(last) \in Nat /\ MaxLateStampDays \in Nat
  BY <1>1, <1>3, <1>4, DayNumbers, RoutingAssumption
<1>9. DayOf(f) - DayOf(last) \in 1..MaxLateStampDays
  BY <1>1 DEF Late
<1> HIDE DEF f, last
<1>10. DayOf(f) > DayOf(last) /\ DayOf(f) - DayOf(last) <= MaxLateStampDays
  BY <1>8, <1>9
<1> QED
  BY <1>6, <1>7, <1>10 DEF f, last

(* An UploadID comes from the table, and a name that is sent is the file's   *)
(* or what is made of it for the slot.                                       *)
Sent ==
  LET name == FullName(ask.file)
      slot == CHOOSE s \in ToSet(ask.table) : s.id = routed.id
  IN /\ rules # None => \A i \in DOMAIN rules : \E s \in ToSet(ask.table) : s.id = rules[i].id
     /\ routed # None =>
          \/ routed.sent = name
          \/ routed.why = "matched" /\ routed.sent = ResolveUploadName(name, slot.answer)

LEMMA FetchSent ==
  ASSUME Routing, NEW missed \in SUBSET {s.id : s \in ToSet(ask.table)}, Fetch(missed)
  PROVE  Sent'
<1> DEFINE t == ask.table
           answers == [id \in {s.id : s \in ToSet(t)} |->
                         IF id \in missed THEN Failed ELSE (CHOOSE s \in ToSet(t) : s.id = id).answer]
<1>1. t \in Table
  BY AskIs DEF Fetch, Routing
<1>2. /\ Positions(t) /\ ToSet(t) = {t[i] : i \in 1..Len(t)}
      /\ \A s \in ToSet(t) : RowOK(s.row) /\ AnswerOK(s.answer)
  BY <1>1, TableIs
<1>3. /\ rules' = FetchUploadRules(t, answers) /\ rules = None
      /\ ask' = ask /\ routed' = routed
  BY DEF Fetch
<1>4. \A i \in DOMAIN t : t[i] \in ToSet(t)
  BY <1>2 DEF Positions
<1>5. ASSUME NEW i \in DOMAIN t PROVE RowOK(t[i].row) /\ AnswerOK(answers[t[i].id])
  <2>1. t[i] \in ToSet(t)
    BY <1>4
  <2>2. (CHOOSE s \in ToSet(t) : s.id = t[i].id) \in ToSet(t)
    BY <2>1
  <2>3. \/ answers[t[i].id] = Failed
        \/ answers[t[i].id] = (CHOOSE s \in ToSet(t) : s.id = t[i].id).answer
    BY <2>1
  <2> QED
    BY <1>2, <2>1, <2>2, <2>3 DEF AnswerOK
<1>6. \A i \in DOMAIN rules' : \E k \in DOMAIN t : rules'[i].id = t[k].id
  <2> HIDE DEF answers, t
  <2> QED
    BY <1>2, <1>3, <1>5, RulesFetched
<1>7. routed = None
  BY <1>3 DEF Routing
<1> QED
  BY <1>3, <1>4, <1>6, <1>7 DEF Sent

LEMMA RouteSent ==
  ASSUME Sent, NEW missed \in BOOLEAN, Route(missed)
  PROVE  Sent'
<1> DEFINE name == FullName(ask.file)
           result == MatchFile(ask.file, rules)
           slot == CHOOSE s \in ToSet(ask.table) : s.id = result.id
<1>1. /\ ask' = ask /\ rules' = rules
      /\ routed' = [id |-> result.id, why |-> result.why,
                    sent |-> IF result.why # "matched" THEN name
                             ELSE ResolveUploadName(name, IF missed THEN Failed ELSE slot.answer)]
  BY DEF Route
<1>2. ResolveUploadName(name, Failed) = name
  BY DEF ResolveUploadName
<1> HIDE DEF name, result
<1>3. /\ routed'.id = result.id
      /\ \/ routed'.sent = name
         \/ routed'.why = "matched" /\ routed'.sent = ResolveUploadName(name, slot.answer)
  BY <1>1, <1>2
<1> QED
  BY <1>1, <1>3 DEF Sent, name, result

LEMMA AlwaysSent == Spec => []Sent
<1>1. Init => Sent
  BY DEF Init, Sent
<1>2. ASSUME Routing, Sent, [Next]_vars PROVE Sent'
  <2>1. CASE \E missed \in SUBSET {s.id : s \in ToSet(ask.table)} : Fetch(missed)
    BY <1>2, <2>1, FetchSent
  <2>2. CASE \E missed \in BOOLEAN : Route(missed)
    BY <1>2, <2>2, RouteSent
  <2>3. CASE UNCHANGED <<ask, rules, routed>>
    BY <1>2, <2>3 DEF Sent
  <2>4. CASE (\E c \in Caller : Post(c) \/ Step(c)) \/ Publish \/ FileAway
    BY <2>3, <2>4 DEF Post, Step, LocateInFolder, LocateInRoot, GetRule, Send, Register,
                      Publish, FileAway, batch
  <2>5. CASE UNCHANGED vars
    BY <2>3, <2>5 DEF vars
  <2> QED
    BY <1>2, <2>1, <2>2, <2>4, <2>5 DEF Next
<1> QED
  BY <1>1, <1>2, AlwaysRouting, PTL DEF Spec

(* For every table, file and calendar: a file is renamed only towards the    *)
(* past and by a few days, its name keeps its length, and what is sent has   *)
(* the day CBOS expects if the date stood in the name once.                  *)
THEOREM RewriteIsSafe == Spec => []RewriteSafe
<1>1. Routing /\ Sent => RewriteSafe
  <2> DEFINE name == FullName(ask.file)
             slot == CHOOSE s \in ToSet(ask.table) : s.id = routed.id
  <2> SUFFICES ASSUME Routing, Sent, routed # None, routed.sent # name
               PROVE  /\ Len(routed.sent) = Len(name)
                      /\ DayOf(DateToken(name)) > DayOf(slot.answer.last)
                      /\ DayOf(DateToken(name)) - DayOf(slot.answer.last) <= MaxLateStampDays
                      /\ Once(DateToken(name), name) =>
                           DayOf(DateToken(routed.sent)) = DayOf(slot.answer.last)
    BY DEF RewriteSafe
  <2>1. routed.why = "matched" /\ routed.sent = ResolveUploadName(name, slot.answer)
    BY DEF Sent
  <2>2. /\ RulesOK(rules) /\ rules # None
        /\ routed.id = MatchFile(ask.file, rules).id
        /\ routed.why = MatchFile(ask.file, rules).why
    BY DEF Routing
  <2>3. \E p \in Pool(ask.file, rules) : routed.id = rules[p].id
    <3> DEFINE result == MatchFile(ask.file, rules)
    <3>1. \/ result.why \in {"NoMatchingUploadRule", "AmbiguousUploadRule"}
          \/ \E p \in Pool(ask.file, rules) : result.id = rules[p].id
      BY <2>2, MatchIs
    <3> HIDE DEF result
    <3>2. routed.id = result.id /\ routed.why = result.why
      BY <2>2 DEF result
    <3> QED
      BY <2>1, <3>1, <3>2
  <2>4. Pool(ask.file, rules) \subseteq DOMAIN rules
    BY <2>2, PoolIs DEF Matching
  <2>5. \E s \in ToSet(ask.table) : s.id = routed.id
    BY <2>2, <2>3, <2>4 DEF Sent
  <2>6. slot \in ToSet(ask.table)
    BY <2>5
  <2> HIDE DEF slot
  <2>7. slot \in Slot
    <3>1. CASE ask.lane = "batch"
      <4>1. ask.table \in Table
        BY <3>1, AskIs DEF Routing
      <4> QED
        BY <2>6, <4>1 DEF Slot
    <3>2. CASE ask.lane = "post-trade"
      <4>1. ask.table \in {<<s>> : s \in PostSlot}
        BY <3>2 DEF Routing, Ask
      <4>2. PICK s \in PostSlot : ask.table = <<s>>
        BY <4>1
      <4>3. ToSet(<<s>>) = {s}
        BY DEF ToSet
      <4> QED
        BY <2>6, <4>2, <4>3 DEF Slot
    <3> QED
      BY <3>1, <3>2 DEF Routing, Ask
  <2>8. /\ slot.answer.last \in Text
        /\ Len(slot.answer.last) = 3 /\ IsDate(slot.answer.last) => Digit[slot.answer.last[2]] = 2
    BY <2>7, RoutingAssumption
  <2>9. name \in Text
    <3>1. ask.file \in File \cup PostFile
      BY DEF Routing, Ask
    <3> QED
      BY <3>1, FullNameText, RoutingAssumption
  <2> HIDE DEF name
  <2> QED
    BY <2>1, <2>8, <2>9, RewriteIs
<1> QED
  BY <1>1, AlwaysRouting, AlwaysSent, PTL
=============================================================================
