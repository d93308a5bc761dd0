-------------------------- MODULE ChunkTransferProofs --------------------------
(***************************************************************************)
(* What a chunk transfer adds up to, for every file, chunk size, header    *)
(* scan and retry budget, and any number of failed and lost chunks.        *)
(***************************************************************************)
EXTENDS ChunkTransfer, NumberSets, SequenceTheorems

(* FlattenSeq is known once a function is known that satisfies its recursion:*)
(* there is no second one.                                                   *)
LEMMA FlattenIs ==
  ASSUME NEW seqs, NEW n \in Nat \ {0}, Len(seqs) = n, NEW w,
         \A i \in 1..n : w[i] = IF i = 1 THEN seqs[i] ELSE w[i - 1] \o seqs[i]
  PROVE  FlattenSeq(seqs) = w[n]
<1> DEFINE g == CHOOSE g : g = [i \in 1..n |-> IF i = 1 THEN seqs[i] ELSE g[i - 1] \o seqs[i]]
           v == [i \in 1..n |-> w[i]]
<1>1. g = [i \in 1..n |-> IF i = 1 THEN seqs[i] ELSE g[i - 1] \o seqs[i]]
  <2>1. \A i \in 1..n : i # 1 => i - 1 \in 1..n
    OBVIOUS
  <2>2. \A i \in 1..n : v[i] = IF i = 1 THEN seqs[i] ELSE v[i - 1] \o seqs[i]
    BY <2>1
  <2>3. v = [i \in 1..n |-> IF i = 1 THEN seqs[i] ELSE v[i - 1] \o seqs[i]]
    BY <2>2
  <2> QED
    BY <2>3
<1>2. FlattenSeq(seqs) = g[n]
  BY DEF FlattenSeq
<1> HIDE DEF g
<1> DEFINE S == {k \in Nat : k + 1 <= n => g[k + 1] = w[k + 1]}
<1>3. /\ g[1] = w[1]
      /\ \A i \in 2..n : g[i] = g[i - 1] \o seqs[i]
      /\ \A i \in 2..n : w[i] = w[i - 1] \o seqs[i]
  <2>1. 1 \in 1..n /\ \A i \in 2..n : i \in 1..n /\ i # 1
    OBVIOUS
  <2>2. \A i \in 1..n : g[i] = IF i = 1 THEN seqs[i] ELSE g[i - 1] \o seqs[i]
    BY <1>1
  <2>3. \A i \in 1..n : w[i] = IF i = 1 THEN seqs[i] ELSE w[i - 1] \o seqs[i]
    OBVIOUS
  <2> QED
    BY <2>1, <2>2, <2>3
<1>4. 0 \in S
  BY <1>3
<1>5. ASSUME NEW k \in Nat, k \in S PROVE k + 1 \in S
  <2>1. SUFFICES ASSUME k + 2 <= n PROVE g[k + 2] = w[k + 2]
    OBVIOUS
  <2>2. k + 2 \in 2..n /\ (k + 2) - 1 = k + 1
    BY <2>1
  <2>3. g[k + 2] = g[k + 1] \o seqs[k + 2]
    BY <1>3, <2>2
  <2>4. w[k + 2] = w[k + 1] \o seqs[k + 2]
    BY <1>3, <2>2
  <2>5. g[k + 1] = w[k + 1]
    BY <1>5, <2>1
  <2> QED
    BY <2>3, <2>4, <2>5
<1>6. n - 1 \in S
  <2>1. \A k \in Nat : k \in S => k + 1 \in S
    BY <1>5
  <2> HIDE DEF S
  <2>2. Nat \subseteq S
    BY <1>4, <2>1, SetInduction
  <2> QED
    BY <2>2
<1>7. g[n] = w[n]
  BY <1>6
<1> QED
  BY <1>2, <1>7
-----------------------------------------------------------------------------
(* Division that rounds up. *)
LEMMA RoundsUp ==
  ASSUME NEW n \in Nat, NEW c \in Nat \ {0}, NEW q, q = (n + c - 1) \div c
  PROVE  /\ q \in Nat
         /\ n <= q * c
         /\ n > 0 => q > 0 /\ (q - 1) * c < n
         /\ n = 0 => q = 0
<1>1. q \in Int /\ c * q <= n + c - 1 /\ n + c - 1 < c * (q + 1)
  OBVIOUS
<1>2. c * (q + 1) = c * q + c /\ q * c = c * q /\ c * (q - 1) = c * q - c /\ (q - 1) * c = c * (q - 1)
  BY <1>1
<1>3. c * q \in Int
  BY <1>1
<1>4. n <= q * c /\ (q - 1) * c < n
  BY <1>1, <1>2, <1>3
<1>5. ASSUME q < 0 PROVE FALSE
  <2>1. c * q <= 0
    BY <1>1, <1>5
  <2>2. c * (q + 1) <= 0
    BY <1>1, <1>5
  <2> QED
    BY <1>1, <2>2
<1>6. ASSUME n > 0, q = 0 PROVE FALSE
  BY <1>1, <1>6
<1>7. ASSUME n = 0, q > 0 PROVE FALSE
  <2>1. c * q >= c
    BY <1>1, <1>7
  <2> QED
    BY <1>1, <1>7, <2>1
<1> QED
  BY <1>1, <1>4, <1>5, <1>6, <1>7

(* Products grow with their factor. *)
LEMMA TimesGrows ==
  ASSUME NEW a \in Nat, NEW b \in Nat, NEW c \in Nat, a <= b
  PROVE  a * c <= b * c /\ a * c \in Nat /\ b * c \in Nat /\ (a + 1) * c = a * c + c
<1>1. PICK d \in Nat : b = a + d
  <2>1. b - a \in Nat /\ b = a + (b - a)
    OBVIOUS
  <2> QED
    BY <2>1
<1>2. b * c = a * c + d * c /\ a * c \in Nat /\ d * c \in Nat
  BY <1>1
<1> QED
  BY <1>2
-----------------------------------------------------------------------------
(* What is to arrive: the file behind its header, its last row closed. *)
Data == SubSeq(file, Offset + 1, Len(file)) \o Terminator
(* Its part with this number. *)
ChunkAt(k) == SubSeq(Data, k * ChunkSize + 1, Smaller(k * ChunkSize + ChunkSize, Len(Data)))

(* A file is a sequence of bytes. *)
LEMMA FileIsSeq == ASSUME file \in File PROVE file \in Seq(Byte)
<1>1. PICK size \in 0..MaxSize : file \in [1..size -> Byte]
  BY DEF File
<1>2. size \in Nat
  BY ConstantsAssumption
<1> QED
  BY <1>1, <1>2, SeqDef

(* The first newline is there if any is. *)
LEMMA FirstNewlineIs ==
  ASSUME NEW s \in Seq(Byte), Newlines(s) # {}
  PROVE  /\ FirstNewline(s) \in 1..Len(s) /\ s[FirstNewline(s)] = "n"
         /\ \A i \in Newlines(s) : FirstNewline(s) <= i
<1>1. Newlines(s) \subseteq 1..Len(s) /\ Len(s) \in Nat
  BY LenProperties DEF Newlines
<1>2. \E i \in Newlines(s) : \A j \in Newlines(s) : i <= j
  BY <1>1, LeastExists
<1>3. /\ FirstNewline(s) \in Newlines(s)
      /\ \A j \in Newlines(s) : FirstNewline(s) <= j
  BY <1>2 DEF FirstNewline
<1> QED
  BY <1>1, <1>3 DEF Newlines

(* The data begins in the file, or right behind it; at most one byte is      *)
(* added, and none to no data.                                               *)
LEMMA DataShape ==
  ASSUME file \in Seq(Byte)
  PROVE  /\ Len(file) \in Nat /\ Offset \in 0..Len(file)
         /\ DataBytes \in Nat /\ DataBytes = Len(file) - Offset
         /\ Terminator \in Seq(Byte) /\ Len(Terminator) \in {0, 1}
         /\ DataBytes = 0 => Len(Terminator) = 0
         /\ SubSeq(file, Offset + 1, Len(file)) \in Seq(Byte)
         /\ Len(SubSeq(file, Offset + 1, Len(file))) = DataBytes
         /\ Data \in Seq(Byte) /\ Len(Data) = DataBytes + Len(Terminator)
<1>1. Len(file) \in Nat /\ DOMAIN file = 1..Len(file) /\ \A i \in 1..Len(file) : file[i] \in Byte
  BY LenProperties, ElementOfSeq
<1>2. DataOffset(file) \in 0..Len(file)
  <2>1. HeaderSeen(file) => FirstNewline(file) \in 1..Len(file)
    BY FirstNewlineIs DEF HeaderSeen
  <2> QED
    BY <1>1, <2>1 DEF DataOffset
<1>3. Offset \in 0..Len(file) /\ DataBytes \in Nat /\ DataBytes = Len(file) - Offset
  BY <1>1, <1>2 DEF Offset, DataBytes
<1>4. <<"n">> \in Seq(Byte) /\ Len(<<"n">>) = 1 /\ <<>> \in Seq(Byte) /\ Len(<<>>) = 0
  BY DEF Byte
<1>5. /\ Terminator \in Seq(Byte) /\ Len(Terminator) \in {0, 1}
      /\ DataBytes = 0 => Len(Terminator) = 0
  BY <1>3, <1>4 DEF Terminator
<1>6. /\ SubSeq(file, Offset + 1, Len(file)) \in Seq(Byte)
      /\ Len(SubSeq(file, Offset + 1, Len(file))) = DataBytes
  <2>1. /\ SubSeq(file, Offset + 1, Len(file)) \in Seq(Byte)
        /\ Len(SubSeq(file, Offset + 1, Len(file)))
             = IF Offset + 1 <= Len(file) THEN Len(file) - (Offset + 1) + 1 ELSE 0
    BY <1>1, <1>3, SubSeqProperties
  <2>2. Offset + 1 <= Len(file) => Len(file) - (Offset + 1) + 1 = DataBytes
    BY <1>1, <1>3
  <2>3. ~(Offset + 1 <= Len(file)) => DataBytes = 0
    <3>1. \A l \in Nat : \A o \in 0..l : ~(o + 1 <= l) => l - o = 0
      OBVIOUS
    <3> QED
      BY <1>1, <1>3, <3>1
  <2> QED
    BY <2>1, <2>2, <2>3
<1>7. Data \in Seq(Byte) /\ Len(Data) = DataBytes + Len(Terminator)
  BY <1>5, <1>6, ConcatProperties DEF Data
<1> QED
  BY <1>1, <1>3, <1>5, <1>6, <1>7

(* Where the chunks lie in the data: all but the last are full, the last one *)
(* reaches its end, and each has something in it unless there is nothing.    *)
LEMMA ChunkBounds ==
  ASSUME file \in Seq(Byte)
  PROVE  /\ TotalChunks \in Nat \ {0}
         /\ Len(Data) = 0 => TotalChunks = 1
         /\ \A k \in 0..(TotalChunks - 1) :
              /\ k * ChunkSize \in Nat /\ (k + 1) * ChunkSize = k * ChunkSize + ChunkSize
              /\ k * ChunkSize <= DataBytes
              /\ k # TotalChunks - 1 => k * ChunkSize + ChunkSize <= DataBytes
              /\ k = TotalChunks - 1 => Len(Data) <= k * ChunkSize + ChunkSize
              /\ Len(Data) > 0 => k * ChunkSize < Len(Data)
<1> DEFINE n == DataBytes + Len(Terminator)
           q == (n + ChunkSize - 1) \div ChunkSize
<1>1. /\ n \in Nat /\ n = Len(Data) /\ DataBytes \in Nat /\ Len(Terminator) \in {0, 1}
      /\ DataBytes = 0 => Len(Terminator) = 0
      /\ ChunkSize \in Nat \ {0} /\ TotalChunks = IF q = 0 THEN 1 ELSE q
      /\ n = DataBytes + Len(Terminator) /\ q = (n + ChunkSize - 1) \div ChunkSize
  BY ConstantsAssumption, DataShape DEF TotalChunks, TotalOf, AtLeastOne
<1>5. DataBytes \in Nat /\ (n = DataBytes \/ n = DataBytes + 1)
  <2>1. DataBytes \in Nat /\ (Len(Terminator) = 0 \/ Len(Terminator) = 1)
    BY DataShape
  <2>2. \A x \in Nat : x + 0 = x
    OBVIOUS
  <2> QED
    BY <2>1, <2>2, Zenon
<1> HIDE DEF n, q
<1>2. /\ q \in Nat /\ n <= q * ChunkSize
      /\ n > 0 => q > 0 /\ (q - 1) * ChunkSize < n
      /\ n = 0 => q = 0
  BY <1>1, RoundsUp
<1>3. TotalChunks \in Nat \ {0} /\ (n = 0 => TotalChunks = 1)
  BY <1>1, <1>2
<1>4. ASSUME NEW k \in 0..(TotalChunks - 1)
      PROVE  /\ k * ChunkSize \in Nat /\ (k + 1) * ChunkSize = k * ChunkSize + ChunkSize
             /\ k * ChunkSize <= DataBytes
             /\ k # TotalChunks - 1 => k * ChunkSize + ChunkSize <= DataBytes
             /\ k = TotalChunks - 1 => n <= k * ChunkSize + ChunkSize
             /\ n > 0 => k * ChunkSize < n
  <2>1. CASE n = 0
    <3>1. k = 0 /\ TotalChunks = 1 /\ DataBytes = 0
      BY <1>1, <1>2, <1>3, <2>1
    <3> QED
      BY <1>1, <2>1, <3>1
  <2>2. CASE n > 0
    <3>1. TotalChunks = q /\ q \in Nat /\ q - 1 \in Nat /\ k \in Nat /\ k <= q - 1
      BY <1>1, <1>2, <2>2
    <3>2. /\ k * ChunkSize <= (q - 1) * ChunkSize /\ k * ChunkSize \in Nat
          /\ (q - 1) * ChunkSize \in Nat /\ (k + 1) * ChunkSize = k * ChunkSize + ChunkSize
      BY <1>1, <3>1, TimesGrows
    <3>3. (q - 1) * ChunkSize < n /\ (q - 1) * ChunkSize <= DataBytes
      <4>2. \A x \in Nat : x < n => x <= DataBytes
        BY <1>5
      <4> QED
        BY <1>2, <2>2, <3>2, <4>2
    <3>4. k # q - 1 => k * ChunkSize + ChunkSize <= (q - 1) * ChunkSize
      <4>1. SUFFICES ASSUME k # q - 1 PROVE (k + 1) * ChunkSize <= (q - 1) * ChunkSize
        BY <3>2
      <4>2. k + 1 <= q - 1 /\ k + 1 \in Nat
        <5> DEFINE m == q - 1
        <5>1. m \in Nat /\ k \in Nat /\ k <= m /\ k # m
          BY <3>1, <4>1
        <5> HIDE DEF m
        <5>2. k + 1 <= m /\ k + 1 \in Nat
          BY <5>1
        <5> QED
          BY <5>2 DEF m
      <4> QED
        BY <1>1, <3>1, <4>2, TimesGrows
    <3>5. k = q - 1 => n <= k * ChunkSize + ChunkSize
      <4>1. k = q - 1 => k + 1 = q
        BY <3>1
      <4> QED
        BY <1>2, <3>2, <4>1
    <3> QED
      BY <1>1, <3>1, <3>2, <3>3, <3>4, <3>5
  <2> QED
    BY <1>1, <2>1, <2>2
<1> QED
  BY <1>1, <1>3, <1>4
-----------------------------------------------------------------------------
(* A part of a tail, and the tail of a sequence that was added to. *)
LEMMA PartOfTail ==
  ASSUME NEW s \in Seq(Byte), NEW o \in Nat, NEW a \in Nat, NEW e \in Nat, a <= e, o + e <= Len(s)
  PROVE  SubSeq(s, o + a + 1, o + e) = SubSeq(SubSeq(s, o + 1, Len(s)), a + 1, e)
<1> DEFINE t == SubSeq(s, o + 1, Len(s))
           l == SubSeq(s, o + a + 1, o + e)
           r == SubSeq(t, a + 1, e)
<1>1. Len(s) \in Nat /\ \A i \in 1..Len(s) : s[i] \in Byte
  BY LenProperties, ElementOfSeq
<1>2. /\ t \in Seq(Byte) /\ \A i \in 1..(Len(s) - o) : t[i] = s[o + i] /\ t[i] \in Byte
  <2>1. /\ t \in Seq(Byte)
        /\ \A i \in 1..(Len(s) - (o + 1) + 1) : t[i] = s[(o + 1) + i - 1]
    <3>1. \A i \in (o + 1)..Len(s) : s[i] \in Byte
      BY <1>1
    <3> QED
      BY <1>1, <3>1, SubSeqProperties
  <2>2. \A i \in 1..(Len(s) - o) : i \in 1..(Len(s) - (o + 1) + 1) /\ (o + 1) + i - 1 = o + i /\ o + i \in 1..Len(s)
    BY <1>1
  <2> QED
    BY <1>1, <2>1, <2>2
<1>3. /\ l \in Seq(Byte) /\ Len(l) = e - a
      /\ \A i \in 1..(e - a) : l[i] = s[o + a + i]
  <2>1. \A i \in (o + a + 1)..(o + e) : s[i] \in Byte
    BY <1>1
  <2>2. /\ l \in Seq(Byte)
        /\ Len(l) = IF o + a + 1 <= o + e THEN (o + e) - (o + a + 1) + 1 ELSE 0
        /\ \A i \in 1..((o + e) - (o + a + 1) + 1) : l[i] = s[(o + a + 1) + i - 1]
    BY <2>1, SubSeqProperties
  <2>3. Len(l) = e - a
    BY <2>2
  <2>4. \A i \in 1..(e - a) : i \in 1..((o + e) - (o + a + 1) + 1) /\ (o + a + 1) + i - 1 = o + a + i
    OBVIOUS
  <2> QED
    BY <2>2, <2>3, <2>4
<1>4. /\ r \in Seq(Byte) /\ Len(r) = e - a
      /\ \A i \in 1..(e - a) : r[i] = t[a + i]
  <2>1. \A i \in (a + 1)..e : t[i] \in Byte
    <3>1. \A i \in (a + 1)..e : i \in 1..(Len(s) - o)
      BY <1>1
    <3> QED
      BY <1>2, <3>1
  <2> HIDE DEF t
  <2>2. /\ r \in Seq(Byte)
        /\ Len(r) = IF a + 1 <= e THEN e - (a + 1) + 1 ELSE 0
        /\ \A i \in 1..(e - (a + 1) + 1) : r[i] = t[(a + 1) + i - 1]
    BY <2>1, SubSeqProperties
  <2>3. Len(r) = e - a
    BY <2>2
  <2>4. \A i \in 1..(e - a) : i \in 1..(e - (a + 1) + 1) /\ (a + 1) + i - 1 = a + i
    OBVIOUS
  <2> QED
    BY <2>2, <2>3, <2>4
<1>5. \A i \in 1..(e - a) : l[i] = r[i]
  <2>1. \A i \in 1..(e - a) : a + i \in 1..(Len(s) - o) /\ o + (a + i) = o + a + i
    BY <1>1
  <2> HIDE DEF t, l, r
  <2> QED
    BY <1>2, <1>3, <1>4, <2>1
<1> HIDE DEF l, r
<1>6. l = r
  BY <1>3, <1>4, <1>5, SeqEqual
<1> QED
  BY <1>6 DEF l, r

LEMMA TailOfConcat ==
  ASSUME NEW s \in Seq(Byte), NEW t \in Seq(Byte), NEW a \in 0..Len(s)
  PROVE  SubSeq(s \o t, a + 1, Len(s \o t)) = SubSeq(s, a + 1, Len(s)) \o t
<1> DEFINE n == Len(s)
           m == Len(t)
           u == s \o t
           v == SubSeq(s, a + 1, n)
<1>1. n \in Nat /\ m \in Nat /\ \A i \in 1..n : s[i] \in Byte
  BY LenProperties, ElementOfSeq
<1>2. /\ u \in Seq(Byte) /\ Len(u) = n + m
      /\ \A i \in 1..(n + m) : u[i] = IF i <= n THEN s[i] ELSE t[i - n]
  BY ConcatProperties
<1>3. \A i \in 1..(n + m) : u[i] \in Byte
  BY <1>2, ElementOfSeq
<1>4. /\ v \in Seq(Byte) /\ Len(v) = n - a
      /\ \A i \in 1..(n - a) : v[i] = s[a + i]
  <2>1. \A i \in (a + 1)..n : s[i] \in Byte
    BY <1>1
  <2>2. /\ v \in Seq(Byte)
        /\ Len(v) = IF a + 1 <= n THEN n - (a + 1) + 1 ELSE 0
        /\ \A i \in 1..(n - (a + 1) + 1) : v[i] = s[(a + 1) + i - 1]
    BY <1>1, <2>1, SubSeqProperties
  <2>3. Len(v) = n - a /\ \A i \in 1..(n - a) : i \in 1..(n - (a + 1) + 1) /\ (a + 1) + i - 1 = a + i
    <3>1. a \in 0..n
      OBVIOUS
    <3> HIDE DEF v, n
    <3> QED
      BY <1>1, <2>2, <3>1
  <2> QED
    BY <2>2, <2>3
<1> HIDE DEF n, m, u, v
<1> DEFINE l == SubSeq(u, a + 1, n + m)
           r == v \o t
<1>5. n = Len(s) /\ a \in 0..n /\ m = Len(t)
  BY DEF n, m
<1>6. /\ l \in Seq(Byte) /\ Len(l) = n + m - a
      /\ \A i \in 1..(n + m - a) : l[i] = u[a + i]
  <2>1. \A i \in (a + 1)..(n + m) : u[i] \in Byte
    BY <1>1, <1>3, <1>5
  <2>2. /\ l \in Seq(Byte)
        /\ Len(l) = IF a + 1 <= n + m THEN (n + m) - (a + 1) + 1 ELSE 0
        /\ \A i \in 1..((n + m) - (a + 1) + 1) : l[i] = u[(a + 1) + i - 1]
    BY <1>1, <1>5, <2>1, SubSeqProperties
  <2>3. /\ Len(l) = n + m - a
        /\ \A i \in 1..(n + m - a) : i \in 1..((n + m) - (a + 1) + 1) /\ (a + 1) + i - 1 = a + i
    <3> HIDE DEF l
    <3> QED
      BY <1>1, <1>5, <2>2
  <2> QED
    BY <2>2, <2>3
<1>7. /\ r \in Seq(Byte) /\ Len(r) = n + m - a
      /\ \A i \in 1..(n + m - a) : r[i] = IF i <= n - a THEN v[i] ELSE t[i - (n - a)]
  <2>1. /\ r \in Seq(Byte) /\ Len(r) = Len(v) + Len(t)
        /\ \A i \in 1..(Len(v) + Len(t)) : r[i] = IF i <= Len(v) THEN v[i] ELSE t[i - Len(v)]
    BY <1>4, ConcatProperties
  <2>2. (n - a) + m = n + m - a
    BY <1>1, <1>5
  <2> QED
    BY <1>4, <1>5, <2>1, <2>2
<1> HIDE DEF l, r
<1>8. ASSUME NEW i \in 1..(n + m - a) PROVE l[i] = r[i]
  <2>1. a + i \in 1..(n + m) /\ l[i] = u[a + i]
    BY <1>1, <1>5, <1>6
  <2>2. CASE i <= n - a
    <3>1. a + i <= n /\ i \in 1..(n - a)
      BY <1>1, <1>5, <2>2
    <3> QED
      BY <1>2, <1>4, <1>7, <2>1, <2>2, <3>1
  <2>3. CASE ~(i <= n - a)
    <3>1. ~(a + i <= n) /\ (a + i) - n = i - (n - a)
      BY <1>1, <1>5, <2>3
    <3> QED
      BY <1>2, <1>7, <2>1, <2>3, <3>1
  <2> QED
    BY <2>2, <2>3
<1>9. l = r
  BY <1>6, <1>7, <1>8, SeqEqual
<1> QED
  BY <1>2, <1>5, <1>9 DEF l, r, u, v

(* What a handler reads and sends for a chunk is that chunk of the data, the *)
(* newline being read from no file.                                          *)
LEMMA ChunkIs ==
  ASSUME file \in Seq(Byte), chunk \in 0..(TotalChunks - 1)
  PROVE  ChunkBytes = ChunkAt(chunk)
<1> DEFINE C == ChunkSize
           O == Offset
           D == DataBytes
           L == Len(file)
           a == chunk * ChunkSize
           F == SubSeq(file, Offset + 1, Len(file))
           T == Len(Data)
<1>1. /\ C \in Nat \ {0} /\ O \in Nat /\ D \in Nat /\ L \in Nat /\ a \in Nat /\ O + D = L
      /\ T \in Nat /\ D <= T /\ a <= D /\ chunk \in Nat
      /\ IsLast => T <= a + C
      /\ ~IsLast => a + C <= D
  <2>1. C \in Nat \ {0} /\ O \in 0..L /\ L \in Nat /\ D \in Nat /\ D = L - O
    BY ConstantsAssumption, DataShape
  <2>2. T = D + Len(Terminator) /\ (Len(Terminator) = 0 \/ Len(Terminator) = 1)
    BY DataShape
  <2>3. /\ a \in Nat /\ a <= D /\ chunk \in Nat
        /\ chunk = TotalChunks - 1 => T <= a + C
        /\ chunk # TotalChunks - 1 => a + C <= D
    BY ChunkBounds
  <2>4. O \in Nat /\ O + D = L
    BY <2>1
  <2>5. T \in Nat /\ D <= T
    <3> HIDE DEF T, D
    <3> QED
      BY <2>1, <2>2
  <2> QED
    BY <2>1, <2>3, <2>4, <2>5 DEF IsLast
<1>2. /\ F \in Seq(Byte) /\ Len(F) = D /\ Terminator \in Seq(Byte) /\ Data = F \o Terminator
      /\ Data \in Seq(Byte)
  BY DataShape DEF Data
<1>3. /\ ChunkBytes = SubSeq(file, O + a + 1, Smaller(O + a + C, L)) \o (IF IsLast THEN Terminator ELSE <<>>)
      /\ ChunkAt(chunk) = SubSeq(F \o Terminator, a + 1, Smaller(a + C, T))
  BY <1>2 DEF ChunkBytes, ChunkAt
<1>4. \A e \in Nat : a <= e /\ O + e <= L => SubSeq(file, O + a + 1, O + e) = SubSeq(F, a + 1, e)
  BY <1>1, PartOfTail
<1> HIDE DEF C, O, D, L, a, F, T
<1>5. CASE ~IsLast
  <2>1. Smaller(O + a + C, L) = O + (a + C) /\ Smaller(a + C, T) = a + C
    BY <1>1, <1>5 DEF Smaller
  <2>2. SubSeq(file, O + a + 1, O + (a + C)) = SubSeq(F, a + 1, a + C)
    <3>1. a + C \in Nat /\ a <= a + C /\ O + (a + C) <= L
      BY <1>1, <1>5
    <3> QED
      BY <1>4, <3>1
  <2>3. SubSeq(F \o Terminator, a + 1, a + C) = SubSeq(F, a + 1, a + C)
    <3>1. a + 1 \in 1..Len(F) /\ a + C \in 1..Len(F)
      BY <1>1, <1>2, <1>5
    <3> QED
      BY <1>2, <3>1, SubSeqOfConcat1
  <2>4. SubSeq(F, a + 1, a + C) \in Seq(Byte)
    <3>1. \A i \in (a + 1)..(a + C) : F[i] \in Byte
      <4>1. \A i \in (a + 1)..(a + C) : i \in 1..Len(F)
        BY <1>1, <1>2, <1>5
      <4> QED
        BY <1>2, <4>1, ElementOfSeq
    <3> QED
      BY <1>1, <3>1, SubSeqProperties
  <2>5. SubSeq(F, a + 1, a + C) \o <<>> = SubSeq(F, a + 1, a + C)
    BY <2>4, ConcatEmptySeq
  <2> QED
    BY <1>3, <1>5, <2>1, <2>2, <2>3, <2>5
<1>6. CASE IsLast
  <2>1. Smaller(O + a + C, L) = O + D /\ Smaller(a + C, T) = T
    BY <1>1, <1>6 DEF Smaller
  <2>2. SubSeq(file, O + a + 1, O + D) = SubSeq(F, a + 1, D)
    BY <1>1, <1>4
  <2>3. SubSeq(F \o Terminator, a + 1, T) = SubSeq(F, a + 1, D) \o Terminator
    <3>1. a \in 0..Len(F)
      BY <1>1, <1>2
    <3>2. T = Len(F \o Terminator)
      BY <1>2 DEF T
    <3> QED
      BY <1>2, <3>1, <3>2, TailOfConcat
  <2> QED
    BY <1>3, <1>6, <2>1, <2>2, <2>3
<1> QED
  BY <1>5, <1>6

(* A chunk is no larger than the chunk size, and empty only if it is the one *)
(* chunk of an empty transfer.                                               *)
LEMMA ChunkFits ==
  ASSUME file \in Seq(Byte), NEW k \in 0..(TotalChunks - 1)
  PROVE  /\ Len(ChunkAt(k)) <= ChunkSize
         /\ ChunkAt(k) = <<>> => TotalChunks = 1
<1> DEFINE C == ChunkSize
           a == k * ChunkSize
           T == Len(Data)
           e == Smaller(a + C, T)
<1>1. /\ C \in Nat \ {0} /\ a \in Nat /\ T \in Nat /\ Data \in Seq(Byte)
      /\ T > 0 => a < T
      /\ T = 0 => TotalChunks = 1
  BY ConstantsAssumption, ChunkBounds, DataShape, LenProperties
<1>2. ChunkAt(k) = SubSeq(Data, a + 1, e)
  BY DEF ChunkAt
<1> HIDE DEF C, a
<1>3. e \in Nat /\ e <= a + C /\ e <= T /\ (T > 0 => a < e)
  <2> HIDE DEF T
  <2> QED
    BY <1>1 DEF Smaller
<1>4. Len(ChunkAt(k)) = IF a + 1 <= e THEN e - (a + 1) + 1 ELSE 0
  <2>1. \A i \in (a + 1)..e : Data[i] \in Byte
    <3>1. \A i \in (a + 1)..e : i \in 1..Len(Data)
      <4>1. T = Len(Data)
        OBVIOUS
      <4> HIDE DEF T, e
      <4> QED
        BY <1>1, <1>3, <4>1
    <3> QED
      BY <1>1, <3>1, ElementOfSeq
  <2> HIDE DEF e, T
  <2> QED
    BY <1>1, <1>2, <1>3, <2>1, SubSeqProperties
<1>5. Len(<<>>) = 0
  OBVIOUS
<1> HIDE DEF e, T
<1>6. Len(ChunkAt(k)) <= C
  BY <1>1, <1>3, <1>4
<1>7. T > 0 => Len(ChunkAt(k)) # 0
  BY <1>1, <1>3, <1>4
<1> QED
  BY <1>1, <1>5, <1>6, <1>7 DEF C

(* All the chunks in a row are the data. *)
LEMMA Assembles ==
  ASSUME file \in Seq(Byte), \A i \in 0..(TotalChunks - 1) : store[i] = ChunkAt(i)
  PROVE  Assembled = Data
<1> DEFINE C == ChunkSize
           N == Len(Data)
           T == TotalChunks
           seqs == [i \in 1..T |-> store[i - 1]]
           w == [i \in 1..T |-> SubSeq(Data, 1, Smaller(i * C, N))]
<1>1. /\ C \in Nat \ {0} /\ N \in Nat /\ T \in Nat \ {0} /\ Data \in Seq(Byte)
      /\ \A k \in 0..(T - 1) : /\ k * C \in Nat /\ (k + 1) * C = k * C + C /\ k * C <= N
                               /\ k = T - 1 => N <= k * C + C
  <2>1. /\ C \in Nat \ {0} /\ T \in Nat \ {0} /\ Data \in Seq(Byte) /\ N \in Nat /\ DataBytes \in Nat
        /\ \A k \in 0..(T - 1) : /\ k * C \in Nat /\ (k + 1) * C = k * C + C /\ k * C <= DataBytes
                                 /\ k = T - 1 => N <= k * C + C
    BY ConstantsAssumption, ChunkBounds, DataShape, LenProperties
  <2>2. DataBytes <= N
    <3>1. N = DataBytes + Len(Terminator) /\ (Len(Terminator) = 0 \/ Len(Terminator) = 1)
      BY DataShape
    <3> HIDE DEF N
    <3> QED
      BY <2>1, <3>1
  <2> HIDE DEF C, N, T
  <2> QED
    BY <2>1, <2>2
<1>2. \A k \in 0..(T - 1) : store[k] = SubSeq(Data, k * C + 1, Smaller(k * C + C, N))
  BY DEF ChunkAt
<1> HIDE DEF C, N, T
<1>3. Len(seqs) = T
  BY <1>1
<1>4. ASSUME NEW i \in 1..T
      PROVE  w[i] = IF i = 1 THEN seqs[i] ELSE w[i - 1] \o seqs[i]
  <2> DEFINE k == i - 1
             b == k * C
  <2>1. /\ k \in 0..(T - 1) /\ i = k + 1 /\ seqs[i] = store[k]
    BY <1>1
  <2>2. /\ b \in Nat /\ i * C = b + C /\ b <= N
    BY <1>1, <2>1
  <2>3. /\ w[i] = SubSeq(Data, 1, Smaller(b + C, N))
        /\ seqs[i] = SubSeq(Data, b + 1, Smaller(b + C, N))
    BY <1>2, <2>1, <2>2
  <2>4. CASE i = 1
    <3>1. b = 0 /\ b + 1 = 1
      BY <1>1, <2>4
    <3> QED
      BY <2>3, <2>4, <3>1
  <2>5. CASE i # 1
    <3>1. k \in 1..T
      BY <1>1, <2>5
    <3>2. w[k] = SubSeq(Data, 1, Smaller(b, N))
      BY <3>1
    <3> HIDE DEF b
    <3>3. Smaller(b, N) = b /\ Smaller(b + C, N) \in b..N
      BY <1>1, <2>2 DEF Smaller
    <3>4. SubSeq(Data, 1, b) \o SubSeq(Data, b + 1, Smaller(b + C, N)) = SubSeq(Data, 1, Smaller(b + C, N))
      <4>1. 1 \in 1..(Len(Data) + 1) /\ b \in (1 - 1)..Len(Data) /\ Smaller(b + C, N) \in b..Len(Data)
        BY <1>1, <2>2, <3>3 DEF N
      <4> QED
        BY <1>1, <4>1, ConcatAdjacentSubSeq
    <3> QED
      BY <2>3, <2>5, <3>2, <3>3, <3>4
  <2> QED
    BY <2>4, <2>5
<1>5. \A i \in 1..T : w[i] = IF i = 1 THEN seqs[i] ELSE w[i - 1] \o seqs[i]
  BY <1>4
<1>6. w[T] = Data
  <2>1. T - 1 \in 0..(T - 1) /\ T \in 1..T /\ (T - 1) + 1 = T
    BY <1>1
  <2>2. T * C \in Nat /\ N <= T * C
    BY <1>1, <2>1
  <2>3. Smaller(T * C, N) = N
    BY <1>1, <2>2 DEF Smaller
  <2>4. w[T] = SubSeq(Data, 1, N)
    BY <2>1, <2>3
  <2> QED
    BY <1>1, <2>4, SubSeqFull DEF N
<1> HIDE DEF seqs, w
<1>7. FlattenSeq(seqs) = w[T]
  BY <1>1, <1>3, <1>5, FlattenIs
<1> QED
  BY <1>6, <1>7 DEF Assembled, seqs, T
-----------------------------------------------------------------------------
(* What the server keeps is the first part of the data, each chunk in its    *)
(* place, and after CBOS nothing is missing below the chunk it is at.  A     *)
(* transfer goes on only where a strip found its header.                     *)
Kept ==
  /\ file \in File /\ lane \in Lanes
  /\ chunk \in 0..(TotalChunks - 1)
  /\ DOMAIN store \subseteq 0..chunk
  /\ \A i \in DOMAIN store : store[i] = ChunkAt(i)
  /\ lane = "cbos" => 0..(chunk - 1) \subseteq DOMAIN store
  /\ pc \in {"send", "done"} /\ lane = "nsdl" /\ strip => ~HeaderUnclear(file)
  /\ pc = "done" => DOMAIN store = 0..(TotalChunks - 1)

LEMMA FileStays ==
  ASSUME UNCHANGED config
  PROVE  /\ TotalChunks' = TotalChunks
         /\ \A i : ChunkAt(i)' = ChunkAt(i)
         /\ File' = File
BY DEF config, TotalChunks, ChunkAt, Data, TotalOf, AtLeastOne, DataBytes, Offset, Terminator, File, Smaller

LEMMA StartKept == Init => Kept
<1> SUFFICES ASSUME Init PROVE Kept
  OBVIOUS
<1>1. file \in Seq(Byte)
  BY FileIsSeq DEF Init
<1>2. TotalChunks \in Nat \ {0}
  BY <1>1, ChunkBounds
<1>3. DOMAIN store = {} /\ 0..(0 - 1) = {}
  BY DEF Init, Empty
<1> QED
  BY <1>2, <1>3 DEF Init, Kept

LEMMA BeginKept ==
  ASSUME Kept, Begin
  PROVE  Kept'
<1>1. file \in Seq(Byte)
  BY FileIsSeq DEF Kept
<1>2. TotalChunks \in Nat \ {0}
  BY <1>1, ChunkBounds
<1>3. UNCHANGED config /\ TotalChunks' = TotalChunks /\ File' = File
  BY FileStays DEF Begin
<1>4. DOMAIN store' = {} /\ chunk' = 0 /\ 0..(0 - 1) = {}
  BY DEF Begin, Empty
<1>5. HeaderUnclear(file)' = HeaderUnclear(file)
  BY <1>3 DEF config, HeaderUnclear, HeaderSeen, Newlines, FirstNewline
<1>6. pc' = "done" => FALSE
  BY DEF Begin
<1>7. pc' \in {"send", "done"} /\ lane = "nsdl" /\ strip => ~HeaderUnclear(file)
  BY DEF Begin
<1> QED
  BY <1>2, <1>3, <1>4, <1>5, <1>6, <1>7 DEF Kept, config

LEMMA RestartKept ==
  ASSUME Kept, Restart
  PROVE  Kept'
<1>1. UNCHANGED <<config, chunk, store>> /\ pc' = "begin"
  BY DEF Restart
<1>2. TotalChunks' = TotalChunks /\ File' = File /\ \A i : ChunkAt(i)' = ChunkAt(i)
  BY <1>1, FileStays
<1> QED
  BY <1>1, <1>2 DEF Kept, config

(* What the server has after it was sent a chunk. *)
LEMMA Served ==
  ASSUME Kept, SendChunk
  PROVE  /\ UNCHANGED config
         /\ DOMAIN store' \in {DOMAIN store, DOMAIN store \cup {chunk}}
         /\ \A i \in DOMAIN store' : store'[i] = ChunkAt(i)
<1>1. PICK verdict : Serve(verdict) /\ UNCHANGED config
  BY DEF SendChunk
<1>2. Keeps \/ UNCHANGED store
  BY <1>1 DEF Serve
<1>3. ChunkBytes = ChunkAt(chunk)
  BY FileIsSeq, ChunkIs DEF Kept
<1>4. CASE UNCHANGED store
  BY <1>1, <1>4 DEF Kept
<1>5. CASE Keeps
  <2>1. DOMAIN store' = DOMAIN store \cup {chunk}
    BY <1>5 DEF Keeps
  <2>2. \A i \in DOMAIN store' : store'[i] = IF i = chunk THEN ChunkBytes ELSE store[i]
    BY <1>5 DEF Keeps
  <2> QED
    BY <1>1, <1>3, <2>1, <2>2 DEF Kept
<1> QED
  BY <1>2, <1>4, <1>5

(* The transfer goes on past a chunk only when CBOS has it, or, on the other *)
(* lanes, ends when the server has as many as there are.                     *)
LEMMA TakenChunk ==
  ASSUME Kept, SendChunk, pc' = "done" \/ chunk' # chunk
  PROVE  /\ IF IsLast THEN pc' = "done" /\ chunk' = chunk ELSE pc' = "send" /\ chunk' = chunk + 1
         /\ lane = "cbos" => DOMAIN store' = DOMAIN store \cup {chunk}
         /\ lane # "cbos" /\ IsLast => Cardinality(DOMAIN store') = TotalChunks
<1>1. PICK verdict : /\ Serve(verdict)
                     /\ \/ Taken(verdict, store') /\ Advance
                        \/ ~Taken(verdict, store') /\ lane = "cbos" /\ RetryChunk
                        \/ ~Taken(verdict, store') /\ Abort
  BY DEF SendChunk
<1>2. pc = "send"
  BY DEF SendChunk
<1>3. Taken(verdict, store') /\ Advance
  BY <1>1, <1>2 DEF RetryChunk, Abort
<1>4. lane \in {"cbos", "dp", "nsdl"}
  BY ConstantsAssumption DEF Kept
<1>5. IF IsLast THEN pc' = "done" /\ chunk' = chunk ELSE pc' = "send" /\ chunk' = chunk + 1
  BY <1>2, <1>3 DEF Advance
<1>6. ASSUME lane = "cbos" PROVE DOMAIN store' = DOMAIN store \cup {chunk}
  <2>1. verdict \notin {"Failed", "lost"}
    BY <1>3, <1>6 DEF Taken, CbosTakes
  <2>2. Keeps
    BY <1>1, <1>6, <2>1 DEF Serve
  <2> QED
    BY <2>2 DEF Keeps
<1>7. ASSUME lane # "cbos", IsLast PROVE Cardinality(DOMAIN store') = TotalChunks
  BY <1>3, <1>4, <1>7 DEF Taken, DpTakes, NsdlTakes, Count
<1> QED
  BY <1>5, <1>6, <1>7

LEMMA SendKept ==
  ASSUME Kept, SendChunk
  PROVE  Kept'
<1> DEFINE T == TotalChunks
<1>1. T \in Nat \ {0} /\ chunk \in 0..(T - 1) /\ DOMAIN store \subseteq 0..chunk
  <2>1. file \in Seq(Byte)
    BY FileIsSeq DEF Kept
  <2> QED
    BY <2>1, ChunkBounds DEF Kept
<1>2. /\ UNCHANGED config
      /\ DOMAIN store' \in {DOMAIN store, DOMAIN store \cup {chunk}}
      /\ \A i \in DOMAIN store' : store'[i] = ChunkAt(i)
  BY Served
<1>3. TotalChunks' = T /\ File' = File /\ \A i : ChunkAt(i)' = ChunkAt(i)
  BY <1>2, FileStays
<1>4. HeaderUnclear(file)' = HeaderUnclear(file)
  BY <1>2 DEF config, HeaderUnclear, HeaderSeen, Newlines, FirstNewline
<1>5. pc = "send"
  BY DEF SendChunk
<1>6. DOMAIN store' \subseteq 0..chunk
  BY <1>1, <1>2
<1>7. \A i \in DOMAIN store' : store'[i] = ChunkAt(i)'
  BY <1>2, <1>3
<1> HIDE DEF T
<1>8. CASE pc' = "done" \/ chunk' # chunk
  <2>1. /\ IF IsLast THEN pc' = "done" /\ chunk' = chunk ELSE pc' = "send" /\ chunk' = chunk + 1
        /\ lane = "cbos" => DOMAIN store' = DOMAIN store \cup {chunk}
        /\ lane # "cbos" /\ IsLast => Cardinality(DOMAIN store') = T
    BY <1>8, TakenChunk DEF T
  <2>2. lane = "cbos" => 0..chunk \subseteq DOMAIN store'
    <3>1. lane = "cbos" => 0..(chunk - 1) \subseteq DOMAIN store
      BY DEF Kept
    <3>2. \A i \in 0..chunk : i = chunk \/ i \in 0..(chunk - 1)
      BY <1>1
    <3> QED
      BY <2>1, <3>1, <3>2
  <2>3. CASE IsLast
    <3>1. chunk = T - 1 /\ chunk' = chunk /\ pc' = "done"
      BY <2>1, <2>3 DEF IsLast, T
    <3>2. DOMAIN store' = 0..(T - 1)
      <4>1. CASE lane = "cbos"
        BY <1>6, <2>2, <3>1, <4>1
      <4>2. CASE lane # "cbos"
        <5>1. IsFiniteSet(0..(T - 1)) /\ Cardinality(0..(T - 1)) = T
          <6>1. 0 \in Int /\ T - 1 \in Int /\ 0 <= T - 1 /\ (T - 1) - 0 + 1 = T
            BY <1>1
          <6> QED
            BY <6>1, FS_Interval
        <5>2. Cardinality(DOMAIN store') = T /\ DOMAIN store' \subseteq 0..(T - 1)
          BY <1>6, <2>1, <2>3, <3>1, <4>2
        <5> QED
          BY <5>1, <5>2, FS_Subset
      <4> QED
        BY <4>1, <4>2
    <3>3. 0..(chunk' - 1) \subseteq DOMAIN store'
      BY <1>1, <3>1, <3>2
    <3> QED
      BY <1>1, <1>2, <1>3, <1>4, <1>5, <1>6, <1>7, <3>1, <3>2, <3>3 DEF Kept, config, T
  <2>4. CASE ~IsLast
    <3>1. chunk # T - 1 /\ chunk' = chunk + 1 /\ pc' = "send"
      BY <2>1, <2>4 DEF IsLast, T
    <3>2. chunk' \in 0..(T - 1) /\ chunk' - 1 = chunk
      BY <1>1, <3>1
    <3>3. DOMAIN store' \subseteq 0..chunk'
      BY <1>1, <1>6, <3>1
    <3> QED
      BY <1>2, <1>3, <1>4, <1>5, <1>7, <2>2, <3>1, <3>2, <3>3 DEF Kept, config, T
  <2> QED
    BY <2>3, <2>4
<1>9. CASE pc' # "done" /\ chunk' = chunk
  <2>1. DOMAIN store \subseteq DOMAIN store'
    BY <1>2
  <2> QED
    BY <1>1, <1>2, <1>3, <1>4, <1>5, <1>6, <1>7, <1>9, <2>1 DEF Kept, config, T
<1> QED
  BY <1>8, <1>9

LEMMA AlwaysKept == Spec => []Kept
<1>1. ASSUME Kept, [Next]_vars PROVE Kept'
  <2>1. CASE Begin
    BY <1>1, <2>1, BeginKept
  <2>2. CASE SendChunk
    BY <1>1, <2>2, SendKept
  <2>3. CASE Restart
    BY <1>1, <2>3, RestartKept
  <2>4. CASE UNCHANGED vars
    <3>1. UNCHANGED <<config, chunk, store, pc>>
      BY <2>4 DEF vars
    <3>2. TotalChunks' = TotalChunks /\ File' = File /\ \A i : ChunkAt(i)' = ChunkAt(i)
      BY <3>1, FileStays
    <3>3. HeaderUnclear(file)' = HeaderUnclear(file)
      BY <3>1 DEF config, HeaderUnclear, HeaderSeen, Newlines, FirstNewline
    <3> QED
      BY <1>1, <3>1, <3>2, <3>3 DEF Kept, config
  <2> QED
    BY <1>1, <2>1, <2>2, <2>3, <2>4 DEF Next
<1> QED
  BY <1>1, StartKept, PTL DEF Spec
-----------------------------------------------------------------------------
(* No chunk the server keeps is larger than the chunk size or, but for an    *)
(* empty transfer, empty.                                                    *)
LEMMA ChunksAreFull == Kept => ChunksFit
<1> SUFFICES ASSUME Kept, NEW i \in DOMAIN store
             PROVE  /\ Len(store[i]) <= ChunkSize
                    /\ store[i] = <<>> => TotalChunks = 1
  BY DEF ChunksFit
<1>1. file \in Seq(Byte)
  BY FileIsSeq DEF Kept
<1>2. i \in 0..(TotalChunks - 1)
  <2>1. TotalChunks \in Nat /\ chunk \in 0..(TotalChunks - 1) /\ i \in 0..chunk
    BY <1>1, ChunkBounds DEF Kept
  <2> HIDE DEF Kept
  <2> QED
    BY <2>1
<1>3. store[i] = ChunkAt(i)
  BY DEF Kept
<1> QED
  BY <1>1, <1>2, <1>3, ChunkFits

(* A transfer that is over leaves the server with the data, whole. *)
LEMMA DoneIsWhole ==
  ASSUME Kept, pc = "done"
  PROVE  /\ file \in Seq(Byte)
         /\ DOMAIN store = 0..(TotalChunks - 1)
         /\ Assembled = SubSeq(file, Offset + 1, Len(file)) \o Terminator
<1>1. file \in Seq(Byte)
  BY FileIsSeq DEF Kept
<1>2. DOMAIN store = 0..(TotalChunks - 1) /\ \A i \in 0..(TotalChunks - 1) : store[i] = ChunkAt(i)
  BY DEF Kept
<1> QED
  BY <1>1, <1>2, Assembles DEF Data

(* For every file, chunk size and retry budget, and any number of failed,    *)
(* lost and oddly answered chunks: what a transfer reported complete leaves  *)
(* on the server is the file, byte for byte, in chunks of the given size.    *)
THEOREM TransferIsWhole == Spec => []WholeFile
<1>1. Kept => WholeFile
  <2> SUFFICES ASSUME Kept, pc = "done", lane # "nsdl" \/ ~(strip \/ close)
               PROVE  DOMAIN store = 0..(TotalChunks - 1) /\ Assembled = file
    BY ChunksAreFull DEF WholeFile
  <2>1. Offset = 0 /\ Terminator = <<>>
    BY DEF Offset, Terminator
  <2>2. file \in Seq(Byte) /\ DOMAIN store = 0..(TotalChunks - 1)
        /\ Assembled = SubSeq(file, 0 + 1, Len(file)) \o <<>>
    BY <2>1, DoneIsWhole
  <2>3. SubSeq(file, 0 + 1, Len(file)) = file
    BY <2>2, SubSeqFull
  <2> QED
    BY <2>2, <2>3, ConcatEmptySeq
<1> QED
  BY <1>1, AlwaysKept, PTL

(* A byte added behind a sequence. *)
LEMMA OneMore ==
  ASSUME NEW s \in Seq(Byte)
  PROVE  /\ s \o <<"n">> \in Seq(Byte) /\ Len(s \o <<"n">>) = Len(s) + 1
         /\ Cardinality(Newlines(s \o <<"n">>)) = Cardinality(Newlines(s)) + 1
         /\ EndsWithNewline(s \o <<"n">>)
         /\ IsPrefix(s, s \o <<"n">>)
<1> DEFINE t == s \o <<"n">>
           n == Len(s)
<1>1. <<"n">> \in Seq(Byte) /\ Len(<<"n">>) = 1 /\ <<"n">>[1] = "n"
  BY DEF Byte
<1>2. n \in Nat /\ DOMAIN s = 1..n
  BY LenProperties
<1>3. /\ t \in Seq(Byte) /\ Len(t) = n + 1
      /\ \A i \in 1..(n + 1) : t[i] = IF i <= n THEN s[i] ELSE <<"n">>[i - n]
  BY <1>1, ConcatProperties
<1>4. DOMAIN t = 1..(n + 1)
  BY <1>3, LenProperties
<1> HIDE DEF t, n
<1>5. t[n + 1] = "n"
  <2>1. n + 1 \in 1..(n + 1) /\ ~(n + 1 <= n) /\ (n + 1) - n = 1
    BY <1>2
  <2> QED
    BY <1>1, <1>3, <2>1
<1>6. Newlines(t) = Newlines(s) \cup {n + 1}
  <2>1. \A i \in 1..n : i \in 1..(n + 1) /\ t[i] = s[i]
    BY <1>2, <1>3
  <2>2. \A i \in 1..(n + 1) : i \in 1..n \/ i = n + 1
    BY <1>2
  <2>3. n + 1 \in 1..(n + 1)
    BY <1>2
  <2> QED
    BY <1>2, <1>4, <1>5, <2>1, <2>2, <2>3 DEF Newlines
<1>7. Cardinality(Newlines(t)) = Cardinality(Newlines(s)) + 1
  <2>1. IsFiniteSet(1..n)
    BY <1>2, FS_Interval
  <2>2. Newlines(s) \subseteq 1..n /\ n + 1 \notin 1..n
    BY <1>2 DEF Newlines
  <2>3. IsFiniteSet(Newlines(s))
    BY <2>1, <2>2, FS_Subset
  <2> QED
    BY <1>6, <2>2, <2>3, FS_AddElement
<1>8. EndsWithNewline(t)
  BY <1>3, <1>5 DEF EndsWithNewline, Last
<1>9. IsPrefix(s, t)
  <2>1. SubSeq(s, 1, n) = SubSeq(t, 1, n)
    <3>1. CASE n = 0
      BY <3>1, SubSeqEmpty
    <3>2. CASE n # 0
      <4>1. 1 \in 1..Len(s) /\ n \in 1..Len(s)
        BY <1>2, <3>2 DEF n
      <4>2. SubSeq(t, 1, n) = SubSeq(s, 1, n)
        BY <1>1, <4>1, SubSeqOfConcat1 DEF t
      <4> QED
        BY <4>2
    <3> QED
      BY <3>1, <3>2
  <2>2. n <= n + 1
    BY <1>2
  <2> QED
    BY <1>3, <2>1, <2>2 DEF IsPrefix, n
<1> QED
  BY <1>3, <1>7, <1>8, <1>9 DEF t, n

(* Where a strip goes through, what it leaves are the rows behind the header.*)
LEMMA RowsBehind ==
  ASSUME file \in Seq(Byte), lane = "nsdl", strip, ~HeaderUnclear(file)
  PROVE  /\ SubSeq(file, Offset + 1, Len(file)) = Behind(file)
         /\ Behind(file) \in Seq(Byte) /\ Len(Behind(file)) = DataBytes
<1>1. Offset = DataOffset(file)
  BY DEF Offset
<1>2. Len(file) \in Nat /\ HeaderScan \in Nat
  BY ConstantsAssumption, LenProperties
<1>3. SubSeq(file, Offset + 1, Len(file)) = Behind(file)
  <2>1. CASE HeaderSeen(file)
    BY <1>1, <2>1 DEF HeaderSeen, DataOffset, Behind
  <2>2. CASE ~HeaderSeen(file)
    <3>1. Len(file) < HeaderScan
      BY <1>2, <2>2 DEF HeaderUnclear
    <3>2. Newlines(file) = {}
      <4>1. ASSUME Newlines(file) # {} PROVE FALSE
        <5>1. FirstNewline(file) \in 1..Len(file)
          BY <4>1, FirstNewlineIs
        <5>2. FirstNewline(file) <= HeaderScan
          BY <1>2, <3>1, <5>1
        <5> QED
          BY <2>2, <4>1, <5>2 DEF HeaderSeen
      <4> QED
        BY <4>1
    <3>3. Offset = Len(file)
      BY <1>1, <2>2 DEF DataOffset
    <3>4. SubSeq(file, Len(file) + 1, Len(file)) = <<>>
      BY <1>2, SubSeqEmpty
    <3> QED
      BY <3>2, <3>3, <3>4 DEF Behind
  <2> QED
    BY <2>1, <2>2
<1> QED
  BY <1>3, DataShape

(* The rows end as the file does. *)
LEMMA RowsEnd ==
  ASSUME file \in Seq(Byte), lane = "nsdl", strip, close, ~HeaderUnclear(file)
  PROVE  Terminator = IF EndsWithNewline(Behind(file)) THEN <<>> ELSE <<"n">>
<1> DEFINE F == Behind(file)
           n == Len(file)
           o == Offset
           d == DataBytes
<1>1. n \in Nat /\ o \in 0..n /\ d \in Nat /\ d = n - o
  BY DataShape
<1>2. F = SubSeq(file, o + 1, n) /\ F \in Seq(Byte) /\ Len(F) = d
  BY RowsBehind
<1>3. Terminator = IF d > 0 /\ ~EndsWithNewline(file) THEN <<"n">> ELSE <<>>
  BY DEF Terminator
<1> HIDE DEF F, o, d
<1>4. CASE d = 0
  <2>1. F = <<>>
    BY <1>2, <1>4, EmptySeq
  <2> QED
    BY <1>1, <1>3, <1>4, <2>1 DEF EndsWithNewline, F
<1>5. CASE d # 0
  <2>1. F[d] = file[n]
    <3>1. \A i \in (o + 1)..n : file[i] \in Byte
      <4>1. \A i \in (o + 1)..n : i \in 1..Len(file)
        BY <1>1
      <4> QED
        BY <4>1, ElementOfSeq
    <3>2. \A i \in 1..(n - (o + 1) + 1) : F[i] = file[(o + 1) + i - 1]
      BY <1>1, <1>2, <3>1, SubSeqProperties
    <3>3. d \in 1..(n - (o + 1) + 1) /\ (o + 1) + d - 1 = n
      <4> HIDE DEF n
      <4> QED
        BY <1>1, <1>5
    <3> QED
      BY <3>2, <3>3
  <2>2. F # <<>> /\ file # <<>>
    <3>1. n # 0
      <4> HIDE DEF n
      <4> QED
        BY <1>1, <1>5
    <3> QED
      BY <1>2, <1>5, <3>1
  <2>3. EndsWithNewline(F) <=> EndsWithNewline(file)
    BY <1>2, <2>1, <2>2 DEF EndsWithNewline, Last
  <2>4. d > 0
    BY <1>1, <1>5
  <2> QED
    BY <1>3, <2>3, <2>4 DEF F
<1> QED
  BY <1>4, <1>5

(* NSDL is left with every data row of the export, the last one closed, and  *)
(* with nothing besides, whatever the file, the chunk size, the header scan  *)
(* and the faults.                                                           *)
THEOREM RowsArrive == Spec => []RowsKept
<1>1. Kept => RowsKept
  <2> SUFFICES ASSUME Kept, pc = "done", lane = "nsdl", strip, close
               PROVE  /\ DOMAIN store = 0..(TotalChunks - 1)
                      /\ Cardinality(Newlines(Assembled)) = DataRows(file)
                      /\ EndsWithNewline(Assembled)
                      /\ IsPrefix(Behind(file), Assembled)
    BY DEF RowsKept
  <2> DEFINE F == Behind(file)
  <2>1. file \in Seq(Byte) /\ ~HeaderUnclear(file)
    BY DoneIsWhole DEF Kept
  <2>2. F \in Seq(Byte) /\ DOMAIN store = 0..(TotalChunks - 1) /\ Assembled = F \o Terminator
    BY <2>1, DoneIsWhole, RowsBehind
  <2>3. Terminator = IF EndsWithNewline(F) THEN <<>> ELSE <<"n">>
    BY <2>1, RowsEnd
  <2>4. DataRows(file) = Cardinality(Newlines(F)) + IF EndsWithNewline(F) THEN 0 ELSE 1
    BY DEF DataRows
  <2>5. Len(F) \in Nat /\ Cardinality(Newlines(F)) \in Nat
    <3>1. Len(F) \in Nat /\ DOMAIN F = 1..Len(F)
      BY <2>2, LenProperties
    <3>2. IsFiniteSet(1..Len(F)) /\ Newlines(F) \subseteq 1..Len(F)
      BY <3>1, FS_Interval DEF Newlines
    <3> QED
      BY <3>1, <3>2, FS_Subset, FS_CardinalityType
  <2> HIDE DEF F
  <2>6. CASE EndsWithNewline(F)
    <3>1. Assembled = F
      BY <2>2, <2>3, <2>6, ConcatEmptySeq
    <3>2. IsPrefix(F, F)
      BY <2>5 DEF IsPrefix
    <3>3. Cardinality(Newlines(F)) = DataRows(file)
      BY <2>4, <2>5, <2>6
    <3> QED
      BY <2>2, <2>6, <3>1, <3>2, <3>3 DEF F
  <2>7. CASE ~EndsWithNewline(F)
    <3>1. Assembled = F \o <<"n">>
      BY <2>2, <2>3, <2>7
    <3>2. /\ Cardinality(Newlines(Assembled)) = DataRows(file)
          /\ EndsWithNewline(Assembled)
          /\ IsPrefix(F, Assembled)
      BY <2>2, <2>4, <2>7, <3>1, OneMore
    <3> QED
      BY <2>2, <3>2 DEF F
  <2> QED
    BY <2>6, <2>7
<1> QED
  BY <1>1, AlwaysKept, PTL
=============================================================================
