---------------------------- MODULE ChunkTransfer ----------------------------
(***************************************************************************)
(* One file on its way through a chunk endpoint, as each of the three      *)
(* clients sends it: the CBOS client tries every chunk again on its own,   *)
(* the DP and NSDL clients give the transfer up and leave it to the caller *)
(* to start anew under a new GUID.  NSDL takes data rows only, and loads   *)
(* no row that is not closed by a newline.                                 *)
(*                                                                         *)
(* A file is a sequence of bytes, "n" being the newline; the first line of *)
(* an NSDL export is its header.  The byte order mark is left out.         *)
(***************************************************************************)
EXTENDS Naturals, Sequences, FiniteSets, SequencesExt

CONSTANTS
  Lanes,       \* subset of {"cbos", "dp", "nsdl"}
  MaxSize,     \* bound: bytes of a file
  ChunkSize,   \* settings.*chunk*_size_kb, in bytes
  HeaderScan,  \* _HEADER_SCAN_BYTES
  Retries,     \* settings.cbos_chunk_retry_attempts
  MaxFault     \* bound: chunks that fail, are lost or answered oddly

ASSUME ConstantsAssumption ==
  /\ Lanes \subseteq {"cbos", "dp", "nsdl"}
  /\ MaxSize \in Nat /\ HeaderScan \in Nat \ {0}
  /\ ChunkSize \in Nat \ {0} /\ Retries \in Nat \ {0}
  /\ MaxFault \in Nat

VARIABLES
  lane, file,
  strip, close,  \* nsdl_speede_strip_header, nsdl_speede_append_trailing_newline
  pc,
  chunk,         \* current_chunk, from 0
  tries,         \* attempts at this chunk
  store,         \* the server: chunks it keeps under this GUID
  faults

config == <<lane, file, strip, close>>
vars == <<config, pc, chunk, tries, store, faults>>
-----------------------------------------------------------------------------
Byte == {"a", "n"}
File == UNION {[1..size -> Byte] : size \in 0..MaxSize}
Empty == [i \in {} |-> <<>>]

(* data_offset(): past the first line; the whole file if it is only that.   *)
Newlines(s) == {i \in DOMAIN s : s[i] = "n"}
FirstNewline(s) == CHOOSE i \in Newlines(s) : \A j \in Newlines(s) : i <= j
HeaderSeen(s) == Newlines(s) # {} /\ FirstNewline(s) <= HeaderScan
HeaderUnclear(s) == ~HeaderSeen(s) /\ Len(s) >= HeaderScan
DataOffset(s) == IF HeaderSeen(s) THEN FirstNewline(s) ELSE Len(s)

Offset == IF lane = "nsdl" /\ strip THEN DataOffset(file) ELSE 0
DataBytes == Len(file) - Offset
EndsWithNewline(s) == s = <<>> \/ Last(s) = "n"

(* Faulty: the newline is added to every file. *)
TerminatorAlways == IF lane = "nsdl" /\ close THEN <<"n">> ELSE <<>>

(* A last row left open is closed; a header-only export stays empty. *)
Terminator ==
  IF lane = "nsdl" /\ close /\ DataBytes > 0 /\ ~EndsWithNewline(file) THEN <<"n">> ELSE <<>>

AtLeastOne(n) == IF n = 0 THEN 1 ELSE n
TotalOf(size) == AtLeastOne((size + ChunkSize - 1) \div ChunkSize)
TotalChunks == TotalOf(DataBytes + Len(Terminator))
IsLast == chunk = TotalChunks - 1

(* handle.read(chunk_size), from where the last read ended. *)
Smaller(a, b) == IF a < b THEN a ELSE b
ChunkBytes ==
  LET from == Offset + chunk * ChunkSize
  IN  SubSeq(file, from + 1, Smaller(from + ChunkSize, Len(file))) \o (IF IsLast THEN Terminator ELSE <<>>)

Init ==
  /\ lane \in Lanes /\ file \in File
  /\ strip \in BOOLEAN /\ close \in BOOLEAN
  /\ lane # "nsdl" => strip /\ close
  /\ pc = "begin"
  /\ chunk = 0 /\ tries = 1
  /\ store = Empty
  /\ faults = 0
-----------------------------------------------------------------------------
(* A new GUID.  A first line that does not end is no SPEED-e export. *)
Begin ==
  /\ pc = "begin"
  /\ pc' = IF lane = "nsdl" /\ strip /\ HeaderUnclear(file) THEN "error" ELSE "send"
  /\ chunk' = 0 /\ tries' = 1 /\ store' = Empty
  /\ UNCHANGED <<config, faults>>

(* What the server keeps and what it answers, or that no answer comes.  An  *)
(* odd Status may hide that DP or NSDL kept nothing, and their count tells; *)
(* CBOS is taken to keep every chunk it does not call failed, since its     *)
(* client has nothing else to go by.                                        *)
Keeps == store' = [i \in DOMAIN store \cup {chunk} |-> IF i = chunk THEN ChunkBytes ELSE store[i]]
Count(s) == Cardinality(DOMAIN s)
Good == IF IsLast THEN "FileUploaded" ELSE "ChunkUploaded"
Faulty == faults < MaxFault /\ faults' = faults + 1

Serve(verdict) ==
  \/ verdict = Good /\ Keeps /\ UNCHANGED faults
  \/ verdict = "Failed" /\ UNCHANGED store /\ Faulty
  \/ verdict = "lost" /\ (Keeps \/ UNCHANGED store) /\ Faulty
  \/ verdict = "odd" /\ Keeps /\ Faulty
  \/ verdict = "odd" /\ lane # "cbos" /\ UNCHANGED store /\ Faulty

(* The CBOS client looks at Status only, and so does not at fCount. *)
CbosTakes(verdict) == verdict \notin {"Failed", "lost"}

(* An unexpected Status before the last chunk is logged, no more. *)
DpTakes(verdict, stored) ==
  IF IsLast THEN verdict = "FileUploaded" /\ Count(stored) = TotalChunks
  ELSE verdict \notin {"Failed", "lost"}

NsdlTakes(verdict, stored) ==
  IF IsLast THEN verdict = "FileUploaded" /\ Count(stored) = TotalChunks
  ELSE verdict = "ChunkUploaded"

Taken(verdict, stored) ==
  CASE lane = "cbos" -> CbosTakes(verdict)
    [] lane = "dp"   -> DpTakes(verdict, stored)
    [] lane = "nsdl" -> NsdlTakes(verdict, stored)

Advance ==
  /\ IF IsLast THEN pc' = "done" /\ UNCHANGED chunk ELSE chunk' = chunk + 1 /\ UNCHANGED pc
  /\ tries' = 1

(* Faulty: the retry reads on in the file. *)
RetryNext ==
  /\ tries < Retries
  /\ tries' = tries + 1
  /\ IF IsLast THEN UNCHANGED chunk ELSE chunk' = chunk + 1
  /\ UNCHANGED pc

(* The chunk again, up to cbos_chunk_retry_attempts. *)
RetryChunk ==
  /\ tries < Retries
  /\ tries' = tries + 1
  /\ UNCHANGED <<pc, chunk>>

Abort ==
  /\ lane = "cbos" => tries = Retries
  /\ pc' = "error"
  /\ UNCHANGED <<chunk, tries>>

SendChunk ==
  /\ pc = "send"
  /\ \E verdict \in {"ChunkUploaded", "FileUploaded", "Failed", "lost", "odd"} :
       /\ Serve(verdict)
       /\ \/ Taken(verdict, store') /\ Advance
          \/ ~Taken(verdict, store') /\ lane = "cbos" /\ RetryChunk
          \/ ~Taken(verdict, store') /\ Abort
  /\ UNCHANGED config

(* The caller tries the file again: DP from Step 3, the others on a later   *)
(* run or POST.                                                             *)
Restart ==
  /\ pc = "error"
  /\ pc' = "begin"
  /\ UNCHANGED <<config, chunk, tries, store, faults>>

Next == Begin \/ SendChunk \/ Restart
Spec == Init /\ [][Next]_vars
-----------------------------------------------------------------------------
(* What the server puts together from the chunks it keeps. *)
Assembled == FlattenSeq([i \in 1..TotalChunks |-> store[i - 1]])

(* No chunk is larger than the chunk size, and none is empty unless there   *)
(* is nothing to send.                                                      *)
ChunksFit ==
  \A i \in DOMAIN store :
    /\ Len(store[i]) <= ChunkSize
    /\ store[i] = <<>> => TotalChunks = 1

(* A transfer that is reported complete is complete: the server has every   *)
(* chunk, in place, and together they are the file, byte for byte, after    *)
(* any retried, repeated, refused and lost chunks; and what it was sent in  *)
(* were chunks of the configured size.                                      *)
WholeFile ==
  /\ ChunksFit
  /\ pc = "done" /\ (lane # "nsdl" \/ ~(strip \/ close)) =>
       DOMAIN store = 0..(TotalChunks - 1) /\ Assembled = file

(* NSDL discards a last line that is not closed.  With both settings on it  *)
(* loads every data row of the export and none besides: not the header, not *)
(* an empty row for a day without data, and no row is lost at the end.      *)
Behind(s) == IF Newlines(s) = {} THEN <<>> ELSE SubSeq(s, FirstNewline(s) + 1, Len(s))
DataRows(s) == Cardinality(Newlines(Behind(s))) + IF EndsWithNewline(Behind(s)) THEN 0 ELSE 1
RowsKept ==
  pc = "done" /\ lane = "nsdl" /\ strip /\ close =>
    /\ DOMAIN store = 0..(TotalChunks - 1)
    /\ Cardinality(Newlines(Assembled)) = DataRows(file)
    /\ EndsWithNewline(Assembled)
    /\ IsPrefix(Behind(file), Assembled)
=============================================================================
