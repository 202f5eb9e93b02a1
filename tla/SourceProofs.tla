---------------------------- MODULE SourceProofs ----------------------------
(***************************************************************************)
(* The buffer of scanner/source.go is correct for every input, every       *)
(* reader, every minimal and maximal buffer size and every retry limit.    *)
(***************************************************************************)
EXTENDS Source, TLAPS

\* The inductive invariant.  WindowIntact needs the other parts: the fast path
\* stays inside the window because the sentinel is in place, and the sentinel
\* can be placed because Read has room.
IInv == TypeOK /\ WindowIntact /\ SentinelInPlace /\ ReadHasRoom

-----------------------------------------------------------------------------
\* A decoded rune is one of the model's runes and no wider than its bytes.
LEMMA DecodeRuneRange ==
  ASSUME NEW p \in Seq(Byte), Len(p) > 0
  PROVE  /\ DecodeRune(p).ch \in Rune
         /\ DecodeRune(p).w \in 1..Len(p)
         /\ DecodeRune(p).w <= 3
<1>1. WellFormed(p) \in 1..Len(p)
  BY DEF WellFormed
<1>2. Announced(p[1]) \in 1..3
  BY DEF Announced
<1>3. CASE p[1] \in Ascii
  BY <1>3 DEF DecodeRune, Ascii, Rune
<1>4. CASE p[1] \notin Ascii /\ (Announced(p[1]) = 1 \/ WellFormed(p) < Announced(p[1]))
  BY <1>4 DEF DecodeRune, Rune
<1>5. CASE p[1] \notin Ascii /\ ~(Announced(p[1]) = 1 \/ WellFormed(p) < Announced(p[1]))
  BY <1>1, <1>2, <1>5 DEF DecodeRune, Rune
<1> QED BY <1>3, <1>4, <1>5

\* The sentinel is no ASCII byte.
LEMMA SentinelNotAscii == Sentinel \notin Ascii
  BY DEF Sentinel, Ascii

\* NextSize makes room for a buffer that is full.
LEMMA NextSizeGrows ==
  ASSUME NEW size \in Nat, size >= MinBuf
  PROVE  NextSize(size) \in Nat /\ NextSize(size) > size
  BY BufferAssumption DEF NextSize

\* One more report keeps the list of reports well formed.
LEMMA ReportType ==
  ASSUME said \in Reports, NEW msg \in Complaints, NEW l \in Nat, NEW c \in Int
  PROVE  Report(msg, l, c) \in Reports
  BY DEF Reports, Report

-----------------------------------------------------------------------------
\* init leaves an empty window, with the sentinel at its end.
LEMMA InitIInv == Init => IInv
<1> SUFFICES ASSUME Init PROVE IInv
  OBVIOUS
<1>1. cap = MinBuf /\ cap \in Nat /\ cap >= 3
  BY BufferAssumption DEF Init, NextSize
<1>2. TypeOK
  BY <1>1, InputsAssumption, RetryAssumption
  DEF Init, TypeOK, Byte, Ascii, Sentinel, EOF, Reports
<1>3. WindowIntact /\ SentinelInPlace /\ ReadHasRoom
  BY <1>1 DEF Init, WindowIntact, Kept, SentinelInPlace, ReadHasRoom
<1> QED BY <1>2, <1>3 DEF IInv

-----------------------------------------------------------------------------
(***************************************************************************)
(* Every step preserves the invariant: one lemma per action, or per group  *)
(* of actions that disturb the same parts.                                 *)
(***************************************************************************)

\* What the caller does between two runs of nextch (init, start, stop, rewind and
\* the call itself) keeps the window.
LEMMA CallerStep ==
  ASSUME IInv, Caller
  PROVE  IInv'
<1> USE DEF IInv
<1>1. CASE Reinit
  <2>1. TypeOK'
    BY <1>1, InputsAssumption DEF Reinit, TypeOK, EOF, Sentinel, Reports
  <2>2. WindowIntact' /\ SentinelInPlace' /\ ReadHasRoom'
    BY <1>1, BufferAssumption
    DEF Reinit, TypeOK, WindowIntact, Kept, SentinelInPlace, ReadHasRoom
  <2> QED BY <2>1, <2>2
<1>2. CASE Start
  <2>1. TypeOK'
    BY <1>2 DEF Start, reader, rune, TypeOK, WindowIntact, Kept
  <2>2. WindowIntact' /\ SentinelInPlace' /\ ReadHasRoom'
    BY <1>2 DEF Start, reader, rune, TypeOK, WindowIntact, Kept, Base,
                SentinelInPlace, ReadHasRoom
  <2> QED BY <2>1, <2>2
<1>3. CASE Stop
  <2>1. TypeOK'
    BY <1>3 DEF Stop, reader, rune, TypeOK
  <2>2. WindowIntact' /\ SentinelInPlace' /\ ReadHasRoom'
    BY <1>3 DEF Stop, reader, rune, TypeOK, WindowIntact, Kept, Base,
                SentinelInPlace, ReadHasRoom
  <2> QED BY <2>1, <2>2
<1>4. CASE CallNextch
  <2>1. TypeOK'
    BY <1>4 DEF CallNextch, reader, buffer, rune, TypeOK, Reports
  <2>2. WindowIntact' /\ SentinelInPlace' /\ ReadHasRoom'
    BY <1>4 DEF CallNextch, reader, buffer, rune, TypeOK, WindowIntact, Kept,
                Base, SentinelInPlace, ReadHasRoom
  <2> QED BY <2>1, <2>2
<1>5. CASE CallRewind
  <2>1. TypeOK'
    BY <1>5 DEF CallRewind, reader, TypeOK, Reports
  <2>2. WindowIntact' /\ SentinelInPlace' /\ ReadHasRoom'
    BY <1>5 DEF CallRewind, reader, TypeOK, WindowIntact, Kept, Base,
                SentinelInPlace, ReadHasRoom
  <2> QED BY <2>1, <2>2
<1> QED BY <1>1, <1>2, <1>3, <1>4, <1>5 DEF Caller

\* The fast path of nextch takes an ASCII byte of the window.
LEMMA FastPathStep ==
  ASSUME IInv, FastPath
  PROVE  IInv'
<1> USE DEF IInv
<1>1. r < e
  BY SentinelNotAscii DEF FastPath, TypeOK, SentinelInPlace
<1>2. TypeOK'
  <2>1. line' \in Nat /\ col' \in Int
    BY DEF FastPath, Advance, TypeOK
  <2>2. said' \in Reports
    BY <2>1, ReportType DEF FastPath, TypeOK, Complaints
  <2>3. ch' \in Byte
    BY DEF FastPath, Byte
  <2> QED BY <1>1, <2>1, <2>2, <2>3 DEF FastPath, TypeOK, reader
<1>3. WindowIntact'
  BY <1>1 DEF FastPath, reader, TypeOK, WindowIntact, Kept, Base
<1>4. SentinelInPlace' /\ ReadHasRoom'
  BY DEF FastPath, SentinelInPlace, ReadHasRoom
<1> QED BY <1>2, <1>3, <1>4

\* The slow path decides whether fill is needed, and moves nothing.
LEMMA SlowPathStep ==
  ASSUME IInv, SlowPath
  PROVE  IInv'
<1> USE DEF IInv
<1>1. line' \in Nat /\ col' \in Int
  BY DEF SlowPath, Advance, TypeOK
<1>2. ch' \in Byte \cup {Sentinel}
  BY DEF SlowPath, TypeOK
<1>3. TypeOK'
  BY <1>1, <1>2 DEF SlowPath, reader, buffer, TypeOK
<1>4. WindowIntact' /\ SentinelInPlace' /\ ReadHasRoom'
  BY DEF SlowPath, reader, buffer, TypeOK, WindowIntact, Kept, Base,
         SentinelInPlace, ReadHasRoom
<1> QED BY <1>3, <1>4

\* fill moves what is kept to the front; the window keeps its input offset.
LEMMA FillStep ==
  ASSUME IInv, Fill
  PROVE  IInv'
<1> USE DEF IInv
<1> DEFINE keep == IF b >= 0 THEN b ELSE r
           len  == e - keep
           grow == len * 2 > cap
<1>1. keep \in Nat /\ keep <= r /\ len \in Nat /\ len < cap /\ len = e - keep /\ e \in Nat
  BY DEF TypeOK
<1>2. cap' \in Nat /\ cap' >= cap /\ len < cap' - 1
  <2>1. CASE grow
    BY <1>1, <2>1, NextSizeGrows DEF Fill, TypeOK
  <2>2. CASE ~grow
    BY <1>1, <2>2, BufferAssumption DEF Fill, TypeOK
  <2> QED BY <2>1, <2>2
<1>3. PICK n \in Nat : cap' = n
  BY <1>2
<1>4. buf' = [i \in 0..n - 1 |-> IF i < len THEN buf[keep + i]
                                ELSE IF grow THEN "nul" ELSE buf[i]]
  BY <1>3 DEF Fill
<1>5. buf' \in [0..n - 1 -> Byte \cup {Sentinel}]
  <2> SUFFICES ASSUME NEW i \in 0..n - 1
               PROVE  buf'[i] \in Byte \cup {Sentinel}
    BY <1>4
  <2>1. CASE i < len
    BY <1>1, <1>4, <2>1 DEF TypeOK
  <2>2. CASE ~(i < len) /\ grow
    BY <1>4, <2>2 DEF Byte, Ascii
  <2>3. CASE ~(i < len) /\ ~grow
    <3>1. n = cap
      BY <1>3, <2>3 DEF Fill
    <3> QED BY <1>4, <2>3, <3>1 DEF TypeOK
  <2> QED BY <2>1, <2>2, <2>3
<1>6. /\ b' = (IF b >= 0 THEN 0 ELSE b) /\ r' = r - keep /\ e' = len
      /\ tries' = 0 /\ pc' = "read"
      /\ UNCHANGED <<reader, ioerr, rune, said>>
  BY DEF Fill
<1>. HIDE DEF keep, len, grow
<1>7. TypeOK'
  <2>1. -1 <= b' /\ b' <= r' /\ b' \in Int /\ r' \in Nat /\ r' <= e' /\ e' <= taken
    BY <1>1, <1>6 DEF TypeOK, keep
  <2>2. tries' \in 0..MaxEmptyReads /\ cap' >= MinBuf /\ e' < cap' /\ e' \in Nat
    BY <1>1, <1>2, <1>6, RetryAssumption, BufferAssumption DEF TypeOK
  <2> QED BY <1>2, <1>3, <1>5, <1>6, <2>1, <2>2 DEF reader, rune, TypeOK
<1>8. WindowIntact'
  <2>1. Kept = keep /\ Kept' = 0
    BY <1>6 DEF Fill, Kept, TypeOK, keep
  <2>2. ASSUME NEW i \in 0..len - 1
        PROVE  buf'[i] = input'[Base' + i + 1]
    <3>1. buf'[i] = buf[keep + i]
      <4>1. i \in 0..n - 1 /\ i < len
        BY <1>1, <1>2, <1>3
      <4> QED  BY <1>4, <4>1
    <3>2. keep + i \in Kept..e - 1
      BY <1>1, <1>6, <2>1
    <3>3. Base' + i + 1 = Base + (keep + i) + 1 /\ input' = input
      BY <1>1, <1>6 DEF Base, reader, TypeOK
    <3> QED BY <3>1, <3>2, <3>3 DEF WindowIntact
  <2> QED BY <1>6, <2>1, <2>2 DEF WindowIntact
<1>9. SentinelInPlace' /\ ReadHasRoom'
  BY <1>1, <1>2, <1>3, <1>6 DEF SentinelInPlace, ReadHasRoom
<1> QED BY <1>7, <1>8, <1>9

\* The bytes a Read returns continue the window.
LEMMA ReadStep ==
  ASSUME IInv, Read
  PROVE  IInv'
<1> USE DEF IInv
<1>1. PICK n \in 0..Len(input) - taken, err \in Answers :
        /\ n <= cap - 1 - e
        /\ buf' = [i \in 0..cap - 1 |->
                     IF i \in e..e + n - 1 THEN input[taken + i - e + 1]
                     ELSE IF i = e + n THEN Sentinel ELSE buf[i]]
        /\ e' = e + n /\ taken' = taken + n /\ ioerr' = err
  BY DEF Read
<1>2. input \in Seq(Byte) /\ Len(input) \in Nat /\ taken \in Nat
  BY InputsAssumption DEF TypeOK
<1>3. buf' \in [0..cap - 1 -> Byte \cup {Sentinel}]
  <2> SUFFICES ASSUME NEW i \in 0..cap - 1
               PROVE  buf'[i] \in Byte \cup {Sentinel}
    BY <1>1
  <2>1. CASE i \in e..e + n - 1
    <3>1. taken + i - e + 1 \in 1..Len(input)
      BY <1>1, <1>2, <2>1 DEF TypeOK
    <3> QED BY <1>1, <1>2, <2>1, <3>1
  <2>2. CASE i \notin e..e + n - 1
    BY <1>1, <2>2 DEF TypeOK
  <2> QED BY <2>1, <2>2
<1>4. TypeOK'
  BY <1>1, <1>2, <1>3, AnswersAssumption DEF Read, rune, TypeOK
<1>5. WindowIntact'
  <2>1. Kept' = Kept /\ Kept \in Nat /\ Kept <= e
    BY DEF Read, Kept, TypeOK, rune
  <2>2. Base' = Base
    BY <1>1, <1>2 DEF Base, TypeOK
  <2>3. ASSUME NEW i \in Kept..e' - 1
        PROVE  buf'[i] = input[Base + i + 1]
    <3>1. CASE i < e
      <4>1. buf'[i] = buf[i]
        BY <1>1, <2>1, <3>1 DEF TypeOK
      <4> QED  BY <2>1, <3>1, <4>1 DEF WindowIntact, TypeOK
    <3>2. CASE i >= e
      <4>1. i \in e..e + n - 1 /\ i \in 0..cap - 1
        BY <1>1, <2>1, <3>2 DEF TypeOK
      <4> QED  BY <1>1, <1>2, <4>1 DEF Base, TypeOK
    <3> QED BY <2>1, <3>1, <3>2 DEF TypeOK
  <2> QED BY <2>1, <2>2, <2>3 DEF WindowIntact, Read
<1>6. SentinelInPlace' /\ ReadHasRoom'
  <2>1. e + n \in 0..cap - 1 /\ e + n \notin e..e + n - 1
    BY <1>1, <1>2 DEF TypeOK
  <2>2. buf'[e + n] = Sentinel
    BY <1>1, <2>1
  <2> QED BY <1>1, <2>2 DEF Read, SentinelInPlace, ReadHasRoom
<1> QED BY <1>4, <1>5, <1>6

\* A Read without bytes leaves the window and puts the sentinel back.
LEMMA ReadNothingStep ==
  ASSUME IInv, ReadNothing
  PROVE  IInv'
<1> USE DEF IInv
<1>1. buf' \in [0..cap - 1 -> Byte \cup {Sentinel}] /\ buf' \in {buf, [buf EXCEPT ![e] = Sentinel]}
  BY DEF ReadNothing, TypeOK
<1>2. TypeOK'
  BY <1>1, RetryAssumption DEF ReadNothing, reader, rune, TypeOK
<1>3. WindowIntact'
  BY <1>1 DEF ReadNothing, reader, rune, TypeOK, WindowIntact, Kept, Base
<1>4. SentinelInPlace' /\ ReadHasRoom'
  BY DEF ReadNothing, TypeOK, SentinelInPlace, ReadHasRoom
<1> QED BY <1>2, <1>3, <1>4

\* At the end of the input ch becomes EOF and the window is empty.
LEMMA AtEOFStep ==
  ASSUME IInv, AtEOF
  PROVE  IInv'
<1> USE DEF IInv
<1>1. said' \in Reports /\ ioerr' \in {"nil", "eof", "fault", "noprogress"}
  BY ReportType DEF AtEOF, TypeOK, Complaints
<1>2. TypeOK'
  BY <1>1 DEF AtEOF, reader, buffer, TypeOK, EOF
<1>3. WindowIntact' /\ SentinelInPlace' /\ ReadHasRoom'
  BY DEF AtEOF, reader, buffer, TypeOK, WindowIntact, Kept, Base,
         SentinelInPlace, ReadHasRoom
<1> QED BY <1>2, <1>3

\* Decoding reports nothing, a broken encoding or a misplaced mark.
LEMMA DecodeReports ==
  ASSUME TypeOK, Decode
  PROVE  said' \in Reports
<1>1. said \in Reports /\ line \in Nat /\ col \in Int
  BY DEF TypeOK
<1>2. Report("invalid_UTF8", line, col) \in Reports
  BY <1>1, ReportType DEF Complaints
<1>3. Report("invalid_BOM", line, col) \in Reports
  BY <1>1, ReportType DEF Complaints
<1>4. \/ said' = Report("invalid_UTF8", line, col)
      \/ said' = Report("invalid_BOM", line, col)
      \/ said' = said
  BY DEF Decode
<1> QED BY <1>1, <1>2, <1>3, <1>4

\* DecodeRune is given at least one byte and never takes more than it has.
LEMMA DecodeStep ==
  ASSUME IInv, Decode
  PROVE  IInv'
<1> USE DEF IInv
<1> DEFINE p == Bytes(r, e)
           d == DecodeRune(p)
<1>1. r < e /\ pc = "need"
  BY DEF Decode, TypeOK
<1>2. p \in Seq(Byte) /\ Len(p) = e - r
  <2>1. ASSUME NEW i \in 1..e - r
        PROVE  buf[r + i - 1] \in Byte
    <3>1. r + i - 1 \in Kept..e - 1
      BY <1>1 DEF Kept, TypeOK
    <3>2. Base + (r + i - 1) + 1 \in 1..Len(input)
      BY DEF Base, TypeOK
    <3>3. input \in Seq(Byte)
      BY InputsAssumption DEF TypeOK
    <3> QED BY <3>1, <3>2, <3>3 DEF WindowIntact
  <2>2. e - r \in Nat
    BY <1>1 DEF TypeOK
  <2> QED BY <2>1, <2>2 DEF Bytes
<1>3. d.ch \in Rune /\ d.w \in 1..e - r /\ d.w <= 3
  BY <1>1, <1>2, DecodeRuneRange DEF TypeOK
<1>4. ch' = d.ch /\ chw' = d.w /\ r' = r + d.w /\ pc' \in {"redo", "idle"}
  BY DEF Decode
<1>5. said' \in Reports
  BY DecodeReports
<1>6. TypeOK'
  <2>1. UNCHANGED <<reader, buf, cap, b, e, ioerr, line, col, tries>>
    BY DEF Decode
  <2>2. r' \in Nat /\ b <= r' /\ r' <= e
    BY <1>1, <1>3, <1>4 DEF TypeOK
  <2>3. ch' \in Rune /\ chw' \in 0..3
    BY <1>3, <1>4 DEF TypeOK
  <2> HIDE DEF p, d
  <2> QED BY <1>4, <1>5, <2>1, <2>2, <2>3 DEF reader, TypeOK
<1>7. WindowIntact'
  <2>1. Kept' = IF b >= 0 THEN b ELSE IF pc' = "idle" THEN r ELSE r + d.w
    BY <1>3, <1>4 DEF Decode, Kept, TypeOK
  <2>2. Base' = Base /\ b' = b /\ e' = e /\ buf' = buf /\ input' = input
    BY DEF Decode, Base, reader
  <2> QED BY <1>1, <1>3, <1>4, <2>1, <2>2 DEF WindowIntact, Kept, TypeOK
<1>8. SentinelInPlace' /\ ReadHasRoom'
  BY <1>1 DEF Decode, SentinelInPlace, ReadHasRoom
<1> QED BY <1>6, <1>7, <1>8

-----------------------------------------------------------------------------
\* Every step preserves the inductive invariant.
LEMMA NextIInv == IInv /\ [Next]_vars => IInv'
<1> SUFFICES ASSUME IInv, [Next]_vars PROVE IInv'
  OBVIOUS
<1>1. CASE Caller
  BY <1>1, CallerStep
<1>2. CASE Nextch
  BY <1>2, FastPathStep, SlowPathStep, FillStep, AtEOFStep, DecodeStep DEF Nextch
<1>3. CASE Reader
  BY <1>3, ReadStep, ReadNothingStep DEF Reader
<1>4. CASE UNCHANGED vars
  BY <1>4 DEF vars, reader, buffer, rune, IInv, TypeOK, WindowIntact, Kept,
              Base, SentinelInPlace, ReadHasRoom
<1> QED BY <1>1, <1>2, <1>3, <1>4 DEF Next

\* The inductive invariant holds in every reachable state.
THEOREM SpecIInv == Spec => []IInv
  BY InitIInv, NextIInv, PTL DEF Spec

\* The variables keep their types and the buffer indices their order.
THEOREM SpecTypeOK == Spec => []TypeOK
  BY SpecIInv, PTL DEF IInv

\* Whatever the input, the reader and the buffer sizes, the buffer holds one
\* contiguous piece of the input that includes the open segment.
THEOREM SpecWindowIntact == Spec => []WindowIntact
  BY SpecIInv, PTL DEF IInv

\* The sentinel that ends the fast path is in place whenever nextch looks.
THEOREM SpecSentinelInPlace == Spec => []SentinelInPlace
  BY SpecIInv, PTL DEF IInv

\* Read is never called with an empty slice.
THEOREM SpecReadHasRoom == Spec => []ReadHasRoom
  BY SpecIInv, PTL DEF IInv
=============================================================================
