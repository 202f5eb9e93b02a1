-------------------------- MODULE SourceRefinement --------------------------
(***************************************************************************)
(* The scanner cannot tell how the reader cuts the input into pieces:      *)
(* scanner/source.go with its buffer implements the RuneStream that has    *)
(* none.  Every step of the source is a step of the stream, or none.       *)
(***************************************************************************)
EXTENDS PositionProofs

\* The source reads on only while no error is pending, and "eof" is pending
\* only when everything has been read.
ErrorsArePending ==
  /\ pc = "read" => ioerr = "nil"
  /\ ioerr = "eof" => taken = Len(input)

RInv == IInv /\ PInv /\ ErrorsArePending
-----------------------------------------------------------------------------
\* Every step keeps the errors in their place.
LEMMA NextErrors ==
  ASSUME IInv, ErrorsArePending, [Next]_vars
  PROVE  ErrorsArePending'
<1>1. CASE Caller
  <2>1. CASE Reinit
    BY <2>1 DEF Reinit, ErrorsArePending
  <2>2. CASE Start \/ Stop \/ CallNextch \/ CallRewind
    BY <2>2 DEF Start, Stop, CallNextch, CallRewind, ErrorsArePending, reader
  <2> QED BY <1>1, <2>1, <2>2 DEF Caller
<1>2. CASE Nextch
  <2>1. CASE FastPath \/ SlowPath
    BY <2>1 DEF FastPath, SlowPath, ErrorsArePending, reader
  <2>2. CASE Fill
    BY <2>2 DEF Fill, NeedMore, ErrorsArePending, reader
  <2>3. CASE AtEOF
    BY <2>3 DEF AtEOF, ErrorsArePending, reader
  <2>4. CASE Decode
    BY <2>4 DEF Decode, ErrorsArePending, reader
  <2> QED BY <1>2, <2>1, <2>2, <2>3, <2>4 DEF Nextch
<1>3. CASE Read
  BY <1>3 DEF Read, ErrorsArePending
<1>4. CASE ReadNothing
  BY <1>4 DEF ReadNothing, ErrorsArePending, reader
<1>5. CASE UNCHANGED vars
  BY <1>5 DEF vars, reader, ErrorsArePending
<1> QED BY <1>1, <1>2, <1>3, <1>4, <1>5 DEF Next, Reader

\* The invariant of the refinement is inductive.
LEMMA NextRInv ==
  ASSUME ~RewindAtNewline, RInv, [Next]_vars
  PROVE  RInv'
  BY NextIInv, NextPInv, NextErrors DEF RInv

\* The invariants hold at the start.
LEMMA InitRInv == Init => RInv
<1>1. Init => ErrorsArePending
  BY DEF Init, ErrorsArePending
<1> QED BY <1>1, InitIInv, InitPosition DEF RInv
-----------------------------------------------------------------------------
(***************************************************************************)
(* Decoding a piece of the input is decoding the input.                    *)
(***************************************************************************)
\* The stream decodes with the same operator.
LEMMA SameDecode ==
  /\ \A p : Stream!DecodeRune(p) = DecodeRune(p)
  /\ Stream!BOM = BOM /\ Stream!RuneError = RuneError
<1>1. \A p : Stream!WellFormed(p) = WellFormed(p)
  BY DEF Stream!WellFormed, WellFormed, Stream!Continuation, Continuation
<1>2. \A c : Stream!Announced(c) = Announced(c)
  BY DEF Stream!Announced, Announced
<1>3. Stream!Ascii = Ascii /\ Stream!BOM = BOM /\ Stream!RuneError = RuneError
  BY DEF Stream!Ascii, Ascii, Stream!BOM, BOM, Stream!RuneError, RuneError
<1> QED BY <1>1, <1>2, <1>3 DEF Stream!DecodeRune, DecodeRune

\* A whole rune decodes the same whatever follows it.
LEMMA DecodePrefix ==
  ASSUME NEW p \in Seq(Byte), NEW q \in Seq(Byte), Len(p) > 0, Len(p) <= Len(q),
         \A i \in 1..Len(p) : p[i] = q[i], FullRune(p) \/ Len(p) >= UTFMax
  PROVE  DecodeRune(p) = DecodeRune(q)
<1>1. p[1] = q[1] /\ Len(p) \in Nat /\ Len(q) \in Nat
  OBVIOUS
<1>2. Len(p) >= 2 => p[2] = q[2]
  BY <1>1
<1>3. Len(p) >= 3 => p[3] = q[3]
  BY <1>1
<1>4. WellFormed(p) = WellFormed(q)
  BY <1>1, <1>2, <1>3 DEF FullRune, UTFMax, WellFormed, Announced
<1>5. WellFormed(p) = 3 => Len(p) >= 3
  BY <1>1 DEF WellFormed
<1> QED BY <1>1, <1>2, <1>3, <1>4, <1>5 DEF DecodeRune, Announced

\* The bytes of a rune that is cut short are an encoding error.
LEMMA DecodeTruncated ==
  ASSUME NEW p \in Seq(Byte), NEW q \in Seq(Byte), Len(p) > 0, Len(p) <= Len(q),
         \A i \in 1..Len(p) : p[i] = q[i], ~FullRune(p)
  PROVE  /\ DecodeRune(p) = [ch |-> RuneError, w |-> 1]
         /\ DecodeRune(q) = [ch |-> RuneError, w |-> 1] \/ DecodeRune(q).w > 1
<1>1. p[1] = q[1] /\ Len(p) \in Nat /\ Len(q) \in Nat
  OBVIOUS
<1>2. p[1] \in {"c2", "ef"} /\ p[1] \notin Ascii
  BY <1>1 DEF FullRune, Announced, WellFormed, Ascii
<1>3. WellFormed(p) < Announced(p[1])
  BY <1>1, <1>2 DEF FullRune, Announced, WellFormed
<1>4. Announced(q[1]) > 1
  BY <1>1, <1>2 DEF Announced
<1> QED BY <1>1, <1>2, <1>3, <1>4 DEF DecodeRune

\* Only the first byte of a file is at line 0, column 0.
LEMMA StartOfFile ==
  ASSUME NEW o \in Nat, NEW l \in Nat, NEW c \in Int, At(o, l, c)
  PROVE  o > 0 <=> l > 0 \/ c > 0
<1>1. CASE o = 0
  <2>1. Newlines(0) = {}
    BY DEF Newlines
  <2> QED BY <1>1, <2>1, FS_EmptySet, PositionDef
<1>2. CASE o > 0 /\ l = 0 /\ c = 0
  <2>1. Newlines(o) = {}
    BY <1>2, NewlinesFinite, FS_EmptySet, PositionDef
  <2>2. input[o] = "nl"
    BY <1>2, PositionDef
  <2> QED BY <1>2, <2>1, <2>2 DEF Newlines
<1> QED BY <1>1, <1>2, PositionDef
-----------------------------------------------------------------------------
(***************************************************************************)
(* What the source's state is in the stream.                               *)
(***************************************************************************)
\* The error that the stream calls a fault.
Failing == ioerr \in {"fault", "noprogress"}

\* The stream is searching exactly while nextch is active.
LEMMA SearchingInCall ==
  ASSUME IInv
  PROVE  Stream!Searching <=> pc # "idle"
<1>1. ch # "none"
  BY DEF IInv, TypeOK, Rune, Byte, Ascii, Continuation, RuneError, BOM, Sentinel, EOF
<1> QED BY <1>1 DEF Stream!Searching, Stream!NoRune

\* What is left of the input begins with the bytes of the window.
LEMMA RestOfInput ==
  ASSUME IInv, r < e, pc # "idle"
  PROVE  LET q == SubSeq(input, Base + r + 1, Len(input))
         IN  /\ Base + r < Len(input)
             /\ q \in Seq(Byte) /\ Len(q) = Len(input) - (Base + r) /\ Len(q) >= e - r
             /\ \A i \in 1..Len(q) : q[i] = input[Base + r + i]
             /\ \A i \in 1..e - r : q[i] = buf[r + i - 1]
<1> DEFINE q == SubSeq(input, Base + r + 1, Len(input))
<1>1. /\ input \in Seq(Byte) /\ Len(input) \in Nat /\ Base \in Nat /\ r \in Nat /\ e \in Nat
      /\ Base + e <= Len(input)
  BY Offsets
<1>2. Base + r < Len(input) /\ Base + r + 1 \in 1..Len(input)
  BY <1>1
<1>3. q \in Seq(Byte) /\ Len(q) = Len(input) - (Base + r)
  BY <1>1, <1>2
<1>4. ASSUME NEW i \in 1..Len(q)
      PROVE  q[i] = input[Base + r + i]
  BY <1>1, <1>2
<1>5. ASSUME NEW i \in 1..e - r
      PROVE  q[i] = buf[r + i - 1]
  <2>1. r + i - 1 \in Kept..e - 1
    BY <1>1 DEF Kept, IInv, TypeOK
  <2>2. buf[r + i - 1] = input[Base + (r + i - 1) + 1] /\ Base + (r + i - 1) + 1 = Base + r + i
    BY <1>1, <2>1 DEF IInv, WindowIntact
  <2>3. i \in 1..Len(q)
    BY <1>1, <1>3
  <2> QED BY <1>4, <2>2, <2>3
<1>6. Len(q) >= e - r
  BY <1>1, <1>3
<1> QED BY <1>2, <1>3, <1>4, <1>5, <1>6

\* The stream's position of the byte at r.
LEMMA StreamPosition ==
  ASSUME IInv, NEW l \in Nat, NEW c \in Int, At(Base + r, l, c)
  PROVE  Stream!Position(Base + r)[1] = l /\ Stream!Position(Base + r)[2] = c
<1>1. Base + r \in Nat
  BY Offsets
<1>2. Stream!Position(Base + r) = <<l, c>>
  BY <1>1, PositionUnique
<1> QED BY <1>2
-----------------------------------------------------------------------------
\* The source begins where the stream does.
LEMMA InitRefines == Init => Stream!Init
  BY DEF Init, Stream!Init, Stream!FirstRune, Base

\* What the caller does is what the stream's caller does.
LEMMA CallerRefines ==
  ASSUME RInv, Caller
  PROVE  Stream!Next
<1> USE DEF RInv
<1>1. CASE Reinit
  <2>1. Base' = 0 /\ r' = 0 /\ pc = "idle" /\ pc' = "idle"
    BY <1>1 DEF Reinit, Base
  <2>2. Stream!Reinit
    BY <1>1, <2>1, SearchingInCall DEF Reinit, Stream!Reinit, Stream!FirstRune
  <2> QED BY <2>2 DEF Stream!Next
<1>2. CASE Start
  <2>1. /\ pc = "idle" /\ b' = r - chw /\ b' >= 0 /\ Base + b' = Base + r - chw
        /\ UNCHANGED <<input, taken, e, Base, r, ioerr, line, col, ch, chw, pc, said>>
    BY <1>2, Offsets DEF Start, reader, rune, Base, IInv, TypeOK, WindowIntact, Kept
  <2>2. (IF b' >= 0 THEN Base' + b' ELSE -1) = Base + r - chw
    BY <2>1
  <2>3. Stream!Searching = FALSE
    BY <2>1, SearchingInCall DEF Stream!Searching
  <2>4. Base \in Nat /\ r \in Nat /\ chw \in Nat /\ b' \in Int
    BY <2>1, Offsets
  <2>5. Stream!Start
    BY <2>1, <2>2, <2>3, <2>4 DEF Stream!Start
  <2> QED BY <2>5 DEF Stream!Next
<1>3. CASE Stop
  <2>1. /\ pc = "idle" /\ b' = -1
        /\ UNCHANGED <<input, Base, r, ioerr, line, col, ch, chw, pc, said>>
    BY <1>3 DEF Stop, reader, rune, Base
  <2>2. Stream!Stop
    BY <2>1, SearchingInCall DEF Stream!Stop
  <2> QED BY <2>2 DEF Stream!Next
<1>4. CASE CallNextch
  <2>1. /\ pc = "idle" /\ pc' = "redo" /\ said' = <<>>
        /\ UNCHANGED <<input, Base, r, b, ioerr>>
    BY <1>4 DEF CallNextch, reader, buffer, Base
  <2>2. Stream!Call
    BY <2>1, SearchingInCall DEF Stream!Call, Stream!NoRune
  <2> QED BY <2>2 DEF Stream!Next
<1>5. CASE CallRewind
  <2>1. /\ pc = "idle" /\ pc' = "redo" /\ said' = <<>> /\ b >= 0 /\ r' = b /\ b' = b
        /\ UNCHANGED <<input, Base, ioerr>> /\ Base \in Nat /\ b \in Int
    BY <1>5, Offsets DEF CallRewind, reader, Base
  <2>2. Base + b >= 0 /\ Base' + r' = Base + b
    BY <2>1
  <2>3. Stream!Rewind
    BY <2>1, <2>2, SearchingInCall DEF Stream!Rewind, Stream!NoRune
  <2> QED BY <2>3 DEF Stream!Next
<1> QED BY <1>1, <1>2, <1>3, <1>4, <1>5 DEF Caller

\* The fast path passes over a NUL byte or delivers an ASCII character.
LEMMA FastPathRefines ==
  ASSUME RInv, FastPath
  PROVE  Stream!Next
<1> USE DEF RInv
<1> DEFINE q == SubSeq(input, Base + r + 1, Len(input))
<1>1. /\ pc = "redo" /\ Advance /\ buf[r] \in Ascii
      /\ ch' = buf[r] /\ r' = r + 1 /\ chw' = 1
      /\ UNCHANGED <<input, Base, b, ioerr>>
  BY DEF FastPath, reader, Base
<1>2. r < e
  BY SentinelNotAscii DEF FastPath, IInv, TypeOK, SentinelInPlace
<1>3. Base + r < Len(input) /\ q[1] = buf[r]
  <2>1. r \in Nat /\ e \in Nat /\ 1 \in 1..e - r /\ r + 1 - 1 = r
    BY <1>2, Offsets
  <2> QED BY <1>1, <1>2, <2>1, RestOfInput
<1>4. Stream!Item = [ch |-> buf[r], w |-> 1]
  BY <1>1, <1>3, SameDecode DEF Stream!Item, DecodeRune
<1>5. Base' + r' = Base + r + 1 /\ Base \in Nat /\ r \in Nat
  BY <1>1, Offsets
<1>6. Stream!Position(Base + r)[1] = line' /\ Stream!Position(Base + r)[2] = col'
  BY <1>1, AdvancePosition, StreamPosition
<1>7. Stream!Searching
  BY <1>1, SearchingInCall
<1>8. CASE ch' = "nul"
  <2>1. pc' = "redo" /\ said' = Report("invalid_NUL", line', col')
    BY <1>1, <1>8 DEF FastPath
  <2>2. Stream!Say("invalid_NUL")
    BY <1>6, <2>1 DEF Stream!Say, Report
  <2>3. Stream!Skip
    BY <1>1, <1>3, <1>4, <1>5, <1>7, <1>8, <2>1, <2>2 DEF Stream!Skip
  <2> QED BY <2>3 DEF Stream!Next
<1>9. CASE ch' # "nul"
  <2>1. pc' = "idle" /\ said' = said
    BY <1>9 DEF FastPath
  <2>2. Stream!Become(buf[r], 1)
    BY <1>1, <1>6, <2>1 DEF Stream!Become
  <2>3. Stream!Item.ch # Stream!BOM /\ Stream!Item # [ch |-> Stream!RuneError, w |-> 1]
    BY <1>1, <1>4, SameDecode DEF Ascii, BOM, RuneError
  <2>4. Stream!Deliver
    BY <1>1, <1>3, <1>4, <1>5, <1>7, <2>1, <2>2, <2>3 DEF Stream!Deliver
  <2> QED BY <2>4 DEF Stream!Next
<1> QED BY <1>8, <1>9

\* The stream does not see that the buffer is filled, only that reading fails.
LEMMA FillRefines ==
  ASSUME RInv, SlowPath \/ Fill \/ Read \/ ReadNothing
  PROVE  Stream!Fault \/ UNCHANGED Stream!vars
<1> USE DEF RInv
<1>1. pc # "idle" /\ pc' # "idle" /\ input' = input /\ said' = said
  BY DEF SlowPath, Fill, Read, ReadNothing, reader
<1>2. Base' + r' = Base + r
  <2>1. CASE SlowPath \/ ReadNothing
    BY <2>1 DEF SlowPath, ReadNothing, reader, buffer, Base
  <2>2. CASE Fill
    <3>1. PICK k \in {b, r} : r' = r - k /\ e' = e - k
      BY <2>2 DEF Fill
    <3>2. taken' = taken /\ k \in Int /\ r \in Nat /\ e \in Nat /\ taken \in Nat
      BY <2>2, Offsets DEF Fill, reader
    <3> QED BY <3>1, <3>2 DEF Base
  <2>3. CASE Read
    <3>1. PICK n \in 0..Len(input) - taken : e' = e + n /\ taken' = taken + n
      BY <2>3 DEF Read
    <3> QED BY <2>3, <3>1, Offsets, SMTT(30) DEF Read, Base
  <2> QED BY <2>1, <2>2, <2>3
<1>3. (IF b' >= 0 THEN Base' + b' ELSE -1) = (IF b >= 0 THEN Base + b ELSE -1)
  <2>1. CASE SlowPath \/ ReadNothing
    BY <2>1 DEF SlowPath, ReadNothing, reader, buffer, Base
  <2>2. CASE Fill
    <3>1. IF b >= 0 THEN b' = 0 /\ e' = e - b ELSE b' = b
      BY <2>2 DEF Fill
    <3>2. taken' = taken /\ b \in Int /\ e \in Nat /\ taken \in Nat
      BY <2>2, Offsets DEF Fill, reader
    <3> QED BY <3>1, <3>2 DEF Base
  <2>3. CASE Read
    <3>1. PICK n \in 0..Len(input) - taken : e' = e + n /\ taken' = taken + n
      BY <2>3 DEF Read
    <3>2. Base' = Base /\ b' = b
      BY <2>3, <3>1, Offsets, SMTT(30) DEF Read, Base
    <3> QED BY <3>2
  <2> QED BY <2>1, <2>2, <2>3
<1>4. (Failing => Failing') /\ (SlowPath \/ Fill => ioerr' = ioerr)
  <2>1. CASE SlowPath \/ Fill
    BY <2>1 DEF SlowPath, Fill, Failing
  <2>2. CASE Read \/ ReadNothing
    <3>1. pc = "read"
      BY <2>2 DEF Read, ReadNothing
    <3> QED BY <2>2, <3>1 DEF Read, ReadNothing, SlowPath, Fill, ErrorsArePending, Failing
  <2> QED BY <2>1, <2>2
<1>5. CASE Failing' /\ ~Failing
  <2>1. Stream!Fault
    BY <1>1, <1>2, <1>3, <1>5, SearchingInCall DEF Stream!Fault, Failing
  <2> QED BY <2>1
<1>6. CASE Failing' <=> Failing
  BY <1>1, <1>2, <1>3, <1>6 DEF Stream!vars, Failing
<1> QED BY <1>4, <1>5, <1>6

\* At the end of the input, or of what a failing reader gives.
LEMMA AtEOFRefines ==
  ASSUME RInv, AtEOF
  PROVE  Stream!Next
<1> USE DEF RInv
<1>1. /\ pc = "need" /\ r = e /\ ~NeedMore /\ ch' = EOF /\ chw' = 0 /\ pc' = "idle"
      /\ UNCHANGED <<input, Base, b, r, line, col>>
  BY DEF AtEOF, reader, buffer, Base
<1>2. ioerr # "nil"
  <2>1. Len(Bytes(r, e)) = 0 /\ e - r < UTFMax
    BY <1>1, Offsets DEF Bytes, UTFMax
  <2> QED BY <1>1, <2>1 DEF NeedMore, FullRune
<1>3. At(Base + r, line, col) /\ line \in Nat /\ col \in Int
  BY <1>1, Offsets DEF PInv, PositionIsCounted, At
<1>4. Stream!Position(Base + r)[1] = line /\ Stream!Position(Base + r)[2] = col
  BY <1>3, StreamPosition
<1>5. Stream!Become("EOF", 0)
  BY <1>1, <1>4 DEF Stream!Become, EOF
<1>6. Stream!Searching
  BY <1>1, SearchingInCall
<1>7. CASE ioerr = "eof"
  <2>1. said' = said /\ ioerr' = ioerr
    BY <1>7 DEF AtEOF
  <2>2. Base + r = Len(input)
    BY <1>1, <1>7, Offsets DEF ErrorsArePending
  <2>3. Stream!EndOfInput
    BY <1>1, <1>5, <1>6, <1>7, <2>1, <2>2 DEF Stream!EndOfInput
  <2> QED BY <2>3 DEF Stream!Next
<1>8. CASE ioerr # "eof"
  <2>1. said' = Report("IO_error", line, col) /\ ioerr' = "nil"
    BY <1>8 DEF AtEOF
  <2>2. Failing
    BY <1>2, <1>8 DEF Failing, IInv, TypeOK
  <2>3. Stream!Say("IO_error")
    BY <1>4, <2>1 DEF Stream!Say, Report
  <2>4. Stream!Fail
    BY <1>1, <1>5, <1>6, <2>1, <2>2, <2>3 DEF Stream!Fail, Failing
  <2> QED BY <2>4 DEF Stream!Next
<1> QED BY <1>7, <1>8

\* What Decode makes of its bytes is what the stream makes of the file, but for
\* a rune that an error cuts short.
LEMMA DecodeItem ==
  ASSUME RInv, pc = "need", ~NeedMore, r < e
  PROVE  LET d == DecodeRune(Bytes(r, e))
         IN  \/ Stream!Item = d
             \/ Failing /\ d = [ch |-> RuneError, w |-> 1] /\ Stream!Item.w > 1
<1> USE DEF RInv
<1> DEFINE p == Bytes(r, e)
           q == SubSeq(input, Base + r + 1, Len(input))
<1>1. p \in Seq(Byte) /\ Len(p) = e - r /\ \A i \in 1..e - r : p[i] = input[Base + r + i]
  BY WindowBytes
<1>2. /\ q \in Seq(Byte) /\ Len(q) = Len(input) - (Base + r) /\ Len(q) >= e - r
      /\ \A i \in 1..Len(q) : q[i] = input[Base + r + i]
  BY RestOfInput
<1>3. Stream!Item = DecodeRune(q)
  BY SameDecode DEF Stream!Item
<1>. HIDE DEF p, q
<1>4. e - r \in Nat /\ Len(q) \in Nat /\ Len(p) > 0
  <2>1. r \in Nat /\ e \in Nat /\ e - r > 0
    BY Offsets
  <2> QED BY <1>1, <1>2, <2>1
<1>5. Len(p) <= Len(q) /\ \A i \in 1..Len(p) : p[i] = q[i]
  BY <1>1, <1>2, <1>4
<1>6. CASE FullRune(p) \/ Len(p) >= UTFMax
  BY <1>1, <1>2, <1>3, <1>4, <1>5, <1>6, DecodePrefix DEF p
<1>7. CASE ~(FullRune(p) \/ Len(p) >= UTFMax)
  <2>1. ioerr # "nil"
    BY <1>1, <1>4, <1>7 DEF NeedMore, UTFMax, p
  <2>2. CASE ioerr = "eof"
    <3>1. Len(q) = Len(p)
      BY <1>1, <1>2, <2>2, Offsets, SMTT(30) DEF ErrorsArePending
    <3>2. p = q
      BY <1>1, <1>2, <1>5, <3>1
    <3> QED BY <1>3, <3>2 DEF p
  <2>3. CASE ioerr # "eof"
    <3>1. Failing
      BY <2>1, <2>3 DEF Failing, IInv, TypeOK
    <3> QED BY <1>1, <1>2, <1>3, <1>4, <1>5, <1>7, <3>1, DecodeTruncated DEF p
  <2> QED BY <2>2, <2>3
<1> QED BY <1>6, <1>7

\* A decoded rune is delivered, passed over, or cut short by an error.
LEMMA DecodeRefines ==
  ASSUME RInv, Decode
  PROVE  Stream!Next
<1> USE DEF RInv
<1> DEFINE d == DecodeRune(Bytes(r, e))
           invalid == d.ch = RuneError /\ d.w = 1
<1>1. /\ pc = "need" /\ ~NeedMore /\ r < e /\ ch' = d.ch /\ chw' = d.w /\ r' = r + d.w
      /\ pc' = (IF invalid \/ d.ch = BOM THEN "redo" ELSE "idle")
      /\ said' = (IF invalid THEN Report("invalid_UTF8", line, col)
                  ELSE IF d.ch = BOM /\ (line > 0 \/ col > 0)
                  THEN Report("invalid_BOM", line, col)
                  ELSE said)
      /\ UNCHANGED <<input, Base, b, ioerr, line, col>>
  BY Offsets DEF Decode, reader, Base
<1>2. \/ Stream!Item = d
      \/ Failing /\ d = [ch |-> RuneError, w |-> 1] /\ Stream!Item.w > 1
  BY <1>1, DecodeItem
<1>3. d.w \in 1..e - r /\ \E x, y : d = [ch |-> x, w |-> y]
  <2>1. Bytes(r, e) \in Seq(Byte) /\ Len(Bytes(r, e)) > 0 /\ Len(Bytes(r, e)) = e - r
    BY <1>1, WindowBytes, Offsets
  <2> QED BY <2>1, DecodeRuneRange DEF DecodeRune
<1>. HIDE DEF d
<1>4. Base + r < Len(input) /\ Stream!Searching
  BY <1>1, RestOfInput, SearchingInCall
<1>5. Base' + r' = Base + r + d.w
  BY <1>1, <1>3, Offsets
<1>6. At(Base + r, line, col) /\ line \in Nat /\ col \in Int /\ Base + r \in Nat
  BY <1>1, Offsets DEF PInv, PositionIsCounted, At
<1>7. Stream!Position(Base + r)[1] = line /\ Stream!Position(Base + r)[2] = col
  BY <1>6, StreamPosition
<1>8. invalid <=> d = [ch |-> RuneError, w |-> 1]
  BY <1>3
<1>9. CASE invalid
  <2>1. pc' = "redo" /\ Stream!Say("invalid_UTF8") /\ d.w = 1
    BY <1>1, <1>7, <1>9 DEF Stream!Say, Report
  <2>2. CASE Stream!Item = d
    <3>1. Stream!Skip
      BY <1>1, <1>4, <1>5, <1>8, <1>9, <2>1, <2>2, SameDecode DEF Stream!Skip
    <3> QED BY <3>1 DEF Stream!Next
  <2>3. CASE Failing /\ Stream!Item.w > 1
    <3>1. Stream!SkipTruncated
      BY <1>1, <1>4, <1>5, <2>1, <2>3 DEF Stream!SkipTruncated, Failing
    <3> QED BY <3>1 DEF Stream!Next
  <2> QED BY <1>2, <2>2, <2>3
<1>10. CASE ~invalid /\ d.ch = BOM
  <2>1. Stream!Item = d /\ pc' = "redo"
    BY <1>1, <1>2, <1>8, <1>10
  <2>2. Base + r > 0 <=> line > 0 \/ col > 0
    BY <1>6, StartOfFile
  <2>3. \/ Base + r > 0 /\ Stream!Say("invalid_BOM")
        \/ Base + r = 0 /\ said' = said
    BY <1>1, <1>6, <1>7, <1>10, <2>2 DEF Stream!Say, Report
  <2>4. Stream!Skip
    BY <1>1, <1>4, <1>5, <1>10, <2>1, <2>3, SameDecode DEF Stream!Skip
  <2> QED BY <2>4 DEF Stream!Next
<1>11. CASE ~invalid /\ d.ch # BOM
  <2>1. Stream!Item = d /\ pc' = "idle" /\ said' = said
    BY <1>1, <1>2, <1>8, <1>11
  <2>2. Stream!Become(d.ch, d.w)
    BY <1>1, <1>7, <2>1 DEF Stream!Become
  <2>3. Stream!Deliver
    BY <1>1, <1>4, <1>5, <1>8, <1>11, <2>1, <2>2, SameDecode DEF Stream!Deliver
  <2> QED BY <2>3 DEF Stream!Next
<1> QED BY <1>9, <1>10, <1>11
-----------------------------------------------------------------------------
\* Every step of the source is a step of the stream, or changes nothing of it.
LEMMA NextRefines ==
  ASSUME RInv, [Next]_vars
  PROVE  [Stream!Next]_(Stream!vars)
<1>1. CASE Caller
  BY <1>1, CallerRefines
<1>2. CASE FastPath \/ AtEOF \/ Decode
  BY <1>2, FastPathRefines, AtEOFRefines, DecodeRefines
<1>3. CASE SlowPath \/ Fill \/ Read \/ ReadNothing
  BY <1>3, FillRefines DEF Stream!Next
<1>4. CASE UNCHANGED vars
  BY <1>4 DEF vars, reader, buffer, rune, Base, Stream!vars
<1> QED BY <1>1, <1>2, <1>3, <1>4 DEF Next, Nextch, Reader

\* For every set of inputs, every reader and every size of the buffer, the
\* source is the stream without a buffer: runes, positions, segments and
\* errors are those of the file, however its bytes arrive (nextch and fill).
THEOREM SpecRefinesRuneStream ==
  ASSUME ~RewindAtNewline
  PROVE  Spec => RefinesRuneStream
<1>1. Init => RInv /\ Stream!Init
  BY InitRInv, InitRefines
<1>2. RInv /\ [Next]_vars => RInv'
  BY NextRInv
<1>3. RInv /\ [Next]_vars => [Stream!Next]_(Stream!vars)
  BY NextRefines
<1> QED BY <1>1, <1>2, <1>3, PTL DEF Spec, RefinesRuneStream, Stream!Spec
=============================================================================
