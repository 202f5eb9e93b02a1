--------------------------- MODULE PositionProofs ---------------------------
(***************************************************************************)
(* The position that scanner/source.go keeps by increments is the one      *)
(* counted from the file, for every input, reader and buffer size, as long *)
(* as no caller rewinds at a newline, which none does.                     *)
(***************************************************************************)
EXTENDS SourceProofs, FiniteSetTheorems

At(o, l, c) == Stream!IsPosition(o, l, c)

\* Between calls ch is the newline before r, or there is none in its bytes.
CharBytes ==
  pc = "idle" =>
    IF ch = "nl" THEN chw = 1 /\ Base + r >= 1 /\ input[Base + r] = "nl"
    ELSE \A i \in Base + r - chw + 1..Base + r : input[i] # "nl"

PInv == PositionIsCounted /\ CharBytes
-----------------------------------------------------------------------------
\* The newlines before an offset.
Newlines(o) == {i \in 1..o : input[i] = "nl"}

\* The definition of a position, with the cardinality of this module.
LEMMA PositionDef ==
  ASSUME NEW o, NEW l, NEW c
  PROVE  At(o, l, c) <=> /\ l = Cardinality(Newlines(o))
                         /\ c \in 0..o
                         /\ c = o \/ input[o - c] = "nl"
                         /\ \A i \in o - c + 1..o : input[i] # "nl"
<1>1. \A S : Stream!Cardinality(S) = Cardinality(S)
  BY DEF Stream!Cardinality, Cardinality
<1> QED BY <1>1 DEF At, Stream!IsPosition, Newlines

\* They are finitely many.
LEMMA NewlinesFinite ==
  ASSUME NEW o \in Nat
  PROVE  IsFiniteSet(Newlines(o)) /\ Cardinality(Newlines(o)) \in Nat
<1>1. IsFiniteSet(1..o) /\ Newlines(o) \subseteq 1..o
  BY FS_Interval DEF Newlines
<1> QED BY <1>1, FS_Subset, FS_CardinalityType

\* The file begins at line 0, column 0.
LEMMA PositionOfStart == At(0, 0, 0)
<1>1. Newlines(0) = {}
  BY DEF Newlines
<1>2. Cardinality(Newlines(0)) = 0
  BY <1>1, FS_EmptySet
<1>3. 0 \in 0..0 /\ \A i \in 0 - 0 + 1..0 : input[i] # "nl"
  OBVIOUS
<1> QED BY <1>2, <1>3, PositionDef

\* Bytes that are no newlines move the column.
LEMMA PositionInLine ==
  ASSUME NEW o \in Nat, NEW l, NEW c \in Int, NEW w \in Nat, At(o, l, c),
         \A i \in o + 1..o + w : input[i] # "nl"
  PROVE  At(o + w, l, c + w)
<1>1. Newlines(o + w) = Newlines(o)
  BY DEF Newlines
<1>2. c + w \in 0..o + w /\ (c + w = o + w \/ input[(o + w) - (c + w)] = "nl")
  <2>1. (o + w) - (c + w) = o - c
    OBVIOUS
  <2> QED BY <2>1, PositionDef
<1>3. \A i \in (o + w) - (c + w) + 1..o + w : input[i] # "nl"
  BY PositionDef
<1> QED BY <1>1, <1>2, <1>3, PositionDef

\* A newline begins a line.
LEMMA PositionOfLine ==
  ASSUME NEW o \in Nat, NEW l, NEW c \in Int, At(o, l, c), input[o + 1] = "nl"
  PROVE  At(o + 1, l + 1, 0)
<1>1. Newlines(o + 1) = Newlines(o) \cup {o + 1} /\ o + 1 \notin Newlines(o)
  BY DEF Newlines
<1>2. Cardinality(Newlines(o + 1)) = l + 1
  <2>1. Cardinality(Newlines(o) \cup {o + 1}) = Cardinality(Newlines(o)) + 1
    BY <1>1, NewlinesFinite, FS_AddElement
  <2> QED BY <1>1, <2>1, PositionDef
<1>3. 0 \in 0..o + 1 /\ input[(o + 1) - 0] = "nl" /\ (o + 1) - 0 + 1 > o + 1
  OBVIOUS
<1> QED BY <1>2, <1>3, PositionDef

\* Going back over bytes that are no newlines: the column was at least as large.
LEMMA PositionBack ==
  ASSUME NEW o \in Nat, NEW l, NEW c \in Int, NEW w \in Nat, w <= o, At(o, l, c),
         \A i \in o - w + 1..o : input[i] # "nl"
  PROVE  At(o - w, l, c - w)
<1>1. Newlines(o - w) = Newlines(o)
  BY DEF Newlines
<1>2. c >= w /\ c \in 0..o
  BY PositionDef
<1>3. c - w = o - w \/ input[(o - w) - (c - w)] = "nl"
  <2>1. (o - w) - (c - w) = o - c
    OBVIOUS
  <2> QED BY <2>1, PositionDef
<1>4. \A i \in (o - w) - (c - w) + 1..o - w : input[i] # "nl"
  BY <1>2, PositionDef
<1> QED BY <1>1, <1>2, <1>3, <1>4, PositionDef

\* An offset has one position.
LEMMA PositionUnique ==
  ASSUME NEW o \in Nat, NEW l, NEW c \in Int, At(o, l, c)
  PROVE  Stream!Position(o) = <<l, c>>
<1>1. l \in 0..o /\ c \in 0..o
  <2>1. Newlines(o) \subseteq 1..o /\ IsFiniteSet(1..o) /\ Cardinality(1..o) = o
    BY FS_Interval DEF Newlines
  <2>2. Cardinality(Newlines(o)) <= o /\ Cardinality(Newlines(o)) \in Nat
    BY <2>1, FS_Subset, NewlinesFinite
  <2> QED BY <2>2, PositionDef
<1>2. ASSUME NEW p \in (0..o) \X (0..o), At(o, p[1], p[2])
      PROVE  p = <<l, c>>
  <2>1. p[1] = l
    BY <1>2, PositionDef
  <2>2. p[2] = c
    BY <1>1, <1>2, PositionDef
  <2> QED BY <2>1, <2>2
<1>3. <<l, c>> \in (0..o) \X (0..o) /\ At(o, <<l, c>>[1], <<l, c>>[2])
  BY <1>1
<1> QED BY <1>2, <1>3 DEF Stream!Position, At
-----------------------------------------------------------------------------
\* What the invariant of the buffer says of offsets in the input.
LEMMA Offsets ==
  ASSUME IInv
  PROVE  /\ Base \in Nat /\ Base + r \in Nat /\ Base + e = taken /\ r <= e
         /\ chw \in Nat /\ line \in Nat /\ col \in Int
         /\ input \in Seq(Byte) /\ taken <= Len(input) /\ Len(input) \in Nat
         /\ r \in Nat /\ e \in Nat /\ b \in Int /\ taken \in Nat
         /\ pc = "idle" => Base + r - chw \in Nat /\ chw <= r
<1>1. input \in Seq(Byte) /\ Len(input) \in Nat
  BY InputsAssumption DEF IInv, TypeOK
<1> QED BY <1>1 DEF IInv, TypeOK, WindowIntact, Kept, Base

\* A decoded rune is the newline, or has none in its bytes.
LEMMA DecodeRuneNewline ==
  ASSUME NEW p \in Seq(Byte), Len(p) > 0
  PROVE  LET d == DecodeRune(p)
         IN  IF d.ch = "nl" THEN d.w = 1 /\ p[1] = "nl"
             ELSE \A i \in 1..d.w : p[i] # "nl"
<1>1. CASE p[1] \in Ascii
  BY <1>1 DEF DecodeRune, Ascii
<1>2. CASE p[1] \notin Ascii /\ (Announced(p[1]) = 1 \/ WellFormed(p) < Announced(p[1]))
  BY <1>2 DEF DecodeRune, RuneError, Ascii
<1>3. CASE p[1] \notin Ascii /\ ~(Announced(p[1]) = 1 \/ WellFormed(p) < Announced(p[1]))
  <2>1. DecodeRune(p).ch # "nl" /\ DecodeRune(p).w = Announced(p[1])
    BY <1>3 DEF DecodeRune, RuneError, BOM
  <2>2. \A i \in 1..Announced(p[1]) : p[i] # "nl"
    BY <1>3 DEF Announced, WellFormed, Ascii, Continuation
  <2> QED BY <2>1, <2>2
<1> QED BY <1>1, <1>2, <1>3
-----------------------------------------------------------------------------
\* Before the first call the position is that of the start.
LEMMA InitPosition == Init => PInv
<1> SUFFICES ASSUME Init PROVE PInv
  OBVIOUS
<1>1. Base = 0 /\ r = 0 /\ chw = 0 /\ line = 0 /\ col = 0 /\ pc = "idle" /\ ch = "blank"
  BY DEF Init, Base
<1> QED BY <1>1, PositionOfStart DEF PInv, PositionIsCounted, CharBytes, At

\* The byte after the current one is where the position goes: what CallNextch relies on.
LEMMA PositionAfter ==
  ASSUME IInv, PInv, pc = "idle"
  PROVE  IF ch = "nl" THEN At(Base + r, line + 1, 0) ELSE At(Base + r, line, col + chw)
<1> DEFINE o == Base + r - chw
<1>1. o \in Nat /\ Base + r = o + chw /\ chw \in Nat /\ col \in Int /\ At(o, line, col)
  BY Offsets DEF PInv, PositionIsCounted, At
<1>2. CASE ch = "nl"
  <2>1. chw = 1 /\ input[o + 1] = "nl"
    BY <1>1, <1>2 DEF PInv, CharBytes
  <2>2. At(o + 1, line + 1, 0)
    BY <1>1, <2>1, PositionOfLine
  <2> QED BY <1>1, <1>2, <2>1, <2>2
<1>3. CASE ch # "nl"
  <2>1. \A i \in o + 1..o + chw : input[i] # "nl"
    BY <1>1, <1>3 DEF PInv, CharBytes
  <2>2. At(o + chw, line, col + chw)
    BY <1>1, <2>1, PositionInLine
  <2> QED BY <1>1, <1>3, <2>2
<1> QED BY <1>2, <1>3

\* A step that moves neither the position nor the byte it is of.
LEMMA PositionStays ==
  ASSUME PInv, UNCHANGED <<input, Base, r, line, col, ch, chw, pc>>
  PROVE  PInv'
<1>1. PositionIsCounted'
  BY DEF PInv, PositionIsCounted, Stream!IsPosition
<1>2. CharBytes'
  BY DEF PInv, CharBytes
<1> QED BY <1>1, <1>2 DEF PInv

\* Inside nextch the two halves of PInv say where the byte at r is.
LEMMA PositionInCall ==
  ASSUME input' = input, pc' \in {"redo", "need", "read"},
         pc' = "redo" => IF ch' = "nl" THEN At(Base' + r', line' + 1, 0)
                         ELSE At(Base' + r', line', col' + chw'),
         pc' # "redo" => At(Base' + r', line', col')
  PROVE  PInv'
<1>1. PositionIsCounted'
  BY DEF PositionIsCounted, At, Stream!IsPosition
<1>2. CharBytes'
  BY DEF CharBytes
<1> QED BY <1>1, <1>2 DEF PInv

\* Between calls they say where ch is, and that it is a newline or has none.
LEMMA PositionBetween ==
  ASSUME input' = input, pc' = "idle", NEW o, o = Base' + r' - chw', At(o, line', col'),
         IF ch' = "nl" THEN chw' = 1 /\ Base' + r' >= 1 /\ input[Base' + r'] = "nl"
         ELSE \A i \in Base' + r' - chw' + 1..Base' + r' : input[i] # "nl"
  PROVE  PInv'
<1>1. PositionIsCounted'
  BY DEF PositionIsCounted, At, Stream!IsPosition
<1>2. CharBytes'
  BY DEF CharBytes
<1> QED BY <1>1, <1>2 DEF PInv

\* Between the calls, rewind goes back over bytes of the line only.
LEMMA CallerPosition ==
  ASSUME IInv, PInv, Caller, ~RewindAtNewline
  PROVE  PInv'
<1>1. CASE Reinit
  <2>1. /\ pc' = "idle" /\ ch' = "blank" /\ chw' = 0 /\ line' = 0 /\ col' = 0
        /\ r' = 0 /\ Base' = 0
    BY <1>1 DEF Reinit, Base
  <2>2. CharBytes'
    BY <2>1 DEF CharBytes
  <2>3. PositionIsCounted'
    <3>1. {i \in 1..0 : input'[i] = "nl"} = {}
      OBVIOUS
    <3>2. Stream!Cardinality({}) = 0
      BY FS_EmptySet DEF Stream!Cardinality, Cardinality
    <3>3. Base' + r' - chw' = 0
      BY <2>1
    <3> QED BY <2>1, <3>1, <3>2, <3>3 DEF PositionIsCounted, Stream!IsPosition
  <2> QED BY <2>2, <2>3 DEF PInv
<1>2. CASE Start \/ Stop
  BY <1>2, PositionStays DEF Start, Stop, reader, rune, Base
<1>3. CASE CallNextch
  <2>1. UNCHANGED <<Base, r, ch, chw, line, col, input>> /\ pc = "idle" /\ pc' = "redo"
    BY <1>3 DEF CallNextch, reader, buffer, rune, Base
  <2> QED BY <2>1, PositionAfter, PositionInCall
<1>4. CASE CallRewind
  <2> DEFINE o == Base + r - chw
             w == r - chw - b
  <2>1. /\ pc = "idle" /\ b >= 0 /\ "nl" \notin {Segment[i] : i \in DOMAIN Segment} /\ ch # "nl"
        /\ col' = col - (r - b) /\ r' = b /\ pc' = "redo"
        /\ UNCHANGED <<Base, line, ch, chw, input>>
    BY <1>4 DEF CallRewind, reader, Base
  <2>2. b \in Nat /\ w \in Nat /\ Kept = b
    BY <2>1, Offsets, SMTT(30) DEF IInv, WindowIntact, Kept
  <2>3. /\ Base \in Nat /\ r \in Nat /\ chw \in Nat /\ e \in Nat /\ r <= e /\ chw <= r
        /\ col \in Int
    BY <2>1, Offsets
  <2>4. col' = col - (r - b)
    BY <2>1
  <2>5. o \in Nat /\ w <= o /\ o - w = Base + b /\ col' + chw = col - w
    BY <2>2, <2>3, <2>4
  <2>6. At(o, line, col)
    BY <2>1 DEF PInv, PositionIsCounted, At
  <2>7. ASSUME NEW i \in o - w + 1..o
        PROVE  input[i] # "nl"
    <3> DEFINE k == i - (Base + b)
    <3>1. k \in 1..w /\ i = Base + b + k
      BY <2>2, <2>5, <2>3
    <3>2. k \in DOMAIN Segment /\ Segment[k] = buf[b + k - 1]
      BY <2>2, <2>3, <3>1 DEF Segment, Bytes
    <3>3. buf[b + k - 1] = input[Base + (b + k - 1) + 1]
      <4>1. b + k - 1 \in Kept..e - 1
        BY <2>2, <2>3, <3>1
      <4> QED BY <4>1 DEF IInv, WindowIntact
    <3>4. Base + (b + k - 1) + 1 = i
      BY <2>2, <2>3
    <3> QED BY <2>1, <3>2, <3>3, <3>4
  <2>8. At(Base + b, line, col' + chw)
    BY <2>2, <2>5, <2>6, <2>7, <2>3, PositionBack
  <2> QED BY <2>1, <2>8, PositionInCall
<1> QED BY <1>1, <1>2, <1>3, <1>4 DEF Caller

\* Where nextch finds the next byte, once Advance has moved the position.
LEMMA AdvancePosition ==
  ASSUME IInv, PInv, pc = "redo", Advance
  PROVE  At(Base + r, line', col') /\ line' \in Nat /\ col' \in Int
<1>1. line \in Nat /\ col \in Int /\ chw \in Nat
  BY Offsets
<1> QED BY <1>1 DEF PInv, PositionIsCounted, At, Advance

\* An ASCII byte at r is the input's, and is one byte wide.
LEMMA FastPathPosition ==
  ASSUME IInv, PInv, FastPath
  PROVE  PInv'
<1>1. /\ pc = "redo" /\ Advance /\ buf[r] \in Ascii
      /\ ch' = buf[r] /\ r' = r + 1 /\ chw' = 1
      /\ \/ ch' = "nul" /\ pc' = pc
         \/ ch' # "nul" /\ pc' = "idle"
      /\ input' = input /\ Base' = Base
  BY DEF FastPath, reader, Base
<1>2. r < e
  BY SentinelNotAscii DEF FastPath, IInv, TypeOK, SentinelInPlace
<1>3. buf[r] = input[Base + r + 1]
  <2>1. r \in Kept..e - 1
    BY <1>1, <1>2, Offsets DEF Kept, IInv, TypeOK
  <2> QED BY <2>1 DEF IInv, WindowIntact
<1>4. At(Base + r, line', col') /\ col' \in Int /\ Base + r \in Nat /\ Base \in Nat /\ r \in Nat
  BY <1>1, AdvancePosition, Offsets
<1>5. CASE ch' = "nul"
  <2>1. \A i \in Base + r + 1..Base + r + 1 : input[i] # "nl"
    BY <1>1, <1>3, <1>4, <1>5
  <2>2. At(Base + r + 1, line', col' + 1)
    BY <1>4, <2>1, PositionInLine
  <2>3. Base' + r' = Base + r + 1 /\ pc' = "redo" /\ chw' = 1 /\ ch' # "nl"
    BY <1>1, <1>4, <1>5
  <2> QED BY <1>1, <2>2, <2>3, PositionInCall
<1>6. CASE ch' # "nul"
  <2>1. Base' + r' - chw' = Base + r /\ Base' + r' = Base + r + 1 /\ pc' = "idle" /\ chw' = 1
    BY <1>1, <1>4, <1>6
  <2>2. IF ch' = "nl" THEN Base + r + 1 >= 1 /\ input[Base + r + 1] = "nl"
        ELSE \A i \in Base + r + 1..Base + r + 1 : input[i] # "nl"
    BY <1>1, <1>3, <1>4
  <2> QED BY <1>1, <1>4, <2>1, <2>2, PositionBetween
<1> QED BY <1>5, <1>6

\* Filling the buffer moves the byte at r, and not its offset.
LEMMA FillPosition ==
  ASSUME IInv, PInv, SlowPath \/ Fill \/ Read \/ ReadNothing
  PROVE  PInv'
<1>1. CASE SlowPath
  <2>1. pc = "redo" /\ Advance /\ pc' = "need" /\ UNCHANGED <<input, Base, r>>
    BY <1>1 DEF SlowPath, reader, buffer, Base
  <2> QED BY <2>1, AdvancePosition, PositionInCall
<1>2. CASE Fill \/ Read \/ ReadNothing
  <2>1. pc \in {"need", "read"} /\ pc' \in {"need", "read"} /\ UNCHANGED <<input, line, col>>
    BY <1>2 DEF Fill, Read, ReadNothing, reader, rune
  <2>2. Base' + r' = Base + r
    <3>1. CASE Fill
      <4>1. PICK k \in {b, r} : r' = r - k /\ e' = e - k
        BY <3>1 DEF Fill
      <4>2. taken' = taken /\ k \in Int /\ r \in Nat /\ e \in Nat /\ taken \in Nat
        BY <3>1, Offsets DEF Fill, reader
      <4> QED BY <4>1, <4>2 DEF Base
    <3>2. CASE Read
      <4>1. PICK n \in 0..Len(input) - taken : e' = e + n /\ taken' = taken + n
        BY <3>2 DEF Read
      <4> QED BY <3>2, <4>1, Offsets, SMTT(30) DEF Read, Base
    <3>3. CASE ReadNothing
      BY <3>3 DEF ReadNothing, reader, Base
    <3> QED BY <1>2, <3>1, <3>2, <3>3
  <2>3. At(Base + r, line, col)
    BY <2>1 DEF PInv, PositionIsCounted, At
  <2> QED BY <2>1, <2>2, <2>3, PositionInCall
<1> QED BY <1>1, <1>2

\* At the end of the input the character has no bytes.
LEMMA AtEOFPosition ==
  ASSUME IInv, PInv, AtEOF
  PROVE  PInv'
<1>1. /\ pc = "need" /\ pc' = "idle" /\ ch' = EOF /\ chw' = 0
      /\ UNCHANGED <<input, Base, r, line, col>>
  BY DEF AtEOF, reader, buffer, Base
<1>2. At(Base + r, line, col) /\ Base \in Nat /\ r \in Nat
  BY <1>1, Offsets DEF PInv, PositionIsCounted, At
<1>3. Base' + r' - chw' = Base + r
  BY <1>1, <1>2
<1>4. ch' # "nl" /\ \A i \in Base' + r' - chw' + 1..Base' + r' : input[i] # "nl"
  BY <1>1, <1>2 DEF EOF
<1> QED BY <1>1, <1>2, <1>3, <1>4, PositionBetween

\* The bytes nextch decodes are the input's.
LEMMA WindowBytes ==
  ASSUME IInv, pc = "need", r < e
  PROVE  /\ Bytes(r, e) \in Seq(Byte) /\ Len(Bytes(r, e)) = e - r
         /\ \A i \in 1..e - r : Bytes(r, e)[i] = input[Base + r + i]
<1>1. ASSUME NEW i \in 1..e - r
      PROVE  buf[r + i - 1] = input[Base + r + i] /\ input[Base + r + i] \in Byte
  <2>1. r + i - 1 \in Kept..e - 1
    BY Offsets DEF Kept, IInv, TypeOK
  <2>2. Base + (r + i - 1) + 1 = Base + r + i /\ Base + r + i \in 1..Len(input)
    BY Offsets, SMTT(30)
  <2>3. buf[r + i - 1] = input[Base + (r + i - 1) + 1]
    BY <2>1 DEF IInv, WindowIntact
  <2>4. input \in Seq(Byte)
    BY Offsets
  <2> QED BY <2>2, <2>3, <2>4
<1>2. e - r \in Nat
  BY Offsets
<1> QED BY <1>1, <1>2 DEF Bytes

\* The bytes of a rune hold a newline only when the rune is one.
LEMMA DecodePosition ==
  ASSUME IInv, PInv, Decode
  PROVE  PInv'
<1> DEFINE p == Bytes(r, e)
           d == DecodeRune(p)
           invalid == d.ch = RuneError /\ d.w = 1
<1>1. /\ pc = "need" /\ r < e /\ ch' = d.ch /\ chw' = d.w /\ r' = r + d.w
      /\ pc' = IF invalid \/ d.ch = BOM THEN "redo" ELSE "idle"
      /\ UNCHANGED <<input, Base, line, col>>
  BY Offsets DEF Decode, reader, Base
<1>2. p \in Seq(Byte) /\ Len(p) = e - r /\ \A i \in 1..e - r : p[i] = input[Base + r + i]
  BY <1>1, WindowBytes
<1>3. d.w \in 1..e - r
  BY <1>1, <1>2, DecodeRuneRange, Offsets
<1>4. IF d.ch = "nl" THEN d.w = 1 /\ p[1] = "nl" ELSE \A i \in 1..d.w : p[i] # "nl"
  <2>1. Len(p) > 0
    BY <1>1, <1>2, Offsets
  <2> QED BY <1>2, <2>1, DecodeRuneNewline
<1>. HIDE DEF d, p
<1>5. IF d.ch = "nl" THEN d.w = 1 /\ input[Base + r + 1] = "nl"
      ELSE \A i \in Base + r + 1..Base + r + d.w : input[i] # "nl"
  <2>1. CASE d.ch = "nl"
    BY <1>1, <1>2, <1>3, <1>4, <2>1
  <2>2. CASE d.ch # "nl"
    <3> SUFFICES ASSUME NEW i \in Base + r + 1..Base + r + d.w PROVE input[i] # "nl"
      BY <2>2
    <3>1. i - (Base + r) \in 1..d.w /\ i - (Base + r) \in 1..e - r /\ Base + r + (i - (Base + r)) = i
      <4>1. Base \in Nat /\ r \in Nat /\ e \in Nat /\ i \in Int
        BY Offsets
      <4> QED BY <1>3, <4>1
    <3> QED BY <1>2, <1>4, <2>2, <3>1
  <2> QED BY <2>1, <2>2
<1>6. At(Base + r, line, col) /\ Base + r \in Nat /\ col \in Int /\ Base \in Nat /\ r \in Nat
  BY <1>1, Offsets DEF PInv, PositionIsCounted, At
<1>7. Base' + r' = Base + r + d.w /\ Base' + r' - chw' = Base + r
  BY <1>1, <1>3, <1>6
<1>8. CASE invalid \/ d.ch = BOM
  <2>1. d.ch # "nl" /\ pc' = "redo" /\ ch' = d.ch /\ chw' = d.w
    BY <1>1, <1>8 DEF RuneError, BOM
  <2>2. At(Base + r + d.w, line, col + d.w)
    <3>1. Base + r \in Nat /\ d.w \in Nat /\ \A i \in Base + r + 1..Base + r + d.w : input[i] # "nl"
      BY <1>3, <1>5, <1>6, <2>1
    <3> QED BY <1>6, <3>1, PositionInLine
  <2> QED BY <1>1, <1>7, <2>1, <2>2, PositionInCall
<1>9. CASE ~(invalid \/ d.ch = BOM)
  <2>1. pc' = "idle" /\ ch' = d.ch /\ chw' = d.w
    BY <1>1, <1>9
  <2>2. Base + r + d.w >= 1
    BY <1>3, <1>6
  <2>3. IF d.ch = "nl" THEN d.w = 1 /\ input[Base + r + d.w] = "nl"
        ELSE \A i \in Base + r + 1..Base + r + d.w : input[i] # "nl"
    BY <1>5
  <2> QED BY <1>1, <1>6, <1>7, <2>1, <2>2, <2>3, PositionBetween
<1> QED BY <1>8, <1>9
-----------------------------------------------------------------------------
\* Every step preserves the invariant.
LEMMA NextPInv ==
  ASSUME ~RewindAtNewline, IInv, PInv, [Next]_vars
  PROVE  PInv'
<1>1. CASE Caller
  BY <1>1, CallerPosition
<1>2. CASE Nextch
  BY <1>2, FastPathPosition, FillPosition, AtEOFPosition, DecodePosition DEF Nextch
<1>3. CASE Reader
  BY <1>3, FillPosition DEF Reader
<1>4. CASE UNCHANGED vars
  BY <1>4, PositionStays DEF vars, reader, buffer, rune, Base
<1> QED BY <1>1, <1>2, <1>3, <1>4 DEF Next

\* The position and the bytes of the character are the file's in every
\* reachable state, when no caller rewinds at a newline.
THEOREM SpecPInv ==
  ASSUME ~RewindAtNewline
  PROVE  Spec => []PInv
<1>1. Init => PInv
  BY InitPosition
<1>2. IInv /\ PInv /\ [Next]_vars => PInv'
  BY NextPInv
<1> QED BY <1>1, <1>2, SpecIInv, PTL DEF Spec

\* The position that nextch and rewind keep by increments is the one counted
\* from the file, for every input, reader and buffer size.
THEOREM SpecPositionIsCounted ==
  ASSUME ~RewindAtNewline
  PROVE  Spec => []PositionIsCounted
  BY SpecPInv, PTL DEF PInv
=============================================================================
