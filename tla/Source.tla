------------------------------- MODULE Source -------------------------------
(***************************************************************************)
(* scanner/source.go: the buffered rune reader under the scanner.  One     *)
(* call of nextch takes several steps, because the io.Reader answers each  *)
(* Read as it likes: a few bytes, none, an error, or bytes and an error.   *)
(*   pc = "idle"  no call is active: the scanner may call nextch, start,   *)
(*                stop, rewind or init                                     *)
(*   pc = "redo"  at the label redo of nextch                              *)
(*   pc = "need"  at the loop that fills the buffer for a whole rune       *)
(*   pc = "read"  in fill, about to call in.Read                           *)
(***************************************************************************)
EXTENDS Utf8, FiniteSets

CONSTANTS
  Inputs,             \* the byte sequences a reader may hold
  Answers,            \* the errors a Read may return: "nil", "eof", "fault"
  MinBuf, MaxBuf,     \* min and max of nextSize
  MaxEmptyReads,      \* how often fill retries a Read that returns nothing
  RewindAtNewline     \* whether rewind is also called when ch is a newline

ASSUME InputsAssumption == Inputs \subseteq Seq(Byte)
ASSUME AnswersAssumption == Answers \subseteq {"nil", "eof", "fault"}
ASSUME BufferAssumption == MinBuf \in Nat /\ MaxBuf \in Nat \ {0} /\ MinBuf >= 3
ASSUME RetryAssumption == MaxEmptyReads \in Nat \ {0}
ASSUME RewindAssumption == RewindAtNewline \in BOOLEAN

VARIABLES
  input,      \* external: the bytes behind the reader
  taken,      \* external: how many of them Read has returned
  buf, cap,   \* s.buf, indexed from 0, and its length
  b, r, e,    \* the buffer indices
  ioerr,      \* s.ioerr: "nil", "eof", "fault" or "noprogress"
  line, col,  \* position of ch, from 0
  ch, chw,    \* the character and its width in bytes
  pc,
  tries,      \* the loop variable i of fill
  said        \* the errors reported to errh in the latest call

reader == <<input, taken>>
buffer == <<buf, cap, b, r, e>>
rune   == <<line, col, ch, chw>>
vars   == <<reader, buffer, ioerr, rune, pc, tries, said>>

Sentinel == "sentinel"
EOF == "EOF"
Complaints == {"invalid_NUL", "invalid_UTF8", "invalid_BOM", "IO_error"}
Reports == Seq([msg : Complaints, line : Nat, col : Int])
Report(msg, l, c) == Append(said, [msg |-> msg, line |-> l, col |-> c])

\* Fault: a buffer of the least size is not doubled.
NextSizeStuck(size) ==
  IF size <= MinBuf THEN MinBuf
  ELSE IF size <= MaxBuf THEN 2 * size
  ELSE size + MaxBuf

NextSize(size) ==
  IF size < MinBuf THEN MinBuf
  ELSE IF size <= MaxBuf THEN 2 * size
  ELSE size + MaxBuf

\* The bytes buf[lo:hi] as a sequence.
Bytes(lo, hi) == [i \in 1..hi - lo |-> buf[lo + i - 1]]

\* The offset in the input of the byte at buf[0].
Base == taken - e
-----------------------------------------------------------------------------
Init ==
  /\ input \in Inputs /\ taken = 0
  /\ cap = NextSize(0)
  /\ buf = [[i \in 0..cap - 1 |-> "nul"] EXCEPT ![0] = Sentinel]
  /\ b = -1 /\ r = 0 /\ e = 0
  /\ ioerr = "nil"
  /\ line = 0 /\ col = 0 /\ ch = "blank" /\ chw = 0
  /\ pc = "idle" /\ tries = 0 /\ said = <<>>

\* init on a source that has been used: the buffer and its old bytes stay.
Reinit ==
  /\ pc = "idle"
  /\ input' \in Inputs /\ taken' = 0
  /\ buf' = [buf EXCEPT ![0] = Sentinel]
  /\ b' = -1 /\ r' = 0 /\ e' = 0
  /\ ioerr' = "nil"
  /\ line' = 0 /\ col' = 0 /\ ch' = "blank" /\ chw' = 0
  /\ said' = <<>>
  /\ UNCHANGED <<cap, pc, tries>>

\* Fault: the segment begins after ch.
StartAfterCh ==
  /\ pc = "idle"
  /\ b' = r
  /\ UNCHANGED <<reader, buf, cap, r, e, ioerr, rune, pc, tries, said>>

Start ==
  /\ pc = "idle"
  /\ b' = r - chw
  /\ UNCHANGED <<reader, buf, cap, r, e, ioerr, rune, pc, tries, said>>

Stop ==
  /\ pc = "idle"
  /\ b' = -1
  /\ UNCHANGED <<reader, buf, cap, r, e, ioerr, rune, pc, tries, said>>

\* segment(), which excludes ch.
Segment == Bytes(b, r - chw)

CallNextch ==
  /\ pc = "idle"
  /\ pc' = "redo" /\ said' = <<>>
  /\ UNCHANGED <<reader, buffer, ioerr, rune, tries>>

\* rewind under the condition its comment states, and the nextch it ends in.
\* Without a segment it panics: no caller may do that.
CallRewind ==
  /\ pc = "idle" /\ b >= 0
  /\ "nl" \notin {Segment[i] : i \in DOMAIN Segment}
  /\ RewindAtNewline \/ ch # "nl"
  /\ col' = col - (r - b) /\ r' = b
  /\ pc' = "redo" /\ said' = <<>>
  /\ UNCHANGED <<reader, buf, cap, b, e, ioerr, line, ch, chw, tries>>
-----------------------------------------------------------------------------
\* Fault: the column goes on from the newline, which has width 1.
AdvanceFromNewline ==
  /\ line' = IF ch = "nl" THEN line + 1 ELSE line
  /\ col' = IF ch = "nl" THEN chw ELSE col + chw

\* The first lines of nextch: the position moves past the old character.
Advance ==
  /\ line' = IF ch = "nl" THEN line + 1 ELSE line
  /\ col' = IF ch = "nl" THEN 0 ELSE col + chw

FastPath ==
  /\ pc = "redo" /\ buf[r] \in Ascii
  /\ Advance
  /\ ch' = buf[r] /\ r' = r + 1 /\ chw' = 1
  /\ \/ /\ ch' = "nul"
        /\ said' = Report("invalid_NUL", line', col')
        /\ UNCHANGED pc
     \/ /\ ch' # "nul"
        /\ pc' = "idle" /\ UNCHANGED said
  /\ UNCHANGED <<reader, buf, cap, b, e, ioerr, tries>>

\* ch is assigned the byte or the sentinel before the comparison fails.
SlowPath ==
  /\ pc = "redo" /\ buf[r] \notin Ascii
  /\ Advance
  /\ ch' = buf[r]
  /\ pc' = "need"
  /\ UNCHANGED <<reader, buffer, ioerr, chw, tries, said>>

\* Faults: the loop goes on after an error, or does not wait for a whole rune.
NeedMoreForEver == e - r < UTFMax /\ ~FullRune(Bytes(r, e))
NeedMoreIfEmpty == e = r /\ ioerr = "nil"

NeedMore == e - r < UTFMax /\ ~FullRune(Bytes(r, e)) /\ ioerr = "nil"

\* Fault: the segment is moved to the front, but s.b still has its old place.
FillKeepsB ==
  /\ pc = "need" /\ NeedMore
  /\ LET keep == IF b >= 0 THEN b ELSE r
         len  == e - keep
         grow == len * 2 > cap
     IN  /\ cap' = IF grow THEN NextSize(cap) ELSE cap
         /\ buf' = [i \in 0..cap' - 1 |->
                      IF i < len THEN buf[keep + i]
                      ELSE IF grow THEN "nul" ELSE buf[i]]
         /\ r' = r - keep /\ e' = len
  /\ tries' = 0 /\ pc' = "read"
  /\ UNCHANGED <<b, reader, ioerr, rune, said>>

\* The first half of fill: keep the segment, or what is unread, and make room.
Fill ==
  /\ pc = "need" /\ NeedMore
  /\ LET keep == IF b >= 0 THEN b ELSE r
         len  == e - keep
         grow == len * 2 > cap
     IN  /\ cap' = IF grow THEN NextSize(cap) ELSE cap
         /\ buf' = [i \in 0..cap' - 1 |->
                      IF i < len THEN buf[keep + i]
                      ELSE IF grow THEN "nul" ELSE buf[i]]
         /\ b' = IF b >= 0 THEN 0 ELSE b
         /\ r' = r - keep /\ e' = len
  /\ tries' = 0 /\ pc' = "read"
  /\ UNCHANGED <<reader, ioerr, rune, said>>

\* in.Read(s.buf[s.e:len(s.buf)-1]) returns n bytes and an error.  A reader
\* says "eof" only when nothing is left.
Read ==
  /\ pc = "read"
  /\ \E n \in 0..Len(input) - taken, err \in Answers :
       /\ n <= cap - 1 - e
       /\ err = "eof" => taken + n = Len(input)
       /\ n > 0 \/ err # "nil"
       /\ buf' = [i \in 0..cap - 1 |->
                    IF i \in e..e + n - 1 THEN input[taken + i - e + 1]
                    ELSE IF i = e + n THEN Sentinel ELSE buf[i]]
       /\ e' = e + n /\ taken' = taken + n /\ ioerr' = err
  /\ pc' = "need"
  /\ UNCHANGED <<input, cap, b, r, rune, tries, said>>

\* Fault: fill gives up without the sentinel.
ReadNothingLeavesByte ==
  /\ pc = "read" /\ "nil" \in Answers
  /\ tries' = tries + 1
  /\ \/ tries' < MaxEmptyReads /\ UNCHANGED <<ioerr, pc>>
     \/ tries' = MaxEmptyReads /\ ioerr' = "noprogress" /\ pc' = "need"
  /\ UNCHANGED <<reader, buffer, rune, said>>

\* A Read that returns nothing and no error, and the end of fill after too
\* many of them.
ReadNothing ==
  /\ pc = "read" /\ "nil" \in Answers
  /\ tries' = tries + 1
  /\ \/ /\ tries' < MaxEmptyReads
        /\ UNCHANGED <<buf, ioerr, pc>>
     \/ /\ tries' = MaxEmptyReads
        /\ buf' = [buf EXCEPT ![e] = Sentinel]
        /\ ioerr' = "noprogress" /\ pc' = "need"
  /\ UNCHANGED <<reader, cap, b, r, e, rune, said>>

AtEOF ==
  /\ pc = "need" /\ ~NeedMore /\ r = e
  /\ IF ioerr # "eof"
     THEN said' = Report("IO_error", line, col) /\ ioerr' = "nil"
     ELSE UNCHANGED <<said, ioerr>>
  /\ ch' = EOF /\ chw' = 0
  /\ pc' = "idle"
  /\ UNCHANGED <<reader, buffer, line, col, tries>>

Decode ==
  /\ pc = "need" /\ ~NeedMore /\ r # e
  /\ LET d == DecodeRune(Bytes(r, e))
         invalid == d.ch = RuneError /\ d.w = 1
     IN  /\ ch' = d.ch /\ chw' = d.w /\ r' = r + d.w
         /\ pc' = IF invalid \/ d.ch = BOM THEN "redo" ELSE "idle"
         /\ said' = IF invalid THEN Report("invalid_UTF8", line, col)
                    ELSE IF d.ch = BOM /\ (line > 0 \/ col > 0)
                    THEN Report("invalid_BOM", line, col)
                    ELSE said
  /\ UNCHANGED <<reader, buf, cap, b, e, ioerr, line, col, tries>>
-----------------------------------------------------------------------------
Caller == Reinit \/ Start \/ Stop \/ CallNextch \/ CallRewind
Nextch == FastPath \/ SlowPath \/ Fill \/ AtEOF \/ Decode
Reader == Read \/ ReadNothing

Next == Caller \/ Nextch \/ Reader
Spec == Init /\ [][Next]_vars

\* The program runs on, and the reader answers every Read.
FairSpec == Spec /\ WF_vars(Nextch) /\ WF_vars(Reader)
-----------------------------------------------------------------------------
\* Between calls the source is a RuneStream that has read the bytes before r.
Stream == INSTANCE RuneStream WITH
  Faulty <- TRUE,
  off    <- Base + r,
  seg    <- IF b >= 0 THEN Base + b ELSE -1,
  fault  <- ioerr \in {"fault", "noprogress"},
  cur    <- IF pc = "idle" THEN [ch |-> ch, w |-> chw, line |-> line, col |-> col]
            ELSE [ch |-> "none", w |-> 0, line |-> 0, col |-> 0]

\* The types of the variables, and the order of the three buffer indices.
TypeOK ==
  /\ input \in Inputs /\ taken \in 0..Len(input)
  /\ cap \in Nat /\ cap >= MinBuf
  /\ buf \in [0..cap - 1 -> Byte \cup {Sentinel}]
  /\ b \in Int /\ r \in Nat /\ e \in Nat
  /\ -1 <= b /\ b <= r /\ r <= e /\ e < cap /\ e <= taken
  /\ ioerr \in {"nil", "eof", "fault", "noprogress"}
  /\ line \in Nat /\ col \in Int
  /\ ch \in Rune \cup Byte \cup {Sentinel, "blank", EOF} /\ chw \in 0..3
  /\ pc \in {"idle", "redo", "need", "read"}
  /\ tries \in 0..MaxEmptyReads
  /\ said \in Reports

\* Where the bytes begin that the buffer must still hold: at the segment, or
\* at the current character, which start may yet include in a segment.
Kept == IF b >= 0 THEN b ELSE IF pc = "idle" THEN r - chw ELSE r

\* Through every refill, move and growth, what the buffer keeps is one
\* contiguous piece of the input that ends where reading stopped: no byte is
\* lost, repeated or left over from an earlier input, and a segment that
\* spans refills is intact (fill, lines 143-175).
WindowIntact ==
  /\ Kept >= 0
  /\ pc = "idle" => Kept <= r - chw
  /\ \A i \in Kept..e - 1 : buf[i] = input[Base + i + 1]

\* The sentinel follows the last byte whenever nextch may look at it, so the
\* comparison of the fast path never takes a stale byte for input.
SentinelInPlace == pc # "read" => buf[e] = Sentinel

\* Read is never handed an empty slice, to which every reader answers
\* (0, nil): fill would give up with ErrNoProgress on a healthy reader.
ReadHasRoom == pc = "read" => e < cap - 1

\* The position kept by increments is the one counted from the file: of ch
\* between calls, and of the byte at r inside a call.
PositionIsCounted ==
  LET at(o, l, c) == Stream!IsPosition(o, l, c)
  IN  CASE pc = "idle" -> at(Base + r - chw, line, col)
        [] pc = "redo" -> IF ch = "nl" THEN at(Base + r, line + 1, 0)
                          ELSE at(Base + r, line, col + chw)
        [] OTHER       -> at(Base + r, line, col)
-----------------------------------------------------------------------------
\* The scanner cannot tell how the reader cuts the input into pieces: the
\* same runes, positions, segments and errors come out (nextch and fill).
RefinesRuneStream == Stream!Spec

\* Every call of nextch returns, whatever the reader answers (the loop at
\* line 109, the retries of fill and the gotos to redo).
NextchReturns == pc # "idle" ~> pc = "idle"
=============================================================================
