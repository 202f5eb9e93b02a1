----------------------------- MODULE RuneStream -----------------------------
(***************************************************************************)
(* What scanner/source.go promises the scanner, with no buffer in it: the  *)
(* runes of a file in order, each with its position counted from the file  *)
(* itself, and the bytes of a segment wherever it starts.  How the bytes   *)
(* arrive is not visible, with two exceptions that are stated here as they *)
(* are in the code: a NUL byte is skipped or delivered (Deliver), and an   *)
(* I/O error in the middle of a rune makes its bytes invalid               *)
(* (SkipTruncated).                                                        *)
(***************************************************************************)
EXTENDS Utf8, FiniteSets

CONSTANTS Inputs, Faulty      \* Faulty: whether reading may fail

VARIABLES
  input,    \* the bytes of the file
  off,      \* how many of them have been read
  cur,      \* the current character, or NoRune while the next is looked for
  seg,      \* the offset where the segment starts, or -1
  fault,    \* an I/O error is pending
  said      \* the errors reported since the caller's latest call

vars == <<input, off, cur, seg, fault, said>>

NoRune == [ch |-> "none", w |-> 0, line |-> 0, col |-> 0]
FirstRune == [ch |-> "blank", w |-> 0, line |-> 0, col |-> 0]

\* <<l, c>> is the position of offset o: l newlines lie before it, and c bytes
\* since the last of them or since the start of the file.
IsPosition(o, l, c) ==
  /\ l = Cardinality({i \in 1..o : input[i] = "nl"})
  /\ c \in 0..o
  /\ c = o \/ input[o - c] = "nl"
  /\ \A i \in o - c + 1..o : input[i] # "nl"

Position(o) == CHOOSE p \in (0..o) \X (0..o) : IsPosition(o, p[1], p[2])

Item == DecodeRune(SubSeq(input, off + 1, Len(input)))

Become(ch, w) == cur' = [ch |-> ch, w |-> w, line |-> Position(off)[1],
                         col |-> Position(off)[2]]
Say(msg) == said' = Append(said, [msg |-> msg, line |-> Position(off)[1],
                                  col |-> Position(off)[2]])
Searching == cur = NoRune
-----------------------------------------------------------------------------
Init ==
  /\ input \in Inputs /\ off = 0 /\ cur = FirstRune /\ seg = -1
  /\ fault = FALSE /\ said = <<>>

Reinit ==
  /\ ~Searching
  /\ input' \in Inputs /\ off' = 0 /\ cur' = FirstRune /\ seg' = -1
  /\ fault' = FALSE /\ said' = <<>>

Start == ~Searching /\ seg' = off - cur.w /\ UNCHANGED <<input, off, cur, fault, said>>

Stop == ~Searching /\ seg' = -1 /\ UNCHANGED <<input, off, cur, fault, said>>

Call ==
  /\ ~Searching
  /\ cur' = NoRune /\ said' = <<>>
  /\ UNCHANGED <<input, off, seg, fault>>

Rewind ==
  /\ ~Searching /\ seg >= 0
  /\ cur' = NoRune /\ off' = seg /\ said' = <<>>
  /\ UNCHANGED <<input, seg, fault>>

\* What is no character of the text is passed over, and reported unless it is
\* the byte order mark that opens the file.
Skip ==
  /\ Searching /\ off < Len(input)
  /\ \/ Item.ch = "nul" /\ Say("invalid_NUL")
     \/ Item = [ch |-> RuneError, w |-> 1] /\ Say("invalid_UTF8")
     \/ Item.ch = BOM /\ off > 0 /\ Say("invalid_BOM")
     \/ Item.ch = BOM /\ off = 0 /\ UNCHANGED said
  /\ off' = off + Item.w
  /\ UNCHANGED <<input, cur, seg, fault>>

Deliver ==
  /\ Searching /\ off < Len(input)
  /\ Item.ch # BOM /\ Item # [ch |-> RuneError, w |-> 1]
  /\ Become(Item.ch, Item.w) /\ off' = off + Item.w
  /\ UNCHANGED <<input, seg, fault, said>>

EndOfInput ==
  /\ Searching /\ off = Len(input) /\ ~fault
  /\ Become("EOF", 0)
  /\ UNCHANGED <<input, off, seg, fault, said>>

Fault ==
  /\ Faulty /\ Searching /\ ~fault
  /\ fault' = TRUE /\ UNCHANGED <<input, off, cur, seg, said>>

SkipTruncated ==
  /\ Searching /\ fault /\ off < Len(input) /\ Item.w > 1
  /\ Say("invalid_UTF8") /\ off' = off + 1
  /\ UNCHANGED <<input, cur, seg, fault>>

Fail ==
  /\ Searching /\ fault
  /\ Become("EOF", 0) /\ Say("IO_error") /\ fault' = FALSE
  /\ UNCHANGED <<input, off, seg>>

Next == \/ Reinit \/ Start \/ Stop \/ Call \/ Rewind
        \/ Skip \/ Deliver \/ EndOfInput
        \/ Fault \/ SkipTruncated \/ Fail

Spec == Init /\ [][Next]_vars
=============================================================================
