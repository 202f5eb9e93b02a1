---------------------------- MODULE ScannerProofs ----------------------------
(***************************************************************************)
(* The tokens of scanner/scanner.go and scan_*.go are what                 *)
(* ScannerProperties says of them, for every text, every keyword table and *)
(* every limit of an operator.                                             *)
(***************************************************************************)
EXTENDS ScannerProperties, SequenceTheorems, Induction

EscapeErrors == {"octal_escape_value", "invalid_hexadecimal_escape", "invalid_Unicode_escape",
                 "invalid_Unicode_escape_value"}

\* What holds inside the loops of Next: no DOT_DOT is owed, the token began
\* before the character that is looked at, ok is false when an error has been
\* reported, and the builder of a dollar-quoted string has what was read.
LoopInv ==
  /\ mode # "idle" => from <= pos /\ ~pendingDotDot
  /\ mode = "block" => depth > 0
  /\ mode \in {"quoted", "dollar"} =>
       from <= head /\ head < pos /\ tokpos = head /\ At(head) \notin OpChar
  /\ mode = "quoted" => said \in Seq(EscapeErrors) /\ (flaw <=> said # <<>>)
  /\ mode = "dollar" => said = <<>> /\ Text(head, pos - 1) = delim \o buf

TokenInv ==
  /\ TokensAdvance /\ PendingIsSecondDot /\ NumbersAreWhole /\ BadIffReported
  /\ DollarStringsDecode /\ OperatorsAreLongest

SInv == TypeOK /\ LoopInv /\ TokenInv
-----------------------------------------------------------------------------
(***************************************************************************)
(* Characters, runs and pieces of the text.                                *)
(***************************************************************************)
\* The text is made of characters, and there is none at its end.
LEMMA CharAt ==
  ASSUME TypeOK, NEW p \in Int
  PROVE  /\ text \in Seq(Char) /\ Len(text) \in Nat
         /\ p \in 1..Len(text) => At(p) = text[p] /\ At(p) \in Char
         /\ At(p) # EOFch <=> p \in 1..Len(text)
<1>1. text \in Seq(Char)
  BY TextsAssumption DEF TypeOK
<1>2. EOFch \notin Char
  BY DEF EOFch, Char, Space, IdentCont, IdentStart, Digit, OctDig, Self, OpChar, NonSQLOp
<1> QED BY <1>1, <1>2 DEF At

\* A run of characters ends in the text, or at its end, at the first that is
\* not of the class.
LEMMA RunEnds ==
  ASSUME TypeOK, NEW p \in 1..Len(text) + 1, NEW S, EOFch \notin S
  PROVE  /\ RunEnd(p, S) \in p..Len(text) + 1
         /\ At(RunEnd(p, S)) \notin S
         /\ \A i \in p..RunEnd(p, S) - 1 : At(i) \in S
         /\ At(p) \in S => RunEnd(p, S) > p
<1> DEFINE T == {q \in p..Len(text) + 1 : At(q) \notin S}
<1>1. Len(text) \in Nat /\ p \in Nat
  BY CharAt
<1>2. Len(text) + 1 \in T
  <2>1. At(Len(text) + 1) = EOFch
    BY <1>1, CharAt
  <2> QED BY <1>1, <2>1
<1>3. PICK q \in T : \A y \in T : q <= y
  <2>1. T \subseteq Nat /\ T # {}
    BY <1>1, <1>2
  <2>. HIDE DEF T
  <2> QED BY <2>1, LeastNumber
<1>4. \A i \in p..q - 1 : At(i) \in S
  BY <1>1, <1>3
<1>5. /\ RunEnd(p, S) \in p..Len(text) + 1
      /\ At(RunEnd(p, S)) \notin S /\ \A i \in p..RunEnd(p, S) - 1 : At(i) \in S
  BY <1>3, <1>4 DEF RunEnd
<1> QED BY <1>1, <1>5

\* A piece of the text.
LEMMA TextPiece ==
  ASSUME TypeOK, NEW i \in 1..Len(text) + 1, NEW j \in 0..Len(text), i <= j + 1
  PROVE  /\ Text(i, j) \in Seq(Char)
         /\ Len(Text(i, j)) = j + 1 - i
         /\ \A k \in 1..j + 1 - i : Text(i, j)[k] = At(i + k - 1)
<1>1. text \in Seq(Char) /\ Len(text) \in Nat
  BY CharAt
<1> QED BY <1>1 DEF Text, At

\* Two pieces of the text that meet.
LEMMA TextMeet ==
  ASSUME TypeOK, NEW i \in 1..Len(text) + 1, NEW j \in 0..Len(text), i <= j + 1,
         NEW k \in j..Len(text)
  PROVE  Text(i, j) \o Text(j + 1, k) = Text(i, k)
<1>1. text \in Seq(Char) /\ Len(text) \in Nat
  BY CharAt
<1> QED BY <1>1, ConcatAdjacentSubSeq DEF Text

\* The classes of characters do not contain the end of the text.
LEMMA EndIsNoChar ==
  /\ EOFch \notin Char /\ EOFch \notin Space /\ EOFch \notin Char \ {"nl"} /\ EOFch \notin OpChar
  /\ EOFch \notin Digit /\ EOFch \notin HexDig /\ EOFch \notin OctDig /\ EOFch \notin IdentStart
  /\ EOFch \notin IdentCont /\ EOFch \notin DolqIdent /\ EOFch \notin Digit \cup {"underscore"}
  BY DEF EOFch, Char, Space, IdentCont, IdentStart, Digit, HexDig, DolqIdent, OctDig, Self,
         OpChar, NonSQLOp

Built == Seq(Char \cup {"control", "escaped"})

\* The characters of a text are no others in a builder.
LEMMA TextIsBuilt == Seq(Char) \subseteq Built
  BY DEF Built

\* What unescapeChar adds, and where it leaves the text.
LEMMA EscapeType ==
  ASSUME TypeOK, NEW p \in 1..Len(text) + 1
  PROVE  Escape(p).add \in Built /\ Escape(p).next \in p..Len(text) + 1
<1> DEFINE upTo(S, f, n) == LET q == RunEnd(f, S) IN IF q < f + n THEN q ELSE f + n
           Adds == {<<>>, <<"control">>, <<"escaped">>}
<1>1. Len(text) \in Nat /\ p \in Nat
  BY CharAt
<1>2. ASSUME NEW S, NEW f \in 1..Len(text) + 1, NEW n \in Nat, EOFch \notin S
      PROVE  upTo(S, f, n) \in f..Len(text) + 1 /\ upTo(S, f, n) <= f + n
  <2>1. RunEnd(f, S) \in f..Len(text) + 1
    BY <1>2, RunEnds
  <2> QED BY <1>1, <2>1
<1>3. At(p) # EOFch => At(p) \in Char /\ p + 1 \in 1..Len(text) + 1 /\ p <= Len(text)
  BY <1>1, CharAt
<1>10. Adds \subseteq Built
  BY DEF Built
<1>. HIDE DEF upTo, Adds
<1>4. CASE At(p) \in {"b", "f", "n"}
  <2>1. Escape(p) = [add |-> <<"control">>, errors |-> <<>>, next |-> p + 1]
    BY <1>4 DEF Escape, OctDig, EOFch
  <2> QED BY <1>1, <1>3, <1>4, <2>1 DEF EOFch, Built
<1>5. CASE At(p) \in OctDig
  <2> DEFINE octal == Text(p, upTo(OctDig, p, 3) - 1)
  <2>1. PICK j \in 0..Len(text) : upTo(OctDig, p, 3) = j + 1 /\ p <= j + 1
    <3>1. upTo(OctDig, p, 3) \in p..Len(text) + 1
      BY <1>2, EndIsNoChar
    <3>2. upTo(OctDig, p, 3) - 1 \in 0..Len(text)
      BY <1>1, <3>1
    <3> QED BY <1>1, <3>1, <3>2
  <2>2. Len(Text(p, j)) = j + 1 - p /\ upTo(OctDig, p, 3) - 1 = j
    BY <2>1, TextPiece
  <2>3. Escape(p).add \in Adds /\ Escape(p).next = p + Len(octal)
    BY <1>5 DEF Escape, OctDig, EOFch, upTo, Adds
  <2>4. Escape(p).next = j + 1
    BY <1>1, <2>1, <2>2, <2>3
  <2> QED BY <1>1, <1>10, <2>1, <2>3, <2>4
<1>6. CASE At(p) = "x"
  <2>1. Escape(p).add \in Adds /\ Escape(p).next \in {upTo(HexDig, p + 1, 2), p + 1}
    BY <1>6 DEF Escape, OctDig, EOFch, upTo, Adds
  <2>2. p + 1 \in 1..Len(text) + 1
    BY <1>3, <1>6 DEF EOFch
  <2>3. upTo(HexDig, p + 1, 2) \in p + 1..Len(text) + 1
    BY <1>2, <2>2, EndIsNoChar
  <2> QED BY <1>1, <1>10, <2>1, <2>2, <2>3
<1>7. CASE At(p) \in {"u", "U"}
  <2>1. \E n \in {4, 8} : Escape(p).add \in Adds /\ Escape(p).next = upTo(HexDig, p + 1, n)
    BY <1>7 DEF Escape, OctDig, EOFch, upTo, Adds
  <2>2. p + 1 \in 1..Len(text) + 1
    BY <1>3, <1>7 DEF EOFch
  <2>3. \A n \in {4, 8} : upTo(HexDig, p + 1, n) \in p + 1..Len(text) + 1
    BY <1>2, <2>2, EndIsNoChar
  <2> QED BY <1>1, <1>10, <2>1, <2>3
<1>8. CASE At(p) = EOFch
  <2>1. Escape(p) = [add |-> <<>>, errors |-> <<>>, next |-> p]
    BY <1>8 DEF Escape, OctDig, EOFch
  <2> QED BY <1>1, <2>1 DEF Built
<1>9. CASE At(p) \notin OctDig \cup {"b", "f", "n", "x", "u", "U", EOFch}
  <2>1. Escape(p) = [add |-> <<At(p)>>, errors |-> <<>>, next |-> p + 1]
    BY <1>9 DEF Escape, OctDig, EOFch
  <2> QED BY <1>1, <1>3, <1>9, <2>1 DEF Built
<1> QED BY <1>4, <1>5, <1>6, <1>7, <1>8, <1>9

\* The errors that an escape can have.
LEMMA EscapeError ==
  ASSUME NEW p
  PROVE  Escape(p).errors \in Seq(EscapeErrors)
<1> DEFINE E == {<<>>, <<"octal_escape_value">>, <<"invalid_hexadecimal_escape">>,
                 <<"invalid_Unicode_escape">>, <<"invalid_Unicode_escape_value">>}
<1> SUFFICES Escape(p).errors \in E
  <2>1. \A e \in EscapeErrors : <<e>> \in Seq(EscapeErrors)
    OBVIOUS
  <2>2. <<>> \in Seq(EscapeErrors)
    OBVIOUS
  <2> QED BY <2>1, <2>2 DEF EscapeErrors
<1>1. CASE At(p) \in OctDig
  BY <1>1 DEF Escape, OctDig, EOFch
<1>2. CASE At(p) \in {"u", "U"}
  BY <1>2 DEF Escape, OctDig, EOFch
<1>3. CASE At(p) \in {"b", "f", "n"}
  BY <1>3 DEF Escape, OctDig, EOFch
<1>4. CASE At(p) = "x"
  BY <1>4 DEF Escape, OctDig, EOFch
<1>5. CASE At(p) = EOFch
  BY <1>5 DEF Escape, OctDig, EOFch
<1>6. CASE At(p) \notin OctDig \cup {"u", "U", "b", "f", "n", "x", EOFch}
  BY <1>6 DEF Escape, OctDig, EOFch
<1> QED BY <1>1, <1>2, <1>3, <1>4, <1>5, <1>6
-----------------------------------------------------------------------------
(***************************************************************************)
(* What a step owes the invariant, by where it leaves Next.                *)
(***************************************************************************)
\* Inside Next there is no token yet.
LEMMA InLoop ==
  ASSUME mode' # "idle", TypeOK', LoopInv'
  PROVE  SInv'
  BY DEF SInv, LoopInv, TokenInv, HasToken, TokensAdvance, PendingIsSecondDot, NumbersAreWhole,
         BadIffReported, DollarStringsDecode, OperatorsAreLongest

\* A token without a literal.
LEMMA PlainReturn ==
  ASSUME SInv, mode = "redo", mode' = "idle", UNCHANGED <<text, work, from>>,
         pos' \in pos + 1..Len(text) + 1, head' = pos,
         tokpos' \in {pos, pos + 1}, tokpos' \in 0..Len(text) + 1,
         tok' \notin LiteralTokens \cup {"EOF"}, lit' \in Built,
         UNCHANGED <<bad, kind, pendingDotDot>>,
         At(pos) \in OpChar => OperatorsAreLongest'
  PROVE  SInv'
<1>1. Len(text) \in Nat /\ pos \in Nat /\ from <= pos /\ ~pendingDotDot /\ from >= 1
  BY CharAt DEF SInv, LoopInv, TypeOK
<1>2. TypeOK'
  BY <1>1 DEF SInv, TypeOK, work, Built
<1>3. LoopInv'
  BY <1>1 DEF LoopInv
<1>4. TokensAdvance'
  BY <1>1 DEF TokensAdvance
<1>5. PendingIsSecondDot' /\ NumbersAreWhole' /\ BadIffReported' /\ DollarStringsDecode'
  BY <1>1 DEF PendingIsSecondDot, NumbersAreWhole, BadIffReported, DollarStringsDecode,
              LiteralTokens
<1>6. OperatorsAreLongest'
  BY DEF OperatorsAreLongest, At
<1> QED BY <1>2, <1>3, <1>4, <1>5, <1>6 DEF SInv, TokenInv

\* A number or a parameter.
LEMMA NumberReturn ==
  ASSUME SInv, mode = "redo", mode' = "idle", UNCHANGED <<text, work, from>>,
         pos' \in pos + 1..Len(text) + 1, head' = pos, tokpos' = pos, At(pos) \notin OpChar,
         tok' \in {"ICONST", "FCONST", "PARAM"}, lit' \in Built, bad' \in BOOLEAN,
         pendingDotDot' \in BOOLEAN, bad' <=> said' # <<>>,
         PendingIsSecondDot', NumbersAreWhole'
  PROVE  SInv'
<1>1. Len(text) \in Nat /\ pos \in Nat /\ from <= pos /\ from >= 1
  BY CharAt DEF SInv, LoopInv, TypeOK
<1>2. TypeOK'
  BY <1>1 DEF SInv, TypeOK, work, Built
<1>3. LoopInv'
  BY <1>1 DEF LoopInv
<1>4. TokensAdvance'
  BY <1>1 DEF TokensAdvance
<1>5. BadIffReported' /\ DollarStringsDecode'
  BY DEF BadIffReported, DollarStringsDecode
<1>6. OperatorsAreLongest'
  BY DEF OperatorsAreLongest, At
<1> QED BY <1>2, <1>3, <1>4, <1>5, <1>6 DEF SInv, TokenInv

\* A quoted form or a dollar-quoted string, at its end.
LEMMA QuotedReturn ==
  ASSUME SInv, mode \in {"quoted", "dollar"}, mode' = "idle",
         UNCHANGED <<text, work, from, head, tokpos, pendingDotDot>>,
         pos' \in pos..Len(text) + 1, tok' \notin {"ICONST", "FCONST", "EOF"}, lit' \in Built,
         bad' \in BOOLEAN, bad' <=> said' # <<>>, DollarStringsDecode'
  PROVE  SInv'
<1>1. /\ Len(text) \in Nat /\ pos \in Nat /\ from <= head /\ ~pendingDotDot /\ from >= 1
      /\ head < pos /\ tokpos = head /\ At(head) \notin OpChar
  BY CharAt DEF SInv, LoopInv, TypeOK
<1>2. TypeOK'
  BY <1>1 DEF SInv, TypeOK, work, Built
<1>3. LoopInv'
  BY <1>1 DEF LoopInv
<1>4. TokensAdvance'
  BY <1>1, <1>2 DEF TokensAdvance, TypeOK
<1>5. PendingIsSecondDot' /\ NumbersAreWhole' /\ BadIffReported'
  BY <1>1 DEF PendingIsSecondDot, NumbersAreWhole, BadIffReported
<1>6. OperatorsAreLongest'
  BY <1>1 DEF OperatorsAreLongest, At
<1> QED BY <1>2, <1>3, <1>4, <1>5, <1>6 DEF SInv, TokenInv
-----------------------------------------------------------------------------
\* At the start nothing has been read.
LEMMA InitSInv == Init => SInv
<1> SUFFICES ASSUME Init PROVE SInv
  OBVIOUS
<1>1. text \in Seq(Char) /\ Len(text) \in Nat
  BY TextsAssumption DEF Init
<1>2. <<>> \in Seq(Char) /\ {lit, buf} \subseteq Built
  BY DEF Init, Built
<1>3. TypeOK
  <2>1. pos \in 1..Len(text) + 1 /\ head \in 1..Len(text) + 1 /\ from \in 1..pos
        /\ tokpos \in 0..Len(text) + 1 /\ text \in Texts /\ depth \in Nat
    BY <1>1 DEF Init
  <2>2. /\ mode = "idle" /\ form = StdString /\ delim \in Seq(Char) /\ flaw = FALSE
        /\ bad = FALSE /\ pendingDotDot = FALSE
    BY <1>2 DEF Init
  <2> QED BY <1>2, <2>1, <2>2 DEF TypeOK, Built
<1>4. LoopInv /\ TokenInv
  BY DEF Init, LoopInv, TokenInv, HasToken, TokensAdvance, PendingIsSecondDot, NumbersAreWhole,
         BadIffReported, DollarStringsDecode, OperatorsAreLongest
<1> QED BY <1>3, <1>4 DEF SInv

\* A call begins; a DOT_DOT that is owed is the dot that is looked at.
LEMMA CallStep ==
  ASSUME SInv, Call
  PROVE  SInv'
<1>1. CASE CallNext
  <2>1. TypeOK'
    BY <1>1 DEF CallNext, SInv, TypeOK, work, token
  <2>2. LoopInv'
    BY <1>1, <2>1 DEF CallNext, LoopInv, TypeOK
  <2>3. mode' # "idle"
    BY <1>1 DEF CallNext
  <2> QED BY <2>1, <2>2, <2>3, InLoop
<1>2. CASE PendingDotDot
  <2>1. At(pos) = "dot" /\ pos \in 1..Len(text) /\ Len(text) \in Nat
    BY <1>2, CharAt DEF PendingDotDot, SInv, TokenInv, PendingIsSecondDot, ch, TypeOK, EOFch
  <2>2. /\ pos' = pos + 1 /\ from' = pos /\ head' = pos /\ tokpos' = pos /\ pendingDotDot' = FALSE
        /\ tok' = "DOT_DOT" /\ lit' = <<"dot", "dot">> /\ mode' = "idle"
        /\ UNCHANGED <<text, mode, form, depth, delim, buf, flaw, bad, kind>>
    BY <1>2, <2>1 DEF PendingDotDot, Begins, Plain, After, work
  <2>3. TypeOK'
    <3>1. lit' \in Built
      BY <2>2 DEF Built, Char, Self
    <3>2. {lit', buf'} \subseteq Built
      BY <2>2, <3>1 DEF SInv, TypeOK, Built
    <3>3. pos' \in 1..Len(text) + 1 /\ pos \in 0..Len(text) + 1 /\ pos \in 1..pos'
      BY <2>1, <2>2
    <3> QED BY <2>1, <2>2, <3>2, <3>3 DEF SInv, TypeOK, Built
  <2>4. LoopInv' /\ TokensAdvance'
    BY <2>1, <2>2 DEF LoopInv, TokensAdvance
  <2>5. PendingIsSecondDot' /\ NumbersAreWhole' /\ BadIffReported' /\ DollarStringsDecode'
    BY <2>2 DEF PendingIsSecondDot, NumbersAreWhole, BadIffReported, LiteralTokens,
                DollarStringsDecode
  <2>6. OperatorsAreLongest'
    BY <2>1, <2>2 DEF OperatorsAreLongest, At, OpChar, NonSQLOp
  <2> QED BY <2>3, <2>4, <2>5, <2>6 DEF SInv, TokenInv
<1> QED BY <1>1, <1>2 DEF Call

\* What Next passes over.
LEMMA Skipped ==
  ASSUME SInv, mode \in {"redo", "block"}, mode' \in {"redo", "block"},
         UNCHANGED <<text, form, delim, buf, flaw, token, tokpos, pendingDotDot, head, from>>,
         pos' \in pos..Len(text) + 1, depth' \in Nat, mode' = "block" => depth' > 0
  PROVE  SInv'
<1>1. Len(text) \in Nat /\ pos \in Nat /\ pos >= 1 /\ from \in 1..pos
  BY CharAt DEF SInv, TypeOK
<1>2. TypeOK'
  BY <1>1 DEF SInv, TypeOK, token
<1>3. LoopInv'
  BY <1>1 DEF SInv, LoopInv
<1> QED BY <1>2, <1>3, InLoop

\* The next character is in the text, or its end.
LEMMA NextChar ==
  ASSUME TypeOK
  PROVE  /\ Len(text) \in Nat /\ pos \in Nat /\ pos \in 1..Len(text) + 1
         /\ \A p \in Nat : p >= 1 /\ At(p) # EOFch => p + 1 \in 1..Len(text) + 1
  BY CharAt DEF TypeOK

\* Space, comments and characters that begin no token are passed over.
LEMMA SkipStep ==
  ASSUME SInv, Skip \/ Comment
  PROVE  SInv'
<1>1. /\ TypeOK /\ Len(text) \in Nat /\ pos \in Nat /\ pos \in 1..Len(text) + 1
      /\ \A p \in Nat : p >= 1 /\ At(p) # EOFch => p + 1 \in 1..Len(text) + 1
  BY CharAt DEF SInv, TypeOK
<1>2. depth \in Nat /\ (mode = "block" => depth > 0)
  BY DEF SInv, TypeOK, LoopInv
<1>3. CASE SkipSpace
  <2>1. RunEnd(pos, Space) \in pos..Len(text) + 1
    BY <1>1, RunEnds, EndIsNoChar
  <2> QED BY <1>2, <1>3, <2>1, Skipped DEF SkipSpace, Skips, work
<1>4. CASE SkipLineComment
  <2>1. pos + 2 \in 1..Len(text) + 1
    BY <1>1, <1>4 DEF SkipLineComment, ch, EOFch
  <2>2. RunEnd(pos + 2, Char \ {"nl"}) \in pos + 2..Len(text) + 1
    BY <1>1, <2>1, RunEnds, EndIsNoChar
  <2>3. RunEnd(pos + 2, Char \ {"nl"}) \in pos..Len(text) + 1
    BY <1>1, <2>2
  <2> QED BY <1>2, <1>4, <2>3, Skipped DEF SkipLineComment, Skips, work
<1>5. CASE OpenBlockComment
  <2>1. pos + 2 \in pos..Len(text) + 1
    BY <1>1, <1>5 DEF OpenBlockComment, ch, EOFch
  <2> QED BY <1>5, <2>1, Skipped DEF OpenBlockComment
<1>6. CASE SkipInvalid
  <2>1. pos + 1 \in pos..Len(text) + 1
    BY <1>1, <1>6 DEF SkipInvalid, ch, EOFch
  <2> QED BY <1>2, <1>6, <2>1, Skipped DEF SkipInvalid, work
<1>7. CASE BlockComment
  <2> DEFINE opens  == ch = "slash" /\ At(pos + 1) = "star"
             closes == ch = "star" /\ At(pos + 1) = "slash"
  <2>1. /\ mode = "block" /\ ch # EOFch
        /\ pos' = (IF opens \/ closes THEN pos + 2 ELSE pos + 1)
        /\ depth' = (IF opens THEN depth + 1 ELSE IF closes THEN depth - 1 ELSE depth)
        /\ mode' = (IF depth' = 0 THEN "redo" ELSE "block")
        /\ UNCHANGED <<text, form, delim, buf, flaw, token, tokpos, pendingDotDot, head, from>>
    BY <1>7 DEF BlockComment
  <2>2. pos' \in pos..Len(text) + 1
    BY <1>1, <2>1 DEF ch, EOFch
  <2>3. depth' \in Nat
    BY <1>2, <2>1
  <2>. HIDE DEF opens, closes
  <2>4. mode' = (IF depth' = 0 THEN "redo" ELSE "block")
    BY <2>1
  <2>5. mode' \in {"redo", "block"} /\ (mode' = "block" => depth' > 0)
    BY <2>3, <2>4
  <2> QED BY <2>1, <2>2, <2>3, <2>4, <2>5, Skipped
<1>8. CASE BlockCommentEOF
  BY <1>1, <1>2, <1>8, Skipped DEF BlockCommentEOF, work
<1> QED BY <1>3, <1>4, <1>5, <1>6, <1>7, <1>8 DEF Skip, Comment

\* The identifier-like characters after a number are read over.
LEMMA JunkEnds ==
  ASSUME TypeOK, NEW p \in 1..Len(text) + 1
  PROVE  /\ Junk(p) \in p..Len(text) + 1
         /\ Junk(p) = p => At(p) \notin IdentStart
<1>1. IdentStart \subseteq IdentCont /\ Len(text) \in Nat
  BY CharAt DEF IdentCont
<1>2. RunEnd(p, IdentCont) \in p..Len(text) + 1
  BY RunEnds, EndIsNoChar
<1>3. At(p) \in IdentCont => RunEnd(p, IdentCont) > p
  BY RunEnds, EndIsNoChar
<1> QED BY <1>1, <1>2, <1>3 DEF Junk

\* A number is the text up to its junk, and good when there is none.
LEMMA NumberToken ==
  ASSUME SInv, mode = "redo", At(pos) \notin OpChar, NEW t \in {"ICONST", "FCONST"}, NEW k,
         NEW p \in pos + 1..Len(text) + 1, NEW errors \in {<<>>, <<"invalid_integer">>, <<"trailing_junk">>},
         Number(t, k, p, errors)
  PROVE  SInv'
<1> DEFINE q == Junk(p)
           all == errors \o (IF q > p THEN <<"trailing_junk">> ELSE <<>>)
<1>1. TypeOK /\ Len(text) \in Nat /\ pos \in Nat /\ pos >= 1 /\ ~pendingDotDot
  BY CharAt DEF SInv, TypeOK, LoopInv
<1>2. q \in p..Len(text) + 1 /\ (q = p => At(p) \notin IdentStart)
  BY <1>1, JunkEnds
<1>3. /\ tokpos' = pos /\ head' = pos /\ tok' = t /\ lit' = Text(pos, p - 1)
      /\ bad' = (all # <<>>) /\ said' = all /\ pos' = q /\ mode' = "idle"
      /\ UNCHANGED <<text, work, from, pendingDotDot>>
  BY DEF Number, Begins, Literal, Return
<1>4. lit' \in Built
  BY <1>1, <1>3, TextPiece, TextIsBuilt, SMTT(30)
<1>5. q > p => all # <<>>
  OBVIOUS
<1>. HIDE DEF q, all
<1>6. NumbersAreWhole'
  <2>1. ~bad' => q = p
    <3>1. q > p => bad'
      BY <1>3, <1>5
    <3> QED BY <1>1, <1>2, <3>1
  <2> QED BY <1>1, <1>2, <1>3, <2>1 DEF NumbersAreWhole, Consumed, Text, At
<1>7. PendingIsSecondDot'
  BY <1>1, <1>3 DEF PendingIsSecondDot
<1>8. pos' \in pos + 1..Len(text) + 1
  BY <1>1, <1>2, <1>3
<1>9. bad' \in BOOLEAN /\ (bad' <=> said' # <<>>)
  BY <1>3
<1>10. tok' \in {"ICONST", "FCONST", "PARAM"} /\ pendingDotDot' \in BOOLEAN
  BY <1>3 DEF SInv, TypeOK
<1> QED BY <1>3, <1>4, <1>6, <1>7, <1>8, <1>9, <1>10, NumberReturn

\* Numbers and parameters.
LEMMA NumericStep ==
  ASSUME SInv, Numeric
  PROVE  SInv'
<1>1. /\ TypeOK /\ Len(text) \in Nat /\ pos \in Nat /\ pos \in 1..Len(text) + 1
      /\ pendingDotDot = FALSE
      /\ \A p \in Nat : p >= 1 /\ At(p) # EOFch => p + 1 \in 1..Len(text) + 1
  <2>1. mode = "redo"
    BY DEF Numeric, RadixNumber, DecimalNumber, Param
  <2>2. TypeOK /\ pendingDotDot = FALSE
    BY <2>1 DEF SInv, TypeOK, LoopInv
  <2> QED BY <2>2, NextChar
<1>2. At(pos) \in Digit \cup {"dot", "dollar"} => At(pos) \notin OpChar /\ At(pos) # EOFch
  BY DEF Digit, OctDig, OpChar, NonSQLOp, EOFch
<1>3. EOFch \notin Digit \cup {"underscore"} /\ Digit \subseteq Digit \cup {"underscore"}
  BY EndIsNoChar
<1>4. CASE RadixNumber
  <2> DEFINE digits == CASE At(pos + 1) = "x" -> HexDig
                         [] At(pos + 1) = "o" -> OctDig
                         [] At(pos + 1) = "b" -> {"0", "1"}
             S == digits \cup {"underscore"}
             q == RunEnd(pos + 2, S)
             errors == IF q = pos + 2 THEN <<"invalid_integer">> ELSE <<>>
  <2>1. /\ mode = "redo" /\ At(pos) = "0" /\ At(pos + 1) \in {"x", "o", "b"}
        /\ Number("ICONST", "IntLit", q, errors)
    BY <1>4 DEF RadixNumber, ch
  <2>2. digits \in {HexDig, OctDig, {"0", "1"}}
    BY <2>1
  <2>3. EOFch \notin S
    <3>. HIDE DEF digits
    <3>1. EOFch \notin digits
      BY <2>2, EndIsNoChar DEF EOFch
    <3> QED BY <3>1 DEF EOFch
  <2>4. pos + 2 \in 1..Len(text) + 1
    BY <1>1, <2>1 DEF EOFch
  <2>5. q \in pos + 2..Len(text) + 1
    <3>. HIDE DEF S
    <3> QED BY <1>1, <2>3, <2>4, RunEnds
  <2>6. errors \in {<<>>, <<"invalid_integer">>, <<"trailing_junk">>}
    OBVIOUS
  <2>7. At(pos) \notin OpChar
    BY <2>1 DEF OpChar, NonSQLOp
  <2>. HIDE DEF errors, q
  <2>8. q \in pos + 1..Len(text) + 1
    BY <1>1, <2>5
  <2> QED BY <2>1, <2>6, <2>7, <2>8, NumberToken
<1>5. CASE DecimalNumber
  <2> DEFINE digits == Digit \cup {"underscore"}
             whole  == IF ch = "dot" THEN pos ELSE RunEnd(pos, digits)
             point  == At(whole) = "dot"
             p      == IF point THEN RunEnd(whole + 1, digits) ELSE whole
             signed == IF At(p + 1) \in {"plus", "minus"} THEN p + 2 ELSE p + 1
  <2>1. /\ mode = "redo" /\ At(pos) \in Digit \cup {"dot"}
        /\ At(pos) = "dot" => At(pos + 1) \in Digit
    BY <1>5 DEF DecimalNumber, ch, Digit, OctDig
  <2>2. \/ /\ point /\ ch # "dot" /\ At(whole + 1) = "dot"
           /\ Begins /\ Literal("ICONST", Text(pos, whole - 1), FALSE, "IntLit")
           /\ pendingDotDot' = TRUE /\ said' = <<>>
           /\ Return(whole + 1)
        \/ /\ At(p) = "e" /\ At(signed) \in Digit
           /\ Number("FCONST", "FloatLit", RunEnd(signed, digits), <<>>)
        \/ At(p) = "e" /\ Number("FCONST", "FloatLit", signed, <<"trailing_junk">>)
        \/ Number("FCONST", "FloatLit", p, <<>>)
        \/ Number("ICONST", "IntLit", p, <<>>)
    BY <1>5 DEF DecimalNumber
  <2>3. At(pos) \notin OpChar /\ At(pos) # EOFch
    BY <1>2, <2>1
  <2>4. whole \in pos..Len(text) + 1 /\ (ch # "dot" => whole > pos)
    <3>1. RunEnd(pos, digits) \in pos..Len(text) + 1
          /\ (At(pos) \in digits => RunEnd(pos, digits) > pos)
      <4>. HIDE DEF digits
      <4>1. EOFch \notin digits
        BY <1>3 DEF digits
      <4> QED BY <1>1, <4>1, RunEnds
    <3> QED BY <1>1, <2>1, <3>1 DEF ch
  <2>5. \A f \in 1..Len(text) + 1 : RunEnd(f, digits) \in f..Len(text) + 1
    <3>. HIDE DEF digits
    <3>1. EOFch \notin digits
      BY <1>3 DEF digits
    <3> QED BY <1>1, <3>1, RunEnds
  <2>. HIDE DEF digits, whole
  <2>6. point => whole + 1 \in 1..Len(text) + 1
    BY <1>1, <2>4 DEF EOFch
  <2>7. p \in pos + 1..Len(text) + 1
    <3>1. CASE point
      <4>1. RunEnd(whole + 1, digits) \in whole + 1..Len(text) + 1
        BY <2>5, <2>6, <3>1
      <4> QED BY <1>1, <2>4, <3>1, <4>1
    <3>2. CASE ~point
      <4>1. ch # "dot"
        BY <3>2 DEF whole, ch
      <4> QED BY <1>1, <2>4, <3>2, <4>1
    <3> QED BY <3>1, <3>2
  <2>. HIDE DEF p
  <2>8. At(p) = "e" => signed \in pos + 1..Len(text) + 1
    <3> HAVE At(p) = "e"
    <3>1. p + 1 \in 1..Len(text) + 1 /\ p \in Nat
      BY <1>1, <2>7 DEF EOFch
    <3>2. At(p + 1) \in {"plus", "minus"} => p + 2 \in 1..Len(text) + 1
      BY <1>1, <3>1 DEF EOFch
    <3> QED BY <1>1, <2>7, <3>1, <3>2
  <2>. HIDE DEF signed
  <2>9. CASE /\ point /\ ch # "dot" /\ At(whole + 1) = "dot"
             /\ Begins /\ Literal("ICONST", Text(pos, whole - 1), FALSE, "IntLit")
             /\ pendingDotDot' = TRUE /\ said' = <<>>
             /\ Return(whole + 1)
    <3>1. /\ head' = pos /\ tokpos' = pos /\ tok' = "ICONST" /\ lit' = Text(pos, whole - 1)
          /\ bad' = FALSE /\ said' = <<>> /\ pos' = whole + 1 /\ mode' = "idle"
          /\ pendingDotDot' = TRUE /\ UNCHANGED <<text, work, from>>
      BY <2>9 DEF Begins, Literal, Return
    <3>2. whole \in Nat /\ whole > pos /\ whole <= Len(text) /\ whole - 1 \in 0..Len(text)
      BY <1>1, <2>4, <2>6, <2>9
    <3>3. Text(pos, whole - 1) \in Seq(Char) /\ lit' \in Built
      <4>1. Text(pos, whole - 1) \in Seq(Char)
        BY <1>1, <3>2, TextPiece
      <4> QED BY <3>1, <4>1, TextIsBuilt
    <3>4. PendingIsSecondDot'
      BY <2>9, <3>1 DEF PendingIsSecondDot, ch, At
    <3>5. NumbersAreWhole'
      <4>1. Text(pos, whole) = Append(Text(pos, whole - 1), "dot")
        <5>1. text \in Seq(Char) /\ pos \in 1..Len(text) /\ whole \in pos..Len(text)
          BY <1>1, <3>2, CharAt
        <5>2. text[whole] = "dot"
          BY <2>9, <3>2 DEF At
        <5>3. Text(pos, whole) = Text(pos, whole - 1) \o <<text[whole]>>
          BY <5>1, SubSeqRecursiveSecond DEF Text
        <5> QED BY <3>3, <5>1, <5>2, <5>3, AppendIsConcat, ElementOfSeq
      <4>2. At(whole + 1) \notin IdentStart
        BY <2>9 DEF IdentStart
      <4>3. pos' - 1 = whole
        BY <3>1, <3>2
      <4> QED BY <3>1, <4>1, <4>2, <4>3 DEF NumbersAreWhole, Consumed, Text, At
    <3>6. pos' \in pos + 1..Len(text) + 1
      BY <1>1, <3>1, <3>2
    <3> QED BY <2>1, <2>3, <3>1, <3>3, <3>4, <3>5, <3>6, NumberReturn
  <2>10. CASE /\ At(p) = "e" /\ At(signed) \in Digit
              /\ Number("FCONST", "FloatLit", RunEnd(signed, digits), <<>>)
    <3>1. RunEnd(signed, digits) \in signed..Len(text) + 1
      BY <1>1, <2>5, <2>8, <2>10
    <3>2. RunEnd(signed, digits) \in pos + 1..Len(text) + 1
      BY <1>1, <2>8, <2>10, <3>1
    <3> QED BY <2>1, <2>3, <2>10, <3>2, NumberToken
  <2>11. CASE At(p) = "e" /\ Number("FCONST", "FloatLit", signed, <<"trailing_junk">>)
    BY <2>1, <2>3, <2>8, <2>11, NumberToken
  <2>12. CASE Number("FCONST", "FloatLit", p, <<>>) \/ Number("ICONST", "IntLit", p, <<>>)
    BY <2>1, <2>3, <2>7, <2>12, NumberToken
  <2> QED BY <2>2, <2>9, <2>10, <2>11, <2>12
<1>6. CASE Param
  <2> DEFINE p == RunEnd(pos + 1, Digit)
             q == Junk(p)
  <2>1. /\ mode = "redo" /\ At(pos) = "dollar"
        /\ head' = pos /\ tokpos' = pos /\ tok' = "PARAM" /\ lit' = Text(pos, p - 1)
        /\ bad' = (q > p) /\ said' = (IF q > p THEN <<"trailing_junk">> ELSE <<>>)
        /\ pos' = q /\ mode' = "idle" /\ UNCHANGED <<text, work, from, pendingDotDot>>
    BY <1>6 DEF Param, Begins, Return, ch
  <2>2. pos + 1 \in 1..Len(text) + 1
    BY <1>1, <2>1 DEF EOFch
  <2>3. p \in pos + 1..Len(text) + 1
    BY <1>1, <2>2, RunEnds, EndIsNoChar
  <2>. HIDE DEF p
  <2>4. q \in p..Len(text) + 1
    BY <1>1, <2>3, JunkEnds
  <2>. HIDE DEF q
  <2>5. q \in pos + 1..Len(text) + 1 /\ p - 1 \in 0..Len(text) /\ pos <= p - 1 + 1
    BY <1>1, <2>3, <2>4
  <2>6. lit' \in Built
    BY <1>1, <2>1, <2>5, TextPiece, TextIsBuilt
  <2>7. bad' \in BOOLEAN /\ (bad' <=> said' # <<>>)
    <3>1. CASE q > p
      BY <2>1, <3>1
    <3>2. CASE ~(q > p)
      <4>1. (q > p) = FALSE
        BY <3>2
      <4>2. bad' = FALSE /\ said' = <<>>
        BY <2>1, <4>1, Zenon
      <4> QED BY <4>2
    <3> QED BY <3>1, <3>2
  <2>8. PendingIsSecondDot' /\ NumbersAreWhole'
    BY <1>1, <2>1 DEF PendingIsSecondDot, NumbersAreWhole
  <2>9. At(pos) \notin OpChar
    BY <2>1 DEF OpChar, NonSQLOp
  <2>10. tok' \in {"ICONST", "FCONST", "PARAM"} /\ pendingDotDot' \in BOOLEAN
    BY <1>1, <2>1
  <2> QED BY <2>1, <2>5, <2>6, <2>7, <2>8, <2>9, <2>10, NumberReturn
<1> QED BY <1>4, <1>5, <1>6 DEF Numeric

(***************************************************************************)
(* Operators: finishOperator cuts at a comment, then takes off signs.      *)
(***************************************************************************)
\* The least member of a set is its Min.
LEMMA LeastIsMin ==
  ASSUME NEW T, T \subseteq Int, NEW m \in T, \A y \in T : m <= y
  PROVE  Min(T) = m
<1>1. Min(T) \in T /\ \A y \in T : Min(T) <= y
  BY DEF Min
<1>2. Min(T) \in Int /\ m \in Int /\ Min(T) <= m /\ m <= Min(T)
  BY <1>1
<1> QED BY <1>2

\* The greatest member of a set is its Max.
LEMMA GreatestIsMax ==
  ASSUME NEW T, T \subseteq Int, NEW m \in T, \A y \in T : y <= m
  PROVE  Max(T) = m
<1>1. \A y \in T : m >= y
  OBVIOUS
<1>2. Max(T) \in T /\ \A y \in T : Max(T) >= y
  BY <1>1 DEF Max
<1>3. Max(T) \in Int /\ m \in Int /\ Max(T) <= m /\ m <= Max(T)
  BY <1>1, <1>2
<1> QED BY <1>3

\* The operator is the longest start of what was read that is one: the truncation ends
\* before the first comment, and stripping leaves the longest start of that.
LEMMA OperatorStart ==
  ASSUME NEW w \in Seq(OpChar), Len(w) > 0
  PROVE  \E x \in 1..Len(w) :
           /\ OperatorText(w) = SubSeq(w, 1, x) /\ IsOperator(w, x)
           /\ \A n \in x + 1..Len(w) : ~IsOperator(w, n)
<1> DEFINE ends == {Len(w)} \cup {i - 1 : i \in CommentsIn(w)}
           v == Truncated(w)
<1>1. Len(w) \in Nat /\ Len(w) >= 1
  OBVIOUS
<1>2. PICK m \in 1..Len(w) :
        /\ v = SubSeq(w, 1, m)
        /\ m = Len(w) \/ (m + 1 < Len(w) /\ <<w[m + 1], w[m + 1 + 1]>> \in
                                {<<"slash", "star">>, <<"minus", "minus">>})
        /\ \A i \in 2..m : i < Len(w) =>
             <<w[i], w[i + 1]>> \notin {<<"slash", "star">>, <<"minus", "minus">>}
  <2>1. ends \subseteq 1..Len(w) /\ Len(w) \in ends
    BY <1>1 DEF CommentsIn
  <2>2. PICK m \in ends : \A y \in ends : m <= y
    <3>. HIDE DEF ends
    <3>1. ends \subseteq Nat /\ ends # {}
      BY <1>1, <2>1
    <3> QED BY <3>1, LeastNumber
  <2>3. Min(ends) = m
    <3>1. ends \subseteq Int
      BY <1>1, <2>1
    <3>. HIDE DEF ends
    <3> QED BY <2>2, <3>1, LeastIsMin
  <2>4. m = Len(w) \/ (m + 1 < Len(w) /\ <<w[m + 1], w[m + 1 + 1]>> \in
                                {<<"slash", "star">>, <<"minus", "minus">>})
    <3>1. CASE m = Len(w)
      BY <3>1
    <3>2. CASE m # Len(w)
      <4>1. PICK i \in CommentsIn(w) : m = i - 1
        BY <2>2, <3>2
      <4>2. i \in 2..Len(w) - 1 /\ <<w[i], w[i + 1]>> \in {<<"slash", "star">>, <<"minus", "minus">>}
        BY <4>1 DEF CommentsIn
      <4>3. i = m + 1
        BY <1>1, <4>1, <4>2
      <4> QED BY <1>1, <4>2, <4>3
    <3> QED BY <3>1, <3>2
  <2>5. ASSUME NEW i \in 2..m, i < Len(w)
        PROVE  <<w[i], w[i + 1]>> \notin {<<"slash", "star">>, <<"minus", "minus">>}
    <3> SUFFICES ASSUME <<w[i], w[i + 1]>> \in {<<"slash", "star">>, <<"minus", "minus">>}
                 PROVE  FALSE
      OBVIOUS
    <3>1. m \in 1..Len(w)
      BY <2>1
    <3>2. i \in 2..Len(w) - 1
      BY <1>1, <2>5, <3>1
    <3>3. i - 1 \in ends
      BY <3>2 DEF CommentsIn
    <3>4. m <= i - 1
      BY <2>2, <3>3
    <3> QED BY <1>1, <3>1, <3>2, <3>4
  <2> QED BY <2>1, <2>2, <2>3, <2>4, <2>5 DEF Truncated
<1>3. v \in Seq(OpChar) /\ Len(v) = m /\ \A i \in 1..m : v[i] = w[i]
  BY <1>1, <1>2
<1>. HIDE DEF v
\* Of what is left before the first comment, the longest start that ends in no sign, or
\* in one that may stand there.
<1> DEFINE Ends(n) == \/ n = 1 \/ w[n] \notin {"plus", "minus"}
                      \/ \E i \in 1..n - 1 : w[i] \in NonSQLOp
<1>4. PICK x \in 1..m :
        Stripped(v) = SubSeq(v, 1, x) /\ Ends(x) /\ \A n \in x + 1..m : ~Ends(n)
  <2>1. CASE \E i \in 1..m - 1 : w[i] \in NonSQLOp
    <3>1. \E i \in 1..Len(v) - 1 : v[i] \in NonSQLOp
      BY <1>1, <1>3, <2>1
    <3>2. Stripped(v) = v /\ SubSeq(v, 1, m) = v
      BY <1>3, <3>1 DEF Stripped
    <3>3. m \in 1..m /\ Ends(m) /\ \A n \in m + 1..m : ~Ends(n)
      BY <1>1, <2>1
    <3>. HIDE DEF Ends
    <3> QED BY <3>2, <3>3
  <2>2. CASE ~\E i \in 1..m - 1 : w[i] \in NonSQLOp
    <3> DEFINE kept == {1} \cup {i \in 1..Len(v) : v[i] \notin {"plus", "minus"}}
    <3>1. kept \subseteq 1..m /\ 1 \in kept
      BY <1>1, <1>2, <1>3
    <3>2. PICK x \in kept : \A y \in kept : y <= x
      <4>. HIDE DEF kept
      <4>1. kept \subseteq Int /\ kept # {} /\ (\A y \in kept : y <= m) /\ m \in Int
        BY <1>1, <3>1
      <4> QED BY <4>1, GreatestNumber
    <3>3. Max(kept) = x
      <4>1. kept \subseteq Int
        BY <1>1, <3>1
      <4>. HIDE DEF kept
      <4> QED BY <3>2, <4>1, GreatestIsMax
    <3>4. Stripped(v) = SubSeq(v, 1, x)
      <4>1. ~\E i \in 1..Len(v) - 1 : v[i] \in NonSQLOp
        BY <1>1, <1>3, <2>2
      <4> QED BY <3>3, <4>1 DEF Stripped
    <3>5. Ends(x)
      BY <1>1, <1>3, <3>1
    <3>6. ASSUME NEW n \in x + 1..m
          PROVE  ~Ends(n)
      <4>1. n \in 1..m /\ n # 1 /\ ~(n <= x)
        BY <1>1, <3>1
      <4>2. w[n] \in {"plus", "minus"}
        BY <1>3, <3>2, <4>1
      <4>3. \A i \in 1..n - 1 : i \in 1..m - 1
        BY <1>1, <4>1
      <4> QED BY <2>2, <4>1, <4>2, <4>3
    <3>7. x \in 1..m
      BY <3>1
    <3>. HIDE DEF Ends, kept
    <3> QED BY <3>4, <3>5, <3>6, <3>7
  <2> QED BY <2>1, <2>2
<1>5. OperatorText(w) = SubSeq(w, 1, x)
  <2>1. SubSeq(v, 1, x) = SubSeq(w, 1, x)
    BY <1>1, <1>2, <1>3, <1>4
  <2> QED BY <1>4, <2>1 DEF OperatorText, v
<1>6. IsOperator(w, x)
  <2>1. \A i \in 2..x : i \in 2..m
    BY <1>1, <1>4
  <2> QED BY <1>2, <1>4, <2>1 DEF IsOperator
<1>7. ASSUME NEW n \in x + 1..Len(w)
      PROVE  ~IsOperator(w, n)
  <2>1. CASE n <= m
    <3>1. n \in x + 1..m
      BY <1>1, <1>4, <2>1
    <3> QED BY <1>4, <3>1 DEF IsOperator
  <2>2. CASE ~(n <= m)
    <3>1. m + 1 \in 2..n /\ m # Len(w)
      BY <1>1, <1>4, <2>2
    <3> QED BY <1>2, <3>1 DEF IsOperator
  <2> QED BY <2>1, <2>2
<1>8. x \in 1..Len(w)
  BY <1>1, <1>2, <1>4
<1> QED BY <1>5, <1>6, <1>7, <1>8

\* A token of one or two characters that is no operator.
LEMMA SimpleToken ==
  ASSUME SInv, mode = "redo", At(pos) \notin OpChar, NEW t, t \notin LiteralTokens \cup {"EOF"},
         NEW l \in Built, NEW p \in pos + 1..Len(text) + 1, Simple(t, l, p)
  PROVE  SInv'
<1>1. pos \in 0..Len(text) + 1
  BY DEF SInv, TypeOK
<1> QED BY <1>1, PlainReturn DEF Simple, Begins, Plain, Return

\* The token of an operator is none of the others.
LEMMA OperatorTokens ==
  ASSUME NEW op
  PROVE  OperatorToken(op) \notin LiteralTokens \cup {"EOF"}
<1>1. CASE Len(op) = 1 /\ op[1] \in Self
  BY <1>1 DEF OperatorToken, LiteralTokens, Self
<1>2. CASE ~(Len(op) = 1 /\ op[1] \in Self) /\ \E t \in DOMAIN TwoCharToken : TwoCharToken[t] = op
  <2>1. OperatorToken(op) \in DOMAIN TwoCharToken
    BY <1>2 DEF OperatorToken
  <2> QED BY <2>1 DEF TwoCharToken, LiteralTokens
<1>3. CASE /\ ~(Len(op) = 1 /\ op[1] \in Self)
           /\ ~\E t \in DOMAIN TwoCharToken : TwoCharToken[t] = op
  BY <1>3 DEF OperatorToken, LiteralTokens
<1> QED BY <1>1, <1>2, <1>3

\* Operators keep the start of what was read.
LEMMA OperatorStep ==
  ASSUME SInv, Operator
  PROVE  SInv'
<1> DEFINE q == RunEnd(pos, OpChar)
           w == Text(pos, q - 1)
<1>1. TypeOK /\ Len(text) \in Nat /\ pos \in Nat /\ pos \in 1..Len(text) + 1
  BY NextChar DEF SInv
<1>2. /\ mode = "redo" /\ At(pos) \in OpChar /\ head' = pos /\ tokpos' \in {pos, pos + 1}
      /\ \E op \in {OperatorText(w)} :
           LET t == OperatorToken(op)
           IN  /\ Plain(t, op)
               /\ said' = IF t = "Op" /\ q > pos + 1 /\ Len(op) >= MaxOpLen
                          THEN <<"operator_too_long">> ELSE <<>>
               /\ Return(q)
      /\ pendingDotDot' = pendingDotDot
  BY DEF Operator, ch
<1>3. /\ tok' = OperatorToken(OperatorText(w)) /\ lit' = OperatorText(w) /\ pos' = q
      /\ mode' = "idle" /\ UNCHANGED <<text, work, from, bad, kind>>
  BY <1>2 DEF Plain, Return
<1>4. q \in pos + 1..Len(text) + 1 /\ \A i \in pos..q - 1 : At(i) \in OpChar
  <2>1. q \in pos..Len(text) + 1 /\ q > pos /\ \A i \in pos..q - 1 : At(i) \in OpChar
    BY <1>1, <1>2, RunEnds, EndIsNoChar
  <2> QED BY <1>1, <2>1
<1>. HIDE DEF q
<1>5. w \in Seq(OpChar) /\ Len(w) = q - pos
  <2>1. q - 1 \in 0..Len(text) /\ pos <= q - 1 + 1 /\ q - 1 + 1 = q
    BY <1>1, <1>4
  <2>2. w \in Seq(Char) /\ Len(w) = q - pos /\ \A k \in 1..q - pos : w[k] = At(pos + k - 1)
    BY <1>1, <2>1, TextPiece, SMTT(30)
  <2>3. \A k \in 1..q - pos : w[k] \in OpChar
    <3> TAKE k \in 1..q - pos
    <3>1. pos + k - 1 \in pos..q - 1
      BY <1>1, <1>4
    <3> QED BY <1>4, <2>2, <3>1
  <2> QED BY <1>1, <1>4, <2>2, <2>3
<1>. HIDE DEF w
<1>6. PICK x \in 1..Len(w) :
           /\ OperatorText(w) = SubSeq(w, 1, x) /\ IsOperator(w, x)
           /\ \A n \in x + 1..Len(w) : ~IsOperator(w, n)
  <2>1. Len(w) > 0
    BY <1>1, <1>4, <1>5
  <2> QED BY <1>5, <2>1, OperatorStart
<1>7. lit' \in Seq(OpChar) /\ Len(lit') = x /\ \A i \in 1..x : lit'[i] = w[i]
  BY <1>3, <1>5, <1>6
<1>8. lit' \in Built
  <2>1. OpChar \subseteq Char \cup {"control", "escaped"}
    BY DEF Char
  <2> QED BY <1>7, <2>1, SeqMonotonic DEF Built
<1>9. OperatorsAreLongest'
  <2>1. Consumed' = w
    BY <1>2, <1>3 DEF Consumed, Text, w
  <2>2. IsPrefix(lit', w)
    BY <1>3, <1>5, <1>6, <1>7 DEF IsPrefix
  <2>3. /\ Len(lit') \in 1..Len(w) /\ IsOperator(w, Len(lit'))
        /\ \A n \in Len(lit') + 1..Len(w) : ~IsOperator(w, n)
    BY <1>6, <1>7
  <2>4. \A n : IsOperator(Consumed, n)' <=> IsOperator(w, n)
    BY <2>1 DEF IsOperator
  <2> QED BY <2>1, <2>2, <2>3, <2>4 DEF OperatorsAreLongest
<1>10. tok' \notin LiteralTokens \cup {"EOF"}
  BY <1>3, OperatorTokens
<1>11. tokpos' \in 0..Len(text) + 1
  BY <1>1, <1>2, <1>4
<1> QED BY <1>2, <1>3, <1>4, <1>8, <1>9, <1>10, <1>11, PlainReturn

\* The tokens whose characters are fixed.
LEMMA FixedStep ==
  ASSUME SInv, Fixed
  PROVE  SInv'
<1>1. /\ TypeOK /\ Len(text) \in Nat /\ pos \in Nat /\ pos \in 1..Len(text) + 1
      /\ \A p \in Nat : p >= 1 /\ At(p) # EOFch => p + 1 \in 1..Len(text) + 1
  BY NextChar DEF SInv
<1>2. CASE EOFToken
  <2>1. /\ mode = "redo" /\ At(pos) = EOFch /\ tok' = "EOF" /\ lit' = <<>> /\ mode' = "idle"
        /\ UNCHANGED <<text, pos, work, from, bad, kind, pendingDotDot>>
        /\ head' = pos /\ tokpos' = pos
    BY <1>2 DEF EOFToken, Begins, Plain, Return, ch
  <2>2. pos = Len(text) + 1 /\ from <= pos /\ ~pendingDotDot
    BY <1>1, <2>1, CharAt DEF SInv, LoopInv
  <2>3. lit' \in Built
    BY <2>1 DEF Built
  <2>4. TypeOK'
    BY <1>1, <2>1, <2>3 DEF TypeOK, work, Built
  <2>5. LoopInv' /\ TokensAdvance'
    BY <2>1, <2>2 DEF LoopInv, TokensAdvance
  <2>6. PendingIsSecondDot' /\ NumbersAreWhole' /\ BadIffReported' /\ DollarStringsDecode'
    BY <2>1, <2>2 DEF PendingIsSecondDot, NumbersAreWhole, BadIffReported, LiteralTokens,
                      DollarStringsDecode
  <2>7. OperatorsAreLongest'
    BY <2>1, EndIsNoChar DEF OperatorsAreLongest, At
  <2> QED BY <2>4, <2>5, <2>6, <2>7 DEF SInv, TokenInv
<1>3. CASE Operator
  BY <1>3, OperatorStep
<1>4. CASE EqualsGreater
  <2>1. /\ mode = "redo" /\ At(pos) = "eq" /\ At(pos + 1) = "gt" /\ tok' = "EQUALS_GREATER"
        /\ lit' = <<"eq", "gt">> /\ pos' = pos + 2 /\ mode' = "idle" /\ head' = pos /\ tokpos' = pos
        /\ UNCHANGED <<text, work, from, bad, kind, pendingDotDot>>
    BY <1>4 DEF EqualsGreater, Simple, Begins, Plain, Return, ch
  <2>2. pos + 2 \in pos + 1..Len(text) + 1 /\ pos + 1 \in 1..Len(text) /\ pos \in 0..Len(text) + 1
    BY <1>1, <2>1 DEF EOFch
  <2>3. Consumed' = lit'
    <3>1. Consumed' = Text(pos, pos + 1)
      BY <1>1, <2>1 DEF Consumed, Text
    <3>2. /\ Text(pos, pos + 1) \in Seq(Char) /\ Len(Text(pos, pos + 1)) = 2
          /\ Text(pos, pos + 1)[1] = At(pos) /\ Text(pos, pos + 1)[2] = At(pos + 1)
      <4>1. pos + 1 \in 0..Len(text) /\ pos <= pos + 1 + 1
        BY <1>1, <2>2
      <4>2. PICK j \in 0..Len(text) : j = pos + 1 /\ pos <= j + 1
        BY <4>1
      <4>3. /\ Text(pos, j) \in Seq(Char) /\ Len(Text(pos, j)) = j + 1 - pos
            /\ \A k \in 1..j + 1 - pos : Text(pos, j)[k] = At(pos + k - 1)
        BY <1>1, <4>2, TextPiece
      <4>4. j + 1 - pos = 2 /\ 1 \in 1..2 /\ 2 \in 1..2 /\ pos + 1 - 1 = pos /\ pos + 2 - 1 = pos + 1
        BY <1>1, <4>2
      <4>5. Text(pos, j)[1] = At(pos + 1 - 1) /\ Text(pos, j)[2] = At(pos + 2 - 1)
        BY <4>3, <4>4
      <4> QED BY <4>2, <4>3, <4>4, <4>5
    <3> QED BY <2>1, <3>1, <3>2
  <2>4. OperatorsAreLongest'
    <3>1. IsPrefix(lit', lit') /\ Len(lit') = 2 /\ lit'[1] = "eq" /\ lit'[2] = "gt"
      BY <2>1 DEF IsPrefix
    <3>2. IsOperator(lit', Len(lit'))
      <4>1. \A i \in 2..2 : ~(i < 2)
        OBVIOUS
      <4> QED BY <3>1, <4>1 DEF IsOperator
    <3>3. IsOperator(Consumed, Len(lit))' <=> IsOperator(lit', Len(lit'))
      BY <2>3 DEF IsOperator
    <3>4. Len(lit') \in 1..Len(Consumed') /\ ~\E n : n \in Len(lit') + 1..Len(Consumed')
      BY <2>3, <3>1
    <3> QED BY <2>3, <3>1, <3>2, <3>3, <3>4 DEF OperatorsAreLongest
  <2>5. lit' \in Built
    BY <2>1 DEF Built, Char, Self
  <2>6. tok' \notin LiteralTokens \cup {"EOF"}
    BY <2>1 DEF LiteralTokens
  <2> QED BY <2>1, <2>2, <2>4, <2>5, <2>6, PlainReturn
<1>5. CASE SelfToken
  <2>1. /\ mode = "redo" /\ At(pos) \in Self /\ At(pos) \notin OpChar
        /\ Simple(At(pos), <<At(pos)>>, pos + 1)
    BY <1>5 DEF SelfToken, ch
  <2>2. pos + 1 \in pos + 1..Len(text) + 1
    BY <1>1, <2>1 DEF Self, EOFch
  <2>3. <<At(pos)>> \in Built
    BY <2>1 DEF Built, Char
  <2>4. At(pos) \notin LiteralTokens \cup {"EOF"}
    BY <2>1 DEF LiteralTokens, Self
  <2> QED BY <2>1, <2>2, <2>3, <2>4, SimpleToken
<1>6. CASE Colon
  <2> DEFINE second == At(pos + 1)
  <2>1. /\ mode = "redo" /\ At(pos) = "colon"
        /\ \/ second = "colon" /\ Simple("TYPECAST", <<"colon", second>>, pos + 2)
           \/ second = "eq" /\ Simple("COLON_EQUALS", <<"colon", second>>, pos + 2)
           \/ Simple("colon", <<"colon">>, pos + 1)
    BY <1>6 DEF Colon, ch
  <2>2. At(pos) \notin OpChar /\ pos + 1 \in pos + 1..Len(text) + 1
    BY <1>1, <2>1 DEF OpChar, NonSQLOp, EOFch
  <2>3. second \in {"colon", "eq"} => pos + 2 \in pos + 1..Len(text) + 1
    BY <1>1, <2>2 DEF EOFch
  <2>4. second \in {"colon", "eq"} => <<"colon", second>> \in Built
    BY DEF Built, Char, Self
  <2>5. <<"colon">> \in Built
    BY DEF Built, Char, Self
  <2>6. \A t \in {"TYPECAST", "COLON_EQUALS", "colon"} : t \notin LiteralTokens \cup {"EOF"}
    BY DEF LiteralTokens
  <2> QED BY <2>1, <2>2, <2>3, <2>4, <2>5, <2>6, SimpleToken
<1>7. CASE Dot
  <2>1. /\ mode = "redo" /\ At(pos) = "dot"
        /\ \/ At(pos + 1) = "dot" /\ Simple("DOT_DOT", <<"dot", "dot">>, pos + 2)
           \/ Simple("dot", <<"dot">>, pos + 1)
    BY <1>7 DEF Dot, ch
  <2>2. At(pos) \notin OpChar /\ pos + 1 \in pos + 1..Len(text) + 1
    BY <1>1, <2>1 DEF OpChar, NonSQLOp, EOFch
  <2>3. At(pos + 1) = "dot" => pos + 2 \in pos + 1..Len(text) + 1
    BY <1>1, <2>2 DEF EOFch
  <2>4. <<"dot", "dot">> \in Built /\ <<"dot">> \in Built
    BY DEF Built, Char, Self
  <2>5. \A t \in {"DOT_DOT", "dot"} : t \notin LiteralTokens \cup {"EOF"}
    BY DEF LiteralTokens
  <2> QED BY <2>1, <2>2, <2>3, <2>4, <2>5, SimpleToken
<1>8. CASE BareDollar
  <2>1. mode = "redo" /\ At(pos) = "dollar" /\ Simple("dollar", <<"dollar">>, pos + 1)
    BY <1>8 DEF BareDollar, ch
  <2>2. At(pos) \notin OpChar /\ pos + 1 \in pos + 1..Len(text) + 1
    BY <1>1, <2>1 DEF OpChar, NonSQLOp, EOFch
  <2>3. <<"dollar">> \in Built /\ "dollar" \notin LiteralTokens \cup {"EOF"}
    BY DEF Built, Char, LiteralTokens
  <2> QED BY <2>1, <2>2, <2>3, SimpleToken
<1> QED BY <1>2, <1>3, <1>4, <1>5, <1>6, <1>7, <1>8 DEF Fixed
-----------------------------------------------------------------------------
(***************************************************************************)
(* Words and what is quoted.                                               *)
(***************************************************************************)
Forms == {StdString, ExtString, UnicodeString, BitString, HexString, UnicodeIdent,
          DelimitedIdent}

\* What the forms have in common.
LEMMA FormParts ==
  ASSUME NEW f \in Forms
  PROVE  /\ f.prefix \in Built /\ f.tok \notin {"ICONST", "FCONST", "EOF"}
         /\ f.kind # "DollarLit"
<1>1. <<>> \in Built /\ <<"b">> \in Built /\ <<"x">> \in Built
  BY DEF Built, Char, IdentCont, IdentStart
<1>2. f.prefix \in {<<>>, <<"b">>, <<"x">>}
  BY DEF Forms, StdString, ExtString, UnicodeString, BitString, HexString, UnicodeIdent,
         DelimitedIdent, Form
<1>3. f.tok \in {"SCONST", "USCONST", "BCONST", "XCONST", "UIDENT", "IDENT"}
  BY DEF Forms, StdString, ExtString, UnicodeString, BitString, HexString, UnicodeIdent,
         DelimitedIdent, Form
<1>4. f.kind # "DollarLit"
  BY DEF Forms, StdString, ExtString, UnicodeString, BitString, HexString, UnicodeIdent,
         DelimitedIdent, Form
<1> QED BY <1>1, <1>2, <1>3, <1>4

\* A quoted form is entered with nothing reported and its prefix in the builder.
LEMMA OpenForm ==
  ASSUME SInv, mode = "redo", At(pos) \notin OpChar, NEW f \in Forms,
         NEW p \in pos + 1..Len(text) + 1, Opens(f, p)
  PROVE  SInv'
<1>1. TypeOK /\ Len(text) \in Nat /\ pos \in Nat /\ pos >= 1 /\ from \in 1..pos /\ ~pendingDotDot
  BY CharAt DEF SInv, TypeOK, LoopInv
<1>2. /\ mode' = "quoted" /\ form' = f /\ buf' = f.prefix /\ flaw' = FALSE /\ pos' = p
      /\ said' = <<>> /\ tokpos' = pos /\ head' = pos
      /\ UNCHANGED <<text, depth, delim, tok, lit, bad, kind, pendingDotDot, from>>
  BY DEF Opens, Begins, token
<1>3. buf' \in Built
  BY <1>2, FormParts
<1>4. TypeOK'
  <2>1. /\ pos' \in 1..Len(text) + 1 /\ from \in 1..pos' /\ pos \in 1..Len(text) + 1
        /\ pos \in 0..Len(text) + 1
    BY <1>1, <1>2
  <2>2. {lit', buf'} \subseteq Seq(Char \cup {"control", "escaped"})
    BY <1>1, <1>2, <1>3 DEF TypeOK, Built
  <2>3. form' \in Forms /\ flaw' \in BOOLEAN
    BY <1>2
  <2>. HIDE DEF Forms
  <2> QED BY <1>1, <1>2, <2>1, <2>2, <2>3 DEF TypeOK, Forms
<1>5. LoopInv'
  <2>1. from' <= pos' /\ ~pendingDotDot' /\ from' <= head' /\ head' < pos' /\ tokpos' = head'
    BY <1>1, <1>2
  <2>2. At(head)' \notin OpChar
    BY <1>2 DEF At
  <2>3. said' \in Seq(EscapeErrors) /\ (flaw' <=> said' # <<>>)
    BY <1>2
  <2> QED BY <1>2, <2>1, <2>2, <2>3 DEF LoopInv
<1> QED BY <1>2, <1>4, <1>5, InLoop

\* The small letters of a word are characters.
LEMMA WordToken ==
  ASSUME NEW w \in Seq(Char), Word(w)
  PROVE  /\ lit' \in Built /\ tok' \notin LiteralTokens \cup {"EOF"}
         /\ UNCHANGED <<bad, kind>>
<1>1. ToLower(w) \in Built
  <2>1. \A c \in Char : Lower(c) \in Char
    BY DEF Lower, Char, IdentCont, IdentStart
  <2>2. Len(w) \in Nat /\ \A i \in 1..Len(w) : Lower(w[i]) \in Char
    BY <2>1
  <2> QED BY <2>2 DEF ToLower, Built
<1> QED BY <1>1 DEF Word, Plain, LiteralTokens

\* The opening delimiter of a dollar-quoted string.
LEMMA OpenDollarStep ==
  ASSUME SInv, OpenDollar
  PROVE  SInv'
<1> DEFINE t == RunEnd(pos + 1, DolqIdent)
<1>1. /\ TypeOK /\ Len(text) \in Nat /\ pos \in Nat /\ pos >= 1 /\ from \in 1..pos
      /\ ~pendingDotDot /\ mode = "redo" /\ At(pos) = "dollar"
  BY CharAt DEF SInv, TypeOK, LoopInv, OpenDollar, ch
<1>2. At(pos) \notin OpChar /\ pos + 1 \in 1..Len(text) + 1
  BY <1>1, CharAt DEF OpChar, NonSQLOp, EOFch
<1>3. t \in pos + 1..Len(text) + 1
  BY <1>1, <1>2, RunEnds, EndIsNoChar
<1>4. t \in Nat /\ t >= 1
  BY <1>1, <1>3
<1>. HIDE DEF t
<1>5. CASE Simple("dollar", <<"dollar">>, t)
  <2>1. <<"dollar">> \in Built /\ "dollar" \notin LiteralTokens \cup {"EOF"}
    BY DEF Built, Char, LiteralTokens
  <2> QED BY <1>1, <1>2, <1>3, <1>5, <2>1, SimpleToken
<1>6. CASE ~Simple("dollar", <<"dollar">>, t)
  <2>1. /\ At(t) = "dollar" /\ tokpos' = pos /\ head' = pos /\ said' = <<>>
        /\ mode' = "dollar" /\ delim' = Text(pos, t) /\ buf' = <<>> /\ pos' = t + 1
        /\ UNCHANGED <<text, form, depth, flaw, tok, lit, bad, kind, pendingDotDot, from>>
    BY <1>6 DEF OpenDollar, Begins, token, t
  <2>2. t \in 1..Len(text)
    BY <1>1, <1>4, <2>1, CharAt DEF EOFch
  <2>3. Text(pos, t) \in Seq(Char)
    <3>1. PICK j \in 0..Len(text) : j = t /\ pos <= j + 1
      BY <1>1, <1>3, <2>2
    <3>2. PICK i \in 1..Len(text) + 1 : i = pos
      BY <1>1, <1>2
    <3> QED BY <1>1, <3>1, <3>2, TextPiece
  <2>4. TypeOK'
    <3>1. pos' \in 1..Len(text) + 1 /\ from \in 1..pos' /\ pos \in 1..Len(text) + 1 /\ pos \in 0..Len(text) + 1
      BY <1>1, <1>2, <1>3, <2>1, <2>2
    <3>2. buf' \in Seq(Char \cup {"control", "escaped"})
      BY <2>1
    <3> QED BY <1>1, <2>1, <2>3, <3>1, <3>2 DEF TypeOK
  <2>5. LoopInv'
    <3>1. from' <= pos' /\ ~pendingDotDot' /\ from' <= head' /\ head' < pos' /\ tokpos' = head'
      BY <1>1, <1>3, <2>1, <2>2
    <3>2. At(head)' \notin OpChar
      BY <1>2, <2>1 DEF At
    <3>3. Text(head, pos - 1)' = delim' \o buf'
      BY <1>4, <2>1, <2>3 DEF Text
    <3> QED BY <2>1, <3>1, <3>2, <3>3 DEF LoopInv
  <2> QED BY <2>1, <2>4, <2>5, InLoop
<1> QED BY <1>5, <1>6

\* Words, and the beginnings of what is quoted.
LEMMA NamedStep ==
  ASSUME SInv, Named
  PROVE  SInv'
<1>1. /\ TypeOK /\ Len(text) \in Nat /\ pos \in Nat /\ pos >= 1 /\ pos \in 1..Len(text) + 1
      /\ \A p \in Nat : p >= 1 /\ At(p) # EOFch => p + 1 \in 1..Len(text) + 1
  BY NextChar DEF SInv
<1>2. IdentStart \cap OpChar = {} /\ EOFch \notin IdentStart
  BY DEF IdentStart, OpChar, NonSQLOp, EOFch
<1>3. CASE Ident
  <2> DEFINE q == RunEnd(pos + 1, IdentCont)
  <2>1. mode = "redo" /\ At(pos) \in IdentStart /\ Begins /\ Word(Text(pos, q - 1)) /\ Return(q)
        /\ UNCHANGED pendingDotDot
    BY <1>3 DEF Ident, ch
  <2>2. At(pos) \notin OpChar /\ pos + 1 \in 1..Len(text) + 1
    BY <1>1, <1>2, <2>1
  <2>3. q \in pos + 1..Len(text) + 1
    BY <1>1, <2>2, RunEnds, EndIsNoChar
  <2>. HIDE DEF q
  <2>4. Text(pos, q - 1) \in Seq(Char)
    <3>1. PICK j \in 0..Len(text) : j = q - 1 /\ pos <= j + 1
      BY <1>1, <2>3
    <3> QED BY <1>1, <3>1, TextPiece
  <2>5. lit' \in Built /\ tok' \notin LiteralTokens \cup {"EOF"} /\ UNCHANGED <<bad, kind>>
    BY <2>1, <2>4, WordToken
  <2>6. mode' = "idle" /\ UNCHANGED <<text, work, from>> /\ pos' = q /\ head' = pos /\ tokpos' = pos
    BY <2>1 DEF Begins, Return
  <2>7. pos \in 0..Len(text) + 1
    BY <1>1
  <2> QED BY <2>1, <2>2, <2>3, <2>5, <2>6, <2>7, PlainReturn
<1>4. CASE PrefixedString
  <2>1. mode = "redo" /\ At(pos + 1) = "quote" /\ At(pos) \in {"b", "x", "e", "n"}
        /\ \E f \in Forms : Opens(f, pos + 1) \/ Opens(f, pos + 2)
    BY <1>4 DEF PrefixedString, Forms, ch
  <2>2. At(pos) \notin OpChar /\ At(pos) # EOFch
    BY <2>1 DEF OpChar, NonSQLOp, EOFch
  <2>3. pos + 1 \in pos + 1..Len(text) + 1 /\ pos + 2 \in pos + 1..Len(text) + 1
    BY <1>1, <2>1, <2>2 DEF EOFch
  <2> QED BY <2>1, <2>2, <2>3, OpenForm
<1>5. CASE UnicodePrefixed
  <2>1. /\ mode = "redo" /\ At(pos) \in {"u", "U"} /\ At(pos + 1) = "amp"
        /\ \/ At(pos + 2) \in {"quote", "dquote"} /\ \E f \in Forms : Opens(f, pos + 3)
           \/ /\ Begins /\ Word(<<"u">>) /\ Return(pos + 2) /\ UNCHANGED pendingDotDot
    BY <1>5 DEF UnicodePrefixed, Forms, ch, Lower
  <2>2. At(pos) \notin OpChar /\ At(pos) # EOFch
    BY <2>1 DEF OpChar, NonSQLOp, EOFch
  <2>3. pos + 2 \in pos + 1..Len(text) + 1
    BY <1>1, <2>1, <2>2 DEF EOFch
  <2>4. CASE At(pos + 2) \in {"quote", "dquote"} /\ \E f \in Forms : Opens(f, pos + 3)
    <3>1. pos + 3 \in pos + 1..Len(text) + 1
      BY <1>1, <2>3, <2>4 DEF EOFch
    <3> QED BY <2>1, <2>2, <2>4, <3>1, OpenForm
  <2>5. CASE Begins /\ Word(<<"u">>) /\ Return(pos + 2) /\ UNCHANGED pendingDotDot
    <3>1. <<"u">> \in Seq(Char)
      BY DEF Char, IdentCont, IdentStart
    <3>2. lit' \in Built /\ tok' \notin LiteralTokens \cup {"EOF"} /\ UNCHANGED <<bad, kind>>
      BY <2>5, <3>1, WordToken
    <3>3. /\ mode' = "idle" /\ UNCHANGED <<text, work, from>> /\ pos' = pos + 2
          /\ head' = pos /\ tokpos' = pos
      BY <2>5 DEF Begins, Return
    <3>4. pos \in 0..Len(text) + 1
      BY <1>1
    <3> QED BY <2>1, <2>2, <2>3, <2>5, <3>2, <3>3, <3>4, PlainReturn
  <2> QED BY <2>1, <2>4, <2>5
<1>6. CASE PlainQuote
  <2>1. mode = "redo" /\ At(pos) \in {"quote", "dquote"} /\ \E f \in Forms : Opens(f, pos + 1)
    BY <1>6 DEF PlainQuote, Forms, ch
  <2>2. At(pos) \notin OpChar /\ At(pos) # EOFch
    BY <2>1 DEF OpChar, NonSQLOp, EOFch
  <2>3. pos + 1 \in pos + 1..Len(text) + 1
    BY <1>1, <2>2
  <2> QED BY <2>1, <2>2, <2>3, OpenForm
<1>7. CASE OpenDollar
  BY <1>7, OpenDollarStep
<1> QED BY <1>3, <1>4, <1>5, <1>6, <1>7 DEF Named

\* A turn of a loop: what it adds to the builder leaves the token unread.
LEMMA CollectStep ==
  ASSUME SInv, mode \in {"quoted", "dollar"}, NEW w \in Built, NEW p \in pos..Len(text) + 1,
         Collect(w, p), flaw' \in BOOLEAN,
         mode = "quoted" => said' \in Seq(EscapeErrors) /\ (flaw' <=> said' # <<>>),
         mode = "dollar" => said' = <<>> /\ Text(head, p - 1) = delim \o buf \o w
  PROVE  SInv'
<1>1. /\ TypeOK /\ Len(text) \in Nat /\ pos \in Nat /\ pos >= 1 /\ from \in 1..pos /\ ~pendingDotDot
      /\ from <= head /\ head < pos /\ tokpos = head /\ At(head) \notin OpChar /\ head \in Nat
  BY CharAt DEF SInv, TypeOK, LoopInv
<1>2. /\ buf' = buf \o w /\ pos' = p
      /\ UNCHANGED <<text, mode, form, depth, delim, tok, lit, bad, kind, tokpos, pendingDotDot,
                     head, from>>
  BY DEF Collect, token
<1>3. buf' \in Built
  <2>1. buf \in Built
    BY <1>1 DEF TypeOK, Built
  <2> QED BY <1>2, <2>1 DEF Built
<1>4. TypeOK'
  <2>1. pos' \in 1..Len(text) + 1 /\ from \in 1..pos'
    BY <1>1, <1>2
  <2>2. {lit', buf'} \subseteq Seq(Char \cup {"control", "escaped"})
    BY <1>1, <1>2, <1>3 DEF TypeOK, Built
  <2> QED BY <1>1, <1>2, <2>1, <2>2 DEF TypeOK
<1>5. LoopInv'
  <2>1. from' <= pos' /\ ~pendingDotDot' /\ from' <= head' /\ head' < pos' /\ tokpos' = head'
    BY <1>1, <1>2
  <2>2. At(head)' \notin OpChar
    BY <1>1, <1>2 DEF At
  <2>3. mode = "dollar" => Text(head, pos - 1)' = delim' \o buf'
    <3>1. delim \in Built /\ buf \in Built
      BY <1>1, TextIsBuilt DEF TypeOK, Built
    <3>2. (delim \o buf) \o w = delim \o (buf \o w)
      BY <3>1, ConcatAssociative, SMTT(30) DEF Built
    <3>3. mode = "dollar" => Text(head, p - 1) = delim \o (buf \o w)
      BY <3>2
    <3> QED BY <1>2, <3>3 DEF Text
  <2> QED BY <1>2, <2>1, <2>2, <2>3 DEF LoopInv
<1> QED BY <1>2, <1>4, <1>5, InLoop

\* A quoted form is read on, or ends.
LEMMA QuotedStep ==
  ASSUME SInv, Quoted
  PROVE  SInv'
<1>1. /\ TypeOK /\ Len(text) \in Nat /\ pos \in Nat /\ pos >= 1 /\ pos \in 1..Len(text) + 1
      /\ \A p \in Nat : p >= 1 /\ At(p) # EOFch => p + 1 \in 1..Len(text) + 1
  BY NextChar DEF SInv
<1>2. mode = "quoted" => /\ said \in Seq(EscapeErrors) /\ (flaw <=> said # <<>>)
                         /\ flaw \in BOOLEAN /\ buf \in Built /\ form \in Forms
  BY <1>1 DEF SInv, LoopInv, TypeOK, Built, Forms
<1>3. ch # EOFch => ch \in Char /\ <<ch>> \in Built /\ pos + 1 \in pos..Len(text) + 1
  BY <1>1, CharAt DEF ch, Built
<1>4. CASE QuotedChar
  <2>1. mode = "quoted" /\ ch # EOFch /\ Collect(<<ch>>, pos + 1) /\ UNCHANGED <<flaw, said>>
    BY <1>4 DEF QuotedChar
  <2> QED BY <1>2, <1>3, <2>1, CollectStep
<1>5. form \in Forms => form.close # EOFch
  BY DEF Forms, StdString, ExtString, UnicodeString, BitString, HexString, UnicodeIdent,
         DelimitedIdent, Form, EOFch
<1>6. CASE QuotedDoubled
  <2>1. /\ mode = "quoted" /\ ch = form.close /\ At(pos + 1) = form.close
        /\ Collect(<<ch>>, pos + 2) /\ UNCHANGED <<flaw, said>>
    BY <1>6 DEF QuotedDoubled
  <2>2. pos + 2 \in pos..Len(text) + 1
    BY <1>1, <1>2, <1>3, <1>5, <2>1 DEF ch
  <2> QED BY <1>2, <1>3, <1>5, <2>1, <2>2, CollectStep
<1>7. CASE QuotedEscape
  <2> DEFINE x == Escape(pos + 1)
  <2>1. /\ mode = "quoted" /\ ch = "backslash" /\ Collect(x.add, x.next)
        /\ said' = said \o x.errors /\ flaw' = (flaw \/ x.errors # <<>>)
    BY <1>7 DEF QuotedEscape, Say
  <2>2. pos + 1 \in 1..Len(text) + 1
    BY <1>1, <2>1 DEF ch, EOFch
  <2>3. x.add \in Built /\ x.next \in pos + 1..Len(text) + 1 /\ x.errors \in Seq(EscapeErrors)
    BY <1>1, <2>2, EscapeType, EscapeError
  <2>. HIDE DEF x
  <2>4. said' \in Seq(EscapeErrors) /\ flaw' \in BOOLEAN /\ (flaw' <=> said' # <<>>)
    <3>1. said \o x.errors \in Seq(EscapeErrors)
      BY <1>2, <2>1, <2>3
    <3>2. said \o x.errors = <<>> <=> said = <<>> /\ x.errors = <<>>
      BY <1>2, <2>1, <2>3
    <3>3. flaw' \in BOOLEAN /\ (flaw' <=> flaw \/ x.errors # <<>>)
      BY <1>2, <2>1, Zenon
    <3> QED BY <1>2, <2>1, <3>1, <3>2, <3>3
  <2>5. x.next \in pos..Len(text) + 1
    BY <1>1, <2>3
  <2> QED BY <2>1, <2>3, <2>4, <2>5, CollectStep
<1>8. ASSUME mode = "quoted", NEW p \in pos..Len(text) + 1, NEW b \in BOOLEAN, NEW s,
             Literal(form.tok, buf, b, form.kind), said' = s, b <=> s # <<>>,
             Return(p), UNCHANGED <<tokpos, pendingDotDot, head>>
      PROVE  SInv'
  <2>1. form.tok \notin {"ICONST", "FCONST", "EOF"} /\ form.kind # "DollarLit"
    BY <1>2, <1>8, FormParts
  <2>2. /\ tok' = form.tok /\ lit' = buf /\ bad' = b /\ kind' = form.kind /\ pos' = p
        /\ mode' = "idle" /\ UNCHANGED <<text, work, from, head, tokpos, pendingDotDot>>
    BY <1>8 DEF Literal, Return
  <2>3. DollarStringsDecode'
    BY <2>1, <2>2 DEF DollarStringsDecode
  <2> QED BY <1>2, <1>8, <2>1, <2>2, <2>3, QuotedReturn
<1>9. CASE QuotedClose
  <2> DEFINE empty == ~form.mayBeEmpty /\ buf = <<>>
             s == said \o (IF empty THEN <<"zero_length_identifier">> ELSE <<>>)
  <2>1. /\ mode = "quoted" /\ ch = form.close /\ Literal(form.tok, buf, flaw \/ empty, form.kind)
        /\ said' = s /\ Return(pos + 1) /\ UNCHANGED <<tokpos, pendingDotDot, head>>
    BY <1>9 DEF QuotedClose, Say
  <2>2. flaw \/ empty <=> s # <<>>
    <3>1. CASE empty
      BY <1>2, <2>1, <3>1
    <3>2. CASE ~empty
      BY <1>2, <2>1, <3>2
    <3> QED BY <3>1, <3>2
  <2>3. pos + 1 \in pos..Len(text) + 1
    BY <1>2, <1>3, <1>5, <2>1
  <2>4. (flaw \/ empty) \in BOOLEAN
    OBVIOUS
  <2>. HIDE DEF empty, s
  <2> QED BY <1>8, <2>1, <2>2, <2>3, <2>4
<1>10. CASE QuotedEOF
  <2>1. /\ mode = "quoted" /\ Literal(form.tok, buf, TRUE, form.kind)
        /\ said' = said \o <<"unterminated">>
        /\ Return(pos) /\ UNCHANGED <<tokpos, pendingDotDot, head>>
    BY <1>10 DEF QuotedEOF, Say
  <2>2. said \o <<"unterminated">> # <<>>
    BY <1>2, <2>1
  <2>3. pos \in pos..Len(text) + 1
    BY <1>1
  <2> QED BY <1>8, <2>1, <2>2, <2>3
<1> QED BY <1>4, <1>6, <1>7, <1>9, <1>10 DEF Quoted

\* A dollar-quoted string is read on, or ends.
LEMMA DollarStep ==
  ASSUME SInv, Dollar
  PROVE  SInv'
<1>1. /\ TypeOK /\ Len(text) \in Nat /\ pos \in Nat /\ pos >= 1 /\ pos \in 1..Len(text) + 1
      /\ \A p \in Nat : p >= 1 /\ At(p) # EOFch => p + 1 \in 1..Len(text) + 1
  BY NextChar DEF SInv
<1>2. /\ mode = "dollar" /\ said = <<>> /\ Text(head, pos - 1) = delim \o buf /\ head < pos
      /\ buf \in Built /\ head \in Nat /\ head >= 1 /\ delim \in Seq(Char) /\ flaw \in BOOLEAN
  <2>1. mode = "dollar"
    BY DEF Dollar, DollarChar, DollarCandidate, DollarEOF
  <2>2. said = <<>> /\ Text(head, pos - 1) = delim \o buf /\ head < pos
    BY <2>1 DEF SInv, LoopInv
  <2>3. buf \in Built /\ head \in Nat /\ head >= 1 /\ delim \in Seq(Char) /\ flaw \in BOOLEAN
    BY <1>1 DEF TypeOK, Built
  <2> QED BY <2>1, <2>2, <2>3
<1>3. ASSUME NEW k \in pos..Len(text)
      PROVE  /\ Text(pos, k) \in Built /\ Text(pos, k) \in Seq(Char)
             /\ Text(head, k) = delim \o buf \o Text(pos, k)
  <2>1. PICK j \in 0..Len(text) : j = k /\ pos <= j + 1
    BY <1>1
  <2>2. Text(pos, k) \in Seq(Char)
    BY <1>1, <2>1, TextPiece
  <2>3. PICK i \in 0..Len(text) : i = pos - 1 /\ head <= i + 1
    BY <1>1, <1>2
  <2>4. head \in 1..Len(text) + 1 /\ k \in i..Len(text) /\ i + 1 = pos
    BY <1>1, <1>2, <2>3
  <2>5. Text(head, i) \o Text(i + 1, k) = Text(head, k)
    BY <1>1, <2>3, <2>4, TextMeet
  <2> QED BY <1>2, <2>2, <2>3, <2>4, <2>5, TextIsBuilt
<1>4. CASE DollarChar
  <2>1. ch # EOFch /\ Collect(<<ch>>, pos + 1) /\ UNCHANGED <<flaw, said>>
    BY <1>4 DEF DollarChar
  <2>2. pos \in pos..Len(text) /\ ch \in Char /\ ch = text[pos] /\ text \in Seq(Char)
    BY <1>1, <2>1, CharAt DEF ch
  <2>3. Text(pos, pos) = <<ch>>
    <3>1. PICK j \in 0..Len(text) : j = pos /\ pos <= j + 1
      BY <1>1, <2>2
    <3>2. /\ Text(pos, j) \in Seq(Char) /\ Len(Text(pos, j)) = j + 1 - pos
          /\ \A k \in 1..j + 1 - pos : Text(pos, j)[k] = At(pos + k - 1)
      BY <1>1, <3>1, TextPiece
    <3>3. j + 1 - pos = 1 /\ 1 \in 1..1 /\ pos + 1 - 1 = pos
      BY <1>1, <3>1
    <3>4. Text(pos, j)[1] = At(pos + 1 - 1)
      BY <3>2, <3>3
    <3>5. \A s \in Seq(Char) : Len(s) = 1 => s = <<s[1]>>
      OBVIOUS
    <3> QED BY <3>1, <3>2, <3>3, <3>4, <3>5 DEF ch
  <2>4. <<ch>> \in Built /\ pos + 1 \in pos..Len(text) + 1 /\ pos + 1 - 1 = pos
    BY <1>1, <2>2 DEF Built
  <2>5. Text(head, pos) = delim \o buf \o <<ch>>
    BY <1>3, <2>2, <2>3, <2>4
  <2>6. mode # "quoted" /\ said' = <<>> /\ flaw' \in BOOLEAN
    BY <1>2, <2>1
  <2>7. PICK p \in pos..Len(text) + 1 : p = pos + 1
    BY <2>4
  <2>8. Collect(<<ch>>, p)
    BY <2>1, <2>7
  <2>9. p - 1 = pos
    BY <1>1, <2>7
  <2>10. Text(head, p - 1) = delim \o buf \o <<ch>>
    BY <2>5, <2>9
  <2> QED BY <1>2, <2>4, <2>6, <2>8, <2>10, CollectStep
<1>5. CASE DollarCandidate
  <2> DEFINE t == RunEnd(pos + 1, DolqIdent)
  <2>1. ch = "dollar" /\ pos + 1 \in 1..Len(text) + 1
    BY <1>1, <1>5 DEF DollarCandidate, ch, EOFch
  <2>2. t \in pos + 1..Len(text) + 1
    BY <1>1, <2>1, RunEnds, EndIsNoChar
  <2>3. \/ Collect(Text(pos, t - 1), t) /\ UNCHANGED <<flaw, said>>
        \/ At(t) = "dollar" /\ Collect(Text(pos, t), t + 1) /\ UNCHANGED <<flaw, said>>
        \/ /\ At(t) = "dollar" /\ Text(pos, t) = delim
           /\ Literal("SCONST", buf, FALSE, "DollarLit") /\ Return(t + 1)
           /\ UNCHANGED <<tokpos, pendingDotDot, head, said>>
    BY <1>5 DEF DollarCandidate
  <2>. HIDE DEF t
  <2>4. t \in Nat /\ t >= 1 /\ t + 1 - 1 = t /\ t \in pos..Len(text) + 1
    BY <1>1, <2>2
  <2>5. At(t) = "dollar" => t \in pos..Len(text) /\ t + 1 \in pos..Len(text) + 1 /\ t + 1 > pos
    BY <1>1, <2>2, <2>4, CharAt DEF EOFch
  <2>6. CASE Collect(Text(pos, t - 1), t) /\ UNCHANGED <<flaw, said>>
    <3>1. t - 1 \in pos..Len(text)
      BY <1>1, <2>2
    <3>2. /\ Text(pos, t - 1) \in Built
          /\ Text(head, t - 1) = delim \o buf \o Text(pos, t - 1)
      BY <1>3, <3>1
    <3>3. mode # "quoted" /\ said' = <<>> /\ flaw' \in BOOLEAN
      BY <1>2, <2>6
    <3> QED BY <1>2, <2>4, <2>6, <3>2, <3>3, CollectStep
  <2>7. CASE At(t) = "dollar" /\ Collect(Text(pos, t), t + 1) /\ UNCHANGED <<flaw, said>>
    <3>1. Text(pos, t) \in Built /\ Text(head, t) = delim \o buf \o Text(pos, t)
      BY <1>3, <2>4, <2>5, <2>7
    <3>2. mode # "quoted" /\ said' = <<>> /\ flaw' \in BOOLEAN
      BY <1>2, <2>7
    <3>3. PICK p \in pos..Len(text) + 1 : p = t + 1
      BY <2>5, <2>7
    <3>4. Collect(Text(pos, t), p)
      BY <2>7, <3>3
    <3>5. p - 1 = t
      BY <2>4, <3>3
    <3>6. Text(head, p - 1) = delim \o buf \o Text(pos, t)
      BY <3>1, <3>5
    <3> QED BY <1>2, <3>1, <3>2, <3>4, <3>6, CollectStep
  <2>8. CASE /\ At(t) = "dollar" /\ Text(pos, t) = delim
             /\ Literal("SCONST", buf, FALSE, "DollarLit") /\ Return(t + 1)
             /\ UNCHANGED <<tokpos, pendingDotDot, head, said>>
    <3>1. /\ tok' = "SCONST" /\ lit' = buf /\ bad' = FALSE /\ kind' = "DollarLit" /\ pos' = t + 1
          /\ mode' = "idle" /\ said' = <<>>
          /\ UNCHANGED <<text, work, delim, from, head, tokpos, pendingDotDot>>
      BY <1>2, <2>8 DEF Literal, Return, work
    <3>2. DollarStringsDecode'
      <4>1. pos' - 1 = t /\ head' = head /\ text' = text
        BY <2>4, <3>1
      <4>3. Consumed' = Text(head, t)
        BY <4>1 DEF Consumed, Text
      <4>2. Text(head, t) = delim \o lit' \o delim'
        BY <1>3, <2>5, <2>8, <3>1
      <4> QED BY <3>1, <4>3, <4>2 DEF DollarStringsDecode
    <3>3. pos' \in pos..Len(text) + 1 /\ lit' \in Built /\ bad' \in BOOLEAN /\ (bad' <=> said' # <<>>)
      BY <1>2, <2>5, <2>8, <3>1
    <3> QED BY <1>2, <3>1, <3>2, <3>3, QuotedReturn
  <2> QED BY <2>3, <2>6, <2>7, <2>8
<1>6. CASE DollarEOF
  <2>1. /\ tok' = "SCONST" /\ lit' = buf /\ bad' = TRUE /\ kind' = "DollarLit" /\ pos' = pos
        /\ mode' = "idle" /\ said' = <<"unterminated">>
        /\ UNCHANGED <<text, work, from, head, tokpos, pendingDotDot>>
    BY <1>2, <1>6 DEF DollarEOF, Literal, Return, Say
  <2>2. DollarStringsDecode'
    BY <2>1 DEF DollarStringsDecode
  <2>3. pos' \in pos..Len(text) + 1 /\ lit' \in Built /\ bad' \in BOOLEAN /\ (bad' <=> said' # <<>>)
    BY <1>1, <1>2, <2>1
  <2> QED BY <1>2, <2>1, <2>2, <2>3, QuotedReturn
<1> QED BY <1>4, <1>5, <1>6 DEF Dollar
-----------------------------------------------------------------------------
\* Every step of the scanner keeps the invariant.
LEMMA NextSInv ==
  ASSUME SInv, [Next]_vars
  PROVE  SInv'
<1>1. CASE UNCHANGED vars
  <2>1. UNCHANGED <<text, pos, mode, form, depth, delim, buf, flaw, tok, lit, bad, kind, tokpos,
                    pendingDotDot, head, from, said>>
    BY <1>1 DEF vars, token, work
  <2>2. UNCHANGED <<Consumed, HasToken, ch, At(pos), At(head)>>
    BY <2>1 DEF Consumed, HasToken, Text, At, ch
  <2>3. TypeOK'
    BY <2>1 DEF SInv, TypeOK
  <2>4. LoopInv'
    BY <2>1, <2>2 DEF SInv, LoopInv, Text
  <2>5. TokensAdvance' /\ PendingIsSecondDot' /\ NumbersAreWhole' /\ BadIffReported'
        /\ DollarStringsDecode'
    BY <2>1, <2>2 DEF SInv, TokenInv, TokensAdvance, PendingIsSecondDot, NumbersAreWhole,
                      BadIffReported, DollarStringsDecode
  <2>6. OperatorsAreLongest'
    BY <2>1, <2>2 DEF SInv, TokenInv, OperatorsAreLongest
  <2> QED BY <2>3, <2>4, <2>5, <2>6 DEF SInv, TokenInv
<1>2. CASE Next
  BY <1>2, CallStep, SkipStep, FixedStep, NumericStep, NamedStep, QuotedStep, DollarStep
     DEF Next, Step
<1> QED BY <1>1, <1>2

\* The inductive invariant of the scanner.
THEOREM SpecSInv == Spec => []SInv
<1>1. SInv /\ [Next]_vars => SInv'
  BY NextSInv
<1> QED BY <1>1, InitSInv, PTL DEF Spec

\* The fields of Scanner and the variables of its loops have their types: no loop
\* leaves the text, and what is collected is made of characters.
THEOREM SpecTypeOK == Spec => []TypeOK
<1>1. SInv => TypeOK
  BY DEF SInv, TokenInv
<1> QED BY <1>1, SpecSInv, PTL

\* A call of Next goes forward: a token takes at least one character that no
\* earlier token took, and EOF is returned at the end of the text and not before.
THEOREM SpecTokensAdvance == Spec => []TokensAdvance
<1>1. SInv => TokensAdvance
  BY DEF SInv, TokenInv
<1> QED BY <1>1, SpecSInv, PTL

\* While pendingDotDot is set the next character is the second dot of ".." and the
\* current token is the integer before it, so the DOT_DOT that is owed is read.
THEOREM SpecPendingIsSecondDot == Spec => []PendingIsSecondDot
<1>1. SInv => PendingIsSecondDot
  BY DEF SInv, TokenInv
<1> QED BY <1>1, SpecSInv, PTL

\* A number that no error was reported for is all of the text that was read for
\* it, and no letter follows it.
THEOREM SpecNumbersAreWhole == Spec => []NumbersAreWhole
<1>1. SInv => NumbersAreWhole
  BY DEF SInv, TokenInv
<1> QED BY <1>1, SpecSInv, PTL

\* A literal is Bad exactly when an error was reported while it was read, whatever
\* the branches of scan_number.go and scan_string.go that lead to its end.
THEOREM SpecBadIffReported == Spec => []BadIffReported
<1>1. SInv => BadIffReported
  BY DEF SInv, TokenInv
<1> QED BY <1>1, SpecSInv, PTL

\* A dollar-quoted string that ends well is what stands between its delimiters:
\* no candidate for the closing delimiter is lost or kept twice.
THEOREM SpecDollarStringsDecode == Spec => []DollarStringsDecode
<1>1. SInv => DollarStringsDecode
  BY DEF SInv, TokenInv
<1> QED BY <1>1, SpecSInv, PTL

\* Of the operator characters that were read finishOperator returns as many from the
\* first on as make an operator by its own two rules, and no fewer, however signs,
\* comments and characters that SQL does not have are mixed.
THEOREM SpecOperatorsAreLongest == Spec => []OperatorsAreLongest
<1>1. SInv => OperatorsAreLongest
  BY DEF SInv, TokenInv
<1> QED BY <1>1, SpecSInv, PTL
=============================================================================
