---------------------------- MODULE QuotedProofs ----------------------------
(***************************************************************************)
(* The strings and delimited identifiers of scanner/scan_string.go: a      *)
(* quoted form without escapes is the quoting of the value it has, and in  *)
(* one that has them is Bad only for an escape that is not a character's.  *)
(***************************************************************************)
EXTENDS ScannerProofs, FiniteSetTheorems

Image(c, close) == IF c = close THEN <<close, close>> ELSE <<c>>
Images(w, close) == [i \in 1..Len(w) |-> Image(w[i], close)]

\* In the loop over a quoted form the text since the opening quote is the quoting
\* of what has been collected.
QuotedLoop ==
  mode = "quoted" /\ ~form.escapes /\ At(head) # "n" =>
    /\ Len(form.prefix) <= Len(buf)
    /\ \E o \in head..pos - 1 :
         Text(o, pos - 1) = <<form.close>> \o FlattenSeq(Images(WithoutPrefix(buf), form.close))

QInv == QuotedLoop /\ QuotedFormsDecode
-----------------------------------------------------------------------------
\* A value that grows by a character has a quoting that grows by its image.
LEMMA QuotingGrows ==
  ASSUME NEW w \in Built, NEW c, <<c>> \in Built, NEW close \in {"quote", "dquote"}
  PROVE  /\ FlattenSeq(Images(Append(w, c), close)) = FlattenSeq(Images(w, close)) \o Image(c, close)
         /\ FlattenSeq(Images(w, close)) \in Built /\ Image(c, close) \in Built
<1> DEFINE S == Char \cup {"control", "escaped"}
<1>1. close \in S /\ c \in S
  <2>1. c \in S
    <3>1. <<c>> \in Seq(S) /\ Len(<<c>>) = 1 /\ <<c>>[1] = c
      BY DEF Built
    <3> QED BY <3>1
  <2> QED BY <2>1 DEF Char
<1>3. w \in Seq(S)
  BY DEF Built
<1>. HIDE DEF S
<1>2. \A d \in S : Image(d, close) \in Seq(S)
  <2>1. \A d \in S : <<d>> \in Seq(S) /\ <<d, d>> \in Seq(S)
    OBVIOUS
  <2> QED BY <1>1, <2>1 DEF Image
<1>4. Images(w, close) \in Seq(Seq(S)) /\ Len(Images(w, close)) = Len(w)
  BY <1>2, <1>3 DEF Images
<1>5. Images(Append(w, c), close) = Append(Images(w, close), Image(c, close))
  <2>1. /\ Append(w, c) \in Seq(S) /\ Len(Append(w, c)) = Len(w) + 1 /\ Append(w, c)[Len(w) + 1] = c
        /\ \A i \in 1..Len(w) : Append(w, c)[i] = w[i]
    BY <1>1, <1>3
  <2>2. Images(Append(w, c), close) \in Seq(Seq(S)) /\ Len(Images(Append(w, c), close)) = Len(w) + 1
    BY <1>2, <2>1 DEF Images
  <2>3. \A i \in 1..Len(w) + 1 :
          Images(Append(w, c), close)[i] = Append(Images(w, close), Image(c, close))[i]
    <3> TAKE i \in 1..Len(w) + 1
    <3>1. CASE i = Len(w) + 1
      <4>1. Images(Append(w, c), close)[i] = Image(c, close)
        BY <1>3, <2>1, <3>1 DEF Images
      <4>2. Append(Images(w, close), Image(c, close))[i] = Image(c, close)
        BY <1>4, <3>1
      <4> QED BY <4>1, <4>2
    <3>2. CASE i \in 1..Len(w)
      <4>1. i \in 1..Len(Append(w, c)) /\ Append(w, c)[i] = w[i]
        BY <1>3, <2>1, <3>2
      <4>2. Images(Append(w, c), close)[i] = Image(Append(w, c)[i], close)
        BY <4>1, Zenon DEF Images
      <4>3. Images(w, close)[i] = Image(w[i], close)
        BY <3>2, Zenon DEF Images
      <4>4. Append(Images(w, close), Image(c, close))[i] = Images(w, close)[i]
        BY <1>4, <3>2
      <4>5. Image(Append(w, c)[i], close) = Image(w[i], close)
        BY <4>1, Zenon
      <4> QED BY <4>2, <4>3, <4>4, <4>5, Zenon
    <3>3. i = Len(w) + 1 \/ i \in 1..Len(w)
      BY <1>3
    <3> QED BY <3>1, <3>2, <3>3, Zenon
  <2>4. /\ Append(Images(w, close), Image(c, close)) \in Seq(Seq(S))
        /\ Len(Append(Images(w, close), Image(c, close))) = Len(w) + 1
    BY <1>1, <1>2, <1>4
  <2> QED BY <2>2, <2>3, <2>4, SeqEqual
<1>6. Image(c, close) \in Seq(S)
  BY <1>1, <1>2
<1> QED BY <1>4, <1>5, <1>6, FlattenAppend DEF Built, S

\* What is built can be put together in any order.
LEMMA BuiltConcat ==
  ASSUME NEW r \in Built, NEW s \in Built, NEW t \in Built
  PROVE  (r \o s) \o t = r \o (s \o t) /\ r \o s \in Built
<1>1. (r \o s) \o t = r \o (s \o t)
  BY ConcatAssociative DEF Built
<1> QED BY <1>1 DEF Built

\* The quotes that end a quoted form.
LEMMA FormClose ==
  ASSUME NEW f \in Forms
  PROVE  /\ f.close \in {"quote", "dquote"}
         /\ f.tok \in {"SCONST", "USCONST", "BCONST", "XCONST", "UIDENT", "IDENT"}
         /\ f.tok = "IDENT" => f.close = "dquote"
         /\ f.kind # "DollarLit"
  BY DEF Forms, StdString, ExtString, UnicodeString, BitString, HexString, UnicodeIdent,
         DelimitedIdent, Form

\* A token that was not quoted is none of the quoted ones.
LEMMA NotQuoted ==
  ASSUME form' \in Forms,
         \/ tok' \notin {"SCONST", "USCONST", "BCONST", "XCONST", "UIDENT", "IDENT"}
         \/ kind' = "DollarLit"
         \/ tok' = "IDENT" /\ At(pos - 1)' # "dquote"
         \/ bad' = TRUE
  PROVE  QuotedFormsDecode'
  BY FormClose DEF QuotedFormsDecode, IsQuoted

\* In Next there is no token yet.
LEMMA NoTokenYet ==
  ASSUME mode' # "idle"
  PROVE  QuotedFormsDecode'
  BY DEF QuotedFormsDecode, IsQuoted, HasToken

\* Numbers and what has a fixed text are not quoted, and no loop over a quoted form
\* begins with them.
LEMMA OtherTokens ==
  ASSUME Call \/ Skip \/ Comment \/ Fixed \/ Numeric
  PROVE  \/ mode' \notin {"idle", "quoted"}
         \/ mode' = "idle" /\ tok' \notin {"SCONST", "USCONST", "BCONST", "XCONST", "UIDENT", "IDENT"}
<1> DEFINE Plains == {"SCONST", "USCONST", "BCONST", "XCONST", "UIDENT", "IDENT"}
<1>1. CASE Call
  BY <1>1 DEF Call, CallNext, PendingDotDot, Plain
<1>2. CASE Skip \/ Comment
  BY <1>2 DEF Skip, Comment, SkipSpace, SkipLineComment, OpenBlockComment, SkipInvalid, Skips,
              BlockComment, BlockCommentEOF
<1>3. CASE Fixed
  <2>1. mode' = "idle"
    BY <1>3 DEF Fixed, EOFToken, Operator, EqualsGreater, SelfToken, Colon, Dot, BareDollar, Simple,
                Return
  <2>2. \A op : OperatorToken(op) \notin Plains
    <3> TAKE op
    <3>1. CASE Len(op) = 1 /\ op[1] \in Self
      BY <3>1 DEF OperatorToken, Self
    <3>2. CASE ~(Len(op) = 1 /\ op[1] \in Self) /\ \E t \in DOMAIN TwoCharToken : TwoCharToken[t] = op
      <4>1. OperatorToken(op) \in DOMAIN TwoCharToken
        BY <3>2, Zenon DEF OperatorToken
      <4> QED BY <4>1 DEF TwoCharToken
    <3>3. CASE ~(Len(op) = 1 /\ op[1] \in Self) /\ ~\E t \in DOMAIN TwoCharToken : TwoCharToken[t] = op
      BY <3>3 DEF OperatorToken
    <3> QED BY <3>1, <3>2, <3>3
  <2>3. tok' \notin Plains
    <3>1. CASE Operator
      BY <2>2, <3>1 DEF Operator, Plain
    <3>2. CASE ~Operator
      BY <1>3, <3>2 DEF Fixed, EOFToken, EqualsGreater, SelfToken, Colon, Dot, BareDollar, Simple,
                        Plain, Self
    <3> QED BY <3>1, <3>2
  <2> QED BY <2>1, <2>3
<1>4. CASE Numeric
  <2>1. mode' = "idle" /\ tok' \in {"ICONST", "FCONST", "PARAM"}
    BY <1>4 DEF Numeric, RadixNumber, DecimalNumber, Param, Number, Literal, Return
  <2> QED BY <2>1
<1> QED BY <1>1, <1>2, <1>3, <1>4

\* The loop over a dollar-quoted string is none over a quoted form, and its token
\* is marked.
LEMMA DollarTokens ==
  ASSUME Dollar
  PROVE  \/ mode' = "dollar"
         \/ mode' = "idle" /\ kind' = "DollarLit"
BY DEF Dollar, DollarChar, DollarCandidate, DollarEOF, Collect, Literal, Return

\* A quoted form begins after its opening quote; N'...' begins at it.
LEMMA OpenedForm ==
  ASSUME TypeOK, TypeOK', NEW f \in Forms, NEW p \in pos + 1..Len(text) + 1, Opens(f, p),
         At(p - 1) = f.close \/ At(pos) = "n"
  PROVE  QInv'
<1>1. /\ mode' = "quoted" /\ form' = f /\ buf' = f.prefix /\ pos' = p /\ head' = pos /\ text' = text
      /\ Len(text) \in Nat /\ pos \in Nat /\ pos >= 1 /\ pos \in 1..Len(text) + 1
  BY CharAt DEF Opens, Begins, TypeOK
<1>2. QuotedFormsDecode'
  BY <1>1, NoTokenYet
<1>3. CASE At(pos) = "n"
  BY <1>1, <1>2, <1>3 DEF QInv, QuotedLoop, At
<1>4. CASE At(p - 1) = f.close
  <2>1. PICK j \in 0..Len(text) : j = p - 1 /\ j \in pos..p - 1 /\ j <= j + 1 /\ j \in 1..Len(text) + 1
    BY <1>1
  <2>2. /\ Text(j, j) \in Seq(Char) /\ Len(Text(j, j)) = j + 1 - j
        /\ \A k \in 1..j + 1 - j : Text(j, j)[k] = At(j + k - 1)
    BY <2>1, TextPiece
  <2>3. j + 1 - j = 1 /\ 1 \in 1..1 /\ j + 1 - 1 = j
    BY <2>1
  <2>4. \A s \in Seq(Char) : Len(s) = 1 => s = <<s[1]>>
    OBVIOUS
  <2>5. Text(j, j)[1] = At(j + 1 - 1)
    BY <2>2, <2>3
  <2>6. Text(j, j) = <<f.close>>
    BY <1>4, <2>1, <2>2, <2>3, <2>4, <2>5
  <2>7. f.prefix \in Built /\ Len(f.prefix) \in Nat
    BY FormParts DEF Built
  <2>8. WithoutPrefix(buf)' = <<>>
    <3>1. SubSeq(f.prefix, Len(f.prefix) + 1, Len(f.prefix)) = <<>>
      BY <2>7 DEF Built
    <3> QED BY <1>1, <3>1 DEF WithoutPrefix
  <2>9. FlattenSeq(Images(<<>>, f.close)) = <<>>
    BY DEF FlattenSeq, Images
  <2>10. QuotedLoop'
    <3>1. Text(j, pos - 1)' = <<form.close>>' \o FlattenSeq(Images(WithoutPrefix(buf), form.close))'
      <4>1. Text(j, pos - 1)' = Text(j, j)
        BY <1>1, <2>1 DEF Text
      <4>2. FlattenSeq(Images(WithoutPrefix(buf), form.close))' = <<>>
        <5>1. WithoutPrefix(buf)' = <<>> /\ form.close' = f.close
          BY <1>1, <2>8
        <5> QED BY <2>9, <5>1 DEF Images
      <4> QED BY <1>1, <2>6, <4>1, <4>2
    <3>2. j \in head'..pos' - 1 /\ Len(form'.prefix) <= Len(buf')
      BY <1>1, <2>1, <2>7
    <3> QED BY <3>1, <3>2 DEF QuotedLoop
  <2> QED BY <1>2, <2>10 DEF QInv
<1> QED BY <1>3, <1>4

\* Words are not quoted, and the quoted forms and dollar-quoted strings begin.
LEMMA NamedQuoted ==
  ASSUME SInv, SInv', Named
  PROVE  QInv'
<1>1. /\ TypeOK /\ TypeOK' /\ Len(text) \in Nat /\ pos \in Nat /\ pos >= 1 /\ pos \in 1..Len(text) + 1
      /\ \A p \in Nat : p >= 1 /\ At(p) # EOFch => p + 1 \in 1..Len(text) + 1
      /\ form' \in Forms
  BY NextChar DEF SInv, TypeOK, Forms
<1>2. ASSUME mode' = "idle", At(pos - 1)' # "dquote", tok' \in {"KEYWORD", "IDENT", "dollar"}
      PROVE  QInv'
  BY <1>1, <1>2, NotQuoted DEF QInv, QuotedLoop
<1>3. CASE Ident
  <2> DEFINE q == RunEnd(pos + 1, IdentCont)
  <2>1. /\ At(pos) \in IdentStart /\ mode' = "idle" /\ tok' \in {"KEYWORD", "IDENT"}
        /\ pos' = q /\ text' = text
    BY <1>3 DEF Ident, ch, Word, Plain, Return
  <2>2. pos + 1 \in 1..Len(text) + 1
    BY <1>1, <2>1 DEF IdentStart, EOFch
  <2>3. q \in pos + 1..Len(text) + 1 /\ \A i \in pos + 1..q - 1 : At(i) \in IdentCont
    BY <1>1, <2>2, RunEnds, EndIsNoChar
  <2>. HIDE DEF q
  <2>4. At(q - 1) \in IdentCont
    <3>1. q - 1 = pos \/ q - 1 \in pos + 1..q - 1
      BY <1>1, <2>3
    <3> QED BY <2>1, <2>3, <3>1 DEF IdentCont
  <2>5. At(pos - 1)' # "dquote"
    BY <2>1, <2>4 DEF At, IdentCont, IdentStart, Digit, OctDig
  <2> QED BY <1>2, <2>1, <2>5
<1>4. CASE PrefixedString
  <2>1. /\ At(pos + 1) = "quote" /\ At(pos) \in {"b", "x", "e", "n"}
        /\ \E f \in Forms : \/ f.close = "quote" /\ Opens(f, pos + 2)
                            \/ At(pos) = "n" /\ Opens(f, pos + 1)
    BY <1>4 DEF PrefixedString, Forms, ch, BitString, HexString, ExtString, StdString, Form
  <2>2. pos + 1 \in pos + 1..Len(text) + 1 /\ pos + 2 \in pos + 1..Len(text) + 1
    BY <1>1, <2>1 DEF EOFch
  <2>3. PICK p \in pos + 1..Len(text) + 1 : p = pos + 2 /\ p - 1 = pos + 1
    BY <1>1, <2>2
  <2>4. \E f \in Forms : \/ At(p - 1) = f.close /\ Opens(f, p)
                         \/ At(pos) = "n" /\ Opens(f, pos + 1)
    BY <2>1, <2>3
  <2> QED BY <1>1, <2>2, <2>4, OpenedForm
<1>5. CASE UnicodePrefixed
  <2>1. /\ At(pos) \in {"u", "U"} /\ At(pos + 1) = "amp"
        /\ \/ \E f \in Forms : At(pos + 2) = f.close /\ At(pos + 2) # EOFch /\ Opens(f, pos + 3)
           \/ mode' = "idle" /\ tok' \in {"KEYWORD", "IDENT"} /\ pos' = pos + 2 /\ text' = text
    BY <1>5 DEF UnicodePrefixed, Forms, ch, Lower, UnicodeString, UnicodeIdent, Form, Word, Plain,
                Return, EOFch
  <2>2. pos + 2 \in pos + 1..Len(text) + 1
    BY <1>1, <2>1 DEF EOFch
  <2>3. CASE \E f \in Forms : At(pos + 2) = f.close /\ At(pos + 2) # EOFch /\ Opens(f, pos + 3)
    <3>1. PICK p \in pos + 1..Len(text) + 1 : p = pos + 3 /\ p - 1 = pos + 2
      BY <1>1, <2>2, <2>3
    <3>2. \E f \in Forms : At(p - 1) = f.close /\ Opens(f, p)
      BY <2>3, <3>1
    <3> QED BY <1>1, <3>2, OpenedForm
  <2>4. CASE mode' = "idle" /\ tok' \in {"KEYWORD", "IDENT"} /\ pos' = pos + 2 /\ text' = text
    <3>1. pos' - 1 = pos + 1
      BY <1>1, <2>4
    <3>2. At(pos - 1)' = At(pos + 1)
      BY <2>4, <3>1 DEF At
    <3> QED BY <1>2, <2>1, <2>4, <3>2
  <2> QED BY <2>1, <2>3, <2>4
<1>6. CASE PlainQuote
  <2>1. At(pos) # EOFch /\ \E f \in Forms : At(pos) = f.close /\ Opens(f, pos + 1)
    BY <1>6 DEF PlainQuote, Forms, ch, StdString, DelimitedIdent, Form, EOFch
  <2>2. PICK p \in pos + 1..Len(text) + 1 : p = pos + 1 /\ p - 1 = pos
    BY <1>1, <2>1
  <2>3. \E f \in Forms : At(p - 1) = f.close /\ Opens(f, p)
    BY <2>1, <2>2
  <2> QED BY <1>1, <2>3, OpenedForm
<1>7. CASE OpenDollar
  <2>1. \/ mode' = "dollar"
        \/ mode' = "idle" /\ tok' = "dollar"
    BY <1>7 DEF OpenDollar, Simple, Plain, Return
  <2> QED BY <1>1, <2>1, NotQuoted, NoTokenYet DEF QInv, QuotedLoop
<1> QED BY <1>3, <1>4, <1>5, <1>6, <1>7 DEF Named

\* A turn of the loop over a quoted form that collects c has read its image.
LEMMA TurnQuoted ==
  ASSUME SInv, QInv, mode = "quoted", NEW c, <<c>> \in Built, NEW p \in pos..Len(text),
         Collect(<<c>>, p + 1), Text(pos, p) = Image(c, form.close)
  PROVE  QInv'
<1>1. /\ TypeOK /\ Len(text) \in Nat /\ pos \in Nat /\ pos >= 1 /\ pos \in 1..Len(text) + 1
      /\ buf \in Built /\ form \in Forms /\ head \in Nat /\ head >= 1 /\ head < pos
  BY NextChar DEF SInv, TypeOK, Forms, Built, LoopInv
<1>2. /\ mode' = "quoted" /\ form' = form /\ buf' = buf \o <<c>> /\ pos' = p + 1 /\ head' = head
      /\ text' = text
  BY DEF Collect
<1>3. QuotedFormsDecode'
  BY <1>2, NoTokenYet
<1>4. QuotedLoop'
  <2> SUFFICES ASSUME ~form.escapes, At(head) # "n"
               PROVE  /\ Len(form.prefix) <= Len(buf')
                      /\ \E o \in head..p :
                           Text(o, p) = <<form.close>>
                             \o FlattenSeq(Images(WithoutPrefix(buf'), form.close))
    <3>1. pos' - 1 = p
      BY <1>2
    <3>2. /\ WithoutPrefix(buf)' = WithoutPrefix(buf') /\ At(head)' = At(head)
          /\ \A o : Text(o, pos - 1)' = Text(o, p)
      BY <1>2, <3>1 DEF WithoutPrefix, At, Text
    <3> QED BY <1>2, <3>1, <3>2 DEF QuotedLoop, Images
  <2>1. Len(form.prefix) <= Len(buf) /\ \E o \in head..pos - 1 :
          Text(o, pos - 1) = <<form.close>> \o FlattenSeq(Images(WithoutPrefix(buf), form.close))
    BY DEF QInv, QuotedLoop
  <2>2. PICK o \in head..pos - 1 :
          Text(o, pos - 1) = <<form.close>> \o FlattenSeq(Images(WithoutPrefix(buf), form.close))
    BY <2>1
  <2>3. form.prefix \in Built /\ form.close \in {"quote", "dquote"}
    BY <1>1, FormParts, FormClose
  <2> DEFINE w == WithoutPrefix(buf)
             n == Len(form.prefix)
  <2>4. n \in Nat /\ n <= Len(buf) /\ buf \in Seq(Char \cup {"control", "escaped"})
        /\ c \in Char \cup {"control", "escaped"}
    <3>1. n \in Nat
      BY <2>3 DEF Built
    <3>2. <<c>> \in Seq(Char \cup {"control", "escaped"}) /\ Len(<<c>>) = 1 /\ <<c>>[1] = c
      BY DEF Built
    <3> QED BY <1>1, <2>1, <3>1, <3>2 DEF Built
  <2>5. WithoutPrefix(buf') = Append(w, c) /\ w \in Built /\ Len(buf') = Len(buf) + 1
    <3>. HIDE DEF n
    <3>1. /\ SubSeq(buf \o <<c>>, n + 1, Len(buf) + 1) = Append(SubSeq(buf, n + 1, Len(buf)), c)
          /\ SubSeq(buf, n + 1, Len(buf)) \in Built /\ Len(buf \o <<c>>) = Len(buf) + 1
      BY <2>4, EndGrows DEF Built
    <3> QED BY <1>2, <3>1 DEF WithoutPrefix, n
  <2>. HIDE DEF w, n
  <2>6. /\ FlattenSeq(Images(Append(w, c), form.close))
             = FlattenSeq(Images(w, form.close)) \o Image(c, form.close)
        /\ FlattenSeq(Images(w, form.close)) \in Built /\ Image(c, form.close) \in Built
    BY <2>3, <2>5, QuotingGrows
  <2>7. <<form.close>> \in Built
    BY <2>3 DEF Built, Char
  <2>8. Text(o, p) = Text(o, pos - 1) \o Text(pos, p)
    <3>1. PICK j \in 0..Len(text) : j = pos - 1 /\ o <= j + 1 /\ j + 1 = pos
      BY <1>1, <2>2
    <3>2. o \in 1..Len(text) + 1 /\ p \in j..Len(text)
      BY <1>1, <2>2, <3>1
    <3> QED BY <1>1, <3>1, <3>2, TextMeet
  <2>9. Text(o, p) = <<form.close>> \o FlattenSeq(Images(Append(w, c), form.close))
    <3> DEFINE a == <<form.close>>
               b == FlattenSeq(Images(w, form.close))
               d == Image(c, form.close)
    <3>1. Text(o, p) = (a \o b) \o d
      BY <2>2, <2>8 DEF w
    <3>2. a \in Built /\ b \in Built /\ d \in Built
      BY <2>6, <2>7
    <3>3. FlattenSeq(Images(Append(w, c), form.close)) = b \o d
      BY <2>6
    <3>. HIDE DEF a, b, d
    <3>4. (a \o b) \o d = a \o (b \o d)
      <4>1. \A r, s, t \in Built : (r \o s) \o t = r \o (s \o t)
        BY BuiltConcat, ZenonT(30)
      <4> QED BY <3>2, <4>1
    <3> QED BY <3>1, <3>3, <3>4 DEF a
  <2>10. o \in head..p
    BY <1>1, <2>2
  <2>11. Len(form.prefix) <= Len(buf')
    BY <1>1, <2>4, <2>5 DEF n
  <2> QED BY <2>5, <2>9, <2>10, <2>11
<1> QED BY <1>3, <1>4 DEF QInv

\* A piece of the text of one or of two characters.
LEMMA ShortPiece ==
  ASSUME TypeOK, NEW p \in 1..Len(text)
  PROVE  /\ Text(p, p) = <<At(p)>>
         /\ p + 1 \in 1..Len(text) => Text(p, p + 1) = <<At(p), At(p + 1)>>
<1>1. text \in Seq(Char) /\ Len(text) \in Nat
  BY CharAt
<1>2. \A s \in Seq(Char) : /\ Len(s) = 1 => s = <<s[1]>>
                           /\ Len(s) = 2 => s = <<s[1], s[2]>>
  OBVIOUS
<1>3. ASSUME NEW j \in 0..Len(text), p <= j + 1
      PROVE  /\ Text(p, j) \in Seq(Char) /\ Len(Text(p, j)) = j + 1 - p
             /\ \A k \in 1..j + 1 - p : Text(p, j)[k] = At(p + k - 1)
  <2>1. p \in 1..Len(text) + 1
    BY <1>1
  <2> QED BY <1>3, <2>1, TextPiece
<1>4. Text(p, p) = <<At(p)>>
  <2>1. PICK j \in 0..Len(text) : j = p /\ p <= j + 1 /\ j + 1 - p = 1 /\ p + 1 - 1 = p
    BY <1>1
  <2>2. /\ Text(p, j) \in Seq(Char) /\ Len(Text(p, j)) = 1
        /\ \A k \in 1..1 : Text(p, j)[k] = At(p + k - 1)
    BY <1>3, <2>1
  <2>3. Text(p, j)[1] = At(p + 1 - 1)
    BY <2>2
  <2> QED BY <1>2, <2>1, <2>2, <2>3
<1>5. ASSUME p + 1 \in 1..Len(text)
      PROVE  Text(p, p + 1) = <<At(p), At(p + 1)>>
  <2>1. PICK j \in 0..Len(text) : /\ j = p + 1 /\ p <= j + 1 /\ j + 1 - p = 2 /\ p + 1 - 1 = p
                                  /\ p + 2 - 1 = j
    BY <1>1, <1>5
  <2>2. /\ Text(p, j) \in Seq(Char) /\ Len(Text(p, j)) = 2
        /\ \A k \in 1..2 : Text(p, j)[k] = At(p + k - 1)
    BY <1>3, <2>1
  <2>3. Text(p, j)[1] = At(p + 1 - 1) /\ Text(p, j)[2] = At(p + 2 - 1)
    BY <2>2
  <2> QED BY <1>2, <2>1, <2>2, <2>3
<1> QED BY <1>4, <1>5

\* A quoted form that ends well is the quoting of its value.
LEMMA EndQuoted ==
  ASSUME SInv, SInv', QInv, QuotedClose
  PROVE  QInv'
<1>1. /\ TypeOK /\ Len(text) \in Nat /\ pos \in Nat /\ pos >= 1 /\ pos \in 1..Len(text) + 1
      /\ buf \in Built /\ form \in Forms /\ head \in Nat /\ head >= 1 /\ head < pos
      /\ form.close \in {"quote", "dquote"} /\ form.close # EOFch
  BY NextChar, FormClose, SMTT(30) DEF SInv, TypeOK, Forms, Built, LoopInv, QuotedClose, EOFch
<1>2. /\ mode = "quoted" /\ At(pos) = form.close /\ lit' = buf /\ pos' = pos + 1 /\ mode' = "idle"
      /\ UNCHANGED <<text, form, buf, head>>
  BY DEF QuotedClose, Literal, Return, work, ch
<1>3. pos \in 1..Len(text)
  BY <1>1, <1>2, CharAt
<1>4. QuotedLoop'
  BY <1>2 DEF QuotedLoop
<1>5. QuotedFormsDecode'
  <2> SUFFICES ASSUME ~form.escapes, At(head) # "n"
               PROVE  IsSuffix(Quoting(WithoutPrefix(buf), form.close), Text(head, pos))
    <3>1. pos' - 1 = pos
      BY <1>1, <1>2
    <3>2. /\ WithoutPrefix(lit)' = WithoutPrefix(buf) /\ At(head)' = At(head)
          /\ Consumed' = Text(head, pos) /\ form' = form
      BY <1>2, <3>1 DEF WithoutPrefix, At, Text, Consumed
    <3>3. Quoting(WithoutPrefix(lit), form.close)' = Quoting(WithoutPrefix(buf), form.close)
      BY <3>2 DEF Quoting
    <3> QED BY <3>2, <3>3 DEF QuotedFormsDecode
  <2> DEFINE w == WithoutPrefix(buf)
             a == <<form.close>>
             b == FlattenSeq(Images(w, form.close))
  <2>1. \E o \in head..pos - 1 : Text(o, pos - 1) = a \o b
    BY <1>2 DEF QInv, QuotedLoop
  <2>2. PICK o \in head..pos - 1 : Text(o, pos - 1) = a \o b
    BY <2>1
  <2>3. a \in Built /\ b \in Built
    <3>1. a \in Built
      BY <1>1 DEF Built, Char
    <3>2. form.prefix \in Built /\ Len(form.prefix) \in Nat
      BY <1>1, FormParts DEF Built
    <3>3. w \in Built
      <4>1. SubSeq(buf, Len(form.prefix) + 1, Len(buf)) \in Built
        BY <1>1, <3>2 DEF Built
      <4> QED BY <4>1 DEF WithoutPrefix
    <3> QED BY <1>1, <3>1, <3>3, QuotingGrows
  <2>4. Quoting(w, form.close) = (a \o b) \o a
    BY DEF Quoting, Images, Image
  <2>5. Text(pos, pos) = a
    BY <1>1, <1>2, <1>3, ShortPiece
  <2>. HIDE DEF w, a, b
  <2>6. PICK j \in 0..Len(text) : j = pos - 1 /\ o <= j + 1 /\ j + 1 = pos
    BY <1>1, <2>2
  <2>7. /\ o \in 1..Len(text) + 1 /\ pos \in j..Len(text) /\ head \in 1..Len(text) + 1
        /\ o \in head..Len(text)
    BY <1>1, <1>3, <2>2, <2>6
  <2>8. Text(o, pos) = (a \o b) \o a
    <3>1. Text(o, j) \o Text(j + 1, pos) = Text(o, pos)
      BY <1>1, <2>6, <2>7, TextMeet
    <3> QED BY <2>2, <2>5, <2>6, <3>1
  <2>9. Text(head, pos) = Text(head, o - 1) \o Text(o, pos) /\ Text(head, o - 1) \in Built
    <3>1. PICK i \in 0..Len(text) : i = o - 1 /\ head <= i + 1 /\ i + 1 = o
      BY <1>1, <2>7
    <3>2. pos \in i..Len(text)
      BY <1>1, <2>2, <2>7, <3>1
    <3>3. Text(head, i) \o Text(i + 1, pos) = Text(head, pos)
      BY <1>1, <2>7, <3>1, <3>2, TextMeet
    <3>4. Text(head, i) \in Built
      BY <1>1, <2>7, <3>1, TextPiece, TextIsBuilt
    <3> QED BY <3>1, <3>3, <3>4
  <2>10. (a \o b) \o a \in Built
    BY <2>3, BuiltConcat
  <2>11. IsSuffix((a \o b) \o a, Text(head, o - 1) \o ((a \o b) \o a))
    BY <2>9, <2>10, ConcatSuffix DEF Built
  <2> QED BY <2>4, <2>8, <2>9, <2>11 DEF w
<1> QED BY <1>4, <1>5 DEF QInv

\* A quoted form is read on, or ends.
LEMMA QuotedQuoted ==
  ASSUME SInv, SInv', QInv, Quoted
  PROVE  QInv'
<1>1. /\ TypeOK /\ Len(text) \in Nat /\ pos \in Nat /\ pos >= 1 /\ pos \in 1..Len(text) + 1
      /\ form \in Forms /\ form' \in Forms
      /\ \A p \in Nat : p >= 1 /\ At(p) # EOFch => p \in 1..Len(text)
  BY NextChar, CharAt DEF SInv, TypeOK, Forms
<1>2. form.close \in {"quote", "dquote"} /\ form.close # EOFch
  BY <1>1, FormClose DEF EOFch
<1>3. At(pos) # EOFch => pos \in 1..Len(text) /\ <<At(pos)>> \in Built
  BY <1>1, CharAt DEF Built
<1>4. CASE QuotedChar
  <2>1. mode = "quoted" /\ At(pos) \notin {EOFch, form.close} /\ Collect(<<At(pos)>>, pos + 1)
    BY <1>4 DEF QuotedChar, ch
  <2>2. pos \in pos..Len(text) /\ Text(pos, pos) = <<At(pos)>>
    BY <1>1, <1>3, <2>1, ShortPiece
  <2>3. Text(pos, pos) = Image(At(pos), form.close)
    BY <2>1, <2>2 DEF Image
  <2> QED BY <1>3, <2>1, <2>2, <2>3, TurnQuoted
<1>5. CASE QuotedDoubled
  <2>1. /\ mode = "quoted" /\ At(pos) = form.close /\ At(pos + 1) = form.close
        /\ Collect(<<At(pos)>>, pos + 2)
    BY <1>5 DEF QuotedDoubled, ch
  <2>2. PICK p \in pos..Len(text) : p = pos + 1 /\ p \in 1..Len(text) /\ p + 1 = pos + 2
    BY <1>1, <1>2, <2>1
  <2>3. Text(pos, p) = Image(At(pos), form.close)
    <3>1. Text(pos, p) = <<At(pos), At(p)>>
      BY <1>1, <1>2, <1>3, <2>1, <2>2, ShortPiece
    <3> QED BY <2>1, <2>2, <3>1 DEF Image
  <2>4. Collect(<<At(pos)>>, p + 1)
    BY <2>1, <2>2
  <2> QED BY <1>2, <1>3, <2>1, <2>3, <2>4, TurnQuoted
<1>6. CASE QuotedEscape
  <2>1. mode' = "quoted" /\ form' = form /\ form.escapes
    BY <1>6 DEF QuotedEscape, Collect
  <2> QED BY <2>1, NoTokenYet DEF QInv, QuotedLoop
<1>7. CASE QuotedClose
  BY <1>7, EndQuoted
<1>8. CASE QuotedEOF
  <2>1. mode' = "idle" /\ bad' = TRUE
    BY <1>8 DEF QuotedEOF, Literal, Return
  <2> QED BY <1>1, <2>1, NotQuoted DEF QInv, QuotedLoop
<1> QED BY <1>4, <1>5, <1>6, <1>7, <1>8 DEF Quoted
-----------------------------------------------------------------------------
\* Every step keeps what is said of the quoted forms.
LEMMA NextQInv ==
  ASSUME SInv, SInv', QInv, [Next]_vars
  PROVE  QInv'
<1>1. CASE UNCHANGED vars
  <2>1. UNCHANGED <<text, pos, mode, form, buf, tok, lit, bad, kind, head>>
    BY <1>1 DEF vars, token, work
  <2>2. QuotedLoop'
    BY <2>1 DEF QInv, QuotedLoop, WithoutPrefix, Text, At, Images
  <2>3. QuotedFormsDecode'
    <3>1. UNCHANGED <<IsQuoted, Consumed, WithoutPrefix(lit), At(head)>>
      BY <2>1 DEF IsQuoted, HasToken, Consumed, WithoutPrefix, Text, At
    <3>2. UNCHANGED Quoting(WithoutPrefix(lit), form.close)
      BY <2>1, <3>1 DEF Quoting
    <3> QED BY <2>1, <3>1, <3>2 DEF QInv, QuotedFormsDecode
  <2> QED BY <2>2, <2>3 DEF QInv
<1>2. CASE Named \/ Quoted
  BY <1>2, NamedQuoted, QuotedQuoted
<1>3. CASE Call \/ Skip \/ Comment \/ Fixed \/ Numeric \/ Dollar
  <2>1. form' \in Forms
    BY DEF SInv, TypeOK, Forms
  <2> QED BY <1>3, <2>1, OtherTokens, DollarTokens, NotQuoted, NoTokenYet DEF QInv, QuotedLoop
<1> QED BY <1>1, <1>2, <1>3 DEF Next, Step

\* A string or a delimited identifier without escapes that ends well is the quoting
\* of the value of its token: a doubled quote is one, the first quote that is not
\* doubled ends it, and no character is lost (the loops of scan_string.go).
THEOREM SpecQuotedFormsDecode == Spec => []QuotedFormsDecode
<1>1. Init => QInv
  BY DEF Init, QInv, QuotedLoop, QuotedFormsDecode, IsQuoted, HasToken
<1>2. SInv /\ SInv' /\ QInv /\ [Next]_vars => QInv'
  BY NextQInv
<1>3. QInv => QuotedFormsDecode
  BY DEF QInv
<1> QED BY <1>1, <1>2, <1>3, SpecSInv, PTL DEF Spec
-----------------------------------------------------------------------------
\* A run of backslashes grows with every backslash, and ends at any other character.
LEMMA RunGrows ==
  ASSUME NEW w, NEW i \in Nat \ {0}
  PROVE  /\ Run(w, i) \in Nat
         /\ w[i] # "backslash" => Run(w, i) = 0
         /\ w[i] = "backslash" => Run(w, i) = Run(w, i - 1) + 1
<1> DEFINE S(n) == {j \in 1..n : \A k \in j..n : w[k] = "backslash"}
<1>1. \A n \in Nat : IsFiniteSet(S(n)) /\ Cardinality(S(n)) \in Nat
  <2> TAKE n \in Nat
  <2>1. IsFiniteSet(1..n)
    BY FS_Interval
  <2>2. S(n) \subseteq 1..n
    OBVIOUS
  <2>. HIDE DEF S
  <2> QED BY <2>1, <2>2, FS_Subset, FS_CardinalityType
<1>2. CASE w[i] # "backslash"
  <2>1. S(i) = {}
    BY <1>2
  <2> QED BY <1>2, <2>1, FS_EmptySet DEF Run
<1>3. CASE w[i] = "backslash"
  <2>1. PICK m \in Nat : m = i - 1
    OBVIOUS
  <2>2. S(i) = S(m) \cup {i}
    <3>1. \A j \in S(i) : j \in S(m) \cup {i}
      BY <2>1
    <3>2. \A j \in S(m) \cup {i} : j \in S(i)
      <4> TAKE j \in S(m) \cup {i}
      <4>1. j \in 1..i
        BY <2>1
      <4>2. \A k \in j..i : w[k] = "backslash"
        <5> TAKE k \in j..i
        <5>1. k = i \/ k \in j..m
          BY <2>1, <4>1
        <5>2. CASE k = i
          BY <1>3, <5>2
        <5>3. CASE k \in j..m /\ k # i
          BY <2>1, <5>3
        <5> QED BY <5>1, <5>2, <5>3
      <4> QED BY <4>1, <4>2
    <3>. HIDE DEF S
    <3> QED BY <3>1, <3>2
  <2>3. i \notin S(m)
    BY <2>1
  <2>. HIDE DEF S
  <2>4. Cardinality(S(m) \cup {i}) = Cardinality(S(m)) + 1
    BY <1>1, <2>3, FS_AddElement
  <2>5. Run(w, i) = Cardinality(S(i)) /\ Run(w, m) = Cardinality(S(m))
    BY DEF Run, S
  <2> QED BY <1>1, <1>3, <2>1, <2>2, <2>4, <2>5
<1>4. Run(w, i) = Cardinality(S(i))
  BY DEF Run
<1>. HIDE DEF S
<1> QED BY <1>1, <1>2, <1>3, <1>4

\* A run of backslashes depends on what is read only.
LEMMA SameRun ==
  ASSUME NEW w, NEW v, NEW i \in Nat, \A k \in 1..i : w[k] = v[k]
  PROVE  Run(w, i) = Run(v, i)
<1>1. \A j \in 1..i : (\A k \in j..i : w[k] = "backslash") <=> (\A k \in j..i : v[k] = "backslash")
  <2> TAKE j \in 1..i
  <2>1. \A k \in j..i : w[k] = v[k]
    OBVIOUS
  <2> QED BY <2>1
<1>2. {j \in 1..i : \A k \in j..i : w[k] = "backslash"}
        = {j \in 1..i : \A k \in j..i : v[k] = "backslash"}
  BY <1>1
<1> QED BY <1>2 DEF Run

\* The digits and their values.
LEMMA DigitValues ==
  ASSUME NEW c \in HexDig
  PROVE  /\ HexVal[c] \in 0..15
         /\ HexVal[c] = 0 => c = "0"
         /\ HexVal[c] = 1 => c = "1"
         /\ c = "d" <=> HexVal[c] = 13
         /\ c = "4" => HexVal[c] = 4
         /\ c = "7" => HexVal[c] = 7
         /\ c = "0" => HexVal[c] = 0
         /\ c = "1" => HexVal[c] = 1
         /\ c \in OctDig <=> HexVal[c] < 8
  BY DEF HexVal, HexDig, Digit, OctDig, Lower

\* The numbers of three octal and of four hexadecimal digits.
LEMMA Values ==
  ASSUME NEW w, NEW a \in HexDig, NEW b \in HexDig, NEW c \in HexDig
  PROVE  /\ w = <<a, b, c>> =>
              Value(w, 8) = 64 * HexVal[a] + 8 * HexVal[b] + HexVal[c]
         /\ \A d \in HexDig : w = <<a, b, c, d>> =>
              Value(w, 16) = 4096 * HexVal[a] + 256 * HexVal[b] + 16 * HexVal[c] + HexVal[d]
<1>1. ASSUME w = <<a, b, c>>
      PROVE  Value(w, 8) = 64 * HexVal[a] + 8 * HexVal[b] + HexVal[c]
  <2>1. Len(w) = 3 /\ w[1] = a /\ w[2] = b /\ w[3] = c
    BY <1>1
  <2>2. Value(w, 8) = ((0 * 8 + HexVal[w[1]]) * 8 + HexVal[w[2]]) * 8 + HexVal[w[3]]
    BY <2>1 DEF Value
  <2>3. PICK x \in Nat, y \in Nat, z \in Nat : x = HexVal[a] /\ y = HexVal[b] /\ z = HexVal[c]
    <3>1. \A e \in HexDig : HexVal[e] \in Nat
      BY DigitValues
    <3> QED BY <3>1, Zenon
  <2>4. Value(w, 8) = ((0 * 8 + x) * 8 + y) * 8 + z
    BY <2>1, <2>2, <2>3
  <2> QED BY <2>3, <2>4
<1>2. ASSUME NEW d \in HexDig, w = <<a, b, c, d>>
      PROVE  Value(w, 16) = 4096 * HexVal[a] + 256 * HexVal[b] + 16 * HexVal[c] + HexVal[d]
  <2>1. Len(w) = 4 /\ w[1] = a /\ w[2] = b /\ w[3] = c /\ w[4] = d
    BY <1>2
  <2>2. Value(w, 16) = ((HexVal[w[1]] * 16 + HexVal[w[2]]) * 16 + HexVal[w[3]]) * 16 + HexVal[w[4]]
    BY <2>1 DEF Value
  <2>3. PICK x \in Nat, y \in Nat, z \in Nat, u \in Nat :
          x = HexVal[a] /\ y = HexVal[b] /\ z = HexVal[c] /\ u = HexVal[d]
    <3>1. \A e \in HexDig : HexVal[e] \in Nat
      BY DigitValues
    <3> QED BY <1>2, <3>1, Zenon
  <2>4. Value(w, 16) = ((x * 16 + y) * 16 + z) * 16 + u
    BY <2>1, <2>2, <2>3
  <2> QED BY <2>3, <2>4
<1> QED BY <1>1, <1>2

\* A piece of the text of three or of four characters.
LEMMA LongPiece ==
  ASSUME TypeOK, NEW p \in 1..Len(text)
  PROVE  /\ p + 2 \in 1..Len(text) => Text(p, p + 2) = <<At(p), At(p + 1), At(p + 2)>>
         /\ p + 3 \in 1..Len(text) =>
              Text(p, p + 3) = <<At(p), At(p + 1), At(p + 2), At(p + 3)>>
<1>1. text \in Seq(Char) /\ Len(text) \in Nat
  BY CharAt
<1>2. \A s \in Seq(Char) : /\ Len(s) = 3 => s = <<s[1], s[2], s[3]>>
                           /\ Len(s) = 4 => s = <<s[1], s[2], s[3], s[4]>>
  OBVIOUS
<1>3. ASSUME NEW n \in {3, 4}, p + n - 1 \in 1..Len(text)
      PROVE  /\ Text(p, p + n - 1) \in Seq(Char) /\ Len(Text(p, p + n - 1)) = n
             /\ \A k \in 1..n : Text(p, p + n - 1)[k] = At(p + k - 1)
  <2>1. PICK j \in 0..Len(text) : j = p + n - 1 /\ p <= j + 1 /\ j + 1 - p = n /\ p \in 1..Len(text) + 1
    BY <1>1, <1>3
  <2>2. /\ Text(p, j) \in Seq(Char) /\ Len(Text(p, j)) = j + 1 - p
        /\ \A k \in 1..j + 1 - p : Text(p, j)[k] = At(p + k - 1)
    BY <2>1, TextPiece
  <2> QED BY <2>1, <2>2
<1>4. ASSUME p + 2 \in 1..Len(text)
      PROVE  Text(p, p + 2) = <<At(p), At(p + 1), At(p + 2)>>
  <2>1. p + 3 - 1 = p + 2 /\ p + 1 - 1 = p /\ p + 2 - 1 = p + 1 /\ p + 3 - 1 \in 1..Len(text)
    BY <1>4
  <2>2. /\ Text(p, p + 2) \in Seq(Char) /\ Len(Text(p, p + 2)) = 3
        /\ \A k \in 1..3 : Text(p, p + 2)[k] = At(p + k - 1)
    BY <1>3, <2>1
  <2>3. /\ Text(p, p + 2)[1] = At(p) /\ Text(p, p + 2)[2] = At(p + 1)
        /\ Text(p, p + 2)[3] = At(p + 2)
    BY <2>1, <2>2
  <2> QED BY <1>2, <2>2, <2>3
<1>5. ASSUME p + 3 \in 1..Len(text)
      PROVE  Text(p, p + 3) = <<At(p), At(p + 1), At(p + 2), At(p + 3)>>
  <2>1. /\ p + 4 - 1 = p + 3 /\ p + 1 - 1 = p /\ p + 2 - 1 = p + 1 /\ p + 3 - 1 = p + 2
        /\ p + 4 - 1 \in 1..Len(text)
    BY <1>5
  <2>2. /\ Text(p, p + 3) \in Seq(Char) /\ Len(Text(p, p + 3)) = 4
        /\ \A k \in 1..4 : Text(p, p + 3)[k] = At(p + k - 1)
    BY <1>3, <2>1
  <2>3. /\ Text(p, p + 3)[1] = At(p) /\ Text(p, p + 3)[2] = At(p + 1)
        /\ Text(p, p + 3)[3] = At(p + 2) /\ Text(p, p + 3)[4] = At(p + 3)
    BY <2>1, <2>2
  <2> QED BY <1>2, <2>2, <2>3
<1> QED BY <1>4, <1>5

\* The n characters from p on are hexadecimal digits.
Hex(p, n) == \A k \in 0..n - 1 : At(p + k) \in HexDig

\* The number of four digits.
Quarter(p) == 4096 * HexVal[At(p)] + 256 * HexVal[At(p + 1)] + 16 * HexVal[At(p + 2)]
                + HexVal[At(p + 3)]

\* The rune that four and that eight digits stand for.
LEMMA RuneOf ==
  ASSUME TypeOK, NEW p \in 1..Len(text)
  PROVE  /\ Hex(p, 4) => HexRune(Text(p, p + 3)) = <<0, Quarter(p)>>
         /\ Hex(p, 8) => HexRune(Text(p, p + 7)) = <<Quarter(p), Quarter(p + 4)>>
<1>1. Len(text) \in Nat /\ text \in Seq(Char) /\ p \in Nat
  BY CharAt
<1>2. \A n \in Nat : Hex(p, n) => \A k \in 0..n - 1 : p + k \in 1..Len(text) /\ At(p + k) \in HexDig
  <2> SUFFICES ASSUME NEW n \in Nat, Hex(p, n), NEW k \in 0..n - 1
               PROVE  p + k \in 1..Len(text) /\ At(p + k) \in HexDig
    OBVIOUS
  <2>1. At(p + k) \in HexDig /\ p + k \in Int
    BY <1>1 DEF Hex
  <2> QED BY <2>1, CharAt, EndIsNoChar
<1>3. ASSUME NEW q \in 1..Len(text), q + 3 \in 1..Len(text), \A k \in 0..3 : At(q + k) \in HexDig
      PROVE  Value(Text(q, q + 3), 16) = Quarter(q)
  <2>1. Text(q, q + 3) = <<At(q), At(q + 1), At(q + 2), At(q + 3)>>
    BY <1>3, LongPiece
  <2>2. At(q) \in HexDig /\ At(q + 1) \in HexDig /\ At(q + 2) \in HexDig /\ At(q + 3) \in HexDig
    <3>1. q + 0 = q
      BY <1>3
    <3> QED BY <1>3, <3>1
  <2> QED BY <2>1, <2>2, Values DEF Quarter
<1>4. ASSUME Hex(p, 4)
      PROVE  HexRune(Text(p, p + 3)) = <<0, Quarter(p)>>
  <2>1. /\ \A k \in 0..3 : At(p + k) \in HexDig
        /\ p + 3 \in 1..Len(text)
    BY <1>2, <1>4
  <2>2. Value(Text(p, p + 3), 16) = Quarter(p)
    BY <1>3, <2>1
  <2>3. PICK w \in Seq(Char) : w = Text(p, p + 3) /\ Len(w) = 4
    <3>1. PICK j \in 0..Len(text) : j = p + 3 /\ p <= j + 1 /\ j + 1 - p = 4 /\ p \in 1..Len(text) + 1
      BY <1>1, <2>1
    <3> QED BY <3>1, TextPiece
  <2>4. SubSeq(w, 1, Len(w) - 4) = <<>> /\ SubSeq(w, Len(w) - 3, Len(w)) = w
    <3>1. Len(w) - 4 = 0 /\ Len(w) - 3 = 1
      BY <2>3
    <3>2. \A s \in Seq(Char) : SubSeq(s, 1, 0) = <<>> /\ SubSeq(s, 1, Len(s)) = s
      OBVIOUS
    <3> QED BY <3>1, <3>2, Zenon
  <2>5. Value(<<>>, 16) = 0
    <3>1. Len(<<>>) = 0
      OBVIOUS
    <3> QED BY <3>1 DEF Value
  <2> QED BY <2>2, <2>3, <2>4, <2>5 DEF HexRune
<1>5. ASSUME Hex(p, 8)
      PROVE  HexRune(Text(p, p + 7)) = <<Quarter(p), Quarter(p + 4)>>
  <2>1. /\ \A k \in 0..7 : p + k \in 1..Len(text) /\ At(p + k) \in HexDig
        /\ p + 3 \in 1..Len(text) /\ p + 4 \in 1..Len(text) /\ p + 7 \in 1..Len(text)
        /\ (p + 4) + 3 = p + 7
    BY <1>1, <1>2, <1>5, SMTT(30)
  <2>2. Value(Text(p, p + 3), 16) = Quarter(p)
    BY <1>3, <2>1
  <2>3. Value(Text(p + 4, p + 7), 16) = Quarter(p + 4)
    <3>1. \A k \in 0..3 : At((p + 4) + k) \in HexDig
      <4> TAKE k \in 0..3
      <4>1. (p + 4) + k = p + (4 + k) /\ 4 + k \in 0..7
        BY <1>1
      <4> QED BY <2>1, <4>1
    <3> QED BY <1>3, <2>1, <3>1
  <2>4. Text(p, p + 7) \in Seq(Char) /\ Len(Text(p, p + 7)) = 8
    <3>1. PICK j \in 0..Len(text) : j = p + 7 /\ p <= j + 1 /\ j + 1 - p = 8 /\ p \in 1..Len(text) + 1
      BY <1>1, <2>1
    <3> QED BY <3>1, TextPiece
  <2>5. /\ SubSeq(Text(p, p + 7), 1, 4) = Text(p, p + 3)
        /\ SubSeq(Text(p, p + 7), 5, 8) = Text(p + 4, p + 7)
    BY <1>1, <2>1 DEF Text
  <2>6. 8 - 4 = 4 /\ 8 - 3 = 5
    OBVIOUS
  <2> QED BY <2>2, <2>3, <2>4, <2>5, <2>6 DEF HexRune
<1> QED BY <1>4, <1>5

\* The escape that begins at p is one that no error is reported for: that of a
\* character, or a \U whose number is negative.
Passes(p) ==
  /\ At(p) = "u" => Hex(p + 1, 4) /\ ~(At(p + 1) = "d" /\ At(p + 2) \notin OctDig)
  /\ At(p) = "U" =>
       /\ Hex(p + 1, 8)
       /\ \/ At(p + 1) \notin OctDig
          \/ /\ At(p + 1) = "0" /\ At(p + 2) = "0" /\ At(p + 3) = "0"
             /\ ~(At(p + 4) = "0" /\ At(p + 5) = "d" /\ At(p + 6) \notin OctDig)
          \/ At(p + 1) = "0" /\ At(p + 2) = "0" /\ At(p + 3) = "1" /\ At(p + 4) = "0"
  /\ At(p) = "x" => At(p + 1) \in HexDig
  /\ At(p) \in {"4", "7"} => ~(At(p + 1) \in OctDig /\ At(p + 2) \in OctDig)

\* A number of four digits and what its first digits are.
LEMMA QuarterDigits ==
  ASSUME NEW p \in Nat, Hex(p, 4)
  PROVE  /\ Quarter(p) \in Nat
         /\ Quarter(p) < 32768 <=> At(p) \in OctDig
         /\ Quarter(p) <= 16 <=>
              /\ At(p) = "0" /\ At(p + 1) = "0"
              /\ At(p + 2) = "0" \/ (At(p + 2) = "1" /\ At(p + 3) = "0")
         /\ (55296 <= Quarter(p) /\ Quarter(p) <= 57343) <=> (At(p) = "d" /\ At(p + 1) \notin OctDig)
         /\ (At(p) = "0" /\ At(p + 1) = "0" /\ At(p + 2) = "0" /\ At(p + 3) = "0") <=> Quarter(p) = 0
<1>1. /\ At(p) \in HexDig /\ At(p + 1) \in HexDig /\ At(p + 2) \in HexDig /\ At(p + 3) \in HexDig
  <2>1. p + 0 = p
    OBVIOUS
  <2> QED BY <2>1 DEF Hex
<1>2. PICK a \in 0..15, b \in 0..15, c \in 0..15, d \in 0..15 :
        /\ a = HexVal[At(p)] /\ b = HexVal[At(p + 1)]
        /\ c = HexVal[At(p + 2)] /\ d = HexVal[At(p + 3)]
  <2>1. \A e \in HexDig : HexVal[e] \in 0..15
    BY DigitValues
  <2> QED BY <1>1, <2>1, Zenon
<1>3. Quarter(p) = 4096 * a + 256 * b + 16 * c + d
  BY <1>2 DEF Quarter
<1>4. /\ a < 8 <=> At(p) \in OctDig
      /\ a = 0 <=> At(p) = "0"
      /\ At(p) = "d" <=> a = 13
  BY <1>1, <1>2, DigitValues
<1>5. /\ b < 8 <=> At(p + 1) \in OctDig
      /\ b = 0 <=> At(p + 1) = "0"
  BY <1>1, <1>2, DigitValues
<1>6. /\ c = 0 <=> At(p + 2) = "0"
      /\ c = 1 <=> At(p + 2) = "1"
  BY <1>1, <1>2, DigitValues
<1>7. d = 0 <=> At(p + 3) = "0"
  BY <1>1, <1>2, DigitValues
<1>8. /\ Quarter(p) \in Nat
      /\ Quarter(p) <= 16 <=> a = 0 /\ b = 0 /\ (c = 0 \/ (c = 1 /\ d = 0))
      /\ Quarter(p) < 32768 <=> a < 8
      /\ (a = 13 /\ ~(b < 8)) <=> (55296 <= Quarter(p) /\ Quarter(p) <= 57343)
      /\ (a = 0 /\ b = 0 /\ c = 0 /\ d = 0) <=> Quarter(p) = 0
  <2>1. a \in 0..15 /\ b \in 0..15 /\ c \in 0..15 /\ d \in 0..15
    BY <1>2
  <2>2. PICK q : q = Quarter(p)
    OBVIOUS
  <2>3. q = 4096 * a + 256 * b + 16 * c + d
    BY <1>3, <2>2
  <2>4. /\ q \in Nat
        /\ q <= 16 <=> a = 0 /\ b = 0 /\ (c = 0 \/ (c = 1 /\ d = 0))
        /\ q < 32768 <=> a < 8
        /\ (a = 13 /\ ~(b < 8)) <=> (55296 <= q /\ q <= 57343)
        /\ (a = 0 /\ b = 0 /\ c = 0 /\ d = 0) <=> q = 0
    BY <2>1, <2>3
  <2> QED BY <2>2, <2>4
<1>9. Quarter(p) < 32768 <=> At(p) \in OctDig
  BY <1>4, <1>8
<1>10. Quarter(p) <= 16 <=>
         /\ At(p) = "0" /\ At(p + 1) = "0"
         /\ At(p + 2) = "0" \/ (At(p + 2) = "1" /\ At(p + 3) = "0")
  BY <1>4, <1>5, <1>6, <1>7, <1>8
<1>11. (55296 <= Quarter(p) /\ Quarter(p) <= 57343) <=> (At(p) = "d" /\ At(p + 1) \notin OctDig)
  BY <1>4, <1>5, <1>8
<1>12. (At(p) = "0" /\ At(p + 1) = "0" /\ At(p + 2) = "0" /\ At(p + 3) = "0") <=> Quarter(p) = 0
  BY <1>4, <1>5, <1>6, <1>7, <1>8
<1> QED BY <1>8, <1>9, <1>10, <1>11, <1>12

\* The two halves of a rune that is no character.
LEMMA HalvesOf ==
  ASSUME NEW x, NEW y \in Nat
  PROVE  NoCharacter(<<x, y>>) <=>
           \/ ~(x >= 32768) /\ x > 16
           \/ x = 0 /\ 55296 <= y /\ y <= 57343
BY DEF NoCharacter, Negative

\* The number of up to three octal digits is above 255 when there are three and the
\* first of them is at least 4.
LEMMA OctalValue ==
  ASSUME NEW w \in Seq(OctDig), Len(w) \in 1..3
  PROVE  Value(w, 8) > 255 <=> Len(w) = 3 /\ w[1] \in {"4", "7"}
<1>1. \A i \in 1..Len(w) : HexVal[w[i]] \in 0..7 /\ (w[i] \in {"4", "7"} <=> HexVal[w[i]] >= 4)
  <2> TAKE i \in 1..Len(w)
  <2>1. w[i] \in OctDig
    OBVIOUS
  <2> QED BY <2>1 DEF HexVal, HexDig, Digit, OctDig, Lower
<1>2. PICK a \in 0..7, b \in 0..7, c \in 0..7 :
        /\ Value(w, 8) = ((0 * 8 + c) * 8 + b) * 8 + a
        /\ Len(w) = 3 => c = HexVal[w[1]]
        /\ Len(w) # 3 => c = 0
  <2>1. CASE Len(w) = 1
    <3>1. Value(w, 8) = ((0 * 8 + 0) * 8 + 0) * 8 + HexVal[w[1]]
      BY <2>1 DEF Value
    <3>2. HexVal[w[1]] \in 0..7 /\ 0 \in 0..7
      BY <1>1, <2>1
    <3>3. PICK a \in 0..7 : a = HexVal[w[1]]
      BY <3>2, Zenon
    <3>4. Value(w, 8) = ((0 * 8 + 0) * 8 + 0) * 8 + a
      BY <3>1, <3>3
    <3>5. Len(w) # 3
      BY <2>1
    <3> QED BY <3>2, <3>4, <3>5, Zenon
  <2>2. CASE Len(w) = 2
    <3>1. Value(w, 8) = ((0 * 8 + 0) * 8 + HexVal[w[1]]) * 8 + HexVal[w[2]]
      BY <2>2 DEF Value
    <3>2. HexVal[w[1]] \in 0..7 /\ HexVal[w[2]] \in 0..7 /\ 0 \in 0..7
      BY <1>1, <2>2
    <3>3. PICK a \in 0..7, b \in 0..7 : a = HexVal[w[2]] /\ b = HexVal[w[1]]
      BY <3>2, Zenon
    <3>4. Value(w, 8) = ((0 * 8 + 0) * 8 + b) * 8 + a
      BY <3>1, <3>3
    <3>5. Len(w) # 3
      BY <2>2
    <3> QED BY <3>2, <3>3, <3>4, <3>5, Zenon
  <2>3. CASE Len(w) = 3
    <3>1. Value(w, 8) = ((0 * 8 + HexVal[w[1]]) * 8 + HexVal[w[2]]) * 8 + HexVal[w[3]]
      BY <2>3 DEF Value
    <3>2. HexVal[w[1]] \in 0..7 /\ HexVal[w[2]] \in 0..7 /\ HexVal[w[3]] \in 0..7
      BY <1>1, <2>3
    <3>3. PICK x \in 0..7, y \in 0..7, z \in 0..7 :
            x = HexVal[w[3]] /\ y = HexVal[w[2]] /\ z = HexVal[w[1]]
      BY <3>2, Zenon
    <3>4. Value(w, 8) = ((0 * 8 + z) * 8 + y) * 8 + x
      BY <3>1, <3>3
    <3>5. (Len(w) = 3 => z = HexVal[w[1]]) /\ (Len(w) # 3 => z = 0)
      BY <2>3, <3>3
    <3> WITNESS x \in 0..7, y \in 0..7, z \in 0..7
    <3> QED BY <3>4, <3>5, Zenon
  <2>4. Len(w) = 1 \/ Len(w) = 2 \/ Len(w) = 3
    OBVIOUS
  <2> QED BY <2>1, <2>2, <2>3, <2>4, Zenon
<1>3. PICK v : v = Value(w, 8)
  OBVIOUS
<1>4. v = 64 * c + 8 * b + a
  BY <1>2, <1>3
<1>5. v > 255 <=> c >= 4
  <2>1. a \in 0..7 /\ b \in 0..7 /\ c \in 0..7
    BY <1>2
  <2> QED BY <1>4, <2>1
<1>6. CASE Len(w) = 3
  <2>1. w[1] \in {"4", "7"} <=> c >= 4
    BY <1>1, <1>2, <1>6
  <2> QED BY <1>3, <1>5, <1>6, <2>1
<1>7. CASE Len(w) # 3
  <2>1. ~(c >= 4)
    BY <1>2, <1>7
  <2> QED BY <1>3, <1>5, <1>7, <2>1
<1> QED BY <1>6, <1>7, Zenon

\* No error is reported for an escape exactly when it is one that passes.
LEMMA EscapeMeets ==
  ASSUME TypeOK, NEW p \in 1..Len(text)
  PROVE  Escape(p).errors = <<>> <=> Passes(p)
<1> DEFINE upTo(S, f, n) == LET q == RunEnd(f, S) IN IF q < f + n THEN q ELSE f + n
<1>1. Len(text) \in Nat /\ p \in Nat /\ p \in 1..Len(text) + 1 /\ p + 1 \in 1..Len(text) + 1
  BY CharAt
<1>2. ASSUME NEW S, NEW f \in 1..Len(text) + 1, NEW n \in Nat, EOFch \notin S
      PROVE  /\ upTo(S, f, n) \in f..f + n /\ upTo(S, f, n) <= Len(text) + 1
             /\ \A i \in f..upTo(S, f, n) - 1 : At(i) \in S
             /\ upTo(S, f, n) = f + n <=> \A k \in 0..n - 1 : At(f + k) \in S
             /\ At(f) \in S /\ n > 0 => upTo(S, f, n) > f
  <2>1. /\ RunEnd(f, S) \in f..Len(text) + 1 /\ At(RunEnd(f, S)) \notin S
        /\ \A i \in f..RunEnd(f, S) - 1 : At(i) \in S
        /\ At(f) \in S => RunEnd(f, S) > f
    BY <1>2, RunEnds
  <2>2. PICK q \in f..Len(text) + 1 :
          /\ q = RunEnd(f, S) /\ At(q) \notin S /\ \A i \in f..q - 1 : At(i) \in S
          /\ At(f) \in S => q > f
    BY <2>1
  <2>3. upTo(S, f, n) = IF q < f + n THEN q ELSE f + n
    BY <2>2
  <2>4. ASSUME ~(q < f + n)
        PROVE  \A k \in 0..n - 1 : At(f + k) \in S
    <3> TAKE k \in 0..n - 1
    <3>1. f + k \in f..q - 1
      BY <1>1, <2>2, <2>4
    <3> QED BY <2>2, <3>1
  <2>5. ASSUME \A k \in 0..n - 1 : At(f + k) \in S
        PROVE  ~(q < f + n)
    <3> SUFFICES ASSUME q < f + n PROVE FALSE
      OBVIOUS
    <3>1. PICK k \in 0..n - 1 : q = f + k
      <4>1. q - f \in 0..n - 1 /\ q = f + (q - f)
        BY <1>1, <2>2
      <4> QED BY <4>1
    <3> QED BY <2>2, <2>5, <3>1
  <2>. HIDE DEF upTo
  <2>6. CASE q < f + n
    BY <1>1, <2>2, <2>3, <2>5, <2>6
  <2>7. CASE ~(q < f + n)
    BY <1>1, <2>2, <2>3, <2>4, <2>7
  <2> QED BY <2>6, <2>7
<1>. HIDE DEF upTo
\* The digits of \u and \U, when there are enough of them, and the test of the number.
<1>3. ASSUME NEW n \in {4, 8}, At(p) = IF n = 4 THEN "u" ELSE "U"
      PROVE  Escape(p).errors = <<>> <=>
               Hex(p + 1, n) /\ ~NoCharacter(HexRune(Text(p + 1, (p + 1) + (n - 1))))
  <2> DEFINE end == upTo(HexDig, p + 1, n)
  <2>1. Escape(p).errors = <<>> <=>
          ~(end < p + 1 + n) /\ ~(end = p + 1 + n /\ NoCharacter(HexRune(Text(p + 1, end - 1))))
    <3>1. CASE n = 4
      BY <1>3, <3>1 DEF Escape, OctDig, EOFch, upTo
    <3>2. CASE n = 8
      BY <1>3, <3>2 DEF Escape, OctDig, EOFch, upTo
    <3> QED BY <3>1, <3>2
  <2>2. end \in p + 1..p + 1 + n /\ (end = p + 1 + n <=> Hex(p + 1, n))
    <3>1. n \in Nat /\ EOFch \notin HexDig
      BY EndIsNoChar
    <3>2. /\ end \in p + 1..p + 1 + n
          /\ end = p + 1 + n <=> \A k \in 0..n - 1 : At(p + 1 + k) \in HexDig
      BY <1>1, <1>2, <3>1, Zenon
    <3> QED BY <3>2, Zenon DEF Hex
  <2>. HIDE DEF end
  <2>3. ~(end < p + 1 + n) <=> end = p + 1 + n
    BY <1>1, <2>2
  <2>4. p + 1 + n - 1 = (p + 1) + (n - 1)
    BY <1>1
  <2>5. CASE end = p + 1 + n
    <3>1. end - 1 = (p + 1) + (n - 1)
      BY <2>4, <2>5
    <3> QED BY <2>1, <2>2, <2>3, <2>5, <3>1
  <2>6. CASE end # p + 1 + n
    BY <2>1, <2>2, <2>3, <2>6
  <2> QED BY <2>5, <2>6
<1>4. \A n \in {4, 8} : Hex(p + 1, n) => p + 1 \in 1..Len(text)
  <2> SUFFICES ASSUME NEW n \in {4, 8}, Hex(p + 1, n)
               PROVE  p + 1 \in 1..Len(text)
    OBVIOUS
  <2>1. 0 \in 0..n - 1 /\ p + 1 + 0 = p + 1
    BY <1>1
  <2>2. At(p + 1) \in HexDig
    BY <2>1 DEF Hex
  <2> QED BY <1>1, <2>2, CharAt, EndIsNoChar
<1>5. CASE At(p) = "u"
  <2>1. Escape(p).errors = <<>> <=> Hex(p + 1, 4) /\ ~NoCharacter(HexRune(Text(p + 1, (p + 1) + 3)))
    <3>1. 4 \in {4, 8} /\ 4 - 1 = 3
      OBVIOUS
    <3> QED BY <1>3, <1>5, <3>1
  <2>2. ASSUME Hex(p + 1, 4)
        PROVE  NoCharacter(HexRune(Text(p + 1, (p + 1) + 3))) <=>
                 (At(p + 1) = "d" /\ At(p + 2) \notin OctDig)
    <3>1. p + 1 \in 1..Len(text)
      BY <1>4, <2>2
    <3>2. HexRune(Text(p + 1, (p + 1) + 3)) = <<0, Quarter(p + 1)>>
      BY <2>2, <3>1, RuneOf
    <3>3. PICK y \in Nat : y = Quarter(p + 1)
      <4>1. p + 1 \in Nat
        BY <1>1
      <4> QED BY <2>2, <4>1, QuarterDigits
    <3>4. (55296 <= y /\ y <= 57343) <=> (At(p + 1) = "d" /\ At(p + 2) \notin OctDig)
      <4>1. (p + 1) + 1 = p + 2 /\ p + 1 \in Nat
        BY <1>1
      <4>2. (55296 <= Quarter(p + 1) /\ Quarter(p + 1) <= 57343) <=>
              (At(p + 1) = "d" /\ At((p + 1) + 1) \notin OctDig)
        BY <2>2, <4>1, QuarterDigits
      <4> QED BY <3>3, <4>1, <4>2
    <3>5. NoCharacter(<<0, y>>) <=> (55296 <= y /\ y <= 57343)
      BY HalvesOf
    <3> QED BY <3>2, <3>3, <3>4, <3>5
  <2> QED BY <1>5, <2>1, <2>2 DEF Passes
<1>6. CASE At(p) = "U"
  <2>1. Escape(p).errors = <<>> <=> Hex(p + 1, 8) /\ ~NoCharacter(HexRune(Text(p + 1, (p + 1) + 7)))
    <3>1. 8 \in {4, 8} /\ 8 - 1 = 7 /\ 8 # 4
      OBVIOUS
    <3> QED BY <1>3, <1>6, <3>1
  <2> DEFINE Three == /\ At(p + 1) = "0" /\ At(p + 2) = "0" /\ At(p + 3) = "0"
             Plane == /\ At(p + 1) = "0" /\ At(p + 2) = "0" /\ At(p + 3) = "1" /\ At(p + 4) = "0"
             Half  == At(p + 5) = "d" /\ At(p + 6) \notin OctDig
  <2>2. ASSUME Hex(p + 1, 8)
        PROVE  ~NoCharacter(HexRune(Text(p + 1, (p + 1) + 7))) <=>
                 At(p + 1) \notin OctDig \/ (Three /\ ~(At(p + 4) = "0" /\ Half)) \/ Plane
    <3>1. p + 1 \in 1..Len(text) /\ Hex(p + 1, 4) /\ Hex(p + 5, 4)
      <4>1. Hex(p + 5, 4)
        <5> SUFFICES ASSUME NEW k \in 0..4 - 1 PROVE At(p + 5 + k) \in HexDig
          BY DEF Hex
        <5>1. p + 5 + k = p + 1 + (4 + k) /\ 4 + k \in 0..8 - 1
          BY <1>1
        <5> QED BY <2>2, <5>1 DEF Hex
      <4>2. Hex(p + 1, 4)
        BY <2>2 DEF Hex
      <4> QED BY <1>4, <4>1, <4>2
    <3>2. /\ (p + 1) + 4 = p + 5 /\ (p + 1) + 1 = p + 2 /\ (p + 1) + 2 = p + 3 /\ (p + 1) + 3 = p + 4
          /\ (p + 5) + 1 = p + 6 /\ p + 1 \in Nat /\ p + 5 \in Nat
      BY <1>1
    <3>3. HexRune(Text(p + 1, (p + 1) + 7)) = <<Quarter(p + 1), Quarter(p + 5)>>
      BY <2>2, <3>1, <3>2, RuneOf
    <3>4. PICK x \in Nat, y \in Nat : x = Quarter(p + 1) /\ y = Quarter(p + 5)
      BY <3>1, <3>2, QuarterDigits
    <3>5. NoCharacter(<<x, y>>) <=>
            \/ ~(x >= 32768) /\ x > 16
            \/ x = 0 /\ 55296 <= y /\ y <= 57343
      BY HalvesOf
    <3>6. /\ x < 32768 <=> At(p + 1) \in OctDig
          /\ x <= 16 <=> Three \/ Plane
          /\ (Three /\ At(p + 4) = "0") <=> x = 0
      <4>1. /\ Quarter(p + 1) < 32768 <=> At(p + 1) \in OctDig
            /\ Quarter(p + 1) <= 16 <=>
                 /\ At(p + 1) = "0" /\ At((p + 1) + 1) = "0"
                 /\ At((p + 1) + 2) = "0" \/ (At((p + 1) + 2) = "1" /\ At((p + 1) + 3) = "0")
            /\ (At(p + 1) = "0" /\ At((p + 1) + 1) = "0" /\ At((p + 1) + 2) = "0"
                  /\ At((p + 1) + 3) = "0") <=> Quarter(p + 1) = 0
        BY <3>1, <3>2, QuarterDigits
      <4> QED BY <3>2, <3>4, <4>1
    <3>7. (55296 <= y /\ y <= 57343) <=> Half
      <4>1. (55296 <= Quarter(p + 5) /\ Quarter(p + 5) <= 57343) <=>
              (At(p + 5) = "d" /\ At((p + 5) + 1) \notin OctDig)
        BY <3>1, <3>2, QuarterDigits
      <4> QED BY <3>2, <3>4, <4>1
    <3>8. NoCharacter(<<x, y>>) <=>
            \/ x < 32768 /\ ~(x <= 16)
            \/ x = 0 /\ Half
      <4>. HIDE DEF Half
      <4> QED BY <3>5, <3>7
    <3>9. Three \/ Plane => At(p + 1) \in OctDig
      BY <3>6
    <3>10. Plane => ~Three
      OBVIOUS
    <3>11. ~NoCharacter(<<x, y>>) <=>
             At(p + 1) \notin OctDig \/ (Three /\ ~(At(p + 4) = "0" /\ Half)) \/ Plane
      <4>. HIDE DEF Three, Plane, Half
      <4>1. NoCharacter(<<x, y>>) <=>
              \/ At(p + 1) \in OctDig /\ ~(Three \/ Plane)
              \/ (Three /\ At(p + 4) = "0") /\ Half
        BY <3>6, <3>8
      <4> QED BY <3>9, <3>10, <4>1, Zenon
    <3> QED BY <3>3, <3>4, <3>11
  <2> QED BY <1>6, <2>1, <2>2 DEF Passes
<1>7. CASE At(p) \in OctDig
  <2>1. Escape(p).errors = <<>> <=> ~(Value(Text(p, upTo(OctDig, p, 3) - 1), 8) > 255)
    BY <1>7 DEF Escape, OctDig, EOFch, upTo
  <2>2. PICK j \in 0..Len(text) :
          /\ upTo(OctDig, p, 3) - 1 = j /\ p <= j /\ j <= p + 2 /\ p <= j + 1
          /\ \A i \in p..j : At(i) \in OctDig
          /\ j = p + 2 <=> \A k \in 0..3 - 1 : At(p + k) \in OctDig
    <3>1. /\ upTo(OctDig, p, 3) \in p..p + 3 /\ upTo(OctDig, p, 3) <= Len(text) + 1
          /\ \A i \in p..upTo(OctDig, p, 3) - 1 : At(i) \in OctDig
          /\ upTo(OctDig, p, 3) = p + 3 <=> \A k \in 0..3 - 1 : At(p + k) \in OctDig
          /\ upTo(OctDig, p, 3) > p
      <4>1. 3 \in Nat /\ 3 > 0 /\ EOFch \notin OctDig
        BY EndIsNoChar
      <4> QED BY <1>1, <1>2, <1>7, <4>1, Zenon
    <3>2. PICK e \in p + 1..p + 3 : e = upTo(OctDig, p, 3)
      BY <1>1, <3>1
    <3>3. e - 1 \in 0..Len(text) /\ p <= e - 1 /\ e - 1 <= p + 2 /\ p <= e - 1 + 1
      BY <1>1, <3>1, <3>2
    <3>4. e - 1 = p + 2 <=> e = p + 3
      BY <1>1, <3>2
    <3> QED BY <3>1, <3>2, <3>3, <3>4
  <2>3. (\A k \in 0..3 - 1 : At(p + k) \in OctDig) <=> At(p + 1) \in OctDig /\ At(p + 2) \in OctDig
    <3>1. \A k \in 0..3 - 1 : k = 0 \/ k = 1 \/ k = 2
      OBVIOUS
    <3>2. p + 0 = p /\ 1 \in 0..3 - 1 /\ 2 \in 0..3 - 1
      BY <1>1
    <3> QED BY <1>7, <3>1, <3>2
  <2>4. PICK w \in Seq(Char) : /\ w = Text(p, j) /\ Len(w) = j + 1 - p
                               /\ \A k \in 1..j + 1 - p : w[k] = At(p + k - 1)
    BY <1>1, <2>2, TextPiece
  <2>5. w \in Seq(OctDig) /\ Len(w) \in 1..3 /\ w[1] = At(p) /\ (Len(w) = 3 <=> j = p + 2)
    <3>1. \A k \in 1..j + 1 - p : w[k] \in OctDig
      <4> TAKE k \in 1..j + 1 - p
      <4>1. p + k - 1 \in p..j
        BY <1>1, <2>2
      <4> QED BY <2>2, <2>4, <4>1
    <3>2. 1 \in 1..j + 1 - p /\ p + 1 - 1 = p /\ j + 1 - p \in 1..3 /\ (j + 1 - p = 3 <=> j = p + 2)
      BY <1>1, <2>2
    <3>3. w[1] = At(p)
      BY <2>4, <3>2
    <3> QED BY <2>4, <3>1, <3>2, <3>3
  <2>6. Value(w, 8) > 255 <=> Len(w) = 3 /\ w[1] \in {"4", "7"}
    BY <2>5, OctalValue
  <2>7. Escape(p).errors = <<>> <=>
          ~(At(p) \in {"4", "7"} /\ At(p + 1) \in OctDig /\ At(p + 2) \in OctDig)
    BY <2>1, <2>2, <2>3, <2>4, <2>5, <2>6
  <2>8. At(p) \notin {"u", "U", "x"}
    BY <1>7 DEF OctDig
  <2> QED BY <2>7, <2>8 DEF Passes
<1>8. CASE At(p) = "x"
  <2>1. Escape(p).errors = <<>> <=> At(p + 1) \in HexDig
    BY <1>8 DEF Escape, OctDig, EOFch
  <2> QED BY <1>8, <2>1 DEF Passes
<1>9. CASE At(p) \notin OctDig \cup {"u", "U", "x"}
  <2>1. Escape(p).errors = <<>>
    BY <1>9 DEF Escape, OctDig, EOFch
  <2> QED BY <1>9, <2>1 DEF Passes, OctDig
<1> QED BY <1>5, <1>6, <1>7, <1>8, <1>9

\* What unescapeChar reads: nothing at the end of the text, one backslash, or
\* characters of which none is a backslash.
LEMMA EscapeReads ==
  ASSUME TypeOK, NEW p \in 1..Len(text) + 1
  PROVE  \/ At(p) = EOFch /\ Escape(p).next = p
         \/ At(p) = "backslash" /\ Escape(p).next = p + 1
         \/ Escape(p).next > p /\ \A k \in p..Escape(p).next - 1 : At(k) # "backslash"
<1> DEFINE upTo(S, f, n) == LET q == RunEnd(f, S) IN IF q < f + n THEN q ELSE f + n
<1>1. Len(text) \in Nat /\ p \in Nat
  BY CharAt
<1>2. ASSUME NEW S, NEW f \in 1..Len(text) + 1, NEW n \in Nat, EOFch \notin S
      PROVE  /\ upTo(S, f, n) \in f..Len(text) + 1
             /\ \A k \in f..upTo(S, f, n) - 1 : At(k) \in S
             /\ At(f) \in S /\ n > 0 => upTo(S, f, n) > f
  <2>1. /\ RunEnd(f, S) \in f..Len(text) + 1
        /\ \A i \in f..RunEnd(f, S) - 1 : At(i) \in S
        /\ At(f) \in S => RunEnd(f, S) > f
    BY <1>2, RunEnds
  <2> QED BY <1>1, <2>1
<1>3. At(p) # EOFch => p + 1 \in 1..Len(text) + 1 /\ p <= Len(text)
  BY <1>1, CharAt
<1>4. "backslash" \notin HexDig /\ "backslash" \notin OctDig
  BY DEF HexDig, Digit, OctDig
<1>. HIDE DEF upTo
<1>5. CASE At(p) = EOFch
  <2>1. Escape(p) = [add |-> <<>>, errors |-> <<>>, next |-> p]
    BY <1>5 DEF Escape, OctDig, EOFch
  <2> QED BY <1>5, <2>1
<1>6. CASE At(p) \in OctDig
  <2> DEFINE octal == Text(p, upTo(OctDig, p, 3) - 1)
  <2>1. PICK j \in 0..Len(text) : /\ upTo(OctDig, p, 3) = j + 1 /\ p <= j + 1 /\ j >= p
                                  /\ \A k \in p..j : At(k) \in OctDig
    <3>1. /\ upTo(OctDig, p, 3) \in p..Len(text) + 1 /\ upTo(OctDig, p, 3) > p
          /\ \A k \in p..upTo(OctDig, p, 3) - 1 : At(k) \in OctDig
      BY <1>2, <1>6, EndIsNoChar
    <3>2. upTo(OctDig, p, 3) - 1 \in 0..Len(text)
      BY <1>1, <3>1
    <3> QED BY <1>1, <3>1, <3>2
  <2>2. Len(Text(p, j)) = j + 1 - p /\ upTo(OctDig, p, 3) - 1 = j
    BY <2>1, TextPiece
  <2>3. Escape(p).next = p + Len(octal)
    BY <1>6 DEF Escape, OctDig, EOFch, upTo
  <2>4. Escape(p).next = j + 1 /\ j + 1 - 1 = j
    BY <1>1, <2>1, <2>2, <2>3
  <2> QED BY <1>1, <1>4, <2>1, <2>4
<1>7. CASE At(p) \in {"b", "f", "n", "x", "u", "U"}
  <2>1. \E n \in {2, 4, 8} : Escape(p).next \in {p + 1, upTo(HexDig, p + 1, n)}
    <3>1. CASE At(p) \in {"b", "f", "n"}
      BY <3>1 DEF Escape, OctDig, EOFch
    <3>2. CASE At(p) = "x"
      BY <3>2 DEF Escape, OctDig, EOFch, upTo
    <3>3. CASE At(p) \in {"u", "U"}
      BY <3>3 DEF Escape, OctDig, EOFch, upTo
    <3> QED BY <1>7, <3>1, <3>2, <3>3
  <2>2. p + 1 \in 1..Len(text) + 1
    BY <1>3, <1>7 DEF EOFch
  <2>3. PICK n \in {2, 4, 8} : Escape(p).next \in {p + 1, upTo(HexDig, p + 1, n)}
    BY <2>1
  <2>4. /\ upTo(HexDig, p + 1, n) \in p + 1..Len(text) + 1
        /\ \A k \in p + 1..upTo(HexDig, p + 1, n) - 1 : At(k) \in HexDig
    BY <1>2, <2>2, EndIsNoChar
  <2>5. PICK q \in p + 1..Len(text) + 1 :
          q = Escape(p).next /\ \A k \in p + 1..q - 1 : At(k) \in HexDig
    <3>1. CASE Escape(p).next = p + 1
      BY <1>1, <2>2, <3>1
    <3>2. CASE Escape(p).next = upTo(HexDig, p + 1, n)
      BY <2>4, <3>2
    <3> QED BY <2>3, <3>1, <3>2
  <2>6. \A k \in p..q - 1 : At(k) # "backslash"
    <3> TAKE k \in p..q - 1
    <3>1. k = p \/ k \in p + 1..q - 1
      BY <1>1
    <3>2. CASE k = p
      BY <1>7, <3>2
    <3>3. CASE k \in p + 1..q - 1
      BY <1>4, <2>5, <3>3
    <3> QED BY <3>1, <3>2, <3>3
  <2> QED BY <1>1, <2>5, <2>6
<1>8. CASE At(p) \notin OctDig \cup {"b", "f", "n", "x", "u", "U", EOFch}
  <2>1. Escape(p) = [add |-> <<At(p)>>, errors |-> <<>>, next |-> p + 1]
    BY <1>8 DEF Escape, OctDig, EOFch
  <2>2. \A k \in p..p + 1 - 1 : k = p
    BY <1>1
  <2> QED BY <1>1, <2>1, <2>2
<1> QED BY <1>5, <1>6, <1>7, <1>8
-----------------------------------------------------------------------------
\* The text from the first character of the token on.
Remaining == Text(head, Len(text))

\* In the loop over an E'...' string the run of backslashes before the next character
\* has an even length, and a flaw was found exactly when one of the escapes that have
\* been read does not pass.
EscapeLoop ==
  mode = "quoted" /\ form.escapes =>
    /\ At(pos) = EOFch \/ Run(Remaining, pos - head) % 2 = 0
    /\ flaw <=> \E i \in Escapes(Remaining) : i < pos - head /\ ~Passes(head + i)

EInv == EscapeLoop /\ EscapesAreChecked

\* The characters that remain.
LEMMA RemainingAt ==
  ASSUME TypeOK
  PROVE  /\ Remaining \in Seq(Char) /\ Len(Remaining) = Len(text) + 1 - head
         /\ head \in Nat /\ head >= 1 /\ Len(text) \in Nat /\ head <= Len(text) + 1
         /\ \A i \in 1..Len(text) + 1 - head : Remaining[i] = At(head + i - 1)
<1>1. Len(text) \in Nat /\ head \in 1..Len(text) + 1
  BY CharAt DEF TypeOK
<1>2. Len(text) \in 0..Len(text) /\ head <= Len(text) + 1
  BY <1>1
<1> QED BY <1>1, <1>2, TextPiece DEF Remaining

\* What a turn of the loop owes the invariant.
LEMMA LoopGoesOn ==
  ASSUME UNCHANGED <<text, head>>, mode' = "quoted",
         At(pos') = EOFch \/ Run(Remaining, pos' - head) % 2 = 0,
         flaw' <=> \E i \in Escapes(Remaining) : i < pos' - head /\ ~Passes(head + i)
  PROVE  EInv'
<1>1. Remaining' = Remaining
  BY DEF Remaining, Text
<1>2. At(pos)' = At(pos')
  BY DEF At
<1>3. \A q : Passes(q)' <=> Passes(q)
  BY DEF Passes, Hex, At
<1>4. EscapesAreChecked'
  BY DEF EscapesAreChecked, IsQuoted, HasToken
<1>5. EscapeLoop'
  BY <1>1, <1>2, <1>3 DEF EscapeLoop
<1> QED BY <1>4, <1>5 DEF EInv

\* At a character that is no backslash no escape begins, and no run of backslashes ends.
LEMMA NoEscape ==
  ASSUME NEW w, NEW i \in Nat \ {0}, w[i] # "backslash"
  PROVE  i \notin Escapes(w) /\ Run(w, i) % 2 = 0
<1>1. Run(w, i) = 0
  BY RunGrows
<1> QED BY <1>1 DEF Escapes

\* The places before the next character at which an escape begins are those of
\* escapes that have been read.
LEMMA EscapesRead ==
  ASSUME TypeOK, EInv, mode = "quoted", form.escapes, At(pos) # EOFch, head < pos,
         NEW i \in Escapes(Remaining)
  PROVE  i <= pos - head <=> i < pos - head
<1>1. Run(Remaining, pos - head) % 2 = 0 /\ i \in Nat
  BY RemainingAt DEF EInv, EscapeLoop, Escapes
<1>2. i # pos - head
  BY <1>1 DEF Escapes
<1>3. pos \in Nat /\ head \in Nat
  BY RemainingAt, CharAt DEF TypeOK
<1> QED BY <1>1, <1>2, <1>3

\* A turn of the loop that reads no backslash.
LEMMA TurnEscapes ==
  ASSUME SInv, EInv, mode = "quoted", form.escapes, UNCHANGED <<text, head, flaw>>,
         mode' = "quoted", NEW q \in pos + 1..Len(text) + 1, pos' = q,
         \A k \in pos..q - 1 : At(k) # "backslash"
  PROVE  EInv'
<1>1. /\ TypeOK /\ Len(text) \in Nat /\ pos \in Nat /\ head \in Nat /\ head >= 1 /\ head < pos
      /\ pos \in 1..Len(text)
  BY CharAt, RemainingAt DEF SInv, TypeOK, LoopInv
<1>2. At(pos) # EOFch
  BY <1>1, CharAt
<1>3. \A i \in 1..q - head : i > pos - head => Remaining[i] # "backslash" /\ i \in Nat \ {0}
  <2> SUFFICES ASSUME NEW i \in 1..q - head, i > pos - head
               PROVE  Remaining[i] # "backslash"
    OBVIOUS
  <2>1. head + i - 1 \in pos..q - 1 /\ i \in 1..Len(text) + 1 - head
    BY <1>1
  <2>2. Remaining[i] = At(head + i - 1)
    BY <1>1, <2>1, RemainingAt
  <2> QED BY <2>1, <2>2
<1>4. Run(Remaining, q - head) % 2 = 0
  <2>1. q - head \in 1..q - head /\ q - head > pos - head
    BY <1>1
  <2> QED BY <1>3, <2>1, NoEscape
<1>5. ASSUME NEW i \in Escapes(Remaining)
      PROVE  i < q - head <=> i < pos - head
  <2>1. i \in Nat \ {0}
    BY <1>1, RemainingAt DEF Escapes
  <2>2. i < pos - head => i < q - head
    BY <1>1, <2>1
  <2>3. ASSUME i < q - head
        PROVE  i < pos - head
    <3>1. i \in 1..q - head
      BY <1>1, <2>1, <2>3
    <3>2. ~(i > pos - head)
      BY <1>3, <3>1, NoEscape
    <3>3. i <= pos - head
      BY <1>1, <2>1, <3>2
    <3> QED BY <1>1, <1>2, <3>3, EscapesRead
  <2> QED BY <2>2, <2>3
<1>6. flaw <=> \E i \in Escapes(Remaining) : i < pos - head /\ ~Passes(head + i)
  BY <1>1 DEF EInv, EscapeLoop
<1>7. flaw' <=> \E i \in Escapes(Remaining) : i < q - head /\ ~Passes(head + i)
  BY <1>5, <1>6
<1> QED BY <1>4, <1>7, LoopGoesOn

\* A turn of the loop that reads an escape.
LEMMA EscapeTurn ==
  ASSUME SInv, EInv, QuotedEscape
  PROVE  EInv'
<1>1. /\ TypeOK /\ Len(text) \in Nat /\ pos \in Nat /\ head \in Nat /\ head >= 1 /\ head < pos
      /\ mode = "quoted" /\ form.escapes /\ At(pos) = "backslash" /\ At(pos) # EOFch
  BY CharAt, RemainingAt DEF SInv, TypeOK, LoopInv, QuotedEscape, ch, EOFch
<1>2. pos \in 1..Len(text) /\ pos + 1 \in 1..Len(text) + 1
  BY <1>1, CharAt
<1>3. PICK p \in 1..Len(text) + 1 : p = pos + 1
  BY <1>2
<1>4. /\ UNCHANGED <<text, head>> /\ mode' = "quoted" /\ pos' = Escape(p).next
      /\ flaw' <=> flaw \/ Escape(p).errors # <<>>
  BY <1>1, <1>3 DEF QuotedEscape, Collect
<1>5. PICK q \in p..Len(text) + 1 : q = Escape(p).next
  BY <1>1, <1>3, EscapeType
<1> DEFINE n == pos - head
           w == Remaining
<1>6. n \in Nat /\ n + 1 \in Nat \ {0} /\ n + 2 \in Nat \ {0} /\ head + (n + 1) = p
  BY <1>1, <1>3
<1>7. \A i \in Nat : i > n /\ i <= q - head => i \in 1..Len(text) + 1 - head /\ w[i] = At(head + i - 1)
  <2> SUFFICES ASSUME NEW i \in Nat, i > n, i <= q - head
               PROVE  i \in 1..Len(text) + 1 - head /\ w[i] = At(head + i - 1)
    OBVIOUS
  <2>1. i \in 1..Len(text) + 1 - head
    BY <1>1, <1>3, <1>5, <1>6
  <2> QED BY <1>1, <2>1, RemainingAt
<1>8. w[n + 1] = "backslash"
  <2>1. n + 1 > n /\ n + 1 <= q - head /\ head + (n + 1) - 1 = pos
    BY <1>1, <1>3, <1>5
  <2> QED BY <1>1, <1>6, <1>7, <2>1
<1>9. Run(w, n) % 2 = 0 /\ Run(w, n) \in Nat
  <2>1. Run(w, n) % 2 = 0
    BY <1>1 DEF EInv, EscapeLoop
  <2>2. n \in Nat \ {0}
    BY <1>1
  <2> QED BY <2>1, <2>2, RunGrows
<1>10. Run(w, n + 1) = Run(w, n) + 1
  <2>1. n + 1 - 1 = n
    BY <1>6
  <2>2. Run(w, n + 1) = Run(w, n + 1 - 1) + 1
    BY <1>6, <1>8, RunGrows
  <2> QED BY <2>1, <2>2
<1>11. w[n + 1] = "backslash" /\ n + 1 \in Escapes(w)
  <2>1. n + 1 \in 1..Len(text) + 1 - head
    BY <1>1, <1>2
  <2>2. (Run(w, n) + 1) % 2 = 1
    BY <1>9
  <2>3. n + 1 \in DOMAIN w
    BY <1>1, <2>1, RemainingAt
  <2> QED BY <1>8, <1>10, <2>2, <2>3 DEF Escapes
\* The escapes that have been read after the turn are those before it and, but at the end
\* of the text, the one at p.
<1>12. ASSUME \A i \in Escapes(w) : i < q - head <=> i < n \/ (i = n + 1 /\ p <= Len(text)),
              At(pos') = EOFch \/ Run(w, q - head) % 2 = 0
       PROVE  EInv'
  <2>1. flaw <=> \E i \in Escapes(w) : i < n /\ ~Passes(head + i)
    BY <1>1 DEF EInv, EscapeLoop
  <2>2. Escape(p).errors # <<>> <=> p <= Len(text) /\ ~Passes(head + (n + 1))
    <3>1. CASE p <= Len(text)
      <4>1. p \in 1..Len(text)
        BY <1>1, <1>3, <3>1
      <4> QED BY <1>1, <1>6, <3>1, <4>1, EscapeMeets
    <3>2. CASE ~(p <= Len(text))
      <4>1. At(p) = EOFch
        BY <1>1, <1>3, <3>2, CharAt
      <4>2. Escape(p).errors = <<>>
        BY <4>1 DEF Escape, OctDig, EOFch
      <4> QED BY <3>2, <4>2
    <3> QED BY <3>1, <3>2
  <2>. HIDE DEF n, w
  <2>3. flaw' <=> \E i \in Escapes(w) : i < q - head /\ ~Passes(head + i)
    BY <1>4, <1>11, <1>12, <2>1, <2>2
  <2>4. flaw' <=> \E i \in Escapes(Remaining) : i < pos' - head /\ ~Passes(head + i)
    BY <1>4, <1>5, <2>3 DEF w
  <2>5. At(pos') = EOFch \/ Run(Remaining, pos' - head) % 2 = 0
    BY <1>4, <1>5, <1>12 DEF w
  <2> QED BY <1>4, <2>4, <2>5, LoopGoesOn
<1>13. \A i \in Escapes(w) : i \in Nat /\ i >= 1 /\ i <= Len(text) + 1 - head /\ (i <= n <=> i < n)
  <2> TAKE i \in Escapes(w)
  <2>1. i \in 1..Len(text) + 1 - head
    BY <1>1, RemainingAt DEF Escapes
  <2>2. i <= n <=> i < n
    BY <1>1, EscapesRead
  <2> QED BY <1>1, <2>1, <2>2
<1>14. CASE At(p) = EOFch /\ q = p
  <2>1. ~(p <= Len(text))
    BY <1>1, <1>3, <1>14, CharAt
  <2>2. \A i \in Escapes(w) : i < q - head <=> i < n \/ (i = n + 1 /\ p <= Len(text))
    <3> TAKE i \in Escapes(w)
    <3>1. i \in Nat /\ (i <= n <=> i < n)
      BY <1>13
    <3>2. i < q - head <=> i <= n
      BY <1>1, <1>3, <1>14, <3>1
    <3> QED BY <2>1, <3>1, <3>2
  <2>3. At(pos') = EOFch
    BY <1>4, <1>5, <1>14
  <2>. HIDE DEF n, w
  <2> QED BY <1>12, <2>2, <2>3
<1>15. ASSUME p <= Len(text), q > p, NEW m \in {n + 1, n + 2}, m <= q - head,
              \A i \in Escapes(w) : i < q - head => i <= m, m = n + 2 => m = q - head,
              Run(w, q - head) % 2 = 0
       PROVE  EInv'
  <2>1. \A i \in Escapes(w) : i < q - head <=> i < n \/ (i = n + 1 /\ p <= Len(text))
    <3> TAKE i \in Escapes(w)
    <3>1. i \in Nat /\ (i <= n <=> i < n)
      BY <1>13
    <3>2. n \in Nat /\ n + 1 < q - head
      BY <1>1, <1>3, <1>5, <1>15
    <3>3. i < q - head => i <= m
      BY <1>15
    <3>. HIDE DEF n, w
    <3>4. i < q - head => i <= n + 1
      BY <1>1, <1>15, <3>1, <3>2, <3>3
    <3> QED BY <1>1, <1>15, <3>1, <3>2, <3>4
  <2>. HIDE DEF n, w
  <2> QED BY <1>12, <1>15, <2>1
<1>16. CASE At(p) = "backslash" /\ q = p + 1
  <2>1. p <= Len(text) /\ q - head = n + 2 /\ head + (n + 2) - 1 = p /\ q > p
    BY <1>1, <1>3, <1>5, <1>6, <1>16
  <2>2. w[n + 2] = "backslash"
    <3>1. n + 2 > n /\ n + 2 <= q - head
      BY <1>6, <2>1
    <3> QED BY <1>6, <1>7, <1>16, <2>1, <3>1
  <2>3. Run(w, n + 2) = Run(w, n) + 2
    <3>1. n + 2 - 1 = n + 1
      BY <1>6
    <3>2. Run(w, n + 2) = Run(w, n + 2 - 1) + 1
      BY <1>6, <2>2, RunGrows
    <3> QED BY <1>9, <1>10, <3>1, <3>2
  <2>4. Run(w, q - head) % 2 = 0
    BY <1>9, <2>1, <2>3
  <2>5. n + 2 \in Nat /\ \A i \in Escapes(w) : i < q - head => i <= n + 2
    BY <1>6, <1>13, <2>1
  <2>. HIDE DEF n, w
  <2> QED BY <1>15, <2>1, <2>4, <2>5
<1>17. CASE q > p /\ \A k \in p..q - 1 : At(k) # "backslash"
  <2>1. \A i \in Nat : i > n + 1 /\ i <= q - head => w[i] # "backslash" /\ i \in Nat \ {0}
    <3> SUFFICES ASSUME NEW i \in Nat, i > n + 1, i <= q - head
                 PROVE  w[i] # "backslash"
      BY <1>6
    <3>1. head + i - 1 \in p..q - 1 /\ i > n
      BY <1>1, <1>3, <1>5
    <3> QED BY <1>7, <1>17, <3>1
  <2>2. Run(w, q - head) % 2 = 0
    <3>1. q - head \in Nat /\ q - head > n + 1 /\ q - head <= q - head
      BY <1>1, <1>3, <1>5, <1>17
    <3> QED BY <2>1, <3>1, NoEscape
  <2>3. \A i \in Escapes(w) : i < q - head => i <= n + 1
    <3> SUFFICES ASSUME NEW i \in Escapes(w), i < q - head, i > n + 1 PROVE FALSE
      BY <1>6, <1>13
    <3>1. i \in Nat /\ i <= q - head
      BY <1>1, <1>13
    <3> QED BY <2>1, <3>1, NoEscape
  <2>4. p <= Len(text) /\ n + 1 <= q - head
    BY <1>1, <1>3, <1>5, <1>17
  <2>5. n + 1 # n + 2
    BY <1>6
  <2>. HIDE DEF n, w
  <2> QED BY <1>15, <1>17, <2>2, <2>3, <2>4, <2>5
<1>18. \/ At(p) = EOFch /\ q = p
       \/ At(p) = "backslash" /\ q = p + 1
       \/ q > p /\ \A k \in p..q - 1 : At(k) # "backslash"
  BY <1>1, <1>5, EscapeReads
<1> QED BY <1>14, <1>16, <1>17, <1>18

\* What an escape is among the characters of the string, up to its closing quote.
LEMMA CharacterOf ==
  ASSUME TypeOK, pos \in 1..Len(text), At(pos) = "quote", NEW w,
         DOMAIN w = 1..pos + 1 - head, \A i \in 1..pos + 1 - head : w[i] = At(head + i - 1),
         NEW i \in Nat, i >= 1, i < pos - head
  PROVE  Passes(head + i) <=> IsCharacter(w, i) \/ IsNegative(w, i)
<1>1. /\ Len(text) \in Nat /\ pos \in Nat /\ head \in Nat /\ head >= 1
  BY RemainingAt, CharAt DEF TypeOK
<1>2. PICK p \in Nat : p = head + i /\ p < pos /\ p >= 1
  BY <1>1
<1> DEFINE m == pos + 1 - head
<1>3. \A k \in Nat : /\ i + 1 + k \in DOMAIN w <=> p + k <= pos
                     /\ p + k <= pos => w[i + 1 + k] = At(p + k)
  <2> TAKE k \in Nat
  <2>1. i + 1 + k \in 1..m <=> p + k <= pos
    BY <1>1, <1>2
  <2>2. head + (i + 1 + k) - 1 = p + k
    BY <1>1, <1>2
  <2>3. ASSUME i + 1 + k \in 1..m
        PROVE  w[i + 1 + k] = At(p + k)
    <3>1. PICK x \in 1..m : x = i + 1 + k
      BY <2>3
    <3>2. w[x] = At(head + x - 1) /\ head + x - 1 = p + k
      BY <2>2, <3>1
    <3> QED BY <3>1, <3>2
  <2> QED BY <2>1, <2>3
<1>4. w[i + 1] = At(p)
  <2>1. 0 \in Nat /\ i + 1 + 0 = i + 1 /\ p + 0 = p /\ p + 0 <= pos
    BY <1>2
  <2> QED BY <1>3, <2>1
\* The digits of an escape come before the closing quote.
<1>5. \A n \in {4, 8} : Hex(p + 1, n) => p + n < pos
  <2> SUFFICES ASSUME NEW n \in {4, 8}, Hex(p + 1, n), ~(p + n < pos)
               PROVE  FALSE
    BY <1>1, <1>2
  <2>1. pos - p - 1 \in 0..n - 1 /\ p + 1 + (pos - p - 1) = pos
    BY <1>1, <1>2
  <2>2. At(pos) \in HexDig
    BY <2>1 DEF Hex
  <2> QED BY <2>2 DEF HexDig, Digit, OctDig
\* Four characters of the text.
<1>6. ASSUME NEW f \in {1, 5}, NEW A, NEW B, NEW C, NEW D
      PROVE  Matches(w, i + f, <<A, B, C, D>>) <=>
               /\ p + (f + 3) <= pos
               /\ At(p + f) \in A /\ At(p + (f + 1)) \in B
               /\ At(p + (f + 2)) \in C /\ At(p + (f + 3)) \in D
  <2>1. DOMAIN <<A, B, C, D>> = {1, 2, 3, 4} /\ <<A, B, C, D>>[1] = A /\ <<A, B, C, D>>[2] = B
        /\ <<A, B, C, D>>[3] = C /\ <<A, B, C, D>>[4] = D
    OBVIOUS
  <2>2. Matches(w, i + f, <<A, B, C, D>>) <=>
          \A k \in {1, 2, 3, 4} : i + f + k \in DOMAIN w /\ w[i + f + k] \in <<A, B, C, D>>[k]
    BY <2>1, Zenon DEF Matches
  <2>3. /\ i + f + 1 = i + 1 + f /\ i + f + 2 = i + 1 + (f + 1)
        /\ i + f + 3 = i + 1 + (f + 2) /\ i + f + 4 = i + 1 + (f + 3)
        /\ f \in Nat /\ f + 1 \in Nat /\ f + 2 \in Nat /\ f + 3 \in Nat
    BY <1>1
  <2>4. CASE p + (f + 3) <= pos
    <3>1. p + f <= pos /\ p + (f + 1) <= pos /\ p + (f + 2) <= pos
      BY <1>1, <1>2, <2>4
    <3>2. /\ i + f + 1 \in DOMAIN w /\ w[i + f + 1] = At(p + f)
          /\ i + f + 2 \in DOMAIN w /\ w[i + f + 2] = At(p + (f + 1))
          /\ i + f + 3 \in DOMAIN w /\ w[i + f + 3] = At(p + (f + 2))
          /\ i + f + 4 \in DOMAIN w /\ w[i + f + 4] = At(p + (f + 3))
      BY <1>3, <2>3, <2>4, <3>1, Zenon
    <3>3. (\A k \in {1, 2, 3, 4} : i + f + k \in DOMAIN w /\ w[i + f + k] \in <<A, B, C, D>>[k]) <=>
            /\ At(p + f) \in A /\ At(p + (f + 1)) \in B
            /\ At(p + (f + 2)) \in C /\ At(p + (f + 3)) \in D
      BY <2>1, <3>2, Zenon
    <3> QED BY <2>2, <2>4, <3>3
  <2>5. CASE ~(p + (f + 3) <= pos)
    <3>1. i + f + 4 \notin DOMAIN w
      BY <1>3, <2>3, <2>5, Zenon
    <3> QED BY <2>2, <2>5, <3>1
  <2> QED BY <2>4, <2>5
<1> DEFINE large == HexDig \ OctDig
           half == <<HexDig, HexDig, HexDig, HexDig>>
           surrogate == <<{"d"}, large, HexDig, HexDig>>
           zeros == <<{"0"}, {"0"}, {"0"}, HexDig>>
           plane == <<{"0"}, {"0"}, {"1"}, {"0"}>>
<1>7. /\ p + (1 + 1) = p + 2 /\ p + (1 + 2) = p + 3 /\ p + (1 + 3) = p + 4
      /\ p + (5 + 1) = p + 6 /\ p + (5 + 2) = p + 7 /\ p + (5 + 3) = p + 8
  BY <1>2
<1>8. \A j \in {1, 5} : Hex(p + j, 4) <=>
        /\ At(p + j) \in HexDig /\ At(p + (j + 1)) \in HexDig
        /\ At(p + (j + 2)) \in HexDig /\ At(p + (j + 3)) \in HexDig
  <2> TAKE j \in {1, 5}
  <2>1. /\ \A k \in 0..4 - 1 : k = 0 \/ k = 1 \/ k = 2 \/ k = 3
        /\ 0 \in 0..4 - 1 /\ 1 \in 0..4 - 1 /\ 2 \in 0..4 - 1 /\ 3 \in 0..4 - 1
    OBVIOUS
  <2>2. /\ p + j + 0 = p + j /\ p + j + 1 = p + (j + 1) /\ p + j + 2 = p + (j + 2)
        /\ p + j + 3 = p + (j + 3)
    BY <1>2
  <2>3. Hex(p + j, 4) <=> /\ At(p + j + 0) \in HexDig /\ At(p + j + 1) \in HexDig
                          /\ At(p + j + 2) \in HexDig /\ At(p + j + 3) \in HexDig
    BY <2>1, Zenon DEF Hex
  <2> QED BY <2>2, <2>3
<1>9. Hex(p + 1, 8) <=> Hex(p + 1, 4) /\ Hex(p + 5, 4)
  <2>1. ASSUME Hex(p + 1, 8)
        PROVE  Hex(p + 1, 4) /\ Hex(p + 5, 4)
    <3>1. ASSUME NEW k \in 0..4 - 1
          PROVE  At(p + 5 + k) \in HexDig /\ At(p + 1 + k) \in HexDig
      <4>1. p + 5 + k = p + 1 + (4 + k) /\ 4 + k \in 0..8 - 1 /\ k \in 0..8 - 1
        BY <1>2
      <4> QED BY <2>1, <4>1 DEF Hex
    <3> QED BY <3>1 DEF Hex
  <2>2. ASSUME Hex(p + 1, 4), Hex(p + 5, 4)
        PROVE  Hex(p + 1, 8)
    <3> SUFFICES ASSUME NEW k \in 0..8 - 1 PROVE At(p + 1 + k) \in HexDig
      BY DEF Hex
    <3>1. CASE k \in 0..4 - 1
      BY <2>2, <3>1 DEF Hex
    <3>2. CASE k - 4 \in 0..4 - 1
      <4>1. p + 5 + (k - 4) = p + 1 + k
        BY <1>2
      <4> QED BY <2>2, <3>2, <4>1 DEF Hex
    <3>3. k \in 0..4 - 1 \/ k - 4 \in 0..4 - 1
      OBVIOUS
    <3> QED BY <3>1, <3>2, <3>3
  <2> QED BY <2>1, <2>2
<1>10. Matches(w, i + 1, half) <=> Hex(p + 1, 4)
  <2>1. Hex(p + 1, 4) => p + (1 + 3) <= pos
    BY <1>1, <1>2, <1>5
  <2> QED BY <1>6, <1>8, <2>1
<1>11. Matches(w, i + 1, half) /\ Matches(w, i + 5, half) <=> Hex(p + 1, 8)
  <2>1. Hex(p + 1, 8) => p + (5 + 3) <= pos
    BY <1>1, <1>2, <1>5
  <2> QED BY <1>6, <1>8, <1>9, <1>10, <2>1
\* One character of the text.
<1>12. \A c \in {1, 4} : \A A : Matches(w, i + c, <<A>>) <=> p + c <= pos /\ At(p + c) \in A
  <2> TAKE c \in {1, 4}
  <2> TAKE A
  <2>1. DOMAIN <<A>> = {1} /\ <<A>>[1] = A
    OBVIOUS
  <2>2. i + c + 1 = i + 1 + c /\ c \in Nat
    BY <1>2
  <2>3. /\ i + c + 1 \in DOMAIN w <=> p + c <= pos
        /\ p + c <= pos => w[i + c + 1] = At(p + c)
    BY <1>3, <2>2, Zenon
  <2> QED BY <2>1, <2>3, Zenon DEF Matches
<1>13. CASE At(p) = "u"
  <2>1. ASSUME Hex(p + 1, 4)
        PROVE  Matches(w, i + 1, surrogate) <=> At(p + 1) = "d" /\ At(p + 2) \notin OctDig
    <3>1. p + (1 + 3) <= pos
      BY <1>1, <1>2, <1>5, <2>1
    <3> QED BY <1>6, <1>7, <1>8, <2>1, <3>1
  <2>2. ~IsNegative(w, i)
    BY <1>4, <1>13 DEF IsNegative
  <2>3. IsCharacter(w, i) <=> Matches(w, i + 1, half) /\ ~Matches(w, i + 1, surrogate)
    BY <1>4, <1>13 DEF IsCharacter
  <2>4. Passes(p) <=> Hex(p + 1, 4) /\ ~(At(p + 1) = "d" /\ At(p + 2) \notin OctDig)
    BY <1>13 DEF Passes
  <2> QED BY <1>2, <1>10, <2>1, <2>2, <2>3, <2>4
<1>14. CASE At(p) = "U"
  <2>1. IsCharacter(w, i) <=>
          /\ Matches(w, i + 1, half) /\ Matches(w, i + 5, half)
          /\ \/ /\ Matches(w, i + 1, zeros)
                /\ ~(Matches(w, i + 4, <<{"0"}>>) /\ Matches(w, i + 5, surrogate))
             \/ Matches(w, i + 1, plane)
    BY <1>4, <1>14 DEF IsCharacter
  <2>2. IsNegative(w, i) <=>
          Matches(w, i + 1, half) /\ Matches(w, i + 5, half) /\ Matches(w, i + 1, <<large>>)
    BY <1>4, <1>14 DEF IsNegative
  <2>3. ASSUME Hex(p + 1, 8)
        PROVE  /\ Matches(w, i + 1, zeros) <=> At(p + 1) = "0" /\ At(p + 2) = "0" /\ At(p + 3) = "0"
               /\ Matches(w, i + 1, plane) <=>
                    At(p + 1) = "0" /\ At(p + 2) = "0" /\ At(p + 3) = "1" /\ At(p + 4) = "0"
               /\ Matches(w, i + 5, surrogate) <=> At(p + 5) = "d" /\ At(p + 6) \notin OctDig
               /\ Matches(w, i + 4, <<{"0"}>>) <=> At(p + 4) = "0"
               /\ Matches(w, i + 1, <<large>>) <=> At(p + 1) \notin OctDig
    <3>1. p + (5 + 3) <= pos /\ p + (1 + 3) <= pos /\ p + 4 <= pos /\ p + 1 <= pos
      BY <1>1, <1>2, <1>5, <2>3
    <3>2. Hex(p + 1, 4) /\ Hex(p + 5, 4)
      BY <1>9, <2>3
    <3>3. /\ At(p + 1) \in HexDig /\ At(p + 4) \in HexDig
          /\ At(p + 6) \in HexDig /\ At(p + 7) \in HexDig /\ At(p + 8) \in HexDig
      BY <1>7, <1>8, <3>2
    <3>4. Matches(w, i + 1, zeros) <=> At(p + 1) = "0" /\ At(p + 2) = "0" /\ At(p + 3) = "0"
      BY <1>6, <1>7, <3>1, <3>3
    <3>5. Matches(w, i + 1, plane) <=>
            At(p + 1) = "0" /\ At(p + 2) = "0" /\ At(p + 3) = "1" /\ At(p + 4) = "0"
      BY <1>6, <1>7, <3>1
    <3>6. Matches(w, i + 5, surrogate) <=> At(p + 5) = "d" /\ At(p + 6) \notin OctDig
      BY <1>6, <1>7, <3>1, <3>3
    <3>7. Matches(w, i + 4, <<{"0"}>>) <=> At(p + 4) = "0"
      BY <1>12, <3>1
    <3>8. Matches(w, i + 1, <<large>>) <=> At(p + 1) \notin OctDig
      BY <1>12, <3>1, <3>3
    <3> QED BY <3>4, <3>5, <3>6, <3>7, <3>8
  <2>4. Passes(p) <=>
          /\ Hex(p + 1, 8)
          /\ \/ At(p + 1) \notin OctDig
             \/ /\ At(p + 1) = "0" /\ At(p + 2) = "0" /\ At(p + 3) = "0"
                /\ ~(At(p + 4) = "0" /\ At(p + 5) = "d" /\ At(p + 6) \notin OctDig)
             \/ At(p + 1) = "0" /\ At(p + 2) = "0" /\ At(p + 3) = "1" /\ At(p + 4) = "0"
    BY <1>14 DEF Passes
  <2>. HIDE DEF half, surrogate, zeros, plane, large
  <2>5. CASE Hex(p + 1, 8)
    BY <1>2, <1>11, <2>1, <2>2, <2>3, <2>4, <2>5
  <2>6. CASE ~Hex(p + 1, 8)
    BY <1>2, <1>11, <2>1, <2>2, <2>4, <2>6
  <2> QED BY <2>5, <2>6
<1>15. CASE At(p) \in {"4", "7"}
  <2>1. Matches(w, i + 1, <<OctDig, OctDig>>) <=> At(p + 1) \in OctDig /\ At(p + 2) \in OctDig
    <3>1. DOMAIN <<OctDig, OctDig>> = {1, 2} /\ <<OctDig, OctDig>>[1] = OctDig
          /\ <<OctDig, OctDig>>[2] = OctDig
      OBVIOUS
    <3>2. 1 \in Nat /\ 2 \in Nat /\ p + 1 <= pos
      BY <1>1, <1>2
    <3>3. At(p + 1) \in OctDig => p + 2 <= pos
      <4>1. At(pos) \notin OctDig
        BY DEF OctDig
      <4>2. CASE p + 1 = pos
        BY <4>1, <4>2
      <4>3. CASE p + 1 # pos
        BY <1>1, <3>2, <4>3
      <4> QED BY <4>2, <4>3
    <3>4. Matches(w, i + 1, <<OctDig, OctDig>>) <=>
            /\ i + 1 + 1 \in DOMAIN w /\ w[i + 1 + 1] \in OctDig
            /\ i + 1 + 2 \in DOMAIN w /\ w[i + 1 + 2] \in OctDig
      BY <3>1, Zenon DEF Matches
    <3>5. /\ i + 1 + 1 \in DOMAIN w /\ w[i + 1 + 1] = At(p + 1)
          /\ i + 1 + 2 \in DOMAIN w <=> p + 2 <= pos
          /\ p + 2 <= pos => w[i + 1 + 2] = At(p + 2)
      BY <1>3, <3>2, Zenon
    <3> QED BY <3>3, <3>4, <3>5
  <2>2. ~IsNegative(w, i) /\ (IsCharacter(w, i) <=> ~Matches(w, i + 1, <<OctDig, OctDig>>))
    BY <1>4, <1>15 DEF IsNegative, IsCharacter
  <2>3. Passes(p) <=> ~(At(p + 1) \in OctDig /\ At(p + 2) \in OctDig)
    BY <1>15 DEF Passes
  <2> QED BY <1>2, <2>1, <2>2, <2>3
<1>16. CASE At(p) = "x"
  <2>1. p + 1 <= pos
    BY <1>1, <1>2
  <2>2. Matches(w, i + 1, <<HexDig>>) <=> At(p + 1) \in HexDig
    BY <1>12, <2>1
  <2>3. ~IsNegative(w, i) /\ (IsCharacter(w, i) <=> Matches(w, i + 1, <<HexDig>>))
    BY <1>4, <1>16 DEF IsNegative, IsCharacter
  <2> QED BY <1>2, <1>16, <2>2, <2>3 DEF Passes
<1>17. CASE At(p) \notin {"u", "U", "x", "4", "7"}
  BY <1>2, <1>4, <1>17 DEF IsCharacter, Passes
<1> QED BY <1>13, <1>14, <1>15, <1>16, <1>17

\* The one form with escapes is E'...'.
LEMMA EscapedForm ==
  ASSUME NEW f \in Forms
  PROVE  /\ f.escapes \in BOOLEAN
         /\ f.escapes => f = ExtString /\ f.close = "quote" /\ f.tok = "SCONST" /\ f.kind # "DollarLit"
         /\ ~StdString.escapes /\ ~UnicodeString.escapes /\ ~BitString.escapes /\ ~HexString.escapes
         /\ ~UnicodeIdent.escapes /\ ~DelimitedIdent.escapes
<1>1. /\ ~StdString.escapes /\ ~UnicodeString.escapes /\ ~BitString.escapes /\ ~HexString.escapes
      /\ ~UnicodeIdent.escapes /\ ~DelimitedIdent.escapes
  BY DEF StdString, UnicodeString, BitString, HexString, UnicodeIdent, DelimitedIdent, Form
<1>2. CASE f = ExtString
  <2>1. f.escapes = TRUE /\ f.close = "quote" /\ f.tok = "SCONST" /\ f.kind = "StringLit"
    BY <1>2 DEF ExtString, StdString, Form
  <2> QED BY <1>1, <1>2, <2>1
<1>3. CASE f # ExtString
  <2>1. f.escapes = FALSE
    BY <1>3 DEF Forms, StdString, UnicodeString, BitString, HexString, UnicodeIdent,
                DelimitedIdent, Form
  <2> QED BY <1>1, <2>1
<1> QED BY <1>2, <1>3

\* Outside of the loop over an E'...' string and its token there is nothing to show.
LEMMA NoEscapes ==
  ASSUME form' \in Forms,
         \/ mode' \notin {"idle", "quoted"}
         \/ mode' = "quoted" /\ ~form'.escapes
         \/ /\ mode' = "idle"
            /\ tok' # "SCONST" \/ kind' = "DollarLit" \/ "unterminated" \in Range(said')
  PROVE  EInv'
  BY EscapedForm DEF EInv, EscapeLoop, EscapesAreChecked, IsQuoted, HasToken

\* An E'...' string begins without an escape.
LEMMA OpenedEscapes ==
  ASSUME TypeOK, At(pos) = "e", At(pos + 1) = "quote", Opens(ExtString, pos + 2)
  PROVE  EInv'
<1>1. /\ Len(text) \in Nat /\ pos \in Nat /\ pos \in 1..Len(text) + 1 /\ text \in Seq(Char)
  BY CharAt DEF TypeOK
<1>2. pos + 1 \in 1..Len(text)
  BY <1>1, CharAt DEF EOFch
<1>3. text' = text /\ head' = pos /\ pos' = pos + 2 /\ mode' = "quoted"
  BY DEF Opens, Begins
<1> DEFINE w == Text(pos, Len(text))
<1>4. w[1] = "e" /\ w[2] = "quote" /\ DOMAIN w = 1..Len(text) + 1 - pos
  <2>1. /\ w \in Seq(Char) /\ Len(w) = Len(text) + 1 - pos
        /\ \A k \in 1..Len(text) + 1 - pos : w[k] = At(pos + k - 1)
    <3>1. Len(text) \in 0..Len(text) /\ pos <= Len(text) + 1
      BY <1>1
    <3> QED BY <1>1, <3>1, TextPiece
  <2>2. 1 \in 1..Len(text) + 1 - pos /\ 2 \in 1..Len(text) + 1 - pos
    BY <1>1, <1>2
  <2>3. pos + 1 - 1 = pos /\ pos + 2 - 1 = pos + 1
    BY <1>1
  <2> QED BY <2>1, <2>2, <2>3
<1>. HIDE DEF w
<1>5. 1 \notin Escapes(w) /\ Run(w, 2) % 2 = 0
  <2>1. w[1] # "backslash" /\ w[2] # "backslash" /\ 1 \in Nat \ {0} /\ 2 \in Nat \ {0}
    BY <1>4
  <2> QED BY <2>1, NoEscape
<1>6. \A i \in Escapes(w) : ~(i < 2)
  <2>1. \A i \in Escapes(w) : i \in Nat /\ i >= 1
    BY <1>1, <1>4 DEF Escapes
  <2> QED BY <1>5, <2>1
<1>7. Remaining' = w
  BY <1>3 DEF Remaining, Text, w
<1>8. pos' - head' = 2
  BY <1>1, <1>3
<1>9. EscapeLoop'
  <2>1. flaw' = FALSE
    BY DEF Opens
  <2> QED BY <1>5, <1>6, <1>7, <1>8, <2>1 DEF EscapeLoop
<1> QED BY <1>3, <1>9 DEF EInv, EscapesAreChecked, IsQuoted, HasToken

\* Words have no escapes, and of the quoted forms E'...' begins without one.
LEMMA NamedEscapes ==
  ASSUME SInv, SInv', Named
  PROVE  EInv'
<1>1. TypeOK /\ form' \in Forms
  BY DEF SInv, TypeOK, Forms
<1>2. \A f, p : Opens(f, p) => mode' = "quoted" /\ form' = f
  BY DEF Opens
<1>3. ASSUME NEW f \in Forms, NEW p, ~f.escapes, Opens(f, p)
      PROVE  EInv'
  BY <1>1, <1>2, <1>3, NoEscapes
<1>4. StdString \in Forms /\ UnicodeString \in Forms /\ BitString \in Forms /\ HexString \in Forms
      /\ UnicodeIdent \in Forms /\ DelimitedIdent \in Forms
  BY DEF Forms
<1>5. ~StdString.escapes /\ ~UnicodeString.escapes /\ ~BitString.escapes /\ ~HexString.escapes
      /\ ~UnicodeIdent.escapes /\ ~DelimitedIdent.escapes
  BY <1>4, EscapedForm
<1>6. CASE Ident
  <2>1. mode' = "idle" /\ tok' \in {"KEYWORD", "IDENT"}
    BY <1>6 DEF Ident, Word, Plain, Return
  <2> QED BY <1>1, <2>1, NoEscapes
<1>7. CASE PrefixedString
  <2>1. \/ Opens(BitString, pos + 2) \/ Opens(HexString, pos + 2) \/ Opens(StdString, pos + 1)
        \/ At(pos) = "e" /\ At(pos + 1) = "quote" /\ Opens(ExtString, pos + 2)
    BY <1>7 DEF PrefixedString, ch
  <2> QED BY <1>1, <1>3, <1>4, <1>5, <2>1, OpenedEscapes
<1>8. CASE UnicodePrefixed
  <2>1. \/ Opens(UnicodeString, pos + 3) \/ Opens(UnicodeIdent, pos + 3)
        \/ mode' = "idle" /\ tok' \in {"KEYWORD", "IDENT"}
    BY <1>8 DEF UnicodePrefixed, Word, Plain, Return
  <2>2. mode' = "idle" /\ tok' \in {"KEYWORD", "IDENT"} => EInv'
    BY <1>1, NoEscapes
  <2> QED BY <1>3, <1>4, <1>5, <2>1, <2>2
<1>9. CASE PlainQuote
  <2>1. Opens(StdString, pos + 1) \/ Opens(DelimitedIdent, pos + 1)
    BY <1>9 DEF PlainQuote
  <2> QED BY <1>3, <1>4, <1>5, <2>1
<1>10. CASE OpenDollar
  <2>1. \/ mode' = "dollar"
        \/ mode' = "idle" /\ tok' = "dollar"
    BY <1>10 DEF OpenDollar, Simple, Plain, Return
  <2> QED BY <1>1, <2>1, NoEscapes
<1> QED BY <1>6, <1>7, <1>8, <1>9, <1>10 DEF Named

\* At the end of an E'...' string every escape in it has been read.
LEMMA EndEscapes ==
  ASSUME SInv, SInv', EInv, QuotedClose
  PROVE  EInv'
<1>1. /\ TypeOK /\ Len(text) \in Nat /\ pos \in Nat /\ head \in Nat /\ head >= 1 /\ head < pos
      /\ form \in Forms
  BY CharAt, RemainingAt DEF SInv, TypeOK, LoopInv, QuotedClose, Forms
<1>2. /\ mode = "quoted" /\ At(pos) = form.close /\ pos' = pos + 1 /\ mode' = "idle"
      /\ UNCHANGED <<text, form, head>> /\ (form.mayBeEmpty => bad' = flaw)
  BY DEF QuotedClose, Literal, Return, work, ch, SInv, TypeOK
<1>3. EscapeLoop'
  BY <1>2 DEF EscapeLoop
<1>4. EscapesAreChecked'
  <2>1. pos' - 1 = pos
    BY <1>1, <1>2
  <2>2. Consumed' = Text(head, pos)
    BY <1>2, <2>1 DEF Consumed, Text
  <2> DEFINE w == Text(head, pos)
  <2> SUFFICES ASSUME form.escapes
               PROVE  flaw <=> \E i \in Escapes(w) : ~(IsCharacter(w, i) \/ IsNegative(w, i))
    <3>1. form.escapes => form.mayBeEmpty
      BY <1>1, EscapedForm DEF ExtString, StdString, Form
    <3> QED BY <1>2, <2>2, <3>1 DEF EscapesAreChecked
  <2>3. At(pos) = "quote" /\ At(pos) # EOFch /\ pos \in 1..Len(text)
    <3>1. At(pos) = "quote"
      BY <1>1, <1>2, EscapedForm
    <3> QED BY <1>1, <3>1, CharAt DEF EOFch
  <2>4. /\ DOMAIN w = 1..pos + 1 - head
        /\ \A k \in 1..pos + 1 - head : w[k] = At(head + k - 1)
    <3>1. pos \in 0..Len(text) /\ head <= pos + 1 /\ head \in 1..Len(text) + 1
      BY <1>1, <2>3
    <3>2. /\ w \in Seq(Char) /\ Len(w) = pos + 1 - head
          /\ \A k \in 1..pos + 1 - head : w[k] = At(head + k - 1)
      BY <1>1, <3>1, TextPiece
    <3> QED BY <3>2
  <2>. HIDE DEF w
\* The escapes of the string are those of the text that have been read.
  <2>5. \A i \in Nat : i >= 1 /\ i <= pos - head => (i \in Escapes(w) <=> i \in Escapes(Remaining))
    <3> SUFFICES ASSUME NEW i \in Nat, i >= 1, i <= pos - head
                 PROVE  i \in Escapes(w) <=> i \in Escapes(Remaining)
      OBVIOUS
    <3>1. i \in 1..Len(text) + 1 - head /\ i \in 1..pos + 1 - head
      BY <1>1, <2>3
    <3>2. \A k \in 1..i : w[k] = Remaining[k]
      <4> TAKE k \in 1..i
      <4>1. k \in 1..pos + 1 - head /\ k \in 1..Len(text) + 1 - head
        BY <1>1, <3>1
      <4> QED BY <1>1, <2>4, <4>1, RemainingAt
    <3>3. Run(Remaining, i) = Run(w, i)
      BY <3>2, SameRun
    <3>4. i \in DOMAIN Remaining /\ i \in DOMAIN w
      BY <1>1, <2>4, <3>1, RemainingAt
    <3> QED BY <3>3, <3>4 DEF Escapes
  <2>6. \A i \in Escapes(w) : i \in Nat /\ i >= 1 /\ i <= pos - head
    <3> TAKE i \in Escapes(w)
    <3>1. i \in 1..pos + 1 - head /\ i \in Nat \ {0} /\ Run(w, i) % 2 = 1
      BY <1>1, <2>4 DEF Escapes
    <3>2. i # pos + 1 - head
      <4> SUFFICES ASSUME i = pos + 1 - head PROVE FALSE
        OBVIOUS
      <4>1. head + i - 1 = pos
        BY <1>1
      <4>2. w[i] = "quote"
        BY <2>3, <2>4, <3>1, <4>1
      <4>3. w[i] # "backslash"
        BY <4>2
      <4> QED BY <3>1, <4>3, NoEscape
    <3> QED BY <1>1, <3>1, <3>2
  <2>7. \A i \in Escapes(Remaining) : i \in Nat /\ i >= 1 /\ (i <= pos - head <=> i < pos - head)
    <3> TAKE i \in Escapes(Remaining)
    <3>1. i \in Nat /\ i >= 1
      BY <1>1, RemainingAt DEF Escapes
    <3> QED BY <1>1, <1>2, <2>3, <3>1, EscapesRead
  <2>8. \A i \in Escapes(Remaining) : i < pos - head =>
          (Passes(head + i) <=> IsCharacter(w, i) \/ IsNegative(w, i))
    <3> SUFFICES ASSUME NEW i \in Escapes(Remaining), i < pos - head
                 PROVE  Passes(head + i) <=> IsCharacter(w, i) \/ IsNegative(w, i)
      OBVIOUS
    <3> QED BY <1>1, <2>3, <2>4, <2>7, CharacterOf
  <2>9. flaw <=> \E i \in Escapes(Remaining) : i < pos - head /\ ~Passes(head + i)
    BY <1>2 DEF EInv, EscapeLoop
  <2> QED BY <2>5, <2>6, <2>7, <2>8, <2>9
<1> QED BY <1>3, <1>4 DEF EInv

\* A quoted form is read on, or ends.
LEMMA QuotedEscapes ==
  ASSUME SInv, SInv', EInv, Quoted
  PROVE  EInv'
<1>1. /\ TypeOK /\ Len(text) \in Nat /\ pos \in Nat /\ pos >= 1 /\ form \in Forms /\ form' \in Forms
      /\ \A p \in Nat : p >= 1 /\ At(p) # EOFch => p + 1 \in 1..Len(text) + 1
  BY NextChar DEF SInv, TypeOK, Forms
<1>2. CASE QuotedEscape
  BY <1>2, EscapeTurn
<1>3. CASE QuotedClose
  BY <1>3, EndEscapes
<1>4. CASE QuotedEOF
  <2>1. mode' = "idle" /\ said' = said \o <<"unterminated">> /\ said \in Seq(EscapeErrors)
    BY <1>4 DEF QuotedEOF, Literal, Return, Say, SInv, LoopInv
  <2>2. Len(said) + 1 \in DOMAIN said' /\ said'[Len(said) + 1] = "unterminated"
    BY <2>1
  <2>3. "unterminated" \in Range(said')
    BY <2>2 DEF Range
  <2> QED BY <1>1, <2>1, <2>3, NoEscapes
<1>5. CASE QuotedChar \/ QuotedDoubled
  <2>1. mode = "quoted" /\ mode' = "quoted" /\ UNCHANGED <<text, head, flaw, form>>
    BY <1>5 DEF QuotedChar, QuotedDoubled, Collect
  <2>2. CASE ~form.escapes
    BY <1>1, <2>1, <2>2, NoEscapes
  <2>3. CASE form.escapes
    <3>1. form.close = "quote" /\ form.close # EOFch /\ form.close # "backslash"
      BY <1>1, <2>3, EscapedForm DEF EOFch
    <3>2. PICK q \in pos + 1..Len(text) + 1 : pos' = q /\ \A k \in pos..q - 1 : At(k) # "backslash"
      <4>1. CASE QuotedChar
        <5>1. pos' = pos + 1 /\ At(pos) # EOFch /\ At(pos) # "backslash"
          BY <2>3, <4>1 DEF QuotedChar, Collect, ch
        <5>2. PICK q \in pos + 1..Len(text) + 1 : q = pos + 1
          BY <1>1, <5>1
        <5>3. \A k \in pos..q - 1 : k = pos
          BY <1>1, <5>2
        <5>4. \A k \in pos..q - 1 : At(k) # "backslash"
          BY <5>1, <5>3
        <5>5. pos' = q
          BY <5>1, <5>2
        <5> QED BY <5>2, <5>4, <5>5
      <4>2. CASE QuotedDoubled
        <5>1. pos' = pos + 2 /\ At(pos) = form.close /\ At(pos + 1) = form.close
          BY <4>2 DEF QuotedDoubled, Collect, ch
        <5>2. PICK q \in pos + 1..Len(text) + 1 : q = pos + 2
          <6>1. (pos + 1) + 1 \in 1..Len(text) + 1 /\ (pos + 1) + 1 = pos + 2
            BY <1>1, <3>1, <5>1
          <6> QED BY <1>1, <6>1
        <5>3. \A k \in pos..q - 1 : k = pos \/ k = pos + 1
          BY <1>1, <5>2
        <5>4. \A k \in pos..q - 1 : At(k) # "backslash"
          BY <3>1, <5>1, <5>3
        <5>5. pos' = q
          BY <5>1, <5>2
        <5> QED BY <5>2, <5>4, <5>5
      <4> QED BY <1>5, <4>1, <4>2
    <3> QED BY <2>1, <2>3, <3>2, TurnEscapes
  <2> QED BY <2>2, <2>3
<1> QED BY <1>2, <1>3, <1>4, <1>5 DEF Quoted
-----------------------------------------------------------------------------
\* Every step keeps what is said of the escapes.
LEMMA NextEInv ==
  ASSUME SInv, SInv', EInv, [Next]_vars
  PROVE  EInv'
<1>1. CASE UNCHANGED vars
  <2>1. UNCHANGED <<text, pos, mode, form, flaw, tok, lit, bad, kind, head, said>>
    BY <1>1 DEF vars, token, work
  <2>2. EscapeLoop'
    <3>1. UNCHANGED <<Remaining, At(pos)>>
      BY <2>1 DEF Remaining, Text, At
    <3>2. \A q : Passes(q)' <=> Passes(q)
      BY <2>1 DEF Passes, Hex, At
    <3> QED BY <2>1, <3>1, <3>2 DEF EInv, EscapeLoop
  <2>3. EscapesAreChecked'
    <3>1. UNCHANGED <<IsQuoted, Consumed>>
      BY <2>1 DEF IsQuoted, HasToken, Consumed, Text, At
    <3> QED BY <2>1, <3>1 DEF EInv, EscapesAreChecked
  <2> QED BY <2>2, <2>3 DEF EInv
<1>2. CASE Named \/ Quoted
  BY <1>2, NamedEscapes, QuotedEscapes
<1>3. CASE Call \/ Skip \/ Comment \/ Fixed \/ Numeric \/ Dollar
  <2>1. form' \in Forms
    BY DEF SInv, TypeOK, Forms
  <2> QED BY <1>3, <2>1, OtherTokens, DollarTokens, NoEscapes
<1> QED BY <1>1, <1>2, <1>3 DEF Next, Step

\* An E'...' string that comes to its closing quote is Bad only if one of its escapes is
\* not that of a character, and is not Bad only if each of them is that of a character or
\* a \U whose number is negative in 32 bits, which the test of scanUnicodeEscape lets
\* pass: no flaw that unescapeChar finds is lost before scanExtString returns, whatever
\* comes before and after it, and none is found in the escape of a character.
THEOREM SpecEscapesAreChecked == Spec => []EscapesAreChecked
<1>1. Init => EInv
  BY DEF Init, EInv, EscapeLoop, EscapesAreChecked, IsQuoted, HasToken
<1>2. SInv /\ SInv' /\ EInv /\ [Next]_vars => EInv'
  BY NextEInv
<1>3. EInv => EscapesAreChecked
  BY DEF EInv
<1> QED BY <1>1, <1>2, <1>3, SpecSInv, PTL DEF Spec
=============================================================================
