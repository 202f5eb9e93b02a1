-------------------------- MODULE ScannerProperties --------------------------
(***************************************************************************)
(* What the tokens of Scanner.tla must be, stated from the text they were  *)
(* read from and not from the way they were read.                          *)
(***************************************************************************)
EXTENDS Scanner, SequencesExt

HasToken == mode = "idle" /\ tok # "none"
Consumed == Text(head, pos - 1)
LiteralTokens == {"ICONST", "FCONST", "SCONST", "BCONST", "XCONST", "USCONST", "UIDENT", "PARAM"}

\* The types of the variables.
TypeOK ==
  /\ text \in Texts /\ pos \in 1..Len(text) + 1
  /\ mode \in {"idle", "redo", "block", "quoted", "dollar"}
  /\ form \in {StdString, ExtString, UnicodeString, BitString, HexString,
               UnicodeIdent, DelimitedIdent}
  /\ depth \in Nat /\ flaw \in BOOLEAN
  /\ delim \in Seq(Char) /\ {lit, buf} \subseteq Seq(Char \cup {"control", "escaped"})
  /\ bad \in BOOLEAN /\ pendingDotDot \in BOOLEAN
  /\ tokpos \in 0..Len(text) + 1 /\ head \in 1..Len(text) + 1 /\ from \in 1..pos

\* Next goes forward: every token but EOF takes at least one character, none
\* takes one that an earlier token took, and EOF comes at the end only.  The
\* loops of the parser that wait for a token rely on it (Next, lines 90-361).
\* The position of a token is that of its first character or, where Next has
\* already passed it, of the second.
TokensAdvance ==
  HasToken =>
    /\ from <= head /\ head <= pos
    /\ IF tok = "EOF" THEN pos = Len(text) + 1
       ELSE head < pos /\ tokpos \in {head, head + 1}

\* The first n of the op characters w make an operator by the rules of finishOperator's
\* comment (lines 35-36): no comment begins in them after the first of them, and no sign
\* is the last of several of them, unless one before it is none that SQL has.
IsOperator(w, n) ==
  /\ \A i \in 2..n : i < Len(w) =>
       <<w[i], w[i + 1]>> \notin {<<"slash", "star">>, <<"minus", "minus">>}
  /\ \/ n = 1 \/ w[n] \notin {"plus", "minus"}
     \/ \E i \in 1..n - 1 : w[i] \in NonSQLOp

\* Of the op characters that were read finishOperator keeps as many as make an operator
\* and no fewer: it stops at the first comment, takes off every sign it must and none
\* of those it may not (lines 38-60).  What becomes of the rest is not said here.
OperatorsAreLongest ==
  HasToken /\ At(head) \in OpChar =>
    /\ Len(lit) \in 1..Len(Consumed) /\ IsPrefix(lit, Consumed)
    /\ IsOperator(Consumed, Len(lit))
    /\ \A n \in Len(lit) + 1..Len(Consumed) : ~IsOperator(Consumed, n)

\* The token of a literal is marked Bad exactly when an error was reported
\* while it was read (the pairs of errorf and ok = false in scan_*.go).
BadIffReported ==
  HasToken /\ tok \in LiteralTokens => (bad <=> said # <<>>)

\* A number without an error is the text it was read from, and no letter
\* follows it directly; of the dots of "1.." the first has been read.
NumbersAreWhole ==
  HasToken /\ tok \in {"ICONST", "FCONST"} /\ ~bad =>
    /\ Consumed = IF pendingDotDot THEN Append(lit, "dot") ELSE lit
    /\ At(pos) \notin IdentStart

\* While DOT_DOT is owed, the integer it follows is the current token, and ch
\* is the second of the dots (the comment on line 97 of scanner.go).
PendingIsSecondDot ==
  pendingDotDot => ch = "dot" /\ (mode = "idle" => tok = "ICONST" /\ ~bad)

\* The text of a quoted form: its characters with the quote doubled.
Quoting(w, close) ==
  LET image(i) == IF w[i] = close THEN <<close, close>> ELSE <<w[i]>>
  IN  <<close>> \o FlattenSeq([i \in 1..Len(w) |-> image(i)]) \o <<close>>

WithoutPrefix(w) == SubSeq(w, Len(form.prefix) + 1, Len(w))
IsQuoted == HasToken /\ kind = form.kind /\ tok = form.tok /\ At(pos - 1) = form.close

\* A quoted form that ends well is the quoting of the value the token has:
\* doubled quotes are one, the form ends at the first quote that is not
\* doubled, and nothing is lost (the loops of scan_string.go; N'...' aside).
QuotedFormsDecode ==
  IsQuoted /\ ~bad /\ ~form.escapes /\ At(head) # "n" /\ At(head) \notin {"dollar"} =>
    IsSuffix(Quoting(WithoutPrefix(lit), form.close), Consumed)

\* The places where an escape begins: those of the backslashes that no backslash
\* escapes, at which a run of backslashes has an odd length.
Run(w, i) == Cardinality({j \in 1..i : \A k \in j..i : w[k] = "backslash"})
Escapes(w) == {i \in DOMAIN w : Run(w, i) % 2 = 1}

\* After place i come characters of these classes.
Matches(w, i, classes) ==
  \A k \in DOMAIN classes : i + k \in DOMAIN w /\ w[i + k] \in classes[k]

\* The escape at place i is that of a character: \u and \U have their four or
\* eight digits, whose value is no surrogate and at most 10FFFF, \x has a digit, and
\* an octal escape is at most 377.
IsCharacter(w, i) ==
  LET half  == <<HexDig, HexDig, HexDig, HexDig>>
      surrogate == <<{"d"}, HexDig \ OctDig, HexDig, HexDig>>
  IN  CASE w[i + 1] = "u" -> Matches(w, i + 1, half) /\ ~Matches(w, i + 1, surrogate)
        [] w[i + 1] = "U" ->
             /\ Matches(w, i + 1, half) /\ Matches(w, i + 5, half)
             /\ \/ /\ Matches(w, i + 1, <<{"0"}, {"0"}, {"0"}, HexDig>>)
                   /\ ~(Matches(w, i + 4, <<{"0"}>>) /\ Matches(w, i + 5, surrogate))
                \/ Matches(w, i + 1, <<{"0"}, {"0"}, {"1"}, {"0"}>>)
        [] w[i + 1] = "x" -> Matches(w, i + 1, <<HexDig>>)
        [] w[i + 1] \in {"4", "7"} -> ~Matches(w, i + 1, <<OctDig, OctDig>>)
        [] OTHER -> TRUE

\* The escape at place i is a \U of eight digits whose first is 8 or more: its value is
\* far above 10FFFF, but negative in the 32 bits of a rune.
IsNegative(w, i) ==
  LET half == <<HexDig, HexDig, HexDig, HexDig>>
  IN  /\ w[i + 1] = "U" /\ Matches(w, i + 1, half) /\ Matches(w, i + 5, half)
      /\ Matches(w, i + 1, <<HexDig \ OctDig>>)

\* An E'...' string that comes to its closing quote is Bad only if one of its escapes is
\* not that of a character, and is not Bad only if each of them, wherever it stands, is
\* that of a character or is negative.  The digits are looked at here, the number in
\* unescapeChar and scanUnicodeEscape; that these let the negative numbers pass is a
\* fault that is excepted (scan_string.go:151).
EscapesAreChecked ==
  IsQuoted /\ form.escapes /\ "unterminated" \notin Range(said) =>
    IF bad THEN \E i \in Escapes(Consumed) : ~IsCharacter(Consumed, i)
    ELSE \A i \in Escapes(Consumed) : IsCharacter(Consumed, i) \/ IsNegative(Consumed, i)

\* A dollar-quoted string that ends well stands between two copies of its
\* delimiter (scanDollarString).
DollarStringsDecode ==
  HasToken /\ kind = "DollarLit" /\ tok = "SCONST" /\ ~bad =>
    Consumed = delim \o lit \o delim

\* The scan of every text comes to EOF: every loop of the scanner ends, with
\* or without the quote, delimiter or comment end it waits for.
ReachesEOF == <>(HasToken /\ tok = "EOF")
-----------------------------------------------------------------------------
\* scan_operator.go:31: finishOperator does what PostgreSQL does, which reads
\* again what it cuts off an operator; the code does not.
OperatorIsWhole == HasToken /\ At(head) \in OpChar => lit = Consumed
=============================================================================
