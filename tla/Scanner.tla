------------------------------- MODULE Scanner -------------------------------
(***************************************************************************)
(* scanner/scanner.go and scan_*.go: one call of Next turns the characters *)
(* that nextch delivers into a token.  The text is a sequence of           *)
(* characters (what a RuneStream delivers); s.ch is the one at pos, and    *)
(* nextch is pos + 1.  A position stands for the line and column of its    *)
(* character.  Loops that only skip over a class of characters are one     *)
(* step to RunEnd; loops that decide at every character take one step for  *)
(* each turn:                                                              *)
(*   mode = "idle"    no call of Next is active                            *)
(*   mode = "redo"    at the label redo of Next                            *)
(*   mode = "block"   in skipBlockComment                                  *)
(*   mode = "quoted"  in one of the seven loops over a quoted form         *)
(*   mode = "dollar"  in the loop of scanDollarString                      *)
(***************************************************************************)
EXTENDS Lexis, FiniteSetsExt

CONSTANTS
  Texts,        \* the texts to scan
  Keywords,     \* the keyword table of keywords.go, as sequences
  MaxOpLen      \* NAMEDATALEN: an operator of this length is too long

ASSUME TextsAssumption == Texts \subseteq Seq(Char)
ASSUME KeywordsAssumption == Keywords \subseteq Seq(IdentCont)
ASSUME MaxOpLenAssumption == MaxOpLen \in Nat \ {0}

VARIABLES
  text, pos,
  mode,
  form,            \* the quoted form being scanned
  depth,           \* how deeply the comment being skipped is nested
  delim,           \* the delimiter of the dollar-quoted string being scanned
  buf,             \* the strings.Builder of the loop
  flaw,            \* ~ok: a flaw was found in the literal being scanned
  tok, lit, bad, kind, tokpos, pendingDotDot,   \* the fields of Scanner
  head,            \* history: where the token's first character is
  from,            \* history: where the latest call of Next began
  said             \* history: errors reported since the token began

token == <<tok, lit, bad, kind>>
work  == <<form, depth, delim, buf, flaw>>
vars  == <<text, pos, mode, work, token, tokpos, pendingDotDot, head, from, said>>

At(p) == IF p \in 1..Len(text) THEN text[p] ELSE EOFch
ch == At(pos)
Text(i, j) == SubSeq(text, i, j)

\* Where the run of characters of S that starts at p ends.
RunEnd(p, S) ==
  CHOOSE q \in p..Len(text) + 1 :
    At(q) \notin S /\ \A i \in p..q - 1 : At(i) \in S

\* nextch stays at the end of the text.
After(p) == IF p <= Len(text) THEN p + 1 ELSE p

\* The literals set every field; all other tokens leave Bad and Kind alone.
Literal(t, l, isBad, k) == tok' = t /\ lit' = l /\ bad' = isBad /\ kind' = k
Plain(t, l) == tok' = t /\ lit' = l /\ UNCHANGED <<bad, kind>>

Say(errors) == said' = said \o errors

\* Next returns, having read the text up to p.
Return(p) ==
  /\ pos' = p /\ mode' = "idle"
  /\ UNCHANGED <<text, work, from>>

\* s.Line, s.Col = s.pos(); s.start()
Begins == tokpos' = pos /\ head' = pos

\* A branch of Next that finds the token t with text l and returns at p.
Simple(t, l, p) ==
  /\ Begins /\ Plain(t, l) /\ said' = <<>>
  /\ Return(p) /\ UNCHANGED pendingDotDot
-----------------------------------------------------------------------------
Init ==
  /\ text \in Texts /\ pos = 1 /\ mode = "idle"
  /\ form = StdString /\ depth = 0 /\ delim = <<>> /\ buf = <<>> /\ flaw = FALSE
  /\ tok = "none" /\ lit = <<>> /\ bad = FALSE /\ kind = "IntLit"
  /\ tokpos = 0 /\ pendingDotDot = FALSE
  /\ head = 1 /\ from = 1 /\ said = <<>>

CallNext ==
  /\ mode = "idle" /\ ~pendingDotDot
  /\ mode' = "redo" /\ from' = pos /\ said' = <<>>
  /\ UNCHANGED <<text, pos, work, token, tokpos, pendingDotDot, head>>

\* Fault: the flag is not reset.
PendingDotDotAgain ==
  /\ mode = "idle" /\ pendingDotDot
  /\ Plain("DOT_DOT", <<"dot", "dot">>)
  /\ Begins /\ pos' = After(pos) /\ from' = pos /\ said' = <<>>
  /\ UNCHANGED <<text, mode, work, pendingDotDot>>

PendingDotDot ==
  /\ mode = "idle" /\ pendingDotDot
  /\ pendingDotDot' = FALSE
  /\ Plain("DOT_DOT", <<"dot", "dot">>)
  /\ Begins /\ pos' = After(pos) /\ from' = pos /\ said' = <<>>
  /\ UNCHANGED <<text, mode, work>>
-----------------------------------------------------------------------------
\* What Next skips before a token.
Skips(p) ==
  /\ pos' = p
  /\ UNCHANGED <<text, mode, work, token, tokpos, pendingDotDot, head, from, said>>

SkipSpace == mode = "redo" /\ ch \in Space /\ Skips(RunEnd(pos, Space))

SkipLineComment ==
  /\ mode = "redo" /\ ch = "minus" /\ At(pos + 1) = "minus"
  /\ Skips(RunEnd(pos + 2, Char \ {"nl"}))

OpenBlockComment ==
  /\ mode = "redo" /\ ch = "slash" /\ At(pos + 1) = "star"
  /\ pos' = pos + 2 /\ mode' = "block" /\ depth' = 1
  /\ UNCHANGED <<text, form, delim, buf, flaw, token, tokpos, pendingDotDot, head,
                 from, said>>

\* Fault: the loop does not look for the end of the text.
BlockCommentPastEOF ==
  /\ mode = "block"
  /\ LET opens  == ch = "slash" /\ At(pos + 1) = "star"
         closes == ch = "star" /\ At(pos + 1) = "slash"
     IN  /\ pos' = IF opens \/ closes THEN pos + 2 ELSE pos + 1
         /\ depth' = IF opens THEN depth + 1 ELSE IF closes THEN depth - 1 ELSE depth
         /\ mode' = IF depth' = 0 THEN "redo" ELSE "block"
  /\ UNCHANGED <<text, form, delim, buf, flaw, token, tokpos, pendingDotDot, head,
                 from, said>>

BlockComment ==
  /\ mode = "block" /\ ch # EOFch
  /\ LET opens  == ch = "slash" /\ At(pos + 1) = "star"
         closes == ch = "star" /\ At(pos + 1) = "slash"
     IN  /\ pos' = IF opens \/ closes THEN pos + 2 ELSE pos + 1
         /\ depth' = IF opens THEN depth + 1 ELSE IF closes THEN depth - 1 ELSE depth
         /\ mode' = IF depth' = 0 THEN "redo" ELSE "block"
  /\ UNCHANGED <<text, form, delim, buf, flaw, token, tokpos, pendingDotDot, head,
                 from, said>>

\* Fault: at the end of the text the loop calls nextch for ever.
BlockCommentWaits == mode = "block" /\ ch = EOFch /\ UNCHANGED vars

BlockCommentEOF ==
  /\ mode = "block" /\ ch = EOFch
  /\ mode' = "redo" /\ Say(<<"unterminated_comment">>)
  /\ UNCHANGED <<text, pos, work, token, tokpos, pendingDotDot, head, from>>

SkipInvalid ==
  /\ mode = "redo" /\ ch \in {"bad", "backslash"}
  /\ Say(<<"invalid_character">>) /\ pos' = pos + 1
  /\ UNCHANGED <<text, mode, work, token, tokpos, pendingDotDot, head, from>>

EOFToken ==
  /\ mode = "redo" /\ ch = EOFch
  /\ Begins /\ Plain("EOF", <<>>) /\ said' = <<>>
  /\ Return(pos) /\ UNCHANGED pendingDotDot
-----------------------------------------------------------------------------
\* finishOperator: what is left of the op characters w that were read.
CommentsIn(w) == {i \in 2..Len(w) - 1 :
  <<w[i], w[i + 1]>> \in {<<"slash", "star">>, <<"minus", "minus">>}}

Truncated(w) ==
  LET ends == {Len(w)} \cup {i - 1 : i \in CommentsIn(w)}
  IN  SubSeq(w, 1, Min(ends))

\* Fault: only one sign is taken off.
StrippedOnce(w) ==
  IF \/ \E i \in 1..Len(w) - 1 : w[i] \in NonSQLOp
     \/ Len(w) = 1 \/ w[Len(w)] \notin {"plus", "minus"}
  THEN w ELSE SubSeq(w, 1, Len(w) - 1)

Stripped(w) ==
  LET kept == {1} \cup {i \in 1..Len(w) : w[i] \notin {"plus", "minus"}}
  IN  IF \E i \in 1..Len(w) - 1 : w[i] \in NonSQLOp THEN w ELSE SubSeq(w, 1, Max(kept))

OperatorText(w) == Stripped(Truncated(w))

OperatorToken(op) ==
  IF Len(op) = 1 /\ op[1] \in Self THEN op[1]
  ELSE IF \E t \in DOMAIN TwoCharToken : TwoCharToken[t] = op
  THEN CHOOSE t \in DOMAIN TwoCharToken : TwoCharToken[t] = op
  ELSE "Op"

\* Operators and self tokens, whose characters are read as far as they can be
\* part of an operator.  The two that may start a comment are looked at before
\* the position is recorded, and so the position is one too far.
Operator ==
  /\ mode = "redo" /\ ch \in OpChar
  /\ ch = "minus" => At(pos + 1) # "minus"
  /\ ch = "slash" => At(pos + 1) # "star"
  /\ ch = "eq" => At(pos + 1) # "gt"
  /\ LET q == RunEnd(pos, OpChar)
     IN  \E op \in {OperatorText(Text(pos, q - 1))} :
           LET t == OperatorToken(op)
           IN  /\ Plain(t, op)
               /\ said' = IF t = "Op" /\ q > pos + 1 /\ Len(op) >= MaxOpLen
                          THEN <<"operator_too_long">> ELSE <<>>
               /\ Return(q)
  /\ tokpos' = IF ch \in {"minus", "slash"} THEN pos + 1 ELSE pos
  /\ head' = pos /\ UNCHANGED pendingDotDot

EqualsGreater ==
  /\ mode = "redo" /\ ch = "eq" /\ At(pos + 1) = "gt"
  /\ Simple("EQUALS_GREATER", <<"eq", "gt">>, pos + 2)

\* Fault: the character is not read.
SelfTokenStays ==
  /\ mode = "redo" /\ ch \in Self \ (OpChar \cup {"dot", "colon"})
  /\ Simple(ch, <<ch>>, pos)

SelfToken ==
  /\ mode = "redo" /\ ch \in Self \ (OpChar \cup {"dot", "colon"})
  /\ Simple(ch, <<ch>>, pos + 1)

Colon ==
  /\ mode = "redo" /\ ch = "colon"
  /\ LET second == At(pos + 1)
         both == <<"colon", second>>
     IN  \/ second = "colon" /\ Simple("TYPECAST", both, pos + 2)
         \/ second = "eq" /\ Simple("COLON_EQUALS", both, pos + 2)
         \/ second \notin {"colon", "eq"} /\ Simple("colon", <<"colon">>, pos + 1)

Dot ==
  /\ mode = "redo" /\ ch = "dot" /\ At(pos + 1) \notin Digit
  /\ \/ At(pos + 1) = "dot" /\ Simple("DOT_DOT", <<"dot", "dot">>, pos + 2)
     \/ At(pos + 1) # "dot" /\ Simple("dot", <<"dot">>, pos + 1)
-----------------------------------------------------------------------------
\* Fault: what follows a number is not looked at.
JunkIgnored(p) == p

\* checkNumericJunk: an identifier that follows a number is read over.
Junk(p) == IF At(p) \in IdentStart THEN RunEnd(p, IdentCont) ELSE p

\* A number that was read from pos to p, where junk may follow.
Number(t, k, p, errors) ==
  LET q == Junk(p)
      all == errors \o (IF q > p THEN <<"trailing_junk">> ELSE <<>>)
  IN  /\ Begins /\ Literal(t, Text(pos, p - 1), all # <<>>, k) /\ said' = all
      /\ Return(q) /\ UNCHANGED pendingDotDot

RadixNumber ==
  /\ mode = "redo" /\ ch = "0" /\ At(pos + 1) \in {"x", "o", "b"}
  /\ LET digits == CASE At(pos + 1) = "x" -> HexDig
                     [] At(pos + 1) = "o" -> OctDig
                     [] At(pos + 1) = "b" -> {"0", "1"}
         q == RunEnd(pos + 2, digits \cup {"underscore"})
     IN  Number("ICONST", "IntLit", q,
                IF q = pos + 2 THEN <<"invalid_integer">> ELSE <<>>)

DecimalNumber ==
  /\ mode = "redo"
  /\ ch \in Digit \/ (ch = "dot" /\ At(pos + 1) \in Digit)
  /\ ~(ch = "0" /\ At(pos + 1) \in {"x", "o", "b"})
  /\ LET digits == Digit \cup {"underscore"}
         whole  == IF ch = "dot" THEN pos ELSE RunEnd(pos, digits)
         point  == At(whole) = "dot"
         p      == IF point THEN RunEnd(whole + 1, digits) ELSE whole
         signed == IF At(p + 1) \in {"plus", "minus"} THEN p + 2 ELSE p + 1
     IN  \/ /\ point /\ ch # "dot" /\ At(whole + 1) = "dot"
            /\ Begins /\ Literal("ICONST", Text(pos, whole - 1), FALSE, "IntLit")
            /\ pendingDotDot' = TRUE /\ said' = <<>>
            /\ Return(whole + 1)
         \/ /\ ~(point /\ ch # "dot" /\ At(whole + 1) = "dot")
            /\ \/ At(p) = "e" /\ At(signed) \in Digit
                  /\ Number("FCONST", "FloatLit", RunEnd(signed, digits), <<>>)
               \/ At(p) = "e" /\ At(signed) \notin Digit
                  /\ Number("FCONST", "FloatLit", signed, <<"trailing_junk">>)
               \/ At(p) # "e" /\ point /\ Number("FCONST", "FloatLit", p, <<>>)
               \/ At(p) # "e" /\ ~point /\ Number("ICONST", "IntLit", p, <<>>)

Param ==
  /\ mode = "redo" /\ ch = "dollar" /\ At(pos + 1) \in Digit
  /\ LET p == RunEnd(pos + 1, Digit)
         q == Junk(p)
     IN  /\ Begins /\ tok' = "PARAM" /\ lit' = Text(pos, p - 1) /\ bad' = (q > p)
         /\ said' = IF q > p THEN <<"trailing_junk">> ELSE <<>>
         /\ Return(q)
  /\ UNCHANGED <<kind, pendingDotDot>>
-----------------------------------------------------------------------------
\* returnIdent
Word(w) ==
  Plain(IF ToLower(w) \in Keywords THEN "KEYWORD" ELSE "IDENT", ToLower(w))

\* A quoted form begins; its loop starts at p.
Opens(f, p) ==
  /\ Begins /\ said' = <<>>
  /\ mode' = "quoted" /\ form' = f /\ buf' = f.prefix /\ flaw' = FALSE /\ pos' = p
  /\ UNCHANGED <<text, depth, delim, token, pendingDotDot, from>>

Ident ==
  /\ mode = "redo" /\ ch \in IdentStart
  /\ ~(ch \in {"b", "x", "e", "n"} /\ At(pos + 1) = "quote")
  /\ ~(Lower(ch) = "u" /\ At(pos + 1) = "amp")
  /\ LET q == RunEnd(pos + 1, IdentCont)
     IN  Begins /\ Word(Text(pos, q - 1)) /\ said' = <<>> /\ Return(q)
  /\ UNCHANGED pendingDotDot

\* The loop for N'...' starts at the opening quote itself.
PrefixedString ==
  /\ mode = "redo" /\ At(pos + 1) = "quote"
  /\ \/ ch = "b" /\ Opens(BitString, pos + 2)
     \/ ch = "x" /\ Opens(HexString, pos + 2)
     \/ ch = "e" /\ Opens(ExtString, pos + 2)
     \/ ch = "n" /\ Opens(StdString, pos + 1)

UnicodePrefixed ==
  /\ mode = "redo" /\ Lower(ch) = "u" /\ At(pos + 1) = "amp"
  /\ \/ At(pos + 2) = "quote" /\ Opens(UnicodeString, pos + 3)
     \/ At(pos + 2) = "dquote" /\ Opens(UnicodeIdent, pos + 3)
     \/ /\ At(pos + 2) \notin {"quote", "dquote"}
        /\ Begins /\ Word(<<"u">>) /\ said' = <<>> /\ Return(pos + 2)
        /\ UNCHANGED pendingDotDot

PlainQuote ==
  /\ mode = "redo"
  /\ \/ ch = "quote" /\ Opens(StdString, pos + 1)
     \/ ch = "dquote" /\ Opens(DelimitedIdent, pos + 1)

\* One turn of a loop that adds w to the builder and goes on at p.
Collect(w, p) ==
  /\ buf' = buf \o w /\ pos' = p
  /\ UNCHANGED <<text, mode, form, depth, delim, token, tokpos, pendingDotDot,
                 head, from>>

QuotedChar ==
  /\ mode = "quoted" /\ ch \notin {EOFch, form.close}
  /\ ~(form.escapes /\ ch = "backslash")
  /\ Collect(<<ch>>, pos + 1) /\ UNCHANGED <<flaw, said>>

\* Fault: both of the quotes are kept.
QuotedBoth ==
  /\ mode = "quoted" /\ ch = form.close /\ At(pos + 1) = form.close
  /\ Collect(<<ch, ch>>, pos + 2) /\ UNCHANGED <<flaw, said>>

QuotedDoubled ==
  /\ mode = "quoted" /\ ch = form.close /\ At(pos + 1) = form.close
  /\ Collect(<<ch>>, pos + 2) /\ UNCHANGED <<flaw, said>>

\* The number of at most four digits: every digit multiplies what is before it.
Value(w, base) ==
  LET d(k) == IF k <= Len(w) THEN HexVal[w[Len(w) + 1 - k]] ELSE 0
  IN  ((d(4) * base + d(3)) * base + d(2)) * base + d(1)

\* A rune has 32 bits, what eight digits fill: the high and the low half.
RuneError == <<0, 65533>>
Negative(rune) == rune[1] >= 32768
HexRune(w) ==
  <<Value(SubSeq(w, 1, Len(w) - 4), 16), Value(SubSeq(w, Len(w) - 3, Len(w)), 16)>>

\* Fault: of the surrogates only the high ones are refused.
NoHighSurrogate(rune) ==
  \/ ~Negative(rune) /\ rune[1] > 16
  \/ rune[1] = 0 /\ rune[2] \in 55296..56319

\* A value above 0x10FFFF or a surrogate; the comparison is with a sign.
NoCharacter(rune) ==
  \/ ~Negative(rune) /\ rune[1] > 16
  \/ rune[1] = 0 /\ rune[2] \in 55296..57343

\* unescapeChar: what the escape at p adds, the errors in it, where it ends.
\* The character that a numeric escape stands for is "escaped"; RuneError is what
\* failure returns too, and is not added.
Escape(p) ==
  LET c == At(p)
      upTo(S, from0, n) == LET q == RunEnd(from0, S) IN IF q < from0 + n THEN q ELSE from0 + n
      result(w, errors, q) == [add |-> w, errors |-> errors, next |-> q]
      octal  == Text(p, upTo(OctDig, p, 3) - 1)
      unicode(n) ==
        LET end  == upTo(HexDig, p + 1, n)
            rune == HexRune(Text(p + 1, end - 1))
        IN  CASE end < p + 1 + n -> result(<<>>, <<"invalid_Unicode_escape">>, end)
              [] end = p + 1 + n /\ NoCharacter(rune) ->
                   result(<<>>, <<"invalid_Unicode_escape_value">>, end)
              [] OTHER -> result(IF rune = RuneError THEN <<>> ELSE <<"escaped">>, <<>>, end)
  IN  CASE c \in {"b", "f", "n"} -> result(<<"control">>, <<>>, p + 1)
        [] c \in OctDig ->
             IF Value(octal, 8) > 255
             THEN result(<<>>, <<"octal_escape_value">>, p + Len(octal))
             ELSE result(<<"escaped">>, <<>>, p + Len(octal))
        [] c = "x" ->
             IF At(p + 1) \in HexDig
             THEN result(<<"escaped">>, <<>>, upTo(HexDig, p + 1, 2))
             ELSE result(<<>>, <<"invalid_hexadecimal_escape">>, p + 1)
        [] c = "u" -> unicode(4)
        [] c = "U" -> unicode(8)
        [] c = EOFch -> result(<<>>, <<>>, p)
        [] OTHER -> result(<<c>>, <<>>, p + 1)

QuotedEscape ==
  /\ mode = "quoted" /\ form.escapes /\ ch = "backslash"
  /\ \E x \in {Escape(pos + 1)} :
       Collect(x.add, x.next) /\ Say(x.errors) /\ flaw' = (flaw \/ x.errors # <<>>)

\* Fault: an empty identifier is reported, but ok stays true.
QuotedCloseOk ==
  /\ mode = "quoted" /\ ch = form.close /\ At(pos + 1) # form.close
  /\ Literal(form.tok, buf, flaw, form.kind)
  /\ Say(IF ~form.mayBeEmpty /\ buf = <<>> THEN <<"zero_length_identifier">> ELSE <<>>)
  /\ Return(pos + 1) /\ UNCHANGED <<tokpos, pendingDotDot, head>>

QuotedClose ==
  /\ mode = "quoted" /\ ch = form.close /\ At(pos + 1) # form.close
  /\ LET empty == ~form.mayBeEmpty /\ buf = <<>>
     IN  /\ Literal(form.tok, buf, flaw \/ empty, form.kind)
         /\ Say(IF empty THEN <<"zero_length_identifier">> ELSE <<>>)
  /\ Return(pos + 1) /\ UNCHANGED <<tokpos, pendingDotDot, head>>

QuotedEOF ==
  /\ mode = "quoted" /\ ch = EOFch
  /\ Literal(form.tok, buf, TRUE, form.kind) /\ Say(<<"unterminated">>)
  /\ Return(pos) /\ UNCHANGED <<tokpos, pendingDotDot, head>>
-----------------------------------------------------------------------------
BareDollar ==
  /\ mode = "redo" /\ ch = "dollar"
  /\ At(pos + 1) \notin Digit \cup IdentStart \cup {"dollar"}
  /\ Simple("dollar", <<"dollar">>, pos + 1)

\* scanDollarString up to the end of the opening delimiter; a tag that no "$"
\* follows is read and dropped.
OpenDollar ==
  /\ mode = "redo" /\ ch = "dollar" /\ At(pos + 1) \in IdentStart \cup {"dollar"}
  /\ LET t == RunEnd(pos + 1, DolqIdent)
     IN  \/ At(t) # "dollar" /\ Simple("dollar", <<"dollar">>, t)
         \/ /\ At(t) = "dollar"
            /\ Begins /\ said' = <<>>
            /\ mode' = "dollar" /\ delim' = Text(pos, t) /\ buf' = <<>> /\ pos' = t + 1
            /\ UNCHANGED <<text, form, depth, flaw, token, pendingDotDot, from>>

DollarChar ==
  /\ mode = "dollar" /\ ch \notin {"dollar", EOFch}
  /\ Collect(<<ch>>, pos + 1) /\ UNCHANGED <<flaw, said>>

\* Fault: any tag closes the string.
DollarAnyTag ==
  /\ mode = "dollar" /\ ch = "dollar"
  /\ LET t == RunEnd(pos + 1, DolqIdent)
     IN  \/ At(t) # "dollar" /\ Collect(Text(pos, t - 1), t) /\ UNCHANGED <<flaw, said>>
         \/ /\ At(t) = "dollar"
            /\ Literal("SCONST", buf, FALSE, "DollarLit") /\ Return(t + 1)
            /\ UNCHANGED <<tokpos, pendingDotDot, head, said>>

\* A "$" in the body: the characters up to the next "$" may be the delimiter.
DollarCandidate ==
  /\ mode = "dollar" /\ ch = "dollar"
  /\ LET t == RunEnd(pos + 1, DolqIdent)
     IN  \/ At(t) # "dollar" /\ Collect(Text(pos, t - 1), t) /\ UNCHANGED <<flaw, said>>
         \/ /\ At(t) = "dollar" /\ Text(pos, t) # delim
            /\ Collect(Text(pos, t), t + 1) /\ UNCHANGED <<flaw, said>>
         \/ /\ At(t) = "dollar" /\ Text(pos, t) = delim
            /\ Literal("SCONST", buf, FALSE, "DollarLit") /\ Return(t + 1)
            /\ UNCHANGED <<tokpos, pendingDotDot, head, said>>

DollarEOF ==
  /\ mode = "dollar" /\ ch = EOFch
  /\ Literal("SCONST", buf, TRUE, "DollarLit") /\ Say(<<"unterminated">>)
  /\ Return(pos) /\ UNCHANGED <<tokpos, pendingDotDot, head>>
-----------------------------------------------------------------------------
Skip == SkipSpace \/ SkipLineComment \/ OpenBlockComment \/ SkipInvalid
Comment == BlockComment \/ BlockCommentEOF
Fixed == EOFToken \/ Operator \/ EqualsGreater \/ SelfToken \/ Colon \/ Dot \/ BareDollar
Numeric == RadixNumber \/ DecimalNumber \/ Param
Named == Ident \/ PrefixedString \/ UnicodePrefixed \/ PlainQuote \/ OpenDollar
Quoted == QuotedChar \/ QuotedDoubled \/ QuotedEscape \/ QuotedClose \/ QuotedEOF
Dollar == DollarChar \/ DollarCandidate \/ DollarEOF

Step == Skip \/ Comment \/ Fixed \/ Numeric \/ Named \/ Quoted \/ Dollar
Call == CallNext \/ PendingDotDot

Next == Call \/ Step
Spec == Init /\ [][Next]_vars
FairSpec == Spec /\ WF_vars(Step) /\ WF_vars(Call)
=============================================================================
