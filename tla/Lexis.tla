-------------------------------- MODULE Lexis --------------------------------
(***************************************************************************)
(* The characters, tokens and character classes of scanner/scanner.go.     *)
(* A character is named; one name may stand for a class whose members the  *)
(* scanner treats alike.  "A" and "U" are capitals, "a" and "u" their      *)
(* small forms; the other letters stand for both.                          *)
(***************************************************************************)
EXTENDS Naturals, Sequences

EOFch == "eof"                      \* s.ch < 0

Space == {"sp", "nl"}
OctDig == {"0", "1", "3", "4", "7"}
Digit == OctDig \cup {"8", "9"}
HexDig == Digit \cup {"a", "A", "b", "d", "e", "f"}
IdentStart == {"a", "A", "b", "d", "e", "f", "n", "o", "u", "U", "x", "underscore"}
IdentCont == IdentStart \cup Digit \cup {"dollar"}
DolqIdent == IdentStart \cup Digit
Self == {"comma", "lparen", "dot", "semicolon", "colon", "bar", "plus", "minus",
         "star", "slash", "lt", "gt", "eq"}
NonSQLOp == {"tilde", "bang", "amp", "bar"}
OpChar == NonSQLOp \cup {"plus", "minus", "star", "slash", "lt", "gt", "eq"}

Char == Space \cup IdentCont \cup Self \cup OpChar
          \cup {"quote", "dquote", "backslash", "dollar", "bad"}

Lower(c) == IF c = "A" THEN "a" ELSE IF c = "U" THEN "u" ELSE c
ToLower(w) == [i \in 1..Len(w) |-> Lower(w[i])]

\* hexVal
HexVal == [c \in HexDig |->
  CASE c = "0" -> 0 [] c = "1" -> 1 [] c = "3" -> 3 [] c = "4" -> 4 [] c = "7" -> 7 [] c = "8" -> 8 [] c = "9" -> 9
    [] Lower(c) = "a" -> 10 [] c = "b" -> 11 [] c = "d" -> 13 [] c = "e" -> 14 [] c = "f" -> 15]

\* The operators of two characters that have a token of their own.
TwoCharToken == [RIGHT_ARROW    |-> <<"minus", "gt">>,
                 EQUALS_GREATER |-> <<"eq", "gt">>,
                 GREATER_EQUALS |-> <<"gt", "eq">>,
                 LESS_EQUALS    |-> <<"lt", "eq">>,
                 LESS_GREATER   |-> <<"lt", "gt">>,
                 NOT_EQUALS     |-> <<"bang", "eq">>]

\* The seven quoted forms: the quote that ends them, the token, what stands in
\* Lit before the first character, and whether an empty one is an error.
Form(close, tok, kind, prefix, mayBeEmpty) ==
  [close |-> close, tok |-> tok, kind |-> kind, prefix |-> prefix,
   mayBeEmpty |-> mayBeEmpty, escapes |-> FALSE]

StdString      == Form("quote", "SCONST", "StringLit", <<>>, TRUE)
ExtString      == [StdString EXCEPT !.escapes = TRUE]
UnicodeString  == Form("quote", "USCONST", "UStringLit", <<>>, TRUE)
BitString      == Form("quote", "BCONST", "BitLit", <<"b">>, TRUE)
HexString      == Form("quote", "XCONST", "HexLit", <<"x">>, TRUE)
UnicodeIdent   == Form("dquote", "UIDENT", "UIdentLit", <<>>, FALSE)
DelimitedIdent == Form("dquote", "IDENT", "IdentLit", <<>>, FALSE)
=============================================================================
