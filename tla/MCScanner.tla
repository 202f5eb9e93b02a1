------------------------------ MODULE MCScanner ------------------------------
EXTENDS ScannerProperties

UpTo(C, n) == UNION {[1..k -> C] : k \in 0..n}

MCKeywords == {<<"a", "b">>, <<"n", "o">>}

OperatorTexts == UpTo({"minus", "plus", "star", "slash", "lt", "eq", "gt", "bar"}, 4)
                   \cup UpTo({"minus", "slash", "tilde", "amp", "nl", "a"}, 4)
NumberTexts == UpTo({"0", "1", "x", "b", "e", "dot", "minus", "underscore"}, 4)
                 \cup UpTo({"0", "9", "dot", "e", "plus", "b", "o"}, 4)
QuoteTexts == UpTo({"quote", "dquote", "backslash", "u", "amp", "a", "x"}, 4)
                \cup {<<w, "quote">> \o t : w \in {"e", "b", "x", "n"},
                        t \in UpTo({"quote", "backslash", "7", "a", "u", "x"}, 4)}
                \cup {<<"u", "amp", q>> \o t : q \in {"quote", "dquote"},
                        t \in UpTo({"quote", "dquote", "a"}, 3)}
                \cup {<<"e", "quote", "backslash", c, "7", "1", "a", "a", "quote">> :
                        c \in {"u", "x", "7", "n"}}
Halves == {<<"d", "7", "f", "f">>, <<"d", "8", "0", "0">>, <<"d", "d", "f", "f">>,
           <<"d", "f", "f", "f">>, <<"e", "0", "0", "0">>, <<"f", "f", "f", "d">>,
           <<"f", "f", "f", "f">>, <<"0", "0", "0", "0">>, <<"0", "0", "1", "0">>,
           <<"0", "0", "1", "1">>, <<"7", "f", "f", "f">>, <<"8", "0", "0", "0">>}
EscapeTexts == {<<"e", "quote">> \o t \o <<"quote">> : t \in
  {<<"backslash", "u">> \o h : h \in Halves}
  \cup {<<"backslash", "U">> \o h \o l : h, l \in Halves}
  \cup {<<"backslash", "backslash", "u">> \o h : h \in Halves}
  \cup {<<"backslash", "U", "0", "0", "0">> \o h : h \in Halves}
  \cup {<<"backslash", "u">> \o g \o <<"backslash", "u">> \o h : g, h \in Halves}
  \cup {<<"backslash">> \o d : d \in UpTo({"0", "3", "4", "7", "8"}, 4)}}
DollarTexts == UpTo({"dollar", "a", "b", "1", "quote"}, 6)
MixedTexts == UpTo({"slash", "star", "nl", "minus", "a", "dot"}, 5)
                \cup UpTo({"A", "b", "n", "o", "dollar", "1", "bad", "colon"}, 3)
                \cup UpTo({"lparen", "comma", "eq", "colon", "bad", "sp", "0"}, 3)
FewTexts == UpTo({"slash", "star", "quote", "dollar", "dot", "1"}, 4)
              \cup {<<"e", "quote", "backslash">>, <<"u", "amp", "dquote">>, <<"bad", "a">>}

AllTexts == OperatorTexts \cup NumberTexts \cup QuoteTexts \cup EscapeTexts \cup DollarTexts
              \cup MixedTexts \cup FewTexts
=============================================================================
