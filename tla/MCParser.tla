------------------------------ MODULE MCParser ------------------------------
EXTENDS DocumentedSyntax, MCTokens

\* Statements of one and of two tokens, a name that starts none, a token that
\* the scanner reports, and semicolons anywhere.
ListTexts == UpTo({"semi", "checkpoint", "listen", "x", "2x"}, 5)

\* Every documented statement, and every two of the short ones.
Short == {p.text : p \in {q \in Documented : Len(q.text) <= 2}}
SyntaxTexts == {p.text : p \in Documented} \cup {a \o <<"semi">> \o b : a, b \in Short}

\* Every kind of statement followed by anything at all.
AnyTexts ==
  {<<k>> \o t : k \in DOMAIN Dispatch, t \in UpTo({"x", "lparen", "comma", "semi"}, 3)}
  \cup {<<k>> \o t : k \in {"set", "begin", "reindex", "comment", "revoke", "lock"},
          t \in UpTo({"in", "on", "transaction", "read", "admin", "dot"}, 3)}
  \cup {<<k>> \o t : k \in (DOMAIN FullDispatch \ DOMAIN Dispatch) \cup {"with"},
          t \in UpTo({"x", "lparen", "semi", "select", "from"}, 2)}

\* Anything at all in the place of an expression and after a table
AnyQueries ==
  {<<"select">> \o t : t \in UpTo({"x", "not", "lparen", "comma", "at", "in", "operator",
                                   "array", "case", "semi"}, 3)}
  \cup {<<"select", "x", "from", "x">> \o t :
          t \in UpTo({"x", "left", "join", "natural", "lparen", "for"}, 2)}
  \cup {<<"select", f, "lparen">> \o t : f \in DOMAIN JsonFunction \cup DOMAIN XmlFunction,
          t \in UpTo({"x", "comma", "colon", "null", "rparen", "semi"}, 2)}
  \cup {<<"select", "x", "from">> \o f \o t :
          f \in {<<"xmltable", "lparen">>, <<"xmltable", "lparen", "xmlnamespaces", "lparen">>,
                 <<"json_table", "lparen", "x", "comma", "'s'", "columns", "lparen">>},
          t \in UpTo({"x", "comma", "for", "rparen", "semi"}, 3)}

AllTexts == ListTexts \cup SyntaxTexts \cup AnyTexts \cup AnyQueries
-----------------------------------------------------------------------------
FlawedTexts == {<<"fetch">> \o t : t \in UpTo({"2x", "1", "from", "x"}, 3)}
                 \cup UpTo({"fetch", "2x", "x", "semi"}, 3)
=============================================================================
