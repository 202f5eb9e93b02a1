------------------------------ MODULE Routines ------------------------------
(***************************************************************************)
(* The instructions of Parser.tla, named after the helpers of parser.go    *)
(* and the Go statements that the parse functions put them in.             *)
(***************************************************************************)
EXTENDS Parser, TLC

\* p.want(t), p.wantKeyword(t), p.wantSelf(t)
Want(t) == [op |-> "want", tok |-> t]

\* switch { case p.gotKeyword(t): ... default: other }, also written as
\* isKeyword and next, and the same in a loop that ends at other tokens
Got(cases, other) == [op |-> "switch", cases |-> cases, other |-> other, again |-> FALSE]
While(cases) == [op |-> "switch", cases |-> cases, other |-> <<>>, again |-> TRUE]
IfGot(t, is) == Got(t :> is, <<>>)
Opt(t) == Got(t :> <<>>, <<>>)

\* switch { case p.isKeyword(t): ... default: other }
At(cases, other) == [op |-> "peek", cases |-> cases, other |-> other]
AtAny(toks, yes) == At([t \in toks |-> yes], <<>>)

\* if _, ok := expr.(*T); ok { yes }
IfMade(field, value, yes) == [op |-> "made", entry |-> <<field, value>>, yes |-> yes]

\* for p.tok != t && p.tok != EOF { body }
Until(t, body) == [op |-> "until", tok |-> t, body |-> body]

Ident(field) == [op |-> "ident", field |-> field]
ColLabel(field) == [op |-> "label", field |-> field]
Integer(field) == [op |-> "int", field |-> field]
Take(field) == [op |-> "take", field |-> field]
Skip == Take("")
Fail == [op |-> "fail"]
Set(field, value) == [op |-> "put", field |-> field, value |-> value]
Mark == [op |-> "mark"]
Unplaced == [op |-> "unplaced"]
Nil == [op |-> "nil"]
InColDefault(value) == [op |-> "default", value |-> value]
UnlessInColDefault(is) == [op |-> "ifdefault", no |-> is]
Clear(fields) == [op |-> "clear", fields |-> fields]
Keep(fields) == [op |-> "keep", fields |-> fields]
Inner(name) == [op |-> "inner", name |-> name]
Call(name) == [op |-> "call", name |-> name]

\* A routine for each token in the domain of f, and the calls of them
ByToken(name, f) ==
  [s \in {name \o t : t \in DOMAIN f} |-> f[CHOOSE t \in DOMAIN f : name \o t = s]]
CallByToken(name, f) == [t \in DOMAIN f |-> <<Call(name \o t)>>]

\* item { ',' item }
ListOf(item) == item \o <<While("comma" :> item)>>

TakeAny(toks, field) == AtAny(toks, <<Take(field)>>)
=============================================================================
