------------------------------- MODULE Phrases -------------------------------
(***************************************************************************)
(* How a grammar is written down to compare Parser.tla with: a set of      *)
(* phrases, each a text with the fields of the node it stands for.         *)
(***************************************************************************)
EXTENDS Parser

Phrase(w, f) == [text |-> w, tree |-> f]
Then(A, B) == {Phrase(a.text \o b.text, a.tree \o b.tree) : a \in A, b \in B}
Of(A, B, C) == Then(A, Then(B, C))
Words(w) == {Phrase(w, <<>>)}
Maybe(A) == A \cup Words(<<>>)
Is(field, value) == {Phrase(<<>>, <<<<field, value>>>>)}
Made(type, A) == Then(Is("Node", type), A)
Lit(toks, field) == {Phrase(<<t>>, <<<<field, t>>>>) : t \in toks}
Name(field) == Lit({"x", "y"}, field)
Listed(A) == A \cup Of(A, Words(<<"comma">>), A)
Optional(t) == Maybe(Words(<<t>>))
-----------------------------------------------------------------------------
\* The pieces of the text between semicolons.
IsPiece(j, k) ==
  /\ j = 1 \/ TokenAt(j - 1) = "semi"
  /\ TokenAt(k + 1) \in {"semi", "EOF"}
  /\ \A n \in j..k : text[n] # "semi"
Pieces == {p \in (1..Len(text)) \X (1..Len(text)) : p[1] <= p[2] /\ IsPiece(p[1], p[2])}
Piece(j, k) == SubSeq(text, j, k)

\* A text all of whose pieces are in the grammar is parsed without an error, and
\* each piece into the node that the grammar gives it.
ParsedAs(grammar, texts) ==
  /\ pc = "done"
  /\ \A n \in DOMAIN text : text[n] = "semi" => n > 1 /\ text[n - 1] # "semi"
  /\ \A p \in Pieces : Piece(p[1], p[2]) \in texts
  =>
    /\ log = <<>>
    /\ \A p \in Pieces : \E s \in DOMAIN stmts :
         /\ stmts[s].from = p[1] /\ stmts[s].end = p[2] + 1
         /\ Phrase(Piece(p[1], p[2]), nodes[s].tree) \in grammar
=============================================================================
