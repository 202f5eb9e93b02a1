------------------------------- MODULE RoundTrip -------------------------------
(***************************************************************************)
(* The deparser and the parser together: the parser is given a statement,  *)
(* and after it what the deparser writes for the statement's node.         *)
(***************************************************************************)
EXTENDS Alterations

CONSTANTS Unquoted, Reprefixed
W == INSTANCE Writing
WrittenTexts == W!WrittenTexts
UnwritableTexts == W!UnwritableTexts

\* What the deparser writes for a statement is parsed without an error, into one
\* statement of the same nodes: no clause is lost or moved, and every logical
\* operator keeps its operands (deparse.go, deparse_expr.go, deparse_stmt.go with
\* the parse functions of the same nodes).
RoundTrips ==
  pc = "done" => log = <<>> /\ Len(nodes) = 2 /\ nodes[1].tree = nodes[2].tree
=============================================================================
