---------------------------- MODULE StatementList ----------------------------
(***************************************************************************)
(* What parseStmtList of parser/parser.go promises its caller, with no     *)
(* statement parser in it: the text is cut into turns, each of which takes *)
(* a token at least and ends with a semicolon or with the text.  A turn    *)
(* makes a statement of all its tokens, or errors are reported in it; the  *)
(* one that is returned is the earliest of all.                            *)
(***************************************************************************)
EXTENDS Integers, Sequences

CONSTANT Texts

VARIABLES
  text,     \* the tokens
  at,       \* the first that is in no turn yet
  list,     \* the statements: where each begins and ends
  errors,   \* where the errors are that were reported
  first,    \* where the one is that Parse returns, or 0
  over      \* Parse has returned

vars == <<text, at, list, errors, first, over>>

EOF == Len(text) + 1

\* A turn may come to its end before token next; its last token is where it
\* stood then: the semicolon, or EOF.
MayEndBefore(next) == next = EOF \/ text[next - 1] = "semi"
LastBefore(next) == IF next = EOF THEN EOF ELSE next - 1

Makes(end) == list' = Append(list, [from |-> at, end |-> end])
-----------------------------------------------------------------------------
Init == /\ text \in Texts /\ at = 1 /\ list = <<>>
        /\ errors = {} /\ first = 0 /\ over = FALSE

\* Every token is in the statement but the semicolon after it.
Whole(next) ==
  /\ \E end \in {next - 1, next} :
       /\ end = EOF \/ (text[end] = "semi" /\ next = end + 1)
       /\ Makes(end)
  /\ UNCHANGED <<errors, first>>

\* There may be a statement still, of some of the tokens.
WithErrors(next) ==
  /\ \E new \in SUBSET (at..LastBefore(next)) : new # {} /\ errors' = errors \cup new
  /\ first' \in errors' /\ \A place \in errors' : first' <= place
  /\ UNCHANGED list \/ \E end \in at..LastBefore(next) : Makes(end)

Turn ==
  /\ ~over /\ at # EOF
  /\ \E next \in at + 1..EOF :
       MayEndBefore(next) /\ at' = next /\ (Whole(next) \/ WithErrors(next))
  /\ UNCHANGED <<text, over>>

Finish == ~over /\ at = EOF /\ over' = TRUE /\ UNCHANGED <<text, at, list, errors, first>>

Next == Turn \/ Finish
Spec == Init /\ [][Next]_vars
=============================================================================
