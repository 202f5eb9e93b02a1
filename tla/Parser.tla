------------------------------- MODULE Parser -------------------------------
(***************************************************************************)
(* parser/parser.go: the list of statements, the current token, the record *)
(* of errors, and the helpers every statement parser is made of.  A        *)
(* statement parser is a sequence of instructions, one for each call of a  *)
(* helper (Routines.tla), so that a theorem about this module holds        *)
(* whatever the statement parsers do.  A token is named by its text; its   *)
(* index stands for p.pos, which grows from token to token.                *)
(*   pc = "list"  at the head of the loop of parseStmtList                 *)
(*   pc = "stmt"  in a statement parser: todo is what is left to do        *)
(*   pc = "sep"   after parseStmt                                          *)
(*   pc = "skip"  in the loop that skips to the next semicolon             *)
(*   pc = "done"  Parse has returned                                       *)
(***************************************************************************)
EXTENDS Integers, Sequences, FiniteSets

CONSTANTS
  Texts,                   \* the token sequences to parse
  Identifiers, IntConsts, StringConsts,  \* tokens of class IDENT, ICONST, SCONST
  Keywords, Reserved,      \* tokens of class KEYWORD, and the reserved ones
  Rejected,                \* integers that strconv.ParseInt refuses
  Flawed,                  \* tokens in which the scanner finds an error
  Routine                  \* from names of parse functions to instructions

ASSUME TextsAreSequences == \A t \in Texts : t \in Seq(STRING)
ASSUME EOFIsNoToken == \A t \in Texts : \A n \in DOMAIN t : t[n] # "EOF"
\* True of every string; the provers know of a literal only that it is no other.
ASSUME LiteralsAreStrings == {"EOF", "", "0"} \subseteq STRING

VARIABLES
  text, i,          \* the tokens, and which of them is the current one
  pc, todo,
  tree,             \* the fields of the node, in the order they are set
  loc, isNil,       \* s.Pos(), and whether parseStmt returns nil
  inColDefault,     \* the expression is the DEFAULT of a column
  stmts, nodes,     \* the list of RawStmt: where each begins and ends, and the
                    \* position and the fields of its Stmt
  first, errcnt,    \* the position in p.first, or 0; p.errcnt
  log,              \* history: positions errh was called with; -1: the scanner
  rounds            \* history: where each turn of the loop began

token == <<text, i>>
node  == <<tree, loc, isNil, inColDefault>>
errors == <<first, errcnt, log>>
result == <<stmts, nodes>>
vars  == <<token, pc, todo, node, result, errors, rounds>>

EOF == Len(text) + 1
TokenAt(k) == IF k \in 1..Len(text) THEN text[k] ELSE "EOF"
tok == TokenAt(i)
IsWord == tok \in Identifiers \cup Keywords
IsName == tok \in Identifiers \cup (Keywords \ Reserved)
-----------------------------------------------------------------------------
\* Faults: next() goes on at EOF, or never comes to it.
FollowingPastEOF == i + 1
FollowingToLast == IF i + 1 < EOF THEN i + 1 ELSE i

\* next() reads the token after the current one; at EOF it reads EOF again.
Following == IF i < EOF THEN i + 1 ELSE i
ScanErrors(k) == IF TokenAt(k) \in Flawed THEN <<-1>> ELSE <<>>

Consume ==
  /\ i' = Following
  /\ log' = log \o ScanErrors(i')
  /\ UNCHANGED <<text, first, errcnt>>

Stay == UNCHANGED <<token, errors>>

\* Fault: the error kept is the last one.
CountKeepsLast == first' = i /\ errcnt' = errcnt + 1

\* error(), with the token it is about left in place, or passed over.
Count == first' = (IF first = 0 THEN i ELSE first) /\ errcnt' = errcnt + 1
Report == Count /\ log' = Append(log, i) /\ UNCHANGED token
ReportAndConsume ==
  /\ Count
  /\ i' = Following
  /\ log' = Append(log, i) \o ScanErrors(i')
  /\ UNCHANGED text
-----------------------------------------------------------------------------
Init ==
  /\ text \in Texts /\ i = 1
  /\ pc = "list" /\ todo = <<>>
  /\ tree = <<>> /\ loc = 0 /\ isNil = FALSE /\ inColDefault = FALSE
  /\ stmts = <<>> /\ nodes = <<>>
  /\ first = 0 /\ errcnt = 0 /\ log = ScanErrors(1)
  /\ rounds = <<>>

ListEnd ==
  /\ pc = "list" /\ tok = "EOF"
  /\ pc' = "done"
  /\ UNCHANGED <<token, todo, node, result, errors, rounds>>

CallParseStmt ==
  /\ pc = "list" /\ tok # "EOF"
  /\ pc' = "stmt" /\ todo' = Routine["Stmt"]
  /\ tree' = <<>> /\ loc' = i /\ isNil' = FALSE
  /\ rounds' = Append(rounds, i)
  /\ UNCHANGED <<token, result, errors, inColDefault>>

\* Fault: StmtEnd is taken after the semicolon.
ReturnStmtLate ==
  /\ pc = "stmt" /\ todo = <<>>
  /\ pc' = "sep"
  /\ \/ isNil /\ UNCHANGED result
     \/ /\ ~isNil
        /\ stmts' = Append(stmts, [from |-> rounds[Len(rounds)], end |-> Following])
        /\ nodes' = Append(nodes, [loc |-> loc, tree |-> tree])
  /\ UNCHANGED <<token, todo, node, errors, rounds>>

\* parseStmt returns; a statement that is not nil is appended.
ReturnStmt ==
  /\ pc = "stmt" /\ todo = <<>>
  /\ pc' = "sep"
  /\ \/ isNil /\ UNCHANGED result
     \/ /\ ~isNil
        /\ stmts' = Append(stmts, [from |-> rounds[Len(rounds)], end |-> i])
        /\ nodes' = Append(nodes, [loc |-> loc, tree |-> tree])
  /\ UNCHANGED <<token, todo, node, errors, rounds>>

\* Fault: the recovery begins without an error.
SeparatorSilent ==
  /\ pc = "sep"
  /\ \/ tok = "semi" /\ Consume /\ pc' = "list"
     \/ tok = "EOF" /\ Stay /\ pc' = "list"
     \/ tok \notin {"semi", "EOF"} /\ Stay /\ pc' = "skip"
  /\ UNCHANGED <<todo, node, result, rounds>>

Separator ==
  /\ pc = "sep"
  /\ \/ tok = "semi" /\ Consume /\ pc' = "list"
     \/ tok = "EOF" /\ Stay /\ pc' = "list"
     \/ tok \notin {"semi", "EOF"} /\ Report /\ pc' = "skip"
  /\ UNCHANGED <<todo, node, result, rounds>>

\* Fault: the recovery does not end at EOF.
SkipPastEOF ==
  /\ pc = "skip"
  /\ \/ tok = "semi" /\ Consume /\ pc' = "list"
     \/ tok # "semi" /\ Consume /\ UNCHANGED pc
  /\ UNCHANGED <<todo, node, result, rounds>>

\* Fault: the recovery stops before the semicolon.
SkipBeforeSemicolon ==
  /\ pc = "skip"
  /\ \/ tok \in {"semi", "EOF"} /\ Stay /\ pc' = "list"
     \/ tok \notin {"semi", "EOF"} /\ Consume /\ UNCHANGED pc
  /\ UNCHANGED <<todo, node, result, rounds>>

SkipToSemicolon ==
  /\ pc = "skip"
  /\ \/ tok = "semi" /\ Consume /\ pc' = "list"
     \/ tok = "EOF" /\ Stay /\ pc' = "list"
     \/ tok \notin {"semi", "EOF"} /\ Consume /\ UNCHANGED pc
  /\ UNCHANGED <<todo, node, result, rounds>>
-----------------------------------------------------------------------------
\* One instruction of a statement parser.
Doing(op) == pc = "stmt" /\ todo # <<>> /\ Head(todo).op = op
Ins == Head(todo)
Rest == Tail(todo)
Goes(is) == todo' = is /\ UNCHANGED <<pc, result, rounds>>
Put(value) ==
  tree' = Append(tree, <<Ins.field, value>>) /\ UNCHANGED <<loc, isNil, inColDefault>>

\* want, wantKeyword, wantSelf
DoWant ==
  /\ Doing("want") /\ Goes(Rest)
  /\ IF tok = Ins.tok THEN Consume ELSE Report
  /\ UNCHANGED node

\* got, gotKeyword, gotSelf in a condition or a switch, and in a loop
DoSwitch ==
  /\ Doing("switch")
  /\ IF tok \in DOMAIN Ins.cases
     THEN Consume /\ Goes(Ins.cases[tok] \o (IF Ins.again THEN todo ELSE Rest))
     ELSE Stay /\ Goes(Ins.other \o Rest)
  /\ UNCHANGED node

\* isKeyword, isAnyKeyword and comparisons of p.tok
DoPeek ==
  /\ Doing("peek")
  /\ Goes((IF tok \in DOMAIN Ins.cases THEN Ins.cases[tok] ELSE Ins.other) \o Rest)
  /\ Stay /\ UNCHANGED node

\* A test of the type of the node that has just been made
DoIfMade ==
  /\ Doing("made")
  /\ Goes((IF tree # <<>> /\ tree[Len(tree)] = Ins.entry THEN Ins.yes ELSE <<>>) \o Rest)
  /\ Stay /\ UNCHANGED node

\* for p.tok != t && p.tok != EOF
DoUntil ==
  /\ Doing("until")
  /\ Goes(IF tok \in {Ins.tok, "EOF"} THEN Rest ELSE Ins.body \o todo)
  /\ Stay /\ UNCHANGED node

DoIdent ==
  /\ Doing("ident") /\ Goes(Rest)
  /\ IF IsName THEN Consume /\ Put(tok) ELSE ReportAndConsume /\ Put("")

DoColLabel ==
  /\ Doing("label") /\ Goes(Rest)
  /\ IF IsWord THEN Consume /\ Put(tok) ELSE ReportAndConsume /\ Put("")

\* parseInt
DoParseInt ==
  /\ Doing("int") /\ Goes(Rest)
  /\ IF tok \notin IntConsts THEN Report
     ELSE IF tok \in Rejected THEN ReportAndConsume ELSE Consume
  /\ Put(IF tok \in IntConsts \ Rejected THEN tok ELSE "0")

\* p.next(), where the literal of the token may become a field
DoTake ==
  /\ Doing("take") /\ Goes(Rest)
  /\ Consume
  /\ IF Ins.field # "" THEN Put(tok) ELSE UNCHANGED node

\* syntaxError on its own
DoFail ==
  /\ Doing("fail") /\ Goes(Rest)
  /\ Report /\ UNCHANGED node

\* The entries of the tree at the places K, in their order
Entries(K) ==
  LET picked[n \in 0..Len(tree)] ==
        IF n = 0 THEN <<>>
        ELSE IF n \in K THEN Append(picked[n - 1], tree[n]) ELSE picked[n - 1]
  IN  picked[Len(tree)]
PlacesOf(fields) == {k \in DOMAIN tree : tree[k][1] \in fields}

\* An assignment to a field of the node, or an empty one to some that have
\* been set, or to all but some; pos := p.pos, or a node without a position;
\* return nil; an assignment to p.inColDefault.
DoAssign ==
  /\ \/ Doing("put") /\ Put(Ins.value)
     \/ Doing("clear") /\ tree' = Entries(DOMAIN tree \ PlacesOf(Ins.fields))
                       /\ UNCHANGED <<loc, isNil, inColDefault>>
     \/ Doing("keep") /\ tree' = Entries(PlacesOf(Ins.fields))
                      /\ UNCHANGED <<loc, isNil, inColDefault>>
     \/ Doing("mark") /\ loc' = i /\ UNCHANGED <<tree, isNil, inColDefault>>
     \/ Doing("unplaced") /\ loc' = 0 /\ UNCHANGED <<tree, isNil, inColDefault>>
     \/ Doing("nil") /\ isNil' = TRUE /\ UNCHANGED <<tree, loc, inColDefault>>
     \/ Doing("default") /\ inColDefault' = Ins.value /\ UNCHANGED <<tree, loc, isNil>>
  /\ Goes(Rest) /\ Stay

\* if p.inColDefault
DoIfDefault ==
  /\ Doing("ifdefault")
  /\ Goes((IF inColDefault THEN <<>> ELSE Ins.no) \o Rest)
  /\ Stay /\ UNCHANGED node

DoCall ==
  /\ Doing("call") /\ Goes(Routine[Ins.name] \o Rest)
  /\ Stay /\ UNCHANGED node

\* A statement inside the statement has a node of its own, whose position and
\* absence are not those of the statement around it.
DoInner ==
  /\ Doing("inner")
  /\ Goes(Routine[Ins.name] \o <<[op |-> "outer", loc |-> loc]>> \o Rest)
  /\ Stay /\ UNCHANGED node

DoOuter ==
  /\ Doing("outer") /\ Goes(Rest)
  /\ loc' = Ins.loc /\ isNil' = FALSE
  /\ Stay /\ UNCHANGED <<tree, inColDefault>>
-----------------------------------------------------------------------------
\* A statement parser returns nil only after it has reported an error (lines
\* 370-376), and sets inColDefault only to clear it again (parse_ddl.go:553-558).
NilAfterFail(s) ==
  \A k \in DOMAIN s : s[k].op = "nil" => \E j \in 1..k - 1 : s[j].op = "fail"
Assigns(c, value) == c.op = "default" /\ c.value = value
ClearsFlag(s) ==
  \A k \in DOMAIN s : Assigns(s[k], TRUE) => \E j \in k + 1..Len(s) : Assigns(s[j], FALSE)
IsProgram(s, C) == s \in Seq(C) /\ NilAfterFail(s) /\ ClearsFlag(s)

\* What the instructions of a routine are made of: C has those that a routine
\* can come to, each with fields of the right kind.
IsCode(C) ==
  /\ IsProgram(Routine["Stmt"], C)
  /\ \A c \in C :
       /\ c.op # "outer"
       /\ c.op \in {"switch", "peek"} =>
            IsProgram(c.other, C) /\ \A t \in DOMAIN c.cases : IsProgram(c.cases[t], C)
       /\ c.op = "made" => IsProgram(c.yes, C)
       /\ c.op = "until" => IsProgram(c.body, C)
       /\ c.op = "ifdefault" => IsProgram(c.no, C)
       /\ c.op \in {"call", "inner"} => IsProgram(Routine[c.name], C)
       /\ c.op \in {"ident", "label", "int", "take", "put"} => c.field \in STRING
       /\ c.op = "put" => c.value \in STRING
       /\ c.op = "default" => c.value \in BOOLEAN
-----------------------------------------------------------------------------
List == ListEnd \/ CallParseStmt \/ ReturnStmt \/ Separator \/ SkipToSemicolon
Instruction == \/ DoWant \/ DoSwitch \/ DoPeek \/ DoIfMade \/ DoUntil \/ DoIdent \/ DoColLabel
               \/ DoParseInt \/ DoTake \/ DoFail \/ DoAssign \/ DoIfDefault \/ DoCall
               \/ DoInner \/ DoOuter

Next == List \/ Instruction
Spec == Init /\ [][Next]_vars

\* The parser runs on: nothing in it waits.
FairSpec == Spec /\ WF_vars(Next)
-----------------------------------------------------------------------------
\* The types of the variables.
TypeOK ==
  /\ text \in Texts /\ i \in 1..EOF
  /\ pc \in {"list", "stmt", "sep", "skip", "done"}
  /\ loc \in 0..EOF /\ isNil \in BOOLEAN /\ inColDefault \in BOOLEAN
  /\ stmts \in Seq([from : 1..Len(text), end : 1..EOF]) /\ Len(nodes) = Len(stmts)
  /\ nodes \in Seq([loc : 0..EOF, tree : Seq(STRING \X STRING)])
  /\ tree \in Seq(STRING \X STRING)
  /\ first \in 0..EOF /\ errcnt \in Nat
  /\ log \in Seq(-1..EOF) /\ rounds \in Seq(1..Len(text))

\* The statements come in the order of the source and do not overlap: each
\* ends before the next begins, whatever errors occurred and however many
\* tokens their parsers and the recovery passed over (lines 253-275).
StmtsInOrder ==
  /\ \A k \in DOMAIN stmts : stmts[k].from <= stmts[k].end /\ stmts[k].end <= i
  /\ \A k, m \in DOMAIN stmts : k < m => stmts[k].end <= stmts[m].from

\* Every turn of the loop over statements takes a token, even when a statement
\* parser takes none: the list cannot loop for ever on a token that no
\* statement starts with (lines 255-273).
TurnsConsume ==
  /\ \A k, m \in DOMAIN rounds : k < m => rounds[k] < rounds[m]
  /\ rounds # <<>> /\ pc = "list" => rounds[Len(rounds)] < i

\* The error Parse returns is the first that the parser reported, and errcnt
\* counts them all; errh hears of them in the order of the source, between
\* those of the scanner (error, lines 66-75).
ErrorsAreCounted ==
  LET parser == {n \in DOMAIN log : log[n] # -1}
  IN  /\ errcnt = Cardinality(parser)
      /\ \A m, n \in parser : m < n => log[m] <= log[n]
      /\ IF parser = {} THEN first = 0
         ELSE \E n \in parser : first = log[n] /\ \A m \in parser : n <= m

\* Where a turn of the loop ended.
LastOf(k) == IF k < Len(rounds) THEN rounds[k + 1] - 1 ELSE i - 1

\* No token is lost without a word: a turn of the loop that reported no error
\* made a statement of all its tokens but the semicolon that ends it (lines
\* 255-273 and the calls of next in every statement parser).
NothingIsLost ==
  pc \in {"list", "done"} =>
    \A k \in DOMAIN rounds :
      \/ \E n \in DOMAIN log : log[n] \in rounds[k]..(IF k < Len(rounds) THEN LastOf(k) ELSE i)
      \/ \E s \in DOMAIN stmts :
           /\ stmts[s].from = rounds[k]
           /\ LastOf(k) = IF TokenAt(stmts[s].end) = "semi" THEN stmts[s].end
                          ELSE stmts[s].end - 1

\* What a caller can see: nothing of a turn that is not over, neither its
\* statement nor its errors.
Turning == {"stmt", "sep", "skip"}
Began == rounds[Len(rounds)]
Finished ==
  IF pc \in Turning /\ stmts # <<>> /\ stmts[Len(stmts)].from = Began
  THEN SubSeq(stmts, 1, Len(stmts) - 1) ELSE stmts
Reports == {log[n] : n \in {m \in DOMAIN log : log[m] # -1}}
Listing == INSTANCE StatementList WITH
  at <- IF pc \in Turning THEN Began ELSE i, list <- Finished,
  errors <- IF pc \in Turning THEN {e \in Reports : e < Began} ELSE Reports,
  first <- IF pc \in Turning /\ first >= Began THEN 0 ELSE first, over <- (pc = "done")

\* The loop over statements with its recovery is the list of StatementList: a
\* turn goes on to a semicolon or to the end of the text, what it makes is its
\* own, it has no error only if that is a statement of all its tokens, and Parse
\* returns the earliest error (lines 253-275 and error, lines 66-75).
RefinesStatementList == Listing!Spec

\* The flag that the DEFAULT of a column sets does not outlive the statement,
\* whatever errors occur in it (inColDefault, parse_ddl.go:553-558).
FlagIsCleared == pc # "stmt" => ~inColDefault

\* Parse returns: no statement parser and no recovery loops without end.
ParseReturns == <>(pc = "done")
=============================================================================
