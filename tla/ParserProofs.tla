---------------------------- MODULE ParserProofs ----------------------------
(***************************************************************************)
(* What holds of parser.go whatever the statement parsers do, for every    *)
(* text and every table of routines.  An instruction changes the place in  *)
(* the text and the record of errors in one of four ways (Effect), and     *)
(* nothing else that the invariants speak of; so each invariant is proved  *)
(* over the four effects and the five actions of parseStmtList.            *)
(***************************************************************************)
EXTENDS Parser, FiniteSetTheorems, TLAPS

Effect == Stay \/ Consume \/ Report \/ ReportAndConsume

\* The part of the state that is not the place in the text or the errors.
Outside == <<pc, result, rounds>>

\* The invariant behind StmtsInOrder and TurnsConsume.
Types ==
  /\ text \in Texts /\ text \in Seq(STRING) /\ i \in 1..EOF
  /\ pc \in {"list", "stmt", "sep", "skip", "done"}
  /\ rounds \in Seq(1..Len(text))
  /\ stmts \in Seq([from : 1..Len(text), end : 1..EOF])

\* The turns began at places that increase, and before i when one is over; the
\* loop that skips has something to skip, or a token was taken.
TurnsInOrder ==
  /\ \A k, m \in DOMAIN rounds : k < m => rounds[k] < rounds[m]
  /\ \A k \in DOMAIN rounds : rounds[k] <= i
  /\ pc = "list" => \A k \in DOMAIN rounds : rounds[k] < i
  /\ pc \in Turning => rounds # <<>>
  /\ pc = "skip" => Began < i \/ tok \notin {"semi", "EOF"}

\* The statement being parsed begins where the earlier ones have ended.
StmtAfterEarlier == pc = "stmt" => \A k \in DOMAIN stmts : stmts[k].end <= Began

IInv == Types /\ TurnsInOrder /\ StmtsInOrder /\ StmtAfterEarlier
-----------------------------------------------------------------------------
\* The token at an index past the text is EOF, and no other is.
LEMMA TokenInText ==
  ASSUME text \in Texts, NEW k \in 1..EOF
  PROVE  TokenAt(k) = "EOF" <=> k = EOF
BY TextsAreSequences, EOFIsNoToken DEF TokenAt, EOF

\* The text is a sequence of strings.
LEMMA NoTokenIsEOF ==
  ASSUME text \in Texts
  PROVE  text \in Seq(STRING) /\ Len(text) \in Nat
BY TextsAreSequences

\* All that an instruction of a statement parser does outside its own node.
LEMMA InstructionEffect ==
  ASSUME Instruction
  PROVE  Effect /\ UNCHANGED Outside
<1>1. UNCHANGED Outside
  BY DEF Instruction, DoWant, DoSwitch, DoPeek, DoIfMade, DoUntil, DoIdent, DoColLabel, DoParseInt,
         DoTake, DoFail, DoAssign, DoIfDefault, DoCall, DoInner, DoOuter, Goes, Outside, result
<1>2. Effect
  BY DEF Instruction, DoWant, DoSwitch, DoPeek, DoIfMade, DoUntil, DoIdent, DoColLabel, DoParseInt,
         DoTake, DoFail, DoAssign, DoIfDefault, DoCall, DoInner, DoOuter, Effect
<1> QED BY <1>1, <1>2

\* An effect goes forward in the text, and never past its end.
LEMMA EffectMoves ==
  ASSUME text \in Seq(STRING), i \in 1..EOF, Effect
  PROVE  text' = text /\ i' \in 1..EOF' /\ i <= i'
BY DEF Effect, Stay, Consume, Report, ReportAndConsume, Following, EOF, token

\* What is consumed is not EOF, so the place moves.
LEMMA ConsumeMoves ==
  ASSUME text \in Seq(STRING), text \in Texts, i \in 1..EOF, Consume, tok # "EOF"
  PROVE  i < i'
BY TokenInText DEF Consume, Following, EOF, tok, TokenAt

\* A statement that returns now ends here, and began with its turn.
LEMMA StmtExtent ==
  ASSUME Types
  PROVE  /\ Len(text) \in Nat /\ EOF \in Int /\ DOMAIN rounds = 1..Len(rounds)
         /\ DOMAIN stmts = 1..Len(stmts) /\ Len(stmts) \in Nat /\ Len(rounds) \in Nat
         /\ \A k \in DOMAIN stmts : stmts[k].from \in Int /\ stmts[k].end \in Int
         /\ \A k \in DOMAIN rounds : rounds[k] \in 1..Len(text)
<1> DEFINE S == [from : 1..Len(text), end : 1..EOF]
<1>1. \A s \in S : s.from \in Int /\ s.end \in Int
  OBVIOUS
<1>2. stmts \in Seq(S)
  BY DEF Types
<1>3. /\ Len(text) \in Nat /\ EOF \in Int /\ DOMAIN rounds = 1..Len(rounds)
      /\ Len(rounds) \in Nat /\ \A k \in DOMAIN rounds : rounds[k] \in 1..Len(text)
  BY DEF Types, EOF
<1> HIDE DEF S
<1>4. /\ DOMAIN stmts = 1..Len(stmts) /\ Len(stmts) \in Nat
      /\ \A k \in DOMAIN stmts : stmts[k] \in S
  BY <1>2
<1> QED BY <1>1, <1>3, <1>4

\* The invariant holds at the start.
LEMMA InitIInv == Init => IInv
BY NoTokenIsEOF DEF Init, IInv, Types, TurnsInOrder, StmtAfterEarlier, StmtsInOrder, Turning, EOF

\* An instruction keeps it: the place only goes forward.
LEMMA InstructionStep ==
  ASSUME IInv, Instruction
  PROVE  IInv'
<1>1. UNCHANGED <<pc, stmts, rounds>> /\ pc = "stmt"
  BY InstructionEffect DEF Outside, result, Instruction, Doing, DoWant, DoSwitch, DoPeek,
     DoIfMade, DoUntil, DoIdent, DoColLabel, DoParseInt, DoTake, DoFail, DoAssign, DoIfDefault, DoCall, DoInner, DoOuter
<1>2. text' = text /\ i' \in 1..EOF /\ i <= i' /\ EOF' = EOF
  BY InstructionEffect, EffectMoves DEF IInv, Types, EOF
<1>3. Types'
  BY <1>1, <1>2 DEF IInv, Types
<1>4. TurnsInOrder'
  BY <1>1, <1>2 DEF IInv, Types, TurnsInOrder, Turning, EOF
<1>5. StmtsInOrder'
  <2>1. i \in Int /\ i' \in Int
    BY <1>2, StmtExtent DEF IInv, Types
  <2> QED BY <2>1, <1>1, <1>2, StmtExtent DEF IInv, StmtsInOrder
<1>6. StmtAfterEarlier'
  BY <1>1, <1>2 DEF IInv, StmtAfterEarlier, Began
<1> QED BY <1>3, <1>4, <1>5, <1>6 DEF IInv

\* The end of the list keeps it.
LEMMA ListEndStep ==
  ASSUME IInv, ListEnd
  PROVE  IInv'
BY DEF ListEnd, IInv, Types, TurnsInOrder, StmtsInOrder, StmtAfterEarlier, Turning, Began,
       token, result, EOF, tok, TokenAt

\* A new turn begins after those before it.
LEMMA CallParseStmtStep ==
  ASSUME IInv, CallParseStmt
  PROVE  IInv'
<1>1. /\ UNCHANGED <<text, i, stmts>> /\ EOF' = EOF
      /\ pc = "list" /\ pc' = "stmt" /\ rounds' = Append(rounds, i)
  BY DEF CallParseStmt, token, result, EOF
<1>2. i \in 1..Len(text)
  BY TokenInText DEF CallParseStmt, IInv, Types, tok, EOF
<1>3. rounds' \in Seq(1..Len(text)) /\ Len(rounds') = Len(rounds) + 1
      /\ rounds'[Len(rounds')] = i /\ \A k \in 1..Len(rounds) : rounds'[k] = rounds[k]
  BY <1>1, <1>2 DEF IInv, Types
<1>4. Types'
  BY <1>1, <1>3 DEF IInv, Types
<1>5. TurnsInOrder'
  BY <1>1, <1>2, <1>3, StmtExtent DEF IInv, TurnsInOrder, Turning
<1>6. StmtsInOrder'
  BY <1>1 DEF IInv, StmtsInOrder
<1>7. StmtAfterEarlier'
  BY <1>1, <1>3 DEF IInv, StmtAfterEarlier, StmtsInOrder, Began
<1> QED BY <1>4, <1>5, <1>6, <1>7 DEF IInv

\* A statement is appended after those before it.
LEMMA ReturnStmtStep ==
  ASSUME IInv, ReturnStmt
  PROVE  IInv'
<1>1. /\ UNCHANGED <<text, i, rounds>> /\ EOF' = EOF /\ tok' = tok
      /\ pc = "stmt" /\ pc' = "sep"
  BY DEF ReturnStmt, token, EOF, tok, TokenAt
<1>2. /\ Began \in 1..Len(text) /\ Began <= i /\ Began \in Int /\ i \in Int /\ i \in 1..EOF
  <2>1. rounds # <<>>
    BY <1>1 DEF IInv, TurnsInOrder, Turning
  <2>2. Len(rounds) \in DOMAIN rounds
    BY <2>1 DEF IInv, Types
  <2> QED BY <2>2, StmtExtent DEF IInv, Types, TurnsInOrder, Began
<1>3. TurnsInOrder'
  BY <1>1 DEF IInv, TurnsInOrder, Turning
<1>4. StmtAfterEarlier'
  BY <1>1 DEF StmtAfterEarlier
<1>5. CASE UNCHANGED result
  BY <1>1, <1>3, <1>4, <1>5 DEF IInv, Types, StmtsInOrder, result
<1>6. CASE stmts' = Append(stmts, [from |-> Began, end |-> i])
  <2> DEFINE new == [from |-> Began, end |-> i]
  <2>1. new \in [from : 1..Len(text), end : 1..EOF] /\ new.from = Began /\ new.end = i
    BY <1>2
  <2> HIDE DEF new
  <2>2. /\ stmts' \in Seq([from : 1..Len(text), end : 1..EOF]) /\ Len(stmts') = Len(stmts) + 1
        /\ stmts'[Len(stmts')] = new /\ \A k \in 1..Len(stmts) : stmts'[k] = stmts[k]
        /\ DOMAIN stmts' = 1..Len(stmts')
    BY <2>1, <1>6 DEF IInv, Types, new
  <2>3. Types'
    BY <1>1, <2>2 DEF IInv, Types
  <2>4. StmtsInOrder'
    <3>1. DOMAIN stmts = 1..Len(stmts) /\ Len(stmts) \in Nat
      BY StmtExtent DEF IInv
    <3>2. \A k \in DOMAIN stmts : stmts[k].end <= Began
      BY <1>1 DEF IInv, StmtAfterEarlier
    <3>3. \A k \in DOMAIN stmts' :
            \/ k \in DOMAIN stmts /\ stmts'[k] = stmts[k]
            \/ k = Len(stmts) + 1 /\ stmts'[k] = new
      BY <2>2, <3>1
    <3>4. \A k \in DOMAIN stmts' : stmts'[k].from <= stmts'[k].end /\ stmts'[k].end <= i
      BY <1>2, <2>1, <3>3 DEF IInv, StmtsInOrder
    <3>5. ASSUME NEW k \in DOMAIN stmts', NEW m \in DOMAIN stmts', k < m
          PROVE  stmts'[k].end <= stmts'[m].from
      <4>1. k \in DOMAIN stmts /\ stmts'[k] = stmts[k]
        BY <2>2, <3>3, <3>1, <3>5
      <4> QED BY <4>1, <2>1, <3>2, <3>3, <3>5 DEF IInv, StmtsInOrder
    <3> QED BY <1>1, <3>4, <3>5 DEF StmtsInOrder
  <2> QED BY <1>3, <1>4, <2>3, <2>4 DEF IInv
<1> QED BY <1>5, <1>6 DEF ReturnStmt, Began

\* After a statement the semicolon is taken, or the recovery begins.
LEMMA SeparatorStep ==
  ASSUME IInv, Separator
  PROVE  IInv'
<1>1. /\ UNCHANGED <<text, stmts, rounds>> /\ EOF' = EOF /\ pc = "sep" /\ pc' \in {"list", "skip"}
  BY DEF Separator, Consume, Stay, Report, token, result, EOF
<1>2. Effect
  BY DEF Separator, Effect
<1>3. i' \in 1..EOF /\ i <= i'
  BY <1>1, <1>2, EffectMoves DEF IInv, Types
<1>4. Types'
  BY <1>1, <1>3 DEF IInv, Types
<1>5. StmtsInOrder' /\ StmtAfterEarlier'
  <2>1. i \in Int /\ i' \in Int
    BY <1>1, <1>3, StmtExtent DEF IInv, Types
  <2> QED BY <2>1, <1>1, <1>3, StmtExtent DEF IInv, StmtsInOrder, StmtAfterEarlier
<1>6. CASE tok = "semi" /\ Consume /\ pc' = "list"
  <2>1. i < i'
    BY <1>6, ConsumeMoves DEF IInv, Types
  <2>2. TurnsInOrder'
    BY <2>1, <1>1, <1>3, <1>6, StmtExtent DEF IInv, Types, TurnsInOrder, Turning
  <2> QED BY <2>2, <1>4, <1>5 DEF IInv
<1>7. CASE tok = "EOF" /\ Stay /\ pc' = "list"
  <2>1. i = EOF /\ i' = i
    BY <1>7, TokenInText DEF IInv, Types, tok, Stay, token
  <2>2. TurnsInOrder'
    BY <2>1, <1>1, <1>7, StmtExtent DEF IInv, Types, TurnsInOrder, Turning, EOF
  <2> QED BY <2>2, <1>4, <1>5 DEF IInv
<1>8. CASE tok \notin {"semi", "EOF"} /\ Report /\ pc' = "skip"
  <2>1. i' = i /\ tok' = tok
    BY <1>8 DEF Report, token, tok, TokenAt
  <2>2. TurnsInOrder'
    BY <2>1, <1>1, <1>8 DEF IInv, TurnsInOrder, Turning
  <2> QED BY <2>2, <1>4, <1>5 DEF IInv
<1> QED BY <1>6, <1>7, <1>8 DEF Separator

\* The recovery goes forward to a semicolon or to the end.
LEMMA SkipToSemicolonStep ==
  ASSUME IInv, SkipToSemicolon
  PROVE  IInv'
<1>1. /\ UNCHANGED <<text, stmts, rounds>> /\ EOF' = EOF /\ pc = "skip" /\ pc' \in {"list", "skip"}
  BY DEF SkipToSemicolon, Consume, Stay, token, result, EOF
<1>2. Effect
  BY DEF SkipToSemicolon, Effect
<1>3. i' \in 1..EOF /\ i <= i'
  BY <1>1, <1>2, EffectMoves DEF IInv, Types
<1>4. Types'
  BY <1>1, <1>3 DEF IInv, Types
<1>5. StmtsInOrder' /\ StmtAfterEarlier'
  <2>1. i \in Int /\ i' \in Int
    BY <1>1, <1>3, StmtExtent DEF IInv, Types
  <2> QED BY <2>1, <1>1, <1>3, StmtExtent DEF IInv, StmtsInOrder, StmtAfterEarlier
<1>6. CASE tok # "EOF" /\ Consume
  <2>1. i < i'
    BY <1>6, ConsumeMoves DEF IInv, Types
  <2>2. rounds # <<>> /\ Len(rounds) \in DOMAIN rounds
    BY <1>1 DEF IInv, Types, TurnsInOrder, Turning
  <2>3. \A k \in DOMAIN rounds : rounds[k] < i'
    BY <2>1, <1>3, StmtExtent DEF IInv, Types, TurnsInOrder
  <2>4. \A k \in DOMAIN rounds : rounds[k] <= i'
    BY <1>3, StmtExtent DEF IInv, Types, TurnsInOrder
  <2>5. Began' < i' /\ rounds' # <<>>
    BY <2>2, <2>3, <1>1 DEF Began
  <2>6. TurnsInOrder'
    BY <2>3, <2>4, <2>5, <1>1 DEF IInv, TurnsInOrder
  <2> QED BY <2>6, <1>4, <1>5 DEF IInv
<1>7. CASE tok = "EOF" /\ Stay /\ pc' = "list"
  <2>1. i = EOF /\ i' = i
    BY <1>7, TokenInText DEF IInv, Types, tok, Stay, token
  <2>2. TurnsInOrder'
    BY <2>1, <1>1, <1>7, StmtExtent DEF IInv, Types, TurnsInOrder, Turning, EOF
  <2> QED BY <2>2, <1>4, <1>5 DEF IInv
<1> QED BY <1>6, <1>7 DEF SkipToSemicolon

\* Every step keeps the invariant.
LEMMA NextIInv == IInv /\ [Next]_vars => IInv'
<1> SUFFICES ASSUME IInv, [Next]_vars
             PROVE  IInv'
  OBVIOUS
<1>1. CASE Instruction
  BY <1>1, InstructionStep
<1>2. CASE List
  BY <1>2, ListEndStep, CallParseStmtStep, ReturnStmtStep, SeparatorStep,
     SkipToSemicolonStep DEF List
<1>3. CASE UNCHANGED vars
  BY <1>3 DEF vars, token, result, IInv, Types, TurnsInOrder, StmtsInOrder, StmtAfterEarlier,
     Turning, Began, EOF, tok, TokenAt
<1> QED BY <1>1, <1>2, <1>3 DEF Next
-----------------------------------------------------------------------------
\* The inductive invariant holds in every reachable state, whatever the table
\* of statement parsers does: types, turns in order, statements within them.
THEOREM SpecIInv == Spec => []IInv
<1>1. Init => IInv
  BY InitIInv
<1>2. IInv /\ [Next]_vars => IInv'
  BY NextIInv
<1> QED BY <1>1, <1>2, PTL DEF Spec

\* The statements that Parse returns are in the order of the source and apart
\* from one another, whatever the statement parsers do.
THEOREM SpecStmtsInOrder == Spec => []StmtsInOrder
<1>1. IInv => StmtsInOrder
  BY DEF IInv
<1> QED BY <1>1, SpecIInv, PTL

\* Every turn of the loop over statements takes a token, whatever the statement
\* parsers do.
THEOREM SpecTurnsConsume == Spec => []TurnsConsume
<1>1. ASSUME IInv
      PROVE  TurnsConsume
  <2>1. rounds # <<>> => Len(rounds) \in DOMAIN rounds
    BY <1>1 DEF IInv, Types
  <2> QED BY <2>1, <1>1 DEF IInv, TurnsInOrder, TurnsConsume
<1> QED BY <1>1, SpecIInv, PTL
-----------------------------------------------------------------------------
\* The record of errors, on its own: l is the log, f the first error of the
\* parser, n their number, and h the place the parser has come to.
Parsers(l) == {k \in DOMAIN l : l[k] # -1}

Recorded(l, f, n, h) ==
  /\ l \in Seq(Int) /\ h \in Nat \ {0} /\ f \in Nat /\ n \in Nat
  /\ IsFiniteSet(Parsers(l)) /\ n = Cardinality(Parsers(l))
  /\ \A k \in Parsers(l) : 1 <= l[k] /\ l[k] <= h
  /\ \A k, m \in Parsers(l) : k < m => l[k] <= l[m]
  /\ IF Parsers(l) = {} THEN f = 0
     ELSE \E k \in Parsers(l) : f = l[k] /\ \A m \in Parsers(l) : k <= m

\* What is recorded stays so when the place moves on.
LEMMA RecordedLater ==
  ASSUME NEW l, NEW f, NEW n, NEW h, NEW g \in Nat, Recorded(l, f, n, h), h <= g
  PROVE  Recorded(l, f, n, g)
BY DEF Recorded, Parsers

\* An error of the scanner leaves the parser's record as it is.
LEMMA ScannerErrorRecorded ==
  ASSUME NEW l, NEW f, NEW n, NEW h, Recorded(l, f, n, h)
  PROVE  Recorded(Append(l, -1), f, n, h)
<1> DEFINE a == Append(l, -1)
<1>1. /\ a \in Seq(Int) /\ DOMAIN a = 1..Len(l) + 1 /\ DOMAIN l = 1..Len(l) /\ Len(l) \in Nat
      /\ a[Len(l) + 1] = -1 /\ \A k \in DOMAIN l : a[k] = l[k]
  BY DEF Recorded
<1> HIDE DEF a
<1>2. Parsers(a) = Parsers(l)
  BY <1>1 DEF Parsers
<1>3. \A k \in Parsers(l) : a[k] = l[k]
  BY <1>1 DEF Parsers
<1>4. Recorded(a, f, n, h)
  BY <1>1, <1>2, <1>3 DEF Recorded
<1> QED BY <1>4 DEF a

\* An error of the parser is counted, and is the first if none was before.
LEMMA ParserErrorRecorded ==
  ASSUME NEW l, NEW f, NEW n, NEW h, Recorded(l, f, n, h)
  PROVE  Recorded(Append(l, h), IF f = 0 THEN h ELSE f, n + 1, h)
<1> DEFINE a == Append(l, h)
           g == IF f = 0 THEN h ELSE f
           q == Len(l) + 1
<1>1. /\ a \in Seq(Int) /\ DOMAIN a = 1..q /\ DOMAIN l = 1..Len(l) /\ Len(l) \in Nat
      /\ a[q] = h /\ h \in Nat \ {0} /\ h # -1 /\ \A k \in DOMAIN l : a[k] = l[k]
  BY DEF Recorded
<1>2. /\ Parsers(a) = Parsers(l) \cup {q} /\ q \notin Parsers(l)
      /\ \A k \in Parsers(l) : a[k] = l[k] /\ k < q /\ k \in Int
  <2> HIDE DEF a
  <2> QED BY <1>1 DEF Parsers
<1>3. IsFiniteSet(Parsers(a)) /\ Cardinality(Parsers(a)) = n + 1
  BY <1>2, FS_AddElement DEF Recorded
<1> HIDE DEF a, q
<1>4. \A k \in Parsers(a) : 1 <= a[k] /\ a[k] <= h
  BY <1>1, <1>2 DEF Recorded
<1>5. ASSUME NEW k \in Parsers(a), NEW m \in Parsers(a), k < m
      PROVE  a[k] <= a[m]
  <2>1. k \in Parsers(l)
    BY <1>2, <1>5, <1>1 DEF q
  <2> QED BY <2>1, <1>1, <1>2, <1>5 DEF Recorded
<1>6. \E k \in Parsers(a) : g = a[k] /\ \A m \in Parsers(a) : k <= m
  <2>1. CASE Parsers(l) = {}
    BY <2>1, <1>1, <1>2 DEF Recorded, q
  <2>2. CASE Parsers(l) # {}
    <3>1. PICK k \in Parsers(l) : f = l[k] /\ \A m \in Parsers(l) : k <= m
      BY <2>2 DEF Recorded
    <3>2. g = a[k] /\ k <= q
      BY <3>1, <1>2, <1>1 DEF Recorded, q
    <3> QED BY <3>1, <3>2, <1>2
  <2> QED BY <2>1, <2>2
<1>7. Parsers(a) # {} /\ n + 1 \in Nat /\ g \in Nat
  BY <1>1, <1>2 DEF Recorded
<1>8. Recorded(a, g, n + 1, h)
  <2> HIDE DEF g
  <2> QED BY <1>1, <1>3, <1>4, <1>5, <1>6, <1>7 DEF Recorded
<1> QED BY <1>8 DEF a, g

\* What the scanner reports while the current token is scanned is recorded.
LEMMA ScanErrorsRecorded ==
  ASSUME NEW l, NEW f, NEW n, NEW h, NEW k, Recorded(l, f, n, h)
  PROVE  Recorded(l \o ScanErrors(k), f, n, h)
<1>1. l \o <<>> = l /\ l \o <<-1>> = Append(l, -1)
  BY DEF Recorded
<1> QED BY <1>1, ScannerErrorRecorded DEF ScanErrors

Record == text \in Seq(STRING) /\ i \in 1..EOF /\ Recorded(log, first, errcnt, i)

\* The record of errors is right when the first token has been read.
LEMMA InitRecord == Init => Record
<1> SUFFICES ASSUME Init
             PROVE  Record
  OBVIOUS
<1>1. Recorded(<<>>, 0, 0, 1)
  BY FS_EmptySet DEF Recorded, Parsers
<1>2. <<>> \o ScanErrors(1) = ScanErrors(1)
  BY DEF ScanErrors
<1>3. Recorded(ScanErrors(1), 0, 0, 1)
  BY <1>1, <1>2, ScanErrorsRecorded
<1> QED BY <1>3, NoTokenIsEOF DEF Init, Record, EOF

\* The four things a step may do to the errors and the token keep it right.
LEMMA EffectRecord ==
  ASSUME Record, Effect
  PROVE  Record'
<1>1. text' = text /\ i' \in 1..EOF' /\ i <= i' /\ i' \in Nat
  BY EffectMoves DEF Record, EOF
<1>2. Recorded(log, first, errcnt, i)
  BY DEF Record
<1>3. CASE Stay
  BY <1>1, <1>2, <1>3 DEF Stay, errors, token, Record
<1>4. CASE Consume
  BY <1>1, <1>2, <1>4, RecordedLater, ScanErrorsRecorded DEF Consume, Record
<1>5. CASE Report
  BY <1>1, <1>2, <1>5, ParserErrorRecorded DEF Report, Count, token, Record
<1>6. CASE ReportAndConsume
  BY <1>1, <1>2, <1>6, ParserErrorRecorded, RecordedLater, ScanErrorsRecorded
     DEF ReportAndConsume, Count, Record
<1> QED BY <1>3, <1>4, <1>5, <1>6 DEF Effect

\* Every step, whatever the instruction, does one of these four things.
LEMMA NextEffect == [Next]_vars => Effect
BY InstructionEffect DEF Next, List, ListEnd, CallParseStmt, ReturnStmt, Separator,
   SkipToSemicolon, Effect, Stay, vars

\* Parse returns the first of the parser's errors, errcnt is their number, and
\* they are reported in the order of the source.
THEOREM SpecErrorsAreCounted == Spec => []ErrorsAreCounted
<1>1. Init => Record
  BY InitRecord
<1>2. Record /\ [Next]_vars => Record'
  BY NextEffect, EffectRecord
<1>3. Record => ErrorsAreCounted
  BY DEF Record, Recorded, Parsers, ErrorsAreCounted
<1> QED BY <1>1, <1>2, <1>3, PTL DEF Spec
=============================================================================
