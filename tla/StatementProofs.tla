--------------------------- MODULE StatementProofs ---------------------------
(***************************************************************************)
(* What holds of parser.go when the statement parsers are code, as IsCode  *)
(* of Parser.tla has it: the types, that no token is lost without an       *)
(* error, that the flag of a DEFAULT does not outlive its statement, and   *)
(* that the loop over statements implements StatementList.  The routines   *)
(* of the real statements are such code (the assumption StatementsAreCode  *)
(* of MCQueries and MCDeparser).                                           *)
(***************************************************************************)
EXTENDS ParserProofs, Induction

\* What todo is made of: instructions of C, and the returns from inner
\* statements, each with the position to go back to.
Outers == [op : {"outer"}, loc : 0..EOF]
Todo(C) == C \cup Outers
-----------------------------------------------------------------------------
\* Two sequences in which nil follows a failure make one.
LEMMA NilAfterFailConcat ==
  ASSUME NEW S, NEW a \in Seq(S), NEW b \in Seq(S), NilAfterFail(a), NilAfterFail(b)
  PROVE  a \o b \in Seq(S) /\ NilAfterFail(a \o b)
<1> DEFINE c == a \o b
<1>1. /\ c \in Seq(S) /\ Len(c) = Len(a) + Len(b) /\ Len(a) \in Nat /\ Len(b) \in Nat
      /\ DOMAIN c = 1..Len(c) /\ DOMAIN a = 1..Len(a) /\ DOMAIN b = 1..Len(b)
      /\ \A k \in 1..Len(a) : c[k] = a[k]
      /\ \A k \in 1..Len(b) : c[Len(a) + k] = b[k]
  OBVIOUS
<1> HIDE DEF c
<1>2. ASSUME NEW k \in DOMAIN c, c[k].op = "nil"
      PROVE  \E j \in 1..k - 1 : c[j].op = "fail"
  <2>1. CASE k \in 1..Len(a)
    <3>1. PICK j \in 1..k - 1 : a[j].op = "fail"
      BY <1>1, <1>2, <2>1 DEF NilAfterFail
    <3> QED BY <1>1, <2>1, <3>1
  <2>2. CASE k \notin 1..Len(a)
    <3>1. PICK m \in 1..Len(b) : k = Len(a) + m
      <4>1. k - Len(a) \in 1..Len(b) /\ k = Len(a) + (k - Len(a))
        BY <1>1, <2>2
      <4> QED BY <4>1
    <3>2. PICK j \in 1..m - 1 : b[j].op = "fail"
      BY <1>1, <1>2, <3>1 DEF NilAfterFail
    <3>3. Len(a) + j \in 1..k - 1 /\ c[Len(a) + j] = b[j]
      BY <1>1, <3>1, <3>2
    <3> QED BY <3>2, <3>3
  <2> QED BY <2>1, <2>2
<1>3. c \in Seq(S) /\ NilAfterFail(c)
  BY <1>1, <1>2 DEF NilAfterFail
<1> QED BY <1>3 DEF c

\* Such a sequence does not begin with nil, and is one without its head unless
\* the head is the failure.
LEMMA NilAfterFailTail ==
  ASSUME NEW S, NEW s \in Seq(S), s # <<>>, NilAfterFail(s)
  PROVE  Head(s).op # "nil" /\ (Head(s).op # "fail" => NilAfterFail(Tail(s)))
<1> DEFINE t == Tail(s)
<1>1. /\ Len(s) \in Nat /\ Len(s) > 0 /\ DOMAIN s = 1..Len(s) /\ Head(s) = s[1]
      /\ t \in Seq(S) /\ DOMAIN t = 1..Len(s) - 1 /\ \A k \in 1..Len(s) - 1 : t[k] = s[k + 1]
  OBVIOUS
<1>2. Head(s).op # "nil"
  BY <1>1 DEF NilAfterFail
<1> HIDE DEF t
<1>3. ASSUME NEW k \in DOMAIN t, t[k].op = "nil", s[1].op # "fail"
      PROVE  \E j \in 1..k - 1 : t[j].op = "fail"
  <2>1. PICK m \in DOMAIN s : m = k + 1
    BY <1>1
  <2>2. s[m].op = "nil"
    BY <1>1, <1>3, <2>1
  <2>3. PICK j \in 1..m - 1 : s[j].op = "fail"
    BY <2>2 DEF NilAfterFail
  <2>4. PICK n \in 1..k - 1 : j = n + 1
    <3>1. j # 1 /\ j - 1 \in 1..k - 1 /\ j = (j - 1) + 1
      BY <1>1, <1>3, <2>1, <2>3
    <3> QED BY <3>1
  <2>5. t[n] = s[j]
    BY <1>1, <2>1, <2>4
  <2> QED BY <2>3, <2>4, <2>5
<1>4. Head(s).op # "fail" => NilAfterFail(t)
  BY <1>1, <1>3 DEF NilAfterFail
<1> QED BY <1>2, <1>4 DEF t

\* So with the flag: what sets it in one of two sequences is followed by what
\* clears it in the same one.
LEMMA ClearsFlagConcat ==
  ASSUME NEW S, NEW a \in Seq(S), NEW b \in Seq(S), ClearsFlag(a), ClearsFlag(b)
  PROVE  ClearsFlag(a \o b)
<1> DEFINE c == a \o b
<1>1. /\ c \in Seq(S) /\ Len(c) = Len(a) + Len(b) /\ Len(a) \in Nat /\ Len(b) \in Nat
      /\ DOMAIN c = 1..Len(c) /\ DOMAIN a = 1..Len(a) /\ DOMAIN b = 1..Len(b)
      /\ \A k \in 1..Len(a) : c[k] = a[k]
      /\ \A k \in 1..Len(b) : c[Len(a) + k] = b[k]
  OBVIOUS
<1> HIDE DEF c
<1>2. ASSUME NEW k \in DOMAIN c, Assigns(c[k], TRUE)
      PROVE  \E j \in k + 1..Len(c) : Assigns(c[j], FALSE)
  <2>1. CASE k \in 1..Len(a)
    <3>1. c[k] = a[k] /\ k \in DOMAIN a
      BY <1>1, <2>1
    <3>2. Assigns(a[k], TRUE)
      BY <1>2, <3>1, Zenon
    <3>3. PICK j \in k + 1..Len(a) : Assigns(a[j], FALSE)
      BY <3>1, <3>2 DEF ClearsFlag
    <3>4. j \in k + 1..Len(c) /\ c[j] = a[j]
      BY <1>1, <2>1, <3>3
    <3>5. Assigns(c[j], FALSE)
      BY <3>3, <3>4, Zenon
    <3> QED BY <3>4, <3>5
  <2>2. CASE k \notin 1..Len(a)
    <3>1. PICK m \in 1..Len(b) : k = Len(a) + m
      <4>1. k - Len(a) \in 1..Len(b) /\ k = Len(a) + (k - Len(a))
        BY <1>1, <2>2
      <4> QED BY <4>1
    <3>2. c[k] = b[m] /\ m \in DOMAIN b
      BY <1>1, <3>1
    <3>3. Assigns(b[m], TRUE)
      BY <1>2, <3>2, Zenon
    <3>4. PICK j \in m + 1..Len(b) : Assigns(b[j], FALSE)
      BY <3>2, <3>3 DEF ClearsFlag
    <3>5. PICK n \in k + 1..Len(c) : n = Len(a) + j /\ c[n] = b[j]
      BY <1>1, <3>1, <3>4
    <3>6. Assigns(c[n], FALSE)
      BY <3>4, <3>5, Zenon
    <3> QED BY <3>6
  <2> QED BY <2>1, <2>2
<1>3. ClearsFlag(c)
  BY <1>2 DEF ClearsFlag
<1> QED BY <1>3 DEF c

\* Something in s clears the flag.
WillClear(s) == \E k \in DOMAIN s : Assigns(s[k], FALSE)

\* Without its head such a sequence is one, and still clears what its head set.
LEMMA ClearsFlagTail ==
  ASSUME NEW S, NEW s \in Seq(S), s # <<>>, ClearsFlag(s)
  PROVE  /\ ClearsFlag(Tail(s))
         /\ Assigns(Head(s), TRUE) => WillClear(Tail(s))
         /\ WillClear(s) /\ ~Assigns(Head(s), FALSE) => WillClear(Tail(s))
<1> DEFINE t == Tail(s)
<1>1. /\ Len(s) \in Nat /\ Len(s) > 0 /\ DOMAIN s = 1..Len(s) /\ Head(s) = s[1]
      /\ t \in Seq(S) /\ DOMAIN t = 1..Len(s) - 1 /\ Len(t) = Len(s) - 1
      /\ \A k \in 1..Len(s) - 1 : t[k] = s[k + 1]
  OBVIOUS
<1> HIDE DEF t
<1>2. ASSUME NEW k \in DOMAIN s, k # 1
      PROVE  \E m \in DOMAIN t : k = m + 1 /\ t[m] = s[k]
  <2>1. PICK m \in Int : k = m + 1
    <3>1. k - 1 \in Int /\ k = (k - 1) + 1
      BY <1>1
    <3> QED BY <3>1
  <2>2. m \in DOMAIN t /\ m \in 1..Len(s) - 1
    BY <1>1, <1>2, <2>1
  <2>3. t[m] = s[k]
    BY <1>1, <2>1, <2>2
  <2> QED BY <2>1, <2>2, <2>3
<1>3. ClearsFlag(t)
  <2> SUFFICES ASSUME NEW k \in DOMAIN t, Assigns(t[k], TRUE)
               PROVE  \E j \in k + 1..Len(t) : Assigns(t[j], FALSE)
    BY DEF ClearsFlag
  <2>1. PICK m \in DOMAIN s : m = k + 1 /\ s[m] = t[k]
    BY <1>1
  <2>2. PICK j \in m + 1..Len(s) : Assigns(s[j], FALSE)
    BY <2>1 DEF ClearsFlag
  <2>3. PICK n \in DOMAIN t : j = n + 1 /\ t[n] = s[j]
    BY <1>1, <1>2, <2>1, <2>2
  <2>4. n \in k + 1..Len(t)
    BY <1>1, <2>1, <2>2, <2>3
  <2> QED BY <2>2, <2>3, <2>4
<1>4. ASSUME Assigns(s[1], TRUE)
      PROVE  WillClear(t)
  <2>1. PICK k \in DOMAIN s : k = 1
    BY <1>1
  <2>2. PICK j \in k + 1..Len(s) : Assigns(s[j], FALSE)
    BY <1>4, <2>1 DEF ClearsFlag
  <2>3. j \in DOMAIN s /\ j # 1
    BY <1>1, <2>1, <2>2
  <2>4. PICK n \in DOMAIN t : j = n + 1 /\ t[n] = s[j]
    BY <1>2, <2>3
  <2> QED BY <2>2, <2>4 DEF WillClear
<1>5. ASSUME WillClear(s), ~Assigns(s[1], FALSE)
      PROVE  WillClear(t)
  <2>1. PICK j \in DOMAIN s : Assigns(s[j], FALSE)
    BY <1>5 DEF WillClear
  <2>2. PICK n \in DOMAIN t : j = n + 1 /\ t[n] = s[j]
    BY <1>2, <1>5, <2>1
  <2> QED BY <2>1, <2>2 DEF WillClear
<1> QED BY <1>1, <1>3, <1>4, <1>5 DEF t

\* What clears the flag later still does after more has been put before it.
LEMMA WillClearConcat ==
  ASSUME NEW S, NEW a \in Seq(S), NEW b \in Seq(S), WillClear(b)
  PROVE  WillClear(a \o b)
<1>1. PICK k \in DOMAIN b : Assigns(b[k], FALSE)
  BY DEF WillClear
<1>2. Len(a) + k \in DOMAIN (a \o b) /\ (a \o b)[Len(a) + k] = b[k]
  OBVIOUS
<1> QED BY <1>1, <1>2 DEF WillClear
-----------------------------------------------------------------------------
\* f is the function that Entries(K) is the last value of, up to n.
IsPicked(K, f, n) ==
  f = [m \in 0..n |-> IF m = 0 THEN <<>>
                      ELSE IF m \in K THEN Append(f[m - 1], tree[m]) ELSE f[m - 1]]

\* There is such a function.
LEMMA PickedExists ==
  ASSUME NEW K
  PROVE  \A n \in Nat : \E f : IsPicked(K, f, n)
<1> DEFINE Good == {n \in Nat : \E f : IsPicked(K, f, n)}
<1>1. 0 \in Good
  <2> DEFINE f == [m \in 0..0 |-> <<>>]
  <2>1. IsPicked(K, f, 0)
    BY DEF IsPicked
  <2> QED BY <2>1
<1>2. ASSUME NEW n \in Nat, n \in Good
      PROVE  n + 1 \in Good
  <2>1. PICK f : IsPicked(K, f, n)
    BY <1>2
  <2> DEFINE last == IF n + 1 \in K THEN Append(f[n], tree[n + 1]) ELSE f[n]
             g == [m \in 0..n + 1 |-> IF m = n + 1 THEN last ELSE f[m]]
  <2>2. \A m \in 0..n : f[m] = IF m = 0 THEN <<>>
                               ELSE IF m \in K THEN Append(f[m - 1], tree[m]) ELSE f[m - 1]
    BY <2>1, Zenon DEF IsPicked
  <2>3. \A m \in 0..n + 1 : g[m] = IF m = 0 THEN <<>>
                                   ELSE IF m \in K THEN Append(g[m - 1], tree[m]) ELSE g[m - 1]
    <3> TAKE m \in 0..n + 1
    <3>1. CASE m = n + 1
      <4>1. g[m] = last /\ m # 0 /\ m - 1 = n
        BY <3>1
      <4>2. n \in 0..n + 1 /\ n # n + 1
        OBVIOUS
      <4>3. g[n] = f[n]
        BY <4>2
      <4> HIDE DEF g
      <4>4. g[m - 1] = f[n]
        BY <4>1, <4>3
      <4> QED BY <3>1, <4>1, <4>4
    <3>2. CASE m \in 0..n
      <4>1. g[m] = f[m]
        BY <3>2
      <4>2. m # 0 => g[m - 1] = f[m - 1]
        BY <3>2
      <4> HIDE DEF g
      <4> QED BY <2>2, <3>2, <4>1, <4>2
    <3> QED BY <3>1, <3>2
  <2>4. IsPicked(K, g, n + 1)
    <3>1. g = [m \in 0..n + 1 |-> g[m]]
      OBVIOUS
    <3> HIDE DEF g
    <3> QED BY <2>3, <3>1 DEF IsPicked
  <2> QED BY <2>4
<1> HIDE DEF Good
<1>3. \A n \in Nat : n \in Good
  BY <1>1, <1>2, SetInduction
<1> QED BY <1>3 DEF Good

\* What is left of the tree is made of what it was made of.
LEMMA EntriesType ==
  ASSUME NEW S, tree \in Seq(S), NEW K
  PROVE  Entries(K) \in Seq(S)
<1> DEFINE n == Len(tree)
           F == CHOOSE f : IsPicked(K, f, n)
           Good == {m \in Nat : m <= n => F[m] \in Seq(S)}
<1>1. n \in Nat /\ \A m \in 1..n : tree[m] \in S
  OBVIOUS
<1>2. Entries(K) = F[n]
  BY DEF Entries, IsPicked
<1>3. IsPicked(K, F, n)
  BY <1>1, PickedExists
<1> HIDE DEF F, n
<1>4. \A m \in 0..n : F[m] = IF m = 0 THEN <<>>
                             ELSE IF m \in K THEN Append(F[m - 1], tree[m]) ELSE F[m - 1]
  BY <1>3, Zenon DEF IsPicked
<1>5. 0 \in Good
  <2>1. 0 \in 0..n /\ F[0] = <<>>
    BY <1>1, <1>4
  <2>2. <<>> \in Seq(S) /\ 0 \in Nat
    OBVIOUS
  <2>3. F[0] \in Seq(S)
    BY <2>1, <2>2, Zenon
  <2> QED BY <2>2, <2>3
<1>6. ASSUME NEW m \in Nat, m \in Good
      PROVE  m + 1 \in Good
  <2> SUFFICES ASSUME m + 1 <= n
               PROVE  F[m + 1] \in Seq(S)
    OBVIOUS
  <2>1. PICK p \in 1..n : p = m + 1 /\ p - 1 = m
    BY <1>1
  <2>2. F[p] = IF p \in K THEN Append(F[p - 1], tree[p]) ELSE F[p - 1]
    BY <1>1, <1>4, <2>1
  <2>3. F[p - 1] \in Seq(S) /\ tree[p] \in S
    BY <1>1, <1>6, <2>1
  <2> QED BY <2>1, <2>2, <2>3
<1> HIDE DEF Good
<1>7. \A m \in Nat : m \in Good
  BY <1>5, <1>6, SetInduction
<1> QED BY <1>1, <1>2, <1>7 DEF Good
-----------------------------------------------------------------------------
\* What an instruction puts before the rest: a program, and a return after it.
IsPart(p, C) == p \in Seq(Todo(C)) /\ NilAfterFail(p) /\ ClearsFlag(p)

\* A program is such a part, and so is nothing.
LEMMA ProgramIsPart ==
  ASSUME NEW C
  PROVE  /\ \A p : IsProgram(p, C) => IsPart(p, C)
         /\ IsPart(<<>>, C)
<1>1. ASSUME NEW p, IsProgram(p, C)
      PROVE  IsPart(p, C)
  <2>1. p \in Seq(C) /\ NilAfterFail(p) /\ ClearsFlag(p)
    BY <1>1 DEF IsProgram
  <2>2. p \in Seq(Todo(C))
    BY <2>1 DEF Todo
  <2> QED BY <2>1, <2>2 DEF IsPart
<1>2. <<>> \in Seq(Todo(C)) /\ DOMAIN <<>> = {}
  OBVIOUS
<1>3. NilAfterFail(<<>>) /\ ClearsFlag(<<>>)
  BY <1>2, Zenon DEF NilAfterFail, ClearsFlag
<1> QED BY <1>1, <1>2, <1>3 DEF IsPart

\* The first instruction is of the code, or a return from an inner statement.
LEMMA FirstOfTodo ==
  ASSUME NEW C, todo \in Seq(Todo(C)), todo # <<>>
  PROVE  /\ Ins \in C \/ (Ins \in Outers /\ Ins.op = "outer" /\ Ins.loc \in 0..EOF)
         /\ Rest \in Seq(Todo(C))
<1>1. Ins \in Todo(C) /\ Rest \in Seq(Todo(C))
  BY DEF Ins, Rest
<1>2. \A x \in Outers : x.op = "outer" /\ x.loc \in 0..EOF
  BY DEF Outers
<1> QED BY <1>1, <1>2 DEF Todo

\* The instruction goes on to p, and once more or not.
GoesOn(C) ==
  \E p : /\ IsPart(p, C)
         /\ \/ todo' = p \o Rest
            \/ todo' = p \o todo /\ Ins.op \notin {"fail", "default"}

\* An instruction that goes on to a program, or to none, goes on.
LEMMA GoesOnTo ==
  ASSUME NEW C, todo \in Seq(Todo(C)), todo # <<>>, NEW p, IsProgram(p, C),
         \/ todo' = Rest \/ todo' = p \o Rest
         \/ todo' = p \o todo /\ Ins.op \notin {"fail", "default"}
  PROVE  GoesOn(C)
<1>1. IsPart(p, C) /\ IsPart(<<>>, C)
  BY ProgramIsPart
<1>2. CASE todo' = Rest
  <2>1. Rest = <<>> \o Rest
    BY FirstOfTodo
  <2>2. todo' = <<>> \o Rest
    BY <1>2, <2>1
  <2> QED BY <1>1, <2>2 DEF GoesOn
<1>3. CASE \/ todo' = p \o Rest
           \/ todo' = p \o todo /\ Ins.op \notin {"fail", "default"}
  BY <1>1, <1>3 DEF GoesOn
<1> QED BY <1>2, <1>3

\* The empty program.
LEMMA NoProgram ==
  ASSUME NEW C
  PROVE  IsProgram(<<>>, C)
BY DEF IsProgram, NilAfterFail, ClearsFlag

\* Every instruction goes on.
LEMMA InstructionGoesOn ==
  ASSUME NEW C, IsCode(C), todo \in Seq(Todo(C)), loc \in 0..EOF, Instruction
  PROVE  todo # <<>> /\ GoesOn(C)
<1>1. todo # <<>>
  BY DEF Instruction, Doing, DoWant, DoSwitch, DoPeek, DoIfMade, DoUntil, DoIdent, DoColLabel,
         DoParseInt, DoTake, DoFail, DoAssign, DoIfDefault, DoCall, DoInner, DoOuter
<1>2. CASE \/ DoWant \/ DoIdent \/ DoColLabel \/ DoParseInt \/ DoTake \/ DoFail \/ DoAssign
           \/ DoOuter
  <2>1. todo' = Rest
    BY <1>2 DEF DoWant, DoIdent, DoColLabel, DoParseInt, DoTake, DoFail, DoAssign, DoOuter, Goes
  <2> QED BY <1>1, <2>1, NoProgram, GoesOnTo
<1>4. CASE DoSwitch
  <2>1. Ins \in C /\ Ins.op = "switch"
    BY <1>1, <1>4, FirstOfTodo DEF DoSwitch, Doing, Ins
  <2>2. CASE tok \in DOMAIN Ins.cases
    <3>1. IsProgram(Ins.cases[tok], C)
      BY <2>1, <2>2 DEF IsCode
    <3>2. todo' = Ins.cases[tok] \o Rest \/ todo' = Ins.cases[tok] \o todo
      BY <1>4, <2>2 DEF DoSwitch, Goes
    <3> QED BY <1>1, <2>1, <3>1, <3>2, GoesOnTo
  <2>3. CASE tok \notin DOMAIN Ins.cases
    <3>1. IsProgram(Ins.other, C) /\ todo' = Ins.other \o Rest
      BY <1>4, <2>1, <2>3 DEF IsCode, DoSwitch, Goes
    <3> QED BY <1>1, <3>1, GoesOnTo
  <2> QED BY <2>2, <2>3, <1>1
<1>5. CASE DoPeek
  <2>1. Ins \in C /\ Ins.op = "peek"
    BY <1>1, <1>5, FirstOfTodo DEF DoPeek, Doing, Ins
  <2> DEFINE p == IF tok \in DOMAIN Ins.cases THEN Ins.cases[tok] ELSE Ins.other
  <2>2. IsProgram(p, C)
    BY <2>1 DEF IsCode
  <2>3. todo' = p \o Rest
    BY <1>5 DEF DoPeek, Goes
  <2> QED BY <1>1, <2>2, <2>3, GoesOnTo
<1>6. CASE DoIfMade
  <2>1. Ins \in C /\ Ins.op = "made"
    BY <1>1, <1>6, FirstOfTodo DEF DoIfMade, Doing, Ins
  <2> DEFINE p == IF tree # <<>> /\ tree[Len(tree)] = Ins.entry THEN Ins.yes ELSE <<>>
  <2>2. IsProgram(p, C)
    BY <2>1, NoProgram DEF IsCode
  <2>3. todo' = p \o Rest
    BY <1>6 DEF DoIfMade, Goes
  <2> QED BY <1>1, <2>2, <2>3, GoesOnTo
<1>7. CASE DoUntil
  <2>1. Ins \in C /\ Ins.op = "until"
    BY <1>1, <1>7, FirstOfTodo DEF DoUntil, Doing, Ins
  <2>2. IsProgram(Ins.body, C) /\ (todo' = Rest \/ todo' = Ins.body \o todo)
    BY <1>7, <2>1 DEF IsCode, DoUntil, Goes
  <2> QED BY <1>1, <2>1, <2>2, GoesOnTo
<1>8. CASE DoIfDefault
  <2>1. Ins \in C /\ Ins.op = "ifdefault"
    BY <1>1, <1>8, FirstOfTodo DEF DoIfDefault, Doing, Ins
  <2> DEFINE p == IF inColDefault THEN <<>> ELSE Ins.no
  <2>2. IsProgram(p, C)
    BY <2>1, NoProgram DEF IsCode
  <2>3. todo' = p \o Rest
    BY <1>8 DEF DoIfDefault, Goes
  <2> QED BY <1>1, <2>2, <2>3, GoesOnTo
<1>9. CASE DoCall
  <2>1. Ins \in C /\ Ins.op = "call"
    BY <1>1, <1>9, FirstOfTodo DEF DoCall, Doing, Ins
  <2>2. IsProgram(Routine[Ins.name], C) /\ todo' = Routine[Ins.name] \o Rest
    BY <1>9, <2>1 DEF IsCode, DoCall, Goes
  <2> QED BY <1>1, <2>2, GoesOnTo
<1>10. CASE DoInner
  <2> DEFINE o == [op |-> "outer", loc |-> loc]
             p == Routine[Ins.name]
             q == p \o <<o>>
  <2>1. Ins \in C /\ Ins.op = "inner"
    BY <1>1, <1>10, FirstOfTodo DEF DoInner, Doing, Ins
  <2>2. IsPart(p, C) /\ todo' = q \o Rest
    BY <1>10, <2>1, ProgramIsPart DEF IsCode, DoInner, Goes
  <2>3. o \in Todo(C) /\ o.op \notin {"nil", "default"}
    BY DEF Todo, Outers
  <2> HIDE DEF o, p
  <2>4. <<o>> \in Seq(Todo(C)) /\ NilAfterFail(<<o>>) /\ ClearsFlag(<<o>>)
    BY <2>3 DEF NilAfterFail, ClearsFlag, Assigns
  <2>5. IsPart(q, C)
    BY <2>2, <2>4, NilAfterFailConcat, ClearsFlagConcat DEF IsPart
  <2> HIDE DEF q
  <2> QED BY <1>1, <2>2, <2>5 DEF GoesOn
<1> QED BY <1>2, <1>4, <1>5, <1>6, <1>7, <1>8, <1>9, <1>10 DEF Instruction

\* What is left to do is as it should be: the types, and nil after a failure.
Onward(C) == todo' \in Seq(Todo(C)) /\ (NilAfterFail(todo) => NilAfterFail(todo'))

\* Every instruction but the failure keeps what is left to do as it should be.
LEMMA InstructionOnward ==
  ASSUME NEW C, IsCode(C), todo \in Seq(Todo(C)), loc \in 0..EOF, Instruction
  PROVE  /\ todo # <<>>
         /\ todo' \in Seq(Todo(C))
         /\ Onward(C) \/ DoFail
<1>1. PICK p : /\ IsPart(p, C)
               /\ \/ todo' = p \o Rest
                  \/ todo' = p \o todo /\ Ins.op \notin {"fail", "default"}
  BY InstructionGoesOn DEF GoesOn
<1>2. todo # <<>> /\ Rest \in Seq(Todo(C)) /\ p \in Seq(Todo(C)) /\ NilAfterFail(p)
  BY <1>1, InstructionGoesOn, FirstOfTodo DEF IsPart
<1>3. todo' \in Seq(Todo(C))
  <2> DEFINE T == Todo(C)
  <2>1. p \in Seq(T) /\ Rest \in Seq(T) /\ todo \in Seq(T)
    BY <1>2
  <2> HIDE DEF T
  <2>2. p \o Rest \in Seq(T) /\ p \o todo \in Seq(T)
    BY <2>1
  <2>3. todo' \in Seq(T)
    BY <1>1, <2>2, Zenon
  <2> QED BY <2>3 DEF T
<1>4. Ins.op = "fail" => DoFail
  BY DEF Instruction, Doing, Ins, DoWant, DoSwitch, DoPeek, DoIfMade, DoUntil, DoIdent, DoColLabel,
         DoParseInt, DoTake, DoAssign, DoIfDefault, DoCall, DoInner, DoOuter
<1>5. ASSUME Ins.op # "fail", NilAfterFail(todo)
      PROVE  NilAfterFail(todo')
  <2>1. NilAfterFail(Rest)
    BY <1>2, <1>5, NilAfterFailTail DEF Ins, Rest
  <2>2. CASE todo' = p \o Rest
    BY <1>2, <2>1, <2>2, NilAfterFailConcat
  <2>3. CASE todo' = p \o todo
    BY <1>2, <1>5, <2>3, NilAfterFailConcat
  <2> QED BY <1>1, <2>2, <2>3
<1> QED BY <1>2, <1>3, <1>4, <1>5 DEF Onward

\* The flag is cleared by what is left to do, if it is set.
Flagged(t, flag) == ClearsFlag(t) /\ (flag = TRUE => WillClear(t))

\* An instruction keeps that.
LEMMA InstructionFlag ==
  ASSUME NEW C, IsCode(C), todo \in Seq(Todo(C)), loc \in 0..EOF, Instruction,
         Flagged(todo, inColDefault)
  PROVE  Flagged(todo', inColDefault')
<1>1. PICK p : /\ IsPart(p, C)
               /\ \/ todo' = p \o Rest
                  \/ todo' = p \o todo /\ Ins.op \notin {"fail", "default"}
  BY InstructionGoesOn DEF GoesOn
<1>2. todo # <<>> /\ Rest \in Seq(Todo(C)) /\ p \in Seq(Todo(C)) /\ ClearsFlag(p)
  BY <1>1, InstructionGoesOn, FirstOfTodo DEF IsPart
<1>3. /\ ClearsFlag(Rest)
      /\ Assigns(Ins, TRUE) => WillClear(Rest)
      /\ WillClear(todo) /\ ~Assigns(Ins, FALSE) => WillClear(Rest)
  BY <1>2, ClearsFlagTail DEF Ins, Rest, Flagged
<1>4. \/ Ins.op # "default" /\ inColDefault' = inColDefault
      \/ Assigns(Ins, inColDefault')
  BY DEF Instruction, Doing, Ins, DoWant, DoSwitch, DoPeek, DoIfMade, DoUntil, DoIdent, DoColLabel,
         DoParseInt, DoTake, DoFail, DoAssign, DoIfDefault, DoCall, DoInner, DoOuter, Put, node, Assigns
<1>5. CASE todo' = p \o Rest
  <2>1. inColDefault' = TRUE => WillClear(Rest)
    BY <1>3, <1>4 DEF Assigns, Flagged
  <2> QED BY <1>2, <1>3, <1>5, <2>1, ClearsFlagConcat, WillClearConcat DEF Flagged
<1>6. CASE todo' = p \o todo /\ Ins.op # "default"
  <2>1. inColDefault' = inColDefault
    BY <1>4, <1>6 DEF Assigns
  <2> QED BY <1>2, <1>6, <2>1, ClearsFlagConcat, WillClearConcat DEF Flagged
<1> QED BY <1>1, <1>5, <1>6
-----------------------------------------------------------------------------
Fields == STRING \X STRING

\* The types of the node, of the list, and of what is left to do.
NodeTypes(C) ==
  /\ todo \in Seq(Todo(C))
  /\ tree \in Seq(Fields) /\ loc \in 0..EOF /\ isNil \in BOOLEAN /\ inColDefault \in BOOLEAN
  /\ nodes \in Seq([loc : 0..EOF, tree : Seq(Fields)]) /\ Len(nodes) = Len(stmts)

\* The invariant behind TypeOK.
TInv(C) == IInv /\ Record /\ NodeTypes(C)

\* The current token is a string, EOF is one too.
LEMMA TokenIsString ==
  ASSUME IInv
  PROVE  tok \in STRING
<1>1. "EOF" \in STRING
  BY LiteralsAreStrings
<1>2. i \in 1..Len(text) => text[i] \in STRING
  BY DEF IInv, Types
<1> QED BY <1>1, <1>2, Zenon DEF tok, TokenAt

\* A field is added to the tree.
LEMMA PutType ==
  ASSUME tree \in Seq(Fields), Ins.field \in STRING, NEW value \in STRING, Put(value)
  PROVE  tree' \in Seq(Fields) /\ UNCHANGED <<loc, isNil, inColDefault>>
<1>1. <<Ins.field, value>> \in Fields
  BY DEF Fields
<1>2. tree' = Append(tree, <<Ins.field, value>>)
  BY DEF Put
<1> QED BY <1>1, <1>2 DEF Put

\* An instruction keeps the types of the node.
LEMMA InstructionNode ==
  ASSUME NEW C, IsCode(C), TInv(C), Instruction
  PROVE  /\ tree' \in Seq(Fields) /\ loc' \in 0..EOF
         /\ isNil' \in BOOLEAN /\ inColDefault' \in BOOLEAN
<1> DEFINE Typed == /\ tree' \in Seq(Fields) /\ loc' \in 0..EOF
                    /\ isNil' \in BOOLEAN /\ inColDefault' \in BOOLEAN
<1>1. todo # <<>>
  BY InstructionOnward DEF TInv, NodeTypes
<1>2. /\ tree \in Seq(Fields) /\ loc \in 0..EOF /\ i \in 0..EOF
      /\ isNil \in BOOLEAN /\ inColDefault \in BOOLEAN
  BY DEF TInv, NodeTypes, IInv, Types, EOF
<1>3. Ins \in C \/ (Ins.op = "outer" /\ Ins.loc \in 0..EOF)
  BY <1>1, FirstOfTodo DEF TInv, NodeTypes
<1>4. tok \in STRING /\ "" \in STRING /\ "0" \in STRING
  <2>1. "" \in STRING /\ "0" \in STRING
    BY LiteralsAreStrings
  <2> QED BY <2>1, TokenIsString DEF TInv
<1>5. /\ Ins.op \in {"ident", "label", "int", "take", "put"} => Ins.field \in STRING
      /\ Ins.op = "put" => Ins.value \in STRING
      /\ Ins.op = "default" => Ins.value \in BOOLEAN
  BY <1>3 DEF IsCode
<1>6. CASE UNCHANGED node
  BY <1>2, <1>6 DEF node
<1>7. CASE DoIdent \/ DoColLabel \/ DoParseInt
  <2>1. Ins.field \in STRING
    BY <1>5, <1>7 DEF DoIdent, DoColLabel, DoParseInt, Doing, Ins
  <2>2. Put(tok) \/ Put("") \/ Put("0")
    BY <1>7, Zenon DEF DoIdent, DoColLabel, DoParseInt
  <2> QED BY <1>2, <1>4, <2>1, <2>2, PutType
<1>8. CASE DoTake
  <2>1. Ins.field \in STRING /\ (Put(tok) \/ UNCHANGED node)
    BY <1>5, <1>8 DEF DoTake, Doing, Ins
  <2> QED BY <1>2, <1>4, <1>6, <2>1, PutType
<1>9. CASE DoAssign
  <2>1. CASE Doing("put") /\ Put(Ins.value)
    <3>1. Ins.field \in STRING /\ Ins.value \in STRING
      BY <1>5, <2>1 DEF Doing, Ins
    <3> QED BY <1>2, <2>1, <3>1, PutType
  <2>2. CASE Doing("clear") /\ tree' = Entries(DOMAIN tree \ PlacesOf(Ins.fields))
                            /\ UNCHANGED <<loc, isNil, inColDefault>>
    BY <1>2, <2>2, EntriesType
  <2>3. CASE Doing("keep") /\ tree' = Entries(PlacesOf(Ins.fields))
                           /\ UNCHANGED <<loc, isNil, inColDefault>>
    BY <1>2, <2>3, EntriesType
  <2>4. CASE \/ Doing("mark") /\ loc' = i /\ UNCHANGED <<tree, isNil, inColDefault>>
             \/ Doing("unplaced") /\ loc' = 0 /\ UNCHANGED <<tree, isNil, inColDefault>>
    <3>1. 0 \in 0..EOF
      BY DEF TInv, IInv, Types, EOF
    <3>2. UNCHANGED <<tree, isNil, inColDefault>> /\ (loc' = i \/ loc' = 0)
      BY <2>4
    <3>3. loc' \in 0..EOF
      BY <1>2, <3>1, <3>2
    <3> QED BY <1>2, <3>2, <3>3, Zenon
  <2>5. CASE Doing("nil") /\ isNil' = TRUE /\ UNCHANGED <<tree, loc, inColDefault>>
    BY <1>2, <2>5
  <2>6. CASE Doing("default") /\ inColDefault' = Ins.value /\ UNCHANGED <<tree, loc, isNil>>
    <3>1. Ins.value \in BOOLEAN
      BY <1>5, <2>6 DEF Doing, Ins
    <3> QED BY <1>2, <2>6, <3>1
  <2> QED BY <1>9, <2>1, <2>2, <2>3, <2>4, <2>5, <2>6 DEF DoAssign
<1>10. CASE DoOuter
  <2>1. Ins.op = "outer" /\ Ins.loc \in 0..EOF
    BY <1>3, <1>10 DEF DoOuter, Doing, Ins, IsCode
  <2> QED BY <1>2, <1>10, <2>1 DEF DoOuter
<1>11. ASSUME \/ DoWant \/ DoSwitch \/ DoPeek \/ DoIfMade \/ DoUntil \/ DoFail
              \/ DoIfDefault \/ DoCall \/ DoInner
       PROVE  UNCHANGED node
  BY <1>11
     DEF DoWant, DoSwitch, DoPeek, DoIfMade, DoUntil, DoFail, DoIfDefault, DoCall, DoInner
<1> QED BY <1>6, <1>7, <1>8, <1>9, <1>10, <1>11 DEF Instruction

\* The types hold at the start.
LEMMA InitTypes ==
  ASSUME NEW C, Init
  PROVE  TInv(C)
<1>1. todo = <<>> /\ tree = <<>> /\ loc = 0 /\ stmts = <<>> /\ nodes = <<>> /\ text \in Texts
  BY DEF Init
<1>2. isNil \in BOOLEAN /\ inColDefault \in BOOLEAN
  BY Zenon DEF Init
<1>3. loc \in 0..EOF
  BY <1>1, NoTokenIsEOF DEF EOF
<1>4. NodeTypes(C)
  BY <1>1, <1>2, <1>3 DEF NodeTypes
<1> QED BY <1>4, InitIInv, InitRecord DEF TInv

\* The actions of parseStmtList keep them.
LEMMA ListNode ==
  ASSUME NEW C, IsCode(C), TInv(C), List, text' = text
  PROVE  NodeTypes(C)'
<1>1. EOF' = EOF /\ Todo(C)' = Todo(C) /\ i \in 0..EOF
  BY DEF EOF, Todo, Outers, TInv, IInv, Types
<1>2. CASE ListEnd \/ Separator \/ SkipToSemicolon
  <2>1. UNCHANGED <<todo, node, result>>
    BY <1>2 DEF ListEnd, Separator, SkipToSemicolon
  <2> QED BY <1>1, <2>1 DEF TInv, NodeTypes, node, result
<1>3. CASE CallParseStmt
  <2>1. Routine["Stmt"] \in Seq(Todo(C))
    BY DEF IsCode, IsProgram, Todo
  <2>2. /\ todo' = Routine["Stmt"] /\ tree' = <<>> /\ loc' = i
        /\ UNCHANGED <<stmts, nodes, inColDefault>>
    BY <1>3 DEF CallParseStmt, result
  <2>3. isNil' \in BOOLEAN
    BY <1>3, Zenon DEF CallParseStmt
  <2>4. inColDefault \in BOOLEAN /\ nodes \in Seq([loc : 0..EOF, tree : Seq(Fields)])
        /\ Len(nodes) = Len(stmts)
    BY DEF TInv, NodeTypes
  <2>5. tree' \in Seq(Fields) /\ loc' \in 0..EOF
    BY <1>1, <2>2
  <2> QED BY <1>1, <2>1, <2>2, <2>3, <2>4, <2>5 DEF NodeTypes
<1>4. CASE ReturnStmt
  <2>1. UNCHANGED <<todo, node>>
    BY <1>4 DEF ReturnStmt
  <2>2. CASE UNCHANGED result
    BY <1>1, <2>1, <2>2 DEF TInv, NodeTypes, node, result
  <2>3. CASE /\ stmts' = Append(stmts, [from |-> rounds[Len(rounds)], end |-> i])
             /\ nodes' = Append(nodes, [loc |-> loc, tree |-> tree])
    <3> DEFINE N == [loc : 0..EOF, tree : Seq(Fields)]
    <3>1. [loc |-> loc, tree |-> tree] \in N
      BY DEF TInv, NodeTypes
    <3>2. nodes' \in Seq(N) /\ Len(nodes') = Len(nodes) + 1
      <4> HIDE DEF N
      <4>1. nodes \in Seq(N)
        BY DEF TInv, NodeTypes, N
      <4> QED BY <2>3, <3>1, <4>1
    <3>3. Len(stmts') = Len(stmts) + 1
      BY <2>3, StmtExtent DEF TInv, IInv, Types
    <3> QED BY <1>1, <2>1, <3>2, <3>3 DEF TInv, NodeTypes, node
  <2> QED BY <1>4, <2>2, <2>3 DEF ReturnStmt
<1> QED BY <1>2, <1>3, <1>4 DEF List

\* Every step keeps them.
LEMMA NextTypes ==
  ASSUME NEW C, IsCode(C), TInv(C), [Next]_vars
  PROVE  TInv(C)'
<1>1. IInv' /\ Record'
  BY NextIInv, NextEffect, EffectRecord DEF TInv
<1>2. text' = text /\ EOF' = EOF /\ Todo(C)' = Todo(C)
  BY NextEffect, EffectMoves DEF TInv, Record, EOF, Todo, Outers
<1>3. CASE Instruction
  <2>1. todo' \in Seq(Todo(C)) /\ UNCHANGED result
    BY <1>3, InstructionOnward, InstructionEffect DEF TInv, NodeTypes, Outside
  <2> QED BY <1>1, <1>2, <1>3, <2>1, InstructionNode DEF TInv, NodeTypes, result
<1>4. CASE List
  BY <1>1, <1>2, <1>4, ListNode DEF TInv
<1>5. CASE UNCHANGED vars
  BY <1>1, <1>2, <1>5 DEF TInv, NodeTypes, vars, node, result
<1> QED BY <1>3, <1>4, <1>5 DEF Next

\* TypeOK for every text and all statement parsers that are code: no place is
\* outside the text, no error and no field has another type.
THEOREM SpecTypeOK ==
  ASSUME NEW C, IsCode(C)
  PROVE  Spec => []TypeOK
<1>1. Init => TInv(C)
  BY InitTypes
<1>2. TInv(C) /\ [Next]_vars => TInv(C)'
  BY NextTypes
<1>3. TInv(C) => TypeOK
  <2> SUFFICES ASSUME TInv(C) PROVE TypeOK
    OBVIOUS
  <2>1. first \in 0..EOF /\ errcnt \in Nat /\ log \in Seq(-1..EOF)
    <3>1. Recorded(log, first, errcnt, i) /\ i \in 1..EOF /\ EOF \in Nat
      BY DEF TInv, Record, EOF
    <3>2. \A k \in DOMAIN log : log[k] \in -1..EOF
      BY <3>1 DEF Recorded, Parsers
    <3>3. log \in Seq(-1..EOF)
      BY <3>1, <3>2 DEF Recorded
    <3>4. first \in 0..EOF
      BY <3>1 DEF Recorded, Parsers
    <3> QED BY <3>1, <3>3, <3>4 DEF Recorded
  <2> QED BY <2>1 DEF TInv, IInv, Types, NodeTypes, Fields, TypeOK
<1> QED BY <1>1, <1>2, <1>3, PTL DEF Spec
-----------------------------------------------------------------------------
\* An error was reported with a position from a to b.
Reported(a, b) == \E n \in DOMAIN log : log[n] \in a..b

\* A statement was made of the tokens from a to b, a semicolon at its end left
\* out.
Made(a, b) ==
  \E s \in DOMAIN stmts :
    /\ stmts[s].from = a
    /\ b = IF TokenAt(stmts[s].end) = "semi" THEN stmts[s].end ELSE stmts[s].end - 1

\* Every turn that is over, but the last one, is accounted for.
EarlierTurns ==
  \A k \in DOMAIN rounds : k < Len(rounds) =>
    Reported(rounds[k], rounds[k + 1] - 1) \/ Made(rounds[k], rounds[k + 1] - 1)

\* So is the last one, as far as it has come.  A statement parser that will
\* return nil has reported an error or has still to do so.
LastTurn ==
  rounds # <<>> =>
    /\ pc \in {"list", "done"} =>
         Reported(Began, IF tok = "EOF" THEN i ELSE i - 1) \/ Made(Began, i - 1)
    /\ pc = "stmt" => /\ Reported(Began, i) \/ NilAfterFail(todo)
                      /\ isNil => Reported(Began, i)
    /\ pc = "sep" => \/ Reported(Began, i)
                     \/ \E s \in DOMAIN stmts : stmts[s].from = Began /\ stmts[s].end = i
    /\ pc = "skip" => Reported(Began, i)

\* The invariant behind NothingIsLost.
LInv(C) == TInv(C) /\ EarlierTurns /\ LastTurn

\* What has been reported stays so, and an error counts from here on.
LEMMA EffectReported ==
  ASSUME Record, Effect
  PROVE  /\ \A a, b : Reported(a, b) => Reported(a, b)'
         /\ Report \/ ReportAndConsume =>
              \A a \in Int : a <= i => (\E n \in DOMAIN log' : log'[n] \in a..i)
<1>1. log \in Seq(Int) /\ i \in Int
  BY DEF Record, Recorded
<1>2. \A k : ScanErrors(k) \in Seq(Int)
  BY DEF ScanErrors
<1>3. ASSUME NEW x \in Seq(Int), NEW y \in Seq(Int)
      PROVE  /\ x \o y \in Seq(Int) /\ DOMAIN x \subseteq DOMAIN (x \o y)
             /\ \A n \in DOMAIN x : (x \o y)[n] = x[n]
  BY <1>3
<1>4. /\ Append(log, i) \in Seq(Int) /\ DOMAIN log \subseteq DOMAIN Append(log, i)
      /\ \A n \in DOMAIN log : Append(log, i)[n] = log[n]
      /\ Len(log) + 1 \in DOMAIN Append(log, i) /\ Append(log, i)[Len(log) + 1] = i
  BY <1>1
<1>5. log' \in {log, log \o ScanErrors(i'), Append(log, i), Append(log, i) \o ScanErrors(i')}
  BY DEF Effect, Stay, Consume, Report, ReportAndConsume, errors
<1>6. DOMAIN log \subseteq DOMAIN log' /\ \A n \in DOMAIN log : log'[n] = log[n]
  <2>1. CASE log' = log \/ log' = Append(log, i)
    BY <1>4, <2>1
  <2>2. CASE log' = log \o ScanErrors(i')
    BY <1>1, <1>2, <1>3, <2>2
  <2>3. CASE log' = Append(log, i) \o ScanErrors(i')
    <3> DEFINE x == Append(log, i)
    <3>1. x \in Seq(Int) /\ log' = x \o ScanErrors(i')
      BY <1>4, <2>3
    <3>2. DOMAIN x \subseteq DOMAIN log' /\ \A n \in DOMAIN x : log'[n] = x[n]
      <4> HIDE DEF x
      <4> QED BY <1>2, <1>3, <3>1
    <3> QED BY <1>4, <3>2
  <2> QED BY <1>5, <2>1, <2>2, <2>3
<1>7. ASSUME NEW a, NEW b, Reported(a, b)
      PROVE  Reported(a, b)'
  BY <1>6, <1>7 DEF Reported
<1>8. ASSUME Report \/ ReportAndConsume, NEW a \in Int, a <= i
      PROVE  \E n \in DOMAIN log' : log'[n] \in a..i
  <2> DEFINE x == Append(log, i)
             q == Len(log) + 1
  <2>1. x \in Seq(Int) /\ q \in DOMAIN x /\ x[q] = i
    BY <1>4
  <2>2. q \in DOMAIN log' /\ log'[q] = i
    <3>1. CASE log' = x
      BY <2>1, <3>1
    <3>2. CASE log' = x \o ScanErrors(i')
      <4> HIDE DEF x, q
      <4> QED BY <1>2, <1>3, <2>1, <3>2
    <3> QED BY <1>8, <3>1, <3>2 DEF Report, ReportAndConsume
  <2> QED BY <1>1, <1>8, <2>2
<1> QED BY <1>7, <1>8

\* What was made stays made while no statement is added.
LEMMA MadeStays ==
  ASSUME UNCHANGED <<text, stmts>>
  PROVE  \A a, b : Made(a, b) => Made(a, b)'
BY DEF Made, TokenAt

\* A report that reaches to b reaches further.
LEMMA ReportedFurther ==
  ASSUME Record, NEW a \in Int, NEW b \in Int, NEW c \in Int, b <= c, Reported(a, b)
  PROVE  Reported(a, c)
<1>1. \A n \in DOMAIN log : log[n] \in Int
  BY DEF Record, Recorded
<1> QED BY <1>1 DEF Reported

\* Where the current turn began.
LEMMA LastType ==
  ASSUME IInv, pc \in Turning \/ rounds # <<>>
  PROVE  /\ rounds # <<>> /\ Len(rounds) \in DOMAIN rounds /\ Began \in Int /\ Began <= i
         /\ i \in Int
<1>1. rounds # <<>>
  BY DEF IInv, TurnsInOrder
<1>2. Len(rounds) \in DOMAIN rounds
  BY <1>1 DEF IInv, Types
<1> QED BY <1>1, <1>2, StmtExtent DEF IInv, Types, TurnsInOrder, Began

\* The earlier turns stay accounted for.
LEMMA EarlierStay ==
  ASSUME Record, EarlierTurns, Effect, UNCHANGED <<text, rounds>>,
         \A a, b : Made(a, b) => Made(a, b)'
  PROVE  EarlierTurns'
BY EffectReported DEF EarlierTurns

\* The turn goes on with what it has reported, and reports at i.
LEMMA ReportedOn ==
  ASSUME IInv, Record, Effect, UNCHANGED rounds, rounds # <<>>
  PROVE  /\ Reported(Began, i) => (\E n \in DOMAIN log' : log'[n] \in Began..i)
         /\ Report \/ ReportAndConsume => (\E n \in DOMAIN log' : log'[n] \in Began..i)
         /\ (\E n \in DOMAIN log' : log'[n] \in Began..i) => Reported(Began, i)'
<1>1. Began \in Int /\ Began <= i /\ i \in Int /\ Began' = Began
  BY LastType DEF Began
<1>2. i <= i' /\ i' \in Int
  BY EffectMoves DEF Record, EOF
<1>3. Record'
  BY EffectRecord
<1>4. \A n \in DOMAIN log' : log'[n] \in Int
  BY <1>3 DEF Record, Recorded
<1>5. (\E n \in DOMAIN log' : log'[n] \in Began..i) => Reported(Began, i)'
  BY <1>1, <1>2, <1>4 DEF Reported
<1>6. Reported(Began, i) => (\E n \in DOMAIN log' : log'[n] \in Began..i)
  BY EffectReported DEF Reported
<1>7. Report \/ ReportAndConsume => (\E n \in DOMAIN log' : log'[n] \in Began..i)
  BY <1>1, EffectReported
<1> QED BY <1>5, <1>6, <1>7

\* Only "nil" makes parseStmt return nil.
LEMMA OnlyNil ==
  ASSUME Instruction, isNil'
  PROVE  isNil \/ Doing("nil")
BY DEF Instruction, DoWant, DoSwitch, DoPeek, DoIfMade, DoUntil, DoIdent, DoColLabel, DoParseInt,
       DoTake, DoFail, DoAssign, DoIfDefault, DoCall, DoInner, DoOuter, Put, node

\* An instruction keeps the account.
LEMMA InstructionAccount ==
  ASSUME NEW C, IsCode(C), LInv(C), Instruction
  PROVE  EarlierTurns' /\ LastTurn'
<1>1. /\ IInv /\ Record /\ Effect /\ UNCHANGED <<text, rounds, stmts>>
      /\ pc = "stmt" /\ pc' = "stmt"
  <2>1. IInv /\ Record
    BY DEF LInv, TInv
  <2>2. Effect /\ UNCHANGED Outside
    BY InstructionEffect
  <2>3. pc = "stmt"
    BY DEF Instruction, Doing, DoWant, DoSwitch, DoPeek, DoIfMade, DoUntil, DoIdent, DoColLabel,
           DoParseInt, DoTake, DoFail, DoAssign, DoIfDefault, DoCall, DoInner, DoOuter
  <2> QED BY <2>1, <2>2, <2>3, EffectMoves DEF Outside, result, Record
<1>2. EarlierTurns'
  BY <1>1, MadeStays, EarlierStay DEF LInv
<1>3. rounds # <<>>
  BY <1>1, LastType DEF Turning
<1>4. Reported(Began, i) \/ NilAfterFail(todo)
  BY <1>1, <1>3 DEF LInv, LastTurn
<1>5. Reported(Began, i) => Reported(Began, i)'
  BY <1>1, <1>3, ReportedOn
<1>6. CASE Reported(Began, i)
  <2>1. LastTurn'
    BY <1>1, <1>5, <1>6 DEF LastTurn
  <2> QED BY <1>2, <2>1
<1>7. CASE ~Reported(Began, i)
  <2>1. NilAfterFail(todo) /\ ~isNil
    BY <1>1, <1>3, <1>4, <1>7 DEF LInv, LastTurn
  <2>2. todo # <<>> /\ todo \in Seq(Todo(C)) /\ (Onward(C) \/ DoFail)
    BY InstructionOnward DEF LInv, TInv, NodeTypes
  <2>3. ~Doing("nil")
    BY <2>1, <2>2, NilAfterFailTail DEF Doing
  <2>4. ~isNil'
    BY <2>1, <2>3, OnlyNil
  <2>5. CASE Onward(C)
    <3>1. NilAfterFail(todo')
      BY <2>1, <2>5 DEF Onward
    <3>2. LastTurn'
      BY <1>1, <2>4, <3>1 DEF LastTurn
    <3> QED BY <1>2, <3>2
  <2>6. CASE DoFail
    <3>1. Reported(Began, i)'
      BY <1>1, <1>3, <2>6, ReportedOn DEF DoFail
    <3>2. LastTurn'
      BY <1>1, <3>1 DEF LastTurn
    <3> QED BY <1>2, <3>2
  <2> QED BY <2>2, <2>5, <2>6
<1> QED BY <1>2, <1>6, <1>7

\* The end of the list keeps it.
LEMMA ListEndAccount ==
  ASSUME NEW C, LInv(C), ListEnd
  PROVE  EarlierTurns' /\ LastTurn'
<1>1. /\ UNCHANGED <<text, i, rounds, stmts, log>> /\ Began' = Began /\ tok' = tok
      /\ pc = "list" /\ pc' = "done"
  BY DEF ListEnd, token, result, errors, Began, tok, TokenAt
<1>2. \A a, b : (Reported(a, b) => Reported(a, b)') /\ (Made(a, b) => Made(a, b)')
  BY <1>1 DEF Reported, Made, TokenAt
<1> QED BY <1>1, <1>2 DEF LInv, EarlierTurns, LastTurn

\* A new turn begins where the last one has been accounted for.
LEMMA CallParseStmtAccount ==
  ASSUME NEW C, IsCode(C), LInv(C), CallParseStmt
  PROVE  EarlierTurns' /\ LastTurn'
<1>1. /\ UNCHANGED <<text, i, stmts, log>> /\ tok # "EOF" /\ rounds' = Append(rounds, i)
      /\ pc = "list" /\ pc' = "stmt" /\ todo' = Routine["Stmt"] /\ isNil' = FALSE
  BY DEF CallParseStmt, token, result, errors
<1>2. /\ rounds \in Seq(Int) /\ i \in Int
      /\ Len(rounds) \in Nat /\ Len(rounds') = Len(rounds) + 1 /\ DOMAIN rounds = 1..Len(rounds)
      /\ DOMAIN rounds' = 1..Len(rounds) + 1
      /\ rounds'[Len(rounds) + 1] = i /\ \A k \in 1..Len(rounds) : rounds'[k] = rounds[k]
  BY <1>1 DEF LInv, TInv, IInv, Types
<1>3. ASSUME NEW k \in 1..Len(rounds), NEW a, NEW b, a = rounds'[k], b = rounds'[k + 1] - 1,
             Reported(a, b) \/ Made(a, b)
      PROVE  (Reported(rounds[k], rounds[k + 1] - 1) \/ Made(rounds[k], rounds[k + 1] - 1))'
  <2>1. (Reported(a, b) \/ Made(a, b))'
    BY <1>1, <1>3 DEF Reported, Made, TokenAt
  <2> QED BY <1>3, <2>1, Zenon
<1>4. ASSUME NEW k \in 1..Len(rounds)
      PROVE  (Reported(rounds[k], rounds[k + 1] - 1) \/ Made(rounds[k], rounds[k + 1] - 1))'
  <2>1. CASE k = Len(rounds)
    <3>1. PICK a, b : a = rounds'[k] /\ b = rounds'[k + 1] - 1
      OBVIOUS
    <3>2. a = Began /\ b = i - 1 /\ rounds # <<>>
      BY <1>2, <2>1, <3>1 DEF Began
    <3>3. Reported(a, b) \/ Made(a, b)
      BY <1>1, <3>2 DEF LInv, LastTurn
    <3> QED BY <1>3, <3>1, <3>3
  <2>2. CASE k < Len(rounds)
    <3>1. PICK a, b : a = rounds'[k] /\ b = rounds'[k + 1] - 1
      OBVIOUS
    <3>2. a = rounds[k] /\ b = rounds[k + 1] - 1
      BY <1>2, <2>2, <3>1
    <3>3. Reported(a, b) \/ Made(a, b)
      BY <1>2, <2>2, <3>2 DEF LInv, EarlierTurns
    <3> QED BY <1>3, <3>1, <3>3
  <2>3. k = Len(rounds) \/ k < Len(rounds)
    <3>1. Len(rounds) \in Nat
      BY <1>2
    <3> QED BY <3>1
  <2> QED BY <2>1, <2>2, <2>3, Zenon
<1>5. EarlierTurns'
  <2> SUFFICES ASSUME NEW k \in DOMAIN rounds', k < Len(rounds')
               PROVE  (Reported(rounds[k], rounds[k + 1] - 1)
                        \/ Made(rounds[k], rounds[k + 1] - 1))'
    BY DEF EarlierTurns
  <2>1. k \in 1..Len(rounds)
    BY <1>2
  <2> QED BY <1>4, <2>1
<1>6. NilAfterFail(todo)'
  BY <1>1 DEF IsCode, IsProgram
<1> QED BY <1>1, <1>5, <1>6 DEF LastTurn

\* A statement that returns is made of the tokens of its turn.
LEMMA ReturnStmtAccount ==
  ASSUME NEW C, LInv(C), ReturnStmt
  PROVE  EarlierTurns' /\ LastTurn'
<1>1. /\ UNCHANGED <<text, i, rounds, log>> /\ Began' = Began /\ IInv
      /\ pc = "stmt" /\ pc' = "sep"
  BY DEF ReturnStmt, token, errors, Began, LInv, TInv
<1>2. rounds # <<>>
  BY <1>1, LastType DEF Turning
<1>3. \A a, b : Reported(a, b) => Reported(a, b)'
  BY <1>1 DEF Reported
<1>4. CASE isNil /\ UNCHANGED result
  <2>1. Reported(Began, i)
    BY <1>1, <1>2, <1>4 DEF LInv, LastTurn
  <2>2. \A a, b : Made(a, b) => Made(a, b)'
    BY <1>1, <1>4, MadeStays DEF result
  <2>3. EarlierTurns'
    BY <1>1, <1>3, <2>2 DEF LInv, EarlierTurns
  <2> QED BY <1>1, <1>3, <2>1, <2>3 DEF LastTurn
<1>5. CASE stmts' = Append(stmts, [from |-> rounds[Len(rounds)], end |-> i])
  <2> DEFINE new == [from |-> rounds[Len(rounds)], end |-> i]
  <2>1. new.from = Began /\ new.end = i
    BY DEF Began
  <2>2. \E S : stmts \in Seq(S) /\ new \in S
    <3>1. new \in [from : 1..Len(text), end : 1..EOF]
      BY <1>1, <1>2, LastType, StmtExtent DEF IInv, Types
    <3> HIDE DEF new
    <3> QED BY <1>1, <3>1 DEF IInv, Types
  <2> HIDE DEF new
  <2>3. /\ DOMAIN stmts \subseteq DOMAIN stmts' /\ \A s \in DOMAIN stmts : stmts'[s] = stmts[s]
        /\ Len(stmts) + 1 \in DOMAIN stmts' /\ stmts'[Len(stmts) + 1] = new
    BY <1>5, <2>2 DEF new
  <2>4. \A a, b : Made(a, b) => Made(a, b)'
    BY <1>1, <2>3 DEF Made, TokenAt
  <2>5. EarlierTurns'
    BY <1>1, <1>3, <2>4 DEF LInv, EarlierTurns
  <2>6. \E s \in DOMAIN stmts' : stmts'[s].from = Began /\ stmts'[s].end = i
    BY <2>1, <2>3
  <2> QED BY <1>1, <2>5, <2>6 DEF LastTurn
<1> QED BY <1>4, <1>5 DEF ReturnStmt

\* A turn ends before its semicolon is counted out, or at EOF.
LEMMA TurnEnds ==
  ASSUME IInv, Record, Effect, UNCHANGED <<text, rounds>>, rounds # <<>>, Reported(Began, i),
         pc' = "list", (tok = "semi" /\ Consume) \/ (tok = "EOF" /\ Stay)
  PROVE  LastTurn'
<1>1. Began' = Began /\ i \in Int
  BY LastType DEF Began
<1>2. \E n \in DOMAIN log' : log'[n] \in Began..i
  BY ReportedOn
<1>3. CASE tok = "semi" /\ Consume
  <2>1. i' = i + 1
    BY <1>3, TokenInText DEF Consume, Following, IInv, Types, tok, EOF
  <2>2. i' - 1 = i
    BY <1>1, <2>1
  <2>3. Reported(Began, i)' /\ Reported(Began, i - 1)'
    BY <1>1, <1>2, <2>2, ReportedOn DEF Reported
  <2> QED BY <2>3 DEF LastTurn
<1>4. CASE tok = "EOF" /\ Stay
  <2>1. Reported(Began, i)' /\ tok' = "EOF"
    BY <1>2, <1>4, ReportedOn DEF Stay, token, tok, TokenAt
  <2> QED BY <2>1 DEF LastTurn
<1> QED BY <1>3, <1>4

\* After a statement: its semicolon, the end, or an error.
LEMMA SeparatorAccount ==
  ASSUME NEW C, LInv(C), Separator
  PROVE  EarlierTurns' /\ LastTurn'
<1>1. /\ IInv /\ Record /\ Effect /\ UNCHANGED <<text, rounds, stmts>> /\ pc = "sep"
  BY DEF LInv, TInv, Separator, Effect, result, Consume, Stay, Report, token
<1>2. EarlierTurns'
  BY <1>1, MadeStays, EarlierStay DEF LInv
<1>3. rounds # <<>> /\ i \in Int /\ Began' = Began
  BY <1>1, LastType DEF Turning, Began
<1>4. CASE tok \notin {"semi", "EOF"} /\ Report /\ pc' = "skip"
  <2>1. Reported(Began, i)'
    BY <1>1, <1>3, <1>4, ReportedOn
  <2> QED BY <1>2, <1>4, <2>1 DEF LastTurn
<1>5. CASE (tok = "semi" /\ Consume /\ pc' = "list") \/ (tok = "EOF" /\ Stay /\ pc' = "list")
  <2>1. CASE Reported(Began, i)
    BY <1>1, <1>2, <1>3, <1>5, <2>1, TurnEnds
  <2>2. CASE \E s \in DOMAIN stmts : stmts[s].from = Began /\ stmts[s].end = i
    <3>1. PICK s \in DOMAIN stmts : stmts[s].from = Began /\ stmts[s].end = i
      BY <2>2
    <3>2. i' - 1 = IF tok = "semi" THEN i ELSE i - 1
      <4>1. CASE tok = "semi" /\ Consume
        BY <1>1, <4>1, TokenInText DEF Consume, Following, IInv, Types, tok, EOF
      <4>2. CASE tok = "EOF" /\ Stay
        BY <4>2 DEF Stay, token
      <4> QED BY <1>5, <4>1, <4>2
    <3>3. Made(Began, i - 1)'
      BY <1>1, <1>3, <3>1, <3>2 DEF Made, tok, TokenAt
    <3> QED BY <1>2, <1>5, <3>3 DEF LastTurn
  <2> QED BY <1>1, <1>3, <2>1, <2>2 DEF LInv, LastTurn
<1> QED BY <1>4, <1>5 DEF Separator

\* The recovery has an error to account for what it skips.
LEMMA SkipAccount ==
  ASSUME NEW C, LInv(C), SkipToSemicolon
  PROVE  EarlierTurns' /\ LastTurn'
<1>1. /\ IInv /\ Record /\ Effect /\ UNCHANGED <<text, rounds, stmts>> /\ pc = "skip"
  BY DEF LInv, TInv, SkipToSemicolon, Effect, result, Consume, Stay, token
<1>2. EarlierTurns'
  BY <1>1, MadeStays, EarlierStay DEF LInv
<1>3. rounds # <<>> /\ Reported(Began, i)
  BY <1>1, LastType DEF Turning, LInv, LastTurn
<1>4. CASE Consume /\ UNCHANGED pc
  <2>1. Reported(Began, i)'
    BY <1>1, <1>3, ReportedOn
  <2> QED BY <1>1, <1>2, <1>4, <2>1 DEF LastTurn
<1>5. CASE (tok = "semi" /\ Consume /\ pc' = "list") \/ (tok = "EOF" /\ Stay /\ pc' = "list")
  BY <1>1, <1>2, <1>3, <1>5, TurnEnds
<1> QED BY <1>4, <1>5 DEF SkipToSemicolon

\* The invariant holds at the start, and every step keeps it.
LEMMA InitLInv ==
  ASSUME NEW C, Init
  PROVE  LInv(C)
<1>1. rounds = <<>>
  BY DEF Init
<1> QED BY <1>1, InitTypes DEF LInv, EarlierTurns, LastTurn

\* Every step keeps the account of the turns.
LEMMA NextLInv ==
  ASSUME NEW C, IsCode(C), LInv(C), [Next]_vars
  PROVE  LInv(C)'
<1>1. TInv(C)'
  BY NextTypes DEF LInv
<1>2. CASE Instruction
  BY <1>1, <1>2, InstructionAccount DEF LInv
<1>3. CASE List
  BY <1>1, <1>3, ListEndAccount, CallParseStmtAccount, ReturnStmtAccount, SeparatorAccount,
     SkipAccount DEF List, LInv
<1>4. CASE UNCHANGED vars
  <2>1. EarlierTurns' /\ LastTurn'
    BY <1>4 DEF LInv, EarlierTurns, LastTurn, Reported, Made, NilAfterFail, Began, tok, TokenAt,
                vars, token, node, result, errors
  <2> QED BY <1>1, <2>1 DEF LInv
<1> QED BY <1>2, <1>3, <1>4 DEF Next

\* No token is lost without a word, in any text: a turn of the loop over
\* statements that reported no error made a statement of all its tokens, as
\* long as a statement parser that returns nil has reported an error.
THEOREM SpecNothingIsLost ==
  ASSUME NEW C, IsCode(C)
  PROVE  Spec => []NothingIsLost
<1>1. Init => LInv(C)
  BY InitLInv
<1>2. LInv(C) /\ [Next]_vars => LInv(C)'
  BY NextLInv
<1>3. ASSUME LInv(C), pc \in {"list", "done"}, NEW k \in DOMAIN rounds
      PROVE  \/ \E n \in DOMAIN log :
                  log[n] \in rounds[k]..(IF k < Len(rounds) THEN LastOf(k) ELSE i)
             \/ \E s \in DOMAIN stmts :
                  /\ stmts[s].from = rounds[k]
                  /\ LastOf(k) = IF TokenAt(stmts[s].end) = "semi" THEN stmts[s].end
                                 ELSE stmts[s].end - 1
  <2>1. CASE k < Len(rounds)
    BY <1>3, <2>1 DEF LInv, EarlierTurns, Reported, Made, LastOf
  <2>2. CASE ~(k < Len(rounds))
    <3>1. IInv /\ Record /\ rounds # <<>>
      BY <1>3 DEF LInv, TInv, IInv, Types
    <3>2. k = Len(rounds) /\ rounds[k] = Began /\ LastOf(k) = i - 1
      BY <2>2, <3>1, StmtExtent DEF IInv, Began, LastOf
    <3>3. Reported(Began, IF tok = "EOF" THEN i ELSE i - 1) \/ Made(Began, i - 1)
      BY <1>3, <3>1 DEF LInv, LastTurn
    <3>4. Reported(Began, IF tok = "EOF" THEN i ELSE i - 1) => Reported(Began, i)
      BY <3>1, LastType, ReportedFurther
    <3> QED BY <2>2, <3>2, <3>3, <3>4 DEF Reported, Made
  <2> QED BY <2>1, <2>2
<1>4. LInv(C) => NothingIsLost
  BY <1>3 DEF NothingIsLost
<1> QED BY <1>1, <1>2, <1>4, PTL DEF Spec
-----------------------------------------------------------------------------
\* The flag is clear between statements; in one it is cleared by what is left
\* to do, if it is set.
FlagIsBound == IF pc = "stmt" THEN Flagged(todo, inColDefault) ELSE inColDefault = FALSE

\* The invariant behind FlagIsCleared.
FInv(C) == TInv(C) /\ FlagIsBound

\* The flag is clear at the start.
LEMMA InitFlag ==
  ASSUME NEW C, Init
  PROVE  FInv(C)
<1>1. pc = "list" /\ inColDefault = FALSE
  BY Zenon DEF Init
<1>2. FlagIsBound
  BY <1>1 DEF FlagIsBound
<1> QED BY <1>2, InitTypes DEF FInv

\* A statement parser begins with the flag clear, and when nothing is left of
\* it the flag is clear again; between statements nothing touches it.
LEMMA ListFlag ==
  ASSUME NEW C, IsCode(C), FInv(C), List
  PROVE  FlagIsBound'
<1>1. inColDefault' = inColDefault
  BY DEF List, ListEnd, CallParseStmt, ReturnStmt, Separator, SkipToSemicolon, node
<1>2. CASE CallParseStmt
  <2>1. pc = "list" /\ pc' = "stmt" /\ todo' = Routine["Stmt"]
    BY <1>2 DEF CallParseStmt
  <2>2. inColDefault = FALSE
    BY <2>1 DEF FInv, FlagIsBound
  <2>3. ClearsFlag(todo')
    BY <2>1 DEF IsCode, IsProgram
  <2> QED BY <1>1, <2>1, <2>2, <2>3 DEF FlagIsBound, Flagged
<1>3. CASE ReturnStmt
  <2>1. pc = "stmt" /\ todo = <<>> /\ pc' # "stmt"
    BY <1>3 DEF ReturnStmt
  <2>2. ~WillClear(todo)
    BY <2>1 DEF WillClear
  <2>3. inColDefault # TRUE
    BY <2>1, <2>2 DEF FInv, FlagIsBound, Flagged
  <2>4. inColDefault = FALSE
    BY <2>3, Zenon DEF FInv, TInv, NodeTypes
  <2> QED BY <1>1, <2>1, <2>4 DEF FlagIsBound
<1>4. CASE ListEnd \/ Separator \/ SkipToSemicolon
  <2>1. pc # "stmt" /\ pc' # "stmt"
    BY <1>4 DEF ListEnd, Separator, SkipToSemicolon
  <2> QED BY <1>1, <2>1 DEF FInv, FlagIsBound
<1> QED BY <1>2, <1>3, <1>4 DEF List

\* Every step keeps it.
LEMMA NextFlag ==
  ASSUME NEW C, IsCode(C), FInv(C), [Next]_vars
  PROVE  FInv(C)'
<1>1. TInv(C)'
  BY NextTypes DEF FInv
<1>2. CASE Instruction
  <2>1. pc = "stmt" /\ pc' = "stmt"
    <3>1. pc = "stmt"
      BY <1>2 DEF Instruction, Doing, DoWant, DoSwitch, DoPeek, DoIfMade, DoUntil, DoIdent,
                  DoColLabel, DoParseInt, DoTake, DoFail, DoAssign, DoIfDefault, DoCall, DoInner,
                  DoOuter
    <3> QED BY <1>2, <3>1, InstructionEffect DEF Outside
  <2>2. todo \in Seq(Todo(C)) /\ loc \in 0..EOF /\ Flagged(todo, inColDefault)
    BY <2>1 DEF FInv, TInv, NodeTypes, FlagIsBound
  <2>3. Flagged(todo', inColDefault')
    BY <1>2, <2>2, InstructionFlag
  <2> QED BY <1>1, <2>1, <2>3 DEF FInv, FlagIsBound
<1>3. CASE List
  BY <1>1, <1>3, ListFlag DEF FInv
<1>4. CASE UNCHANGED vars
  <2>1. FlagIsBound'
    BY <1>4 DEF FInv, FlagIsBound, Flagged, ClearsFlag, WillClear, vars, node
  <2> QED BY <1>1, <2>1 DEF FInv
<1> QED BY <1>2, <1>3, <1>4 DEF Next

\* The flag of a column's DEFAULT never outlives its statement, in any text and
\* whatever fails in it: every routine that sets the flag goes on to clear it.
THEOREM SpecFlagIsCleared ==
  ASSUME NEW C, IsCode(C)
  PROVE  Spec => []FlagIsCleared
<1>1. Init => FInv(C)
  BY InitFlag
<1>2. FInv(C) /\ [Next]_vars => FInv(C)'
  BY NextFlag
<1>3. FInv(C) => FlagIsCleared
  BY DEF FInv, FlagIsBound, FlagIsCleared
<1> QED BY <1>1, <1>2, <1>3, PTL DEF Spec
-----------------------------------------------------------------------------
\* Where the statements and the errors are in relation to the turn that runs, and to
\* the place where the next one begins.
Bounds ==
  /\ pc = "list" => /\ i = EOF \/ \A e \in Reports : e < i
                    /\ \A k \in DOMAIN stmts : stmts[k].from < i
  /\ pc = "stmt" => \A k \in DOMAIN stmts : stmts[k].from < Began
  /\ pc \in {"sep", "skip"} =>
       \A k \in DOMAIN stmts : /\ stmts[k].from <= Began
                               /\ k < Len(stmts) => stmts[k].from < Began

\* The numbers in it.
LEMMA BoundTypes ==
  ASSUME IInv, Record
  PROVE  /\ i \in Int /\ first \in Int /\ 0 <= first /\ first <= i /\ EOF \in Int /\ i <= EOF /\ 1 <= i
         /\ Len(text) \in Nat /\ EOF = Len(text) + 1
         /\ DOMAIN stmts = 1..Len(stmts) /\ Len(stmts) \in Nat
         /\ \A k \in DOMAIN stmts : /\ stmts[k].from \in Int /\ stmts[k].end \in Int
                                    /\ stmts[k].from <= stmts[k].end /\ stmts[k].end <= i
                                    /\ stmts[k] = [from |-> stmts[k].from, end |-> stmts[k].end]
         /\ pc \in Turning => Began \in 1..Len(text) /\ Began <= i
<1>1. /\ Len(text) \in Nat /\ EOF \in Int /\ DOMAIN stmts = 1..Len(stmts) /\ Len(stmts) \in Nat
      /\ \A k \in DOMAIN stmts : stmts[k].from \in Int /\ stmts[k].end \in Int
      /\ \A k \in DOMAIN rounds : rounds[k] \in 1..Len(text)
  BY StmtExtent DEF IInv
<1>2. i \in 1..EOF /\ stmts \in Seq([from : 1..Len(text), end : 1..EOF])
  BY DEF IInv, Types
<1>3. \A k \in DOMAIN stmts : stmts[k] = [from |-> stmts[k].from, end |-> stmts[k].end]
  <2> DEFINE S == [from : 1..Len(text), end : 1..EOF]
  <2>1. \A s \in S : s = [from |-> s.from, end |-> s.end]
    OBVIOUS
  <2>2. stmts \in Seq(S)
    BY <1>2
  <2>. HIDE DEF S
  <2>3. \A k \in DOMAIN stmts : stmts[k] \in S
    BY <2>2
  <2> QED BY <2>1, <2>3
<1>4. 0 <= first /\ first <= i /\ first \in Int
  BY <1>1, <1>2 DEF Record, Recorded, Parsers
<1>5. pc \in Turning => Began \in 1..Len(text) /\ Began <= i
  <2>1. pc \in Turning => Len(rounds) \in DOMAIN rounds /\ Began <= i
    BY LastType
  <2> QED BY <1>1, <2>1 DEF Began
<1> QED BY <1>1, <1>2, <1>3, <1>4, <1>5 DEF IInv, StmtsInOrder, EOF

\* The errors of the parser are places that have been read, the first is the least.
LEMMA ReportsAt ==
  ASSUME Record
  PROVE  /\ \A e \in Reports : e \in Int /\ 1 <= e /\ e <= i
         /\ IF Reports = {} THEN first = 0
            ELSE first \in Reports /\ \A e \in Reports : first <= e
<1>1. Parsers(log) = {n \in DOMAIN log : log[n] # -1} /\ Recorded(log, first, errcnt, i)
  BY DEF Parsers, Record
<1>2. \A e : e \in Reports <=> \E n \in Parsers(log) : e = log[n]
  BY <1>1 DEF Reports
<1>3. \A n \in Parsers(log) : log[n] \in Int /\ 1 <= log[n] /\ log[n] <= i /\ n \in Int
  BY <1>1 DEF Recorded, Parsers
<1>4. CASE Parsers(log) = {}
  BY <1>1, <1>2, <1>4 DEF Recorded
<1>5. CASE Parsers(log) # {}
  <2>1. PICK k \in Parsers(log) : first = log[k] /\ \A m \in Parsers(log) : k <= m
    BY <1>1, <1>5 DEF Recorded
  <2>2. \A m \in Parsers(log) : log[k] <= log[m]
    <3> TAKE m \in Parsers(log)
    <3>1. k = m \/ k < m
      BY <1>3, <2>1
    <3>2. CASE k = m
      BY <1>3, <3>2
    <3>3. CASE k < m
      BY <1>1, <3>3 DEF Recorded
    <3> QED BY <3>1, <3>2, <3>3
  <2> QED BY <1>2, <1>3, <1>5, <2>1, <2>2
<1> QED BY <1>4, <1>5

\* A step adds nothing to the errors but the place where it is, and the error that is
\* kept does not change if there was one.
LEMMA ReportsGrow ==
  ASSUME Record, Effect
  PROVE  /\ Reports \subseteq Reports' /\ Reports' \subseteq Reports \cup {i}
         /\ Consume \/ Stay => Reports' = Reports /\ first' = first
         /\ first' = first \/ (first = 0 /\ first' = i)
<1>1. log \in Seq(Int) /\ i \in Int
  BY DEF Record, Recorded
<1> DEFINE Errors(l) == {l[n] : n \in {m \in DOMAIN l : l[m] # -1}}
<1>2. ASSUME NEW l \in Seq(Int), NEW e \in Int
      PROVE  /\ Append(l, e) \in Seq(Int)
             /\ Errors(Append(l, e)) = Errors(l) \cup ({e} \ {-1})
  <2>1. /\ Append(l, e) \in Seq(Int) /\ DOMAIN Append(l, e) = 1..Len(l) + 1
        /\ DOMAIN l = 1..Len(l) /\ Len(l) \in Nat
        /\ Append(l, e)[Len(l) + 1] = e /\ \A n \in 1..Len(l) : Append(l, e)[n] = l[n]
    OBVIOUS
  <2> DEFINE g == Append(l, e)
  <2>. HIDE DEF g
  <2>2. Errors(g) = Errors(l) \cup ({e} \ {-1})
    <3>1. \A x \in Errors(g) : x \in Errors(l) \cup ({e} \ {-1})
      BY <2>1 DEF g
    <3>2. \A x \in Errors(l) : x \in Errors(g)
      BY <2>1 DEF g
    <3>3. e # -1 => e \in Errors(g)
      BY <2>1 DEF g
    <3> QED BY <3>1, <3>2, <3>3
  <2> QED BY <2>1, <2>2 DEF g
<1>3. ASSUME NEW l \in Seq(Int), NEW k
      PROVE  Errors(l \o ScanErrors(k)) = Errors(l)
  <2>1. l \o <<>> = l /\ l \o <<-1>> = Append(l, -1)
    OBVIOUS
  <2>2. -1 \in Int /\ {-1} \ {-1} = {}
    OBVIOUS
  <2>3. Errors(Append(l, -1)) = Errors(l)
    BY <1>2, <2>2
  <2>. HIDE DEF Errors
  <2> QED BY <2>1, <2>3 DEF ScanErrors
<1>4. Errors(log) = Reports /\ Errors(log') = Reports'
  BY DEF Reports
<1>. HIDE DEF Errors
<1>5. CASE Stay \/ Consume
  <2>1. Reports' = Reports
    BY <1>1, <1>3, <1>4, <1>5 DEF Stay, Consume, errors
  <2>2. first' = first
    BY <1>5 DEF Stay, Consume, errors
  <2> QED BY <2>1, <2>2
<1>6. CASE (Report \/ ReportAndConsume) /\ ~(Stay \/ Consume)
  <2>1. Errors(log') \subseteq Errors(log) \cup {i} /\ Errors(log) \subseteq Errors(log')
    <3>1. Append(log, i) \in Seq(Int) /\ Errors(Append(log, i)) = Errors(log) \cup ({i} \ {-1})
      BY <1>1, <1>2
    <3>2. Errors(log') = Errors(Append(log, i))
      BY <1>3, <1>6, <3>1 DEF Report, ReportAndConsume
    <3> QED BY <3>1, <3>2
  <2>2. first' = first \/ (first = 0 /\ first' = i)
    BY <1>6 DEF Report, ReportAndConsume, Count
  <2> QED BY <1>4, <1>6, <2>1, <2>2
<1> QED BY <1>5, <1>6 DEF Effect

\* Every step keeps the bounds.
LEMMA NextBounds ==
  ASSUME IInv, Record, Bounds, [Next]_vars
  PROVE  Bounds'
<1>1. /\ Effect /\ UNCHANGED text /\ i <= i' /\ EOF' = EOF
  BY NextEffect, EffectMoves DEF Record, EOF
<1>2. CASE Instruction
  <2>1. UNCHANGED <<pc, stmts, rounds>> /\ pc = "stmt"
    BY <1>2, InstructionEffect DEF Outside, result, Instruction, Doing, DoWant, DoSwitch, DoPeek,
       DoIfMade, DoUntil, DoIdent, DoColLabel, DoParseInt, DoTake, DoFail, DoAssign, DoIfDefault,
       DoCall, DoInner, DoOuter
  <2> QED BY <2>1 DEF Bounds, Began
<1>3. CASE ListEnd
  <2>1. pc' = "done"
    BY <1>3 DEF ListEnd
  <2> QED BY <2>1 DEF Bounds
<1>4. CASE CallParseStmt
  <2>1. pc = "list" /\ pc' = "stmt" /\ UNCHANGED stmts /\ rounds' = Append(rounds, i)
    BY <1>4 DEF CallParseStmt, result
  <2>2. Began' = i
    BY <2>1 DEF Began, IInv, Types
  <2> QED BY <2>1, <2>2 DEF Bounds
<1>5. CASE ReturnStmt
  <2>1. /\ pc = "stmt" /\ pc' = "sep" /\ Began' = Began
        /\ UNCHANGED stmts \/ stmts' = Append(stmts, [from |-> Began, end |-> i])
    BY <1>5 DEF ReturnStmt, result, Began
  <2>2. Began \in Int
    BY <2>1, LastType DEF Turning
  <2>3. CASE UNCHANGED stmts
    BY <2>1, <2>2, <2>3, BoundTypes DEF Bounds
  <2>4. CASE stmts' = Append(stmts, [from |-> Began, end |-> i])
    <3> DEFINE new == [from |-> Began, end |-> i]
    <3>1. new.from = Began
      OBVIOUS
    <3>. HIDE DEF new
    <3>2. \E S : stmts \in Seq(S)
      BY DEF IInv, Types
    <3>3. /\ DOMAIN stmts' = 1..Len(stmts) + 1 /\ Len(stmts') = Len(stmts) + 1 /\ Len(stmts) \in Nat
          /\ stmts'[Len(stmts) + 1] = new /\ \A k \in 1..Len(stmts) : stmts'[k] = stmts[k]
          /\ DOMAIN stmts = 1..Len(stmts)
      BY <2>4, <3>2 DEF new
    <3>4. \A k \in DOMAIN stmts' :
            \/ k \in DOMAIN stmts /\ stmts'[k].from < Began
            \/ k = Len(stmts') /\ stmts'[k].from = Began
      <4> TAKE k \in DOMAIN stmts'
      <4>1. CASE k \in 1..Len(stmts)
        BY <2>1, <3>3, <4>1 DEF Bounds
      <4>2. CASE k = Len(stmts) + 1
        BY <3>1, <3>3, <4>2
      <4> QED BY <3>3, <4>1, <4>2
    <3>5. \A k \in DOMAIN stmts' : stmts'[k].from \in Int
      BY <2>2, <3>1, <3>3, BoundTypes
    <3> QED BY <2>1, <2>2, <3>3, <3>4, <3>5 DEF Bounds
  <2> QED BY <2>1, <2>3, <2>4
<1>6. CASE Separator \/ SkipToSemicolon
  <2>1. /\ pc \in {"sep", "skip"} /\ UNCHANGED <<stmts, rounds>> /\ Began' = Began
        /\ \/ pc' = "skip"
           \/ pc' = "list" /\ ((tok = "semi" /\ Consume) \/ (tok = "EOF" /\ Stay))
    BY <1>6 DEF Separator, SkipToSemicolon, result, Began, Consume, Stay, errors
  <2>2. CASE pc' = "skip"
    BY <2>1, <2>2 DEF Bounds
  <2>3. CASE pc' = "list"
    <3>1. i' = i + 1 \/ (i' = i /\ i = EOF)
      <4>1. CASE tok = "semi" /\ Consume
        <5>1. i # EOF
          BY <4>1, TokenInText DEF IInv, Types, tok
        <5>2. i < EOF
          BY <5>1, BoundTypes
        <5> QED BY <4>1, <5>2 DEF Consume, Following
      <4>2. CASE tok = "EOF" /\ Stay
        <5>1. i = EOF
          BY <4>2, TokenInText DEF IInv, Types, tok
        <5> QED BY <4>2, <5>1 DEF Stay, token
      <4> QED BY <2>1, <2>3, <4>1, <4>2
    <3>2. i' = EOF' \/ \A e \in Reports' : e < i'
      BY <1>1, <2>1, <2>3, <3>1, BoundTypes, ReportsAt, ReportsGrow
    <3>3. \A k \in DOMAIN stmts : stmts[k].from < i'
      <4>1. Began < i' /\ i' \in Int /\ Began \in Int
        <5>1. (i' = i + 1 /\ Began <= i) \/ (i' = EOF /\ Began <= Len(text))
          BY <2>1, <3>1, BoundTypes DEF Turning
        <5> QED BY <2>1, <3>1, <5>1, BoundTypes DEF Turning
      <4> QED BY <2>1, <4>1, BoundTypes DEF Bounds
    <3> QED BY <2>1, <2>3, <3>2, <3>3 DEF Bounds
  <2> QED BY <2>1, <2>2, <2>3
<1>7. CASE UNCHANGED vars
  BY <1>1, <1>7 DEF vars, token, result, errors, Bounds, Began, Reports
<1> QED BY <1>2, <1>3, <1>4, <1>5, <1>6, <1>7 DEF Next, List

\* No turn runs at the start.
LEMMA InitRefines ==
  ASSUME Init
  PROVE  Listing!Init /\ Bounds
<1>1. /\ text \in Texts /\ i = 1 /\ pc = "list" /\ stmts = <<>> /\ first = 0
  BY DEF Init
<1>2. Reports = {}
  BY <1>1, InitRecord, ReportsAt
<1> QED BY <1>1, <1>2 DEF Listing!Init, Finished, Turning, Bounds

\* The errors of the turn that runs are no earlier than its first token.
LEMMA HiddenErrors ==
  ASSUME IInv, Record, Effect, pc \in Turning
  PROVE  /\ {e \in Reports' : e < Began} = {e \in Reports : e < Began}
         /\ (IF first' >= Began THEN 0 ELSE first') = IF first >= Began THEN 0 ELSE first
<1>1. Began <= i /\ Began \in 1..Len(text) /\ i \in Int
  BY BoundTypes
<1>2. /\ Reports \subseteq Reports' /\ Reports' \subseteq Reports \cup {i}
      /\ first' = first \/ (first = 0 /\ first' = i)
  BY ReportsGrow
<1>3. {e \in Reports' : e < Began} = {e \in Reports : e < Began}
  BY <1>1, <1>2
<1>4. (IF first' >= Began THEN 0 ELSE first') = IF first >= Began THEN 0 ELSE first
  BY <1>1, <1>2
<1> QED BY <1>3, <1>4

\* While a turn runs nothing of it can be seen, and so nothing changes.
LEMMA TurnRefines ==
  ASSUME IInv, Record, Bounds, [Next]_vars, pc' # "done", ~(pc \in {"sep", "skip"} /\ pc' = "list")
  PROVE  UNCHANGED Listing!vars
<1>1. Effect /\ UNCHANGED text /\ i \in Int
  BY NextEffect, EffectMoves, BoundTypes DEF Record
<1> DEFINE at == IF pc \in Turning THEN Began ELSE i
           err == IF pc \in Turning /\ first >= Began THEN 0 ELSE first
           errs == IF pc \in Turning THEN {e \in Reports : e < Began} ELSE Reports
<1> SUFFICES at' = at /\ Finished' = Finished /\ errs' = errs /\ err' = err /\ ~(pc = "done")
  BY <1>1 DEF Listing!vars
<1>2. CASE Instruction
  <2>1. UNCHANGED <<pc, stmts, rounds>> /\ pc = "stmt"
    BY <1>2, InstructionEffect DEF Outside, result, Instruction, Doing, DoWant, DoSwitch, DoPeek,
       DoIfMade, DoUntil, DoIdent, DoColLabel, DoParseInt, DoTake, DoFail, DoAssign, DoIfDefault,
       DoCall, DoInner, DoOuter
  <2>2. at' = at /\ Finished' = Finished
    BY <2>1 DEF Finished, Began, Turning
  <2>3. err' = err /\ errs' = errs
    <3>1. Began' = Began /\ pc \in Turning /\ (pc \in Turning)'
      BY <2>1 DEF Began, Turning
    <3>2. /\ {e \in Reports' : e < Began} = {e \in Reports : e < Began}
          /\ (IF first' >= Began THEN 0 ELSE first') = IF first >= Began THEN 0 ELSE first
      BY <1>1, <3>1, HiddenErrors
    <3>3. errs = {e \in Reports : e < Began} /\ errs' = {e \in Reports' : e < Began}
      BY <3>1
    <3>4. /\ err = (IF first >= Began THEN 0 ELSE first)
          /\ err' = (IF first' >= Began THEN 0 ELSE first')
      BY <3>1
    <3> QED BY <3>2, <3>3, <3>4
  <2> QED BY <2>1, <2>2, <2>3
<1>3. CASE CallParseStmt
  <2>1. /\ pc = "list" /\ pc' = "stmt" /\ UNCHANGED <<stmts, first, log, i>>
        /\ rounds' = Append(rounds, i) /\ tok # "EOF"
    BY <1>3 DEF CallParseStmt, result, errors, token
  <2>2. Began' = i
    BY <2>1 DEF Began, IInv, Types
  <2>3. /\ Reports' = Reports /\ \A e \in Reports : e < i
        /\ first < i
    <3>1. \A e \in Reports : e < i
      BY <2>1, TokenInText DEF Bounds, IInv, Types, tok
    <3> QED BY <2>1, <3>1, ReportsAt, BoundTypes DEF Reports
  <2>4. at' = at
    BY <2>1, <2>2 DEF Turning
  <2>5. Finished' = Finished
    <3>1. stmts # <<>> => Len(stmts) \in DOMAIN stmts
      BY DEF IInv, Types
    <3>2. stmts # <<>> => stmts[Len(stmts)].from # i
      BY <1>1, <2>1, <3>1, BoundTypes DEF Bounds
    <3> QED BY <2>1, <2>2, <3>2 DEF Finished, Turning
  <2>6. err' = err /\ errs' = errs
    BY <2>1, <2>2, <2>3, BoundTypes DEF Turning
  <2> QED BY <2>1, <2>4, <2>5, <2>6
<1>4. CASE ReturnStmt
  <2>1. /\ pc = "stmt" /\ pc' = "sep" /\ Began' = Began /\ UNCHANGED <<first, log, i>>
        /\ UNCHANGED stmts \/ stmts' = Append(stmts, [from |-> Began, end |-> i])
    BY <1>4 DEF ReturnStmt, result, Began, errors, token
  <2>2. at' = at /\ err' = err /\ errs' = errs
    BY <2>1 DEF Turning, Reports
  <2>3. Finished = stmts
    <3>1. stmts # <<>> => Len(stmts) \in DOMAIN stmts
      BY DEF IInv, Types
    <3>2. stmts # <<>> => stmts[Len(stmts)].from # Began
      BY <2>1, <3>1, BoundTypes DEF Bounds, Turning
    <3> QED BY <3>2 DEF Finished
  <2>4. Finished' = stmts
    <3>1. CASE UNCHANGED stmts
      BY <2>1, <2>3, <3>1 DEF Finished, Turning
    <3>2. CASE stmts' = Append(stmts, [from |-> Began, end |-> i])
      <4> DEFINE new == [from |-> Began, end |-> i]
      <4>1. new.from = Began
        OBVIOUS
      <4>. HIDE DEF new
      <4>2. \E S : stmts \in Seq(S) /\ new \in S
        <5>1. new \in [from : 1..Len(text), end : 1..EOF]
          BY <2>1, BoundTypes DEF new, Turning
        <5> QED BY <5>1 DEF IInv, Types
      <4>3. /\ stmts' # <<>> /\ stmts'[Len(stmts')] = new
            /\ SubSeq(stmts', 1, Len(stmts') - 1) = stmts
        BY <3>2, <4>2 DEF new
      <4> QED BY <2>1, <4>1, <4>3 DEF Finished, Turning
    <3> QED BY <2>1, <3>1, <3>2
  <2> QED BY <2>1, <2>2, <2>3, <2>4
<1>5. CASE Separator \/ SkipToSemicolon
  <2>1. /\ pc \in {"sep", "skip"} /\ pc' = "skip" /\ UNCHANGED <<stmts, rounds>> /\ Began' = Began
    BY <1>5 DEF Separator, SkipToSemicolon, result, Began
  <2>2. at' = at /\ Finished' = Finished
    BY <2>1 DEF Finished, Turning
  <2>3. err' = err /\ errs' = errs
    <3>1. pc \in Turning /\ (pc \in Turning)'
      BY <2>1 DEF Turning
    <3>2. /\ {e \in Reports' : e < Began} = {e \in Reports : e < Began}
          /\ (IF first' >= Began THEN 0 ELSE first') = IF first >= Began THEN 0 ELSE first
      BY <1>1, <3>1, HiddenErrors
    <3>3. errs = {e \in Reports : e < Began} /\ errs' = {e \in Reports' : e < Began}
      BY <2>1, <3>1
    <3>4. /\ err = (IF first >= Began THEN 0 ELSE first)
          /\ err' = (IF first' >= Began THEN 0 ELSE first')
      BY <2>1, <3>1
    <3> QED BY <3>2, <3>3, <3>4
  <2> QED BY <2>1, <2>2, <2>3
<1>6. CASE UNCHANGED vars
  <2>1. UNCHANGED <<pc, stmts, rounds, first, i, Reports>> /\ Began' = Began
    BY <1>6 DEF vars, result, errors, token, Began, Reports
  <2> QED BY <2>1 DEF Finished
<1>7. CASE ListEnd
  BY <1>7 DEF ListEnd
<1> QED BY <1>2, <1>3, <1>4, <1>5, <1>6, <1>7 DEF Next, List

\* Where a turn ends, and what is visible of it then.
LEMMA TurnIsOver ==
  ASSUME IInv, Record, Separator \/ SkipToSemicolon, pc' = "list"
  PROVE  /\ UNCHANGED <<text, stmts, rounds, first, Reports>> /\ Began' = Began /\ pc \in {"sep", "skip"}
         /\ Began < i' /\ i' <= EOF /\ i' \in Int /\ Listing!MayEndBefore(i')
         /\ i <= Listing!LastBefore(i') /\ Listing!LastBefore(i') \in Int
         /\ \/ tok = "semi" /\ i' = i + 1 /\ i < EOF /\ text[i] = "semi"
            \/ i = EOF /\ i' = EOF
<1>1. /\ UNCHANGED <<text, stmts, rounds, first>> /\ Began' = Began /\ pc \in {"sep", "skip"}
      /\ (tok = "semi" /\ Consume) \/ (tok = "EOF" /\ Stay)
  BY DEF Separator, SkipToSemicolon, result, Began, Consume, Stay, errors, token
<1>2. Began \in 1..Len(text) /\ Began <= i
  BY <1>1, BoundTypes DEF Turning
<1>3. Reports' = Reports
  BY <1>1, ReportsGrow DEF Effect
<1>4. CASE tok = "semi" /\ Consume
  <2>1. i' = i + 1 /\ i < EOF /\ text[i] = "semi"
    BY <1>4, TokenInText, BoundTypes DEF IInv, Types, tok, Consume, Following, TokenAt
  <2> QED BY <1>1, <1>2, <1>4, <1>3, <2>1, BoundTypes DEF Listing!MayEndBefore, Listing!LastBefore, Listing!EOF, EOF
<1>5. CASE tok = "EOF" /\ Stay
  <2>1. i' = i /\ i = EOF
    BY <1>5, TokenInText DEF IInv, Types, tok, Stay, token
  <2> QED BY <1>1, <1>2, <1>3, <2>1, BoundTypes DEF Listing!MayEndBefore, Listing!LastBefore, Listing!EOF, EOF
<1> QED BY <1>1, <1>4, <1>5

\* Of the statements only the last can be of the turn that runs.
LEMMA MadeInTurn ==
  ASSUME IInv, Record, Bounds, pc \in {"sep", "skip"}
  PROVE  \/ /\ Finished = stmts
            /\ \A s \in DOMAIN stmts : stmts[s].from # Began
         \/ \E end \in Began..i :
              /\ stmts = Append(Finished, [from |-> Began, end |-> end])
              /\ \A s \in DOMAIN stmts : stmts[s].from = Began => stmts[s].end = end
<1> DEFINE last == stmts[Len(stmts)]
<1>1. /\ DOMAIN stmts = 1..Len(stmts) /\ Len(stmts) \in Nat /\ Began \in 1..Len(text)
      /\ \A k \in DOMAIN stmts : stmts[k].from \in Int /\ stmts[k].end \in Int
  BY BoundTypes DEF Turning
<1>2. \A s \in DOMAIN stmts : s < Len(stmts) => stmts[s].from < Began
  BY DEF Bounds
<1>3. CASE stmts # <<>> /\ last.from = Began
  <2>1. Finished = SubSeq(stmts, 1, Len(stmts) - 1) /\ Len(stmts) \in DOMAIN stmts
    <3>1. Len(stmts) \in DOMAIN stmts
      BY <1>3 DEF IInv, Types
    <3> QED BY <1>3, <3>1 DEF Finished, Turning
  <2>2. /\ last = [from |-> last.from, end |-> last.end] /\ last.end \in Int
        /\ last.from <= last.end /\ last.end <= i
    BY <2>1, BoundTypes
  <2>3. last.end \in Began..i
    <3>1. i \in Int
      BY BoundTypes
    <3> QED BY <1>1, <1>3, <2>2, <3>1
  <2>4. stmts = Append(Finished, last)
    <3>1. \E S : stmts \in Seq(S)
      BY DEF IInv, Types
    <3> QED BY <1>3, <2>1, <3>1
  <2>5. ASSUME NEW s \in DOMAIN stmts, stmts[s].from = Began
        PROVE  stmts[s].end = last.end
    <3>1. ~(stmts[s].from < Began)
      BY <1>1, <2>5
    <3>2. s = Len(stmts)
      BY <1>1, <1>2, <3>1
    <3> QED BY <3>2
  <2>6. stmts = Append(Finished, [from |-> Began, end |-> last.end])
    BY <1>3, <2>2, <2>4
  <2> QED BY <2>3, <2>5, <2>6
<1>4. CASE ~(stmts # <<>> /\ last.from = Began)
  <2>1. Finished = stmts
    BY <1>4 DEF Finished
  <2>2. ASSUME NEW s \in DOMAIN stmts, stmts[s].from = Began
        PROVE  FALSE
    <3>1. s = Len(stmts) /\ stmts # <<>>
      <4>1. ~(stmts[s].from < Began)
        BY <1>1, <2>2
      <4> QED BY <1>1, <1>2, <2>2, <4>1
    <3> QED BY <1>4, <2>2, <3>1
  <2> QED BY <2>1, <2>2
<1> QED BY <1>3, <1>4

\* A turn that is over is one of the list: it is whole, or its errors are shown.
LEMMA EndRefines ==
  ASSUME NEW C, LInv(C), LInv(C)', Bounds, Separator \/ SkipToSemicolon, pc' = "list"
  PROVE  Listing!Turn
<1>1. IInv /\ Record /\ Record' /\ LastTurn'
  BY DEF LInv, TInv
<1>2. /\ UNCHANGED <<text, stmts, rounds, first, Reports>> /\ Began' = Began /\ pc \in {"sep", "skip"}
      /\ Began < i' /\ i' <= EOF /\ i' \in Int /\ Listing!MayEndBefore(i')
      /\ i <= Listing!LastBefore(i') /\ Listing!LastBefore(i') \in Int
      /\ \/ tok = "semi" /\ i' = i + 1 /\ i < EOF /\ text[i] = "semi"
         \/ i = EOF /\ i' = EOF
  BY <1>1, TurnIsOver
<1>3. /\ i \in Int /\ EOF \in Int /\ EOF = Len(text) + 1 /\ Began \in 1..Len(text) /\ Began <= i
      /\ first \in Int /\ i <= EOF
  BY <1>1, <1>2, BoundTypes DEF Turning
<1> DEFINE at == IF pc \in Turning THEN Began ELSE i
           err == IF pc \in Turning /\ first >= Began THEN 0 ELSE first
           errs == IF pc \in Turning THEN {e \in Reports : e < Began} ELSE Reports
           last == Listing!LastBefore(i')
           Makes(end) == Finished' = Append(Finished, [from |-> at, end |-> end])
<1>4. /\ at = Began /\ at' = i' /\ errs = {e \in Reports : e < Began} /\ errs' = Reports
      /\ err = (IF first >= Began THEN 0 ELSE first) /\ err' = first /\ Finished' = stmts
      /\ at # EOF /\ i' \in Began + 1..EOF
  <2>1. pc \in Turning /\ ~(pc \in Turning)'
    BY <1>2 DEF Turning
  <2>2. Finished' = stmts
    BY <1>2, <2>1 DEF Finished
  <2> QED BY <1>2, <1>3, <2>1, <2>2
<1>5. /\ ~(pc = "done") /\ (pc' = "done") = (pc = "done") /\ text' = text
      /\ Listing!MayEndBefore(i') /\ i' \in at + 1..Listing!EOF /\ at # Listing!EOF
  BY <1>2, <1>3, <1>4 DEF Listing!EOF, EOF
<1>6. PICK next : next = i'
  OBVIOUS
<1>7. ASSUME Listing!Whole(next) \/ Listing!WithErrors(next)
      PROVE  Listing!Turn
  <2>1. /\ next \in at + 1..Listing!EOF /\ Listing!MayEndBefore(next) /\ at' = next
        /\ Listing!Whole(next) \/ Listing!WithErrors(next)
    <3>. HIDE DEF at
    <3> QED BY <1>4, <1>5, <1>7, <1>6
  <2>2. ~(pc = "done") /\ at # Listing!EOF /\ UNCHANGED <<text, (pc = "done")>>
    BY <1>5, Zenon
  <2> QED BY <2>1, <2>2, Zenon DEF Listing!Turn
<1>8. CASE \E e \in Reports : e >= Began
  <2>1. /\ {e \in Reports : e >= Began} \in SUBSET (at..last) /\ {e \in Reports : e >= Began} # {}
        /\ errs' = errs \cup {e \in Reports : e >= Began}
    <3>1. \A e \in Reports : e \in Int /\ e <= i
      BY <1>1, ReportsAt
    <3> QED BY <1>2, <1>3, <1>4, <1>8, <3>1
  <2>2. err' \in errs' /\ \A e \in errs' : err' <= e
    BY <1>1, <1>4, <1>8, ReportsAt
  <2>3. UNCHANGED Finished \/ \E end \in at..last : Makes(end)
    <3>1. CASE Finished = stmts
      BY <1>4, <3>1
    <3>2. CASE \E end \in Began..i : stmts = Append(Finished, [from |-> Began, end |-> end])
      <4>1. PICK end \in Began..i : stmts = Append(Finished, [from |-> Began, end |-> end])
        BY <3>2
      <4>2. end \in at..last
        BY <1>2, <1>3, <1>4
      <4>3. Makes(end)
        BY <1>4, <4>1
      <4> QED BY <4>2, <4>3
    <3> QED BY <1>1, <1>2, <3>1, <3>2, MadeInTurn
  <2>4. Listing!WithErrors(next)
    BY <1>6, <2>1, <2>2, <2>3 DEF Listing!WithErrors, Listing!Makes
  <2> QED BY <1>7, <2>4
<1>9. CASE \A e \in Reports : ~(e >= Began)
  <2>1. errs' = errs /\ err' = err
    <3>1. \A e \in Reports : e < Began
      BY <1>1, <1>3, <1>9, ReportsAt
    <3>2. first < Began
      BY <1>1, <1>3, <3>1, ReportsAt
    <3>3. errs' = errs
      <4>1. {e \in Reports : e < Began} = Reports
        BY <3>1
      <4> HIDE DEF errs
      <4> QED BY <1>4, <4>1
    <3>4. err' = err
      <4>1. ~(first >= Began)
        BY <1>3, <3>2
      <4> HIDE DEF err
      <4> QED BY <1>4, <4>1
    <3> QED BY <3>3, <3>4
  <2>2. \E s \in DOMAIN stmts :
          /\ stmts[s].from = Began
          /\ i' - 1 = IF TokenAt(stmts[s].end) = "semi" THEN stmts[s].end ELSE stmts[s].end - 1
    <3>1. rounds' # <<>>
      BY <1>1, <1>2, LastType DEF Turning
    <3>2. ASSUME NEW b, Reported(Began, b)'
          PROVE  FALSE
      <4>1. PICK n \in DOMAIN log' : log'[n] \in Began..b
        BY <1>2, <3>2 DEF Reported
      <4>2. log'[n] \in Reports' /\ log'[n] >= Began
        BY <1>3, <4>1 DEF Reports
      <4> QED BY <1>2, <1>9, <4>2
    <3>3. \E b : Reported(Began, b)' \/ (Made(Began, i - 1))'
      BY <1>1, <3>1 DEF LastTurn
    <3>4. (Made(Began, i - 1))'
      BY <3>2, <3>3
    <3> QED BY <1>2, <3>4 DEF Made, TokenAt
  <2>3. PICK s \in DOMAIN stmts :
          /\ stmts[s].from = Began
          /\ i' - 1 = IF TokenAt(stmts[s].end) = "semi" THEN stmts[s].end ELSE stmts[s].end - 1
    BY <2>2
  <2>4. PICK end \in Began..i :
          stmts = Append(Finished, [from |-> Began, end |-> end]) /\ stmts[s].end = end
    BY <1>1, <1>2, <2>3, MadeInTurn
  <2>5. end \in {i' - 1, i'} /\ (end = EOF \/ (text[end] = "semi" /\ i' = end + 1))
    <3>1. CASE TokenAt(end) = "semi"
      <4>1. end \in Int /\ end >= 1 /\ end <= i
        BY <1>3, <2>4
      <4>2. end <= Len(text) /\ text[end] = "semi"
        <5>1. end > Len(text) => TokenAt(end) = "EOF"
          BY <4>1 DEF TokenAt
        <5>2. Len(text) \in Nat
          BY <1>1, BoundTypes
        <5>3. end <= Len(text)
          BY <3>1, <4>1, <5>1, <5>2
        <5> QED BY <3>1, <4>1, <5>2, <5>3 DEF TokenAt
      <4>3. i' - 1 = end
        BY <2>3, <2>4, <3>1
      <4>4. i' = end + 1 /\ end \in {i' - 1, i'}
        <5>1. i' \in Int
          BY <1>2
        <5>2. \A a, b \in Int : a - 1 = b => a = b + 1
          OBVIOUS
        <5>3. i' = end + 1
          BY <4>1, <4>3, <5>1, <5>2, Zenon
        <5> QED BY <4>3, <5>3
      <4> QED BY <4>2, <4>4
    <3>2. CASE TokenAt(end) # "semi"
      <4>1. end = i'
        BY <1>2, <1>3, <2>3, <2>4, <3>2
      <4>2. i' = EOF
        BY <1>2, <1>3, <2>4, <4>1
      <4> QED BY <4>1, <4>2
    <3> QED BY <3>1, <3>2
  <2>6. Makes(end)
    BY <1>4, <2>4
  <2>7. Listing!Whole(next)
    BY <1>6, <2>1, <2>5, <2>6 DEF Listing!Whole, Listing!Makes, Listing!EOF, EOF
  <2> QED BY <1>7, <2>7
<1> QED BY <1>8, <1>9

\* Every step of the parser is a step of the list, or changes nothing of it.
LEMMA NextRefines ==
  ASSUME NEW C, LInv(C), LInv(C)', Bounds, [Next]_vars
  PROVE  [Listing!Next]_(Listing!vars)
<1>1. IInv /\ Record
  BY DEF LInv, TInv
<1>2. CASE ListEnd
  <2>1. /\ pc = "list" /\ pc' = "done" /\ UNCHANGED <<text, i, stmts, rounds, first, log>> /\ i = EOF
    BY <1>1, <1>2, TokenInText DEF ListEnd, token, result, errors, tok, IInv, Types
  <2>2. Listing!Finish
    BY <2>1 DEF Listing!Finish, Listing!EOF, EOF, Finished, Turning, Reports
  <2> QED BY <2>2 DEF Listing!Next
<1>3. CASE pc \in {"sep", "skip"} /\ pc' = "list"
  <2>1. Separator \/ SkipToSemicolon
    BY <1>3 DEF Next, List, ListEnd, CallParseStmt, ReturnStmt, vars, Instruction, Doing, DoWant,
       DoSwitch, DoPeek, DoIfMade, DoUntil, DoIdent, DoColLabel, DoParseInt, DoTake, DoFail, DoAssign,
       DoIfDefault, DoCall, DoInner, DoOuter
  <2> QED BY <1>3, <2>1, EndRefines DEF Listing!Next
<1>4. CASE pc' # "done" /\ ~(pc \in {"sep", "skip"} /\ pc' = "list")
  BY <1>1, <1>4, TurnRefines
<1>5. CASE pc' = "done" /\ ~ListEnd
  <2>1. UNCHANGED vars
    <3>1. ASSUME Instruction PROVE FALSE
      <4>1. UNCHANGED pc /\ pc = "stmt"
        BY <3>1, InstructionEffect DEF Outside, Instruction, Doing, DoWant, DoSwitch, DoPeek, DoIfMade,
           DoUntil, DoIdent, DoColLabel, DoParseInt, DoTake, DoFail, DoAssign, DoIfDefault, DoCall,
           DoInner, DoOuter
      <4> QED BY <1>5, <4>1
    <3>2. ASSUME CallParseStmt \/ ReturnStmt \/ Separator \/ SkipToSemicolon PROVE FALSE
      BY <1>5, <3>2 DEF CallParseStmt, ReturnStmt, Separator, SkipToSemicolon
    <3> QED BY <1>5, <3>1, <3>2 DEF Next, List
  <2> QED BY <2>1 DEF vars, token, result, errors, Listing!vars, Finished, Began, Reports
<1> QED BY <1>2, <1>3, <1>4, <1>5

\* For every text, and every table of parse functions that is code, the list of
\* statements with its recovery is that of StatementList: a turn without an error is
\* a statement of all its tokens, and the earliest error is returned (parseStmtList).
THEOREM SpecRefinesStatementList ==
  ASSUME NEW C, IsCode(C)
  PROVE  Spec => RefinesStatementList
<1>1. Init => LInv(C) /\ Bounds /\ Listing!Init
  BY InitLInv, InitRefines
<1>2. LInv(C) /\ Bounds /\ [Next]_vars => LInv(C)' /\ Bounds'
  <2> SUFFICES ASSUME LInv(C), Bounds, [Next]_vars
               PROVE  LInv(C)' /\ Bounds'
    OBVIOUS
  <2>1. IInv /\ Record
    BY DEF LInv, TInv
  <2> QED BY <2>1, NextLInv, NextBounds
<1>3. LInv(C) /\ LInv(C)' /\ Bounds /\ [Next]_vars => [Listing!Next]_(Listing!vars)
  BY NextRefines
<1> QED BY <1>1, <1>2, <1>3, PTL DEF Spec, RefinesStatementList, Listing!Spec
=============================================================================
