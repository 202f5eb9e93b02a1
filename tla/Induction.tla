------------------------------ MODULE Induction ------------------------------
(***************************************************************************)
(* Induction over the naturals, stated of sets instead of predicates so    *)
(* that the facts can be cited: they follow from the fact that the         *)
(* naturals are well founded.  By it, what FlattenSeq and IsSuffix do with *)
(* sequences that grow at their end.                                       *)
(***************************************************************************)
EXTENDS SequencesExt, SequenceTheorems, WellFoundedInduction, TLAPS

\* Every non-empty set of natural numbers has a least one.
LEMMA LeastNumber ==
  ASSUME NEW T, T \subseteq Nat, T # {}
  PROVE  \E x \in T : \A y \in T : x <= y
<1> DEFINE R == {z \in Nat \X Nat : z[1] < z[2]}
<1>1. IsWellFoundedOn(R, Nat)
  BY NatLessThanWellFounded, Zenon DEF OpToRel
<1>2. PICK x \in T : \A y \in T : ~(<<y, x>> \in R)
  <2>. HIDE DEF R
  <2> QED BY <1>1, WFMin
<1>3. ASSUME NEW y \in T
      PROVE  x <= y
  <2>1. <<y, x>> \notin R /\ x \in Nat /\ y \in Nat
    BY <1>2, <1>3
  <2> QED BY <2>1
<1> QED BY <1>2, <1>3

\* Every non-empty set of integers with an upper bound has a greatest one.
LEMMA GreatestNumber ==
  ASSUME NEW T, NEW m \in Int, T \subseteq Int, T # {}, \A y \in T : y <= m
  PROVE  \E x \in T : \A y \in T : y <= x
<1> DEFINE D == {d \in Nat : m - d \in T}
<1>1. D \subseteq Nat /\ D # {}
  <2>1. PICK y \in T : TRUE
    OBVIOUS
  <2>2. m - y \in Nat /\ m - (m - y) = y
    OBVIOUS
  <2> QED BY <2>1, <2>2
<1>2. PICK d \in D : \A y \in D : d <= y
  BY <1>1, LeastNumber
<1>3. ASSUME NEW y \in T
      PROVE  y <= m - d
  <2>1. m - y \in D
    OBVIOUS
  <2>2. d <= m - y /\ d \in Nat /\ y \in Int
    BY <1>2, <1>3, <2>1
  <2> QED BY <2>2
<1> QED BY <1>2, <1>3

\* A set that contains 0 and the successors of its members has all naturals.
LEMMA SetInduction ==
  ASSUME NEW S, 0 \in S, \A n \in Nat : n \in S => n + 1 \in S
  PROVE  \A n \in Nat : n \in S
<1> SUFFICES ASSUME Nat \ S # {} PROVE FALSE
  OBVIOUS
<1>1. PICK x \in Nat \ S : \A y \in Nat \ S : x <= y
  BY LeastNumber
<1>2. x # 0 /\ x - 1 \in Nat /\ x - 1 \in S
  BY <1>1
<1> QED BY <1>1, <1>2
-----------------------------------------------------------------------------
\* f is the function that FlattenSeq(s) is the last value of, up to n.
IsFlat(s, f, n) == f = [i \in 1..n |-> IF i = 1 THEN s[i] ELSE f[i - 1] \o s[i]]

\* Two functions agree up to n.
Agree(f, g, n) == \A i \in 1..n : f[i] = g[i]

\* There is such a function, and its values are sequences.
LEMMA FlatExists ==
  ASSUME NEW S, NEW s \in Seq(Seq(S))
  PROVE  \A n \in Nat : n <= Len(s) => \E f \in [1..n -> Seq(S)] : IsFlat(s, f, n)
<1> DEFINE Good == {n \in Nat : n <= Len(s) => \E f \in [1..n -> Seq(S)] : IsFlat(s, f, n)}
<1>1. 0 \in Good
  <2> DEFINE f == [i \in 1..0 |-> <<>>]
  <2>1. f \in [1..0 -> Seq(S)] /\ IsFlat(s, f, 0)
    BY DEF IsFlat
  <2> QED BY <2>1
<1>2. ASSUME NEW n \in Nat, n \in Good
      PROVE  n + 1 \in Good
  <2> SUFFICES ASSUME n + 1 <= Len(s)
               PROVE  \E g \in [1..n + 1 -> Seq(S)] : IsFlat(s, g, n + 1)
    OBVIOUS
  <2>1. PICK f \in [1..n -> Seq(S)] : IsFlat(s, f, n)
    BY <1>2
  <2> DEFINE last == IF n = 0 THEN s[1] ELSE f[n] \o s[n + 1]
             g == [i \in 1..n + 1 |-> IF i = n + 1 THEN last ELSE f[i]]
  <2>2. n + 1 \in 1..Len(s) /\ s[n + 1] \in Seq(S) /\ s[1] \in Seq(S)
    OBVIOUS
  <2>3. last \in Seq(S)
    BY <2>1, <2>2
  <2>4. \A i \in 1..n : f[i] = IF i = 1 THEN s[i] ELSE f[i - 1] \o s[i]
    BY <2>1 DEF IsFlat
  <2>. HIDE DEF last
  <2>5. g \in [1..n + 1 -> Seq(S)]
    BY <2>1, <2>3
  <2>6. \A i \in 1..n + 1 : g[i] = IF i = 1 THEN s[i] ELSE g[i - 1] \o s[i]
    <3> TAKE i \in 1..n + 1
    <3>1. CASE i = n + 1
      <4>1. CASE n = 0
        BY <3>1, <4>1 DEF last
      <4>2. CASE n # 0
        <5>1. g[i] = f[n] \o s[i]
          BY <3>1, <4>2 DEF last
        <5>2. n \in 1..n + 1 /\ n # n + 1 /\ i - 1 = n /\ i # 1
          BY <3>1, <4>2
        <5>3. g[i - 1] = f[n]
          BY <5>2
        <5> QED BY <5>1, <5>2, <5>3
      <4> QED BY <4>1, <4>2
    <3>2. CASE i \in 1..n
      <4>1. g[i] = f[i] /\ (i # 1 => g[i - 1] = f[i - 1])
        BY <3>2
      <4> QED BY <2>4, <3>2, <4>1
    <3> QED BY <3>1, <3>2
  <2>7. IsFlat(s, g, n + 1)
    <3>1. g = [i \in 1..n + 1 |-> g[i]]
      OBVIOUS
    <3>. HIDE DEF g
    <3> QED BY <2>6, <3>1 DEF IsFlat
  <2> QED BY <2>5, <2>7
<1>. HIDE DEF Good
<1>3. \A n \in Nat : n \in Good
  BY <1>1, <1>2, SetInduction
<1> QED BY <1>3 DEF Good

\* Two such functions agree as far as their sequences do.
LEMMA FlatUnique ==
  ASSUME NEW s, NEW t, NEW f, NEW g, NEW n \in Nat, NEW m \in Nat, n <= m,
         IsFlat(s, f, n), IsFlat(t, g, m), Agree(s, t, n)
  PROVE  Agree(f, g, n)
<1> DEFINE Good == {k \in Nat : k \in 1..n => f[k] = g[k]}
<1>1. \A i \in 1..n : f[i] = IF i = 1 THEN s[i] ELSE f[i - 1] \o s[i]
  BY Zenon DEF IsFlat
<1>2. \A i \in 1..n : g[i] = IF i = 1 THEN t[i] ELSE g[i - 1] \o t[i]
  <2>1. \A i \in 1..m : g[i] = IF i = 1 THEN t[i] ELSE g[i - 1] \o t[i]
    BY Zenon DEF IsFlat
  <2> QED BY <2>1
<1>3. 0 \in Good
  OBVIOUS
<1>4. ASSUME NEW k \in Nat, k \in Good
      PROVE  k + 1 \in Good
  <2> SUFFICES ASSUME k + 1 \in 1..n PROVE f[k + 1] = g[k + 1]
    OBVIOUS
  <2>1. CASE k = 0
    BY <1>1, <1>2, <2>1 DEF Agree
  <2>2. CASE k # 0
    <3>1. k \in 1..n /\ f[k] = g[k] /\ k + 1 # 1 /\ k + 1 - 1 = k
      BY <1>4, <2>2
    <3> QED BY <1>1, <1>2, <3>1 DEF Agree
  <2> QED BY <2>1, <2>2
<1>. HIDE DEF Good
<1>5. \A k \in Nat : k \in Good
  BY <1>3, <1>4, SetInduction
<1> QED BY <1>5 DEF Good, Agree

\* FlattenSeq is the last value of the function.
LEMMA FlattenLast ==
  ASSUME NEW S, NEW s \in Seq(Seq(S)), Len(s) > 0
  PROVE  \E f \in [1..Len(s) -> Seq(S)] :
           IsFlat(s, f, Len(s)) /\ FlattenSeq(s) = f[Len(s)]
<1> DEFINE F == CHOOSE f : IsFlat(s, f, Len(s))
<1>1. Len(s) \in Nat
  OBVIOUS
<1>2. PICK g \in [1..Len(s) -> Seq(S)] : IsFlat(s, g, Len(s))
  BY <1>1, FlatExists, SMTT(30)
<1>3. IsFlat(s, F, Len(s))
  BY <1>2
<1>4. FlattenSeq(s) = F[Len(s)]
  BY DEF FlattenSeq, IsFlat
<1>. HIDE DEF F
<1>5. \A i \in 1..Len(s) : F[i] = g[i]
  BY <1>1, <1>2, <1>3, FlatUnique DEF Agree
<1>6. FlattenSeq(s) = g[Len(s)]
  BY <1>1, <1>4, <1>5
<1> QED BY <1>2, <1>6

\* What FlattenSeq makes of a sequence that one more is appended to.
LEMMA FlattenAppend ==
  ASSUME NEW S, NEW s \in Seq(Seq(S)), NEW x \in Seq(S)
  PROVE  /\ FlattenSeq(Append(s, x)) = FlattenSeq(s) \o x
         /\ FlattenSeq(s) \in Seq(S)
<1> DEFINE t == Append(s, x)
<1>1. /\ t \in Seq(Seq(S)) /\ Len(t) = Len(s) + 1 /\ Len(s) \in Nat /\ t[Len(t)] = x
      /\ \A i \in 1..Len(s) : t[i] = s[i]
  OBVIOUS
<1>. HIDE DEF t
<1>2. PICK g \in [1..Len(t) -> Seq(S)] : IsFlat(t, g, Len(t)) /\ FlattenSeq(t) = g[Len(t)]
  BY <1>1, FlattenLast
<1>3. \A i \in 1..Len(t) : g[i] = IF i = 1 THEN t[i] ELSE g[i - 1] \o t[i]
  BY <1>2 DEF IsFlat
<1>4. CASE Len(s) = 0
  <2>1. s = <<>>
    BY <1>4
  <2>2. FlattenSeq(s) = <<>>
    BY <2>1 DEF FlattenSeq
  <2>3. g[Len(t)] = x /\ <<>> \o x = x
    BY <1>1, <1>3, <1>4
  <2> QED BY <1>2, <2>2, <2>3 DEF t
<1>5. CASE Len(s) > 0
  <2>1. PICK f \in [1..Len(s) -> Seq(S)] : IsFlat(s, f, Len(s)) /\ FlattenSeq(s) = f[Len(s)]
    BY <1>5, FlattenLast
  <2>2. Len(s) <= Len(t) /\ Len(t) \in Nat
    BY <1>1
  <2>3. \A i \in 1..Len(s) : f[i] = g[i]
    <3>1. \A i \in 1..Len(s) : s[i] = t[i]
      BY <1>1
    <3>2. IsFlat(s, f, Len(s)) /\ IsFlat(t, g, Len(t))
      BY <1>2, <2>1
    <3>3. PICK n \in Nat, m \in Nat : n = Len(s) /\ m = Len(t) /\ n <= m
      BY <1>1, <2>2
    <3>4. IsFlat(s, f, n) /\ IsFlat(t, g, m) /\ Agree(s, t, n)
      BY <3>1, <3>2, <3>3 DEF Agree
    <3>5. Agree(f, g, n)
      BY <3>3, <3>4, FlatUnique
    <3> QED BY <3>3, <3>5 DEF Agree
  <2>4. g[Len(t)] = g[Len(s)] \o x
    <3>1. Len(t) \in 1..Len(t) /\ Len(t) # 1 /\ Len(t) - 1 = Len(s)
      BY <1>1, <1>5
    <3> QED BY <1>1, <1>3, <3>1
  <2>5. g[Len(s)] = FlattenSeq(s) /\ f[Len(s)] \in Seq(S)
    BY <1>1, <1>5, <2>1, <2>3
  <2> QED BY <1>2, <2>1, <2>4, <2>5 DEF t
<1> QED BY <1>1, <1>4, <1>5

\* What a sequence is put before is its suffix.
LEMMA ConcatSuffix ==
  ASSUME NEW S, NEW u \in Seq(S), NEW s \in Seq(S)
  PROVE  IsSuffix(s, u \o s)
<1> DEFINE t == u \o s
           a == Reverse(s)
           b == Reverse(t)
<1>1. /\ t \in Seq(S) /\ Len(t) = Len(u) + Len(s) /\ Len(s) \in Nat /\ Len(u) \in Nat
      /\ \A i \in 1..Len(s) : t[Len(u) + i] = s[i]
  OBVIOUS
<1>. HIDE DEF t
<1>2. a \in Seq(S) /\ Len(a) = Len(s) /\ \A i \in 1..Len(s) : a[i] = s[(Len(s) - i) + 1]
  BY <1>1 DEF Reverse
<1>3. b \in Seq(S) /\ Len(b) = Len(t) /\ \A i \in 1..Len(t) : b[i] = t[(Len(t) - i) + 1]
  BY <1>1 DEF Reverse
<1>4. \A i \in 1..Len(s) : a[i] = b[i]
  <2> TAKE i \in 1..Len(s)
  <2>1. i \in 1..Len(t) /\ (Len(s) - i) + 1 \in 1..Len(s)
        /\ (Len(t) - i) + 1 = Len(u) + ((Len(s) - i) + 1)
    BY <1>1
  <2> QED BY <1>1, <1>2, <1>3, <2>1
<1>. HIDE DEF a, b
<1>5. Len(a) <= Len(b)
  BY <1>1, <1>2, <1>3
<1>6. SubSeq(a, 1, Len(a)) = SubSeq(b, 1, Len(a))
  BY <1>1, <1>2, <1>3, <1>4, <1>5
<1> QED BY <1>5, <1>6 DEF IsSuffix, IsPrefix, a, b, t

\* The end of a sequence grows as the sequence does.
LEMMA EndGrows ==
  ASSUME NEW S, NEW s \in Seq(S), NEW c \in S, NEW n \in Nat, n <= Len(s)
  PROVE  /\ SubSeq(s \o <<c>>, n + 1, Len(s) + 1) = Append(SubSeq(s, n + 1, Len(s)), c)
         /\ SubSeq(s, n + 1, Len(s)) \in Seq(S) /\ Len(s \o <<c>>) = Len(s) + 1
<1> DEFINE a == SubSeq(s \o <<c>>, n + 1, Len(s) + 1)
           b == SubSeq(s, n + 1, Len(s))
           t == s \o <<c>>
           k == Len(s) - n
<1>1. Len(s) \in Nat /\ k \in Nat /\ n + k = Len(s) /\ Len(s) + 1 - (n + 1) + 1 = k + 1
  OBVIOUS
<1>2. /\ t \in Seq(S) /\ Len(t) = Len(s) + 1 /\ t[Len(s) + 1] = c
      /\ \A i \in 1..Len(s) : t[i] = s[i]
  OBVIOUS
<1>3. b \in Seq(S) /\ Len(b) = k /\ \A i \in 1..k : b[i] = s[n + i]
  <2>1. \A i \in n + 1..Len(s) : s[i] \in S
    OBVIOUS
  <2>2. /\ b \in Seq(S) /\ Len(b) = (IF n + 1 <= Len(s) THEN Len(s) - (n + 1) + 1 ELSE 0)
        /\ \A i \in 1..Len(s) - (n + 1) + 1 : b[i] = s[n + 1 + i - 1]
    BY <1>1, <2>1, SubSeqProperties
  <2>3. /\ Len(s) - (n + 1) + 1 = k /\ (IF n + 1 <= Len(s) THEN Len(s) - (n + 1) + 1 ELSE 0) = k
        /\ \A i \in 1..k : n + 1 + i - 1 = n + i
    <3>1. Len(s) - (n + 1) + 1 = k
      BY <1>1
    <3>2. (IF n + 1 <= Len(s) THEN Len(s) - (n + 1) + 1 ELSE 0) = k
      <4>1. CASE n + 1 <= Len(s)
        BY <3>1, <4>1, Zenon
      <4>2. CASE ~(n + 1 <= Len(s))
        <5>1. \A l, m \in Nat : m <= l /\ ~(m + 1 <= l) => l - m = 0
          OBVIOUS
        <5>2. k = 0
          BY <1>1, <4>2, <5>1
        <5> QED BY <4>2, <5>2, Zenon
      <4> QED BY <4>1, <4>2
    <3>3. \A i \in 1..k : n + 1 + i - 1 = n + i
      BY <1>1
    <3> QED BY <3>1, <3>2, <3>3
  <2>. HIDE DEF b, k
  <2> QED BY <2>2, <2>3
<1>. HIDE DEF t
<1>4. LET a2 == SubSeq(t, n + 1, Len(s) + 1) IN
        a2 \in Seq(S) /\ Len(a2) = k + 1 /\ \A i \in 1..k + 1 : a2[i] = t[n + i]
  BY <1>1, <1>2
<1>5. a \in Seq(S) /\ Len(a) = k + 1 /\ \A i \in 1..k + 1 : a[i] = t[n + i]
  BY <1>4 DEF t
<1>. HIDE DEF a, b, k
<1>6. \A i \in 1..k + 1 : a[i] = Append(b, c)[i]
  <2> TAKE i \in 1..k + 1
  <2>1. CASE i = k + 1
    <3>1. n + i = Len(s) + 1 /\ Append(b, c)[i] = c
      BY <1>1, <1>3, <2>1
    <3> QED BY <1>2, <1>5, <3>1
  <2>2. CASE i \in 1..k
    <3>1. n + i \in 1..Len(s) /\ Append(b, c)[i] = b[i]
      BY <1>1, <1>3, <2>2
    <3> QED BY <1>2, <1>3, <1>5, <2>2, <3>1
  <2> QED BY <1>1, <1>3, <1>5, <2>1, <2>2
<1>7. a = Append(b, c)
  <2>1. Append(b, c) \in Seq(S) /\ Len(Append(b, c)) = k + 1
    BY <1>1, <1>3
  <2> QED BY <1>1, <1>5, <1>6, <2>1, SeqEqual
<1> QED BY <1>2, <1>3, <1>7 DEF a, b, t
=============================================================================
