----------------------------- MODULE Induction -----------------------------
(***************************************************************************)
(* Induction over the natural numbers, stated with sets: the theorems of   *)
(* NaturalsInduction take an operator, which the provers cannot choose.    *)
(* And what sequences are, one element at a time, and their prefixes.      *)
(***************************************************************************)
EXTENDS Integers, Sequences, SequencesExt, SequenceTheorems, WellFoundedInduction, TLAPS

LessOn(S) == {pair \in S \X S : pair[1] < pair[2]}

LEMMA NaturalsWellFounded == IsWellFoundedOn(LessOn(Nat), Nat)
<1>1. LessOn(Nat) = OpToRel(<, Nat)
  BY Zenon DEF OpToRel, LessOn
<1> QED
  BY <1>1, NatLessThanWellFounded, Zenon

\* A set of natural numbers that is not empty has a least element.
LEMMA LeastNumber ==
    ASSUME NEW S \in SUBSET Nat, S # {}
    PROVE  \E n \in S : \A m \in S : n <= m
<1>1. PICK n \in S : \A m \in S : ~ (<<m, n>> \in LessOn(Nat))
  BY NaturalsWellFounded, WFMin, Zenon
<1>2. ASSUME NEW m \in S PROVE n <= m
  <2>1. n \in Nat /\ m \in Nat /\ ~ (<<m, n>> \in LessOn(Nat))
    BY <1>1
  <2>2. <<m, n>> \in LessOn(Nat) <=> m < n
    BY <2>1 DEF LessOn
  <2> QED
    BY <2>1, <2>2
<1> QED
  BY <1>2

\* One that is bounded has a greatest element.
LEMMA GreatestNumber ==
    ASSUME NEW b \in Nat, NEW S \in SUBSET (0 .. b), S # {}
    PROVE  \E n \in S : \A m \in S : m <= n
<1> DEFINE T == {t \in 0 .. b : b - t \in S}
<1>1. PICK t \in T : \A u \in T : t <= u
  <2>1. PICK n \in S : TRUE
    OBVIOUS
  <2>2. b - n \in T
    BY <2>1
  <2>3. T \in SUBSET Nat /\ T # {}
    BY <2>2
  <2> HIDE DEF T
  <2> QED
    BY <2>3, LeastNumber
<1>2. b - t \in S
  OBVIOUS
<1>3. ASSUME NEW m \in S PROVE m <= b - t
  <2>1. b - m \in T
    OBVIOUS
  <2>2. t <= b - m /\ t \in Int /\ m \in Int
    BY <1>1, <2>1
  <2> QED
    BY <2>2
<1> QED
  BY <1>2, <1>3

\* A set with 0 and the successor of each of its numbers has all of them.
LEMMA SetInduction ==
    ASSUME NEW S, 0 \in S, \A n \in Nat : n \in S => n + 1 \in S
    PROVE  \A n \in Nat : n \in S
<1> DEFINE Missing == Nat \ S
<1>1. SUFFICES ASSUME Missing # {} PROVE FALSE
  OBVIOUS
<1>2. PICK n \in Missing : \A m \in Missing : n <= m
  BY <1>1, LeastNumber
<1> QED
  BY <1>2

\* The same between 0 and a bound.
LEMMA BoundedInduction ==
    ASSUME NEW b \in Nat, NEW S, 0 \in S,
           \A n \in 0 .. b : n \in S /\ n < b => n + 1 \in S
    PROVE  \A n \in 0 .. b : n \in S
<1> DEFINE T == {n \in Nat : n \in 0 .. b => n \in S}
<1>1. 0 \in T
  OBVIOUS
<1>2. \A n \in Nat : n \in T => n + 1 \in T
  OBVIOUS
<1>3. \A n \in Nat : n \in T
  <2> HIDE DEF T
  <2> QED
    BY <1>1, <1>2, SetInduction
<1> QED
  BY <1>3

-----------------------------------------------------------------------------
(* Sequences, one element at a time                                        *)

LEMMA LastAppended ==
    ASSUME NEW B, NEW s \in Seq(B), NEW n \in 0 .. Len(s) - 1
    PROVE  /\ SubSeq(s, 1, n) \in Seq(B)
           /\ Len(SubSeq(s, 1, n)) = n
           /\ s[n + 1] \in B
           /\ SubSeq(s, 1, n + 1) = Append(SubSeq(s, 1, n), s[n + 1])
<1>1. /\ SubSeq(s, 1, n) \in Seq(B) /\ Len(SubSeq(s, 1, n)) = n
      /\ \A i \in 1 .. n : SubSeq(s, 1, n)[i] = s[i]
  BY SubSeqProperties
<1>2. /\ SubSeq(s, 1, n + 1) \in Seq(B) /\ Len(SubSeq(s, 1, n + 1)) = n + 1
      /\ \A i \in 1 .. n + 1 : SubSeq(s, 1, n + 1)[i] = s[i]
  BY SubSeqProperties
<1>3. s[n + 1] \in B
  OBVIOUS
<1>4. /\ Append(SubSeq(s, 1, n), s[n + 1]) \in Seq(B)
      /\ Len(Append(SubSeq(s, 1, n), s[n + 1])) = n + 1
      /\ \A i \in 1 .. n + 1 : Append(SubSeq(s, 1, n), s[n + 1])[i] = s[i]
  BY <1>1, <1>3
<1> QED
  BY <1>1, <1>2, <1>3, <1>4, SeqEqual

\* What the empty sequence has, and appending keeps, every sequence has.
LEMMA SequenceInduction ==
    ASSUME NEW B, NEW P, <<>> \in P,
           \A s \in Seq(B), e \in B : s \in P => Append(s, e) \in P
    PROVE  \A s \in Seq(B) : s \in P
<1> SUFFICES ASSUME NEW s \in Seq(B) PROVE s \in P
  OBVIOUS
<1> DEFINE S == {n \in Nat : n <= Len(s) => SubSeq(s, 1, n) \in P}
<1>1. 0 \in S
  <2>1. SubSeq(s, 1, 0) = <<>>
    BY SubSeqEmpty
  <2> QED
    BY <2>1
<1>2. ASSUME NEW n \in Nat, n \in S PROVE n + 1 \in S
  <2>1. CASE n + 1 <= Len(s)
    <3>1. SubSeq(s, 1, n) \in P
      BY <1>2, <2>1
    <3>2. n \in 0 .. Len(s) - 1
      BY <2>1
    <3>3. /\ SubSeq(s, 1, n) \in Seq(B) /\ s[n + 1] \in B
          /\ SubSeq(s, 1, n + 1) = Append(SubSeq(s, 1, n), s[n + 1])
      BY <3>2, LastAppended
    <3>4. SubSeq(s, 1, n + 1) \in P
      BY <3>1, <3>3
    <3> QED
      BY <3>4
  <2> QED
    BY <2>1
<1>3. Len(s) \in S
  <2> HIDE DEF S
  <2>1. \A n \in Nat : n \in S
    BY <1>1, <1>2, SetInduction
  <2> QED
    BY <2>1
<1>4. SubSeq(s, 1, Len(s)) \in P
  <2>1. Len(s) \in Nat /\ Len(s) <= Len(s)
    OBVIOUS
  <2> QED
    BY <1>3, <2>1
<1>5. SubSeq(s, 1, Len(s)) = s
  BY SubSeqFull
<1> QED
  BY <1>4, <1>5

LEMMA ConcatAppend ==
    ASSUME NEW B, NEW s \in Seq(B), NEW t \in Seq(B), NEW e \in B
    PROVE  s \o Append(t, e) = Append(s \o t, e)
<1>1. /\ s \o Append(t, e) \in Seq(B) /\ Append(s \o t, e) \in Seq(B)
      /\ Len(s \o Append(t, e)) = Len(Append(s \o t, e))
  OBVIOUS
<1>2. ASSUME NEW i \in 1 .. Len(s) + Len(t) + 1
      PROVE  (s \o Append(t, e))[i] = Append(s \o t, e)[i]
  OBVIOUS
<1> QED
  BY <1>1, <1>2, SeqEqual

\* Sequences written out.
LEMMA OneAndOne == ASSUME NEW e, NEW f PROVE <<e>> \o <<f>> = <<e, f>>
<1> DEFINE S == {e, f}
<1>1. <<e>> \in Seq(S) /\ <<f>> \in Seq(S) /\ <<e, f>> \in Seq(S) /\ <<e>> \o <<f>> \in Seq(S)
  OBVIOUS
<1>2. Len(<<e>> \o <<f>>) = 2 /\ Len(<<e, f>>) = 2
  BY <1>1
<1>3. (<<e>> \o <<f>>)[1] = e /\ (<<e>> \o <<f>>)[2] = f
  BY <1>1
<1>4. \A i \in 1 .. Len(<<e>> \o <<f>>) : (<<e>> \o <<f>>)[i] = <<e, f>>[i]
  BY <1>2, <1>3
<1> HIDE DEF S
<1> QED
  BY <1>1, <1>2, <1>4, SeqEqual

LEMMA OneAndTwo == ASSUME NEW e, NEW f, NEW g PROVE <<e>> \o <<f, g>> = <<e, f, g>>
<1> DEFINE S == {e, f, g}
<1>1. <<e>> \in Seq(S) /\ <<f, g>> \in Seq(S) /\ <<e, f, g>> \in Seq(S) /\ <<e>> \o <<f, g>> \in Seq(S)
  OBVIOUS
<1>2. Len(<<e>> \o <<f, g>>) = 3 /\ Len(<<e, f, g>>) = 3
  BY <1>1
<1>3. (<<e>> \o <<f, g>>)[1] = e /\ (<<e>> \o <<f, g>>)[2] = f /\ (<<e>> \o <<f, g>>)[3] = g
  BY <1>1
<1>4. \A i \in 1 .. Len(<<e>> \o <<f, g>>) : (<<e>> \o <<f, g>>)[i] = <<e, f, g>>[i]
  BY <1>2, <1>3
<1> HIDE DEF S
<1> QED
  BY <1>1, <1>2, <1>4, SeqEqual

LEMMA ThreeAndOne == ASSUME NEW e, NEW f, NEW g, NEW h PROVE <<e, f, g>> \o <<h>> = <<e, f, g, h>>
<1> DEFINE S == {e, f, g, h}
<1>1. <<e, f, g>> \in Seq(S) /\ <<h>> \in Seq(S) /\ <<e, f, g, h>> \in Seq(S) /\ <<e, f, g>> \o <<h>> \in Seq(S)
  OBVIOUS
<1>2. Len(<<e, f, g>> \o <<h>>) = 4 /\ Len(<<e, f, g, h>>) = 4
  BY <1>1
<1>3. /\ (<<e, f, g>> \o <<h>>)[1] = e /\ (<<e, f, g>> \o <<h>>)[2] = f
      /\ (<<e, f, g>> \o <<h>>)[3] = g /\ (<<e, f, g>> \o <<h>>)[4] = h
  BY <1>1
<1>4. \A i \in 1 .. Len(<<e, f, g>> \o <<h>>) : (<<e, f, g>> \o <<h>>)[i] = <<e, f, g, h>>[i]
  BY <1>2, <1>3
<1> HIDE DEF S
<1> QED
  BY <1>1, <1>2, <1>4, SeqEqual

LEMMA ReplaceLast ==
    ASSUME NEW B, NEW s \in Seq(B), NEW d \in B, NEW e \in B
    PROVE  [Append(s, d) EXCEPT ![Len(s) + 1] = e] = Append(s, e)
<1> DEFINE t == [Append(s, d) EXCEPT ![Len(s) + 1] = e]
<1>1. Append(s, d) \in Seq(B) /\ Len(Append(s, d)) = Len(s) + 1 /\ Len(s) + 1 \in 1 .. Len(s) + 1
  OBVIOUS
<1>2. /\ t \in Seq(B) /\ Len(t) = Len(s) + 1
      /\ \A i \in 1 .. Len(s) + 1 : t[i] = IF i = Len(s) + 1 THEN e ELSE Append(s, d)[i]
  <2> DEFINE a == Append(s, d)
             n == Len(s) + 1
  <2>1. a \in Seq(B) /\ Len(a) = n /\ n \in 1 .. n
    BY <1>1
  <2> HIDE DEF a, n
  <2>2. /\ [a EXCEPT ![n] = e] \in Seq(B) /\ Len([a EXCEPT ![n] = e]) = n
        /\ \A i \in 1 .. n : [a EXCEPT ![n] = e][i] = IF i = n THEN e ELSE a[i]
    BY <2>1, ExceptSeq
  <2> QED
    BY <2>2 DEF a, n
<1>3. /\ Append(s, e) \in Seq(B) /\ Len(Append(s, e)) = Len(s) + 1
      /\ \A i \in 1 .. Len(s) + 1 : Append(s, e)[i] = IF i = Len(s) + 1 THEN e ELSE Append(s, d)[i]
  OBVIOUS
<1> HIDE DEF t
<1>4. t = Append(s, e)
  BY <1>2, <1>3, SeqEqual
<1> QED
  BY <1>4 DEF t

-----------------------------------------------------------------------------
(* Functions defined by recursion over 0 .. n: they exist, which makes the *)
(* CHOOSE behind f[i \in 0 .. n] == ... equal to such a function.          *)

Recursive(f, n, a, step) == f[0] = a /\ \A i \in 1 .. n : f[i] = step[<<i, f[i - 1]>>]

LEMMA RecursionExists ==
    ASSUME NEW V, NEW a \in V, NEW b \in Nat, NEW step \in [(1 .. b) \X V -> V]
    PROVE  \E f \in [0 .. b -> V] : Recursive(f, b, a, step)
<1> DEFINE S == {n \in 0 .. b : \E f \in [0 .. n -> V] : Recursive(f, n, a, step)}
<1>1. 0 \in S
  <2> DEFINE f == [i \in 0 .. 0 |-> a]
  <2>1. f \in [0 .. 0 -> V] /\ Recursive(f, 0, a, step)
    BY DEF Recursive
  <2> QED
    BY <2>1
<1>2. ASSUME NEW n \in 0 .. b, n \in S /\ n < b PROVE n + 1 \in S
  <2>1. PICK f \in [0 .. n -> V] : Recursive(f, n, a, step)
    BY <1>2
  <2> DEFINE next == step[<<n + 1, f[n]>>]
             g == [i \in 0 .. n + 1 |-> IF i = n + 1 THEN next ELSE f[i]]
  <2>2. next \in V
    BY <1>2
  <2>3. g \in [0 .. n + 1 -> V]
    BY <2>2
  <2>4. \A i \in 0 .. n : g[i] = f[i]
    OBVIOUS
  <2>5. g[n + 1] = step[<<n + 1, g[n]>>]
    <3>1. g[n + 1] = next
      OBVIOUS
    <3>2. g[n] = f[n]
      BY <2>4
    <3> QED
      BY <3>1, <3>2
  <2>6. Recursive(g, n + 1, a, step)
    <3> HIDE DEF g
    <3>1. g[0] = a
      BY <2>1, <2>4 DEF Recursive
    <3>2. ASSUME NEW i \in 1 .. n + 1 PROVE g[i] = step[<<i, g[i - 1]>>]
      <4>1. CASE i = n + 1
        BY <4>1, <2>5
      <4>2. CASE i # n + 1
        <5>1. i \in 1 .. n /\ i \in 0 .. n /\ i - 1 \in 0 .. n
          BY <4>2
        <5> QED
          BY <5>1, <2>1, <2>4 DEF Recursive
      <4> QED
        BY <4>1, <4>2
    <3> QED
      BY <3>1, <3>2 DEF Recursive
  <2>7. \E h \in [0 .. n + 1 -> V] : Recursive(h, n + 1, a, step)
    <3> HIDE DEF g
    <3> QED
      BY <2>3, <2>6
  <2> QED
    BY <1>2, <2>7
<1>3. b \in S
  <2> HIDE DEF S
  <2>1. \A n \in 0 .. b : n \in S
    BY <1>1, <1>2, BoundedInduction, SMTT(30)
  <2> QED
    BY <2>1
<1> QED
  BY <1>3

-----------------------------------------------------------------------------
(* Prefixes                                                                *)

\* A sequence is empty or has a last element.
LEMMA LastComponent ==
    ASSUME NEW B, NEW p \in Seq(B), p # <<>>
    PROVE  \E q \in Seq(B), c \in B :
               p = Append(q, c) /\ q = SubSeq(p, 1, Len(p) - 1) /\ c = p[Len(p)]
<1>1. Len(p) \in Nat /\ Len(p) # 0
  BY EmptySeq
<1>2. Len(p) - 1 \in 0 .. Len(p) - 1 /\ (Len(p) - 1) + 1 = Len(p)
  BY <1>1
<1>3. /\ SubSeq(p, 1, Len(p) - 1) \in Seq(B) /\ p[(Len(p) - 1) + 1] \in B
      /\ SubSeq(p, 1, (Len(p) - 1) + 1) = Append(SubSeq(p, 1, Len(p) - 1), p[(Len(p) - 1) + 1])
  BY <1>2, LastAppended
<1>4. SubSeq(p, 1, Len(p)) = p
  BY SubSeqFull
<1> QED BY <1>2, <1>3, <1>4

\* A prefix agrees in every element it has.
LEMMA PrefixByPlace ==
    ASSUME NEW B, NEW p \in Seq(B), NEW q \in Seq(B)
    PROVE  IsPrefix(p, q) <=> Len(p) <= Len(q) /\ \A i \in 1 .. Len(p) : p[i] = q[i]
<1>0. Len(p) \in Nat /\ Len(q) \in Nat
  OBVIOUS
<1>1. CASE Len(p) <= Len(q)
  <2>1. SubSeq(p, 1, Len(p)) = p
    BY SubSeqFull
  <2>2. \A i \in 1 .. Len(p) : q[i] \in B
    BY <1>0, <1>1, ElementOfSeq
  <2>3. /\ SubSeq(q, 1, Len(p)) \in Seq(B) /\ Len(SubSeq(q, 1, Len(p))) = Len(p)
        /\ \A i \in 1 .. Len(p) : SubSeq(q, 1, Len(p))[i] = q[i]
    <3>1. 1 \in Int /\ Len(p) \in Int
      BY <1>0
    <3>2. /\ SubSeq(q, 1, Len(p)) \in Seq(B)
          /\ Len(SubSeq(q, 1, Len(p))) = IF 1 <= Len(p) THEN Len(p) - 1 + 1 ELSE 0
          /\ \A i \in 1 .. Len(p) - 1 + 1 : SubSeq(q, 1, Len(p))[i] = q[1 + i - 1]
      BY <2>2, <3>1, SubSeqProperties
    <3> QED BY <1>0, <3>2
  <2>4. p = SubSeq(q, 1, Len(p)) <=> \A i \in 1 .. Len(p) : p[i] = q[i]
    BY <2>3, SeqEqual
  <2> QED BY <1>1, <2>1, <2>4 DEF IsPrefix
<1> QED BY <1>1 DEF IsPrefix

\* Prefixes are ordered, and those of one sequence linearly.
LEMMA PrefixOrder ==
    ASSUME NEW B
    PROVE  /\ \A p \in Seq(B) : IsPrefix(p, p) /\ IsPrefix(<<>>, p)
           /\ \A p \in Seq(B) : IsPrefix(p, <<>>) => p = <<>>
           /\ \A p, q, r \in Seq(B) : IsPrefix(p, q) /\ IsPrefix(q, r) => IsPrefix(p, r)
           /\ \A p, q, r \in Seq(B) : IsPrefix(p, r) /\ IsPrefix(q, r) => IsPrefix(p, q) \/ IsPrefix(q, p)
<1>1. ASSUME NEW p \in Seq(B) PROVE IsPrefix(p, p) /\ IsPrefix(<<>>, p)
  <2>1. <<>> \in Seq(B) /\ Len(<<>>) = 0 /\ Len(p) \in Nat
    OBVIOUS
  <2>2. IsPrefix(p, p)
    BY <2>1, PrefixByPlace
  <2>3. IsPrefix(<<>>, p)
    <3> DEFINE e == <<>>
    <3>1. e \in Seq(B) /\ Len(e) <= Len(p) /\ \A i \in 1 .. Len(e) : e[i] = p[i]
      BY <2>1
    <3> HIDE DEF e
    <3>2. IsPrefix(e, p)
      BY <3>1, PrefixByPlace
    <3> QED BY <3>2 DEF e
  <2> QED BY <2>2, <2>3
<1>2. ASSUME NEW p \in Seq(B), IsPrefix(p, <<>>) PROVE p = <<>>
  <2>1. <<>> \in Seq(B) /\ Len(<<>>) = 0 /\ Len(p) \in Nat
    OBVIOUS
  <2>2. Len(p) <= Len(<<>>)
    BY <1>2, <2>1, PrefixByPlace
  <2> QED BY <2>1, <2>2, EmptySeq
<1>3. ASSUME NEW p \in Seq(B), NEW q \in Seq(B), NEW r \in Seq(B), IsPrefix(p, q), IsPrefix(q, r)
      PROVE  IsPrefix(p, r)
  <2>1. Len(p) \in Nat /\ Len(q) \in Nat /\ Len(r) \in Nat
    OBVIOUS
  <2>2. /\ Len(p) <= Len(q) /\ \A i \in 1 .. Len(p) : p[i] = q[i]
        /\ Len(q) <= Len(r) /\ \A i \in 1 .. Len(q) : q[i] = r[i]
    BY <1>3, PrefixByPlace
  <2>3. \A i \in 1 .. Len(p) : p[i] = r[i]
    BY <2>1, <2>2
  <2> QED BY <2>1, <2>2, <2>3, PrefixByPlace
<1>4. ASSUME NEW p \in Seq(B), NEW q \in Seq(B), NEW r \in Seq(B), IsPrefix(p, r), IsPrefix(q, r)
      PROVE  IsPrefix(p, q) \/ IsPrefix(q, p)
  <2>1. Len(p) \in Nat /\ Len(q) \in Nat /\ Len(r) \in Nat
    OBVIOUS
  <2>2. /\ Len(p) <= Len(r) /\ \A i \in 1 .. Len(p) : p[i] = r[i]
        /\ Len(q) <= Len(r) /\ \A i \in 1 .. Len(q) : q[i] = r[i]
    BY <1>4, PrefixByPlace
  <2>3. CASE Len(p) <= Len(q)
    <3>1. \A i \in 1 .. Len(p) : p[i] = q[i]
      BY <2>1, <2>2, <2>3
    <3> QED BY <2>3, <3>1, PrefixByPlace
  <2>4. CASE Len(q) <= Len(p)
    <3>1. \A i \in 1 .. Len(q) : q[i] = p[i]
      BY <2>1, <2>2, <2>4
    <3> QED BY <2>4, <3>1, PrefixByPlace
  <2> QED BY <2>1, <2>3, <2>4
<1> QED BY <1>1, <1>2, <1>3, <1>4

\* The prefixes of a sequence with one element more.
LEMMA PrefixLonger ==
    ASSUME NEW B, NEW p \in Seq(B), NEW q \in Seq(B), NEW c \in B
    PROVE  /\ IsPrefix(p, Append(q, c)) <=> IsPrefix(p, q) \/ p = Append(q, c)
           /\ IsPrefix(q, Append(q, c)) /\ q # Append(q, c)
<1>1. /\ Append(q, c) \in Seq(B) /\ Len(Append(q, c)) = Len(q) + 1 /\ Len(q) \in Nat /\ Len(p) \in Nat
      /\ \A i \in 1 .. Len(q) : Append(q, c)[i] = q[i]
  BY AppendProperties
<1>2. IsPrefix(q, Append(q, c)) /\ q # Append(q, c)
  <2> DEFINE a == Append(q, c)
  <2>1. a \in Seq(B) /\ Len(a) = Len(q) + 1 /\ \A i \in 1 .. Len(q) : q[i] = a[i]
    BY <1>1
  <2> HIDE DEF a
  <2>2. Len(q) <= Len(a) /\ Len(q) # Len(a)
    BY <1>1, <2>1
  <2>3. IsPrefix(q, a) /\ q # a
    BY <2>1, <2>2, PrefixByPlace
  <2> QED BY <2>3 DEF a
<1>3. ASSUME IsPrefix(p, q) PROVE IsPrefix(p, Append(q, c))
  BY <1>1, <1>2, <1>3, PrefixOrder
<1>4. ASSUME p = Append(q, c) PROVE IsPrefix(p, Append(q, c))
  BY <1>4, PrefixOrder
<1>5. ASSUME IsPrefix(p, Append(q, c)), p # Append(q, c) PROVE IsPrefix(p, q)
  <2> DEFINE a == Append(q, c)
  <2>1. Len(p) <= Len(a) /\ \A i \in 1 .. Len(p) : p[i] = a[i]
    <3>1. a \in Seq(B) /\ IsPrefix(p, a)
      BY <1>1, <1>5
    <3> HIDE DEF a
    <3> QED
      BY <3>1, PrefixByPlace
  <2>2. Len(p) # Len(Append(q, c))
    BY <1>1, <1>5, <2>1, SeqEqual
  <2> QED BY <1>1, <2>1, <2>2, PrefixByPlace
<1> QED BY <1>2, <1>3, <1>4, <1>5

\* The first d elements of a sequence are a prefix ...
LEMMA PrefixCut ==
    ASSUME NEW B, NEW p \in Seq(B), NEW d \in 0 .. Len(p)
    PROVE  SubSeq(p, 1, d) \in Seq(B) /\ IsPrefix(SubSeq(p, 1, d), p) /\ Len(SubSeq(p, 1, d)) = d
<1> DEFINE z == SubSeq(p, 1, d)
<1>1. z \in Seq(B) /\ Len(z) = d /\ \A i \in 1 .. d : z[i] = p[i]
  OBVIOUS
<1> HIDE DEF z
<1>2. Len(z) <= Len(p)
  BY <1>1
<1>3. IsPrefix(z, p)
  BY <1>1, <1>2, PrefixByPlace
<1> QED BY <1>1, <1>3 DEF z

\* ... and every prefix is such a cut.
LEMMA PrefixIsCut ==
    ASSUME NEW B, NEW p \in Seq(B), NEW q \in Seq(B), IsPrefix(q, p)
    PROVE  q = SubSeq(p, 1, Len(q)) /\ Len(q) \in 0 .. Len(p)
<1> DEFINE z == SubSeq(p, 1, Len(q))
<1>1. Len(q) \in 0 .. Len(p) /\ \A i \in 1 .. Len(q) : q[i] = p[i]
  BY PrefixByPlace
<1>2. z \in Seq(B) /\ Len(z) = Len(q) /\ \A i \in 1 .. Len(q) : z[i] = p[i]
  BY <1>1
<1> HIDE DEF z
<1>3. z = q
  BY <1>1, <1>2
<1> QED BY <1>1, <1>3 DEF z

\* Two sequences that are prefixes of each other are one.
LEMMA PrefixBoth ==
    ASSUME NEW B, NEW p \in Seq(B), NEW q \in Seq(B), IsPrefix(p, q), IsPrefix(q, p)
    PROVE  p = q
<1>1. Len(p) \in Nat /\ Len(q) \in Nat
  OBVIOUS
<1>2. Len(p) = Len(q) /\ \A i \in 1 .. Len(p) : p[i] = q[i]
  BY <1>1, PrefixByPlace
<1> QED BY <1>1, <1>2
=============================================================================
