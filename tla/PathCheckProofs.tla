-------------------------- MODULE PathCheckProofs --------------------------
(***************************************************************************)
(* Theorems about PathCheck for every tree, every policy, every path asked *)
(* for and any number of changes by other processes.                       *)
(***************************************************************************)
EXTENDS PathCheck, Induction

-----------------------------------------------------------------------------
(* Texts: what PathOf may return, and what a policy may hold               *)

Word == Components \cup {"(deleted)"}
Text == Seq(Word)

LEMMA TextKinds ==
    /\ \A p \in Seq(Name) : p \in Seq(Components) /\ p \in Text
    /\ \A p \in Seq(Components) : p \in Text
    /\ Unlinked \in Text /\ Len(Unlinked) = 1 /\ Unlinked[1] = "(deleted)"
    /\ <<>> \in Seq(Name) /\ <<>> \in Text
<1>1. Name \subseteq Components /\ Components \subseteq Word /\ "(deleted)" \in Word
  BY DEF Components, Word
<1>2. \A p \in Seq(Name) : p \in Seq(Components)
  BY <1>1, SeqMonotonic
<1>3. \A p \in Seq(Components) : p \in Text
  BY <1>1, SeqMonotonic DEF Text
<1> QED
  BY <1>1, <1>2, <1>3 DEF Text, Unlinked

LEMMA PrefixText ==
    ASSUME NEW p \in Text, NEW q \in Text
    PROVE  IsPrefix(p, q) <=> Len(p) <= Len(q) /\ \A i \in 1 .. Len(p) : p[i] = q[i]
<1>0. Len(p) \in Nat /\ Len(q) \in Nat
  BY DEF Text
<1>1. CASE Len(p) <= Len(q)
  <2>1. SubSeq(p, 1, Len(p)) = p
    BY SubSeqFull DEF Text
  <2>2. \A i \in 1 .. Len(p) : q[i] \in Word
    BY <1>0, <1>1, ElementOfSeq DEF Text
  <2>3. /\ SubSeq(q, 1, Len(p)) \in Text /\ Len(SubSeq(q, 1, Len(p))) = Len(p)
        /\ \A i \in 1 .. Len(p) : SubSeq(q, 1, Len(p))[i] = q[i]
    <3>1. 1 \in Int /\ Len(p) \in Int
      BY <1>0
    <3>2. /\ SubSeq(q, 1, Len(p)) \in Seq(Word)
          /\ Len(SubSeq(q, 1, Len(p))) = IF 1 <= Len(p) THEN Len(p) - 1 + 1 ELSE 0
          /\ \A i \in 1 .. Len(p) - 1 + 1 : SubSeq(q, 1, Len(p))[i] = q[1 + i - 1]
      BY <2>2, <3>1, SubSeqProperties
    <3> QED
      BY <1>0, <3>2 DEF Text
  <2>4. p = SubSeq(q, 1, Len(p)) <=> \A i \in 1 .. Len(p) : p[i] = q[i]
    BY <2>3, SeqEqual DEF Text
  <2> QED
    BY <1>1, <2>1, <2>4 DEF IsPrefix
<1> QED
  BY <1>1 DEF IsPrefix

LEMMA ConcatText ==
    ASSUME NEW p \in Text, NEW s \in Text
    PROVE  /\ p \o s \in Text /\ Len(p \o s) = Len(p) + Len(s)
           /\ Len(p) \in Nat /\ Len(s) \in Nat
           /\ \A i \in 1 .. Len(p) : (p \o s)[i] = p[i]
           /\ \A i \in 1 .. Len(s) : (p \o s)[Len(p) + i] = s[i]
<1>1. /\ p \o s \in Seq(Word) /\ Len(p \o s) = Len(p) + Len(s)
      /\ \A i \in 1 .. Len(p) + Len(s) : (p \o s)[i] = IF i <= Len(p) THEN p[i] ELSE s[i - Len(p)]
  BY ConcatProperties DEF Text
<1>2. Len(p) \in Nat /\ Len(s) \in Nat
  BY DEF Text
<1>3. ASSUME NEW i \in 1 .. Len(p) PROVE (p \o s)[i] = p[i]
  BY <1>1, <1>2
<1>4. ASSUME NEW i \in 1 .. Len(s) PROVE (p \o s)[Len(p) + i] = s[i]
  <2>1. Len(p) + i \in 1 .. Len(p) + Len(s) /\ ~(Len(p) + i <= Len(p)) /\ (Len(p) + i) - Len(p) = i
    BY <1>2
  <2> QED
    BY <1>1, <2>1
<1> QED
  BY <1>1, <1>2, <1>3, <1>4 DEF Text

LEMMA AppendText ==
    ASSUME NEW p \in Text, NEW n \in Word
    PROVE  /\ Append(p, n) \in Text /\ Len(Append(p, n)) = Len(p) + 1 /\ Len(p) \in Nat
           /\ \A i \in 1 .. Len(p) : Append(p, n)[i] = p[i]
           /\ Append(p, n)[Len(p) + 1] = n
           /\ Append(p, n) # <<>> /\ Front(Append(p, n)) = p
           /\ Append(p, n) = p \o <<n>>
<1>1. /\ Append(p, n) \in Text /\ Len(Append(p, n)) = Len(p) + 1 /\ Len(p) \in Nat
      /\ \A i \in 1 .. Len(p) : Append(p, n)[i] = p[i]
      /\ Append(p, n)[Len(p) + 1] = n /\ Append(p, n) # <<>>
  BY AppendProperties DEF Text
<1>2. Front(Append(p, n)) = p
  <2>1. /\ Front(Append(p, n)) \in Text /\ Len(Front(Append(p, n))) = Len(p)
        /\ \A i \in 1 .. Len(p) : Front(Append(p, n))[i] = Append(p, n)[i]
    <3>1. Front(Append(p, n)) = SubSeq(Append(p, n), 1, Len(p))
      BY <1>1 DEF Front
    <3>2. \A i \in 1 .. Len(p) : Append(p, n)[i] \in Word
      BY <1>1, ElementOfSeq DEF Text
    <3>3. /\ SubSeq(Append(p, n), 1, Len(p)) \in Seq(Word)
          /\ Len(SubSeq(Append(p, n), 1, Len(p))) = IF 1 <= Len(p) THEN Len(p) - 1 + 1 ELSE 0
          /\ \A i \in 1 .. Len(p) - 1 + 1 : SubSeq(Append(p, n), 1, Len(p))[i] = Append(p, n)[1 + i - 1]
      <4>1. 1 \in Int /\ Len(p) \in Int
        BY <1>1
      <4> QED
        BY <3>2, <4>1, SubSeqProperties
    <3> QED
      BY <1>1, <3>1, <3>3 DEF Text
  <2> QED
    BY <1>1, <2>1, SeqEqual DEF Text
<1>3. Append(p, n) = p \o <<n>>
  BY AppendIsConcat DEF Text
<1> QED
  BY <1>1, <1>2, <1>3

\* Names alone stay names.
LEMMA AppendName ==
    ASSUME NEW p \in Seq(Name), NEW n \in Name
    PROVE  Append(p, n) \in Seq(Name) /\ p \in Text /\ n \in Word
BY TextKinds DEF Components, Word

\* Two texts are the same if they have the same last word and the same rest.
LEMMA AppendOne ==
    ASSUME NEW p \in Text, NEW q \in Text, NEW m \in Word, NEW n \in Word,
           Append(p, m) = Append(q, n)
    PROVE  p = q /\ m = n
<1>1. Len(p) = Len(q)
  BY AppendText
<1>2. m = n
  <2>1. m = Append(p, m)[Len(p) + 1] /\ n = Append(q, n)[Len(q) + 1]
    BY AppendText
  <2> QED
    BY <1>1, <2>1
<1>3. p = Front(Append(p, m)) /\ q = Front(Append(q, n))
  BY AppendText
<1> QED
  BY <1>2, <1>3

LEMMA PrefixAppend ==
    ASSUME NEW p \in Text, NEW q \in Text, NEW n \in Word
    PROVE  /\ IsPrefix(p, Append(q, n)) <=> IsPrefix(p, q) \/ p = Append(q, n)
           /\ IsPrefix(Append(q, n), p) => IsPrefix(q, p)
<1>1. /\ Append(q, n) \in Text /\ Len(Append(q, n)) = Len(q) + 1 /\ Len(q) \in Nat /\ Len(p) \in Nat
      /\ \A i \in 1 .. Len(q) : Append(q, n)[i] = q[i]
  BY AppendText DEF Text
<1> DEFINE a == Append(q, n)
<1>2. ASSUME IsPrefix(p, q) PROVE IsPrefix(p, a)
  <2>1. Len(p) <= Len(q) /\ \A i \in 1 .. Len(p) : p[i] = q[i]
    BY <1>2, PrefixText
  <2>2. ASSUME NEW i \in 1 .. Len(p) PROVE p[i] = a[i]
    <3>1. i \in 1 .. Len(q)
      BY <1>1, <2>1
    <3> QED
      BY <1>1, <2>1, <3>1
  <2>3. Len(p) <= Len(a)
    BY <1>1, <2>1
  <2> QED
    BY <1>1, <2>2, <2>3, PrefixText
<1>3. ASSUME p = a PROVE IsPrefix(p, a)
  BY <1>1, <1>3, PrefixText
<1>4. ASSUME IsPrefix(p, a), p # a PROVE IsPrefix(p, q)
  <2>1. Len(p) <= Len(a) /\ \A i \in 1 .. Len(p) : p[i] = a[i]
    BY <1>1, <1>4, PrefixText
  <2>2. Len(p) # Len(a)
    <3>1. SUFFICES ASSUME Len(p) = Len(a) PROVE p = a
      BY <1>4
    <3> QED
      BY <1>1, <2>1, <3>1, SeqEqual DEF Text
  <2> QED
    BY <1>1, <2>1, <2>2, PrefixText
<1>5. ASSUME IsPrefix(a, p) PROVE IsPrefix(q, p)
  <2>1. Len(a) <= Len(p) /\ \A i \in 1 .. Len(a) : a[i] = p[i]
    BY <1>1, <1>5, PrefixText
  <2>2. ASSUME NEW i \in 1 .. Len(q) PROVE q[i] = p[i]
    <3>1. i \in 1 .. Len(a)
      BY <1>1
    <3> QED
      BY <1>1, <2>1, <3>1
  <2>3. Len(q) <= Len(p)
    BY <1>1, <2>1
  <2> QED
    BY <2>2, <2>3, PrefixText
<1> HIDE DEF a
<1> QED
  BY <1>2, <1>3, <1>4, <1>5 DEF a

LEMMA PrefixConcat ==
    ASSUME NEW p \in Text, NEW q \in Text, NEW s \in Text
    PROVE  /\ IsPrefix(q, q \o s)
           /\ IsPrefix(p, q) => IsPrefix(p, q \o s)
           /\ Apart(p, q) => Apart(p, q \o s)
<1>1. /\ q \o s \in Text /\ Len(q \o s) = Len(q) + Len(s) /\ Len(q) \in Nat /\ Len(s) \in Nat /\ Len(p) \in Nat
      /\ \A i \in 1 .. Len(q) : (q \o s)[i] = q[i]
  BY ConcatText DEF Text
<1>2. IsPrefix(q, q \o s)
  <2>1. Len(q) <= Len(q \o s) /\ \A i \in 1 .. Len(q) : q[i] = (q \o s)[i]
    BY <1>1
  <2> QED
    BY <1>1, <2>1, PrefixText
<1>3. ASSUME IsPrefix(p, q) PROVE IsPrefix(p, q \o s)
  <2>1. Len(p) <= Len(q) /\ \A i \in 1 .. Len(p) : p[i] = q[i]
    BY <1>3, PrefixText
  <2>2. ASSUME NEW i \in 1 .. Len(p) PROVE p[i] = (q \o s)[i]
    <3>1. i \in 1 .. Len(q)
      BY <1>1, <2>1
    <3> QED
      BY <1>1, <2>1, <3>1
  <2>3. Len(p) <= Len(q \o s)
    BY <1>1, <2>1
  <2> QED
    BY <1>1, <2>2, <2>3, PrefixText
<1>4. ASSUME Apart(p, q) PROVE ~IsPrefix(p, q \o s)
  <2>1. SUFFICES ASSUME IsPrefix(p, q \o s) PROVE IsPrefix(p, q) \/ IsPrefix(q, p)
    BY <1>4 DEF Apart
  <2>2. Len(p) <= Len(q \o s) /\ \A i \in 1 .. Len(p) : p[i] = (q \o s)[i]
    BY <1>1, <2>1, PrefixText
  <2>3. CASE Len(p) <= Len(q)
    <3>1. ASSUME NEW i \in 1 .. Len(p) PROVE p[i] = q[i]
      <4>1. i \in 1 .. Len(q)
        BY <1>1, <2>3
      <4> QED
        BY <1>1, <2>2, <4>1
    <3> QED
      BY <2>3, <3>1, PrefixText
  <2>4. CASE ~(Len(p) <= Len(q))
    <3>1. ASSUME NEW i \in 1 .. Len(q) PROVE q[i] = p[i]
      <4>1. i \in 1 .. Len(p)
        BY <1>1, <2>4
      <4> QED
        BY <1>1, <2>2, <4>1
    <3>2. Len(q) <= Len(p)
      BY <1>1, <2>4
    <3> QED
      BY <3>1, <3>2, PrefixText
  <2> QED
    BY <2>3, <2>4
<1>5. ASSUME Apart(p, q) PROVE ~IsPrefix(q \o s, p)
  <2>1. SUFFICES ASSUME IsPrefix(q \o s, p) PROVE IsPrefix(q, p)
    BY <1>5 DEF Apart
  <2>2. Len(q \o s) <= Len(p) /\ \A i \in 1 .. Len(q \o s) : (q \o s)[i] = p[i]
    BY <1>1, <2>1, PrefixText
  <2>3. ASSUME NEW i \in 1 .. Len(q) PROVE q[i] = p[i]
    <3>1. i \in 1 .. Len(q \o s)
      BY <1>1
    <3> QED
      BY <1>1, <2>2, <3>1
  <2>4. Len(q) <= Len(p)
    BY <1>1, <2>2
  <2> QED
    BY <2>3, <2>4, PrefixText
<1> QED
  BY <1>2, <1>3, <1>4, <1>5 DEF Apart

LEMMA PrefixChain ==
    ASSUME NEW p \in Text, NEW q \in Text, NEW r \in Text, IsPrefix(p, q), IsPrefix(q, r)
    PROVE  IsPrefix(p, r)
<1>1. Len(p) \in Nat /\ Len(q) \in Nat /\ Len(r) \in Nat
  BY DEF Text
<1> QED
  BY <1>1, PrefixText

-----------------------------------------------------------------------------
(* Trees and the paths in them                                             *)

Present(t) == {Root} \cup {t[e] : e \in DOMAIN t}

Shape(t) ==
    /\ DOMAIN t \subseteq Dirs \X Name
    /\ \A e \in DOMAIN t : t[e] \in Inode \ {Root}
    /\ \A d, e \in DOMAIN t : t[d] = t[e] => d = e
    /\ \A d \in Dirs \ {Root} : \E e \in DOMAIN t : t[e] = d

\* P gives every inode the path it has in t.
Paths(t, P) ==
    /\ P \in [Inode -> Text]
    /\ P[Root] = <<>>
    /\ \A e \in DOMAIN t : P[t[e]] = Append(P[e[1]], e[2])
    /\ \A i \in Inode \ Present(t) : P[i] = Unlinked

LEMMA EntryFacts ==
    ASSUME NEW t, Shape(t), NEW e \in DOMAIN t
    PROVE  /\ e[1] \in Dirs /\ e[1] \in Inode /\ e[1] \in Present(t)
           /\ e[2] \in Name /\ e[2] \in Word /\ e = <<e[1], e[2]>>
           /\ t[e] \in Inode /\ t[e] # Root /\ t[e] \in Present(t)
<1>1. e \in Dirs \X Name /\ t[e] \in Inode \ {Root}
  BY DEF Shape
<1>2. e[1] \in Dirs /\ e[2] \in Name /\ e = <<e[1], e[2]>>
  BY <1>1
<1>3. e[1] \in Present(t)
  BY <1>2 DEF Shape, Present
<1> QED
  BY <1>1, <1>2, <1>3 DEF Inode, Word, Components, Present

\* Walking up from an inode finds the path that P gives it.
LEMMA PathsUnique ==
    ASSUME NEW t, NEW P, Shape(t), Paths(t, P)
    PROVE  \A i \in Inode : PathIn(t, i) = P[i]
<1> DEFINE Of(j) == {e \in DOMAIN t : t[e] = j}
           Up(j) == CHOOSE e \in Of(j) : TRUE
           Way(f, j) == IF j = Root THEN <<>>
                         ELSE IF Of(j) = {} THEN Unlinked
                         ELSE Append(f[Up(j)[1]], Up(j)[2])
           Is(f) == f = [j \in Inode |-> Way(f, j)]
           c == CHOOSE f : Is(f)
<1>0. Root \in Inode /\ Len(<<>>) = 0
  BY InodeAssumption DEF Inode
<1>1. ASSUME NEW j \in Inode, j # Root, Of(j) # {}
      PROVE  Up(j) \in DOMAIN t /\ t[Up(j)] = j
  BY <1>1
<1>2. ASSUME NEW j \in Inode PROVE P[j] = Way(P, j)
  <2>1. CASE j = Root
    BY <2>1 DEF Paths
  <2>2. CASE j # Root /\ Of(j) = {}
    BY <2>2 DEF Paths, Present
  <2>3. CASE j # Root /\ Of(j) # {}
    <3>1. Up(j) \in DOMAIN t /\ t[Up(j)] = j
      BY <1>1, <2>3
    <3> HIDE DEF Of, Up
    <3>2. P[j] = Append(P[Up(j)[1]], Up(j)[2])
      BY <3>1 DEF Paths
    <3> QED
      BY <2>3, <3>2
  <2> QED
    BY <2>1, <2>2, <2>3
<1>3. Is(P)
  <2>1. P = [j \in Inode |-> P[j]]
    BY DEF Paths
  <2> HIDE DEF Way
  <2> QED
    BY <1>2, <2>1
<1>4. Is(c)
  <2> HIDE DEF Way
  <2> QED
    BY <1>3
<1>5. ASSUME NEW i \in Inode PROVE PathIn(t, i) = c[i]
  BY DEF PathIn
<1>6. \A j \in Inode : c[j] = Way(c, j)
  <2> HIDE DEF c, Way
  <2> QED
    BY <1>4
<1> HIDE DEF c
<1> DEFINE S == {n \in Nat : \A j \in Inode : Len(P[j]) <= n => c[j] = P[j]}
<1>7. ASSUME NEW j \in Inode,
             j # Root /\ Of(j) # {} => c[Up(j)[1]] = P[Up(j)[1]]
      PROVE  c[j] = P[j]
  BY <1>2, <1>6, <1>7
<1>8. ASSUME NEW j \in Inode, j # Root, Of(j) # {}
      PROVE  Up(j)[1] \in Inode /\ Len(P[Up(j)[1]]) \in Nat /\ Len(P[j]) = Len(P[Up(j)[1]]) + 1
  <2>1. Up(j) \in DOMAIN t /\ t[Up(j)] = j
    BY <1>1, <1>8
  <2> HIDE DEF Of, Up
  <2>2. Up(j)[1] \in Inode /\ Up(j)[2] \in Word
    BY <2>1, EntryFacts
  <2>3. P[Up(j)[1]] \in Text /\ P[j] = Append(P[Up(j)[1]], Up(j)[2])
    BY <2>1, <2>2 DEF Paths
  <2> QED
    BY <2>2, <2>3, AppendText
<1>9. 0 \in S
  <2>1. ASSUME NEW j \in Inode, Len(P[j]) <= 0 PROVE c[j] = P[j]
    <3>1. ~(j # Root /\ Of(j) # {})
      <4> HIDE DEF Of, Up
      <4> QED
        BY <1>8, <2>1
    <3> QED
      BY <1>7, <3>1
  <2> HIDE DEF Of, Up
  <2> QED
    BY <2>1
<1>10. ASSUME NEW n \in Nat, n \in S PROVE n + 1 \in S
  <2>1. ASSUME NEW j \in Inode, Len(P[j]) <= n + 1 PROVE c[j] = P[j]
    <3>1. ASSUME j # Root, Of(j) # {} PROVE c[Up(j)[1]] = P[Up(j)[1]]
      <4> HIDE DEF Of, Up
      <4>1. Up(j)[1] \in Inode /\ Len(P[Up(j)[1]]) <= n
        BY <1>8, <2>1, <3>1
      <4> QED
        BY <1>10, <4>1
    <3> QED
      BY <1>7, <3>1
  <2> HIDE DEF Of, Up
  <2> QED
    BY <2>1
<1>11. ASSUME NEW i \in Inode PROVE c[i] = P[i]
  <2>1. Len(P[i]) \in Nat
    BY DEF Paths, Text
  <2>2. Len(P[i]) \in S
    <3> HIDE DEF S
    <3>1. \A n \in Nat : n \in S
      BY <1>9, <1>10, SetInduction
    <3> QED
      BY <2>1, <3>1
  <2> QED
    BY <2>1, <2>2
<1> QED
  BY <1>5, <1>11

LEMMA TreePaths ==
    ASSUME NEW t, IsTree(t)
    PROVE  /\ Shape(t)
           /\ \A i \in Inode : PathIn(t, i) \in Text
           /\ PathIn(t, Root) = <<>>
           /\ \A e \in DOMAIN t : PathIn(t, t[e]) = Append(PathIn(t, e[1]), e[2])
           /\ \A i \in Inode \ Present(t) : PathIn(t, i) = Unlinked
           /\ \A i \in Present(t) : i \in Inode /\ PathIn(t, i) \in Seq(Name)
<1> DEFINE P == [i \in Inode |-> IF i \in Present(t) THEN PathIn(t, i) ELSE Unlinked]
<1>1. Shape(t)
  BY DEF IsTree, Shape
<1>2. Root \in Dirs /\ Dirs \subseteq Inode
  BY InodeAssumption DEF Inode
<1>3. ASSUME NEW e \in DOMAIN t
      PROVE  /\ PathIn(t, t[e]) = Append(PathIn(t, e[1]), e[2])
             /\ PathIn(t, t[e]) \in Seq(Name)
  <2>1. e[1] \in Dirs /\ e[2] \in Name
    BY <1>1, EntryFacts
  <2>2. PathIn(t, e[1]) \in Seq(Name)
    BY <2>1 DEF IsTree
  <2>3. PathIn(t, t[e]) = Append(PathIn(t, e[1]), e[2])
    BY DEF IsTree
  <2> QED
    BY <2>1, <2>2, <2>3, AppendName
<1>4. ASSUME NEW i \in Present(t) PROVE i \in Inode /\ PathIn(t, i) \in Seq(Name)
  <2>1. CASE i = Root
    BY <1>2, <2>1 DEF IsTree
  <2>2. CASE i # Root
    <3>1. PICK e \in DOMAIN t : i = t[e]
      BY <2>2 DEF Present
    <3> QED
      BY <1>1, <1>3, <3>1, EntryFacts
  <2> QED
    BY <2>1, <2>2
<1>5. Paths(t, P)
  <2>1. P \in [Inode -> Text]
    BY <1>4, TextKinds
  <2>2. P[Root] = <<>>
    BY <1>2 DEF IsTree, Present
  <2>3. ASSUME NEW e \in DOMAIN t PROVE P[t[e]] = Append(P[e[1]], e[2])
    <3>1. e[1] \in Inode /\ e[1] \in Present(t) /\ t[e] \in Inode /\ t[e] \in Present(t)
      BY <1>1, EntryFacts
    <3> QED
      BY <1>3, <3>1
  <2>4. \A i \in Inode \ Present(t) : P[i] = Unlinked
    OBVIOUS
  <2> HIDE DEF P
  <2> QED
    BY <2>1, <2>2, <2>3, <2>4 DEF Paths
<1>6. \A i \in Inode : PathIn(t, i) = P[i]
  <2> HIDE DEF P
  <2> QED
    BY <1>1, <1>5, PathsUnique
<1>7. \A i \in Inode : PathIn(t, i) \in Text
  BY <1>4, <1>6, TextKinds
<1>8. \A i \in Inode \ Present(t) : PathIn(t, i) = Unlinked
  BY <1>6
<1> QED
  BY <1>1, <1>3, <1>4, <1>7, <1>8 DEF IsTree

LEMMA PathsTree ==
    ASSUME NEW t, NEW P, Shape(t), Paths(t, P), \A d \in Dirs : P[d] \in Seq(Name)
    PROVE  IsTree(t) /\ \A i \in Inode : PathIn(t, i) = P[i]
<1>1. \A i \in Inode : PathIn(t, i) = P[i]
  BY PathsUnique
<1>2. Root \in Inode /\ Dirs \subseteq Inode
  BY InodeAssumption DEF Inode
<1>3. ASSUME NEW e \in DOMAIN t PROVE PathIn(t, t[e]) = Append(PathIn(t, e[1]), e[2])
  <2>1. e[1] \in Inode /\ t[e] \in Inode
    BY EntryFacts
  <2> QED
    BY <1>1, <2>1 DEF Paths
<1>4. PathIn(t, Root) = <<>> /\ \A d \in Dirs : PathIn(t, d) \in Seq(Name)
  BY <1>1, <1>2 DEF Paths
<1> QED
  BY <1>1, <1>3, <1>4 DEF IsTree, Shape

LEMMA DirsPresent ==
    ASSUME NEW t, IsTree(t), NEW d \in Dirs
    PROVE  d \in Present(t) /\ d \in Inode /\ PathIn(t, d) \in Seq(Name) /\ PathIn(t, d) \in Text
<1>1. d \in Present(t)
  BY DEF IsTree, Present
<1> QED
  BY <1>1, TreePaths

\* An inode that is present, and is not the root, has an entry.
LEMMA OwnEntry ==
    ASSUME NEW t, IsTree(t), NEW x \in Present(t), PathIn(t, x) # <<>>
    PROVE  \E e \in DOMAIN t : t[e] = x /\ PathIn(t, x) = Append(PathIn(t, e[1]), e[2])
BY TreePaths DEF Present

\* No two inodes have the same path.
LEMMA SamePath ==
    ASSUME NEW t, IsTree(t), NEW x \in Present(t), NEW y \in Present(t),
           PathIn(t, x) = PathIn(t, y)
    PROVE  x = y
<1> DEFINE S == {n \in Nat : \A u, v \in Present(t) :
                     PathIn(t, u) = PathIn(t, v) /\ Len(PathIn(t, u)) <= n => u = v}
<1>0. /\ Shape(t)
      /\ \A i \in Present(t) : i \in Inode /\ PathIn(t, i) \in Text /\ Len(PathIn(t, i)) \in Nat
  BY TreePaths DEF Text
<1>1. ASSUME NEW e \in DOMAIN t
      PROVE  /\ PathIn(t, t[e]) = Append(PathIn(t, e[1]), e[2])
             /\ e[1] \in Present(t) /\ PathIn(t, e[1]) \in Text /\ e[2] \in Word
             /\ Len(PathIn(t, t[e])) = Len(PathIn(t, e[1])) + 1
  <2>1. e[1] \in Present(t) /\ e[2] \in Word
    BY <1>0, EntryFacts
  <2>2. PathIn(t, e[1]) \in Text
    BY <1>0, <2>1
  <2>3. PathIn(t, t[e]) = Append(PathIn(t, e[1]), e[2])
    BY TreePaths
  <2> QED
    BY <2>1, <2>2, <2>3, AppendText
<1>2. ASSUME NEW u \in Present(t), Len(PathIn(t, u)) = 0 PROVE u = Root
  <2>1. SUFFICES ASSUME u # Root PROVE FALSE
    OBVIOUS
  <2>2. PICK e \in DOMAIN t : u = t[e]
    BY <2>1 DEF Present
  <2>3. Len(PathIn(t, e[1])) \in Nat /\ Len(PathIn(t, u)) = Len(PathIn(t, e[1])) + 1
    BY <1>0, <1>1, <2>2
  <2>4. Len(PathIn(t, u)) # 0
    BY <2>3
  <2> QED
    BY <1>2, <2>4
<1>3. 0 \in S
  <2>1. ASSUME NEW u \in Present(t), NEW v \in Present(t),
               PathIn(t, u) = PathIn(t, v), Len(PathIn(t, u)) <= 0
        PROVE  u = v
    <3>1. Len(PathIn(t, u)) = 0 /\ Len(PathIn(t, v)) = 0
      BY <1>0, <2>1
    <3> QED
      BY <1>2, <3>1
  <2> QED
    BY <2>1
<1>4. ASSUME NEW n \in Nat, n \in S PROVE n + 1 \in S
  <2>1. ASSUME NEW u \in Present(t), NEW v \in Present(t),
               PathIn(t, u) = PathIn(t, v), Len(PathIn(t, u)) <= n + 1
        PROVE  u = v
    <3>1. CASE Len(PathIn(t, u)) = 0
      BY <1>2, <2>1, <3>1
    <3>2. CASE Len(PathIn(t, u)) # 0
      <4>1. PathIn(t, u) # <<>> /\ PathIn(t, v) # <<>>
        BY <2>1, <3>2, TextKinds, EmptySeq
      <4>2. PICK d \in DOMAIN t : t[d] = u /\ PathIn(t, u) = Append(PathIn(t, d[1]), d[2])
        BY <4>1, OwnEntry
      <4>3. PICK e \in DOMAIN t : t[e] = v /\ PathIn(t, v) = Append(PathIn(t, e[1]), e[2])
        BY <4>1, OwnEntry
      <4>4. /\ d[1] \in Present(t) /\ PathIn(t, d[1]) \in Text /\ d[2] \in Word
            /\ Len(PathIn(t, u)) = Len(PathIn(t, d[1])) + 1
            /\ e[1] \in Present(t) /\ PathIn(t, e[1]) \in Text /\ e[2] \in Word
        BY <1>1, <4>2, <4>3
      <4>5. PathIn(t, d[1]) = PathIn(t, e[1]) /\ d[2] = e[2]
        <5>1. Append(PathIn(t, d[1]), d[2]) = Append(PathIn(t, e[1]), e[2])
          BY <2>1, <4>2, <4>3
        <5> QED
          BY <4>4, <5>1, AppendOne
      <4>6. Len(PathIn(t, d[1])) <= n
        BY <1>0, <2>1, <4>4
      <4>7. d[1] = e[1]
        BY <1>4, <4>4, <4>5, <4>6
      <4>8. d = <<d[1], d[2]>> /\ e = <<e[1], e[2]>>
        BY <1>0, EntryFacts
      <4>9. d = e
        BY <4>5, <4>7, <4>8
      <4> QED
        BY <4>2, <4>3, <4>9
    <3> QED
      BY <3>1, <3>2
  <2> QED
    BY <2>1
<1>5. Len(PathIn(t, x)) \in S /\ Len(PathIn(t, x)) \in Nat
  <2> HIDE DEF S
  <2>1. \A n \in Nat : n \in S
    BY <1>3, <1>4, SetInduction
  <2> QED
    BY <1>0, <2>1
<1> QED
  BY <1>5

\* The empty path is the root's.
LEMMA RootPath ==
    ASSUME NEW t, IsTree(t), NEW x \in Inode
    PROVE  PathIn(t, x) = <<>> <=> x = Root
<1>1. PathIn(t, Root) = <<>> /\ Root \in Present(t)
  BY TreePaths DEF Present
<1>2. x \notin Present(t) => PathIn(t, x) # <<>>
  <2>1. x \notin Present(t) => PathIn(t, x) = Unlinked
    BY TreePaths
  <2>2. Unlinked # <<>>
    <3>1. Len(<<>>) = 0
      OBVIOUS
    <3> QED
      BY <3>1, TextKinds
  <2> QED
    BY <2>1, <2>2
<1>3. x \in Present(t) /\ PathIn(t, x) = <<>> => x = Root
  BY <1>1, SamePath
<1> QED
  BY <1>1, <1>2, <1>3

\* Every directory on the way to an inode is where the path says.
LEMMA Ancestors ==
    ASSUME NEW t, IsTree(t), NEW x \in Present(t),
           NEW n \in 0 .. Len(PathIn(t, x)) - 1
    PROVE  LET p == PathIn(t, x) IN
           \E e \in DOMAIN t : /\ PathIn(t, e[1]) = SubSeq(p, 1, n) /\ e[2] = p[n + 1]
                               /\ PathIn(t, t[e]) = SubSeq(p, 1, n + 1)
                               /\ IF n + 1 = Len(p) THEN t[e] = x ELSE t[e] \in Dirs
<1> DEFINE p == PathIn(t, x)
           On(m, e) == /\ PathIn(t, e[1]) = SubSeq(p, 1, m) /\ e[2] = p[m + 1]
                       /\ PathIn(t, t[e]) = SubSeq(p, 1, m + 1)
                       /\ IF m + 1 = Len(p) THEN t[e] = x ELSE t[e] \in Dirs
<1>0. Shape(t) /\ p \in Text /\ Len(p) \in Nat /\ Len(p) >= 1
  BY TreePaths DEF Text
<1>1. ASSUME NEW m \in 0 .. Len(p) - 1, NEW y \in Present(t), PathIn(t, y) = SubSeq(p, 1, m + 1)
      PROVE  \E e \in DOMAIN t : /\ t[e] = y /\ e[1] \in Dirs
                                 /\ PathIn(t, e[1]) = SubSeq(p, 1, m) /\ e[2] = p[m + 1]
  <2>1. /\ SubSeq(p, 1, m) \in Text /\ p[m + 1] \in Word
        /\ SubSeq(p, 1, m + 1) = Append(SubSeq(p, 1, m), p[m + 1])
    BY <1>0, LastAppended DEF Text
  <2>2. PathIn(t, y) # <<>>
    BY <1>1, <2>1, AppendText
  <2>3. PICK e \in DOMAIN t : t[e] = y /\ PathIn(t, y) = Append(PathIn(t, e[1]), e[2])
    BY <2>2, OwnEntry
  <2>4. e[1] \in Dirs /\ e[2] \in Word /\ PathIn(t, e[1]) \in Text
    BY <1>0, EntryFacts, DirsPresent
  <2>5. Append(PathIn(t, e[1]), e[2]) = Append(SubSeq(p, 1, m), p[m + 1])
    BY <1>1, <2>1, <2>3
  <2>6. PathIn(t, e[1]) = SubSeq(p, 1, m) /\ e[2] = p[m + 1]
    <3> DEFINE q == SubSeq(p, 1, m)
               w == p[m + 1]
    <3>1. q \in Text /\ w \in Word /\ Append(PathIn(t, e[1]), e[2]) = Append(q, w)
      BY <2>1, <2>5
    <3> HIDE DEF q, w, p
    <3>2. PathIn(t, e[1]) = q /\ e[2] = w
      BY <2>4, <3>1, AppendOne
    <3> QED
      BY <3>2 DEF q, w
  <2> QED
    BY <2>3, <2>4, <2>6
<1> DEFINE last == Len(p) - 1
           S == {k \in 0 .. last : \E e \in DOMAIN t : e[1] \in Dirs /\ On(last - k, e)}
<1>2. last \in Nat /\ last + 1 = Len(p)
  BY <1>0
<1>3. 0 \in S
  <2>1. PathIn(t, x) = SubSeq(p, 1, last + 1)
    BY <1>0, <1>2, SubSeqFull DEF Text
  <2>2. last \in 0 .. Len(p) - 1
    BY <1>2
  <2>3. PICK e \in DOMAIN t : /\ t[e] = x /\ e[1] \in Dirs
                              /\ PathIn(t, e[1]) = SubSeq(p, 1, last) /\ e[2] = p[last + 1]
    BY <1>1, <2>1, <2>2
  <2>4. On(last, e)
    BY <1>2, <2>1, <2>3
  <2>5. last - 0 = last /\ 0 \in 0 .. last
    BY <1>2
  <2> HIDE DEF On, last
  <2> QED
    BY <2>3, <2>4, <2>5
<1>4. ASSUME NEW k \in 0 .. last, k \in S /\ k < last PROVE k + 1 \in S
  <2> DEFINE m == last - k
  <2>1. m \in 1 .. last /\ m - 1 \in 0 .. Len(p) - 1 /\ (m - 1) + 1 = m /\ last - (k + 1) = m - 1 /\ m # Len(p)
    <3>1. k \in 0 .. last /\ k < last
      BY <1>4
    <3> HIDE DEF last, S, p
    <3> QED
      BY <1>2, <3>1
  <2>2. PICK e \in DOMAIN t : e[1] \in Dirs /\ On(m, e)
    BY <1>4
  <2>3. e[1] \in Present(t) /\ PathIn(t, e[1]) = SubSeq(p, 1, m)
    BY <1>0, <2>2, EntryFacts
  <2>4. PICK d \in DOMAIN t : /\ t[d] = e[1] /\ d[1] \in Dirs
                              /\ PathIn(t, d[1]) = SubSeq(p, 1, m - 1) /\ d[2] = p[m]
    <3> HIDE DEF m, On, p
    <3>1. PathIn(t, e[1]) = SubSeq(p, 1, (m - 1) + 1)
      BY <2>1, <2>3
    <3>2. PICK d \in DOMAIN t : /\ t[d] = e[1] /\ d[1] \in Dirs
                                /\ PathIn(t, d[1]) = SubSeq(p, 1, m - 1) /\ d[2] = p[(m - 1) + 1]
      BY <1>1, <2>1, <2>3, <3>1, Zenon
    <3> QED
      BY <2>1, <3>2, Zenon
  <2>5. On(m - 1, d)
    BY <2>1, <2>2, <2>3, <2>4, Zenon
  <2>6. k + 1 \in 0 .. last
    <3>1. k \in 0 .. last /\ k < last
      BY <1>4
    <3> HIDE DEF last, S, p
    <3> QED
      BY <1>2, <3>1
  <2> HIDE DEF On, last, m
  <2> QED
    BY <2>1, <2>4, <2>5, <2>6
<1>5. \A k \in 0 .. last : k \in S
  <2> HIDE DEF S, last
  <2> QED
    BY <1>2, <1>3, <1>4, BoundedInduction
<1>6. last - n \in 0 .. last /\ last - (last - n) = n
  BY <1>2
<1>7. \E e \in DOMAIN t : On(n, e)
  <2> HIDE DEF On, last
  <2> QED
    BY <1>5, <1>6
<1> QED
  BY <1>7

-----------------------------------------------------------------------------
(* What other processes do to a tree                                       *)

Beyond(q, n) == SubSeq(q, n + 1, Len(q))

LEMMA BeyondFacts ==
    ASSUME NEW q \in Seq(Name), NEW n \in 0 .. Len(q), NEW x \in Name
    PROVE  /\ Beyond(q, n) \in Seq(Name)
           /\ Beyond(Append(q, x), n) = Append(Beyond(q, n), x)
           /\ Beyond(q, Len(q)) = <<>>
<1> DEFINE a == Append(q, x)
<1>1. /\ Len(q) \in Nat /\ Append(q, x) \in Seq(Name) /\ Len(Append(q, x)) = Len(q) + 1
      /\ \A i \in 1 .. Len(q) : Append(q, x)[i] = q[i]
      /\ Append(q, x)[Len(q) + 1] = x
  BY AppendProperties
<1>2. ASSUME NEW r \in Seq(Name), n <= Len(r)
      PROVE  /\ Beyond(r, n) \in Seq(Name) /\ Len(Beyond(r, n)) = Len(r) - n
             /\ \A i \in 1 .. Len(r) - n : Beyond(r, n)[i] = r[n + i]
  <2>1. Len(r) \in Nat /\ n \in Nat
    BY <1>1
  <2>2. \A i \in n + 1 .. Len(r) : r[i] \in Name
    BY <2>1, ElementOfSeq
  <2>3. n + 1 \in Int /\ Len(r) \in Int
    BY <2>1
  <2>4. /\ SubSeq(r, n + 1, Len(r)) \in Seq(Name)
        /\ Len(SubSeq(r, n + 1, Len(r))) = IF n + 1 <= Len(r) THEN Len(r) - (n + 1) + 1 ELSE 0
        /\ \A i \in 1 .. Len(r) - (n + 1) + 1 : SubSeq(r, n + 1, Len(r))[i] = r[(n + 1) + i - 1]
    BY <2>2, <2>3, SubSeqProperties
  <2>5. ASSUME NEW i \in 1 .. Len(r) - n PROVE Beyond(r, n)[i] = r[n + i]
    <3>1. i \in 1 .. Len(r) - (n + 1) + 1 /\ (n + 1) + i - 1 = n + i
      BY <2>1
    <3> QED
      BY <2>4, <3>1 DEF Beyond
  <2>6. Len(SubSeq(r, n + 1, Len(r))) = Len(r) - n
    BY <1>2, <2>1, <2>4
  <2> QED
    BY <2>4, <2>5, <2>6 DEF Beyond
<1>3. Beyond(q, n) \in Seq(Name) /\ Len(Beyond(q, n)) = Len(q) - n
      /\ \A i \in 1 .. Len(q) - n : Beyond(q, n)[i] = q[n + i]
  BY <1>1, <1>2
<1>4. n <= Len(a)
  BY <1>1
<1>5. Beyond(a, n) \in Seq(Name) /\ Len(Beyond(a, n)) = Len(a) - n
      /\ \A i \in 1 .. Len(a) - n : Beyond(a, n)[i] = a[n + i]
  BY <1>1, <1>2, <1>4
<1> DEFINE b == Beyond(q, n)
           l == Len(q) - n
<1>6. b \in Seq(Name) /\ Len(b) = l /\ l \in Nat
  BY <1>1, <1>3
<1>7. /\ Append(b, x) \in Seq(Name) /\ Len(Append(b, x)) = l + 1
      /\ \A i \in 1 .. l : Append(b, x)[i] = b[i]
      /\ Append(b, x)[l + 1] = x
  <2> HIDE DEF b, l
  <2> QED
    BY <1>6, AppendProperties
<1>8. Len(a) - n = l + 1
  BY <1>1
<1>9. ASSUME NEW i \in 1 .. l + 1 PROVE Beyond(a, n)[i] = Append(b, x)[i]
  <2>1. Beyond(a, n)[i] = a[n + i]
    BY <1>5, <1>8
  <2>2. CASE i = l + 1
    <3>1. n + i = Len(q) + 1
      BY <1>1, <2>2
    <3> QED
      BY <1>1, <1>7, <2>1, <2>2, <3>1
  <2>3. CASE i # l + 1
    <3>1. i \in 1 .. l /\ n + i \in 1 .. Len(q)
      BY <1>1, <2>3
    <3>2. a[n + i] = q[n + i] /\ b[i] = q[n + i] /\ Append(b, x)[i] = b[i]
      BY <1>1, <1>3, <1>7, <3>1
    <3> QED
      BY <2>1, <3>2
  <2> QED
    BY <2>2, <2>3
<1>10. Beyond(a, n) = Append(b, x)
  <2> HIDE DEF a, b, l
  <2> QED
    BY <1>5, <1>7, <1>8, <1>9, SeqEqual
<1>11. Beyond(q, Len(q)) = <<>>
  <2>1. Len(q) + 1 \in Int /\ Len(q) \in Int /\ Len(q) < Len(q) + 1
    BY <1>1
  <2> QED
    BY <2>1, SubSeqEmpty DEF Beyond
<1> QED
  BY <1>3, <1>10, <1>11

\* An entry is moved into directory d: whatever lies below it goes along.
IsRenamed(u, t, from, d, n) ==
    u = [e \in (DOMAIN t \ {from}) \cup {<<d, n>>} |-> IF e = <<d, n>> THEN t[from] ELSE t[e]]

LEMMA Renamed ==
    ASSUME NEW t, IsTree(t), NEW from \in DOMAIN t, NEW d \in Dirs, NEW n \in Name,
           <<d, n>> \notin DOMAIN t, ~IsPrefix(PathIn(t, t[from]), PathIn(t, d)),
           NEW u, IsRenamed(u, t, from, d, n)
    PROVE  /\ IsTree(u)
           /\ \A i \in Inode : \/ PathIn(u, i) = PathIn(t, i)
                               \/ \E s \in Text : PathIn(u, i) = PathIn(t, d) \o s
<1> DEFINE moved == t[from]
           old == PathIn(t, moved)
           new == Append(PathIn(t, d), n)
           Below(i) == i \in Present(t) /\ IsPrefix(old, PathIn(t, i))
           P == [i \in Inode |-> IF Below(i) THEN new \o Beyond(PathIn(t, i), Len(old)) ELSE PathIn(t, i)]
<1>0. /\ Shape(t) /\ moved \in Present(t) /\ moved \in Inode /\ moved # Root
      /\ d \in Present(t) /\ d \in Inode /\ PathIn(t, d) \in Seq(Name)
      /\ from[1] \in Dirs
  BY TreePaths, EntryFacts, DirsPresent
<1>1. \A i \in Present(t) : i \in Inode /\ PathIn(t, i) \in Seq(Name) /\ PathIn(t, i) \in Text
  BY TreePaths
<1>2. /\ DOMAIN u = (DOMAIN t \ {from}) \cup {<<d, n>>}
      /\ u[<<d, n>>] = moved
      /\ \A e \in DOMAIN t \ {from} : e \in DOMAIN u /\ u[e] = t[e]
      /\ \A e \in DOMAIN u : e = <<d, n>> \/ e \in DOMAIN t \ {from}
  BY DEF IsRenamed
<1>3. Present(u) = Present(t)
  <2>1. ASSUME NEW i \in Present(u) PROVE i \in Present(t)
    BY <1>0, <1>2 DEF Present
  <2>2. ASSUME NEW i \in Present(t) PROVE i \in Present(u)
    <3>1. CASE i = Root
      BY <3>1 DEF Present
    <3>2. CASE i = moved
      BY <1>2, <3>2 DEF Present
    <3>3. CASE i # Root /\ i # moved
      <4>1. PICK e \in DOMAIN t : i = t[e]
        BY <3>3 DEF Present
      <4>2. e \in DOMAIN t \ {from}
        BY <3>3, <4>1
      <4> QED
        BY <1>2, <4>1, <4>2 DEF Present
    <3> QED
      BY <3>1, <3>2, <3>3
  <2> QED
    BY <2>1, <2>2
<1>4. Shape(u)
  <2>1. DOMAIN u \subseteq Dirs \X Name
    BY <1>0, <1>2 DEF Shape
  <2>2. \A e \in DOMAIN u : u[e] \in Inode \ {Root}
    BY <1>0, <1>2 DEF Shape
  <2>3. ASSUME NEW a \in DOMAIN u, NEW b \in DOMAIN u, u[a] = u[b] PROVE a = b
    <3>1. \A e \in DOMAIN t \ {from} : t[e] # moved
      BY <1>0 DEF Shape
    <3> QED
      BY <1>0, <1>2, <2>3, <3>1, SMTT(30) DEF Shape
  <2>4. ASSUME NEW c \in Dirs \ {Root} PROVE \E e \in DOMAIN u : u[e] = c
    <3>1. c \in Present(u) /\ c # Root
      BY <1>3, DirsPresent
    <3> QED
      BY <3>1 DEF Present
  <2> QED
    BY <2>1, <2>2, <2>3, <2>4 DEF Shape
<1>5. /\ old \in Seq(Name) /\ old \in Text /\ new \in Seq(Name) /\ new \in Text
      /\ Len(old) \in Nat /\ PathIn(t, d) \in Text /\ n \in Word
  <2>1. old \in Seq(Name) /\ old \in Text
    BY <1>0, <1>1
  <2>2. new \in Seq(Name) /\ PathIn(t, d) \in Text /\ n \in Word
    BY <1>0, AppendName
  <2>3. new \in Text /\ Len(old) \in Nat
    <3> HIDE DEF new, old
    <3> QED
      BY <2>1, <2>2, TextKinds
  <2> QED
    BY <2>1, <2>2, <2>3
<1>6. ASSUME NEW i \in Present(t), IsPrefix(old, PathIn(t, i))
      PROVE  /\ Len(old) \in 0 .. Len(PathIn(t, i))
             /\ Beyond(PathIn(t, i), Len(old)) \in Seq(Name)
             /\ new \o Beyond(PathIn(t, i), Len(old)) \in Seq(Name)
  <2>1. PathIn(t, i) \in Seq(Name) /\ Len(old) <= Len(PathIn(t, i)) /\ Len(PathIn(t, i)) \in Nat
    BY <1>1, <1>6 DEF IsPrefix
  <2>2. Len(old) \in 0 .. Len(PathIn(t, i))
    BY <1>5, <2>1
  <2>3. Beyond(PathIn(t, i), Len(old)) \in Seq(Name)
    <3> HIDE DEF old
    <3> QED
      BY <2>1, <2>2, BeyondFacts
  <2> HIDE DEF new, old
  <2> QED
    BY <1>5, <2>2, <2>3, ConcatProperties
<1>7. ASSUME NEW e \in DOMAIN t, t[e] # moved
      PROVE  P[t[e]] = Append(P[e[1]], e[2])
  <2>1. /\ e[1] \in Present(t) /\ e[1] \in Inode /\ e[2] \in Name /\ e[2] \in Word
        /\ t[e] \in Present(t) /\ t[e] \in Inode
        /\ PathIn(t, t[e]) = Append(PathIn(t, e[1]), e[2])
    BY <1>0, EntryFacts, TreePaths
  <2>2. PathIn(t, e[1]) \in Seq(Name) /\ PathIn(t, e[1]) \in Text
    BY <1>1, <2>1
  <2>3. Below(t[e]) <=> Below(e[1])
    <3>1. IsPrefix(old, PathIn(t, t[e])) <=> IsPrefix(old, PathIn(t, e[1])) \/ old = PathIn(t, t[e])
      <4> HIDE DEF old
      <4> QED
        BY <1>5, <2>1, <2>2, PrefixAppend
    <3>2. old # PathIn(t, t[e])
      BY <1>0, <1>7, <2>1, SamePath, SMTT(30)
    <3> QED
      BY <2>1, <3>1, <3>2
  <2>4. CASE ~Below(e[1])
    <3> HIDE DEF Below
    <3> QED
      BY <2>1, <2>3, <2>4, SMTT(30)
  <2>5. CASE Below(e[1])
    <3> DEFINE q == PathIn(t, e[1])
               b == Beyond(q, Len(old))
    <3>1. Len(old) \in 0 .. Len(q) /\ b \in Seq(Name)
      BY <1>6, <2>5
    <3>2. Beyond(PathIn(t, t[e]), Len(old)) = Append(b, e[2])
      <4> HIDE DEF old
      <4> QED
        BY <2>1, <2>2, <3>1, BeyondFacts
    <3>3. new \o Append(b, e[2]) = Append(new \o b, e[2])
      <4> HIDE DEF new, b
      <4> QED
        BY <1>5, <2>1, <3>1, ConcatAppend, SMTT(30)
    <3>4. P[t[e]] = new \o Beyond(PathIn(t, t[e]), Len(old)) /\ P[e[1]] = new \o b
      <4> HIDE DEF Below, new, old
      <4> QED
        BY <2>1, <2>3, <2>5
    <3> QED
      BY <3>2, <3>3, <3>4
  <2> QED
    BY <2>4, <2>5
<1>8. P[moved] = Append(P[d], n)
  <2>1. Below(moved) /\ ~Below(d)
    <3>1. IsPrefix(old, old)
      BY DEF IsPrefix, Text
    <3> QED
      BY <1>0, <3>1
  <2>2. P[d] = PathIn(t, d) /\ P[moved] = new \o Beyond(old, Len(old))
    <3> HIDE DEF Below, new
    <3> QED
      BY <1>0, <2>1
  <2>3. new \o Beyond(old, Len(old)) = new
    <3>1. Beyond(old, Len(old)) = <<>>
      <4>1. Len(old) + 1 \in Int /\ Len(old) \in Int /\ Len(old) < Len(old) + 1
        BY <1>5
      <4> QED
        BY <4>1, SubSeqEmpty DEF Beyond
    <3>2. new \o <<>> = new
      <4> HIDE DEF new
      <4> QED
        BY <1>5, ConcatEmptySeq
    <3> QED
      BY <3>1, <3>2
  <2> QED
    BY <2>2, <2>3
<1>9. Paths(u, P)
  <2>1. P \in [Inode -> Text]
    <3>1. ASSUME NEW i \in Inode PROVE PathIn(t, i) \in Text
      BY TreePaths
    <3>2. ASSUME NEW i \in Inode, Below(i) PROVE new \o Beyond(PathIn(t, i), Len(old)) \in Text
      <4>1. new \o Beyond(PathIn(t, i), Len(old)) \in Seq(Name)
        BY <1>6, <3>2
      <4> QED
        BY <4>1, TextKinds
    <3> HIDE DEF Below, new, old
    <3> QED
      BY <3>1, <3>2
  <2>2. P[Root] = <<>>
    <3>1. PathIn(t, Root) = <<>> /\ Root \in Inode
      BY TreePaths, InodeAssumption DEF Inode
    <3>2. ~Below(Root)
      <4>1. SUFFICES ASSUME Below(Root) PROVE FALSE
        OBVIOUS
      <4>2. Len(old) <= 0
        BY <3>1, <4>1 DEF IsPrefix
      <4>3. old = <<>>
        BY <1>5, <4>2, EmptySeq, SMTT(30)
      <4> QED
        BY <1>0, <4>3, RootPath
    <3> HIDE DEF Below
    <3> QED
      BY <3>1, <3>2
  <2>3. ASSUME NEW e \in DOMAIN u PROVE P[u[e]] = Append(P[e[1]], e[2])
    <3>1. CASE e = <<d, n>>
      <4>1. u[e] = moved /\ e[1] = d /\ e[2] = n
        BY <1>2, <3>1
      <4> HIDE DEF P, moved
      <4> QED
        BY <1>8, <4>1
    <3>2. CASE e \in DOMAIN t \ {from}
      <4>1. u[e] = t[e] /\ t[e] # moved
        BY <1>0, <1>2, <3>2 DEF Shape
      <4> HIDE DEF P, moved
      <4> QED
        BY <1>7, <3>2, <4>1
    <3> QED
      BY <1>2, <3>1, <3>2
  <2>4. ASSUME NEW i \in Inode \ Present(u) PROVE P[i] = Unlinked
    <3>1. ~Below(i) /\ PathIn(t, i) = Unlinked
      BY <1>3, TreePaths
    <3> HIDE DEF Below
    <3> QED
      BY <3>1
  <2> HIDE DEF P
  <2> QED
    BY <2>1, <2>2, <2>3, <2>4 DEF Paths
<1>10. ASSUME NEW c \in Dirs PROVE P[c] \in Seq(Name)
  <2>1. c \in Present(t) /\ c \in Inode /\ PathIn(t, c) \in Seq(Name)
    BY DirsPresent
  <2>2. Below(c) => new \o Beyond(PathIn(t, c), Len(old)) \in Seq(Name)
    BY <1>6
  <2> HIDE DEF Below, new, old
  <2> QED
    BY <2>1, <2>2
<1>11. IsTree(u) /\ \A i \in Inode : PathIn(u, i) = P[i]
  <2> HIDE DEF P
  <2> QED
    BY <1>4, <1>9, <1>10, PathsTree
<1>12. ASSUME NEW i \in Inode, Below(i)
       PROVE  \E s \in Text : new \o Beyond(PathIn(t, i), Len(old)) = PathIn(t, d) \o s
  <2> DEFINE b == Beyond(PathIn(t, i), Len(old))
  <2>1. b \in Text
    <3>1. b \in Seq(Name)
      BY <1>6, <1>12
    <3> QED
      BY <3>1, TextKinds
  <2>2. new = PathIn(t, d) \o <<n>> /\ <<n>> \in Text
    BY <1>5, AppendText DEF Text
  <2>3. new \o b = PathIn(t, d) \o (<<n>> \o b) /\ <<n>> \o b \in Text
    <3> HIDE DEF b, new
    <3> QED
      BY <1>5, <2>1, <2>2, ConcatAssociative, ConcatProperties DEF Text
  <2> QED
    BY <2>3
<1>13. ASSUME NEW i \in Inode
       PROVE  \/ PathIn(u, i) = PathIn(t, i)
              \/ \E s \in Text : PathIn(u, i) = PathIn(t, d) \o s
  <2> HIDE DEF Below, new, old
  <2> QED
    BY <1>11, <1>12
<1> QED
  BY <1>11, <1>13

\* A name becomes a link that had none: a file or link it replaces is gone.
LEMMA Replaced ==
    ASSUME NEW t, IsTree(t), NEW d \in Dirs, NEW n \in Name, NEW l \in Links, l \notin Present(t),
           <<d, n>> \in DOMAIN t => t[<<d, n>>] \notin Dirs,
           NEW u, u = [e \in DOMAIN t \cup {<<d, n>>} |-> IF e = <<d, n>> THEN l ELSE t[e]]
    PROVE  /\ IsTree(u)
           /\ \A i \in Dirs : PathIn(u, i) = PathIn(t, i)
           /\ \A i \in Files : PathIn(u, i) = PathIn(t, i) \/ PathIn(u, i) = Unlinked
<1> DEFINE P == [i \in Inode |-> IF i = l THEN Append(PathIn(t, d), n)
                                 ELSE IF i \in Present(u) THEN PathIn(t, i) ELSE Unlinked]
<1>0. /\ Shape(t) /\ d \in Present(t) /\ d \in Inode /\ PathIn(t, d) \in Seq(Name)
      /\ l \in Inode /\ l \notin Dirs /\ l \notin Files /\ Root \in Dirs
      /\ Dirs \subseteq Inode /\ Files \subseteq Inode
  BY TreePaths, DirsPresent, InodeAssumption DEF Inode
<1>1. /\ DOMAIN u = DOMAIN t \cup {<<d, n>>} /\ u[<<d, n>>] = l
      /\ \A e \in DOMAIN u \ {<<d, n>>} : e \in DOMAIN t /\ u[e] = t[e]
      /\ \A e \in DOMAIN t \ {<<d, n>>} : e \in DOMAIN u /\ u[e] = t[e]
  OBVIOUS
<1>2. \A e \in DOMAIN t : t[e] # l
  BY DEF Present
<1>3. \A i \in Present(u) : i = l \/ i \in Present(t)
  BY <1>1 DEF Present
<1>4. ASSUME NEW i \in Dirs PROVE i \in Present(u) /\ i # l
  <2>1. CASE i = Root
    BY <1>0, <2>1 DEF Present
  <2>2. CASE i # Root
    <3>1. PICK e \in DOMAIN t : t[e] = i
      BY <1>0, <2>2 DEF Shape
    <3>2. e \in DOMAIN t \ {<<d, n>>}
      BY <3>1
    <3> QED
      BY <1>0, <1>1, <3>1, <3>2 DEF Present
  <2> QED
    BY <2>1, <2>2
<1>5. Shape(u)
  <2>1. DOMAIN u \subseteq Dirs \X Name
    BY <1>0, <1>1 DEF Shape
  <2>2. \A e \in DOMAIN u : u[e] \in Inode \ {Root}
    <3>1. l # Root
      BY <1>0
    <3> QED
      BY <1>0, <1>1, <3>1 DEF Shape
  <2>3. ASSUME NEW a \in DOMAIN u, NEW b \in DOMAIN u, u[a] = u[b] PROVE a = b
    BY <1>0, <1>1, <1>2, <2>3 DEF Shape
  <2>4. ASSUME NEW c \in Dirs \ {Root} PROVE \E e \in DOMAIN u : u[e] = c
    BY <1>4 DEF Present
  <2> QED
    BY <2>1, <2>2, <2>3, <2>4 DEF Shape
<1>6. ASSUME NEW i \in Present(t) PROVE i # l /\ i \in Inode /\ PathIn(t, i) \in Seq(Name) /\ PathIn(t, i) \in Text
  BY TreePaths, TextKinds
<1>7. Append(PathIn(t, d), n) \in Text
  BY <1>0, AppendName, AppendText
<1>8. Paths(u, P)
  <2>1. P \in [Inode -> Text]
    BY <1>3, <1>6, <1>7, TextKinds
  <2>2. P[Root] = <<>>
    <3>1. PathIn(t, Root) = <<>> /\ Root \in Present(u) /\ Root # l /\ Root \in Inode
      BY <1>0, <1>4, TreePaths
    <3> QED
      BY <3>1
  <2>3. ASSUME NEW e \in DOMAIN u PROVE P[u[e]] = Append(P[e[1]], e[2])
    <3>1. e[1] \in Dirs /\ e[1] \in Inode /\ e[1] \in Present(u) /\ e[1] # l
          /\ u[e] \in Present(u) /\ u[e] \in Inode
      BY <1>4, <1>5, EntryFacts
    <3>2. P[e[1]] = PathIn(t, e[1])
      BY <3>1
    <3>3. CASE e = <<d, n>>
      <4>1. u[e] = l /\ e[1] = d /\ e[2] = n
        BY <1>1, <3>3
      <4>2. P[l] = Append(PathIn(t, d), n)
        BY <1>0
      <4> HIDE DEF P
      <4> QED
        BY <3>2, <4>1, <4>2
    <3>4. CASE e # <<d, n>>
      <4>1. e \in DOMAIN t /\ u[e] = t[e] /\ t[e] # l
        BY <1>1, <1>2, <3>4
      <4>2. PathIn(t, t[e]) = Append(PathIn(t, e[1]), e[2])
        BY <4>1, TreePaths
      <4>3. P[u[e]] = PathIn(t, t[e])
        BY <3>1, <4>1
      <4> HIDE DEF P
      <4> QED
        BY <3>2, <4>2, <4>3
    <3> QED
      BY <3>3, <3>4
  <2>4. ASSUME NEW i \in Inode \ Present(u) PROVE P[i] = Unlinked
    <3>1. i # l
      BY <1>1 DEF Present
    <3> QED
      BY <3>1
  <2> HIDE DEF P
  <2> QED
    BY <2>1, <2>2, <2>3, <2>4 DEF Paths
<1>9. ASSUME NEW i \in Dirs PROVE P[i] = PathIn(t, i) /\ PathIn(t, i) \in Seq(Name)
  <2>1. i \in Present(u) /\ i # l /\ i \in Inode /\ PathIn(t, i) \in Seq(Name)
    BY <1>4, DirsPresent
  <2> QED
    BY <2>1
<1>10. IsTree(u) /\ \A i \in Inode : PathIn(u, i) = P[i]
  <2>1. \A i \in Dirs : P[i] \in Seq(Name)
    <3> HIDE DEF P
    <3> QED
      BY <1>9
  <2> HIDE DEF P
  <2> QED
    BY <1>5, <1>8, <2>1, PathsTree
<1>11. ASSUME NEW i \in Files PROVE P[i] = PathIn(t, i) \/ P[i] = Unlinked
  <2>1. i # l /\ i \in Inode
    BY <1>0
  <2> QED
    BY <2>1
<1> QED
  <2> HIDE DEF P
  <2> QED
    BY <1>0, <1>9, <1>10, <1>11

-----------------------------------------------------------------------------
(* Types                                                                   *)

TypeInv ==
    /\ IsTree(entry)
    /\ policy \in Seq(Seq(Components)) /\ blocked \in Seq(Seq(Components))
    /\ request.abs \in BOOLEAN /\ request.names \in Seq(Components)
    /\ rest \in Seq(Components) /\ fd \in Dirs \cup Files /\ canonical \in Seq(Name)
    /\ links \in 0 .. MaxSymlinkDepth /\ changes \in Nat
    /\ alone \in BOOLEAN /\ guarded \in BOOLEAN /\ strayed \in BOOLEAN
    /\ status \in {"load", "walk", "accepted", "refused", "no policy"}
    /\ status \in {"load", "no policy"} => fd = Root /\ canonical = <<>> /\ links = 0 /\ ~strayed
    /\ alone => changes = 0

LEMMA ParentFacts ==
    ASSUME IsTree(entry), NEW d \in Dirs
    PROVE  /\ Parent(d) \in Dirs /\ Parent(d) \in Present(entry)
           /\ IF d = Root THEN Parent(d) = Root /\ PathOf(d) = <<>>
              ELSE \E n \in Name : PathOf(d) = Append(PathOf(Parent(d)), n)
<1>1. Root \in Dirs /\ Shape(entry) /\ PathOf(Root) = <<>>
  BY InodeAssumption, TreePaths DEF PathOf
<1>2. CASE d = Root
  BY <1>1, <1>2, DirsPresent DEF Parent
<1>3. CASE d # Root
  <2> DEFINE e == CHOOSE e \in NamesOf(d) : TRUE
  <2>1. e \in DOMAIN entry /\ entry[e] = d
    <3>1. NamesOf(d) # {}
      BY <1>1, <1>3 DEF Shape, NamesOf
    <3>2. e \in NamesOf(d)
      BY <3>1
    <3> QED
      BY <3>2 DEF NamesOf
  <2>2. Parent(d) = e[1]
    BY <1>3 DEF Parent
  <2> HIDE DEF e
  <2>3. e[1] \in Dirs /\ e[1] \in Present(entry) /\ e[2] \in Name
    BY <1>1, <2>1, EntryFacts
  <2>4. PathOf(d) = Append(PathOf(e[1]), e[2])
    BY <2>1, TreePaths DEF PathOf
  <2> QED
    BY <1>3, <2>2, <2>3, <2>4
<1> QED
  BY <1>2, <1>3

LEMMA LookupFacts ==
    ASSUME IsTree(entry), NEW d \in Dirs, NEW n, Lookup(d, n) # Nothing
    PROVE  /\ <<d, n>> \in DOMAIN entry /\ Lookup(d, n) = entry[<<d, n>>]
           /\ n \in Name /\ n # ".."
           /\ Lookup(d, n) \in Inode /\ Lookup(d, n) \in Present(entry)
           /\ PathOf(Lookup(d, n)) = Append(PathOf(d), n)
<1>1. <<d, n>> \in DOMAIN entry /\ Lookup(d, n) = entry[<<d, n>>] /\ Shape(entry)
  BY TreePaths DEF Lookup
<1> DEFINE e == <<d, n>>
<1>2. e \in DOMAIN entry /\ e[1] = d /\ e[2] = n /\ Lookup(d, n) = entry[e]
  BY <1>1
<1> HIDE DEF e
<1>3. e[2] \in Name /\ entry[e] \in Inode /\ entry[e] \in Present(entry)
  BY <1>1, <1>2, EntryFacts
<1>4. PathOf(entry[e]) = Append(PathOf(e[1]), e[2])
  BY <1>2, TreePaths DEF PathOf
<1> QED
  BY <1>1, <1>2, <1>3, <1>4, InodeAssumption DEF e

LEMMA NothingOutside == Nothing \notin Inode /\ "missing" \notin Inode /\ "error" \notin Inode
BY InodeAssumption

\* What the next component opens, and the text that goes with it.
LEMMA OpenedFacts ==
    ASSUME TypeInv, rest # <<>>, Opened # Nothing
    PROVE  /\ fd \in Dirs /\ Opened \in Inode /\ Opened \in Present(entry)
           /\ Component \in Components /\ Tail(rest) \in Seq(Components)
           /\ Here \in Seq(Name)
           /\ Component = ".." => Opened = Parent(fd) /\ Opened \in Dirs
           /\ Component # ".." => /\ Component \in Name /\ Opened = Lookup(fd, Component)
                                  /\ Here = Append(canonical, Component)
                                  /\ PathOf(Opened) = Append(PathOf(fd), Component)
           /\ canonical = PathOf(fd) => Here = PathOf(Opened)
<1>1. fd \in Dirs /\ Component \in Components /\ Tail(rest) \in Seq(Components) /\ IsTree(entry)
  BY HeadTailProperties DEF TypeInv, Opened, Component
<1>4. canonical \in Seq(Name)
  BY DEF TypeInv
<1>2. CASE Component = ".."
  <2>1. Opened = Parent(fd) /\ Opened \in Dirs /\ Opened \in Present(entry) /\ Opened \in Inode
    BY <1>1, <1>2, ParentFacts, DirsPresent DEF Opened
  <2>2. Here = IF canonical = <<>> THEN <<>> ELSE Front(canonical)
    BY <1>2 DEF Here
  <2>3. Here \in Seq(Name)
    <3>1. canonical \in Seq(Name) /\ Len(canonical) \in Nat
      BY <1>4, LenProperties
    <3>2. canonical # <<>> => Front(canonical) \in Seq(Name)
      <4>1. SUFFICES ASSUME canonical # <<>> PROVE SubSeq(canonical, 1, Len(canonical) - 1) \in Seq(Name)
        BY DEF Front
      <4>2. \A i \in 1 .. Len(canonical) - 1 : canonical[i] \in Name
        BY <3>1, ElementOfSeq
      <4>3. 1 \in Int /\ Len(canonical) - 1 \in Int
        BY <3>1
      <4> QED
        BY <4>2, <4>3, SubSeqProperties
    <3> QED
      BY <2>2, <3>2, TextKinds
  <2>4. ASSUME canonical = PathOf(fd) PROVE Here = PathOf(Opened)
    <3>1. CASE fd = Root
      <4>1. PathOf(fd) = <<>> /\ Parent(fd) = Root
        BY <1>1, <3>1, ParentFacts
      <4> QED
        BY <2>1, <2>2, <2>4, <3>1, <4>1
    <3>2. CASE fd # Root
      <4>1. PICK n \in Name : PathOf(fd) = Append(PathOf(Parent(fd)), n)
        BY <1>1, <3>2, ParentFacts
      <4>2. PathOf(Parent(fd)) \in Text /\ n \in Word
        BY <1>1, <2>1, DirsPresent DEF PathOf, Word, Components
      <4>3. Append(PathOf(Parent(fd)), n) # <<>> /\ Front(Append(PathOf(Parent(fd)), n)) = PathOf(Parent(fd))
        BY <4>2, AppendText
      <4> QED
        BY <2>1, <2>2, <2>4, <4>1, <4>3
    <3> QED
      BY <3>1, <3>2
  <2> QED
    BY <1>1, <1>2, <2>1, <2>3, <2>4
<1>3. CASE Component # ".."
  <2>1. Opened = Lookup(fd, Component) /\ Here = Append(canonical, Component)
    BY <1>1, <1>3 DEF Opened, Here
  <2>2. /\ Opened \in Inode /\ Opened \in Present(entry) /\ Component \in Name
        /\ PathOf(Opened) = Append(PathOf(fd), Component)
    BY <1>1, <2>1, LookupFacts
  <2>3. Here \in Seq(Name)
    BY <1>4, <2>1, <2>2, AppendName
  <2> QED
    BY <1>1, <1>3, <2>1, <2>2, <2>3
<1> QED
  BY <1>2, <1>3

\* Where the walk of a restart begins.
LEMMA RestartType ==
    ASSUME TypeInv, rest # <<>>, Opened \in Links
    PROVE  (IF Target[Opened].abs THEN <<>> ELSE canonical) \o Target[Opened].names \o Tail(rest)
             \in Seq(Components)
<1>1. Opened # Nothing
  BY NothingOutside DEF Inode
<1>2. Tail(rest) \in Seq(Components)
  BY <1>1, OpenedFacts
<1>3. Target[Opened].names \in Seq(Components)
  BY TargetAssumption
<1>4. canonical \in Seq(Components) /\ <<>> \in Seq(Components)
  BY TextKinds DEF TypeInv
<1> DEFINE b == IF Target[Opened].abs THEN <<>> ELSE canonical
<1>5. b \in Seq(Components)
  BY <1>4
<1> HIDE DEF b
<1>6. b \o Target[Opened].names \in Seq(Components)
  BY <1>3, <1>5, ConcatProperties
<1>7. b \o Target[Opened].names \o Tail(rest) \in Seq(Components)
  BY <1>2, <1>6, ConcatProperties
<1> QED
  BY <1>7 DEF b

-----------------------------------------------------------------------------
(* The kernel's path resolution                                            *)

\* A stage of it: an inode that is present, or an error with nothing left.
Stages ==
    {w \in [at : Dirs \cup Files \cup {"missing", "error"}, rest : Seq(Components), links : 0 .. KernelLinks] :
        IF w.at \in Dirs \cup Files THEN w.at \in Present(entry) ELSE w.rest = <<>>}

LEMMA StageFacts ==
    ASSUME NEW w \in Stages
    PROVE  /\ w.at \in Dirs \cup Files \cup {"missing", "error"}
           /\ w.rest \in Seq(Components) /\ w.links \in 0 .. KernelLinks
           /\ w = [at |-> w.at, rest |-> w.rest, links |-> w.links]
           /\ IF w.at \in Dirs \cup Files THEN w.at \in Present(entry) ELSE w.rest = <<>>
BY DEF Stages

LEMMA KernelStepFacts ==
    ASSUME IsTree(entry), NEW w \in Stages, w.rest # <<>>
    PROVE  LET v == KernelStep(w) IN
           /\ v \in Stages
           /\ \/ v.links = w.links /\ Len(v.rest) + 1 <= Len(w.rest)
              \/ v.links = w.links + 1 /\ Len(v.rest) + 1 <= Len(w.rest) + MaxTarget
<1> DEFINE v == KernelStep(w)
           n == Head(w.rest)
           next == IF n = ".." THEN Parent(w.at) ELSE Lookup(w.at, n)
<1>1. /\ w.at \in Dirs \cup Files /\ w.at \in Present(entry) /\ w.links \in 0 .. KernelLinks
      /\ w = [at |-> w.at, rest |-> w.rest, links |-> w.links]
      /\ w.rest \in Seq(Components) /\ KernelLinks \in Nat /\ MaxTarget \in Nat
  BY StageFacts, LinksAssumption, TargetAssumption
<1>2. /\ n \in Components /\ Tail(w.rest) \in Seq(Components) /\ Len(w.rest) \in Nat
      /\ Len(Tail(w.rest)) = Len(w.rest) - 1 /\ Len(Tail(w.rest)) \in Nat
  <2>1. n \in Components /\ Tail(w.rest) \in Seq(Components) /\ Len(Tail(w.rest)) = Len(w.rest) - 1
    BY <1>1, HeadTailProperties
  <2> QED
    BY <1>1, <2>1, LenProperties
<1>3. Len(w.rest) >= 1
  BY <1>2
<1> DEFINE Stop(a) == [at |-> a, rest |-> <<>>, links |-> w.links]
<1>4. ASSUME NEW a \in {"missing", "error"}, v = Stop(a)
      PROVE  v \in Stages /\ v.links = w.links /\ Len(v.rest) + 1 <= Len(w.rest)
  <2>1. <<>> \in Seq(Components) /\ Len(<<>>) = 0
    OBVIOUS
  <2>2. a \notin Dirs \cup Files
    BY NothingOutside DEF Inode
  <2>3. Stop(a) \in Stages /\ Stop(a).links = w.links /\ Stop(a).rest = <<>>
    BY <1>1, <2>1, <2>2 DEF Stages
  <2> HIDE DEF v, Stop
  <2> QED
    BY <1>3, <1>4, <2>1, <2>3
<1>5. CASE w.at \notin Dirs
  <2>1. v = [w EXCEPT !.at = "error", !.rest = <<>>]
    BY <1>5 DEF KernelStep
  <2>2. v = Stop("error")
    BY <1>1, <2>1
  <2> HIDE DEF v, Stop
  <2> QED
    BY <1>4, <2>2 DEF v
<1>6. CASE w.at \in Dirs /\ next = Nothing
  <2>1. v = [w EXCEPT !.at = "missing", !.rest = <<>>]
    BY <1>6 DEF KernelStep
  <2>2. v = Stop("missing")
    BY <1>1, <2>1
  <2> HIDE DEF v, Stop
  <2> QED
    BY <1>4, <2>2 DEF v
<1>7. CASE w.at \in Dirs /\ next \in Links
  <2>0. next # Nothing
    BY <1>7, NothingOutside DEF Inode
  <2>1. CASE w.links = KernelLinks
    <3>1. v = [w EXCEPT !.at = "error", !.rest = <<>>]
      BY <1>7, <2>0, <2>1 DEF KernelStep
    <3>2. v = Stop("error")
      BY <1>1, <3>1
    <3> HIDE DEF v, Stop
    <3> QED
      BY <1>4, <3>2 DEF v
  <2>2. CASE w.links # KernelLinks
    <3> DEFINE l == next
               base == IF Target[l].abs THEN Root ELSE w.at
               left == Target[l].names \o Tail(w.rest)
    <3>1. v = [at |-> base, rest |-> left, links |-> w.links + 1]
      BY <1>7, <2>0, <2>2 DEF KernelStep
    <3>2. base \in Dirs /\ base \in Present(entry)
      BY <1>1, <1>7, InodeAssumption DEF Present
    <3>3. Target[l].names \in Seq(Components) /\ Len(Target[l].names) <= MaxTarget /\ Len(Target[l].names) \in Nat
      BY <1>7, TargetAssumption
    <3>4. left \in Seq(Components) /\ Len(left) = Len(Target[l].names) + Len(Tail(w.rest))
      <4> HIDE DEF l
      <4> QED
        BY <1>2, <3>3, ConcatProperties
    <3>5. w.links + 1 \in 0 .. KernelLinks
      BY <1>1, <2>2
    <3> HIDE DEF v, base, left, l
    <3>6. v \in Stages /\ v.links = w.links + 1 /\ v.rest = left
      BY <3>1, <3>2, <3>4, <3>5 DEF Stages
    <3>7. Len(v.rest) + 1 <= Len(w.rest) + MaxTarget
      BY <1>1, <1>2, <3>3, <3>4, <3>6, SMTT(30)
    <3> QED
      BY <3>6, <3>7, SMTT(30) DEF v
  <2> QED
    BY <2>1, <2>2
<1>8. CASE w.at \in Dirs /\ next # Nothing /\ next \notin Links
  <2>1. v = [w EXCEPT !.at = next, !.rest = Tail(@)]
    BY <1>8 DEF KernelStep
  <2>2. next \in Dirs \cup Files /\ next \in Present(entry)
    <3>1. CASE n = ".."
      BY <1>8, <3>1, ParentFacts
    <3>2. CASE n # ".."
      <4>1. next = Lookup(w.at, n)
        BY <3>2
      <4>2. next \in Inode /\ next \in Present(entry)
        BY <1>8, <4>1, LookupFacts
      <4> QED
        BY <1>8, <4>2 DEF Inode
    <3> QED
      BY <3>1, <3>2
  <2> HIDE DEF next
  <2>3. v = [at |-> next, rest |-> Tail(w.rest), links |-> w.links]
    BY <1>1, <2>1
  <2> HIDE DEF v
  <2>4. v \in Stages /\ v.links = w.links /\ v.rest = Tail(w.rest)
    BY <1>1, <1>2, <2>2, <2>3 DEF Stages
  <2>5. Len(v.rest) + 1 <= Len(w.rest)
    BY <1>2, <2>4
  <2> QED
    BY <2>4, <2>5 DEF v
<1> QED
  BY <1>1, <1>5, <1>6, <1>7, <1>8

LEMMA WalkSteps ==
    ASSUME IsTree(entry), NEW names \in Seq(Components)
    PROVE  LET g == Walk(names)
               b == Reach(names)
           IN  /\ b \in Nat /\ DOMAIN g = 0 .. b
               /\ g[0] = [at |-> Root, rest |-> names, links |-> 0]
               /\ \A k \in 1 .. b : g[k] = IF g[k - 1].rest = <<>> THEN g[k - 1] ELSE KernelStep(g[k - 1])
               /\ \A k \in 0 .. b : g[k] \in Stages
<1> DEFINE b == Reach(names)
           start == [at |-> Root, rest |-> names, links |-> 0]
           Go(w) == IF w.rest = <<>> THEN w ELSE KernelStep(w)
           Is(f) == f = [k \in 0 .. b |-> IF k = 0 THEN start ELSE Go(f[k - 1])]
           c == CHOOSE f : Is(f)
           step == [p \in (1 .. b) \X Stages |-> Go(p[2])]
<1>1. b \in Nat
  BY LinksAssumption, TargetAssumption DEF Reach
<1>2. start \in Stages
  BY LinksAssumption, InodeAssumption DEF Stages, Present
<1>3. ASSUME NEW w \in Stages PROVE Go(w) \in Stages
  BY KernelStepFacts
<1>4. step \in [(1 .. b) \X Stages -> Stages]
  <2> HIDE DEF Go, b
  <2> QED
    BY <1>3
<1>5. \A i \in 1 .. b, w \in Stages : step[<<i, w>>] = Go(w)
  <2> HIDE DEF Go, b
  <2> QED
    OBVIOUS
<1>6. PICK f \in [0 .. b -> Stages] : Recursive(f, b, start, step)
  <2> HIDE DEF b, start, step
  <2> QED
    BY <1>1, <1>2, <1>4, RecursionExists
<1>7. f[0] = start /\ \A k \in 1 .. b : f[k] = Go(f[k - 1])
  <2> HIDE DEF Go, b, step, start
  <2>1. f[0] = start
    BY <1>6 DEF Recursive
  <2>2. ASSUME NEW k \in 1 .. b PROVE f[k] = Go(f[k - 1])
    <3>1. k - 1 \in 0 .. b
      BY <1>1
    <3>2. f[k - 1] \in Stages
      BY <1>6, <3>1
    <3> QED
      BY <1>5, <1>6, <3>2 DEF Recursive
  <2> QED
    BY <2>1, <2>2
<1>8. Is(f)
  <2> HIDE DEF Go, b, start, step
  <2>1. ASSUME NEW k \in 0 .. b PROVE f[k] = IF k = 0 THEN start ELSE Go(f[k - 1])
    <3>1. k = 0 \/ k \in 1 .. b
      BY <1>1
    <3> QED
      BY <1>7, <3>1
  <2>2. f = [k \in 0 .. b |-> f[k]]
    BY <1>6
  <2> QED
    BY <2>1, <2>2
<1>9. Is(c)
  <2> HIDE DEF Go, b, start
  <2> QED
    BY <1>8
<1>10. Walk(names) = c
  BY DEF Walk
<1>11. /\ DOMAIN c = 0 .. b
       /\ \A k \in 0 .. b : c[k] = IF k = 0 THEN start ELSE Go(c[k - 1])
  <2> HIDE DEF c, Go, b, start
  <2> QED
    BY <1>9
<1> HIDE DEF c
<1>12. c[0] = start
  BY <1>1, <1>11
<1>13. ASSUME NEW k \in 1 .. b PROVE c[k] = Go(c[k - 1])
  <2>1. k \in 0 .. b /\ k # 0
    BY <1>1
  <2> HIDE DEF Go, b, start
  <2> QED
    BY <1>11, <2>1
<1>14. \A k \in 0 .. b : c[k] \in Stages
  <2> DEFINE S == {k \in 0 .. b : c[k] \in Stages}
  <2> HIDE DEF Go, b, start
  <2>1. 0 \in S
    BY <1>1, <1>2, <1>12
  <2>2. ASSUME NEW k \in 0 .. b, k \in S /\ k < b PROVE k + 1 \in S
    <3>1. k + 1 \in 1 .. b /\ k + 1 \in 0 .. b /\ (k + 1) - 1 = k
      BY <1>1, <2>2
    <3>2. c[k + 1] = Go(c[k])
      BY <1>13, <3>1
    <3> QED
      BY <1>3, <2>2, <3>1, <3>2
  <2>3. \A k \in 0 .. b : k \in S
    <3> HIDE DEF S
    <3> QED
      BY <1>1, <2>1, <2>2, BoundedInduction
  <2> QED
    BY <2>3
<1> QED
  BY <1>1, <1>10, <1>11, <1>12, <1>13, <1>14

LEMMA OneFewer ==
    ASSUME NEW k \in Nat, NEW lv \in Nat, NEW lw \in Nat, NEW n \in Nat, NEW m \in Nat, NEW t \in Nat,
           k + lw <= n + m, lv + 1 <= lw + t
    PROVE  (k + 1) + lv <= n + (m + t)
OBVIOUS

\* Every stage consumes a name, and a link adds MaxTarget at most: the
\* resolution is over within Reach(names) stages.
LEMMA WalkFacts ==
    ASSUME IsTree(entry), NEW names \in Seq(Components)
    PROVE  LET g == Walk(names)
               b == Reach(names)
           IN  /\ b \in Nat /\ DOMAIN g = 0 .. b
               /\ g[0] = [at |-> Root, rest |-> names, links |-> 0]
               /\ End(names) = g[b] /\ End(names) \in Stages /\ End(names).rest = <<>>
               /\ \A k \in 0 .. b :
                     /\ g[k] \in Stages
                     /\ g[k].rest # <<>> => k < b /\ g[k + 1] = KernelStep(g[k])
                     /\ g[k].rest = <<>> => End(names) = g[k]
                     /\ g[k].links <= End(names).links
<1> DEFINE g == Walk(names)
           b == Reach(names)
<1>1. /\ b \in Nat /\ DOMAIN g = 0 .. b
      /\ g[0] = [at |-> Root, rest |-> names, links |-> 0]
      /\ \A k \in 1 .. b : g[k] = IF g[k - 1].rest = <<>> THEN g[k - 1] ELSE KernelStep(g[k - 1])
      /\ \A k \in 0 .. b : g[k] \in Stages
  BY WalkSteps
<1>2. End(names) = g[b]
  BY DEF End
<1>3. b = Len(names) + KernelLinks * MaxTarget /\ Len(names) \in Nat /\ KernelLinks \in Nat /\ MaxTarget \in Nat
  BY LinksAssumption, TargetAssumption DEF Reach
<1>11. Len(names) \in Nat /\ MaxTarget \in Nat
  BY <1>3
<1> HIDE DEF g, b
<1>4. ASSUME NEW k \in 0 .. b
      PROVE  g[k] \in Stages /\ Len(g[k].rest) \in Nat /\ g[k].links \in 0 .. KernelLinks
             /\ g[k].links \in Nat /\ g[k].rest \in Seq(Components)
  BY <1>1, <1>3, StageFacts, LenProperties
<1>5. ASSUME NEW k \in 0 .. b, k < b
      PROVE  /\ k + 1 \in 0 .. b
             /\ g[k + 1] = IF g[k].rest = <<>> THEN g[k] ELSE KernelStep(g[k])
  <2>1. k + 1 \in 1 .. b /\ (k + 1) - 1 = k
    BY <1>1, <1>5
  <2> QED
    BY <1>1, <2>1
<1>6. \A k \in 0 .. b : g[k].rest = <<>> \/ k + Len(g[k].rest) <= Len(names) + g[k].links * MaxTarget
  <2> DEFINE Fine(k) == g[k].rest = <<>> \/ k + Len(g[k].rest) <= Len(names) + g[k].links * MaxTarget
             S == {k \in 0 .. b : Fine(k)}
  <2>1. 0 \in S
    <3>1. g[0].rest = names /\ g[0].links = 0
      BY <1>1
    <3>2. 0 + Len(names) <= Len(names) + 0 * MaxTarget
      BY <1>3
    <3> QED
      BY <1>1, <3>1, <3>2
  <2>2. ASSUME NEW k \in 0 .. b, k \in S /\ k < b PROVE k + 1 \in S
    <3>1. k + 1 \in 0 .. b /\ g[k + 1] = IF g[k].rest = <<>> THEN g[k] ELSE KernelStep(g[k])
      BY <1>5, <2>2
    <3>2. CASE g[k].rest = <<>>
      BY <3>1, <3>2
    <3>3. CASE g[k].rest # <<>>
      <4> DEFINE w == g[k]
                 v == g[k + 1]
      <4>1. v = KernelStep(w) /\ w \in Stages /\ w.rest # <<>>
        BY <1>1, <3>1, <3>3
      <4>2. \/ v.links = w.links /\ Len(v.rest) + 1 <= Len(w.rest)
            \/ v.links = w.links + 1 /\ Len(v.rest) + 1 <= Len(w.rest) + MaxTarget
        <5> HIDE DEF w, v
        <5> QED
          BY <4>1, KernelStepFacts
      <4>3. k + Len(w.rest) <= Len(names) + w.links * MaxTarget
        BY <2>2, <3>3
      <4>4. /\ Len(v.rest) \in Nat /\ Len(w.rest) \in Nat /\ w.links \in Nat /\ v.links \in Nat /\ k \in Nat
        BY <1>4, <3>1
      <4> HIDE DEF w, v
      <4>5. (w.links + 1) * MaxTarget = w.links * MaxTarget + MaxTarget
        BY <1>3, <4>4
      <4>6. (k + 1) + Len(v.rest) <= Len(names) + v.links * MaxTarget
        <5> DEFINE m == w.links * MaxTarget
        <5>1. m \in Nat
          BY <1>3, <4>4
        <5>2. CASE v.links = w.links /\ Len(v.rest) + 1 <= Len(w.rest)
          <6>1. v.links * MaxTarget = m
            BY <5>2
          <6>2. k + Len(w.rest) <= Len(names) + m
            BY <4>3
          <6>3. (k + 1) + Len(v.rest) <= Len(names) + (m + 0)
            <7> HIDE DEF m
            <7>1. Len(v.rest) + 1 <= Len(w.rest) + 0
              BY <4>4, <5>2
            <7> QED
              BY <1>11, <4>4, <5>1, <6>2, <7>1, OneFewer
          <6>4. m + 0 = m
            BY <5>1
          <6> QED
            BY <6>1, <6>3, <6>4
        <5>3. CASE v.links = w.links + 1 /\ Len(v.rest) + 1 <= Len(w.rest) + MaxTarget
          <6>1. v.links * MaxTarget = m + MaxTarget
            BY <4>5, <5>3
          <6>2. k + Len(w.rest) <= Len(names) + m
            BY <4>3
          <6>3. (k + 1) + Len(v.rest) <= Len(names) + (m + MaxTarget)
            <7> HIDE DEF m
            <7> QED
              BY <1>11, <4>4, <5>1, <5>3, <6>2, OneFewer
          <6> QED
            BY <6>1, <6>3
        <5> QED
          BY <4>2, <5>2, <5>3
      <4>7. Fine(k + 1)
        BY <4>6 DEF v
      <4> QED
        BY <3>1, <4>7
    <3> QED
      BY <3>2, <3>3
  <2>3. \A k \in 0 .. b : k \in S
    <3> HIDE DEF S
    <3> QED
      BY <1>1, <2>1, <2>2, BoundedInduction
  <2> QED
    BY <2>3
<1>7. g[b].rest = <<>>
  <2>1. SUFFICES ASSUME g[b].rest # <<>> PROVE FALSE
    OBVIOUS
  <2>2. b \in 0 .. b
    BY <1>1
  <2> DEFINE n == g[b].links
             r == Len(g[b].rest)
  <2>3. b + r <= Len(names) + n * MaxTarget
    BY <1>6, <2>1, <2>2
  <2>4. r \in Nat /\ r # 0 /\ n \in 0 .. KernelLinks /\ n \in Nat
    BY <1>4, <2>1, <2>2, EmptySeq
  <2> HIDE DEF n, r
  <2>5. n * MaxTarget <= KernelLinks * MaxTarget
    <3>1. KernelLinks - n \in Nat
      BY <1>3, <2>4
    <3>2. (KernelLinks - n) * MaxTarget \in Nat
      BY <1>3, <3>1
    <3>3. KernelLinks * MaxTarget = n * MaxTarget + (KernelLinks - n) * MaxTarget
      BY <1>3, <2>4, <3>1
    <3>4. n * MaxTarget \in Nat
      BY <1>3, <2>4
    <3> QED
      BY <3>2, <3>3, <3>4
  <2>6. n * MaxTarget \in Nat /\ KernelLinks * MaxTarget \in Nat
    BY <1>3, <2>4
  <2> QED
    BY <1>3, <2>3, <2>4, <2>5, <2>6
<1>8. ASSUME NEW k \in 0 .. b
      PROVE  /\ g[k].rest = <<>> => g[b] = g[k]
             /\ g[k].links <= g[b].links
  <2> DEFINE S == {j \in 0 .. b : j >= k => /\ g[k].rest = <<>> => g[j] = g[k]
                                            /\ g[k].links <= g[j].links}
  <2>0. g[k].links \in Nat /\ k \in Nat
    BY <1>4
  <2>1. 0 \in S
    <3>1. 0 >= k => k = 0
      BY <2>0
    <3> QED
      BY <1>1, <2>0, <3>1
  <2>2. ASSUME NEW j \in 0 .. b, j \in S /\ j < b PROVE j + 1 \in S
    <3>1. j + 1 \in 0 .. b /\ g[j + 1] = IF g[j].rest = <<>> THEN g[j] ELSE KernelStep(g[j])
      BY <1>5, <2>2
    <3>2. CASE j >= k
      <4>1. (g[k].rest = <<>> => g[j] = g[k]) /\ g[k].links <= g[j].links
        BY <2>2, <3>2
      <4>2. g[k].rest = <<>> => g[j + 1] = g[k]
        BY <3>1, <4>1
      <4>3. g[j].links <= g[j + 1].links
        <5>1. CASE g[j].rest = <<>>
          BY <1>4, <3>1, <5>1
        <5>2. CASE g[j].rest # <<>>
          <6>1. g[j + 1].links = g[j].links \/ g[j + 1].links = g[j].links + 1
            BY <1>1, <3>1, <5>2, KernelStepFacts
          <6> QED
            BY <1>4, <6>1
        <5> QED
          BY <5>1, <5>2
      <4>4. g[k].links <= g[j + 1].links
        BY <1>4, <2>0, <3>1, <4>1, <4>3
      <4> QED
        BY <3>1, <4>2, <4>4
    <3>3. CASE ~(j >= k)
      <4>1. j + 1 >= k => j + 1 = k
        BY <2>0, <3>3
      <4> QED
        BY <2>0, <3>1, <4>1
    <3> QED
      BY <3>2, <3>3
  <2>3. b \in S
    <3>1. \A j \in 0 .. b : j \in S
      <4> HIDE DEF S
      <4> QED
        BY <1>1, <2>1, <2>2, BoundedInduction
    <3> QED
      BY <1>1, <3>1
  <2>4. b >= k
    BY <1>1
  <2> QED
    BY <2>3, <2>4
<1>9. ASSUME NEW k \in 0 .. b, g[k].rest # <<>> PROVE k < b /\ g[k + 1] = KernelStep(g[k])
  <2>1. k # b
    BY <1>7, <1>9
  <2>2. k < b
    BY <1>1, <2>1
  <2> QED
    BY <1>5, <1>9, <2>2
<1>10. g[b] \in Stages
  BY <1>1
<1> QED
  BY <1>1, <1>2, <1>4, <1>7, <1>8, <1>9, <1>10 DEF g, b

-----------------------------------------------------------------------------
(* The type invariant                                                      *)

\* A blocked path is added, canonical or as it is written.
LEMMA BlockFacts ==
    ASSUME TypeInv, Loading, Names(Written) # "error"
    PROVE  LET i == Names(Written)
               p == IF i = "missing" THEN Written ELSE PathOf(i)
           IN  /\ Written \in Seq(Components) /\ p \in Seq(Components)
               /\ i # "missing" => i \in Dirs \cup Files /\ i \in Present(entry)
<1>1. Written \in Seq(Components) /\ IsTree(entry)
  <2>1. Len(blocked) + 1 \in 1 .. Len(policy)
    BY DEF TypeInv, Loading
  <2> QED
    BY <2>1, ElementOfSeq DEF TypeInv, Written
<1>2. End(Written) \in Stages
  BY <1>1, WalkFacts
<1>3. Names(Written) # "missing" => Names(Written) \in Dirs \cup Files /\ Names(Written) \in Present(entry)
  BY <1>2, StageFacts DEF Names
<1>4. Names(Written) # "missing" => PathOf(Names(Written)) \in Seq(Components)
  BY <1>1, <1>3, TreePaths, TextKinds DEF PathOf
<1> QED
  BY <1>1, <1>3, <1>4

\* What the others' changes leave of a path: the path itself, or, for a file,
\* nothing, or something below a directory of theirs.
LEMMA ChangeFacts ==
    ASSUME TypeInv, ReplaceByLink \/ Rename
    PROVE  /\ IsTree(entry)' /\ Writable # {}
           /\ \A i \in Dirs \cup Files :
                 \/ PathOf(i)' = PathOf(i)
                 \/ i \in Files /\ PathOf(i)' = Unlinked
                 \/ \E d \in Writable, s \in Text : PathOf(i)' = PathOf(d) \o s
<1>1. IsTree(entry) /\ Shape(entry) /\ \A e \in DOMAIN entry : e[2] \in Name
  BY TreePaths, EntryFacts DEF TypeInv
<1>2. CASE ReplaceByLink
  <2>1. PICK d \in Writable, n \in {e[2] : e \in DOMAIN entry}, l \in Links :
            /\ Lookup(d, n) \notin Dirs
            /\ ~Linked(l)
            /\ entry' = [e \in DOMAIN entry \cup {<<d, n>>} |-> IF e = <<d, n>> THEN l ELSE entry[e]]
    BY <1>2 DEF ReplaceByLink
  <2>2. d \in Dirs /\ n \in Name
    BY <1>1, CasesAssumption
  <2>3. l \notin Present(entry)
    BY <2>1 DEF Linked, NamesOf, Present
  <2>4. <<d, n>> \in DOMAIN entry => entry[<<d, n>>] \notin Dirs
    BY <2>1 DEF Lookup
  <2>5. /\ IsTree(entry')
        /\ \A i \in Dirs : PathIn(entry', i) = PathIn(entry, i)
        /\ \A i \in Files : PathIn(entry', i) = PathIn(entry, i) \/ PathIn(entry', i) = Unlinked
    BY <1>1, <2>1, <2>2, <2>3, <2>4, Replaced
  <2> QED
    BY <2>5 DEF PathOf
<1>3. CASE Rename
  <2>1. PICK from \in DOMAIN entry, d \in Writable, n \in {e[2] : e \in DOMAIN entry} :
            /\ from[1] \in Writable
            /\ <<d, n>> \notin DOMAIN entry
            /\ ~IsPrefix(PathOf(entry[from]), PathOf(d))
            /\ entry' = [e \in (DOMAIN entry \ {from}) \cup {<<d, n>>} |->
                            IF e = <<d, n>> THEN entry[from] ELSE entry[e]]
    BY <1>3 DEF Rename
  <2>2. d \in Dirs /\ n \in Name
    BY <1>1, CasesAssumption
  <2>3. /\ IsTree(entry')
        /\ \A i \in Inode : \/ PathIn(entry', i) = PathIn(entry, i)
                            \/ \E s \in Text : PathIn(entry', i) = PathIn(entry, d) \o s
    <3>1. ~IsPrefix(PathIn(entry, entry[from]), PathIn(entry, d))
      BY <2>1 DEF PathOf
    <3> DEFINE u == entry'
    <3>2. IsRenamed(u, entry, from, d, n)
      BY <2>1 DEF IsRenamed
    <3> HIDE DEF u
    <3>3. /\ IsTree(u)
          /\ \A i \in Inode : \/ PathIn(u, i) = PathIn(entry, i)
                              \/ \E s \in Text : PathIn(u, i) = PathIn(entry, d) \o s
      BY <1>1, <2>1, <2>2, <3>1, <3>2, Renamed
    <3> QED
      BY <3>3 DEF u
  <2> QED
    BY <2>3 DEF PathOf, Inode
<1> QED
  BY <1>2, <1>3

LEMMA TypeInit == Init => TypeInv
<1> SUFFICES ASSUME Init PROVE TypeInv
  OBVIOUS
<1>1. PICK c \in Cases : entry = c.entry /\ policy = c.policy /\ alone = c.alone
  BY DEF Init
<1>2. IsTree(entry) /\ policy \in Seq(Seq(Components)) /\ alone \in BOOLEAN
  BY <1>1, CasesAssumption
<1>3. request.abs \in BOOLEAN /\ request.names \in Seq(Components)
  BY DEF Init, None
<1>4. links \in 0 .. MaxSymlinkDepth
  BY LinksAssumption DEF Init
<1>5. blocked \in Seq(Seq(Components)) /\ rest \in Seq(Components) /\ canonical \in Seq(Name)
  BY DEF Init
<1> QED
  BY <1>2, <1>3, <1>4, <1>5, InodeAssumption DEF Init, TypeInv

LEMMA TypeNext == TypeInv /\ [Next]_vars => TypeInv'
<1> SUFFICES ASSUME TypeInv, [Next]_vars PROVE TypeInv'
  OBVIOUS
<1>1. CASE CanonicalizeBlocked
  <2> DEFINE i == Names(Written)
             p == IF i = "missing" THEN Written ELSE PathOf(i)
  <2>1. CASE i = "error"
    BY <1>1, <2>1 DEF CanonicalizeBlocked, Fail, TypeInv, disk, loaded, walk, Loading
  <2>2. CASE i # "error"
    <3>1. Block(p)
      BY <1>1, <2>2 DEF CanonicalizeBlocked
    <3>2. p \in Seq(Components)
      BY <1>1, <2>2, BlockFacts DEF CanonicalizeBlocked
    <3> HIDE DEF p
    <3>3. blocked' \in Seq(Seq(Components))
      BY <3>1, <3>2, AppendProperties DEF Block, TypeInv
    <3> QED
      BY <3>1, <3>3 DEF Block, TypeInv, disk, walk
  <2> QED
    BY <2>1, <2>2
<1>2. CASE StartCheck
  <2>1. request'.abs \in BOOLEAN /\ request'.names \in Seq(Components)
    BY <1>2, CasesAssumption DEF StartCheck, TypeInv
  <2>2. rest' \in Seq(Components) /\ status' \in {"walk", "refused"}
    BY <1>2, <2>1 DEF StartCheck, TypeInv
  <2> QED
    BY <1>2, <2>1, <2>2 DEF StartCheck, TypeInv, disk, loaded
<1>3. CASE MissComponent
  BY <1>3 DEF MissComponent, Walking, Fail, TypeInv, disk, loaded, walk
<1>4. CASE FollowLink
  <2>1. CASE links + 1 > MaxSymlinkDepth
    BY <1>4, <2>1 DEF FollowLink, Walking, Fail, TypeInv, disk, loaded, walk
  <2>2. CASE ~(links + 1 > MaxSymlinkDepth)
    <3> DEFINE r == (IF Target[Opened].abs THEN <<>> ELSE canonical) \o Target[Opened].names \o Tail(rest)
    <3>1. Restart(r) /\ links' = links + 1 /\ status = "walk"
      BY <1>4, <2>2 DEF FollowLink, Walking
    <3>2. r \in Seq(Components)
      BY <1>4, RestartType DEF FollowLink, Walking
    <3>3. links' \in 0 .. MaxSymlinkDepth
      BY <2>2, <3>1, LinksAssumption DEF TypeInv
    <3>4. <<>> \in Seq(Name) /\ Root \in Dirs \cup Files
      BY TextKinds, InodeAssumption
    <3> HIDE DEF r
    <3> QED
      BY <3>1, <3>2, <3>3, <3>4 DEF Restart, TypeInv, disk, loaded
  <2> QED
    BY <2>1, <2>2
<1>5. CASE EnterComponent
  <2>1. CASE Under(Here, blocked)
    BY <1>5, <2>1 DEF EnterComponent, Walking, Fail, TypeInv, disk, loaded, walk
  <2>2. CASE ~Under(Here, blocked)
    <3>1. Enter /\ status = "walk" /\ rest # <<>> /\ Opened \in Dirs \cup Files /\ Opened # Nothing
      BY <1>5, <2>2, NothingOutside DEF EnterComponent, Walking, Inode
    <3>2. Here \in Seq(Name) /\ Tail(rest) \in Seq(Components)
      BY <3>1, OpenedFacts
    <3> QED
      BY <3>1, <3>2 DEF Enter, TypeInv, disk, loaded
  <2> QED
    BY <2>1, <2>2
<1>6. CASE ReadBack
  BY <1>6 DEF ReadBack, TypeInv, disk, loaded, walk
<1>7. CASE ReplaceByLink \/ Rename
  <2>1. IsTree(entry)' /\ Changing
    BY <1>7, ChangeFacts DEF ReplaceByLink, Rename
  <2>2. /\ ~alone /\ changes' = changes + 1
        /\ UNCHANGED <<alone, policy, blocked, guarded, request, rest, fd, canonical, links, strayed, result, status>>
    BY <2>1 DEF Changing, loaded, walk
  <2>3. changes' \in Nat
    <3>1. changes \in Nat
      BY DEF TypeInv
    <3> QED
      BY <2>2, <3>1
  <2> QED
    BY <2>1, <2>2, <2>3 DEF TypeInv
<1>8. CASE UNCHANGED vars
  BY <1>8 DEF vars, TypeInv, disk, loaded, walk
<1> QED
  BY <1>1, <1>2, <1>3, <1>4, <1>5, <1>6, <1>7, <1>8 DEF Next, Step, WalkOn

LEMMA AlwaysTyped == Spec => []TypeInv
BY TypeInit, TypeNext, PTL DEF Spec

-----------------------------------------------------------------------------
(* Blocked paths while others change the directories                       *)

ClearOf(p) == \A k \in DOMAIN blocked : Apart(blocked[k], p)
Unblocked(p) == p = <<>> \/ ~Under(p, blocked)

\* While no blocked path is in their reach, what others write to is clear of
\* the blocked paths; and the walk stands where its text says, below no
\* blocked path, or was taken to a place that is clear of them.
WalkInv ==
    guarded =>
        /\ \A d \in Writable : ClearOf(PathOf(d))
        /\ ~strayed /\ status = "walk"
              => ClearOf(PathOf(fd)) \/ (PathOf(fd) = canonical /\ Unblocked(canonical))
        /\ ~strayed /\ status = "accepted" => Unblocked(result)

LEMMA BlockedText ==
    ASSUME TypeInv, NEW k \in DOMAIN blocked
    PROVE  blocked[k] \in Seq(Components) /\ blocked[k] \in Text
<1>1. blocked[k] \in Seq(Components)
  <2>1. blocked \in Seq(Seq(Components))
    BY DEF TypeInv
  <2> QED
    BY <2>1, ElementOfSeq
<1> QED
  BY <1>1, TextKinds

LEMMA FdText ==
    ASSUME IsTree(entry)
    PROVE  \A i \in Dirs \cup Files : PathOf(i) \in Text
BY TreePaths DEF PathOf, Inode

LEMMA ClearBelow ==
    ASSUME TypeInv, NEW p \in Text, NEW s \in Text, ClearOf(p)
    PROVE  ClearOf(p \o s)
BY BlockedText, PrefixConcat DEF ClearOf

LEMMA ClearUnblocked ==
    ASSUME NEW p, ClearOf(p)
    PROVE  Unblocked(p)
BY DEF ClearOf, Unblocked, Under, Apart

\* A file that is removed is clear of every blocked path that is not "/".
LEMMA ClearUnlinked ==
    ASSUME TypeInv, NEW p \in Text, ClearOf(p)
    PROVE  ClearOf(Unlinked)
<1> SUFFICES ASSUME NEW k \in DOMAIN blocked PROVE Apart(blocked[k], Unlinked)
  BY DEF ClearOf
<1> DEFINE b == blocked[k]
<1>1. b \in Seq(Components) /\ b \in Text /\ Len(b) \in Nat
  BY BlockedText
<1>2. Len(b) # 0
  <2>1. SUFFICES ASSUME Len(b) = 0 PROVE FALSE
    OBVIOUS
  <2>2. Len(p) \in Nat
    BY DEF Text
  <2>3. IsPrefix(b, p)
    <3> HIDE DEF b
    <3> QED
      BY <1>1, <2>1, <2>2, PrefixText
  <2> QED
    BY <2>3 DEF ClearOf, Apart
<1> HIDE DEF b
<1>3. b[1] # "(deleted)"
  <2>1. b[1] \in Components
    BY <1>1, <1>2, ElementOfSeq
  <2> QED
    BY <2>1, InodeAssumption DEF Components
<1>4. Unlinked \in Text /\ Len(Unlinked) = 1 /\ Unlinked[1] = "(deleted)"
  BY TextKinds
<1>5. ~IsPrefix(b, Unlinked)
  <2>1. 1 \in 1 .. Len(b)
    BY <1>1, <1>2
  <2> QED
    BY <1>1, <1>3, <1>4, <2>1, PrefixText
<1>6. ~IsPrefix(Unlinked, b)
  <2>1. 1 \in 1 .. Len(Unlinked)
    BY <1>4
  <2> QED
    BY <1>1, <1>3, <1>4, <2>1, PrefixText
<1> QED
  BY <1>5, <1>6 DEF Apart, b

LEMMA WalkInit == Init => WalkInv
<1> SUFFICES ASSUME Init PROVE WalkInv
  OBVIOUS
<1>1. \A p : ClearOf(p)
  BY DEF Init, ClearOf
<1> QED
  BY <1>1 DEF Init, WalkInv

\* A step of the walk, or of the policy being loaded, leaves the tree alone.
LEMMA WalkNext == TypeInv /\ WalkInv /\ [Next]_vars => WalkInv'
<1> SUFFICES ASSUME TypeInv, WalkInv, [Next]_vars, guarded'
             PROVE  /\ \A d \in Writable : ClearOf(PathOf(d))'
                    /\ ~strayed' /\ status' = "walk"
                          => ClearOf(PathOf(fd))' \/ (PathOf(fd)' = canonical' /\ Unblocked(canonical)')
                    /\ ~strayed' /\ status' = "accepted" => Unblocked(result)'
  BY DEF WalkInv
<1>0. IsTree(entry)
  BY DEF TypeInv
<1>1. CASE CanonicalizeBlocked
  <2>1. CASE Names(Written) = "error"
    BY <1>1, <2>1 DEF CanonicalizeBlocked, Fail, WalkInv, disk, loaded, walk, ClearOf, PathOf, Unblocked
  <2>2. CASE Names(Written) # "error"
    <3>1. PICK p : Block(p)
      BY <1>1, <2>2 DEF CanonicalizeBlocked
    <3>2. guarded /\ status' = "load" /\ entry' = entry /\ \A d \in Writable : Apart(p, PathOf(d))
      BY <1>1, <3>1 DEF Block, disk, CanonicalizeBlocked, Loading
    <3>3. ASSUME NEW d \in Writable PROVE ClearOf(PathOf(d))'
      <4>1. ASSUME NEW k \in DOMAIN blocked' PROVE Apart(blocked'[k], PathOf(d))
        <5>1. blocked' = Append(blocked, p) /\ blocked \in Seq(Seq(Components))
          BY <3>1 DEF Block, TypeInv
        <5>2. CASE k = Len(blocked) + 1
          BY <3>2, <5>1, <5>2
        <5>3. CASE k # Len(blocked) + 1
          <6>1. k \in DOMAIN blocked /\ blocked'[k] = blocked[k]
            BY <5>1, <5>3
          <6> QED
            BY <3>2, <6>1 DEF WalkInv, ClearOf
        <5> QED
          BY <5>2, <5>3
      <4> QED
        BY <3>2, <4>1 DEF ClearOf, PathOf
    <3> QED
      BY <3>2, <3>3
  <2> QED
    BY <2>1, <2>2
<1>2. CASE ~CanonicalizeBlocked /\ (Step \/ UNCHANGED vars)
  <2>1. blocked' = blocked /\ guarded' = guarded /\ entry' = entry
    BY <1>2 DEF Step, WalkOn, StartCheck, MissComponent, FollowLink, EnterComponent, ReadBack,
                Restart, Enter, Fail, vars, disk, loaded
  <2>2. \A p : (ClearOf(p) <=> \A k \in DOMAIN blocked' : Apart(blocked'[k], p))
    BY <2>1 DEF ClearOf
  <2>3. \A d \in Writable : ClearOf(PathOf(d))'
    BY <2>1 DEF WalkInv, ClearOf, PathOf
  <2>4. CASE StartCheck
    <3>1. fd' = Root /\ canonical' = <<>> /\ PathOf(Root) = <<>> /\ status' # "accepted"
      BY <1>0, <2>4, TreePaths DEF StartCheck, TypeInv, PathOf
    <3>2. PathOf(fd)' = canonical'
      BY <2>1, <3>1 DEF PathOf
    <3> QED
      BY <2>3, <3>1, <3>2 DEF Unblocked
  <2>5. CASE MissComponent
    BY <2>3, <2>5 DEF MissComponent, Fail
  <2>6. CASE FollowLink
    <3>1. CASE links + 1 > MaxSymlinkDepth
      BY <2>3, <2>6, <3>1 DEF FollowLink, Fail
    <3>2. CASE ~(links + 1 > MaxSymlinkDepth)
      <4>1. fd' = Root /\ canonical' = <<>> /\ PathOf(Root) = <<>> /\ status' = "walk"
        BY <1>0, <2>6, <3>2, TreePaths DEF FollowLink, Restart, PathOf, Walking
      <4>2. PathOf(fd)' = canonical'
        BY <2>1, <4>1 DEF PathOf
      <4> QED
        BY <2>3, <4>1, <4>2 DEF Unblocked
    <3> QED
      BY <3>1, <3>2
  <2>7. CASE EnterComponent
    <3>1. CASE Under(Here, blocked)
      BY <2>3, <2>7, <3>1 DEF EnterComponent, Fail
    <3>2. CASE ~Under(Here, blocked)
      <4>1. /\ Enter /\ status = "walk" /\ status' = "walk" /\ rest # <<>>
            /\ Opened \in Dirs \cup Files /\ Opened # Nothing
            /\ fd' = Opened /\ canonical' = Here
        BY <2>7, <3>2, NothingOutside DEF EnterComponent, Enter, Walking, Inode
      <4>2. Unblocked(canonical)'
        BY <2>1, <3>2, <4>1 DEF Unblocked, Under
      <4>3. SUFFICES ASSUME ~strayed'
                     PROVE  ClearOf(PathOf(fd))' \/ PathOf(fd)' = canonical'
        BY <2>3, <4>1, <4>2
      <4>4. ~strayed /\ (Component = ".." => canonical = PathOf(fd))
        BY <4>1, <4>3 DEF Enter
      <4>5. PathOf(fd)' = PathOf(Opened)
        BY <2>1, <4>1 DEF PathOf
      <4>6. CASE canonical = PathOf(fd)
        BY <4>1, <4>5, <4>6, OpenedFacts
      <4>7. CASE canonical # PathOf(fd)
        <5>1. ClearOf(PathOf(fd))
          BY <2>1, <4>1, <4>4, <4>7 DEF WalkInv
        <5>2. Component \in Name /\ PathOf(Opened) = Append(PathOf(fd), Component)
          BY <4>1, <4>4, <4>7, OpenedFacts
        <5>3. Component \in Word /\ <<Component>> \in Text /\ PathOf(fd) \in Text
          <6>1. fd \in Dirs \cup Files
            BY DEF TypeInv
          <6>2. Component \in Word
            BY <5>2 DEF Word, Components
          <6> QED
            BY <1>0, <6>1, <6>2, FdText DEF Text
        <5>4. PathOf(Opened) = PathOf(fd) \o <<Component>>
          BY <5>2, <5>3, AppendText
        <5>5. ClearOf(PathOf(Opened))
          BY <5>1, <5>3, <5>4, ClearBelow
        <5> QED
          BY <2>1, <4>5, <5>5 DEF ClearOf
      <4> QED
        BY <4>6, <4>7
    <3> QED
      BY <3>1, <3>2
  <2>8. CASE ReadBack
    <3>1. result' = PathOf(fd) /\ status' = "accepted" /\ status = "walk" /\ strayed' = strayed
      BY <2>8 DEF ReadBack, walk
    <3>2. ~strayed => Unblocked(PathOf(fd))
      BY <2>1, <3>1, ClearUnblocked DEF WalkInv
    <3> QED
      BY <2>1, <2>3, <3>1, <3>2 DEF Unblocked, Under
  <2>9. CASE UNCHANGED vars
    <3>1. UNCHANGED <<strayed, status, fd, canonical, result>>
      BY <2>9 DEF vars, walk
    <3>2. /\ ClearOf(PathOf(fd)) => ClearOf(PathOf(fd))'
          /\ PathOf(fd)' = PathOf(fd) /\ Unblocked(canonical)' = Unblocked(canonical)
          /\ Unblocked(result)' = Unblocked(result)
      BY <2>1, <3>1 DEF ClearOf, PathOf, Unblocked, Under
    <3> QED
      BY <2>1, <2>3, <3>1, <3>2 DEF WalkInv
  <2> QED
    BY <1>2, <2>4, <2>5, <2>6, <2>7, <2>8, <2>9 DEF Step, WalkOn
<1>3. CASE ReplaceByLink \/ Rename
  <2>1. UNCHANGED <<blocked, guarded, fd, canonical, strayed, result, status>>
    BY <1>3 DEF ReplaceByLink, Rename, Changing, loaded, walk
  <2>2. guarded /\ Writable \subseteq Dirs
    BY <2>1, CasesAssumption
  <2>3. \A p : ClearOf(p) <=> \A k \in DOMAIN blocked' : Apart(blocked'[k], p)
    BY <2>1 DEF ClearOf
  <2>4. ASSUME NEW i \in Dirs \cup Files
        PROVE  PathOf(i)' = PathOf(i) \/ ClearOf(PathOf(i)')
    <3>1. PICK w \in Writable : TRUE
      BY <1>3, ChangeFacts
    <3>2. ClearOf(PathOf(w)) /\ PathOf(w) \in Text
      BY <1>0, <2>2, <3>1, FdText DEF WalkInv
    <3>3. ClearOf(Unlinked)
      BY <3>2, ClearUnlinked
    <3>4. ASSUME NEW d \in Writable, NEW s \in Text PROVE ClearOf(PathOf(d) \o s)
      <4>1. ClearOf(PathOf(d)) /\ PathOf(d) \in Text
        BY <1>0, <2>2, FdText DEF WalkInv
      <4> QED
        BY <4>1, ClearBelow
    <3> QED
      BY <1>3, <3>3, <3>4, ChangeFacts
  <2>5. \A d \in Writable : ClearOf(PathOf(d)')
    BY <2>2, <2>4 DEF WalkInv
  <2>6. ~strayed /\ status = "walk" => ClearOf(PathOf(fd)') \/ (PathOf(fd)' = canonical /\ Unblocked(canonical))
    <3>1. fd' = fd /\ fd \in Dirs \cup Files
      BY <2>1 DEF TypeInv
    <3>2. PathOf(fd)' = PathIn(entry', fd)
      BY <3>1 DEF PathOf
    <3>3. PathIn(entry', fd) = PathOf(fd) \/ ClearOf(PathIn(entry', fd))
      BY <2>4, <3>1 DEF PathOf
    <3> QED
      BY <2>2, <3>2, <3>3 DEF WalkInv
  <2>7. Unblocked(canonical)' = Unblocked(canonical) /\ Unblocked(result)' = Unblocked(result)
    BY <2>1 DEF Unblocked, Under
  <2> QED
    BY <2>1, <2>2, <2>3, <2>5, <2>6, <2>7 DEF WalkInv, ClearOf
<1> QED
  BY <1>1, <1>2, <1>3 DEF Next

-----------------------------------------------------------------------------
(* The walk of check_path and the kernel's resolution                      *)

\* The names s, then r: what taking the first of s leaves.
LEMMA FirstOf ==
    ASSUME NEW s \in Text, NEW r \in Text, NEW c \in Text, s # <<>>
    PROVE  /\ Head(s) \in Word /\ Tail(s) \in Text /\ s[1] = Head(s) /\ 1 \in 1 .. Len(s)
           /\ s \o r # <<>> /\ Head(s \o r) = Head(s) /\ Tail(s \o r) = Tail(s) \o r
           /\ Append(c, Head(s)) \o Tail(s) = c \o s
<1>1. /\ Head(s) \in Word /\ Tail(s) \in Text /\ Len(Tail(s)) = Len(s) - 1
      /\ \A i \in 1 .. Len(Tail(s)) : Tail(s)[i] = s[i + 1]
      /\ Len(s) \in Nat /\ Len(s) # 0 /\ s[1] = Head(s)
  BY HeadTailProperties, EmptySeq DEF Text
<1>2. 1 \in 1 .. Len(s)
  BY <1>1
<1>3. /\ s \o r \in Text /\ Len(s \o r) = Len(s) + Len(r) /\ Len(r) \in Nat
      /\ \A i \in 1 .. Len(s) : (s \o r)[i] = s[i]
      /\ \A i \in 1 .. Len(r) : (s \o r)[Len(s) + i] = r[i]
  BY ConcatText
<1>4. s \o r # <<>> /\ Head(s \o r) = Head(s)
  <2>1. Len(s \o r) # 0
    BY <1>1, <1>3
  <2>2. s \o r # <<>>
    BY <2>1
  <2>3. Head(s \o r) = (s \o r)[1]
    BY <1>3, <2>2 DEF Text
  <2> QED
    BY <1>1, <1>2, <1>3, <2>2, <2>3
<1>5. Tail(s \o r) = Tail(s) \o r
  <2>1. /\ Tail(s \o r) \in Text /\ Len(Tail(s \o r)) = Len(s \o r) - 1
        /\ \A i \in 1 .. Len(Tail(s \o r)) : Tail(s \o r)[i] = (s \o r)[i + 1]
    BY <1>3, <1>4, HeadTailProperties DEF Text
  <2>2. /\ Tail(s) \o r \in Text /\ Len(Tail(s) \o r) = Len(Tail(s)) + Len(r)
        /\ \A i \in 1 .. Len(Tail(s)) : (Tail(s) \o r)[i] = Tail(s)[i]
        /\ \A i \in 1 .. Len(r) : (Tail(s) \o r)[Len(Tail(s)) + i] = r[i]
    BY <1>1, ConcatText
  <2>3. Len(Tail(s \o r)) = Len(Tail(s) \o r)
    BY <1>1, <1>3, <2>1, <2>2
  <2>4. ASSUME NEW i \in 1 .. Len(Tail(s \o r)) PROVE Tail(s \o r)[i] = (Tail(s) \o r)[i]
    <3>1. CASE i \in 1 .. Len(Tail(s))
      <4>1. i + 1 \in 1 .. Len(s)
        BY <1>1, <3>1
      <4> QED
        BY <1>1, <1>3, <2>1, <2>2, <3>1, <4>1
    <3>2. CASE i \notin 1 .. Len(Tail(s))
      <4> DEFINE j == i - Len(Tail(s))
      <4>1. j \in 1 .. Len(r) /\ Len(Tail(s)) + j = i /\ Len(s) + j = i + 1
        BY <1>1, <1>3, <2>1, <3>2
      <4> HIDE DEF j
      <4> QED
        BY <1>3, <2>1, <2>2, <4>1, SMTT(30)
    <3> QED
      BY <3>1, <3>2
  <2> QED
    BY <2>1, <2>2, <2>3, <2>4, SeqEqual DEF Text
<1>6. Append(c, Head(s)) \o Tail(s) = c \o s
  <2>1. <<Head(s)>> \in Text /\ <<Head(s)>> \o Tail(s) = s
    <3>1. SubSeq(s, 1, Len(s)) = <<s[1]>> \o SubSeq(s, 2, Len(s))
      <4>1. 1 \in 1 .. Len(s) /\ Len(s) \in 1 .. Len(s)
        BY <1>1
      <4>2. 1 + 1 = 2
        OBVIOUS
      <4> QED
        BY <4>1, <4>2, SubSeqRecursiveFirst DEF Text
    <3>2. SubSeq(s, 1, Len(s)) = s /\ SubSeq(s, 2, Len(s)) = Tail(s)
      BY SubSeqFull, TailIsSubSeq DEF Text
    <3> QED
      BY <1>1, <3>1, <3>2 DEF Text
  <2>2. Append(c, Head(s)) = c \o <<Head(s)>>
    BY <1>1, AppendText
  <2>3. (c \o <<Head(s)>>) \o Tail(s) = c \o (<<Head(s)>> \o Tail(s))
    BY <1>1, <2>1, ConcatAssociative, SMTT(30) DEF Text
  <2> QED
    BY <2>1, <2>2, <2>3
<1> QED
  BY <1>1, <1>2, <1>4, <1>5, <1>6

LEMMA Entered ==
    ASSUME NEW a, NEW r, NEW l, NEW w, w = [at |-> a, rest |-> r, links |-> l], NEW x
    PROVE  LET v == [w EXCEPT !.at = x, !.rest = Tail(@)]
           IN  v.at = x /\ v.rest = Tail(r) /\ v.links = l
OBVIOUS

\* The walk of a path that an inode has ends at that inode.
LEMMA WalkDown ==
    ASSUME IsTree(entry), NEW x \in Present(entry), x \in Dirs \cup Files
    PROVE  Names(PathOf(x)) = x
<1> DEFINE p == PathOf(x)
           g == Walk(p)
           b == Reach(p)
<1>1. p \in Seq(Name) /\ p \in Seq(Components) /\ p \in Text /\ Len(p) \in Nat
  BY TreePaths, TextKinds DEF PathOf
<1>2. /\ b \in Nat /\ g[0] = [at |-> Root, rest |-> p, links |-> 0]
      /\ End(p) = g[b] /\ End(p).rest = <<>>
      /\ \A k \in 0 .. b :
            /\ g[k] \in Stages
            /\ g[k].rest # <<>> => k < b /\ g[k + 1] = KernelStep(g[k])
            /\ g[k].rest = <<>> => End(p) = g[k]
  <2> HIDE DEF p
  <2> QED
    BY <1>1, WalkFacts
<1> DEFINE Left(k) == SubSeq(p, k + 1, Len(p))
           At(k) == /\ k \in 0 .. b /\ g[k].rest = Left(k) /\ g[k].at \in Present(entry)
                    /\ g[k].at \in Dirs \cup Files
                    /\ PathOf(g[k].at) = SubSeq(p, 1, k)
           S == {k \in 0 .. Len(p) : At(k)}
<1>3. 0 \in S
  <2>1. SubSeq(p, 1, Len(p)) = p /\ SubSeq(p, 1, 0) = <<>>
    BY <1>1, SubSeqFull, SubSeqEmpty
  <2>2. PathOf(Root) = <<>> /\ Root \in Present(entry) /\ Root \in Dirs
    BY TreePaths, InodeAssumption DEF PathOf, Present
  <2>3. 0 \in 0 .. b /\ 0 \in 0 .. Len(p) /\ 0 + 1 = 1
    BY <1>1, <1>2
  <2>4. g[0].at = Root /\ g[0].rest = p
    BY <1>2
  <2> QED
    BY <2>1, <2>2, <2>3, <2>4
<1>4. ASSUME NEW k \in 0 .. Len(p), k \in S, k < Len(p) PROVE k + 1 \in S
  <2> DEFINE w == g[k]
  <2>1. At(k)
    BY <1>4
  <2>2. k \in 0 .. Len(p) - 1
    BY <1>1, <1>4
  <2>3. PICK e \in DOMAIN entry : /\ PathIn(entry, e[1]) = SubSeq(p, 1, k) /\ e[2] = p[k + 1]
                                  /\ PathIn(entry, entry[e]) = SubSeq(p, 1, k + 1)
                                  /\ IF k + 1 = Len(p) THEN entry[e] = x ELSE entry[e] \in Dirs
    BY <2>2, Ancestors DEF PathOf
  <2>4. /\ e[1] \in Dirs /\ e[1] \in Present(entry) /\ e[2] \in Name /\ e = <<e[1], e[2]>>
        /\ entry[e] \in Present(entry)
    BY TreePaths, EntryFacts
  <2>5. w.at = e[1]
    BY <2>1, <2>3, <2>4, SamePath DEF PathOf
  <2>6. w.rest # <<>> /\ Head(w.rest) = e[2] /\ Tail(w.rest) = Left(k + 1)
    <3>1. k + 1 \in 1 .. Len(p) /\ Len(p) \in k + 1 .. Len(p)
      BY <1>1, <2>2
    <3>2. Head(Left(k)) = p[k + 1] /\ Tail(Left(k)) = SubSeq(p, (k + 1) + 1, Len(p))
      <4> HIDE DEF p
      <4> QED
        BY <1>1, <3>1, HeadTailOfSubSeq
    <3>3. Left(k) # <<>>
      <4>1. Left(k) = <<p[k + 1]>> \o SubSeq(p, (k + 1) + 1, Len(p))
        <5> HIDE DEF p
        <5> QED
          BY <1>1, <3>1, SubSeqRecursiveFirst
      <4>2. Len(Left(k)) # 0
        <5>1. \A i \in k + 1 .. Len(p) : p[i] \in Name
          <6> HIDE DEF p
          <6> QED
            BY <1>1, <2>2, ElementOfSeq
        <5>2. k + 1 \in Int /\ Len(p) \in Int
          BY <1>1
        <5>3. Len(SubSeq(p, k + 1, Len(p))) = IF k + 1 <= Len(p) THEN Len(p) - (k + 1) + 1 ELSE 0
          <6> HIDE DEF p
          <6> QED
            BY <5>1, <5>2, SubSeqProperties
        <5> QED
          BY <1>1, <2>2, <5>3
      <4>3. Len(<<>>) = 0
        OBVIOUS
      <4> HIDE DEF Left
      <4> QED
        BY <4>2, <4>3
    <3> QED
      BY <2>1, <2>3, <3>2, <3>3
  <2>7. k < b /\ g[k + 1] = KernelStep(w)
    BY <1>2, <2>1, <2>6, SMTT(30)
  <2>8. /\ Head(w.rest) # ".." /\ Lookup(w.at, Head(w.rest)) = entry[e]
        /\ entry[e] \in Dirs \cup Files /\ entry[e] # Nothing /\ entry[e] \notin Links
    <3>1. entry[e] \in Dirs \cup Files
      BY <2>3
    <3> QED
      BY <2>4, <2>5, <2>6, <3>1, InodeAssumption DEF Lookup, Inode
  <2>9. g[k + 1] = [w EXCEPT !.at = entry[e], !.rest = Tail(@)]
    BY <2>4, <2>5, <2>7, <2>8 DEF KernelStep
  <2>10. w = [at |-> w.at, rest |-> w.rest, links |-> w.links]
    <3>1. w \in Stages
      BY <1>2, <2>1
    <3> HIDE DEF w
    <3> QED
      BY <3>1, StageFacts
  <2>11. g[k + 1].at = entry[e] /\ g[k + 1].rest = Left(k + 1)
    <3> HIDE DEF w
    <3> DEFINE r == w.rest
               l == w.links
               a == w.at
    <3>1. w = [at |-> a, rest |-> r, links |-> l]
      BY <2>10
    <3> HIDE DEF r, l, a
    <3> DEFINE v == [w EXCEPT !.at = entry[e], !.rest = Tail(@)]
    <3>2. v.at = entry[e] /\ v.rest = Tail(r)
      BY <3>1, Entered
    <3> HIDE DEF v
    <3> QED
      BY <2>6, <2>9, <3>2 DEF r, v
  <2>12. k + 1 \in 0 .. Len(p) /\ k + 1 \in 0 .. b
    BY <1>1, <1>2, <2>1, <2>2, <2>7
  <2> QED
    BY <2>3, <2>4, <2>8, <2>11, <2>12 DEF PathOf
<1>5. Len(p) \in S
  <2>1. \A k \in 0 .. Len(p) : k \in S
    <3> HIDE DEF S, p
    <3> QED
      BY <1>1, <1>3, <1>4, BoundedInduction, SMTT(30)
  <2> QED
    BY <1>1, <2>1
<1> DEFINE m == Len(p)
<1>6. At(m)
  BY <1>5
<1>7. Left(m) = <<>> /\ SubSeq(p, 1, m) = p
  <2>1. m + 1 \in Int /\ m \in Int /\ m < m + 1
    BY <1>1
  <2> QED
    BY <1>1, <2>1, SubSeqEmpty, SubSeqFull
<1>8. End(p) = g[m] /\ PathOf(g[m].at) = PathOf(x) /\ g[m].at \in Present(entry)
  BY <1>2, <1>6, <1>7
<1> QED
  BY <1>8, SamePath DEF PathOf, Names

\* The kernel is at stage k, with the same links followed, and has resolved
\* the components s that check_path still has to open: a relative link sends
\* check_path back to the root, and the kernel stays where it is.
Follows(k, s) ==
    LET w == Walk(request.names)[k]
    IN  /\ w.at \in Dirs \cup Files /\ w.links = links
        /\ rest = s \o w.rest
        /\ PathOf(w.at) = canonical \o s

\* Where they are abreast, both take the same step.
LEMMA Abreast ==
    ASSUME TypeInv, rest # <<>>, canonical = PathOf(fd), fd \in Present(entry),
           NEW k \in 0 .. Reach(request.names), Follows(k, <<>>)
    PROVE  LET w == Walk(request.names)[k]
               v == Walk(request.names)[k + 1]
               end == End(request.names)
           IN  /\ w.at = fd /\ w.rest = rest /\ w.links = links
               /\ k + 1 \in 0 .. Reach(request.names)
               /\ v.links <= end.links
               /\ Opened = Nothing => end.at \in {"missing", "error"}
               /\ Opened \in Links /\ links = KernelLinks => end.at = "error"
               /\ Opened \in Links /\ links # KernelLinks =>
                     /\ v.at = IF Target[Opened].abs THEN Root ELSE fd
                     /\ v.rest = Target[Opened].names \o Tail(rest)
                     /\ v.links = links + 1
               /\ Opened \in Dirs \cup Files =>
                     v.at = Opened /\ v.rest = Tail(rest) /\ v.links = links
<1> DEFINE g == Walk(request.names)
           w == g[k]
           v == g[k + 1]
           end == End(request.names)
           b == Reach(request.names)
<1>1. IsTree(entry) /\ rest \in Seq(Components) /\ canonical \in Seq(Name) /\ request.names \in Seq(Components)
  BY DEF TypeInv
<1>2. /\ b \in Nat
      /\ \A j \in 0 .. b :
            /\ g[j] \in Stages
            /\ g[j].rest # <<>> => j < b /\ g[j + 1] = KernelStep(g[j])
            /\ g[j].rest = <<>> => end = g[j]
            /\ g[j].links <= end.links
  BY <1>1, WalkFacts
<1> HIDE DEF g, b, end
<1>3. /\ w.at \in Dirs \cup Files /\ w.links = links
      /\ rest = <<>> \o w.rest /\ PathOf(w.at) = canonical \o <<>>
  BY DEF Follows, g
<1>4. w \in Stages /\ w.rest \in Seq(Components) /\ w.at \in Present(entry)
      /\ w = [at |-> w.at, rest |-> w.rest, links |-> w.links]
  <2>1. w \in Stages
    BY <1>2 DEF b
  <2> HIDE DEF w
  <2> QED
    BY <1>3, <2>1, StageFacts
<1>5. w.rest = rest /\ PathOf(w.at) = canonical
  BY <1>1, <1>3, <1>4, ConcatEmptySeq
<1>6. w.at = fd
  BY <1>1, <1>4, <1>5, SamePath DEF PathOf
<1>7. k + 1 \in 0 .. b /\ v = KernelStep(w)
  BY <1>2, <1>5 DEF b
<1>8. v \in Stages /\ v.links <= end.links /\ (v.rest = <<>> => end = v)
  BY <1>2, <1>7
<1>9. w = [at |-> fd, rest |-> rest, links |-> links]
  BY <1>3, <1>4, <1>5, <1>6, SMTT(30)
<1> DEFINE next == IF Component = ".." THEN Parent(fd) ELSE Lookup(fd, Component)
<1>10. /\ fd \in Dirs => Opened = next
       /\ fd \notin Dirs => Opened = Nothing
  BY DEF Opened
<1>11. v = IF fd \notin Dirs THEN [w EXCEPT !.at = "error", !.rest = <<>>]
           ELSE IF next = Nothing THEN [w EXCEPT !.at = "missing", !.rest = <<>>]
           ELSE IF next \in Links
                THEN IF links = KernelLinks THEN [w EXCEPT !.at = "error", !.rest = <<>>]
                     ELSE [at |-> IF Target[next].abs THEN Root ELSE fd,
                           rest |-> Target[next].names \o Tail(rest), links |-> links + 1]
           ELSE [w EXCEPT !.at = next, !.rest = Tail(@)]
  <2> HIDE DEF w, v
  <2> QED
    BY <1>3, <1>5, <1>6, <1>7 DEF KernelStep, Component
<1> HIDE DEF w, v, next
<1>12. \A x : /\ [w EXCEPT !.at = x, !.rest = <<>>].at = x
              /\ [w EXCEPT !.at = x, !.rest = <<>>].rest = <<>>
  BY <1>9
<1>13. ASSUME Opened = Nothing PROVE end.at \in {"missing", "error"}
  BY <1>8, <1>10, <1>11, <1>12, <1>13
<1>14. ASSUME Opened \in Links PROVE fd \in Dirs /\ next = Opened /\ next # Nothing
  BY <1>10, <1>14, NothingOutside DEF Inode
<1>15. ASSUME Opened \in Links, links = KernelLinks PROVE end.at = "error"
  BY <1>8, <1>11, <1>12, <1>14, <1>15
<1>16. ASSUME Opened \in Links, links # KernelLinks
       PROVE  /\ v.at = IF Target[Opened].abs THEN Root ELSE fd
              /\ v.rest = Target[Opened].names \o Tail(rest)
              /\ v.links = links + 1
  BY <1>11, <1>14, <1>16, SMTT(30)
<1>17. ASSUME Opened \in Dirs \cup Files
       PROVE  v.at = Opened /\ v.rest = Tail(rest) /\ v.links = links
  <2>1. fd \in Dirs /\ next = Opened /\ next # Nothing /\ next \notin Links
    BY <1>10, <1>17, NothingOutside, InodeAssumption DEF Inode
  <2>2. v = [w EXCEPT !.at = Opened, !.rest = Tail(@)]
    BY <1>11, <2>1, SMTT(30)
  <2> QED
    BY <1>9, <2>2, Entered
<1> QED
  BY <1>3, <1>5, <1>6, <1>7, <1>8, <1>13, <1>15, <1>16, <1>17 DEF g, w, v, end, b

\* Where the kernel is ahead, check_path opens the next directory on the way
\* to it.
LEMMA Ahead ==
    ASSUME TypeInv, canonical = PathOf(fd), fd \in Present(entry),
           NEW k \in 0 .. Reach(request.names), NEW s \in Seq(Name), s # <<>>, Follows(k, s)
    PROVE  LET w == Walk(request.names)[k]
           IN  /\ rest # <<>> /\ Opened \in Dirs \cup Files
               /\ w.at \in Dirs \cup Files /\ w.links = links /\ IsPrefix(Here, PathOf(w.at))
               /\ Tail(s) \in Seq(Name)
               /\ Tail(rest) = Tail(s) \o w.rest
               /\ PathOf(w.at) = Here \o Tail(s)
<1> DEFINE w == Walk(request.names)[k]
           x == w.at
           r == w.rest
           p == PathIn(entry, x)
           n == Len(canonical)
<1>1. IsTree(entry) /\ canonical \in Seq(Name) /\ canonical \in Text /\ n \in Nat
      /\ request.names \in Seq(Components) /\ s \in Text
  <2>1. IsTree(entry) /\ canonical \in Seq(Name) /\ request.names \in Seq(Components)
    BY DEF TypeInv
  <2> QED
    BY <2>1, TextKinds
<1>2. x \in Dirs \cup Files /\ w.links = links /\ rest = s \o r /\ p = canonical \o s
  BY DEF Follows, PathOf
<1>3. w \in Stages
  BY <1>1, WalkFacts
<1>4. x \in Present(entry) /\ r \in Text
  <2> HIDE DEF w
  <2> QED
    BY <1>2, <1>3, StageFacts, TextKinds
<1> HIDE DEF w, x, r
<1>5. /\ Head(s) \in Name /\ Tail(s) \in Seq(Name) /\ Tail(s) \in Text /\ s[1] = Head(s) /\ 1 \in 1 .. Len(s)
      /\ rest # <<>> /\ Component = Head(s) /\ Tail(rest) = Tail(s) \o r
      /\ Append(canonical, Head(s)) \o Tail(s) = p
  BY <1>1, <1>2, <1>4, FirstOf, HeadTailProperties, TextKinds DEF Component
<1>6. /\ p \in Text /\ Len(p) = n + Len(s) /\ Len(s) \in Nat
      /\ \A i \in 1 .. n : p[i] = canonical[i]
      /\ \A i \in 1 .. Len(s) : p[n + i] = s[i]
  BY <1>1, <1>2, ConcatText
<1>7. n \in 0 .. Len(p) - 1 /\ p[n + 1] = Component
  BY <1>1, <1>5, <1>6
<1>8. SubSeq(p, 1, n) = canonical
  <2>1. \A i \in 1 .. n : p[i] \in Name
    BY <1>1, <1>6, ElementOfSeq
  <2>2. /\ SubSeq(p, 1, n) \in Seq(Name)
        /\ Len(SubSeq(p, 1, n)) = n
        /\ \A i \in 1 .. n : SubSeq(p, 1, n)[i] = p[i]
    <3>1. 1 \in Int /\ n \in Int
      BY <1>1
    <3>2. /\ SubSeq(p, 1, n) \in Seq(Name)
          /\ Len(SubSeq(p, 1, n)) = IF 1 <= n THEN n - 1 + 1 ELSE 0
          /\ \A i \in 1 .. n - 1 + 1 : SubSeq(p, 1, n)[i] = p[1 + i - 1]
      <4> HIDE DEF p, n
      <4> QED
        BY <2>1, <3>1, SubSeqProperties
    <3> QED
      BY <1>1, <3>2
  <2> QED
    BY <1>1, <1>6, <2>2, SeqEqual
<1>9. PICK e \in DOMAIN entry : /\ PathIn(entry, e[1]) = canonical /\ e[2] = Component
                                /\ IF n + 1 = Len(p) THEN entry[e] = x ELSE entry[e] \in Dirs
  <2>1. n \in 0 .. Len(PathIn(entry, x)) - 1
    BY <1>7
  <2>2. \E e \in DOMAIN entry : /\ PathIn(entry, e[1]) = SubSeq(p, 1, n) /\ e[2] = p[n + 1]
                                /\ PathIn(entry, entry[e]) = SubSeq(p, 1, n + 1)
                                /\ IF n + 1 = Len(p) THEN entry[e] = x ELSE entry[e] \in Dirs
    <3> HIDE DEF n
    <3> QED
      BY <1>1, <1>4, <2>1, Ancestors
  <2> QED
    BY <1>7, <1>8, <2>2
<1>10. e[1] \in Dirs /\ e[1] \in Present(entry) /\ e[2] \in Name /\ e = <<e[1], e[2]>>
  BY <1>1, TreePaths, EntryFacts
<1>11. e[1] = fd
  BY <1>1, <1>9, <1>10, SamePath DEF PathOf
<1>12. Component # ".."
  BY <1>5, InodeAssumption
<1>13. Opened = entry[e] /\ Opened \in Dirs \cup Files
  BY <1>2, <1>9, <1>10, <1>11, <1>12 DEF Opened, Lookup
<1>14. Here = Append(canonical, Head(s))
  BY <1>5, <1>12 DEF Here
<1>15. IsPrefix(Here, p)
  <2>1. Append(canonical, Head(s)) \in Text
    BY <1>1, <1>5, AppendName, AppendText
  <2> QED
    BY <1>5, <1>14, <2>1, PrefixConcat
<1> QED
  BY <1>2, <1>5, <1>13, <1>14, <1>15 DEF PathOf, w, x, r

-----------------------------------------------------------------------------
(* While nobody else changes anything                                      *)

\* What CanonicalizeBlocked makes of a path of the policy.
IsForm(p, written) ==
    LET i == Names(written)
    IN  i # "error" /\ p = IF i = "missing" THEN written ELSE PathOf(i)

\* The reasons RefusedForAReason allows.
Reason ==
    LET way == Walk(request.names)
    IN  \/ End(request.names).at \in {"missing", "error"}
        \/ End(request.names).links > MaxSymlinkDepth
        \/ \E k \in DOMAIN way : way[k].at \in Dirs \cup Files /\ Under(PathOf(way[k].at), blocked)

Following == \E k \in 0 .. Reach(request.names), s \in Seq(Name) : Follows(k, s)

LoadedQuietly ==
    /\ Len(blocked) <= Len(policy)
    /\ status \in {"walk", "accepted", "refused"} => Len(blocked) = Len(policy)
    /\ \A k \in DOMAIN blocked : IsForm(blocked[k], policy[k])

WalkedQuietly ==
    /\ ~strayed /\ canonical = PathOf(fd) /\ fd \in Present(entry)
    /\ status \in {"walk", "accepted"} => request.abs /\ Unblocked(canonical) /\ Following
    /\ status = "accepted" => rest = <<>> /\ result = canonical
    /\ status = "refused" /\ request.abs => Reason

QuietInv == changes = 0 => LoadedQuietly /\ WalkedQuietly

LEMMA SameTree ==
    ASSUME entry' = entry
    PROVE  /\ \A names : Walk(names)' = Walk(names) /\ Reach(names)' = Reach(names)
                         /\ End(names)' = End(names) /\ Names(names)' = Names(names)
           /\ \A i : PathOf(i)' = PathOf(i)
           /\ Present(entry)' = Present(entry)
           /\ \A p, written : IsForm(p, written)' = IsForm(p, written)
<1>1. \A names : Walk(names)' = Walk(names) /\ Reach(names)' = Reach(names)
  BY DEF Walk, KernelStep, Lookup, Parent, NamesOf, Reach
<1>2. \A names : End(names)' = End(names)
  BY <1>1 DEF End
<1>3. \A names : Names(names)' = Names(names)
  BY <1>2 DEF Names
<1>4. \A i : PathOf(i)' = PathOf(i)
  BY DEF PathOf
<1>5. \A p, written : IsForm(p, written)' = IsForm(p, written)
  BY <1>3, <1>4 DEF IsForm
<1> QED
  BY <1>1, <1>2, <1>3, <1>4, <1>5

LEMMA QuietInit == Init => QuietInv
<1> SUFFICES ASSUME Init PROVE LoadedQuietly /\ WalkedQuietly
  BY DEF QuietInv
<1>1. PICK c \in Cases : entry = c.entry /\ policy = c.policy
  BY DEF Init
<1>2. IsTree(entry) /\ policy \in Seq(Seq(Components))
  BY <1>1, CasesAssumption
<1>3. PathOf(Root) = <<>> /\ Root \in Present(entry)
  BY <1>2, TreePaths DEF PathOf, Present
<1>4. Len(policy) \in Nat /\ Len(<<>>) = 0
  BY <1>2
<1> QED
  BY <1>3, <1>4 DEF Init, LoadedQuietly, WalkedQuietly

\* Quiet steps of the walk: the policy is loaded, the tree stays.
LEMMA LoadedStays ==
    ASSUME LoadedQuietly, UNCHANGED <<policy, blocked, entry>>,
           status \in {"walk", "accepted", "refused"} \/ status' \notin {"walk", "accepted", "refused"}
    PROVE  LoadedQuietly'
<1>1. ASSUME NEW k PROVE IsForm(blocked[k], policy[k])' = IsForm(blocked[k], policy[k])
  BY SameTree
<1>2. (\A k \in DOMAIN blocked : IsForm(blocked[k], policy[k]))'
  BY <1>1 DEF LoadedQuietly
<1> QED
  BY <1>2 DEF LoadedQuietly

LEMMA FollowsOn ==
    ASSUME UNCHANGED <<entry, request>>, NEW k \in 0 .. Reach(request.names), NEW s \in Seq(Name),
           Walk(request.names)[k].at \in Dirs \cup Files,
           Walk(request.names)[k].links = links',
           rest' = s \o Walk(request.names)[k].rest,
           PathOf(Walk(request.names)[k].at) = canonical' \o s
    PROVE  Following'
<1>1. Walk(request.names)' = Walk(request.names) /\ Reach(request.names)' = Reach(request.names)
  BY SameTree
<1>2. PathOf(Walk(request.names)[k].at)' = PathOf(Walk(request.names)[k].at)
  BY <1>1 DEF PathOf
<1>3. Follows(k, s)'
  BY <1>1, <1>2 DEF Follows
<1> QED
  BY <1>1, <1>3 DEF Following

LEMMA ReasonStays ==
    ASSUME UNCHANGED <<entry, request, blocked>>, Reason
    PROVE  Reason'
<1>1. /\ Walk(request.names)' = Walk(request.names)
      /\ End(request.names)' = End(request.names)
  BY SameTree
<1>2. ASSUME NEW k, Under(PathOf(Walk(request.names)[k].at), blocked)
      PROVE  Under(PathOf(Walk(request.names)[k].at), blocked)'
  BY <1>1, <1>2 DEF PathOf, Under
<1> QED
  BY <1>1, <1>2 DEF Reason

\* Nothing is refused where the kernel is ahead, unless it came by a blocked
\* path; where they are abreast, the kernel fails too, follows one link more,
\* or comes by the same blocked path.
LEMMA RefusedQuietly ==
    ASSUME TypeInv, status = "walk", rest # <<>>, WalkedQuietly,
           \/ Opened = Nothing
           \/ Opened \in Links /\ links + 1 > MaxSymlinkDepth
           \/ Opened \in Dirs \cup Files /\ Under(Here, blocked)
    PROVE  Reason
<1>1. PICK k \in 0 .. Reach(request.names), s \in Seq(Name) : Follows(k, s)
  BY DEF WalkedQuietly, Following
<1>2. canonical = PathOf(fd) /\ fd \in Present(entry)
  BY DEF WalkedQuietly
<1>3. request.names \in Seq(Components) /\ IsTree(entry)
  BY DEF TypeInv
<1> DEFINE g == Walk(request.names)
           b == Reach(request.names)
           end == End(request.names)
<1>4. DOMAIN g = 0 .. b
  BY <1>3, WalkFacts
<1>5. CASE s # <<>>
  <2>1. /\ Opened \in Dirs \cup Files
        /\ g[k].at \in Dirs \cup Files /\ IsPrefix(Here, PathOf(g[k].at))
    BY <1>1, <1>2, <1>5, Ahead
  <2>2. Under(Here, blocked)
    BY <2>1, NothingOutside, InodeAssumption DEF Inode
  <2>3. Opened # Nothing
    BY <2>1, NothingOutside DEF Inode
  <2>4. Here \in Text
    BY <2>3, OpenedFacts, TextKinds
  <2>5. PathOf(g[k].at) \in Text
    BY <1>3, <2>1, FdText
  <2>6. PICK j \in DOMAIN blocked : IsPrefix(blocked[j], Here)
    BY <2>2 DEF Under
  <2>7. IsPrefix(blocked[j], PathOf(g[k].at))
    BY <2>1, <2>4, <2>5, <2>6, BlockedText, PrefixChain
  <2> QED
    BY <1>4, <2>1, <2>7 DEF Reason, Under
<1>6. CASE s = <<>>
  <2> DEFINE v == g[k + 1]
  <2>1. Follows(k, <<>>)
    BY <1>1, <1>6
  <2>2. /\ k + 1 \in 0 .. b /\ v.links <= end.links
        /\ Opened = Nothing => end.at \in {"missing", "error"}
        /\ Opened \in Links /\ links = KernelLinks => end.at = "error"
        /\ Opened \in Links /\ links # KernelLinks => v.links = links + 1
        /\ Opened \in Dirs \cup Files => v.at = Opened
    BY <1>2, <2>1, Abreast
  <2>3. v.links \in Int /\ end.links \in Int
    <3>1. v \in Stages /\ end \in Stages
      BY <1>3, <2>2, WalkFacts
    <3> HIDE DEF v, end
    <3> QED
      BY <3>1, StageFacts
  <2>4. CASE Opened = Nothing
    BY <2>2, <2>4 DEF Reason
  <2>5. CASE Opened \in Links /\ links + 1 > MaxSymlinkDepth
    <3>1. CASE links = KernelLinks
      BY <2>2, <2>5, <3>1 DEF Reason
    <3>2. CASE links # KernelLinks
      <4>1. v.links = links + 1
        BY <2>2, <2>5, <3>2
      <4>2. end.links > MaxSymlinkDepth
        <5> HIDE DEF v, end
        <5>1. links \in Int /\ MaxSymlinkDepth \in Int
          BY LinksAssumption DEF TypeInv
        <5> QED
          BY <2>2, <2>3, <2>5, <4>1, <5>1
      <4> QED
        BY <4>2 DEF Reason
    <3> QED
      BY <3>1, <3>2
  <2>6. CASE Opened \in Dirs \cup Files /\ Under(Here, blocked)
    <3>1. Opened # Nothing
      BY <2>6, NothingOutside DEF Inode
    <3>2. Here = PathOf(Opened)
      BY <1>2, <3>1, OpenedFacts
    <3>3. v.at = Opened /\ k + 1 \in DOMAIN g
      BY <1>4, <2>2, <2>6
    <3> QED
      BY <2>6, <3>2, <3>3 DEF Reason
  <2> QED
    BY <2>4, <2>5, <2>6
<1> QED
  BY <1>5, <1>6

LEMMA LoadQuietly ==
    ASSUME TypeInv, LoadedQuietly, WalkedQuietly, entry' = entry, CanonicalizeBlocked
    PROVE  LoadedQuietly' /\ WalkedQuietly'
<1>1. status = "load" /\ status' \in {"load", "no policy"} /\ Len(blocked) < Len(policy)
      /\ UNCHANGED <<policy, fd, canonical, strayed>>
  BY DEF CanonicalizeBlocked, Loading, Fail, Block, loaded, walk
<1>2. WalkedQuietly'
  <2>1. PathOf(fd)' = PathOf(fd) /\ Present(entry)' = Present(entry)
    BY <1>1, SameTree
  <2> QED
    BY <1>1, <2>1 DEF WalkedQuietly
<1>3. LoadedQuietly'
  <2>1. CASE Names(Written) = "error"
    BY <1>1, <2>1, LoadedStays DEF CanonicalizeBlocked, Fail, loaded
  <2>2. CASE Names(Written) # "error"
    <3>1. PICK p : Block(p) /\ IsForm(p, Written)
      BY <2>2 DEF CanonicalizeBlocked, IsForm
    <3>2. blocked' = Append(blocked, p) /\ blocked \in Seq(Seq(Components)) /\ policy \in Seq(Seq(Components))
      BY <3>1 DEF Block, TypeInv
    <3>3. Len(blocked') <= Len(policy') /\ DOMAIN blocked' = 1 .. Len(blocked) + 1 /\ DOMAIN blocked = 1 .. Len(blocked)
      <4>1. Len(blocked) \in Nat /\ Len(policy) \in Nat /\ DOMAIN blocked = 1 .. Len(blocked)
        BY <3>2
      <4>2. Len(blocked') = Len(blocked) + 1 /\ DOMAIN blocked' = 1 .. Len(blocked')
        <5>1. p \in Seq(Components)
          BY <2>2, <3>1, <1>1, BlockFacts DEF IsForm, Loading
        <5>2. /\ Append(blocked, p) \in Seq(Seq(Components)) /\ Len(Append(blocked, p)) = Len(blocked) + 1
          BY <3>2, <5>1, AppendProperties
        <5> QED
          BY <3>2, <5>2
      <4>3. Len(blocked') <= Len(policy)
        <5> DEFINE lb == Len(blocked)
                   lp == Len(policy)
        <5>1. lb \in Nat /\ lp \in Nat /\ lb < lp /\ Len(blocked') = lb + 1
          BY <1>1, <4>1, <4>2
        <5> HIDE DEF lb, lp
        <5>2. lb + 1 <= lp
          BY <5>1
        <5> QED
          BY <5>1, <5>2 DEF lp
      <4>4. policy' = policy
        BY <1>1
      <4> QED
        BY <4>1, <4>2, <4>3, <4>4
    <3>4. ASSUME NEW k \in DOMAIN blocked' PROVE IsForm(blocked[k], policy[k])'
      <4>1. IsForm(blocked'[k], policy[k])
        <5>1. CASE k = Len(blocked) + 1
          BY <3>1, <3>2, <5>1 DEF Written
        <5>2. CASE k # Len(blocked) + 1
          <6>1. k \in DOMAIN blocked /\ blocked'[k] = blocked[k]
            BY <3>2, <3>3, <5>2
          <6> QED
            BY <6>1 DEF LoadedQuietly
        <5> QED
          BY <5>1, <5>2
      <4>2. Names(policy[k])' = Names(policy[k]) /\ PathOf(Names(policy[k]))' = PathOf(Names(policy[k]))
        <5>1. Names(policy[k])' = Names(policy[k])
          BY <1>1, SameTree
        <5> QED
          BY <5>1 DEF PathOf
      <4> QED
        BY <1>1, <4>1, <4>2 DEF IsForm
    <3> QED
      BY <1>1, <3>3, <3>4 DEF LoadedQuietly
  <2> QED
    BY <2>1, <2>2
<1> QED
  BY <1>2, <1>3

LEMMA StartQuietly ==
    ASSUME TypeInv, LoadedQuietly, WalkedQuietly, StartCheck
    PROVE  LoadedQuietly' /\ WalkedQuietly'
<1>1. /\ status = "load" /\ ~Loading /\ UNCHANGED <<entry, policy, blocked, fd, canonical, links, strayed>>
      /\ fd = Root /\ canonical = <<>> /\ links = 0
      /\ IF request'.abs THEN status' = "walk" /\ rest' = request'.names ELSE status' = "refused"
  BY DEF StartCheck, TypeInv, disk, loaded
<1>2. LoadedQuietly'
  <2>1. Len(blocked) = Len(policy)
    <3>1. Len(blocked) \in Nat /\ Len(policy) \in Nat
      <4>1. blocked \in Seq(Seq(Components)) /\ policy \in Seq(Seq(Components))
        BY DEF TypeInv
      <4> QED
        BY <4>1
    <3> QED
      BY <1>1, <3>1 DEF LoadedQuietly, Loading
  <2>2. ASSUME NEW k PROVE IsForm(blocked[k], policy[k])' = IsForm(blocked[k], policy[k])
    BY <1>1, SameTree
  <2>3. (\A k \in DOMAIN blocked : IsForm(blocked[k], policy[k]))'
    BY <1>1, <2>2 DEF LoadedQuietly
  <2> QED
    BY <1>1, <2>1, <2>3 DEF LoadedQuietly
<1>3. PathOf(fd)' = PathOf(fd) /\ Present(entry)' = Present(entry)
  BY <1>1, SameTree
<1>4. CASE ~request'.abs
  <2>1. status' = "refused"
    BY <1>1, <1>4
  <2>2. ~strayed' /\ canonical' = PathOf(fd)' /\ (fd \in Present(entry))'
    BY <1>1, <1>3 DEF WalkedQuietly
  <2> QED
    BY <1>2, <1>4, <2>1, <2>2 DEF WalkedQuietly
<1>5. CASE request'.abs
  <2>1. IsTree(entry') /\ request'.names \in Seq(Components)
    BY <1>1, TypeNext DEF Next, Step, TypeInv
  <2>2. /\ 0 \in 0 .. Reach(request'.names)
        /\ Walk(request'.names)[0] = [at |-> Root, rest |-> request'.names, links |-> 0]
    <3>1. Reach(request'.names) \in Nat
      BY <1>1, <2>1, WalkFacts
    <3> QED
      BY <1>1, <2>1, <3>1, WalkFacts
  <2>3. Walk(request.names)' = Walk(request'.names) /\ Reach(request.names)' = Reach(request'.names)
    BY <1>1, SameTree
  <2>4. PathOf(Root) = <<>> /\ PathOf(Root)' = PathOf(Root) /\ Root \in Dirs \cup Files
    BY <1>1, TreePaths, InodeAssumption, SameTree DEF PathOf, TypeInv
  <2>5. <<>> \o request'.names = request'.names /\ <<>> \o <<>> = <<>> /\ <<>> \in Seq(Name)
    BY <2>1, ConcatEmptySeq, TextKinds
  <2>6. Follows(0, <<>>)'
    BY <1>1, <1>5, <2>2, <2>3, <2>4, <2>5 DEF Follows, PathOf
  <2>7. Following'
    BY <2>2, <2>3, <2>5, <2>6 DEF Following
  <2> QED
    <3>1. status' = "walk"
      BY <1>1, <1>5
    <3>2. ~strayed' /\ canonical' = PathOf(fd)' /\ (fd \in Present(entry))' /\ canonical' = <<>>
      BY <1>1, <1>3 DEF WalkedQuietly
    <3> QED
      BY <1>2, <1>5, <2>7, <3>1, <3>2 DEF WalkedQuietly, Unblocked
<1> QED
  BY <1>2, <1>4, <1>5

LEMMA LinkQuietly ==
    ASSUME TypeInv, WalkedQuietly, FollowLink
    PROVE  WalkedQuietly'
<1>1. status = "walk" /\ rest # <<>> /\ Opened \in Links /\ UNCHANGED <<entry, request, blocked, strayed>>
  BY DEF FollowLink, Walking, Restart, Fail, disk, loaded, walk
<1>2. PathOf(fd)' = PathIn(entry, fd') /\ Present(entry)' = Present(entry)
  BY <1>1, SameTree DEF PathOf
<1>3. canonical = PathOf(fd) /\ fd \in Present(entry)
  BY DEF WalkedQuietly
<1>4. CASE links + 1 > MaxSymlinkDepth
  <2>1. Reason'
    BY <1>1, <1>4, RefusedQuietly, ReasonStays
  <2> QED
    BY <1>1, <1>2, <1>4, <2>1 DEF FollowLink, Fail, walk, WalkedQuietly, PathOf
<1>5. CASE ~(links + 1 > MaxSymlinkDepth)
  <2> DEFINE base == IF Target[Opened].abs THEN <<>> ELSE canonical
             names == Target[Opened].names
             g == Walk(request.names)
  <2>1. /\ links' = links + 1 /\ rest' = base \o names \o Tail(rest) /\ fd' = Root /\ canonical' = <<>>
        /\ status' = "walk"
    BY <1>1, <1>5 DEF FollowLink, Restart
  <2>2. PICK k \in 0 .. Reach(request.names), s \in Seq(Name) : Follows(k, s)
    BY <1>1 DEF WalkedQuietly, Following
  <2>3. s = <<>>
    <3>1. SUFFICES ASSUME s # <<>> PROVE FALSE
      OBVIOUS
    <3>2. Opened \in Dirs \cup Files
      BY <1>3, <2>2, <3>1, Ahead
    <3> QED
      BY <1>1, <3>2, InodeAssumption
  <2> DEFINE v == g[k + 1]
  <2>4. links # KernelLinks
    <3>1. links \in 0 .. MaxSymlinkDepth
      BY DEF TypeInv
    <3> QED
      BY <1>5, <3>1, LinksAssumption
  <2>5. /\ k + 1 \in 0 .. Reach(request.names)
        /\ v.at = IF Target[Opened].abs THEN Root ELSE fd
        /\ v.rest = names \o Tail(rest) /\ v.links = links + 1
    BY <1>1, <1>3, <2>2, <2>3, <2>4, Abreast
  <2>6. /\ base \in Seq(Name) /\ base \in Seq(Components) /\ names \in Seq(Components)
        /\ Tail(rest) \in Seq(Components)
    <3>1. Tail(rest) \in Seq(Components)
      BY <1>1, HeadTailProperties DEF TypeInv
    <3>2. canonical \in Seq(Name)
      BY DEF TypeInv
    <3> QED
      BY <1>1, <3>1, <3>2, TargetAssumption, TextKinds
  <2>7. base \o names \o Tail(rest) = base \o (names \o Tail(rest))
    <3> DEFINE tail == Tail(rest)
    <3>1. base \in Seq(Components) /\ names \in Seq(Components) /\ tail \in Seq(Components)
      BY <2>6
    <3> HIDE DEF base, names, tail
    <3>2. base \o names \o tail = base \o (names \o tail)
      BY <3>1, ConcatAssociative, SMTT(30)
    <3> QED
      BY <3>2 DEF tail
  <2>8. v.at \in Dirs \cup Files /\ PathOf(v.at) = base
    <3>1. PathOf(Root) = <<>> /\ Root \in Dirs /\ fd \in Dirs \cup Files
      BY TreePaths, InodeAssumption DEF TypeInv, PathOf
    <3> QED
      BY <1>3, <2>5, <3>1
  <2>9. base = <<>> \o base
    BY <2>6, ConcatEmptySeq, SMTT(30)
  <2>10. Following'
    <3> DEFINE j == k + 1
    <3> HIDE DEF base, names
    <3>1. /\ g[j].at \in Dirs \cup Files /\ g[j].links = links'
          /\ rest' = base \o g[j].rest
          /\ PathOf(g[j].at) = canonical' \o base
      BY <2>1, <2>5, <2>7, <2>8, <2>9
    <3>2. j \in 0 .. Reach(request.names)
      BY <2>5
    <3> HIDE DEF j
    <3> QED
      BY <1>1, <2>6, <3>1, <3>2, FollowsOn
  <2>11. PathOf(fd)' = canonical' /\ fd' \in Present(entry)
    BY <1>2, <2>1, TreePaths DEF TypeInv, Present
  <2> QED
    BY <1>1, <1>2, <2>1, <2>10, <2>11 DEF WalkedQuietly, Unblocked
<1> QED
  BY <1>4, <1>5

LEMMA EnterQuietly ==
    ASSUME TypeInv, WalkedQuietly, EnterComponent
    PROVE  WalkedQuietly'
<1>1. /\ status = "walk" /\ rest # <<>> /\ Opened \in Dirs \cup Files /\ UNCHANGED <<entry, request, blocked>>
      /\ Opened # Nothing
  BY NothingOutside DEF EnterComponent, Walking, Enter, Fail, disk, loaded, Inode
<1>2. PathOf(fd)' = PathIn(entry, fd') /\ Present(entry)' = Present(entry)
  BY <1>1, SameTree DEF PathOf
<1>3. canonical = PathOf(fd) /\ fd \in Present(entry)
  BY DEF WalkedQuietly
<1>4. CASE Under(Here, blocked)
  <2>1. Reason'
    BY <1>1, <1>4, RefusedQuietly, ReasonStays
  <2> QED
    BY <1>1, <1>2, <1>4, <2>1 DEF EnterComponent, Fail, walk, WalkedQuietly, PathOf
<1>5. CASE ~Under(Here, blocked)
  <2> DEFINE g == Walk(request.names)
  <2>1. /\ fd' = Opened /\ canonical' = Here /\ rest' = Tail(rest) /\ links' = links /\ status' = "walk"
        /\ strayed' = (strayed \/ (Component = ".." /\ canonical # PathOf(fd)))
    BY <1>1, <1>5 DEF EnterComponent, Enter
  <2>2. ~strayed'
    BY <1>3, <2>1 DEF WalkedQuietly
  <2>3. PathOf(Opened) = Here /\ Opened \in Present(entry) /\ Here \in Seq(Name)
    BY <1>1, <1>3, OpenedFacts
  <2>4. PICK k \in 0 .. Reach(request.names), s \in Seq(Name) : Follows(k, s)
    BY <1>1 DEF WalkedQuietly, Following
  <2>7. Following'
    <3>1. CASE s # <<>>
      <4>1. /\ g[k].at \in Dirs \cup Files /\ g[k].links = links
            /\ Tail(s) \in Seq(Name) /\ Tail(rest) = Tail(s) \o g[k].rest
            /\ PathOf(g[k].at) = Here \o Tail(s)
        BY <1>3, <2>4, <3>1, Ahead
      <4> QED
        BY <1>1, <2>1, <4>1, FollowsOn
    <3>2. CASE s = <<>>
      <4> DEFINE j == k + 1
      <4>1. j \in 0 .. Reach(request.names) /\ g[j].at = Opened /\ g[j].rest = Tail(rest) /\ g[j].links = links
        BY <1>1, <1>3, <2>4, <3>2, Abreast
      <4>2. Tail(rest) = <<>> \o Tail(rest) /\ Here = Here \o <<>> /\ <<>> \in Seq(Name)
        <5>1. Tail(rest) \in Seq(Components)
          BY <1>1, HeadTailProperties DEF TypeInv
        <5> QED
          BY <2>3, <5>1, ConcatEmptySeq, TextKinds
      <4> HIDE DEF j
      <4> QED
        BY <1>1, <2>1, <2>3, <4>1, <4>2, FollowsOn
    <3> QED
      BY <3>1, <3>2
  <2>8. Unblocked(canonical)'
    BY <1>1, <1>5, <2>1 DEF Unblocked, Under
  <2>9. request'.abs
    BY <1>1 DEF WalkedQuietly
  <2> QED
    BY <1>2, <2>1, <2>2, <2>3, <2>7, <2>8, <2>9 DEF WalkedQuietly, PathOf
<1> QED
  BY <1>4, <1>5

LEMMA QuietNext == TypeInv /\ QuietInv /\ [Next]_vars => QuietInv'
<1> SUFFICES ASSUME TypeInv, QuietInv, [Next]_vars, changes' = 0
             PROVE  LoadedQuietly' /\ WalkedQuietly'
  BY DEF QuietInv
<1>1. ~(ReplaceByLink \/ Rename)
  <2>1. changes \in Nat
    BY DEF TypeInv
  <2>2. ReplaceByLink \/ Rename => changes' = changes + 1
    BY DEF ReplaceByLink, Rename, Changing
  <2> QED
    BY <2>1, <2>2
<1>2. UNCHANGED <<entry, changes>>
  BY <1>1 DEF Next, Step, WalkOn, CanonicalizeBlocked, StartCheck, MissComponent, FollowLink, EnterComponent,
              ReadBack, Fail, Block, Restart, Enter, vars, disk
<1>3. LoadedQuietly /\ WalkedQuietly
  BY <1>2 DEF QuietInv
<1>4. PathOf(fd)' = PathIn(entry, fd') /\ Present(entry)' = Present(entry)
  BY <1>2, SameTree DEF PathOf
<1>5. CASE CanonicalizeBlocked
  BY <1>2, <1>3, <1>5, LoadQuietly
<1>6. CASE StartCheck
  BY <1>3, <1>6, StartQuietly
<1>7. CASE WalkOn
  <2>1. status = "walk" /\ UNCHANGED <<policy, blocked, request>>
    BY <1>7 DEF WalkOn, MissComponent, FollowLink, EnterComponent, ReadBack, Walking, Fail, Restart, Enter, loaded
  <2>2. LoadedQuietly'
    BY <1>2, <1>3, <2>1, LoadedStays
  <2>3. CASE MissComponent
    <3>1. rest # <<>> /\ Opened = Nothing /\ status' = "refused" /\ UNCHANGED <<fd, canonical, strayed>>
      BY <2>3 DEF MissComponent, Walking, Fail, walk
    <3>2. Reason'
      BY <1>2, <1>3, <2>1, <3>1, RefusedQuietly, ReasonStays
    <3> QED
      BY <1>3, <1>4, <2>2, <3>1, <3>2 DEF WalkedQuietly, PathOf
  <2>4. CASE FollowLink
    BY <1>3, <2>2, <2>4, LinkQuietly
  <2>5. CASE EnterComponent
    BY <1>3, <2>2, <2>5, EnterQuietly
  <2>6. CASE ReadBack
    <3>1. /\ rest = <<>> /\ result' = PathOf(fd) /\ status' = "accepted"
          /\ UNCHANGED <<fd, rest, canonical, strayed, links>>
      BY <2>6 DEF ReadBack, walk
    <3>2. Following
      BY <1>3, <2>1 DEF WalkedQuietly
    <3>3. Following'
      <4>1. PICK k \in 0 .. Reach(request.names), s \in Seq(Name) : Follows(k, s)
        BY <3>2 DEF Following
      <4> QED
        BY <1>2, <2>1, <3>1, <4>1, FollowsOn DEF Follows
    <3>4. Unblocked(canonical)' /\ request'.abs
      BY <1>3, <2>1, <3>1 DEF WalkedQuietly, Unblocked, Under
    <3> QED
      BY <1>3, <1>4, <2>2, <3>1, <3>3, <3>4 DEF WalkedQuietly, PathOf
  <2> QED
    BY <1>7, <2>3, <2>4, <2>5, <2>6 DEF WalkOn
<1>8. CASE UNCHANGED vars
  <2>1. UNCHANGED <<policy, blocked, request, rest, fd, canonical, links, result, strayed, status>>
    BY <1>8 DEF vars, loaded, walk
  <2>2. LoadedQuietly'
    <3>1. ASSUME NEW k PROVE IsForm(blocked[k], policy[k])' = IsForm(blocked[k], policy[k])
      BY <1>2, <2>1, SameTree, SMTT(30)
    <3>2. (\A k \in DOMAIN blocked : IsForm(blocked[k], policy[k]))'
      BY <1>3, <2>1, <3>1, SMTT(30) DEF LoadedQuietly
    <3> QED
      BY <1>3, <2>1, <3>2 DEF LoadedQuietly
  <2>3. Following => Following'
    <3>1. SUFFICES ASSUME Following PROVE Following'
      OBVIOUS
    <3>2. PICK k \in 0 .. Reach(request.names), s \in Seq(Name) : Follows(k, s)
      BY <3>1 DEF Following
    <3> QED
      BY <1>2, <2>1, <3>2, FollowsOn DEF Follows
  <2>4. Reason => Reason'
    BY <1>2, <2>1, ReasonStays
  <2>5. Unblocked(canonical)' = Unblocked(canonical)
    BY <2>1 DEF Unblocked, Under
  <2> QED
    BY <1>3, <1>4, <2>1, <2>2, <2>3, <2>4, <2>5 DEF WalkedQuietly, PathOf
<1> QED
  BY <1>1, <1>5, <1>6, <1>7, <1>8 DEF Next, Step

LEMMA AlwaysQuiet == Spec => []QuietInv
<1>1. Init => QuietInv
  BY QuietInit
<1>2. TypeInv /\ QuietInv /\ [Next]_vars => QuietInv'
  BY QuietNext
<1> QED
  BY <1>1, <1>2, AlwaysTyped, PTL DEF Spec

LEMMA AlwaysWalked == Spec => []WalkInv
<1>1. Init => WalkInv
  BY WalkInit
<1>2. TypeInv /\ WalkInv /\ [Next]_vars => WalkInv'
  BY WalkNext
<1> QED
  BY <1>1, <1>2, AlwaysTyped, PTL DEF Spec

-----------------------------------------------------------------------------
(* The theorems                                                            *)

\* Whatever others do in directories they can write to, no accepted path lies
\* at or below a blocked one (check_blocked after every component): the place
\* the walk stands at is clear of the blocked paths, or its text was checked.
THEOREM BlockedIsNeverAcceptedTheorem == Spec => []BlockedIsNeverAccepted
<1>1. WalkInv /\ QuietInv => BlockedIsNeverAccepted
  <2> SUFFICES ASSUME WalkInv, QuietInv, status = "accepted", result # <<>>,
                      changes = 0 \/ (guarded /\ ~strayed)
               PROVE  ~Under(result, blocked)
    BY DEF BlockedIsNeverAccepted
  <2>1. CASE changes = 0
    BY <2>1 DEF QuietInv, WalkedQuietly, Unblocked
  <2>2. CASE guarded /\ ~strayed
    BY <2>2 DEF WalkInv, Unblocked
  <2> QED
    BY <2>1, <2>2
<1> QED
  BY <1>1, AlwaysWalked, AlwaysQuiet, PTL

\* A path that a blocked path of the policy names, through links or "..",
\* is not accepted by any other of its names (validate makes the policy's
\* paths canonical, check_path the one asked for).
THEOREM BlockedByEveryNameTheorem == Spec => []BlockedByEveryName
<1>1. TypeInv /\ QuietInv => BlockedByEveryName
  <2> SUFFICES ASSUME TypeInv, QuietInv, status = "accepted", changes = 0, result # <<>>,
                      NEW k \in DOMAIN policy, Names(policy[k]) \in Dirs \cup Files
               PROVE  ~IsPrefix(PathOf(Names(policy[k])), result)
    BY DEF BlockedByEveryName
  <2>1. LoadedQuietly /\ WalkedQuietly
    BY DEF QuietInv
  <2>2. k \in DOMAIN blocked
    BY <2>1 DEF LoadedQuietly, TypeInv
  <2>3. Names(policy[k]) # "missing"
    BY NothingOutside DEF Inode
  <2>4. blocked[k] = PathOf(Names(policy[k]))
    BY <2>1, <2>2, <2>3 DEF LoadedQuietly, IsForm
  <2>5. ~Under(result, blocked)
    BY <2>1 DEF WalkedQuietly, Unblocked
  <2> QED
    BY <2>2, <2>4, <2>5 DEF Under
<1> QED
  BY <1>1, AlwaysTyped, AlwaysQuiet, PTL

\* The walk by hand is the kernel's resolution, for every tree, every path
\* and every chain of links: it accepts the very file the kernel would open,
\* under its canonical name, and refuses nothing without a reason.
THEOREM AgreesWithKernelTheorem == Spec => []AgreesWithKernel
<1>1. TypeInv /\ QuietInv => AgreesWithKernel
  <2> SUFFICES ASSUME TypeInv, QuietInv, changes = 0 PROVE AgreesWithKernel
    BY DEF AgreesWithKernel, AcceptedIsTheFileNamed, AcceptedIsCanonical, RefusedForAReason
  <2>1. WalkedQuietly
    BY DEF QuietInv
  <2>2. ASSUME status = "accepted"
        PROVE  /\ Names(request.names) = fd /\ result = PathOf(fd)
               /\ result = canonical /\ Names(result) = fd
    <3>1. rest = <<>> /\ result = canonical /\ canonical = PathOf(fd) /\ fd \in Present(entry)
      BY <2>1, <2>2 DEF WalkedQuietly
    <3>2. PICK k \in 0 .. Reach(request.names), s \in Seq(Name) : Follows(k, s)
      BY <2>1, <2>2 DEF WalkedQuietly, Following
    <3> DEFINE w == Walk(request.names)[k]
               x == w.at
               r == w.rest
    <3>3. IsTree(entry) /\ request.names \in Seq(Components) /\ canonical \in Seq(Name)
          /\ fd \in Dirs \cup Files
      BY DEF TypeInv
    <3>4. w \in Stages /\ (w.rest = <<>> => End(request.names) = w)
      BY <3>3, WalkFacts
    <3>5. x \in Dirs \cup Files /\ rest = s \o r /\ PathOf(x) = canonical \o s
      BY <3>2 DEF Follows
    <3>6. x \in Present(entry) /\ r \in Text /\ s \in Text
      <4>1. r \in Seq(Components) /\ x \in Present(entry)
        <5> HIDE DEF w
        <5> QED
          BY <3>4, <3>5, StageFacts
      <4> QED
        BY <4>1, TextKinds
    <3> HIDE DEF w, x, r
    <3>7. s = <<>> /\ r = <<>>
      <4>1. s \o r = <<>>
        BY <3>1, <3>5
      <4>2. Len(s) + Len(r) = 0 /\ Len(s) \in Nat /\ Len(r) \in Nat
        <5>1. Len(<<>>) = 0
          OBVIOUS
        <5> QED
          BY <3>6, <4>1, <5>1, ConcatText
      <4>3. Len(s) = 0 /\ Len(r) = 0
        BY <4>2
      <4> QED
        BY <3>6, <4>3, EmptySeq DEF Text
    <3>8. PathOf(x) = canonical
      BY <3>3, <3>5, <3>7, ConcatEmptySeq
    <3>9. x = fd
      BY <3>1, <3>3, <3>6, <3>8, SamePath DEF PathOf
    <3>10. Names(request.names) = fd
      BY <3>4, <3>7, <3>9 DEF Names, r, x
    <3>11. Names(PathOf(fd)) = fd
      BY <3>1, <3>3, WalkDown
    <3> QED
      BY <3>1, <3>10, <3>11
  <2>3. ASSUME status = "refused", request.abs PROVE Reason
    BY <2>1, <2>3 DEF WalkedQuietly
  <2> QED
    BY <2>2, <2>3 DEF AgreesWithKernel, AcceptedIsTheFileNamed, AcceptedIsCanonical, RefusedForAReason, Reason
<1> QED
  BY <1>1, AlwaysTyped, AlwaysQuiet, PTL
=============================================================================
