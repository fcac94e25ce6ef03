-------------------------- MODULE GatekeeperProofs --------------------------
(***************************************************************************)
(* Theorems about Gatekeeper for every policy, every content of the disk,  *)
(* every invocation and any number of replacements: what the operators of  *)
(* Invocation compute for every argument vector, its types, the story its  *)
(* events tell, and that it implements Delegation.                         *)
(***************************************************************************)
EXTENDS Gatekeeper, Induction

-----------------------------------------------------------------------------
(* The bytes of /proc/self/cmdline                                         *)

Byte == Character \cup {Nul}
Bytes == Seq(Byte)
ChunkLists == {chunks \in Seq(Bytes) : chunks # <<>>}

LEMMA WordsAreBytes == Word \subseteq Bytes
BY SeqMonotonic, Character \subseteq Byte DEF Word, Bytes, Byte

LEMMA CutType ==
    ASSUME NEW chunks \in ChunkLists, NEW byte \in Byte
    PROVE  Cut(chunks, byte) \in ChunkLists
<1>1. chunks \in Seq(Bytes) /\ Len(chunks) \in 1 .. Len(chunks) /\ chunks[Len(chunks)] \in Bytes
  BY DEF ChunkLists
<1>2. Append(chunks[Len(chunks)], byte) \in Bytes /\ <<>> \in Bytes
  BY <1>1 DEF Bytes
<1>3. CASE byte = Nul
  <2>1. Append(chunks, <<>>) \in Seq(Bytes) /\ Append(chunks, <<>>) # <<>>
    BY <1>1, <1>2
  <2> QED
    BY <1>3, <2>1 DEF Cut, ChunkLists
<1>4. CASE byte # Nul
  <2> DEFINE cut == [chunks EXCEPT ![Len(chunks)] = Append(@, byte)]
  <2>1. cut \in Seq(Bytes) /\ Len(cut) = Len(chunks)
    BY <1>1, <1>2, ExceptSeq
  <2>2. cut # <<>>
    BY <1>1, <2>1
  <2> QED
    BY <1>4, <2>1, <2>2 DEF Cut, ChunkLists
<1> QED
  BY <1>3, <1>4

\* The steps of the reader of NUL-terminated arguments.
Cutting(f, bytes) ==
    /\ f \in [0 .. Len(bytes) -> ChunkLists]
    /\ f[0] = << <<>> >>
    /\ \A i \in 1 .. Len(bytes) : f[i] = Cut(f[i - 1], bytes[i])

LEMMA ChunksSteps ==
    ASSUME NEW bytes \in Bytes
    PROVE  \E f : Cutting(f, bytes) /\ Chunks(bytes) = f[Len(bytes)]
<1> DEFINE n == Len(bytes)
           Is(f) == f = [i \in 0 .. n |-> IF i = 0 THEN << <<>> >> ELSE Cut(f[i - 1], bytes[i])]
           c == CHOOSE f : Is(f)
           step == [p \in (1 .. n) \X ChunkLists |-> Cut(p[2], bytes[p[1]])]
<1>1. n \in Nat /\ \A i \in 1 .. n : bytes[i] \in Byte
  BY DEF Bytes
<1>2. << <<>> >> \in ChunkLists
  BY DEF ChunkLists, Bytes
<1>3. step \in [(1 .. n) \X ChunkLists -> ChunkLists]
  BY <1>1, CutType
<1>4. \A i \in 1 .. n, chunks \in ChunkLists : step[<<i, chunks>>] = Cut(chunks, bytes[i])
  OBVIOUS
<1>5. PICK g \in [0 .. n -> ChunkLists] : Recursive(g, n, << <<>> >>, step)
  <2> HIDE DEF step
  <2> QED
    BY <1>1, <1>2, <1>3, RecursionExists
<1>6. Is(g)
  <2>1. \A i \in 1 .. n : g[i] = Cut(g[i - 1], bytes[i])
    <3> SUFFICES ASSUME NEW i \in 1 .. n PROVE g[i] = Cut(g[i - 1], bytes[i])
      OBVIOUS
    <3>1. i - 1 \in 0 .. n
      BY <1>1
    <3>2. g[i - 1] \in ChunkLists
      BY <3>1
    <3> HIDE DEF step
    <3> QED
      BY <1>4, <1>5, <3>2 DEF Recursive
  <2>2. \A i \in 0 .. n : g[i] = IF i = 0 THEN << <<>> >> ELSE Cut(g[i - 1], bytes[i])
    <3> SUFFICES ASSUME NEW i \in 0 .. n PROVE g[i] = IF i = 0 THEN << <<>> >> ELSE Cut(g[i - 1], bytes[i])
      OBVIOUS
    <3>1. CASE i = 0
      BY <3>1, <1>5 DEF Recursive
    <3>2. CASE i # 0
      <4>1. i \in 1 .. n
        BY <3>2
      <4> QED
        BY <2>1, <3>2, <4>1
    <3> QED
      BY <3>1, <3>2
  <2> QED
    BY <1>5, <2>2
<1>7. Is(c)
  BY <1>6
<1>8. Chunks(bytes) = c[n]
  BY DEF Chunks
<1>9. \A i \in 0 .. n : c[i] = IF i = 0 THEN << <<>> >> ELSE Cut(c[i - 1], bytes[i])
  <2> HIDE DEF c
  <2> QED
    BY <1>7
<1> HIDE DEF c
<1>10. c[0] = << <<>> >> /\ \A i \in 1 .. n : c[i] = Cut(c[i - 1], bytes[i])
  BY <1>1, <1>9
<1>11. \A i \in 0 .. n : c[i] \in ChunkLists
  <2> DEFINE S == {i \in 0 .. n : c[i] \in ChunkLists}
  <2>1. 0 \in S
    <3>1. 0 \in 0 .. n
      BY <1>1
    <3>2. c[0] \in ChunkLists
      BY <1>2, <1>10
    <3> QED
      BY <3>1, <3>2
  <2>2. ASSUME NEW i \in 0 .. n, i \in S /\ i < n PROVE i + 1 \in S
    <3>1. i + 1 \in 1 .. n /\ (i + 1) - 1 = i
      BY <1>1, <2>2
    <3>2. c[i + 1] = Cut(c[i], bytes[i + 1])
      BY <1>10, <3>1
    <3> QED
      BY <1>1, <2>2, <3>1, <3>2, CutType
  <2>3. \A i \in 0 .. n : i \in S
    <3> HIDE DEF S
    <3> QED
      BY <1>1, <2>1, <2>2, BoundedInduction
  <2> QED
    BY <2>3
<1>12. c \in [0 .. n -> ChunkLists]
  BY <1>7, <1>11
<1>13. Cutting(c, bytes)
  BY <1>10, <1>12 DEF Cutting
<1> QED
  BY <1>8, <1>13

LEMMA ChunksEmpty == Chunks(<<>>) = << <<>> >>
<1>1. <<>> \in Bytes /\ Len(<<>>) = 0
  BY DEF Bytes
<1>2. PICK f : Cutting(f, <<>>) /\ Chunks(<<>>) = f[Len(<<>>)]
  BY <1>1, ChunksSteps
<1> QED
  BY <1>1, <1>2 DEF Cutting

LEMMA ChunksType ==
    ASSUME NEW bytes \in Bytes PROVE Chunks(bytes) \in ChunkLists
<1>1. PICK f : Cutting(f, bytes) /\ Chunks(bytes) = f[Len(bytes)]
  BY ChunksSteps
<1>2. Len(bytes) \in 0 .. Len(bytes)
  BY DEF Bytes
<1> QED
  BY <1>1, <1>2 DEF Cutting

\* One more byte is one more step.
LEMMA ChunksAppend ==
    ASSUME NEW bytes \in Bytes, NEW byte \in Byte
    PROVE  Chunks(Append(bytes, byte)) = Cut(Chunks(bytes), byte)
<1> DEFINE n == Len(bytes)
           more == Append(bytes, byte)
<1>1. /\ n \in Nat /\ more \in Bytes /\ Len(more) = n + 1 /\ more[n + 1] = byte
      /\ \A i \in 1 .. n : more[i] = bytes[i]
  BY DEF Bytes
<1>2. PICK f : Cutting(f, bytes) /\ Chunks(bytes) = f[n]
  BY ChunksSteps
<1>3. PICK g : Cutting(g, more) /\ Chunks(more) = g[Len(more)]
  BY <1>1, ChunksSteps
<1> HIDE DEF n, more
<1>4. \A i \in 0 .. n : g[i] = f[i]
  <2> DEFINE S == {i \in 0 .. n : g[i] = f[i]}
  <2>1. 0 \in S
    <3>1. 0 \in 0 .. n /\ g[0] = f[0]
      BY <1>1, <1>2, <1>3 DEF Cutting
    <3> QED
      BY <3>1
  <2>2. ASSUME NEW i \in 0 .. n, i \in S /\ i < n PROVE i + 1 \in S
    <3>1. /\ i + 1 \in 1 .. n /\ i + 1 \in 1 .. n + 1 /\ i + 1 \in 0 .. n
          /\ (i + 1) - 1 = i /\ g[i] = f[i]
      BY <1>1, <2>2
    <3>2. g[i + 1] = Cut(g[i], more[i + 1])
      BY <1>1, <1>3, <3>1 DEF Cutting
    <3>3. f[i + 1] = Cut(f[i], bytes[i + 1])
      BY <1>1, <1>2, <3>1 DEF Cutting, n
    <3>4. more[i + 1] = bytes[i + 1]
      BY <1>1, <3>1
    <3> QED
      BY <3>1, <3>2, <3>3, <3>4
  <2>3. \A i \in 0 .. n : i \in S
    <3> HIDE DEF S
    <3> QED
      BY <1>1, <2>1, <2>2, BoundedInduction
  <2> QED
    BY <2>3
<1>5. n + 1 \in 1 .. Len(more) /\ (n + 1) - 1 = n /\ n \in 0 .. n
  BY <1>1
<1>6. g[n + 1] = Cut(g[n], byte)
  BY <1>1, <1>3, <1>5 DEF Cutting
<1> QED
  BY <1>1, <1>2, <1>3, <1>4, <1>5, <1>6 DEF more

\* An argument ends up in the last chunk ...
LEMMA ChunksOfWord ==
    ASSUME NEW bytes \in Bytes, NEW chunks \in Seq(Bytes), Chunks(bytes) = Append(chunks, <<>>)
    PROVE  \A word \in Word : Chunks(bytes \o word) = Append(chunks, word)
<1> DEFINE P == {word \in Word : Chunks(bytes \o word) = Append(chunks, word)}
<1>1. <<>> \in P
  BY DEF Word, Bytes
<1>2. ASSUME NEW word \in Seq(Character), NEW c \in Character, word \in P
      PROVE  Append(word, c) \in P
  <2> DEFINE before == Append(chunks, word)
  <2>1. word \in Bytes /\ c \in Byte /\ c # Nul /\ Append(word, c) \in Word
    BY WordsAreBytes, CharacterAssumption DEF Word, Byte
  <2>2. bytes \o word \in Bytes /\ bytes \o Append(word, c) = Append(bytes \o word, c)
    BY <2>1, ConcatAppend DEF Bytes
  <2>3. Chunks(bytes \o Append(word, c)) = Cut(before, c)
    BY <1>2, <2>1, <2>2, ChunksAppend
  <2>4. /\ before \in Seq(Bytes) /\ Len(before) = Len(chunks) + 1 /\ before[Len(before)] = word
        /\ \A i \in 1 .. Len(chunks) : before[i] = chunks[i]
    BY <2>1
  <2>5. Append(word, c) \in Bytes
    BY <2>1 DEF Bytes
  <2>6. [before EXCEPT ![Len(before)] = Append(@, c)] = Append(chunks, Append(word, c))
    <3>1. \A e \in Bytes : [Append(chunks, word) EXCEPT ![Len(chunks) + 1] = e] = Append(chunks, e)
      BY <2>1, ReplaceLast
    <3>2. [before EXCEPT ![Len(chunks) + 1] = Append(word, c)] = Append(chunks, Append(word, c))
      BY <2>5, <3>1
    <3> QED
      BY <2>4, <3>2
  <2> QED
    BY <2>1, <2>3, <2>6 DEF Cut
<1>3. \A word \in Seq(Character) : word \in P
  <2> HIDE DEF P
  <2> QED
    BY <1>1, <1>2, SequenceInduction
<1> QED
  BY <1>3 DEF Word

\* ... and its NUL starts a new one.
LEMMA ChunksOfArgument ==
    ASSUME NEW bytes \in Bytes, NEW chunks \in Seq(Bytes), Chunks(bytes) = Append(chunks, <<>>),
           NEW word \in Word
    PROVE  /\ bytes \o Append(word, Nul) \in Bytes
           /\ Chunks(bytes \o Append(word, Nul)) = Append(Append(chunks, word), <<>>)
<1>1. word \in Bytes /\ Nul \in Byte
  BY WordsAreBytes DEF Byte
<1>2. bytes \o word \in Bytes /\ bytes \o Append(word, Nul) = Append(bytes \o word, Nul)
  BY <1>1, ConcatAppend DEF Bytes
<1>3. Append(bytes \o word, Nul) \in Bytes
  BY <1>1, <1>2 DEF Bytes
<1>4. Chunks(Append(bytes \o word, Nul)) = Cut(Append(chunks, word), Nul)
  BY <1>1, <1>2, ChunksAppend, ChunksOfWord
<1> QED
  BY <1>2, <1>3, <1>4 DEF Cut

-----------------------------------------------------------------------------
(* Sequences of words put together                                         *)

LEMMA FlattenEmpty == FlattenSeq(<<>>) = <<>>
BY DEF FlattenSeq

Flattening(f, B, ss) ==
    /\ f \in [1 .. Len(ss) -> Seq(B)]
    /\ f[1] = ss[1]
    /\ \A i \in 2 .. Len(ss) : f[i] = f[i - 1] \o ss[i]

LEMMA FlattenSteps ==
    ASSUME NEW B, NEW ss \in Seq(Seq(B)), Len(ss) > 0
    PROVE  \E f : Flattening(f, B, ss) /\ FlattenSeq(ss) = f[Len(ss)]
<1> DEFINE n == Len(ss)
           Is(f) == f = [i \in 1 .. n |-> IF i = 1 THEN ss[i] ELSE f[i - 1] \o ss[i]]
           c == CHOOSE f : Is(f)
           step == [p \in (1 .. n) \X Seq(B) |-> p[2] \o ss[p[1]]]
<1>1. n \in Nat /\ n >= 1 /\ \A i \in 1 .. n : ss[i] \in Seq(B)
  OBVIOUS
<1>2. <<>> \in Seq(B)
  OBVIOUS
<1>3. step \in [(1 .. n) \X Seq(B) -> Seq(B)]
  BY <1>1
<1>4. \A i \in 1 .. n, s \in Seq(B) : step[<<i, s>>] = s \o ss[i]
  OBVIOUS
<1>5. PICK g \in [0 .. n -> Seq(B)] : Recursive(g, n, <<>>, step)
  <2> HIDE DEF step, n
  <2> QED
    BY <1>1, <1>2, <1>3, RecursionExists
<1> DEFINE h == [i \in 1 .. n |-> g[i]]
<1> HIDE DEF step
<1>6. /\ h \in [1 .. n -> Seq(B)]
      /\ \A i \in 1 .. n : h[i] = IF i = 1 THEN ss[i] ELSE h[i - 1] \o ss[i]
  <2>1. h \in [1 .. n -> Seq(B)]
    BY <1>1
  <2>2. ASSUME NEW i \in 1 .. n PROVE h[i] = IF i = 1 THEN ss[i] ELSE h[i - 1] \o ss[i]
    <3>1. i - 1 \in 0 .. n /\ g[i - 1] \in Seq(B) /\ ss[i] \in Seq(B)
      <4>1. i - 1 \in 0 .. n /\ ss[i] \in Seq(B)
        BY <1>1
      <4> QED
        BY <4>1
    <3>2. h[i] = g[i - 1] \o ss[i]
      BY <1>4, <1>5, <3>1 DEF Recursive
    <3>3. CASE i = 1
      <4>1. g[i - 1] = <<>>
        BY <1>5, <3>3 DEF Recursive
      <4> QED
        BY <3>1, <3>2, <3>3, <4>1
    <3>4. CASE i # 1
      <4>1. i - 1 \in 1 .. n
        BY <1>1, <3>4
      <4>2. h[i - 1] = g[i - 1]
        BY <4>1
      <4> QED
        BY <3>2, <3>4, <4>2, Zenon
    <3> QED
      BY <3>3, <3>4
  <2> QED
    BY <2>1, <2>2
<1>7. Is(h)
  <2> HIDE DEF h
  <2> QED
    BY <1>6, Zenon
<1>8. Is(c)
  BY <1>7, Zenon
<1>9. FlattenSeq(ss) = c[n]
  BY <1>1 DEF FlattenSeq
<1>10. \A i \in 1 .. n : c[i] = IF i = 1 THEN ss[i] ELSE c[i - 1] \o ss[i]
  <2> HIDE DEF c
  <2> QED
    BY <1>8
<1> HIDE DEF c, h, n
<1>11. c[1] = ss[1] /\ \A i \in 2 .. n : c[i] = c[i - 1] \o ss[i]
  <2>1. 1 \in 1 .. n /\ \A i \in 2 .. n : i \in 1 .. n /\ i # 1
    BY <1>1
  <2> QED
    BY <1>10, <2>1
<1>12. \A i \in 1 .. n : c[i] \in Seq(B)
  <2> DEFINE S == {i \in 0 .. n : i = 0 \/ c[i] \in Seq(B)}
  <2>1. 0 \in S
    BY <1>1
  <2>2. ASSUME NEW i \in 0 .. n, i \in S /\ i < n PROVE i + 1 \in S
    <3>1. i + 1 \in 1 .. n /\ (i + 1) - 1 = i /\ i + 1 \in 0 .. n /\ ss[i + 1] \in Seq(B)
      BY <1>1, <2>2
    <3>2. CASE i = 0
      BY <1>11, <3>1, <3>2
    <3>3. CASE i # 0
      <4>1. c[i] \in Seq(B) /\ i + 1 \in 2 .. n
        BY <2>2, <3>1, <3>3
      <4>2. c[i + 1] = c[i] \o ss[i + 1]
        BY <1>11, <3>1, <4>1
      <4>3. c[i + 1] \in Seq(B)
        BY <3>1, <4>1, <4>2
      <4> QED
        BY <3>1, <4>3
    <3> QED
      BY <3>2, <3>3
  <2>3. \A i \in 0 .. n : i \in S
    <3> HIDE DEF S
    <3> QED
      BY <1>1, <2>1, <2>2, BoundedInduction
  <2> QED
    BY <2>3
<1>13. c \in [1 .. n -> Seq(B)]
  <2>1. c = [i \in 1 .. n |-> IF i = 1 THEN ss[i] ELSE c[i - 1] \o ss[i]]
    BY <1>8
  <2> QED
    BY <1>12, <2>1
<1>14. Flattening(c, B, ss)
  BY <1>11, <1>13 DEF Flattening, n
<1> QED
  BY <1>9, <1>14 DEF n

LEMMA FlattenType ==
    ASSUME NEW B, NEW ss \in Seq(Seq(B)) PROVE FlattenSeq(ss) \in Seq(B)
<1>1. CASE Len(ss) > 0
  <2>1. PICK f : Flattening(f, B, ss) /\ FlattenSeq(ss) = f[Len(ss)]
    BY <1>1, FlattenSteps
  <2>2. Len(ss) \in 1 .. Len(ss)
    BY <1>1
  <2> QED
    BY <2>1, <2>2 DEF Flattening
<1>2. CASE Len(ss) = 0
  <2>1. ss = <<>>
    BY <1>2
  <2>2. FlattenSeq(ss) = <<>>
    BY <2>1, FlattenEmpty
  <2> QED
    BY <2>2
<1> QED
  BY <1>1, <1>2

LEMMA FlattenAppend ==
    ASSUME NEW B, NEW ss \in Seq(Seq(B)), NEW s \in Seq(B)
    PROVE  FlattenSeq(Append(ss, s)) = FlattenSeq(ss) \o s
<1> DEFINE n == Len(ss)
           more == Append(ss, s)
<1>1. /\ n \in Nat /\ more \in Seq(Seq(B)) /\ Len(more) = n + 1 /\ more[n + 1] = s
      /\ \A i \in 1 .. n : more[i] = ss[i]
  OBVIOUS
<1>2. PICK g : Flattening(g, B, more) /\ FlattenSeq(more) = g[Len(more)]
  <2>1. more \in Seq(Seq(B)) /\ Len(more) > 0
    BY <1>1
  <2> HIDE DEF more, n
  <2> QED
    BY <2>1, FlattenSteps
<1>3. CASE n = 0
  <2>1. ss = <<>>
    BY <1>3
  <2>2. g[n + 1] = s
    BY <1>1, <1>2, <1>3 DEF Flattening
  <2> QED
    BY <1>1, <1>2, <2>1, <2>2, FlattenEmpty
<1>4. CASE n # 0
  <2>1. n >= 1
    BY <1>1, <1>4
  <2>2. PICK f : Flattening(f, B, ss) /\ FlattenSeq(ss) = f[n]
    <3>1. Len(ss) > 0
      BY <2>1
    <3>2. \E f : Flattening(f, B, ss) /\ FlattenSeq(ss) = f[Len(ss)]
      BY <3>1, FlattenSteps
    <3> QED
      BY <3>2
  <2> HIDE DEF n, more
  <2>3. \A i \in 1 .. n : g[i] = f[i]
    <3> DEFINE S == {i \in 0 .. n : i = 0 \/ g[i] = f[i]}
    <3>1. 0 \in S
      BY <1>1
    <3>2. ASSUME NEW i \in 0 .. n, i \in S /\ i < n PROVE i + 1 \in S
      <4>1. i + 1 \in 1 .. n /\ i + 1 \in 1 .. n + 1 /\ (i + 1) - 1 = i /\ i + 1 \in 0 .. n
        BY <1>1, <3>2
      <4>2. more[i + 1] = ss[i + 1]
        BY <1>1, <4>1
      <4>3. CASE i = 0
        <5>1. g[i + 1] = f[i + 1]
          BY <1>2, <2>2, <4>2, <4>3 DEF Flattening
        <5> QED
          BY <4>1, <5>1
      <4>4. CASE i # 0
        <5>1. g[i] = f[i] /\ i + 1 \in 2 .. n /\ i + 1 \in 2 .. n + 1
          BY <3>2, <4>1, <4>4
        <5>2. g[i + 1] = g[i] \o more[i + 1]
          BY <1>1, <1>2, <4>1, <5>1 DEF Flattening
        <5>3. f[i + 1] = f[i] \o ss[i + 1]
          BY <2>2, <4>1, <5>1 DEF Flattening, n
        <5>4. g[i + 1] = f[i + 1]
          BY <4>2, <5>1, <5>2, <5>3
        <5> QED
          BY <4>1, <5>4
      <4> QED
        BY <4>3, <4>4
    <3>3. \A i \in 0 .. n : i \in S
      <4> HIDE DEF S
      <4> QED
        BY <1>1, <3>1, <3>2, BoundedInduction
    <3> QED
      BY <3>3
  <2>4. n + 1 \in 2 .. Len(more) /\ (n + 1) - 1 = n /\ n \in 1 .. n
    BY <1>1, <2>1
  <2>5. g[n + 1] = g[n] \o s
    BY <1>1, <1>2, <2>4 DEF Flattening
  <2> QED
    BY <1>1, <1>2, <2>2, <2>3, <2>4, <2>5 DEF more
<1> QED
  BY <1>3, <1>4

-----------------------------------------------------------------------------
(* What the kernel wrote is read back                                      *)

Ended(args) == [i \in DOMAIN args |-> Append(args[i], Nul)]

LEMMA EndedType ==
    ASSUME NEW args \in Seq(Word)
    PROVE  /\ Ended(args) \in Seq(Bytes) /\ Len(Ended(args)) = Len(args)
           /\ \A i \in 1 .. Len(args) : Ended(args)[i] = Append(args[i], Nul) /\ args[i] \in Word
<1>1. \A word \in Word : Append(word, Nul) \in Bytes
  BY WordsAreBytes, Nul \in Byte DEF Bytes, Byte
<1>2. DOMAIN args = 1 .. Len(args) /\ Len(args) \in Nat /\ \A i \in 1 .. Len(args) : args[i] \in Word
  OBVIOUS
<1>3. \A i \in 1 .. Len(args) : Append(args[i], Nul) \in Bytes
  BY <1>1, <1>2
<1>4. [i \in 1 .. Len(args) |-> Append(args[i], Nul)] \in Seq(Bytes)
  BY <1>2, <1>3, IsASeq
<1> QED
  BY <1>2, <1>3, <1>4 DEF Ended

LEMMA KernelEmpty == KernelCmdline(<<>>) = <<>>
<1>1. [i \in DOMAIN <<>> |-> Append(<<>>[i], Nul)] = <<>>
  OBVIOUS
<1> QED
  BY <1>1, FlattenEmpty DEF KernelCmdline

LEMMA KernelAppend ==
    ASSUME NEW args \in Seq(Word), NEW word \in Word
    PROVE  KernelCmdline(Append(args, word)) = KernelCmdline(args) \o Append(word, Nul)
<1>1. Append(word, Nul) \in Bytes
  BY WordsAreBytes, Nul \in Byte DEF Bytes, Byte
<1>2. /\ Append(args, word) \in Seq(Word) /\ Len(Append(args, word)) = Len(args) + 1
      /\ \A i \in 1 .. Len(args) + 1 : Append(args, word)[i] = IF i = Len(args) + 1 THEN word ELSE args[i]
  OBVIOUS
<1>3. /\ Ended(Append(args, word)) \in Seq(Bytes) /\ Len(Ended(Append(args, word))) = Len(args) + 1
      /\ \A i \in 1 .. Len(args) + 1 : Ended(Append(args, word))[i] = Append(Append(args, word)[i], Nul)
  BY <1>2, EndedType
<1>4. /\ Append(Ended(args), Append(word, Nul)) \in Seq(Bytes)
      /\ Len(Append(Ended(args), Append(word, Nul))) = Len(args) + 1
      /\ \A i \in 1 .. Len(args) + 1 :
             Append(Ended(args), Append(word, Nul))[i] = IF i = Len(args) + 1 THEN Append(word, Nul) ELSE Ended(args)[i]
  BY <1>1, EndedType
<1>5. \A i \in 1 .. Len(args) : i \in 1 .. Len(args) + 1 /\ i # Len(args) + 1 /\ Ended(args)[i] = Append(args[i], Nul)
  BY EndedType
<1>6. ASSUME NEW i \in 1 .. Len(args) + 1
      PROVE  Ended(Append(args, word))[i] = Append(Ended(args), Append(word, Nul))[i]
  <2>1. CASE i = Len(args) + 1
    BY <1>2, <1>3, <1>4, <2>1
  <2>2. CASE i # Len(args) + 1
    <3>1. i \in 1 .. Len(args)
      BY <2>2
    <3> QED
      BY <1>2, <1>3, <1>4, <1>5, <2>2, <3>1
  <2> QED
    BY <2>1, <2>2
<1>7. Ended(Append(args, word)) = Append(Ended(args), Append(word, Nul))
  BY <1>3, <1>4, <1>6, SeqEqual
<1>8. Ended(args) \in Seq(Seq(Byte)) /\ Append(word, Nul) \in Seq(Byte)
  BY <1>1, EndedType DEF Bytes
<1>9. FlattenSeq(Append(Ended(args), Append(word, Nul))) = FlattenSeq(Ended(args)) \o Append(word, Nul)
  BY <1>8, FlattenAppend
<1> QED
  BY <1>7, <1>9 DEF KernelCmdline, Ended

LEMMA KernelChunks ==
    \A args \in Seq(Word) : KernelCmdline(args) \in Bytes /\ Chunks(KernelCmdline(args)) = Append(args, <<>>)
<1> DEFINE P == {args \in Seq(Word) : KernelCmdline(args) \in Bytes /\ Chunks(KernelCmdline(args)) = Append(args, <<>>)}
<1>1. <<>> \in P
  <2>1. <<>> \in Bytes /\ <<>> \in Seq(Word) /\ Append(<<>>, <<>>) = << <<>> >>
    BY DEF Bytes
  <2> QED
    BY <2>1, KernelEmpty, ChunksEmpty
<1>2. ASSUME NEW args \in Seq(Word), NEW word \in Word, args \in P PROVE Append(args, word) \in P
  <2>1. KernelCmdline(args) \in Bytes /\ Chunks(KernelCmdline(args)) = Append(args, <<>>)
    BY <1>2
  <2>2. args \in Seq(Bytes)
    BY WordsAreBytes, SeqMonotonic
  <2>3. /\ KernelCmdline(args) \o Append(word, Nul) \in Bytes
        /\ Chunks(KernelCmdline(args) \o Append(word, Nul)) = Append(Append(args, word), <<>>)
    BY <2>1, <2>2, ChunksOfArgument
  <2>4. Append(args, word) \in Seq(Word)
    OBVIOUS
  <2> QED
    BY <2>3, <2>4, KernelAppend
<1>3. \A args \in Seq(Word) : args \in P
  <2> HIDE DEF P
  <2> QED
    BY <1>1, <1>2, SequenceInduction
<1> QED
  BY <1>3

LEMMA KernelUnicode ==
    \A args \in Seq(Word) : NotUnicode \in Range(KernelCmdline(args)) <=> ~Unicode(args)
<1> DEFINE P == {args \in Seq(Word) : NotUnicode \in Range(KernelCmdline(args)) <=> ~Unicode(args)}
<1>1. <<>> \in P
  BY KernelEmpty DEF Unicode, Range
<1>2. ASSUME NEW args \in Seq(Word), NEW word \in Word, args \in P PROVE Append(args, word) \in P
  <2>1. /\ Append(args, word) \in Seq(Word) /\ Len(Append(args, word)) = Len(args) + 1
        /\ \A i \in 1 .. Len(args) + 1 : Append(args, word)[i] = IF i = Len(args) + 1 THEN word ELSE args[i]
    OBVIOUS
  <2>2. /\ KernelCmdline(args) \in Seq(Byte) /\ Append(word, Nul) \in Seq(Byte)
        /\ word \in Seq(Byte) /\ Nul # NotUnicode
    BY WordsAreBytes, KernelChunks, Nul \in Byte DEF Bytes, Byte, Nul, NotUnicode
  <2>3. Range(KernelCmdline(args) \o Append(word, Nul)) = Range(KernelCmdline(args)) \cup Range(Append(word, Nul))
    <3> DEFINE front == KernelCmdline(args)
               last == Append(word, Nul)
    <3>1. front \in Seq(Byte) /\ last \in Seq(Byte)
      BY <2>2
    <3>2. Range(front \o last) = Range(front) \cup Range(last)
      <4> HIDE DEF front, last
      <4> QED
        BY <3>1, RangeConcatenation
    <3> QED
      BY <3>2
  <2>4. NotUnicode \in Range(Append(word, Nul)) <=> NotUnicode \in Range(word)
    <3>1. /\ DOMAIN word = 1 .. Len(word) /\ Len(word) \in Nat
          /\ DOMAIN Append(word, Nul) = 1 .. Len(word) + 1
          /\ \A i \in 1 .. Len(word) : Append(word, Nul)[i] = word[i]
          /\ Append(word, Nul)[Len(word) + 1] = Nul
      BY <2>2
    <3> QED
      BY <2>2, <3>1 DEF Range
  <2>5. Unicode(Append(args, word)) <=> Unicode(args) /\ NotUnicode \notin Range(word)
    <3>1. DOMAIN Append(args, word) = 1 .. Len(args) + 1 /\ DOMAIN args = 1 .. Len(args) /\ Len(args) \in Nat
      BY <2>1
    <3>2. \A i : i \in 1 .. Len(args) + 1 <=> (i \in 1 .. Len(args) \/ i = Len(args) + 1)
      BY <3>1
    <3>3. Len(args) + 1 \notin 1 .. Len(args)
      BY <3>1
    <3> QED
      BY <2>1, <3>1, <3>2, <3>3 DEF Unicode
  <2> QED
    BY <1>2, <2>1, <2>3, <2>4, <2>5, KernelAppend
<1>3. \A args \in Seq(Word) : args \in P
  <2> HIDE DEF P
  <2> QED
    BY <1>1, <1>2, SequenceInduction
<1> QED
  BY <1>3

LEMMA NeverBroken ==
    ASSUME NEW args \in Seq(Word) PROVE args # Broken
<1>1. "malformed" \notin Character
  BY CharacterAssumption
<1>2. ASSUME args = Broken PROVE FALSE
  <2>1. Len(args) = 1 /\ args[1] = Malformed /\ args[1] \in Word
    BY <1>2 DEF Broken
  <2>2. Malformed \in Seq(Character) /\ Malformed[1] = "malformed" /\ Len(Malformed) = 1
    BY <2>1 DEF Word, Malformed
  <2>3. Malformed[1] \in Character
    BY <2>2, SMTT(30)
  <2> QED
    BY <1>1, <2>2, <2>3
<1> QED
  BY <1>2

\* The arguments are read as they were given, or not at all.
LEMMA ReadsTheArguments ==
    ASSUME NEW args \in Seq(Word), NEW procReadable \in BOOLEAN
    PROVE  CurrentArgv(args, procReadable) = IF Unicode(args) THEN args ELSE Broken
<1> DEFINE bytes == KernelCmdline(args)
<1>1. /\ Last(Append(args, <<>>)) = <<>> /\ Front(Append(args, <<>>)) = args
  <2>1. <<>> \in Word
    BY DEF Word
  <2>2. /\ Append(args, <<>>) \in Seq(Word) /\ Len(Append(args, <<>>)) = Len(args) + 1
        /\ Append(args, <<>>)[Len(args) + 1] = <<>>
        /\ \A i \in 1 .. Len(args) : Append(args, <<>>)[i] = args[i]
    BY <2>1
  <2>3. /\ SubSeq(Append(args, <<>>), 1, Len(args)) \in Seq(Word)
        /\ Len(SubSeq(Append(args, <<>>), 1, Len(args))) = Len(args)
        /\ \A i \in 1 .. Len(args) : SubSeq(Append(args, <<>>), 1, Len(args))[i] = args[i]
    BY <2>2
  <2>4. SubSeq(Append(args, <<>>), 1, Len(args)) = args
    BY <2>3, SeqEqual
  <2>5. Len(Append(args, <<>>)) - 1 = Len(args)
    BY <2>2
  <2> QED
    BY <2>2, <2>4, <2>5 DEF Last, Front
<1>2. ParseCmdline(bytes) = IF args # <<>> /\ Unicode(args) THEN args ELSE Broken
  BY <1>1, KernelChunks, KernelUnicode DEF ParseCmdline, Arguments
<1> QED
  BY <1>2, NeverBroken DEF CurrentArgv

-----------------------------------------------------------------------------
(* File names                                                              *)

LEMMA MaxIs ==
    ASSUME NEW b \in Nat, NEW S \in SUBSET (0 .. b), S # {}
    PROVE  Max(S) \in S /\ \A m \in S : m <= Max(S)
<1>1. \A x, m \in S : x >= m <=> m <= x
  OBVIOUS
<1>2. \E x \in S : \A m \in S : x >= m
  BY <1>1, GreatestNumber
<1>3. Max(S) \in S /\ \A m \in S : Max(S) >= m
  BY <1>2 DEF Max
<1> QED
  BY <1>1, <1>3

\* The greatest number of a set is the one no other exceeds.
LEMMA MaxOf ==
    ASSUME NEW b \in Nat, NEW S \in SUBSET (0 .. b), NEW x \in S, \A m \in S : m <= x
    PROVE  Max(S) = x
<1>1. Max(S) \in S /\ \A m \in S : m <= Max(S)
  BY MaxIs
<1> DEFINE m == Max(S)
<1>2. m \in S /\ x <= m
  BY <1>1
<1> HIDE DEF m
<1>3. m <= x /\ m \in Int /\ x \in Int
  BY <1>2
<1> QED
  BY <1>2, <1>3 DEF m

\* Where the last name of a path begins and ends.
LastLetter(path) == Max(Letters(path))
FirstLetter(path) == Max({0} \cup {i \in 1 .. LastLetter(path) : path[i] = Slash}) + 1
LastName(path) == SubSeq(path, FirstLetter(path), LastLetter(path))

LEMMA FileNameIs ==
    ASSUME NEW path
    PROVE  FileName(path) = IF Letters(path) = {} \/ LastName(path) = <<Dot, Dot>> THEN <<>>
                            ELSE LastName(path)
BY DEF FileName, LastName, FirstLetter, LastLetter

LEMMA LastNameType ==
    ASSUME NEW B, NEW path \in Seq(B), Letters(path) # {}
    PROVE  /\ LastLetter(path) \in Letters(path) /\ LastLetter(path) \in 1 .. Len(path)
           /\ \A i \in Letters(path) : i <= LastLetter(path)
           /\ FirstLetter(path) \in 1 .. LastLetter(path)
           /\ FirstLetter(path) > 1 => path[FirstLetter(path) - 1] = Slash
           /\ \A i \in FirstLetter(path) .. LastLetter(path) : path[i] # Slash
           /\ LastName(path) \in Seq(B)
           /\ Len(LastName(path)) = LastLetter(path) - FirstLetter(path) + 1
           /\ \A i \in 1 .. Len(LastName(path)) : LastName(path)[i] = path[FirstLetter(path) + i - 1]
<1> DEFINE last == LastLetter(path)
           before == {0} \cup {i \in 1 .. last : path[i] = Slash}
<1>1. Len(path) \in Nat /\ Letters(path) \in SUBSET (0 .. Len(path)) /\ Letters(path) \in SUBSET (1 .. Len(path))
  BY DEF Letters
<1>2. last \in Letters(path) /\ \A i \in Letters(path) : i <= last
  BY <1>1, MaxIs DEF LastLetter
<1>3. last \in 1 .. Len(path) /\ path[last] # Slash
  BY <1>1, <1>2 DEF Letters
<1> HIDE DEF last
<1>4. before \in SUBSET (0 .. Len(path)) /\ 0 \in before
  BY <1>1, <1>3
<1>5. Max(before) \in before /\ \A i \in before : i <= Max(before)
  <2> HIDE DEF before
  <2> QED
    BY <1>1, <1>4, MaxIs
<1>6. FirstLetter(path) = Max(before) + 1
  BY DEF FirstLetter, last
<1> DEFINE m == Max(before)
<1>7. m \in 0 .. last /\ (m > 0 => path[m] = Slash) /\ m # last
  BY <1>3, <1>5
<1>8. \A i \in 1 .. last : path[i] = Slash => i <= m
  BY <1>5
<1> HIDE DEF m, before
<1>9. m \in Nat /\ last \in Nat /\ m < last /\ last <= Len(path)
  BY <1>1, <1>3, <1>7
<1>10. FirstLetter(path) = m + 1
  BY <1>6 DEF m
<1>11. /\ SubSeq(path, m + 1, last) \in Seq(B) /\ Len(SubSeq(path, m + 1, last)) = last - m
       /\ \A i \in 1 .. last - m : SubSeq(path, m + 1, last)[i] = path[m + i]
  BY <1>9
<1>12. LastName(path) = SubSeq(path, m + 1, last)
  BY <1>10 DEF LastName, last
<1>13. \A i \in m + 1 .. last : path[i] # Slash
  <2> SUFFICES ASSUME NEW i \in m + 1 .. last, path[i] = Slash PROVE FALSE
    OBVIOUS
  <2>1. i \in 1 .. last /\ ~ (i <= m)
    BY <1>9
  <2> QED
    BY <1>8, <2>1
<1>14. /\ FirstLetter(path) \in 1 .. last /\ Len(LastName(path)) = last - FirstLetter(path) + 1
       /\ FirstLetter(path) > 1 => path[FirstLetter(path) - 1] = Slash
       /\ \A i \in FirstLetter(path) .. last : path[i] # Slash
  BY <1>7, <1>9, <1>10, <1>11, <1>12, <1>13
<1>15. \A i \in 1 .. Len(LastName(path)) : LastName(path)[i] = path[FirstLetter(path) + i - 1]
  <2> SUFFICES ASSUME NEW i \in 1 .. last - m PROVE SubSeq(path, m + 1, last)[i] = path[(m + 1) + i - 1]
    BY <1>10, <1>11, <1>12
  <2>1. (m + 1) + i - 1 = m + i
    BY <1>9
  <2> QED
    BY <1>11, <2>1
<1> QED
  BY <1>2, <1>3, <1>11, <1>12, <1>14, <1>15 DEF last

\* A file name is a name: no slash is in it, and it stands for no directory.
LEMMA FileNameType ==
    ASSUME NEW B, NEW path \in Seq(B)
    PROVE  /\ FileName(path) \in Seq(B) /\ ~HasSlash(FileName(path))
           /\ FileName(path) # <<Dot>> /\ FileName(path) # <<Dot, Dot>>
<1>1. CASE Letters(path) = {} \/ LastName(path) = <<Dot, Dot>>
  <2>1. FileName(path) = <<>>
    BY <1>1, FileNameIs
  <2>2. <<>> # <<Dot>> /\ <<>> # <<Dot, Dot>> /\ ~HasSlash(<<>>)
    BY DEF HasSlash, Range
  <2> QED
    BY <2>1, <2>2
<1>2. CASE Letters(path) # {} /\ LastName(path) # <<Dot, Dot>>
  <2> DEFINE name == LastName(path)
             first == FirstLetter(path)
             last == LastLetter(path)
  <2>1. /\ FileName(path) = name /\ name \in Seq(B) /\ Len(path) \in Nat
    BY <1>2, FileNameIs, LastNameType
  <2>2. /\ first \in 1 .. last /\ last \in 1 .. Len(path) /\ last \in Letters(path)
        /\ \A i \in Letters(path) : i <= last
        /\ first > 1 => path[first - 1] = Slash
        /\ \A i \in first .. last : path[i] # Slash
        /\ Len(name) = last - first + 1
        /\ \A i \in 1 .. Len(name) : name[i] = path[first + i - 1]
    BY <1>2, LastNameType
  <2> HIDE DEF name, first, last
  <2>3. \A i \in 1 .. Len(name) : name[i] # Slash
    <3> SUFFICES ASSUME NEW i \in 1 .. Len(name) PROVE path[first + i - 1] # Slash
      BY <2>2
    <3>1. first + i - 1 \in first .. last
      BY <2>2
    <3> QED
      BY <2>2, <3>1
  <2>4. ~HasSlash(name)
    BY <2>1, <2>3 DEF HasSlash, Range
  <2>5. ASSUME name = <<Dot>> PROVE FALSE
    <3>1. Len(name) = 1 /\ name[1] = Dot
      BY <2>5
    <3>2. first = last /\ path[last] = Dot
      <4>1. first = last
        <5>1. last \in Int /\ first \in Int
          BY <2>1, <2>2
        <5>2. last - first + 1 = 1
          BY <2>2, <3>1
        <5> QED
          BY <5>1, <5>2
      <4>2. 1 \in 1 .. Len(name) /\ first + 1 - 1 = first
        BY <2>2, <3>1
      <4>3. name[1] = path[first + 1 - 1]
        BY <2>2, <4>2
      <4> QED
        BY <3>1, <4>1, <4>2, <4>3
    <3>3. ~Alone(path, last)
      BY <2>2 DEF Letters
    <3>4. last < Len(path) /\ path[last + 1] # Slash
      BY <2>2, <3>2, <3>3 DEF Alone
    <3>5. last + 1 \in DOMAIN path /\ last + 1 > 1 /\ (last + 1) - 1 = last
      BY <2>1, <2>2, <3>4
    <3>6. ~Alone(path, last + 1)
      <4>1. path[(last + 1) - 1] # Slash
        BY <3>2, <3>5 DEF Dot, Slash
      <4> QED
        BY <3>5, <4>1 DEF Alone
    <3>7. last + 1 \in Letters(path)
      BY <3>4, <3>5, <3>6 DEF Letters
    <3>8. last + 1 <= last
      BY <2>2, <3>7
    <3> QED
      BY <2>2, <3>8
  <2> QED
    BY <1>2, <2>1, <2>4, <2>5 DEF name
<1> QED
  BY <1>1, <1>2

\* A token that is a file name, or has none, stays what it is.
LEMMA FileNamePlain ==
    ASSUME NEW B, NEW name \in Seq(B), ~HasSlash(name)
    PROVE  FileName(name) \in {name, <<>>}
<1>1. CASE Letters(name) = {}
  BY <1>1, FileNameIs
<1>2. CASE Letters(name) # {}
  <2>1. /\ FirstLetter(name) \in 1 .. LastLetter(name) /\ LastLetter(name) \in 1 .. Len(name)
        /\ FirstLetter(name) > 1 => name[FirstLetter(name) - 1] = Slash
        /\ \A i \in Letters(name) : i <= LastLetter(name)
        /\ Len(name) \in Nat /\ DOMAIN name = 1 .. Len(name)
    <3>1. Len(name) \in Nat /\ DOMAIN name = 1 .. Len(name)
      OBVIOUS
    <3> QED
      BY <1>2, <3>1, LastNameType
  <2>2. \A i \in 1 .. Len(name) : name[i] # Slash
    BY <2>1 DEF HasSlash, Range
  <2>3. FirstLetter(name) = 1
    <3>1. FirstLetter(name) - 1 \in 1 .. Len(name) \/ FirstLetter(name) = 1
      BY <2>1
    <3> QED
      BY <2>1, <2>2, <3>1
  <2>4. Len(name) \in Letters(name)
    <3>1. Len(name) \in 1 .. Len(name)
      BY <2>1
    <3>2. CASE Len(name) = 1
      <4>1. \A i \in DOMAIN name : i = 1
        BY <2>1, <3>2
      <4> QED
        BY <1>2, <3>2, <4>1 DEF Letters
    <3>3. CASE Len(name) # 1
      <4>1. Len(name) - 1 \in 1 .. Len(name) /\ Len(name) > 1
        BY <2>1, <3>1, <3>3
      <4>2. ~Alone(name, Len(name))
        BY <2>2, <4>1 DEF Alone
      <4> QED
        BY <2>1, <2>2, <3>1, <4>2 DEF Letters
    <3> QED
      BY <3>2, <3>3
  <2>5. LastLetter(name) = Len(name)
    BY <2>1, <2>4
  <2>6. LastName(name) = SubSeq(name, 1, Len(name))
    BY <2>3, <2>5 DEF LastName
  <2>7. SubSeq(name, 1, Len(name)) = name
    <3>1. /\ SubSeq(name, 1, Len(name)) \in Seq(B) /\ Len(SubSeq(name, 1, Len(name))) = Len(name)
          /\ \A i \in 1 .. Len(name) : SubSeq(name, 1, Len(name))[i] = name[i]
      OBVIOUS
    <3> QED
      BY <3>1, SeqEqual
  <2> QED
    BY <2>6, <2>7, FileNameIs
<1> QED
  BY <1>1, <1>2

LEMMA BasenamePlain ==
    ASSUME NEW B, NEW token \in Seq(B), ~HasSlash(token) PROVE Basename(token) = token
BY FileNamePlain DEF Basename

LEMMA BasenameType ==
    ASSUME NEW B, NEW token \in Seq(B) PROVE Basename(token) \in Seq(B)
BY FileNameType DEF Basename

-----------------------------------------------------------------------------
(* The reader of a line                                                    *)

Reader == [tokens : Seq(Word), token : Word, open : BOOLEAN, quote : {"", Single, Double}, escaped : BOOLEAN]

LEMMA StartType == StartOfLine \in Reader
<1>1. <<>> \in Seq(Word) /\ <<>> \in Word
  BY DEF Word
<1> QED
  BY <1>1 DEF StartOfLine, Reader

LEMMA FeedType ==
    ASSUME NEW st \in Reader, NEW c \in Character PROVE Feed(st, c) \in Reader
<1>1. Append(st.token, c) \in Word /\ Append(st.tokens, st.token) \in Seq(Word)
  <2>1. st.token \in Word /\ st.tokens \in Seq(Word)
    BY DEF Reader
  <2>2. Append(st.tokens, st.token) \in Seq(Word)
    BY <2>1
  <2> QED
    BY <2>1, <2>2 DEF Word
<1>2. Literal(st, c) \in Reader
  BY <1>1 DEF Literal, Reader
<1>3. [st EXCEPT !.escaped = TRUE, !.open = TRUE] \in Reader
  BY DEF Reader
<1>4. [st EXCEPT !.quote = ""] \in Reader
  BY DEF Reader
<1>5. c \in {Single, Double} => [st EXCEPT !.quote = c, !.open = TRUE] \in Reader
  BY DEF Reader
<1>6. [StartOfLine EXCEPT !.tokens = Append(st.tokens, st.token)] \in Reader
  BY <1>1, StartType DEF Reader
<1> QED
  BY <1>2, <1>3, <1>4, <1>5, <1>6 DEF Feed

LEMMA FeedUpToType ==
    ASSUME NEW n, NEW st \in Reader, NEW c \in Character PROVE FeedUpTo(n, st, c) \in Reader
BY FeedType DEF FeedUpTo

Reading(f, n, line) ==
    /\ f \in [0 .. Len(line) -> Reader]
    /\ f[0] = StartOfLine
    /\ \A i \in 1 .. Len(line) : f[i] = FeedUpTo(n, f[i - 1], line[i])

LEMMA ReadSteps ==
    ASSUME NEW n, NEW line \in Word
    PROVE  \E f : Reading(f, n, line) /\ ReadLine(line, n) = f[Len(line)]
<1> DEFINE m == Len(line)
           Is(f) == f = [i \in 0 .. m |-> IF i = 0 THEN StartOfLine ELSE FeedUpTo(n, f[i - 1], line[i])]
           a == CHOOSE f : Is(f)
           step == [p \in (1 .. m) \X Reader |-> FeedUpTo(n, p[2], line[p[1]])]
<1>1. m \in Nat /\ \A i \in 1 .. m : line[i] \in Character
  BY DEF Word
<1>2. StartOfLine \in Reader
  BY StartType
<1>3. step \in [(1 .. m) \X Reader -> Reader]
  BY <1>1, FeedUpToType
<1>4. \A i \in 1 .. m, st \in Reader : step[<<i, st>>] = FeedUpTo(n, st, line[i])
  OBVIOUS
<1>5. PICK g \in [0 .. m -> Reader] : Recursive(g, m, StartOfLine, step)
  <2> HIDE DEF step
  <2> QED
    BY <1>1, <1>2, <1>3, RecursionExists
<1>6. Is(g)
  <2>1. \A i \in 1 .. m : g[i] = FeedUpTo(n, g[i - 1], line[i])
    <3> SUFFICES ASSUME NEW i \in 1 .. m PROVE g[i] = FeedUpTo(n, g[i - 1], line[i])
      OBVIOUS
    <3>1. i - 1 \in 0 .. m
      BY <1>1
    <3>2. g[i - 1] \in Reader
      BY <3>1
    <3> HIDE DEF step
    <3> QED
      BY <1>4, <1>5, <3>2 DEF Recursive
  <2>2. \A i \in 0 .. m : g[i] = IF i = 0 THEN StartOfLine ELSE FeedUpTo(n, g[i - 1], line[i])
    <3> SUFFICES ASSUME NEW i \in 0 .. m PROVE g[i] = IF i = 0 THEN StartOfLine ELSE FeedUpTo(n, g[i - 1], line[i])
      OBVIOUS
    <3>1. CASE i = 0
      BY <3>1, <1>5 DEF Recursive
    <3>2. CASE i # 0
      <4>1. i \in 1 .. m
        BY <3>2
      <4> QED
        BY <2>1, <3>2, <4>1
    <3> QED
      BY <3>1, <3>2
  <2> QED
    BY <1>5, <2>2
<1>7. Is(a)
  BY <1>6
<1>8. ReadLine(line, n) = a[m]
  BY DEF ReadLine
<1>9. \A i \in 0 .. m : a[i] = IF i = 0 THEN StartOfLine ELSE FeedUpTo(n, a[i - 1], line[i])
  <2> HIDE DEF a
  <2> QED
    BY <1>7
<1> HIDE DEF a
<1>10. a[0] = StartOfLine /\ \A i \in 1 .. m : a[i] = FeedUpTo(n, a[i - 1], line[i])
  BY <1>1, <1>9
<1>11. \A i \in 0 .. m : a[i] \in Reader
  <2> DEFINE S == {i \in 0 .. m : a[i] \in Reader}
  <2>1. 0 \in S
    <3>1. 0 \in 0 .. m
      BY <1>1
    <3>2. a[0] \in Reader
      BY <1>2, <1>10
    <3> QED
      BY <3>1, <3>2
  <2>2. ASSUME NEW i \in 0 .. m, i \in S /\ i < m PROVE i + 1 \in S
    <3>1. i + 1 \in 1 .. m /\ (i + 1) - 1 = i
      BY <1>1, <2>2
    <3>2. a[i + 1] = FeedUpTo(n, a[i], line[i + 1])
      BY <1>10, <3>1
    <3> QED
      BY <1>1, <2>2, <3>1, <3>2, FeedUpToType
  <2>3. \A i \in 0 .. m : i \in S
    <3> HIDE DEF S
    <3> QED
      BY <1>1, <2>1, <2>2, BoundedInduction
  <2> QED
    BY <2>3
<1>12. a \in [0 .. m -> Reader]
  BY <1>7, <1>11
<1>13. Reading(a, n, line)
  BY <1>10, <1>12 DEF Reading
<1> QED
  BY <1>8, <1>13

LEMMA ReadEmpty == \A n : ReadLine(<<>>, n) = StartOfLine
<1> SUFFICES ASSUME NEW n PROVE ReadLine(<<>>, n) = StartOfLine
  OBVIOUS
<1>1. <<>> \in Word /\ Len(<<>>) = 0
  BY DEF Word
<1>2. PICK f : Reading(f, n, <<>>) /\ ReadLine(<<>>, n) = f[Len(<<>>)]
  BY <1>1, ReadSteps
<1> QED
  BY <1>1, <1>2 DEF Reading

LEMMA ReadType ==
    ASSUME NEW n, NEW line \in Word PROVE ReadLine(line, n) \in Reader
<1>1. PICK f : Reading(f, n, line) /\ ReadLine(line, n) = f[Len(line)]
  BY ReadSteps
<1>2. Len(line) \in 0 .. Len(line)
  BY DEF Word
<1> QED
  BY <1>1, <1>2 DEF Reading

LEMMA ReadAppend ==
    ASSUME NEW n, NEW line \in Word, NEW c \in Character
    PROVE  ReadLine(Append(line, c), n) = FeedUpTo(n, ReadLine(line, n), c)
<1> DEFINE m == Len(line)
           more == Append(line, c)
<1>1. /\ m \in Nat /\ more \in Word /\ Len(more) = m + 1 /\ more[m + 1] = c
      /\ \A i \in 1 .. m : more[i] = line[i]
  BY DEF Word
<1>2. PICK f : Reading(f, n, line) /\ ReadLine(line, n) = f[m]
  BY ReadSteps
<1>3. PICK g : Reading(g, n, more) /\ ReadLine(more, n) = g[Len(more)]
  BY <1>1, ReadSteps
<1> HIDE DEF m, more
<1>4. \A i \in 0 .. m : g[i] = f[i]
  <2> DEFINE S == {i \in 0 .. m : g[i] = f[i]}
  <2>1. 0 \in S
    <3>1. 0 \in 0 .. m /\ g[0] = f[0]
      BY <1>1, <1>2, <1>3 DEF Reading
    <3> QED
      BY <3>1
  <2>2. ASSUME NEW i \in 0 .. m, i \in S /\ i < m PROVE i + 1 \in S
    <3>1. /\ i + 1 \in 1 .. m /\ i + 1 \in 1 .. m + 1 /\ i + 1 \in 0 .. m
          /\ (i + 1) - 1 = i /\ g[i] = f[i]
      BY <1>1, <2>2
    <3>2. g[i + 1] = FeedUpTo(n, g[i], more[i + 1])
      BY <1>1, <1>3, <3>1 DEF Reading
    <3>3. f[i + 1] = FeedUpTo(n, f[i], line[i + 1])
      BY <1>1, <1>2, <3>1 DEF Reading, m
    <3>4. more[i + 1] = line[i + 1]
      BY <1>1, <3>1
    <3> QED
      BY <3>1, <3>2, <3>3, <3>4
  <2>3. \A i \in 0 .. m : i \in S
    <3> HIDE DEF S
    <3> QED
      BY <1>1, <2>1, <2>2, BoundedInduction
  <2> QED
    BY <2>3
<1>5. m + 1 \in 1 .. Len(more) /\ (m + 1) - 1 = m /\ m \in 0 .. m
  BY <1>1
<1>6. g[m + 1] = FeedUpTo(n, g[m], c)
  BY <1>1, <1>3, <1>5 DEF Reading
<1> QED
  BY <1>1, <1>2, <1>3, <1>4, <1>5, <1>6 DEF more

-----------------------------------------------------------------------------
(* What the reader makes of a text                                         *)

\* The text takes the reader from one state to another, wherever it is.
Leads(n, st, text, next) ==
    \A line \in Word : ReadLine(line, n) = st => ReadLine(line \o text, n) = next

\* A state in which nothing is escaped.
Midst(tokens, token, open, quote) ==
    [tokens |-> tokens, token |-> token, open |-> open, quote |-> quote, escaped |-> FALSE]

\* One behind a backslash.
Behind(tokens, token, quote) ==
    [tokens |-> tokens, token |-> token, open |-> TRUE, quote |-> quote, escaped |-> TRUE]

LEMMA LeadsNothing == ASSUME NEW n, NEW st PROVE Leads(n, st, <<>>, st)
<1>1. \A line \in Word : line \o <<>> = line
  BY DEF Word
<1> QED
  BY <1>1 DEF Leads

LEMMA LeadsCharacter ==
    ASSUME NEW n, NEW st, NEW c \in Character PROVE Leads(n, st, <<c>>, FeedUpTo(n, st, c))
<1>1. ASSUME NEW line \in Word PROVE line \o <<c>> = Append(line, c)
  BY DEF Word
<1> QED
  BY <1>1, ReadAppend DEF Leads

LEMMA LeadsThen ==
    ASSUME NEW n, NEW first, NEW second, NEW third, NEW a \in Word, NEW b \in Word,
           Leads(n, first, a, second), Leads(n, second, b, third)
    PROVE  a \o b \in Word /\ Leads(n, first, a \o b, third)
<1>1. ASSUME NEW line \in Word
      PROVE  line \o a \in Word /\ line \o (a \o b) = (line \o a) \o b /\ a \o b \in Word
  BY ConcatAssociative, SMTT(30) DEF Word
<1>2. ASSUME NEW line \in Word, ReadLine(line, n) = first PROVE ReadLine(line \o (a \o b), n) = third
  <2>1. ReadLine(line \o a, n) = second
    BY <1>2 DEF Leads
  <2>2. ReadLine((line \o a) \o b, n) = third
    BY <1>1, <2>1 DEF Leads
  <2> QED
    BY <1>1, <2>2
<1>3. a \o b \in Word
  BY DEF Word
<1> QED
  BY <1>2, <1>3 DEF Leads

LEMMA LeadsOn ==
    ASSUME NEW n, NEW st, NEW next, NEW c \in Character, Len(st.tokens) # n, Feed(st, c) = next
    PROVE  <<c>> \in Word /\ Leads(n, st, <<c>>, next)
<1>1. FeedUpTo(n, st, c) = next
  BY DEF FeedUpTo
<1>2. Leads(n, st, <<c>>, FeedUpTo(n, st, c))
  BY LeadsCharacter
<1>3. <<c>> \in Word
  BY DEF Word
<1> QED
  BY <1>1, <1>2, <1>3

\* The reader stops at the tokens it was to read.
LEMMA LeadsNowhere ==
    ASSUME NEW n, NEW st, Len(st.tokens) = n
    PROVE  \A text \in Word : Leads(n, st, text, st)
<1> DEFINE P == {text \in Word : Leads(n, st, text, st)}
<1>1. <<>> \in P
  BY LeadsNothing DEF Word
<1>2. ASSUME NEW text \in Seq(Character), NEW c \in Character, text \in P PROVE Append(text, c) \in P
  <2>1. text \in Word /\ <<c>> \in Word /\ Append(text, c) \in Word /\ Append(text, c) = text \o <<c>>
    BY DEF Word
  <2>2. Leads(n, st, <<c>>, st)
    BY LeadsCharacter DEF FeedUpTo
  <2>3. Leads(n, st, text \o <<c>>, st)
    BY <1>2, <2>1, <2>2, LeadsThen
  <2> QED
    BY <2>1, <2>3
<1>3. \A text \in Seq(Character) : text \in P
  <2> HIDE DEF P
  <2> QED
    BY <1>1, <1>2, SequenceInduction
<1> QED
  BY <1>3 DEF Word

\* The rules of the reader, one character each.
LEMMA FeedOrdinary ==
    ASSUME NEW tokens \in Seq(Word), NEW token \in Word, NEW open \in BOOLEAN, NEW c \in Character,
           c \notin {Backslash, Single, Double, Space}
    PROVE  Feed(Midst(tokens, token, open, ""), c) = Midst(tokens, Append(token, c), TRUE, "")
BY DEF Feed, Literal, Midst, Backslash, Single, Double, Space, Word

LEMMA FeedOpening ==
    ASSUME NEW tokens \in Seq(Word), NEW token \in Word, NEW open \in BOOLEAN, NEW c \in {Single, Double}
    PROVE  Feed(Midst(tokens, token, open, ""), c) = Midst(tokens, token, TRUE, c)
BY DEF Feed, Literal, Midst, Backslash, Single, Double, Space, Word

LEMMA FeedClosing ==
    ASSUME NEW tokens \in Seq(Word), NEW token \in Word, NEW open \in BOOLEAN, NEW c \in {Single, Double}
    PROVE  Feed(Midst(tokens, token, open, c), c) = Midst(tokens, token, open, "")
BY DEF Feed, Literal, Midst, Backslash, Single, Double, Space, Word

LEMMA FeedQuoted ==
    ASSUME NEW tokens \in Seq(Word), NEW token \in Word, NEW open \in BOOLEAN, NEW c \in Character,
           NEW quote \in {Single, Double}, c # quote, quote = Single \/ c # Backslash
    PROVE  Feed(Midst(tokens, token, open, quote), c) = Midst(tokens, Append(token, c), TRUE, quote)
BY DEF Feed, Literal, Midst, Backslash, Single, Double, Space, Word

LEMMA FeedBackslash ==
    ASSUME NEW tokens \in Seq(Word), NEW token \in Word, NEW open \in BOOLEAN, NEW quote \in {"", Double}
    PROVE  Feed(Midst(tokens, token, open, quote), Backslash) = Behind(tokens, token, quote)
BY DEF Feed, Literal, Midst, Behind, Backslash, Single, Double, Space, Word

LEMMA FeedBehind ==
    ASSUME NEW tokens \in Seq(Word), NEW token \in Word, NEW quote \in {"", Double}, NEW c \in Character
    PROVE  Feed(Behind(tokens, token, quote), c) = Midst(tokens, Append(token, c), TRUE, quote)
BY DEF Feed, Literal, Midst, Behind, Word

LEMMA FeedSpace ==
    ASSUME NEW tokens \in Seq(Word), NEW token \in Word
    PROVE  Feed(Midst(tokens, token, TRUE, ""), Space) = Midst(Append(tokens, token), <<>>, FALSE, "")
BY DEF Feed, Literal, Midst, StartOfLine, Backslash, Single, Double, Space, Word

-----------------------------------------------------------------------------
(* Quoted words                                                            *)

LEMMA Signs == {Backslash, Single, Double, Space, Slash, Dot, "l", "s"} \subseteq Character
BY CharacterAssumption

LEMMA FlattenOneMore ==
    ASSUME NEW B, NEW ss \in Seq(Seq(B)), NEW more \in Seq(Seq(B)), Len(more) = Len(ss) + 1,
           \A i \in 1 .. Len(ss) : more[i] = ss[i]
    PROVE  FlattenSeq(more) = FlattenSeq(ss) \o more[Len(more)]
<1> DEFINE last == more[Len(more)]
<1>1. last \in Seq(B)
  OBVIOUS
<1>2. /\ Append(ss, last) \in Seq(Seq(B)) /\ Len(Append(ss, last)) = Len(more)
      /\ \A i \in 1 .. Len(more) : Append(ss, last)[i] = more[i]
  <2>1. /\ Append(ss, last) \in Seq(Seq(B)) /\ Len(Append(ss, last)) = Len(ss) + 1
        /\ Append(ss, last)[Len(ss) + 1] = last
        /\ \A i \in 1 .. Len(ss) : Append(ss, last)[i] = ss[i]
    BY <1>1
  <2>2. \A i \in 1 .. Len(more) : i = Len(ss) + 1 \/ i \in 1 .. Len(ss)
    OBVIOUS
  <2> QED
    BY <2>1, <2>2
<1> HIDE DEF last
<1>3. Append(ss, last) = more
  BY <1>2, SeqEqual
<1>4. FlattenSeq(Append(ss, last)) = FlattenSeq(ss) \o last
  BY <1>1, FlattenAppend
<1> QED
  BY <1>3, <1>4 DEF last

Mark(how) == CASE how = "single" -> Single [] how = "double" -> Double [] how = "backslash" -> ""

Parts(how, word) == [i \in DOMAIN word |-> Escaped(how, word[i])]

LEMMA EscapedType ==
    ASSUME NEW how \in Quotings, NEW c \in Character PROVE Escaped(how, c) \in Word
<1>1. \A d \in Character : <<c>> \in Word /\ <<Backslash, c>> \in Word /\ <<Single, Backslash, Single, Single>> \in Word
  BY Signs DEF Word
<1> QED
  BY <1>1 DEF Escaped, Quotings

LEMMA PartsType ==
    ASSUME NEW how \in Quotings, NEW word \in Word
    PROVE  /\ Parts(how, word) \in Seq(Word) /\ Len(Parts(how, word)) = Len(word)
           /\ \A i \in 1 .. Len(word) : Parts(how, word)[i] = Escaped(how, word[i])
<1>1. DOMAIN word = 1 .. Len(word) /\ Len(word) \in Nat /\ \A i \in 1 .. Len(word) : word[i] \in Character
  BY DEF Word
<1>2. \A i \in 1 .. Len(word) : Escaped(how, word[i]) \in Word
  BY <1>1, EscapedType
<1>3. [i \in 1 .. Len(word) |-> Escaped(how, word[i])] \in Seq(Word)
  BY <1>1, <1>2, IsASeq
<1> QED
  BY <1>1, <1>3 DEF Parts

LEMMA PartsAppend ==
    ASSUME NEW how \in Quotings, NEW word \in Word, NEW c \in Character
    PROVE  FlattenSeq(Parts(how, Append(word, c))) = FlattenSeq(Parts(how, word)) \o Escaped(how, c)
<1> DEFINE longer == Append(word, c)
<1>1. /\ longer \in Word /\ Len(longer) = Len(word) + 1 /\ longer[Len(word) + 1] = c
      /\ \A i \in 1 .. Len(word) : longer[i] = word[i] /\ i \in 1 .. Len(longer)
      /\ Len(longer) \in 1 .. Len(longer)
  BY DEF Word
<1> HIDE DEF longer
<1>2. /\ Parts(how, longer) \in Seq(Word) /\ Len(Parts(how, longer)) = Len(word) + 1
      /\ Parts(how, longer)[Len(longer)] = Escaped(how, c)
      /\ \A i \in 1 .. Len(word) : Parts(how, longer)[i] = Escaped(how, word[i])
  BY <1>1, PartsType
<1>3. /\ Parts(how, word) \in Seq(Word) /\ Len(Parts(how, word)) = Len(word)
      /\ \A i \in 1 .. Len(word) : Parts(how, word)[i] = Escaped(how, word[i])
  BY PartsType
<1>4. \A i \in 1 .. Len(Parts(how, word)) : Parts(how, longer)[i] = Parts(how, word)[i]
  BY <1>2, <1>3
<1>5. FlattenSeq(Parts(how, longer)) = FlattenSeq(Parts(how, word)) \o Parts(how, longer)[Len(Parts(how, longer))]
  BY <1>2, <1>3, <1>4, FlattenOneMore DEF Word
<1> QED
  BY <1>1, <1>2, <1>5 DEF longer

LEMMA LeadsEscaped ==
    ASSUME NEW n, NEW how \in Quotings, NEW c \in Character,
           NEW tokens \in Seq(Word), NEW token \in Word, NEW open \in BOOLEAN, Len(tokens) # n
    PROVE  Leads(n, Midst(tokens, token, open, Mark(how)), Escaped(how, c),
                 Midst(tokens, Append(token, c), TRUE, Mark(how)))
<1> DEFINE long == Append(token, c)
<1>1. \A t, o, q : Len(Midst(tokens, t, o, q).tokens) # n /\ Len(Behind(tokens, t, q).tokens) # n
  BY DEF Midst, Behind
<1>2. {Single, Double, Backslash} \subseteq Character
  BY Signs
<1>9. long \in Word
  BY DEF Word
<1> HIDE DEF long
<1>3. ASSUME NEW quote \in {"", Double}, NEW o \in BOOLEAN
      PROVE  Leads(n, Midst(tokens, token, o, quote), <<Backslash, c>>, Midst(tokens, long, TRUE, quote))
  <2>1. Feed(Midst(tokens, token, o, quote), Backslash) = Behind(tokens, token, quote)
    BY FeedBackslash
  <2>2. Feed(Behind(tokens, token, quote), c) = Midst(tokens, long, TRUE, quote)
    BY FeedBehind DEF long
  <2>3. <<Backslash>> \in Word /\ Leads(n, Midst(tokens, token, o, quote), <<Backslash>>, Behind(tokens, token, quote))
    BY <1>1, <1>2, <2>1, LeadsOn
  <2>4. <<c>> \in Word /\ Leads(n, Behind(tokens, token, quote), <<c>>, Midst(tokens, long, TRUE, quote))
    BY <1>1, <2>2, LeadsOn
  <2>5. Leads(n, Midst(tokens, token, o, quote), <<Backslash>> \o <<c>>, Midst(tokens, long, TRUE, quote))
    BY <2>3, <2>4, LeadsThen
  <2>6. <<Backslash, c>> = <<Backslash>> \o <<c>>
    BY OneAndOne, Zenon
  <2> QED
    BY <2>5, <2>6
<1>4. ASSUME c = Single
      PROVE  Leads(n, Midst(tokens, token, open, Single), <<Single, Backslash, Single, Single>>,
                   Midst(tokens, long, TRUE, Single))
  <2>1. Feed(Midst(tokens, token, open, Single), Single) = Midst(tokens, token, open, "")
    BY FeedClosing
  <2>2. Feed(Midst(tokens, long, TRUE, ""), Single) = Midst(tokens, long, TRUE, Single)
    BY <1>9, FeedOpening
  <2>3. <<Single>> \in Word /\ Leads(n, Midst(tokens, token, open, Single), <<Single>>, Midst(tokens, token, open, ""))
    BY <1>1, <1>2, <2>1, LeadsOn
  <2>4. Leads(n, Midst(tokens, token, open, ""), <<Backslash, Single>>, Midst(tokens, long, TRUE, ""))
    BY <1>3, <1>4
  <2>5. Leads(n, Midst(tokens, long, TRUE, ""), <<Single>>, Midst(tokens, long, TRUE, Single))
    BY <1>1, <1>2, <2>2, LeadsOn
  <2>6. <<Backslash, Single>> \in Word
    BY <1>2 DEF Word
  <2>7. /\ <<Single>> \o <<Backslash, Single>> \in Word
        /\ Leads(n, Midst(tokens, token, open, Single), <<Single>> \o <<Backslash, Single>>, Midst(tokens, long, TRUE, ""))
    BY <2>3, <2>4, <2>6, LeadsThen
  <2>8. Leads(n, Midst(tokens, token, open, Single), (<<Single>> \o <<Backslash, Single>>) \o <<Single>>,
              Midst(tokens, long, TRUE, Single))
    BY <2>3, <2>5, <2>7, LeadsThen
  <2>9. <<Single, Backslash, Single, Single>> = (<<Single>> \o <<Backslash, Single>>) \o <<Single>>
    <3>1. <<Single>> \o <<Backslash, Single>> = <<Single, Backslash, Single>>
      BY OneAndTwo, Zenon
    <3>2. <<Single, Backslash, Single>> \o <<Single>> = <<Single, Backslash, Single, Single>>
      BY ThreeAndOne, Zenon
    <3> QED
      BY <3>1, <3>2, Zenon
  <2> QED
    BY <2>8, <2>9
<1>5. ASSUME NEW quote \in {Single, Double}, c # quote, quote = Single \/ c # Backslash
      PROVE  Leads(n, Midst(tokens, token, open, quote), <<c>>, Midst(tokens, long, TRUE, quote))
  <2>1. Feed(Midst(tokens, token, open, quote), c) = Midst(tokens, long, TRUE, quote)
    BY <1>5, FeedQuoted DEF long
  <2> QED
    BY <1>1, <2>1, LeadsOn
<1>6. CASE how = "single"
  <2>1. Mark(how) = Single
    BY <1>6 DEF Mark
  <2>2. CASE c = Single
    <3>1. Escaped(how, c) = <<Single, Backslash, Single, Single>>
      BY <1>6, <2>2 DEF Escaped
    <3> QED
      BY <1>4, <2>1, <2>2, <3>1 DEF long
  <2>3. CASE c # Single
    <3>1. Escaped(how, c) = <<c>>
      BY <1>6, <2>3 DEF Escaped
    <3> QED
      BY <1>5, <2>1, <2>3, <3>1 DEF long
  <2> QED
    BY <2>2, <2>3
<1>7. CASE how = "double"
  <2>1. Mark(how) = Double
    BY <1>7 DEF Mark
  <2>2. CASE c \in {Double, Backslash}
    <3>1. Escaped(how, c) = <<Backslash, c>>
      BY <1>7, <2>2 DEF Escaped
    <3> QED
      BY <1>3, <2>1, <3>1 DEF long
  <2>3. CASE c \notin {Double, Backslash}
    <3>1. Escaped(how, c) = <<c>>
      BY <1>7, <2>3 DEF Escaped
    <3> QED
      BY <1>5, <2>1, <2>3, <3>1 DEF long
  <2> QED
    BY <2>2, <2>3
<1>8. CASE how = "backslash"
  <2>1. Mark(how) = "" /\ Escaped(how, c) = <<Backslash, c>>
    BY <1>8 DEF Mark, Escaped
  <2> QED
    BY <1>3, <2>1 DEF long
<1> QED
  BY <1>6, <1>7, <1>8 DEF Quotings

\* A token grows by the word that is read.
LEMMA Grows ==
    ASSUME NEW token \in Word, NEW word \in Word, NEW c \in Character
    PROVE  /\ token \o <<>> = token /\ token \o word \in Word
           /\ token \o Append(word, c) = Append(token \o word, c)
           /\ Append(word, c) \in Word /\ Append(word, c) # <<>>
<1>1. token \in Seq(Character) /\ word \in Seq(Character)
  BY DEF Word
<1>2. token \o Append(word, c) = Append(token \o word, c)
  BY <1>1, ConcatAppend
<1> QED
  BY <1>1, <1>2 DEF Word

LEMMA LeadsParts ==
    ASSUME NEW n, NEW how \in Quotings,
           NEW tokens \in Seq(Word), NEW token \in Word, NEW open \in BOOLEAN, Len(tokens) # n
    PROVE  \A word \in Word :
               /\ FlattenSeq(Parts(how, word)) \in Word
               /\ Leads(n, Midst(tokens, token, open, Mark(how)), FlattenSeq(Parts(how, word)),
                        Midst(tokens, token \o word, open \/ word # <<>>, Mark(how)))
<1> DEFINE Reached(word) == Midst(tokens, token \o word, open \/ word # <<>>, Mark(how))
           P == {word \in Word :
                    /\ FlattenSeq(Parts(how, word)) \in Word
                    /\ Leads(n, Midst(tokens, token, open, Mark(how)), FlattenSeq(Parts(how, word)), Reached(word))}
<1>1. <<>> \in P
  <2>1. Parts(how, <<>>) = <<>>
    BY DEF Parts
  <2>2. FlattenSeq(Parts(how, <<>>)) = <<>> /\ <<>> \in Word
    BY <2>1, FlattenEmpty DEF Word
  <2>3. Reached(<<>>) = Midst(tokens, token, open, Mark(how))
    <3>1. token \o <<>> = token
      BY DEF Word
    <3> QED
      BY <3>1
  <2> HIDE DEF Reached
  <2> QED
    BY <2>2, <2>3, LeadsNothing
<1>2. ASSUME NEW word \in Seq(Character), NEW c \in Character, word \in P PROVE Append(word, c) \in P
  <2> DEFINE open2 == open \/ word # <<>>
             longer == Append(word, c)
  <2>1. /\ word \in Word /\ token \o word \in Word /\ open2 \in BOOLEAN
        /\ token \o longer = Append(token \o word, c)
        /\ longer \in Word /\ longer # <<>>
    BY Grows, SMTT(30) DEF Word
  <2>2. Leads(n, Midst(tokens, token \o word, open2, Mark(how)), Escaped(how, c),
              Midst(tokens, Append(token \o word, c), TRUE, Mark(how)))
    <3> HIDE DEF open2
    <3> QED
      BY <2>1, LeadsEscaped
  <2>3. Reached(longer) = Midst(tokens, Append(token \o word, c), TRUE, Mark(how))
    <3> HIDE DEF longer
    <3> QED
      BY <2>1
  <2>4. FlattenSeq(Parts(how, longer)) = FlattenSeq(Parts(how, word)) \o Escaped(how, c)
    BY <2>1, PartsAppend
  <2>5. /\ FlattenSeq(Parts(how, word)) \in Word /\ Escaped(how, c) \in Word
        /\ Leads(n, Midst(tokens, token, open, Mark(how)), FlattenSeq(Parts(how, word)), Reached(word))
    BY <1>2, EscapedType
  <2> HIDE DEF longer
  <2>6. /\ FlattenSeq(Parts(how, word)) \o Escaped(how, c) \in Word
        /\ Leads(n, Midst(tokens, token, open, Mark(how)), FlattenSeq(Parts(how, word)) \o Escaped(how, c),
                 Midst(tokens, Append(token \o word, c), TRUE, Mark(how)))
    BY <2>2, <2>5, LeadsThen
  <2>7. longer \in P
    <3> HIDE DEF Reached
    <3> QED
      BY <2>1, <2>3, <2>4, <2>6
  <2> QED
    BY <2>7 DEF longer
<1>3. \A word \in Seq(Character) : word \in P
  <2> HIDE DEF P
  <2> QED
    BY <1>1, <1>2, SequenceInduction
<1> QED
  BY <1>3 DEF Word

\* A quoted word becomes the token.
LEMMA LeadsQuoted ==
    ASSUME NEW n, NEW how \in Quotings, NEW word \in Word, NEW tokens \in Seq(Word), Len(tokens) # n
    PROVE  /\ Quoted(how, word) \in Word
           /\ Leads(n, Midst(tokens, <<>>, FALSE, ""), Quoted(how, word), Midst(tokens, word, TRUE, ""))
<1> DEFINE body == FlattenSeq(Parts(how, word))
           start == Midst(tokens, <<>>, FALSE, "")
           done == Midst(tokens, word, TRUE, "")
<1>1. <<>> \in Word /\ <<>> \o word = word /\ {Single, Double} \subseteq Character
  BY Signs DEF Word
<1>2. \A t, o, q : Len(Midst(tokens, t, o, q).tokens) # n
  BY DEF Midst
<1>3. body \in Word
  BY <1>1, LeadsParts
<1>4. \A o \in BOOLEAN :
          Leads(n, Midst(tokens, <<>>, o, Mark(how)), body, Midst(tokens, word, o \/ word # <<>>, Mark(how)))
  <2> SUFFICES ASSUME NEW o \in BOOLEAN
               PROVE  Leads(n, Midst(tokens, <<>>, o, Mark(how)), body, Midst(tokens, word, o \/ word # <<>>, Mark(how)))
    OBVIOUS
  <2>1. Leads(n, Midst(tokens, <<>>, o, Mark(how)), body, Midst(tokens, <<>> \o word, o \/ word # <<>>, Mark(how)))
    BY <1>1, LeadsParts
  <2> QED
    BY <1>1, <2>1
<1>5. ASSUME NEW mark \in {Single, Double}, NEW inner \in Word, NEW w \in Word,
             Leads(n, Midst(tokens, <<>>, TRUE, mark), inner, Midst(tokens, w, TRUE, mark))
      PROVE  <<mark>> \o inner \o <<mark>> \in Word /\ Leads(n, start, <<mark>> \o inner \o <<mark>>, Midst(tokens, w, TRUE, ""))
  <2>1. mark \in Character
    BY <1>1
  <2>2. Feed(start, mark) = Midst(tokens, <<>>, TRUE, mark)
    BY <1>1, FeedOpening
  <2>3. Feed(Midst(tokens, w, TRUE, mark), mark) = Midst(tokens, w, TRUE, "")
    BY FeedClosing
  <2>4. <<mark>> \in Word /\ Leads(n, start, <<mark>>, Midst(tokens, <<>>, TRUE, mark))
    BY <1>2, <2>1, <2>2, LeadsOn
  <2>5. Leads(n, Midst(tokens, w, TRUE, mark), <<mark>>, Midst(tokens, w, TRUE, ""))
    BY <1>2, <2>1, <2>3, LeadsOn
  <2> HIDE DEF start
  <2>6. <<mark>> \o inner \in Word /\ Leads(n, start, <<mark>> \o inner, Midst(tokens, w, TRUE, mark))
    BY <1>5, <2>4, LeadsThen
  <2> QED
    BY <2>4, <2>5, <2>6, LeadsThen
<1>6. Quoted(how, word) =
          CASE how = "single" \/ (how = "backslash" /\ word = <<>>) -> <<Single>> \o body \o <<Single>>
            [] how = "double" -> <<Double>> \o body \o <<Double>>
            [] how = "backslash" /\ word # <<>> -> <<>> \o body \o <<>>
  BY DEF Quoted, Parts, Quotings
<1>7. CASE how \in {"single", "double"}
  <2>1. Mark(how) \in {Single, Double} /\ Quoted(how, word) = <<Mark(how)>> \o body \o <<Mark(how)>>
    BY <1>6, <1>7 DEF Mark
  <2>2. Leads(n, Midst(tokens, <<>>, TRUE, Mark(how)), body, Midst(tokens, word, TRUE, Mark(how)))
    BY <1>4
  <2> HIDE DEF body, start
  <2>3. /\ <<Mark(how)>> \o body \o <<Mark(how)>> \in Word
        /\ Leads(n, start, <<Mark(how)>> \o body \o <<Mark(how)>>, Midst(tokens, word, TRUE, ""))
    BY <1>3, <1>5, <2>1, <2>2
  <2> QED
    BY <2>1, <2>3 DEF start
<1>8. CASE how = "backslash" /\ word = <<>>
  <2>1. body = <<>>
    BY <1>8, FlattenEmpty DEF Parts
  <2>2. Quoted(how, word) = <<Single>> \o <<>> \o <<Single>>
    BY <1>6, <1>8, <2>1
  <2>3. Leads(n, Midst(tokens, <<>>, TRUE, Single), <<>>, Midst(tokens, <<>>, TRUE, Single))
    BY LeadsNothing
  <2>4. /\ <<Single>> \o <<>> \o <<Single>> \in Word
        /\ Leads(n, start, <<Single>> \o <<>> \o <<Single>>, Midst(tokens, <<>>, TRUE, ""))
    BY <1>1, <1>5, <2>3
  <2> QED
    BY <1>8, <2>2, <2>4
<1>9. CASE how = "backslash" /\ word # <<>>
  <2>1. <<>> \o body \o <<>> = body
    BY <1>3 DEF Word
  <2>2. Quoted(how, word) = body
    BY <1>6, <1>9, <2>1
  <2>3. Leads(n, Midst(tokens, <<>>, FALSE, ""), body, Midst(tokens, word, TRUE, ""))
    <3>1. Mark(how) = "" /\ (FALSE \/ word # <<>>) = TRUE
      BY <1>9 DEF Mark
    <3> QED
      BY <1>4, <3>1
  <2> QED
    BY <1>3, <2>2, <2>3
<1> QED
  BY <1>7, <1>8, <1>9 DEF Quotings

-----------------------------------------------------------------------------
(* Words with blanks between them                                          *)

Pieces(words) == [i \in DOMAIN words |-> IF i = 1 THEN words[i] ELSE <<Space>> \o words[i]]

LEMMA PiecesType ==
    ASSUME NEW words \in Seq(Word)
    PROVE  /\ Pieces(words) \in Seq(Word) /\ Len(Pieces(words)) = Len(words)
           /\ \A i \in 1 .. Len(words) : Pieces(words)[i] = IF i = 1 THEN words[i] ELSE <<Space>> \o words[i]
<1>1. DOMAIN words = 1 .. Len(words) /\ Len(words) \in Nat /\ \A i \in 1 .. Len(words) : words[i] \in Word
  OBVIOUS
<1>2. \A word \in Word : <<Space>> \o word \in Word
  BY Signs DEF Word
<1>3. \A i \in 1 .. Len(words) : (IF i = 1 THEN words[i] ELSE <<Space>> \o words[i]) \in Word
  BY <1>1, <1>2
<1>4. [i \in 1 .. Len(words) |-> IF i = 1 THEN words[i] ELSE <<Space>> \o words[i]] \in Seq(Word)
  BY <1>1, <1>3, IsASeq
<1> QED
  BY <1>1, <1>4 DEF Pieces

LEMMA JoinType == ASSUME NEW words \in Seq(Word) PROVE JoinWords(words) \in Word
BY PiecesType, FlattenType DEF JoinWords, Pieces, Word

LEMMA JoinAppend ==
    ASSUME NEW words \in Seq(Word), NEW word \in Word
    PROVE  JoinWords(Append(words, word)) =
               IF words = <<>> THEN word ELSE JoinWords(words) \o (<<Space>> \o word)
<1> DEFINE longer == Append(words, word)
<1>1. /\ longer \in Seq(Word) /\ Len(longer) = Len(words) + 1 /\ longer[Len(words) + 1] = word
      /\ Len(words) \in Nat /\ Len(longer) \in 1 .. Len(longer)
      /\ \A i \in 1 .. Len(words) : longer[i] = words[i] /\ i \in 1 .. Len(longer)
  OBVIOUS
<1> HIDE DEF longer
<1>2. /\ Pieces(longer) \in Seq(Word) /\ Len(Pieces(longer)) = Len(words) + 1
      /\ \A i \in 1 .. Len(longer) : Pieces(longer)[i] = IF i = 1 THEN longer[i] ELSE <<Space>> \o longer[i]
  BY <1>1, PiecesType
<1>3. /\ Pieces(words) \in Seq(Word) /\ Len(Pieces(words)) = Len(words)
      /\ \A i \in 1 .. Len(words) : Pieces(words)[i] = IF i = 1 THEN words[i] ELSE <<Space>> \o words[i]
  BY PiecesType
<1>4. \A i \in 1 .. Len(Pieces(words)) : Pieces(longer)[i] = Pieces(words)[i]
  BY <1>1, <1>2, <1>3, ZenonT(40)
<1>5. FlattenSeq(Pieces(longer)) = FlattenSeq(Pieces(words)) \o Pieces(longer)[Len(Pieces(longer))]
  <2> DEFINE few == Pieces(words)
             many == Pieces(longer)
  <2>1. few \in Seq(Seq(Character)) /\ many \in Seq(Seq(Character))
    BY <1>2, <1>3 DEF Word
  <2>2. Len(many) = Len(few) + 1 /\ \A i \in 1 .. Len(few) : many[i] = few[i]
    BY <1>2, <1>3, <1>4
  <2> HIDE DEF few, many
  <2>3. FlattenSeq(many) = FlattenSeq(few) \o many[Len(many)]
    BY <2>1, <2>2, FlattenOneMore
  <2> QED
    BY <2>3 DEF few, many
<1>6. Pieces(longer)[Len(Pieces(longer))] = IF Len(words) = 0 THEN word ELSE <<Space>> \o word
  <2>1. Len(Pieces(longer)) = Len(longer) /\ Len(longer) \in 1 .. Len(longer) /\ longer[Len(longer)] = word
    BY <1>1, <1>2
  <2>2. Pieces(longer)[Len(longer)] = IF Len(longer) = 1 THEN longer[Len(longer)] ELSE <<Space>> \o longer[Len(longer)]
    BY <1>2, <2>1
  <2>3. Len(longer) = 1 <=> Len(words) = 0
    BY <1>1
  <2> QED
    BY <2>1, <2>2, <2>3
<1>7. CASE words = <<>>
  <2>1. Pieces(words) = <<>> /\ Len(words) = 0
    BY <1>7 DEF Pieces
  <2>2. FlattenSeq(Pieces(longer)) = <<>> \o word
    BY <1>5, <1>6, <2>1, FlattenEmpty
  <2>3. <<>> \o word = word
    BY DEF Word
  <2> QED
    BY <1>7, <2>2, <2>3 DEF JoinWords, Pieces, longer
<1>8. CASE words # <<>>
  <2>1. Len(words) # 0
    BY <1>8
  <2> QED
    <3>1. FlattenSeq(Pieces(longer)) = FlattenSeq(Pieces(words)) \o (<<Space>> \o word)
      BY <1>5, <1>6, <2>1
    <3>2. JoinWords(longer) = FlattenSeq(Pieces(longer)) /\ JoinWords(words) = FlattenSeq(Pieces(words))
      BY DEF JoinWords, Pieces
    <3> QED
      BY <1>8, <3>1, <3>2 DEF longer
<1> QED
  BY <1>7, <1>8

LEMMA WordsConcat ==
    ASSUME NEW u \in Word, NEW v \in Word, NEW w \in Word
    PROVE  (u \o v) \o w = u \o (v \o w)
<1>1. u \in Seq(Character) /\ v \in Seq(Character) /\ w \in Seq(Character)
  BY DEF Word
<1> QED
  BY <1>1, ConcatAssociative, SMTT(30)

\* Three words with blanks between them, joined from the left or from the right.
Spaced(u, w, x) ==
    (u \o (<<Space>> \o w)) \o (<<Space>> \o x) = u \o (<<Space>> \o (w \o (<<Space>> \o x)))

LEMMA SpacedWords == ASSUME NEW u \in Word, NEW w \in Word, NEW x \in Word PROVE Spaced(u, w, x)
<1> DEFINE Join(a, b) == a \o b
           blank == <<Space>>
<1>1. \A a, b \in Word : Join(a, b) \in Word
  BY DEF Word
<1>2. \A a, b, c \in Word : Join(Join(a, b), c) = Join(a, Join(b, c))
  BY WordsConcat, Zenon
<1>3. blank \in Word
  BY Signs DEF Word
<1>4. Join(Join(u, Join(blank, w)), Join(blank, x)) = Join(u, Join(blank, Join(w, Join(blank, x))))
  <2> HIDE DEF Join, blank
  <2>1. Join(blank, w) \in Word /\ Join(blank, x) \in Word
    BY <1>1, <1>3
  <2>2. Join(Join(u, Join(blank, w)), Join(blank, x)) = Join(u, Join(Join(blank, w), Join(blank, x)))
    BY <1>2, <2>1
  <2>3. Join(Join(blank, w), Join(blank, x)) = Join(blank, Join(w, Join(blank, x)))
    BY <1>2, <1>3, <2>1
  <2> QED
    BY <2>2, <2>3
<1> QED
  BY <1>4 DEF Spaced

\* The first n words, and what follows them.
LEMMA JoinSplits ==
    \A words \in Seq(Word) : \A n \in 1 .. Len(words) - 1 :
        \E rest \in Word : JoinWords(words) = JoinWords(SubSeq(words, 1, n)) \o (<<Space>> \o rest)
<1> DEFINE P == {words \in Seq(Word) : \A n \in 1 .. Len(words) - 1 :
                    \E rest \in Word : JoinWords(words) = JoinWords(SubSeq(words, 1, n)) \o (<<Space>> \o rest)}
<1>1. <<>> \in P
  OBVIOUS
<1>2. ASSUME NEW words \in Seq(Word), NEW word \in Word, words \in P PROVE Append(words, word) \in P
  <2> DEFINE longer == Append(words, word)
  <2>1. longer \in Seq(Word) /\ Len(longer) = Len(words) + 1 /\ Len(words) \in Nat
    OBVIOUS
  <2>2. ASSUME NEW n \in 1 .. Len(longer) - 1
        PROVE  \E rest \in Word : JoinWords(longer) = JoinWords(SubSeq(longer, 1, n)) \o (<<Space>> \o rest)
    <3>1. n \in 1 .. Len(words) /\ words # <<>>
      BY <2>1
    <3>2. JoinWords(longer) = JoinWords(words) \o (<<Space>> \o word)
      BY <3>1, JoinAppend
    <3>3. SubSeq(longer, 1, n) = SubSeq(words, 1, n)
      <4>1. /\ SubSeq(words, 1, n) \in Seq(Word) /\ Len(SubSeq(words, 1, n)) = n
            /\ \A i \in 1 .. n : SubSeq(words, 1, n)[i] = words[i]
        BY <3>1
      <4>2. /\ SubSeq(longer, 1, n) \in Seq(Word) /\ Len(SubSeq(longer, 1, n)) = n
            /\ \A i \in 1 .. n : SubSeq(longer, 1, n)[i] = words[i]
        BY <3>1
      <4> QED
        BY <4>1, <4>2, SeqEqual
    <3>4. CASE n = Len(words)
      <4>1. SubSeq(words, 1, n) = words
        BY <3>4
      <4> QED
        BY <3>2, <3>3, <4>1
    <3>5. CASE n # Len(words)
      <4>1. n \in 1 .. Len(words) - 1
        BY <3>1, <3>5
      <4>2. PICK rest \in Word : JoinWords(words) = JoinWords(SubSeq(words, 1, n)) \o (<<Space>> \o rest)
        BY <1>2, <4>1
      <4> DEFINE first == JoinWords(SubSeq(words, 1, n))
                 all == rest \o (<<Space>> \o word)
      <4>3. first \in Word /\ <<Space>> \in Word /\ <<Space>> \o rest \in Word /\ <<Space>> \o word \in Word /\ all \in Word
        <5>1. SubSeq(words, 1, n) \in Seq(Word)
          BY <3>1
        <5>2. <<Space>> \in Word
          BY Signs DEF Word
        <5>3. first \in Word
          BY <5>1, JoinType
        <5> QED
          BY <5>2, <5>3 DEF Word
      <4>4. (first \o (<<Space>> \o rest)) \o (<<Space>> \o word) = first \o (<<Space>> \o all)
        <5>1. Spaced(first, rest, word)
          <6> HIDE DEF first
          <6> QED
            BY <4>3, SpacedWords
        <5> QED
          BY <5>1 DEF Spaced
      <4>6. JoinWords(longer) = first \o (<<Space>> \o all)
        BY <3>2, <4>2, <4>4
      <4> QED
        BY <3>3, <4>3, <4>6
    <3> QED
      BY <3>4, <3>5
  <2> HIDE DEF longer
  <2>3. longer \in P
    BY <2>1, <2>2
  <2> QED
    BY <2>3 DEF longer
<1>3. \A words \in Seq(Word) : words \in P
  <2> HIDE DEF P
  <2> QED
    BY <1>1, <1>2, SequenceInduction
<1> QED
  BY <1>3

LEMMA LeadsSpace ==
    ASSUME NEW n, NEW tokens \in Seq(Word), NEW token \in Word, Len(tokens) # n
    PROVE  <<Space>> \in Word /\ Leads(n, Midst(tokens, token, TRUE, ""), <<Space>>, Midst(Append(tokens, token), <<>>, FALSE, ""))
<1>1. Len(Midst(tokens, token, TRUE, "").tokens) # n
  BY DEF Midst
<1> QED
  BY <1>1, Signs, FeedSpace, LeadsOn

\* The text is read as the word, whatever was read before.
Reads(n, text, word) ==
    /\ text \in Word
    /\ \A tokens \in Seq(Word) :
           Len(tokens) # n => Leads(n, Midst(tokens, <<>>, FALSE, ""), text, Midst(tokens, word, TRUE, ""))

\* The first n words are read as they should, whatever follows them.
LEMMA SplitReads ==
    ASSUME NEW n \in Nat, n > 0, NEW texts \in Seq(Word), Len(texts) >= n, NEW words \in Seq(Word), Len(words) = n,
           \A i \in 1 .. n : Reads(n, texts[i], words[i])
    PROVE  Split(JoinWords(texts), n) = words
<1> DEFINE first(i) == JoinWords(SubSeq(texts, 1, i))
           after(i) == Midst(SubSeq(words, 1, i - 1), words[i], TRUE, "")
           S == {i \in 0 .. n : i = 0 \/ Leads(n, StartOfLine, first(i), after(i))}
<1>1. \A i \in 1 .. n : /\ texts[i] \in Word /\ words[i] \in Word
                        /\ SubSeq(texts, 1, i) \in Seq(Word) /\ SubSeq(words, 1, i) \in Seq(Word)
                        /\ SubSeq(words, 1, i - 1) \in Seq(Word) /\ Len(SubSeq(words, 1, i - 1)) = i - 1
  OBVIOUS
<1>2. StartOfLine = Midst(<<>>, <<>>, FALSE, "")
  BY DEF StartOfLine, Midst
<1>3. <<>> \in Seq(Word) /\ Len(<<>>) # n /\ <<>> \in Word
  BY DEF Word
<1>4. 0 \in S
  OBVIOUS
<1>5. ASSUME NEW i \in 0 .. n, i \in S /\ i < n PROVE i + 1 \in S
  <2> DEFINE text == texts[i + 1]
  <2>0. i < n /\ i \in 0 .. n
    <3> HIDE DEF S
    <3> QED
      BY <1>5
  <2>1. /\ i + 1 \in 1 .. n /\ i + 1 \in 0 .. n /\ i \in 0 .. Len(texts) - 1 /\ i \in 0 .. Len(words) - 1
        /\ text \in Word /\ Reads(n, text, words[i + 1]) /\ (i + 1) - 1 = i
    <3>1. i + 1 \in 1 .. n /\ i + 1 \in 0 .. n /\ i \in 0 .. Len(texts) - 1 /\ i \in 0 .. Len(words) - 1 /\ (i + 1) - 1 = i
      BY <2>0
    <3> QED
      BY <1>1, <3>1
  <2>2. /\ SubSeq(texts, 1, i) \in Seq(Word) /\ Len(SubSeq(texts, 1, i)) = i
        /\ SubSeq(texts, 1, i + 1) = Append(SubSeq(texts, 1, i), text)
    BY <2>1, LastAppended
  <2>3. first(i + 1) = IF SubSeq(texts, 1, i) = <<>> THEN text ELSE first(i) \o (<<Space>> \o text)
    <3> HIDE DEF text
    <3> QED
      BY <2>1, <2>2, JoinAppend
  <2>4. CASE i = 0
    <3>1. SubSeq(texts, 1, i) = <<>> /\ SubSeq(words, 1, i) = <<>>
      BY <2>4
    <3>2. first(i + 1) = text
      BY <2>3, <3>1
    <3>3. Leads(n, StartOfLine, text, Midst(<<>>, words[i + 1], TRUE, ""))
      BY <1>2, <1>3, <2>1 DEF Reads
    <3>4. after(i + 1) = Midst(<<>>, words[i + 1], TRUE, "")
      BY <2>1, <3>1
    <3> HIDE DEF after, first, text
    <3> QED
      BY <2>1, <3>2, <3>3, <3>4
  <2>5. CASE i # 0
    <3> DEFINE read == SubSeq(words, 1, i - 1)
    <3>1. i \in 1 .. n /\ SubSeq(texts, 1, i) # <<>>
      BY <2>2, <2>5
    <3>2. read \in Seq(Word) /\ Len(read) # n /\ words[i] \in Word /\ Leads(n, StartOfLine, first(i), Midst(read, words[i], TRUE, ""))
      <4>1. read \in Seq(Word) /\ Len(read) = i - 1 /\ words[i] \in Word
        BY <1>1, <3>1
      <4>2. i - 1 # n
        BY <3>1
      <4>3. Leads(n, StartOfLine, first(i), after(i))
        BY <1>5, <2>5
      <4> QED
        BY <4>1, <4>2, <4>3
    <3>3. SubSeq(words, 1, i) = Append(read, words[i]) /\ SubSeq(words, 1, i) \in Seq(Word) /\ Len(SubSeq(words, 1, i)) = i
      <4>1. i - 1 \in 0 .. Len(words) - 1 /\ (i - 1) + 1 = i
        BY <3>1
      <4>2. SubSeq(words, 1, (i - 1) + 1) = Append(SubSeq(words, 1, i - 1), words[(i - 1) + 1])
        BY <4>1, LastAppended
      <4> QED
        BY <3>1, <4>1, <4>2
    <3>4. <<Space>> \in Word /\ Leads(n, Midst(read, words[i], TRUE, ""), <<Space>>, Midst(SubSeq(words, 1, i), <<>>, FALSE, ""))
      <4> HIDE DEF read
      <4> QED
        BY <3>2, <3>3, LeadsSpace
    <3>5. Leads(n, Midst(SubSeq(words, 1, i), <<>>, FALSE, ""), text, after(i + 1))
      <4>1. i # n
        BY <2>0
      <4>2. Leads(n, Midst(SubSeq(words, 1, i), <<>>, FALSE, ""), text, Midst(SubSeq(words, 1, i), words[i + 1], TRUE, ""))
        <5> DEFINE soFar == SubSeq(words, 1, i)
        <5>1. soFar \in Seq(Word) /\ Len(soFar) # n
          BY <3>3, <4>1
        <5> HIDE DEF soFar, text
        <5>2. Leads(n, Midst(soFar, <<>>, FALSE, ""), text, Midst(soFar, words[i + 1], TRUE, ""))
          BY <2>1, <5>1 DEF Reads
        <5> QED
          BY <5>2 DEF soFar
      <4> QED
        BY <2>1, <4>2
    <3>6. first(i) \in Word
      BY <2>2, JoinType
    <3>7. first(i + 1) = first(i) \o (<<Space>> \o text)
      BY <2>3, <3>1
    <3> HIDE DEF first, after, text, read
    <3>8. <<Space>> \o text \in Word /\ Leads(n, Midst(read, words[i], TRUE, ""), <<Space>> \o text, after(i + 1))
      BY <2>1, <3>4, <3>5, LeadsThen
    <3>9. Leads(n, StartOfLine, first(i) \o (<<Space>> \o text), after(i + 1))
      BY <3>2, <3>6, <3>8, LeadsThen
    <3> QED
      BY <2>1, <3>7, <3>9
  <2> QED
    BY <2>4, <2>5
<1>6. Leads(n, StartOfLine, first(n), after(n))
  <2>1. n \in S
    <3>1. \A i \in 0 .. n : i \in S
      <4> HIDE DEF S
      <4> QED
        BY <1>4, <1>5, BoundedInduction
    <3> HIDE DEF S
    <3> QED
      BY <3>1
  <2>2. n # 0
    OBVIOUS
  <2> HIDE DEF first, after
  <2> QED
    BY <2>1, <2>2
<1>7. ASSUME NEW line \in Word, NEW st, Leads(n, StartOfLine, line, st) PROVE ReadLine(line, n) = st
  <2>1. <<>> \o line = line
    BY DEF Word
  <2> QED
    BY <1>3, <1>7, <2>1, ReadEmpty DEF Leads
<1>8. words = Append(SubSeq(words, 1, n - 1), words[n]) /\ n \in 1 .. n /\ n \in 1 .. Len(texts)
  <2>1. n - 1 \in 0 .. Len(words) - 1 /\ (n - 1) + 1 = n
    OBVIOUS
  <2>2. SubSeq(words, 1, (n - 1) + 1) = Append(SubSeq(words, 1, n - 1), words[(n - 1) + 1])
    BY <2>1, LastAppended
  <2>3. SubSeq(words, 1, n) = words
    OBVIOUS
  <2>4. n \in 1 .. n /\ n \in 1 .. Len(texts)
    OBVIOUS
  <2> QED
    BY <2>1, <2>2, <2>3, <2>4
<1>9. first(n) \in Word
  BY <1>1, <1>8, JoinType
<1>10. CASE Len(texts) = n
  <2>1. first(n) = JoinWords(texts)
    <3>1. SubSeq(texts, 1, n) = texts
      BY <1>10
    <3> QED
      BY <3>1
  <2>2. ReadLine(JoinWords(texts), n) = after(n)
    <3> HIDE DEF first, after
    <3> QED
      BY <1>6, <1>7, <1>9, <2>1
  <2> DEFINE most == SubSeq(words, 1, n - 1)
             done == Midst(most, words[n], TRUE, "")
  <2>3. Len(most) # n
    <3>1. Len(most) = n - 1
      BY <1>1, <1>8
    <3> QED
      BY <3>1
  <2>4. ReadLine(JoinWords(texts), n) = done
    BY <2>2
  <2> HIDE DEF most
  <2>5. done.tokens = most /\ done.token = words[n] /\ done.open /\ done.quote = "" /\ ~done.escaped
    BY DEF Midst
  <2> HIDE DEF done
  <2>6. EndOfLine(done) = Append(most, words[n])
    BY <2>5 DEF EndOfLine
  <2>7. Split(JoinWords(texts), n) = EndOfLine(done)
    BY <2>3, <2>4, <2>5 DEF Split
  <2> QED
    BY <1>8, <2>6, <2>7 DEF most
<1>11. CASE Len(texts) # n
  <2>1. n \in 1 .. Len(texts) - 1
    BY <1>11
  <2>2. PICK rest \in Word : JoinWords(texts) = first(n) \o (<<Space>> \o rest)
    BY <2>1, JoinSplits
  <2> DEFINE done == Midst(words, <<>>, FALSE, "")
  <2>3. <<Space>> \in Word /\ Leads(n, after(n), <<Space>>, done)
    <3> DEFINE most == SubSeq(words, 1, n - 1)
    <3>1. most \in Seq(Word) /\ Len(most) = n - 1 /\ words[n] \in Word
      BY <1>1, <1>8
    <3>2. Len(most) # n
      BY <3>1
    <3>3. words = Append(most, words[n])
      BY <1>8
    <3> HIDE DEF most
    <3>4. Leads(n, Midst(most, words[n], TRUE, ""), <<Space>>, Midst(Append(most, words[n]), <<>>, FALSE, "")) /\ <<Space>> \in Word
      BY <3>1, <3>2, LeadsSpace
    <3>5. after(n) = Midst(most, words[n], TRUE, "")
      BY DEF most
    <3>6. done = Midst(Append(most, words[n]), <<>>, FALSE, "")
      BY <3>3
    <3> QED
      BY <3>4, <3>5, <3>6
  <2>4. Len(done.tokens) = n
    BY DEF Midst
  <2>5. Leads(n, done, rest, done)
    <3> HIDE DEF done
    <3> QED
      BY <2>4, LeadsNowhere
  <2> HIDE DEF first, after, done
  <2>6. <<Space>> \o rest \in Word /\ Leads(n, after(n), <<Space>> \o rest, done)
    BY <2>3, <2>5, LeadsThen
  <2>7. first(n) \o (<<Space>> \o rest) \in Word /\ Leads(n, StartOfLine, first(n) \o (<<Space>> \o rest), done)
    BY <1>6, <1>9, <2>6, LeadsThen
  <2>8. ReadLine(JoinWords(texts), n) = done
    BY <1>7, <2>2, <2>7
  <2>9. done.tokens = words
    BY DEF done, Midst
  <2> QED
    BY <2>4, <2>8, <2>9 DEF Split
<1> QED
  BY <1>10, <1>11

LEMMA ReadsQuoted ==
    ASSUME NEW n \in Nat, n > 0, NEW how \in Quotings, NEW word \in Word
    PROVE  Reads(n, Quoted(how, word), word)
<1>1. <<>> \in Seq(Word) /\ Len(<<>>) # n
  OBVIOUS
<1>2. Quoted(how, word) \in Word
  BY <1>1, LeadsQuoted
<1>3. \A tokens \in Seq(Word) : Len(tokens) # n =>
          Leads(n, Midst(tokens, <<>>, FALSE, ""), Quoted(how, word), Midst(tokens, word, TRUE, ""))
  BY LeadsQuoted
<1> QED
  BY <1>2, <1>3 DEF Reads

\* A word of ordinary characters is read as it is.
Ordinary(word) == \A i \in DOMAIN word : word[i] \notin {Backslash, Single, Double, Space}

LEMMA LeadsOrdinary ==
    ASSUME NEW n, NEW tokens \in Seq(Word), Len(tokens) # n
    PROVE  \A word \in Word : Ordinary(word) =>
               Leads(n, Midst(tokens, <<>>, FALSE, ""), word, Midst(tokens, word, word # <<>>, ""))
<1> DEFINE start == Midst(tokens, <<>>, FALSE, "")
           done(word) == Midst(tokens, word, word # <<>>, "")
           P == {word \in Word : Ordinary(word) => Leads(n, start, word, done(word))}
<1>1. <<>> \in P
  <2>1. <<>> \in Word /\ (<<>> # <<>>) = FALSE
    BY DEF Word
  <2>2. done(<<>>) = start
    BY <2>1
  <2> HIDE DEF start, done
  <2>3. Leads(n, start, <<>>, done(<<>>))
    BY <2>2, LeadsNothing
  <2> QED
    BY <2>1, <2>3
<1>2. ASSUME NEW word \in Word, NEW c \in Character, word \in P PROVE Append(word, c) \in P
  <2> DEFINE longer == Append(word, c)
  <2>1. longer \in Word /\ longer = word \o <<c>> /\ longer # <<>> /\ <<c>> \in Word
    <3>1. longer \in Word /\ <<c>> \in Word /\ longer = word \o <<c>>
      BY DEF Word
    <3>2. Len(longer) # 0
      BY DEF Word
    <3>3. longer # <<>>
      <4> HIDE DEF longer
      <4> QED
        BY <3>2
    <3> QED
      BY <3>1, <3>3
  <2>2. ASSUME Ordinary(longer) PROVE Leads(n, start, longer, done(longer))
    <3>1. /\ Len(word) \in Nat /\ DOMAIN word = 1 .. Len(word) /\ DOMAIN longer = 1 .. Len(word) + 1
          /\ longer[Len(word) + 1] = c /\ \A i \in 1 .. Len(word) : longer[i] = word[i]
      BY DEF Word
    <3> HIDE DEF longer
    <3>2. Ordinary(word) /\ c \notin {Backslash, Single, Double, Space}
      BY <2>2, <3>1 DEF Ordinary
    <3>3. Leads(n, start, word, done(word))
      BY <1>2, <3>2
    <3>4. Leads(n, done(word), <<c>>, Midst(tokens, Append(word, c), TRUE, ""))
      <4> DEFINE open == word # <<>>
                 before == Midst(tokens, word, open, "")
                 next == Midst(tokens, Append(word, c), TRUE, "")
      <4>1. open \in BOOLEAN
        OBVIOUS
      <4>2. Feed(before, c) = next
        <5> HIDE DEF open
        <5> QED
          BY <3>2, <4>1, FeedOrdinary
      <4>3. Len(before.tokens) # n
        BY DEF Midst
      <4> HIDE DEF before, next
      <4>4. Leads(n, before, <<c>>, next)
        BY <4>2, <4>3, LeadsOn
      <4> QED
        BY <4>4 DEF before, next
    <3>5. done(longer) = Midst(tokens, Append(word, c), TRUE, "")
      <4>1. (longer # <<>>) = TRUE
        BY <2>1
      <4> QED
        BY <4>1 DEF longer
    <3> HIDE DEF start, done
    <3>6. Leads(n, done(word), <<c>>, done(longer))
      BY <3>4, <3>5
    <3>7. Leads(n, start, word \o <<c>>, done(longer))
      BY <2>1, <3>3, <3>6, LeadsThen
    <3> QED
      BY <2>1, <3>7
  <2> HIDE DEF longer, start, done
  <2>3. longer \in P
    BY <2>1, <2>2
  <2> QED
    BY <2>3 DEF longer
<1>3. \A word \in Seq(Character) : word \in P
  <2>1. \A s \in Seq(Character), e \in Character : s \in P => Append(s, e) \in P
    <3> HIDE DEF P
    <3> QED
      BY <1>2 DEF Word
  <2> HIDE DEF P
  <2> QED
    BY <1>1, <2>1, SequenceInduction
<1> QED
  BY <1>3 DEF Word

LEMMA ReadsOrdinary ==
    ASSUME NEW n, NEW word \in Word, Ordinary(word), word # <<>>
    PROVE  Reads(n, word, word)
<1>1. (word # <<>>) = TRUE
  OBVIOUS
<1>2. \A tokens \in Seq(Word) : Len(tokens) # n =>
          Leads(n, Midst(tokens, <<>>, FALSE, ""), word, Midst(tokens, word, word # <<>>, ""))
  BY LeadsOrdinary
<1> QED
  BY <1>1, <1>2 DEF Reads

-----------------------------------------------------------------------------
(* What is read back                                                       *)

LEMMA FirstWords ==
    ASSUME NEW words \in Seq(Word), NEW n \in Nat, n <= Len(words)
    PROVE  /\ SubSeq(words, 1, n) \in Seq(Word) /\ Len(SubSeq(words, 1, n)) = n
           /\ \A i \in 1 .. n : SubSeq(words, 1, n)[i] = words[i] /\ words[i] \in Word
OBVIOUS

\* Words quoted in any of the three ways come back as they were.
LEMMA QuotedWordsReadBack == ASSUME argv \in Seq(Word) PROVE SplitInvertsQuoting
<1> SUFFICES ASSUME NEW n \in 1 .. 2, NEW how \in [1 .. n -> Quotings], Len(argv) >= n
             PROVE  Split(JoinWords([i \in 1 .. n |-> Quoted(how[i], argv[i])]), n) = SubSeq(argv, 1, n)
  BY DEF SplitInvertsQuoting
<1> DEFINE texts == [i \in 1 .. n |-> Quoted(how[i], argv[i])]
           words == SubSeq(argv, 1, n)
<1>1. n \in Nat /\ n > 0 /\ n <= Len(argv)
  OBVIOUS
<1>2. words \in Seq(Word) /\ Len(words) = n /\ \A i \in 1 .. n : words[i] = argv[i] /\ argv[i] \in Word /\ how[i] \in Quotings
  BY <1>1, FirstWords
<1>3. \A i \in 1 .. n : Reads(n, Quoted(how[i], argv[i]), argv[i])
  BY <1>1, <1>2, ReadsQuoted
<1>4. \A i \in 1 .. n : Quoted(how[i], argv[i]) \in Word
  BY <1>3 DEF Reads
<1>5. texts \in Seq(Word) /\ Len(texts) = n /\ \A i \in 1 .. n : texts[i] = Quoted(how[i], argv[i])
  BY <1>1, <1>4, IsASeq
<1>6. \A i \in 1 .. n : Reads(n, texts[i], words[i])
  BY <1>2, <1>3, <1>5
<1> HIDE DEF texts, words
<1>7. Split(JoinWords(texts), n) = words
  BY <1>1, <1>2, <1>5, <1>6, SplitReads
<1> QED
  BY <1>7 DEF texts, words

\* The first words come back whatever follows them.
LEMMA FirstWordsReadBack == ASSUME argv \in Seq(Word) PROVE LaterTextIgnored
<1> SUFFICES ASSUME NEW n \in 1 .. 2, Len(argv) > n
             PROVE  Split(JoinWords([i \in 1 .. Len(argv) |-> IF i <= n THEN Quoted("single", argv[i]) ELSE argv[i]]), n)
                        = SubSeq(argv, 1, n)
  BY DEF LaterTextIgnored
<1> DEFINE texts == [i \in 1 .. Len(argv) |-> IF i <= n THEN Quoted("single", argv[i]) ELSE argv[i]]
           words == SubSeq(argv, 1, n)
<1>1. n \in Nat /\ n > 0 /\ n <= Len(argv) /\ Len(argv) \in Nat
  OBVIOUS
<1>2. words \in Seq(Word) /\ Len(words) = n /\ \A i \in 1 .. n : words[i] = argv[i] /\ argv[i] \in Word
  BY <1>1, FirstWords
<1>3. "single" \in Quotings
  BY DEF Quotings
<1>4. \A i \in 1 .. n : Reads(n, Quoted("single", argv[i]), argv[i])
  BY <1>1, <1>2, <1>3, ReadsQuoted
<1>5. \A i \in 1 .. Len(argv) : (IF i <= n THEN Quoted("single", argv[i]) ELSE argv[i]) \in Word
  <2> SUFFICES ASSUME NEW i \in 1 .. Len(argv) PROVE (IF i <= n THEN Quoted("single", argv[i]) ELSE argv[i]) \in Word
    OBVIOUS
  <2>1. CASE i <= n
    <3>1. i \in 1 .. n
      BY <2>1
    <3> QED
      BY <2>1, <3>1, <1>4 DEF Reads
  <2>2. CASE ~(i <= n)
    BY <2>2
  <2> QED
    BY <2>1, <2>2
<1>6. texts \in Seq(Word) /\ Len(texts) = Len(argv)
  BY <1>1, <1>5, IsASeq
<1>7. \A i \in 1 .. n : texts[i] = Quoted("single", argv[i])
  <2>1. \A i \in 1 .. n : i \in 1 .. Len(argv) /\ i <= n
    BY <1>1
  <2> QED
    BY <2>1
<1>8. \A i \in 1 .. n : Reads(n, texts[i], words[i])
  BY <1>2, <1>4, <1>7
<1> HIDE DEF texts, words
<1>9. Split(JoinWords(texts), n) = words
  BY <1>1, <1>2, <1>6, <1>8, SplitReads
<1> QED
  BY <1>9 DEF texts, words

\* What the kernel and sudo wrote is read back word by word.
LEMMA EverythingReadBack == argv \in Seq(Word) => WordsReadBack
BY QuotedWordsReadBack, FirstWordsReadBack, ReadsTheArguments DEF WordsReadBack, CmdlineInvertsKernel

-----------------------------------------------------------------------------
(* The tool of a command run by sudo                                       *)

Directory == <<Slash, "l", Slash>>

LEMMA BasenameOfDirectory ==
    ASSUME NEW name \in Word, ~HasSlash(name), name \notin {<<>>, <<Dot>>, <<Dot, Dot>>}
    PROVE  /\ Directory \o name \in Word /\ Directory \o name # <<>>
           /\ Basename(Directory \o name) = name
           /\ Ordinary(name) => Ordinary(Directory \o name)
<1> DEFINE path == Directory \o name
<1>1. /\ Directory \in Word /\ Len(Directory) = 3
      /\ Directory[1] = Slash /\ Directory[2] = "l" /\ Directory[3] = Slash
  BY Signs DEF Directory, Word
<1>2. /\ path \in Word /\ Len(name) \in Nat /\ Len(path) = Len(name) + 3
      /\ DOMAIN path = 1 .. Len(path) /\ DOMAIN name = 1 .. Len(name)
      /\ path[1] = Slash /\ path[2] = "l" /\ path[3] = Slash
      /\ \A i \in 1 .. Len(name) : path[i + 3] = name[i]
  <2> HIDE DEF Directory
  <2>1. Directory \in Seq(Character) /\ name \in Seq(Character)
    BY <1>1 DEF Word
  <2>2. /\ path \in Seq(Character) /\ Len(path) = Len(Directory) + Len(name)
        /\ \A i \in 1 .. Len(Directory) + Len(name) :
               path[i] = IF i <= Len(Directory) THEN Directory[i] ELSE name[i - Len(Directory)]
    BY <2>1, ConcatProperties
  <2> HIDE DEF path
  <2>3. Len(name) \in Nat /\ Len(path) = Len(name) + 3 /\ DOMAIN path = 1 .. Len(path) /\ DOMAIN name = 1 .. Len(name)
    BY <1>1, <2>1, <2>2
  <2>4. \A i \in 1 .. Len(path) : path[i] = IF i <= 3 THEN Directory[i] ELSE name[i - 3]
    BY <1>1, <2>2, <2>3
  <2>5. path[1] = Slash /\ path[2] = "l" /\ path[3] = Slash
    <3>1. 1 \in 1 .. Len(path) /\ 2 \in 1 .. Len(path) /\ 3 \in 1 .. Len(path)
      BY <2>3
    <3> QED
      BY <1>1, <2>4, <3>1
  <2>6. ASSUME NEW i \in 1 .. Len(name) PROVE path[i + 3] = name[i]
    <3>1. i + 3 \in 1 .. Len(path) /\ ~(i + 3 <= 3) /\ (i + 3) - 3 = i
      BY <2>3
    <3> QED
      BY <2>4, <3>1
  <2> QED
    BY <2>2, <2>3, <2>5, <2>6 DEF Word
<1> HIDE DEF path
<1>3. \A i \in 1 .. Len(name) : name[i] # Slash
  BY <1>2 DEF HasSlash, Range
<1>4. \A i \in 1 .. Len(path) : i = 1 \/ i = 2 \/ i = 3 \/ (i - 3 \in 1 .. Len(name) /\ path[i] = name[i - 3])
  <2> SUFFICES ASSUME NEW i \in 1 .. Len(path), i # 1, i # 2, i # 3
               PROVE  i - 3 \in 1 .. Len(name) /\ path[i] = name[i - 3]
    OBVIOUS
  <2>1. i - 3 \in 1 .. Len(name) /\ (i - 3) + 3 = i
    BY <1>2
  <2> QED
    BY <1>2, <2>1
<1>5. Len(path) \in Letters(path)
  <2>1. Len(name) # 0
    BY <1>2
  <2>2. Len(path) \in 1 .. Len(path) /\ Len(name) \in 1 .. Len(name) /\ Len(path) > 1
    BY <1>2, <2>1
  <2>3. path[Len(path)] = name[Len(name)] /\ path[Len(path)] # Slash
    BY <1>2, <1>3, <2>2
  <2>4. ASSUME Alone(path, Len(path)) PROVE FALSE
    <3>1. path[Len(path)] = Dot /\ path[Len(path) - 1] = Slash
      BY <2>2, <2>4 DEF Alone
    <3>2. Len(name) = 1
      <4> SUFFICES ASSUME Len(name) # 1 PROVE FALSE
        OBVIOUS
      <4>1. Len(name) - 1 \in 1 .. Len(name) /\ (Len(name) - 1) + 3 = Len(path) - 1
        BY <1>2, <2>1
      <4>2. path[(Len(name) - 1) + 3] = name[Len(name) - 1]
        BY <1>2, <4>1
      <4> QED
        BY <1>3, <3>1, <4>1, <4>2
    <3>3. name \in Seq(Character) /\ name[1] = Dot
      BY <2>3, <3>1, <3>2 DEF Word
    <3>4. <<Dot>> \in Seq(Character) /\ Len(<<Dot>>) = 1 /\ <<Dot>>[1] = Dot
      BY Signs
    <3> DEFINE one == <<Dot>>
    <3>5. \A i \in 1 .. Len(name) : i = 1
      BY <3>2
    <3>6. name = one
      <4> HIDE DEF one
      <4>1. one \in Seq(Character) /\ Len(one) = 1 /\ one[1] = Dot
        BY <3>4 DEF one
      <4> QED
        BY <3>2, <3>3, <3>5, <4>1, SeqEqual
    <3> QED
      BY <3>6
  <2> QED
    BY <1>2, <2>2, <2>3, <2>4 DEF Letters
<1>6. LastLetter(path) = Len(path) /\ FirstLetter(path) = 4
  <2>1. /\ LastLetter(path) \in 1 .. Len(path) /\ Len(path) <= LastLetter(path)
        /\ FirstLetter(path) \in 1 .. LastLetter(path)
        /\ FirstLetter(path) > 1 => path[FirstLetter(path) - 1] = Slash
        /\ \A i \in FirstLetter(path) .. LastLetter(path) : path[i] # Slash
    BY <1>2, <1>5, LastNameType DEF Word
  <2>2. LastLetter(path) = Len(path) /\ Len(path) >= 3
    BY <1>2, <2>1
  <2>3. FirstLetter(path) > 3
    <3> SUFFICES ASSUME FirstLetter(path) <= 3 PROVE FALSE
      BY <2>1
    <3>1. 3 \in FirstLetter(path) .. LastLetter(path)
      BY <1>2, <2>1, <2>2
    <3> QED
      BY <1>2, <2>1, <3>1
  <2>4. FirstLetter(path) - 1 \in 1 .. Len(path)
    BY <2>1, <2>2, <2>3
  <2>5. FirstLetter(path) - 1 <= 3
    <3> SUFFICES ASSUME ~ (FirstLetter(path) - 1 <= 3) PROVE FALSE
      OBVIOUS
    <3>1. (FirstLetter(path) - 1) - 3 \in 1 .. Len(name) /\ path[FirstLetter(path) - 1] = name[(FirstLetter(path) - 1) - 3]
      BY <1>4, <2>1, <2>4
    <3> QED
      BY <1>3, <2>1, <2>3, <3>1
  <2> QED
    BY <2>1, <2>2, <2>3, <2>5
<1>7. LastName(path) = SubSeq(path, 4, Len(path))
  BY <1>6 DEF LastName
<1>8. SubSeq(path, 4, Len(path)) = name
  <2>1. /\ SubSeq(path, 4, Len(path)) \in Word /\ Len(SubSeq(path, 4, Len(path))) = Len(name)
        /\ \A i \in 1 .. Len(name) : SubSeq(path, 4, Len(path))[i] = path[3 + i] /\ 3 + i = i + 3
    BY <1>2 DEF Word
  <2>2. \A i \in 1 .. Len(name) : SubSeq(path, 4, Len(path))[i] = name[i]
    BY <1>2, <2>1
  <2> QED
    BY <2>1, <2>2, SeqEqual DEF Word
<1>9. Ordinary(name) => Ordinary(path)
  <2> SUFFICES ASSUME Ordinary(name), NEW i \in 1 .. Len(path)
               PROVE  path[i] \notin {Backslash, Single, Double, Space}
    BY <1>2 DEF Ordinary
  <2>1. CASE i \in {1, 2, 3}
    BY <1>2, <2>1 DEF Slash, Backslash, Single, Double, Space
  <2>2. CASE i \notin {1, 2, 3}
    <3>1. i - 3 \in DOMAIN name /\ path[i] = name[i - 3]
      BY <1>2, <1>4, <2>2
    <3> QED
      BY <3>1 DEF Ordinary
  <2> QED
    BY <2>1, <2>2
<1>10. path # <<>>
  <2>1. Len(path) # 0
    BY <1>2
  <2> QED
    BY <2>1
<1>11. FileName(path) = name
  BY <1>5, <1>7, <1>8, FileNameIs
<1> QED
  BY <1>2, <1>9, <1>10, <1>11 DEF path, Basename

LEMMA PlainIsOrdinary ==
    ASSUME NEW word \in Word, Plain(word) PROVE word # <<>> /\ Ordinary(word)
BY DEF Plain, Ordinary, Range

\* The name of a file is made of the characters of its path.
LEMMA FileNameOrdinary ==
    ASSUME NEW path \in Word, Ordinary(path) PROVE Ordinary(FileName(path))
<1> DEFINE C == Character \ {Backslash, Single, Double, Space}
<1>1. /\ Len(path) \in Nat /\ DOMAIN path = 1 .. Len(path)
      /\ \A i \in 1 .. Len(path) : path[i] \in C
  BY DEF Word, Ordinary
<1>2. path = [i \in 1 .. Len(path) |-> path[i]]
  BY <1>1 DEF Word
<1>3. path \in Seq(C)
  <2> HIDE DEF C
  <2> QED
    BY <1>1, <1>2, IsASeq
<1>4. FileName(path) \in Seq(C)
  <2> HIDE DEF C
  <2> QED
    BY <1>3, FileNameType
<1>5. \A s \in Seq(C) : \A i \in DOMAIN s : s[i] \in C
  <2> HIDE DEF C
  <2> QED
    OBVIOUS
<1> QED
  BY <1>4, <1>5 DEF Ordinary

\* The words sudo writes are the path and the arguments behind the first.
LEMMA SudoWords ==
    ASSUME NEW path \in Word, NEW args \in Seq(Word), args # <<>>
    PROVE  /\ <<path>> \o Tail(args) \in Seq(Word) /\ Len(<<path>> \o Tail(args)) = Len(args)
           /\ Len(args) \in Nat /\ Len(args) > 0
           /\ (<<path>> \o Tail(args))[1] = path
           /\ Len(args) > 1 => (<<path>> \o Tail(args))[2] = args[2] /\ args[2] \in Word
<1> DEFINE one == <<path>>
           more == Tail(args)
<1>1. one \in Seq(Word) /\ Len(one) = 1 /\ one[1] = path
  OBVIOUS
<1>2. /\ Len(args) \in Nat /\ Len(args) > 0
      /\ more \in Seq(Word) /\ Len(more) = Len(args) - 1 /\ \A i \in 1 .. Len(more) : more[i] = args[i + 1]
  OBVIOUS
<1> HIDE DEF one, more
<1>3. /\ one \o more \in Seq(Word) /\ Len(one \o more) = Len(one) + Len(more)
      /\ \A i \in 1 .. Len(one) + Len(more) : (one \o more)[i] = IF i <= Len(one) THEN one[i] ELSE more[i - Len(one)]
  <2>1. one \in Seq(Word) /\ more \in Seq(Word)
    BY <1>1, <1>2
  <2> QED
    BY <2>1, ConcatProperties
<1>4. Len(one \o more) = Len(args)
  BY <1>1, <1>2, <1>3
<1>5. (one \o more)[1] = path
  <2>1. 1 \in 1 .. Len(one) + Len(more) /\ 1 <= Len(one)
    BY <1>1, <1>2
  <2> QED
    BY <1>1, <1>3, <2>1
<1>6. ASSUME Len(args) > 1 PROVE (one \o more)[2] = args[2] /\ args[2] \in Word
  <2>1. 2 \in 1 .. Len(one) + Len(more) /\ ~(2 <= Len(one)) /\ 2 - Len(one) = 1 /\ 1 \in 1 .. Len(more) /\ 1 + 1 = 2
    BY <1>1, <1>2, <1>6
  <2>2. (one \o more)[2] = more[1]
    BY <1>3, <2>1
  <2>3. more[1] = args[2]
    BY <1>2, <2>1
  <2>4. args[2] \in Word
    BY <1>6
  <2> QED
    BY <2>2, <2>3, <2>4
<1> QED
  BY <1>2, <1>3, <1>4, <1>5, <1>6 DEF one, more

\* The values that stand for no word are none.
LEMMA NoSuchWord ==
    ASSUME NEW word \in Word
    PROVE  word # Malformed /\ word # NoCommand /\ word # Unset
<1>1. \A i \in 1 .. Len(word) : word[i] \in Character
  BY DEF Word
<1>2. ASSUME NEW s, s \notin Character PROVE word # <<s>>
  <2> SUFFICES ASSUME word = <<s>> PROVE FALSE
    OBVIOUS
  <2>1. Len(word) = 1 /\ word[1] = s
    OBVIOUS
  <2>2. 1 \in 1 .. Len(word)
    BY <2>1
  <2>3. word[1] \in Character
    BY <1>1, <2>2
  <2> QED
    BY <1>2, <2>1, <2>3
<1>3. "malformed" \notin Character /\ "missing" \notin Character /\ "unset" \notin Character
  BY CharacterAssumption
<1> QED
  BY <1>2, <1>3 DEF Malformed, NoCommand, Unset

\* Ordinary words are read as they are, whatever follows them.
LEMMA OrdinaryWordsRead ==
    ASSUME NEW texts \in Seq(Word), NEW n \in Nat, n > 0, n <= Len(texts),
           \A i \in 1 .. n : texts[i] # <<>> /\ Ordinary(texts[i])
    PROVE  Split(JoinWords(texts), n) = SubSeq(texts, 1, n)
<1> DEFINE words == SubSeq(texts, 1, n)
<1>1. words \in Seq(Word) /\ Len(words) = n /\ \A i \in 1 .. n : words[i] = texts[i] /\ texts[i] \in Word
  BY FirstWords
<1> HIDE DEF words
<1>2. \A i \in 1 .. n : Reads(n, texts[i], words[i])
  BY <1>1, ReadsOrdinary
<1>3. Len(texts) >= n
  OBVIOUS
<1>4. Split(JoinWords(texts), n) = words
  BY <1>1, <1>2, <1>3, SplitReads
<1> QED
  BY <1>4 DEF words

LEMMA OneWordRead ==
    ASSUME NEW texts \in Seq(Word), Len(texts) > 0, texts[1] # <<>>, Ordinary(texts[1])
    PROVE  Split(JoinWords(texts), 1) = <<texts[1]>>
<1>1. SubSeq(texts, 1, 1) = <<texts[1]>>
  <2> DEFINE left == SubSeq(texts, 1, 1)
             right == <<texts[1]>>
  <2>1. left \in Seq(Word) /\ Len(left) = 1 /\ left[1] = texts[1]
    OBVIOUS
  <2>2. right \in Seq(Word) /\ Len(right) = 1 /\ right[1] = texts[1]
    OBVIOUS
  <2> HIDE DEF left, right
  <2>3. \A i \in 1 .. Len(left) : left[i] = right[i]
    <3>1. \A i \in 1 .. Len(left) : i = 1
      BY <2>1
    <3> QED
      BY <2>1, <2>2, <3>1
  <2>4. left = right
    BY <2>1, <2>2, <2>3, SeqEqual
  <2> QED
    BY <2>4 DEF left, right
<1>2. 1 <= Len(texts) /\ \A i \in 1 .. 1 : texts[i] # <<>> /\ Ordinary(texts[i])
  <2>1. \A i \in 1 .. 1 : i = 1
    OBVIOUS
  <2> QED
    BY <2>1
<1>3. Split(JoinWords(texts), 1) = SubSeq(texts, 1, 1)
  <2>1. ASSUME NEW n \in Nat, n = 1 PROVE Split(JoinWords(texts), n) = SubSeq(texts, 1, n)
    <3>1. n > 0 /\ n <= Len(texts) /\ \A i \in 1 .. n : texts[i] # <<>> /\ Ordinary(texts[i])
      BY <1>2, <2>1
    <3> QED
      BY <3>1, OrdinaryWordsRead
  <2> QED
    BY <2>1
<1> QED
  BY <1>1, <1>3

LEMMA TwoWordsRead ==
    ASSUME NEW texts \in Seq(Word), Len(texts) > 1, texts[1] # <<>>, Ordinary(texts[1]),
           texts[2] # <<>>, Ordinary(texts[2])
    PROVE  Split(JoinWords(texts), 2) = <<texts[1], texts[2]>>
<1>1. SubSeq(texts, 1, 2) = <<texts[1], texts[2]>>
  <2> DEFINE left == SubSeq(texts, 1, 2)
             right == <<texts[1], texts[2]>>
  <2>1. left \in Seq(Word) /\ Len(left) = 2 /\ left[1] = texts[1] /\ left[2] = texts[2]
    OBVIOUS
  <2>2. right \in Seq(Word) /\ Len(right) = 2 /\ right[1] = texts[1] /\ right[2] = texts[2]
    OBVIOUS
  <2> HIDE DEF left, right
  <2>3. \A i \in 1 .. Len(left) : left[i] = right[i]
    <3>1. \A i \in 1 .. Len(left) : i = 1 \/ i = 2
      BY <2>1
    <3> QED
      BY <2>1, <2>2, <3>1
  <2>4. left = right
    BY <2>1, <2>2, <2>3, SeqEqual
  <2> QED
    BY <2>4 DEF left, right
<1>2. 2 <= Len(texts) /\ \A i \in 1 .. 2 : texts[i] # <<>> /\ Ordinary(texts[i])
  <2>1. \A i \in 1 .. 2 : i = 1 \/ i = 2
    OBVIOUS
  <2> QED
    BY <2>1
<1>3. Split(JoinWords(texts), 2) = SubSeq(texts, 1, 2)
  <2>1. ASSUME NEW n \in Nat, n = 2 PROVE Split(JoinWords(texts), n) = SubSeq(texts, 1, n)
    <3>1. n > 0 /\ n <= Len(texts) /\ \A i \in 1 .. n : texts[i] # <<>> /\ Ordinary(texts[i])
      BY <1>2, <2>1
    <3> QED
      BY <3>1, OrdinaryWordsRead
  <2> QED
    BY <2>1
<1> QED
  BY <1>1, <1>3

\* What is made of the arguments and the line sudo wrote for them.
LEMMA SudoRunParsed ==
    ASSUME NEW args \in Seq(Word), args # <<>>, Plain(args[1]), FileName(args[1]) # <<>>,
           IsWrapper(args[1]) => Len(args) > 1 /\ Plain(args[2])
    PROVE  ParseInvocation(args, SudoLine(Directory \o FileName(args[1]), args)) =
               Invoked(Basename(NamedByArgv(args).token), NamedByArgv(args).args)
<1> DEFINE name == FileName(args[1])
           path == Directory \o name
           texts == <<path>> \o Tail(args)
           line == JoinWords(texts)
           named == NamedByArgv(args)
<1>1. args[1] \in Word
  BY SudoWords
<1>2. /\ name \in Word /\ ~HasSlash(name) /\ Ordinary(name) /\ Basename(args[1]) = name
      /\ name \notin {<<>>, <<Dot>>, <<Dot, Dot>>}
  <2>1. name \in Word /\ ~HasSlash(name) /\ name # <<Dot>> /\ name # <<Dot, Dot>>
    BY <1>1, FileNameType DEF Word
  <2>2. Ordinary(name)
    BY <1>1, PlainIsOrdinary, FileNameOrdinary
  <2> QED
    BY <2>1, <2>2 DEF Basename
<1> HIDE DEF name
<1>3. path \in Word /\ path # <<>> /\ Basename(path) = name /\ Ordinary(path)
  BY <1>2, BasenameOfDirectory
<1> HIDE DEF path
<1>4. /\ texts \in Seq(Word) /\ Len(texts) = Len(args) /\ Len(args) \in Nat /\ Len(args) > 0 /\ texts[1] = path
      /\ Len(args) > 1 => texts[2] = args[2] /\ args[2] \in Word
  BY <1>3, SudoWords
<1> HIDE DEF texts
<1>5. Split(line, 1) = <<path>>
  <2>2. Split(line, 1) = <<texts[1]>>
    BY <1>3, <1>4, OneWordRead
  <2> QED
    BY <1>4, <2>2
<1>6. line \in Word
  BY <1>4, JoinType
<1> HIDE DEF line
<1>7. line # Unset
  BY <1>6, NoSuchWord
<1>8. <<path>> # Broken /\ <<path>> # <<>> /\ <<path>>[1] = path
  BY <1>3, NoSuchWord DEF Broken
<1>9. IsWrapper(path) <=> IsWrapper(args[1])
  BY <1>2, <1>3 DEF IsWrapper
<1>10. CASE ~IsWrapper(args[1])
  <2>1. DelegatedToken(line) = path
    BY <1>5, <1>8, <1>9, <1>10 DEF DelegatedToken
  <2>2. named.token = args[1] /\ Basename(named.token) = name
    BY <1>2, <1>10 DEF NamedByArgv
  <2> HIDE DEF named
  <2>3. path # Malformed /\ path \notin {NoCommand, <<>>}
    BY <1>3, NoSuchWord
  <2>4. ParseInvocation(args, line) = Invoked(name, named.args)
    BY <1>3, <1>7, <2>1, <2>2, <2>3 DEF ParseInvocation, named
  <2> QED
    BY <2>2, <2>4 DEF named, line, texts, path, name, SudoLine
<1>11. CASE IsWrapper(args[1])
  <2>1. Len(args) > 1 /\ Len(texts) > 1 /\ args[2] \in Word /\ texts[2] = args[2] /\ args[2] # <<>> /\ Ordinary(args[2])
    BY <1>4, <1>11, PlainIsOrdinary
  <2>2. Split(line, 2) = <<path, args[2]>>
    <3>1. Split(line, 2) = <<texts[1], texts[2]>>
      BY <1>3, <1>4, <2>1, TwoWordsRead DEF line
    <3> QED
      BY <1>4, <2>1, <3>1
  <2>3. <<path, args[2]>> # Broken /\ Len(<<path, args[2]>>) = 2 /\ <<path, args[2]>>[2] = args[2]
    BY DEF Broken
  <2>4. DelegatedToken(line) = args[2]
    <3>1. /\ Split(line, 1) # Broken /\ Split(line, 1) # <<>> /\ IsWrapper(Split(line, 1)[1])
          /\ Split(line, 2) # Broken /\ ~(Len(Split(line, 2)) < 2) /\ Split(line, 2)[2] = args[2]
      <4>1. IsWrapper(path)
        BY <1>9, <1>11
      <4>2. Split(line, 1) # Broken /\ Split(line, 1) # <<>> /\ Split(line, 1)[1] = path
        BY <1>5, <1>8
      <4>3. Split(line, 2) # Broken /\ ~(Len(Split(line, 2)) < 2) /\ Split(line, 2)[2] = args[2]
        BY <2>2, <2>3
      <4> QED
        BY <4>1, <4>2, <4>3
    <3> QED
      BY <3>1 DEF DelegatedToken
  <2>5. named.token = args[2]
    BY <1>11, <2>1 DEF NamedByArgv
  <2> HIDE DEF named
  <2>6. args[2] # Malformed /\ args[2] \notin {NoCommand, <<>>}
    BY <2>1, NoSuchWord
  <2>7. ParseInvocation(args, line) = Invoked(Basename(args[2]), named.args)
    BY <1>7, <2>4, <2>5, <2>6 DEF ParseInvocation, named
  <2> QED
    BY <2>5, <2>7 DEF named, line, texts, path, name, SudoLine
<1> QED
  BY <1>10, <1>11

-----------------------------------------------------------------------------
(* The story of a run                                                      *)

Sinks == {"syslog", "stdout", "none"}
Ev(id, file, to) == [id |-> id, hash |-> file, sink |-> to]

-----------------------------------------------------------------------------
(* Types                                                                   *)

\* There is no subscriber before the transaction id is complete.
IdFirst ==
    /\ pc \in {"kernel", "random", "logging"} => sink = "none"
    /\ pc \notin {"kernel", "random", "done"} => filled = IdBytes

TypeInv == TypeOK /\ IdFirst

LEMMA RealFileType ==
    ASSUME TypeOK, NEW tool PROVE RealFile(tool) \in Files \cup {NoFile}
BY RealBinaryAssumption DEF TypeOK, RealFile

LEMMA AtType ==
    ASSUME TypeOK, NEW path PROVE At(path) \in Files \cup {NoFile}
BY DEF TypeOK, At

\* One more event keeps the type of the log.
LEMMA AppendType ==
    ASSUME TypeOK, NEW id \in Ids, NEW file \in Files \cup {NoFile}
    PROVE  Append(log, Event(id, file)) \in Seq([id : Ids, hash : Files \cup {NoFile}, sink : {"syslog", "stdout", "none"}])
<1>1. Event(id, file) \in [id : Ids, hash : Files \cup {NoFile}, sink : {"syslog", "stdout", "none"}]
  BY DEF TypeOK, Event
<1>. QED
  BY <1>1 DEF TypeOK

LEMMA TypeInit == Init => TypeInv
<1>. SUFFICES ASSUME Init PROVE TypeInv
  OBVIOUS
<1>1. disk \in [Paths -> Files \cup {NoFile}]
  BY DisksAssumption DEF Init
<1>2. log \in Seq([id : Ids, hash : Files \cup {NoFile}, sink : {"syslog", "stdout", "none"}])
  BY DEF Init
<1>3. changes \in 0 .. MaxChanges /\ filled \in 0 .. IdBytes
  BY MaxChangesAssumption DEF Init, IdBytes
<1>4. disturbed \in BOOLEAN
  BY DEF Init
<1>5. /\ pc \in Steps \cup {"done"} /\ exit \in Ends \cup {"running"}
      /\ exit = "running" <=> pc # "done"
      /\ sink \in {"none", "syslog", "stdout"}
      /\ sink # "none" => filled = IdBytes
      /\ {binary, hash, executed} \subseteq Files \cup {NoFile}
  BY DEF Init, Steps, Ends
<1>6. release \in Releases /\ logTo \in {"syslog", "stdout"}
  BY DEF Init
<1>7. IdFirst
  BY DEF Init, IdFirst
<1>. QED
  BY <1>1, <1>2, <1>3, <1>4, <1>5, <1>6, <1>7 DEF TypeInv, TypeOK

LEMMA TypeNext == TypeInv /\ [Next]_vars => TypeInv'
<1>. SUFFICES ASSUME TypeInv, [Next]_vars PROVE TypeInv'
  OBVIOUS
<1>. USE DEF TypeInv, IdFirst, Steps, Ends, Goto, Stop, Fault, NoFault, setting, result, others, invocation
<1>1. CASE CheckKernel
  BY <1>1 DEF CheckKernel, TypeOK
<1>2. CASE DrawBytes
  <2>1. filled' \in 0 .. IdBytes
    BY <1>2 DEF DrawBytes, TypeOK, IdBytes
  <2>. QED
    BY <1>2, <2>1 DEF DrawBytes, TypeOK, IdBytes
<1>3. CASE InitLoggingFallback
  BY <1>3 DEF InitLoggingFallback, Subscribe, TypeOK
<1>4. CASE LoadPolicy
  BY <1>4 DEF LoadPolicy, TypeOK
<1>5. CASE InitLogging
  BY <1>5 DEF InitLogging, Subscribe, TypeOK
<1>6. CASE ResolveIdentity
  BY <1>6 DEF ResolveIdentity, TypeOK
<1>7. CASE Parse
  <2>1. log' = log \/ log' = Append(log, Event("SEC-500", NoFile))
    BY <1>7 DEF Parse
  <2>2. log' \in Seq([id : Ids, hash : Files \cup {NoFile}, sink : {"syslog", "stdout", "none"}])
    BY <2>1, AppendType DEF Ids, TypeOK
  <2>. QED
    BY <1>7, <2>2 DEF Parse, TypeOK
<1>8. CASE Validate
  <2>1. log' = log \/ log' = Append(log, Event("SEC-403", NoFile))
    BY <1>8 DEF Validate, Deny
  <2>2. log' \in Seq([id : Ids, hash : Files \cup {NoFile}, sink : {"syslog", "stdout", "none"}])
    BY <2>1, AppendType DEF Ids, TypeOK
  <2>3. binary' \in Files \cup {NoFile}
    BY <1>8, RealFileType DEF Validate, Deny, TypeOK
  <2>. QED
    BY <1>8, <2>2, <2>3 DEF Validate, Deny, TypeOK
<1>9. CASE VerifyBinding
  BY <1>9 DEF VerifyBinding, TypeOK
<1>10. CASE RecordSpoofing
  <2>1. PICK seen \in {NoFile, At(DelegatedToken(sudoCommand))} : log' = Append(log, Event("SEC-500", seen))
    BY <1>10 DEF RecordSpoofing
  <2>2. log' \in Seq([id : Ids, hash : Files \cup {NoFile}, sink : {"syslog", "stdout", "none"}])
    BY <2>1, AppendType, AtType DEF Ids
  <2>. QED
    BY <1>10, <2>2 DEF RecordSpoofing, TypeOK
<1>11. CASE HashBinary
  BY <1>11 DEF HashBinary, TypeOK
<1>12. CASE Approve
  <2>1. log' \in Seq([id : Ids, hash : Files \cup {NoFile}, sink : {"syslog", "stdout", "none"}])
    BY <1>12, AppendType DEF Approve, Ids, TypeOK
  <2>. QED
    BY <1>12, <2>1 DEF Approve, TypeOK
<1>13. CASE CommandStarts
  BY <1>13 DEF CommandStarts, TypeOK
<1>14. CASE SupervisorReturns
  <2>1. log' = log \/ log' = Append(log, Event("SEC-503", hash))
    BY <1>14 DEF SupervisorReturns
  <2>2. log' \in Seq([id : Ids, hash : Files \cup {NoFile}, sink : {"syslog", "stdout", "none"}])
    BY <2>1, AppendType DEF Ids, TypeOK
  <2>. QED
    BY <1>14, <2>2 DEF SupervisorReturns, TypeOK
<1>15. CASE Replace
  <2>1. disk' \in [Paths -> Files \cup {NoFile}]
    BY <1>15 DEF Replace, TypeOK
  <2>2. changes' \in 0 .. MaxChanges
    BY <1>15, MaxChangesAssumption DEF Replace, TypeOK
  <2>. QED
    BY <1>15, <2>1, <2>2 DEF Replace, TypeOK
<1>16. CASE Kill
  BY <1>16 DEF Kill, TypeOK
<1>17. CASE UNCHANGED vars
  BY <1>17 DEF vars, TypeOK
<1>. QED
  BY <1>1, <1>2, <1>3, <1>4, <1>5, <1>6, <1>7, <1>8, <1>9, <1>10, <1>11, <1>12, <1>13, <1>14, <1>15, <1>16, <1>17
  DEF Next, Main

(* The variables of main keep their types, whatever is replaced on the disk. *)
THEOREM TypeOKTheorem == Spec => []TypeOK
<1>1. TypeInv => TypeOK
  BY DEF TypeInv
<1>. QED
  BY <1>1, TypeInit, TypeNext, PTL DEF Spec

-----------------------------------------------------------------------------
(* The story of one invocation                                             *)

\* What the log holds and what was executed at each step of main.
Refused ==
    /\ executed = NoFile /\ exit \notin {"status", "failed"}
    /\ \/ log = <<>>
       \/ \E id \in {"SEC-403", "SEC-500"}, file \in Files \cup {NoFile}, to \in Sinks : log = <<Ev(id, file, to)>>

Ran ==
    /\ binary \in Files /\ executed \in {NoFile, binary}
    /\ \E to \in Sinks :
          \/ log = <<Ev("SEC-101", binary, to)>> /\ exit # "failed"
          \/ log = <<Ev("SEC-101", binary, to), Ev("SEC-503", binary, to)>> /\ exit = "failed"

StoryInv ==
    /\ pc \notin {"supervise", "done"} => log = <<>> /\ executed = NoFile
    /\ pc \in {"bind", "spoofed", "hash", "approve", "supervise"} => binary \in Files
    /\ pc \in {"approve", "supervise"} => hash = binary
    /\ pc = "supervise" =>
          /\ executed \in {NoFile, binary}
          /\ \E to \in Sinks : to = sink /\ log = <<Ev("SEC-101", binary, to)>>
    /\ pc = "done" => Refused \/ Ran

LEMMA StoryInit == Init => StoryInv
BY DEF Init, StoryInv

\* Most steps only move on, or end the run with nothing recorded.
LEMMA StoryMovesOn ==
    ASSUME TypeInv, StoryInv, pc \notin {"supervise", "done"}, UNCHANGED <<log, executed>>,
           \/ pc' \notin {"bind", "spoofed", "hash", "approve", "supervise", "done"}
           \/ pc' = "done" /\ exit' \notin {"status", "failed"}
    PROVE  StoryInv'
BY DEF StoryInv, Refused

LEMMA StoryNext == TypeInv /\ StoryInv /\ [Next]_vars => StoryInv'
<1>. SUFFICES ASSUME TypeInv, StoryInv, [Next]_vars PROVE StoryInv'
  OBVIOUS
<1>. USE DEF Goto, Stop, setting, result, others, invocation
<1>1. CASE CheckKernel
  BY <1>1, StoryMovesOn DEF CheckKernel
<1>2. CASE DrawBytes
  BY <1>2, StoryMovesOn DEF DrawBytes
<1>3. CASE InitLoggingFallback \/ LoadPolicy \/ InitLogging \/ ResolveIdentity
  BY <1>3, StoryMovesOn DEF InitLoggingFallback, LoadPolicy, InitLogging, ResolveIdentity
<1>4. CASE Parse
  <2>1. CASE log' = log
    BY <1>4, <2>1, StoryMovesOn DEF Parse
  <2>2. CASE log' # log
    <3>1. log' = <<Ev("SEC-500", NoFile, sink)>> /\ sink \in Sinks
      BY <1>4, <2>2 DEF Parse, StoryInv, Event, Ev, TypeInv, TypeOK, Sinks
    <3>2. pc' = "done" /\ exit' = "invocation" /\ executed' = NoFile
      BY <1>4, <2>2 DEF Parse, StoryInv
    <3>3. Refused'
      BY <3>1, <3>2 DEF Refused
    <3>. QED
      BY <3>2, <3>3 DEF StoryInv
  <2>. QED
    BY <2>1, <2>2
<1>5. CASE Validate
  <2>1. CASE pc' = "bind"
    BY <1>5, <2>1, RealFileType DEF Validate, Deny, StoryInv, TypeInv
  <2>2. CASE pc' # "bind"
    <3>1. log' = <<Ev("SEC-403", NoFile, sink)>> /\ sink \in Sinks
      BY <1>5, <2>2 DEF Validate, Deny, StoryInv, Event, Ev, TypeInv, TypeOK, Sinks
    <3>2. pc' = "done" /\ exit' = "denied" /\ executed' = NoFile
      BY <1>5, <2>2 DEF Validate, Deny, StoryInv
    <3>3. Refused'
      BY <3>1, <3>2 DEF Refused
    <3>. QED
      BY <3>2, <3>3 DEF StoryInv
  <2>. QED
    BY <2>1, <2>2
<1>6. CASE VerifyBinding
  BY <1>6 DEF VerifyBinding, StoryInv
<1>7. CASE RecordSpoofing
  <2>1. PICK seen \in {NoFile, At(DelegatedToken(sudoCommand))} : log' = Append(log, Event("SEC-500", seen))
    BY <1>7 DEF RecordSpoofing
  <2>2. seen \in Files \cup {NoFile} /\ sink \in Sinks
    BY <2>1, AtType DEF TypeInv, TypeOK, Sinks
  <2>3. log' = <<Ev("SEC-500", seen, sink)>>
    BY <1>7, <2>1 DEF RecordSpoofing, StoryInv, Event, Ev
  <2>4. pc' = "done" /\ exit' = "spoofing" /\ executed' = NoFile
    BY <1>7 DEF RecordSpoofing, StoryInv
  <2>5. Refused'
    BY <2>2, <2>3, <2>4 DEF Refused
  <2>. QED
    BY <2>4, <2>5 DEF StoryInv
<1>8. CASE HashBinary
  <2>1. CASE pc' = "approve"
    BY <1>8, <2>1 DEF HashBinary, StoryInv
  <2>2. CASE pc' # "approve"
    BY <1>8, <2>2, StoryMovesOn DEF HashBinary
  <2>. QED
    BY <2>1, <2>2
<1>9. CASE Approve
  <2>1. log' = <<Ev("SEC-101", binary, sink)>> /\ sink \in Sinks
    BY <1>9 DEF Approve, StoryInv, Event, Ev, TypeInv, TypeOK, Sinks
  <2>. QED
    BY <1>9, <2>1 DEF Approve, StoryInv
<1>10. CASE CommandStarts
  BY <1>10 DEF CommandStarts, StoryInv
<1>11. CASE SupervisorReturns
  <2>1. PICK to \in Sinks : to = sink /\ log = <<Ev("SEC-101", binary, to)>>
    BY <1>11 DEF SupervisorReturns, StoryInv
  <2>2. binary' \in Files /\ executed' \in {NoFile, binary'} /\ binary' = binary /\ pc' = "done"
    BY <1>11 DEF SupervisorReturns, StoryInv
  <2>3. CASE exit' = "status" /\ log' = log
    BY <2>1, <2>2, <2>3 DEF StoryInv, Ran
  <2>4. CASE exit' = "failed" /\ log' = Append(log, Event("SEC-503", hash))
    <3>1. log' = <<Ev("SEC-101", binary, to), Ev("SEC-503", binary, to)>>
      <4>1. Event("SEC-503", hash) = Ev("SEC-503", binary, to)
        BY <1>11, <2>1 DEF SupervisorReturns, StoryInv, Event, Ev
      <4>2. ASSUME NEW e, NEW f PROVE Append(<<e>>, f) = <<e, f>>
        <5>. DEFINE S == {e, f}
        <5>1. <<e>> \in Seq(S) /\ <<e, f>> \in Seq(S) /\ Append(<<e>>, f) \in Seq(S)
          OBVIOUS
        <5>2. Len(Append(<<e>>, f)) = 2 /\ Len(<<e, f>>) = 2
          BY <5>1
        <5>3. Append(<<e>>, f)[1] = e /\ Append(<<e>>, f)[2] = f
          BY <5>1
        <5>4. \A i \in 1 .. Len(Append(<<e>>, f)) : Append(<<e>>, f)[i] = <<e, f>>[i]
          BY <5>2, <5>3
        <5>. HIDE DEF S
        <5>. QED
          BY <5>1, <5>2, <5>4, SeqEqual
      <4>3. log' = Append(<<Ev("SEC-101", binary, to)>>, Ev("SEC-503", binary, to))
        BY <2>1, <2>4, <4>1, Zenon
      <4>. QED
        BY <4>2, <4>3, Zenon
    <3>. QED
      BY <2>2, <2>4, <3>1 DEF StoryInv, Ran
  <2>. QED
    BY <1>11, <2>3, <2>4 DEF SupervisorReturns
<1>12. CASE Replace
  BY <1>12 DEF Replace, StoryInv
<1>13. CASE Kill
  <2>1. CASE pc = "supervise"
    BY <1>13, <2>1 DEF Kill, StoryInv, Ran
  <2>2. CASE pc # "supervise"
    BY <1>13, <2>2, StoryMovesOn DEF Kill
  <2>. QED
    BY <2>1, <2>2
<1>14. CASE UNCHANGED vars
  BY <1>14 DEF vars, StoryInv, Refused, Ran
<1>. QED
  BY <1>1, <1>2, <1>3, <1>4, <1>5, <1>6, <1>7, <1>8, <1>9, <1>10, <1>11, <1>12, <1>13, <1>14 DEF Next, Main

LEMMA StoryInvariant == Spec => [](TypeInv /\ StoryInv)
BY TypeInit, TypeNext, StoryInit, StoryNext, PTL DEF Spec

LEMMA StoryImpliesOneStory == TypeInv /\ StoryInv => OneStory
<1>. SUFFICES ASSUME TypeInv, StoryInv PROVE OneStory
  OBVIOUS
<1>1. CASE log = <<>> /\ executed = NoFile /\ exit \notin {"status", "failed"}
  BY <1>1 DEF OneStory, EventIds
<1>2. CASE Refused /\ log # <<>>
  <2>1. PICK id \in {"SEC-403", "SEC-500"}, file \in Files \cup {NoFile}, to \in Sinks : log = <<Ev(id, file, to)>>
    BY <1>2 DEF Refused
  <2>2. EventIds = <<id>>
    BY <2>1 DEF EventIds, Ev
  <2>. QED
    BY <1>2, <2>2 DEF OneStory, Refused
<1>3. CASE Ran
  <2>1. PICK to \in Sinks :
          \/ log = <<Ev("SEC-101", binary, to)>> /\ exit # "failed"
          \/ log = <<Ev("SEC-101", binary, to), Ev("SEC-503", binary, to)>> /\ exit = "failed"
    BY <1>3 DEF Ran
  <2>2. Approved = binary
    BY <2>1 DEF Approved, Ev
  <2>3. CASE exit # "failed"
    <3>1. EventIds = <<"SEC-101">>
      BY <2>1, <2>3 DEF EventIds, Ev
    <3>. QED
      BY <1>3, <2>2, <2>3, <3>1 DEF OneStory, Ran
  <2>4. CASE exit = "failed"
    <3>1. EventIds = <<"SEC-101", "SEC-503">>
      BY <2>1, <2>4 DEF EventIds, Ev
    <3>. QED
      BY <1>3, <2>2, <2>4, <3>1 DEF OneStory, Ran
  <2>. QED
    BY <2>3, <2>4
<1>4. CASE pc = "supervise"
  <2>1. PICK to \in Sinks : log = <<Ev("SEC-101", binary, to)>>
    BY <1>4 DEF StoryInv
  <2>2. Approved = binary /\ EventIds = <<"SEC-101">>
    BY <2>1 DEF Approved, EventIds, Ev
  <2>3. exit = "running" /\ executed \in {NoFile, binary}
    BY <1>4 DEF StoryInv, TypeInv, TypeOK
  <2>. QED
    BY <2>2, <2>3 DEF OneStory
<1>5. CASE pc \notin {"supervise", "done"}
  <2>1. log = <<>> /\ executed = NoFile /\ exit = "running"
    BY <1>5 DEF StoryInv, TypeInv, TypeOK
  <2>. QED
    BY <1>1, <2>1
<1>. QED
  BY <1>1, <1>2, <1>3, <1>4, <1>5 DEF StoryInv, Refused

(* The events of one invocation tell one story: an approval comes first and *)
(* only once, nothing runs without it, and the command's own status is      *)
(* passed on only if the supervisor did not fail.                           *)
THEOREM OneStoryTheorem == Spec => []OneStory
BY StoryInvariant, StoryImpliesOneStory, PTL

-----------------------------------------------------------------------------
(* Gatekeeper implements Delegation                                        *)

Verdict == IF pc # "done" THEN "open" ELSE IF Approved = NoFile THEN "refused" ELSE "ended"

\* Every step but Approve and those of the supervisor refuses or is invisible.
LEMMA RefusesOrStutters ==
    ASSUME pc \notin {"supervise", "done"}, log = <<>>, executed = NoFile, executed' = NoFile,
           \/ pc' # "done" /\ log' = <<>>
           \/ pc' = "done" /\ (log' = <<>> \/ log'[1].id # "SEC-101")
    PROVE  Promise!Refuse \/ UNCHANGED <<Approved, executed, Verdict>>
BY DEF Promise!Refuse, Approved, Verdict
LEMMA PromiseNext ==
    TypeInv /\ StoryInv /\ StoryInv' /\ [Next]_vars
        => Promise!Next \/ UNCHANGED <<Approved, executed, Verdict>>
<1>. SUFFICES ASSUME TypeInv, StoryInv, StoryInv', [Next]_vars
              PROVE  Promise!Next \/ UNCHANGED <<Approved, executed, Verdict>>
  OBVIOUS
<1>. USE DEF Goto, Stop, setting, result, others, invocation
<1>1. CASE pc \notin {"supervise", "done"} /\ ~Approve
  <2>1. log = <<>> /\ executed = NoFile /\ executed' = NoFile
    BY <1>1 DEF StoryInv, Next, Main, CheckKernel, DrawBytes, InitLoggingFallback, LoadPolicy, InitLogging,
       ResolveIdentity, Parse, Validate, VerifyBinding, RecordSpoofing, HashBinary, CommandStarts,
       SupervisorReturns, Replace, Kill, vars
  <2>2. pc' # "supervise"
    <3>1. CASE CheckKernel \/ DrawBytes \/ InitLoggingFallback \/ LoadPolicy \/ InitLogging \/ ResolveIdentity
      BY <1>1, <3>1 DEF CheckKernel, DrawBytes, InitLoggingFallback, LoadPolicy, InitLogging, ResolveIdentity
    <3>2. CASE Parse \/ Validate \/ VerifyBinding \/ RecordSpoofing \/ HashBinary
      BY <1>1, <3>2 DEF Parse, Validate, Deny, VerifyBinding, RecordSpoofing, HashBinary
    <3>3. CASE CommandStarts \/ SupervisorReturns \/ Replace \/ Kill \/ UNCHANGED vars
      BY <1>1, <3>3 DEF CommandStarts, SupervisorReturns, Replace, Kill, vars
    <3>. QED
      BY <1>1, <3>1, <3>2, <3>3 DEF Next, Main
  <2>3. CASE pc' # "done"
    BY <1>1, <2>1, <2>2, <2>3, RefusesOrStutters DEF StoryInv, Promise!Next
  <2>4. CASE pc' = "done"
    <3>1. log' = <<>> \/ \E id \in {"SEC-403", "SEC-500"} : \E file : log' = Append(log, Event(id, file))
      BY <1>1, <2>1, <2>4 DEF Next, Main, CheckKernel, DrawBytes, InitLoggingFallback, LoadPolicy, InitLogging,
         ResolveIdentity, Parse, Validate, Deny, VerifyBinding, RecordSpoofing, HashBinary, CommandStarts,
         SupervisorReturns, Replace, Kill, vars
    <3>2. log' = <<>> \/ log'[1].id # "SEC-101"
      BY <2>1, <3>1 DEF Event
    <3>. QED
      BY <1>1, <2>1, <2>4, <3>2, RefusesOrStutters DEF Promise!Next
  <2>. QED
    BY <2>3, <2>4
<1>2. CASE Approve
  <2>1. log = <<>> /\ binary \in Files /\ hash = binary /\ pc = "approve" /\ executed' = executed
    BY <1>2 DEF Approve, StoryInv
  <2>2. log' = <<Event("SEC-101", binary)>> /\ pc' = "supervise"
    BY <1>2, <2>1 DEF Approve
  <2>3. Approved = NoFile /\ Approved' = binary /\ Verdict = "open" /\ Verdict' = "open"
    BY <2>1, <2>2 DEF Approved, Verdict, Event
  <2>. QED
    BY <2>1, <2>3 DEF Promise!Next, Promise!Approve, Verdict
<1>3. CASE pc = "supervise"
  <2>1. PICK to \in Sinks : log = <<Ev("SEC-101", binary, to)>>
    BY <1>3 DEF StoryInv
  <2>2. Approved = binary /\ binary \in Files /\ binary # NoFile /\ Verdict = "open"
    BY <1>3, <2>1, NoFileAssumption DEF StoryInv, Approved, Ev, Verdict
  <2>3. CASE CommandStarts
    <3>1. Approved' = Approved /\ executed' = binary /\ executed = NoFile /\ Verdict' = Verdict
      BY <2>3 DEF CommandStarts, Approved, Verdict
    <3>. QED
      BY <2>2, <3>1 DEF Promise!Next, Promise!Start, Verdict
  <2>4. CASE SupervisorReturns
    <3>1. pc' = "done" /\ executed' = executed
      BY <2>4 DEF SupervisorReturns
    <3>2. log' = log \/ log' = Append(log, Event("SEC-503", hash))
      BY <2>4 DEF SupervisorReturns
    <3>3. log # <<>> /\ log' # <<>> /\ log'[1] = log[1]
      <4>1. CASE log' = log
        BY <2>1, <4>1 DEF Ev
      <4>2. ASSUME NEW e, NEW f PROVE Append(<<e>>, f) # <<>> /\ Append(<<e>>, f)[1] = e /\ <<e>> # <<>> /\ <<e>>[1] = e
        OBVIOUS
      <4>3. CASE log' = Append(log, Event("SEC-503", hash))
        BY <2>1, <4>2, <4>3, Zenon
      <4>. QED
        BY <3>2, <4>1, <4>3
    <3>4. Approved' = Approved
      BY <3>3 DEF Approved
    <3>5. Verdict' = "ended"
      BY <2>2, <3>1, <3>4 DEF Verdict
    <3>. QED
      BY <2>2, <3>1, <3>4, <3>5 DEF Promise!Next, Promise!End, Verdict
  <2>5. CASE Kill
    <3>1. pc' = "done" /\ executed' = executed /\ Approved' = Approved
      BY <2>5 DEF Kill, Approved
    <3>2. Verdict' = "ended"
      BY <2>2, <3>1 DEF Verdict
    <3>. QED
      BY <2>2, <3>1, <3>2 DEF Promise!Next, Promise!End, Verdict
  <2>6. CASE Replace \/ UNCHANGED vars
    BY <2>6 DEF Replace, vars, Approved, Verdict
  <2>. QED
    BY <1>3, <2>3, <2>4, <2>5, <2>6
    DEF Next, Main, CheckKernel, DrawBytes, InitLoggingFallback, LoadPolicy, InitLogging, ResolveIdentity,
        Parse, Validate, VerifyBinding, RecordSpoofing, HashBinary, Approve
<1>4. CASE pc = "done"
  <2>1. UNCHANGED vars
    BY <1>4 DEF Next, Main, CheckKernel, DrawBytes, InitLoggingFallback, LoadPolicy, InitLogging,
       ResolveIdentity, Parse, Validate, VerifyBinding, RecordSpoofing, HashBinary, Approve, CommandStarts,
       SupervisorReturns, Replace, Kill
  <2>. QED
    BY <2>1 DEF vars, Approved, Verdict
<1>. QED
  BY <1>1, <1>2, <1>3, <1>4

LEMMA PromiseInit == Init => Promise!Init
BY DEF Init, Promise!Init, Approved

(* main implements Delegation: one binary is approved in the log and it is  *)
(* that binary which runs, at most once, or the invocation is refused and    *)
(* nothing runs, whatever others replace on the disk in the meantime.        *)
THEOREM KeepsPromiseTheorem == Spec => KeepsPromise
<1>1. TypeInv /\ StoryInv /\ (TypeInv /\ StoryInv)' /\ [Next]_vars => [Promise!Next]_(Promise!delegation)
  BY PromiseNext DEF Promise!delegation, Verdict
<1>. QED
  BY <1>1, PromiseInit, StoryInvariant, PTL DEF Spec, KeepsPromise, Promise!Spec

-----------------------------------------------------------------------------
(* An undisturbed run                                                      *)

Token == NamedByArgv(argv).token
Name == FileName(Token)
Senseless == {Malformed, NoCommand, <<>>}

\* sudo, if it was used, ran a command of that name.
SudoNames ==
    \/ sudoCommand = Unset
    \/ /\ Command(sudoCommand) \notin Senseless
       /\ Basename(Command(sudoCommand)) = Basename(Token)

ParsedRight ==
    /\ Unicode(argv) /\ Parsed
    /\ argv = <<>> => Tool = <<>>
    /\ argv # <<>> => Tool \in {Name, Basename(Token)} /\ SudoNames

Allowed ==
    /\ Supported(release)
    /\ Unicode(argv) /\ argv # <<>>
    /\ RealFile(Name) # NoFile
    /\ \/ sudoCommand = Unset
       \/ /\ Basename(Command(sudoCommand)) = Name
          /\ HasSlash(Command(sudoCommand)) => At(Command(sudoCommand)) = RealFile(Name)

\* What an undisturbed run has found out at each step of main.
Finds ==
    /\ pc \notin {"kernel", "done"} => Supported(release)
    /\ pc \in {"validate", "bind", "spoofed", "hash", "approve", "supervise"} => ParsedRight
    /\ pc \in {"bind", "spoofed", "hash", "approve", "supervise"} =>
          argv # <<>> /\ binary = RealFile(Tool) /\ binary # NoFile
    /\ pc \in {"hash", "approve", "supervise"} => Bound(sudoCommand)
    /\ pc = "spoofed" => ~Bound(sudoCommand)
    /\ pc = "done" => (executed # NoFile <=> Allowed)

RunInv ==
    /\ argv \in Seq(Word)
    /\ ~disturbed => Finds

\* The names of tools are no results of a failed reading.
LEMMA ToolNames ==
    ASSUME NEW name, RealFile(name) # NoFile
    PROVE  name \notin Senseless
<1>1. name \in Word \ {<<>>}
  BY RealBinaryAssumption DEF RealFile
<1>2. "malformed" \notin Character /\ "missing" \notin Character
  BY CharacterAssumption
<1>3. ASSUME NEW letter, letter \notin Character PROVE name # <<letter>>
  <2>1. ASSUME name = <<letter>> PROVE FALSE
    <3>1. Len(<<letter>>) = 1 /\ <<letter>>[1] = letter
      OBVIOUS
    <3>2. name \in Seq(Character) /\ Len(name) = 1 /\ name[1] = letter
      BY <1>1, <2>1, <3>1 DEF Word
    <3>3. name[1] \in Character
      BY <3>2
    <3> QED
      BY <1>3, <3>2, <3>3
  <2> QED
    BY <2>1
<1>4. name # Malformed /\ name # NoCommand
  BY <1>2, <1>3 DEF Malformed, NoCommand
<1> QED
  BY <1>1, <1>4 DEF Senseless

LEMMA SenselessBasename ==
    ASSUME NEW token \in Senseless PROVE Basename(token) = token
<1>1. token \in Seq({"malformed", "missing"}) /\ ~HasSlash(token)
  <2>1. CASE token = Malformed
    BY <2>1 DEF HasSlash, Range, Malformed, Slash
  <2>2. CASE token = NoCommand
    BY <2>2 DEF HasSlash, Range, NoCommand, Slash
  <2>3. CASE token = <<>>
    BY <2>3 DEF HasSlash, Range
  <2> QED
    BY <2>1, <2>2, <2>3 DEF Senseless
<1> QED
  BY <1>1, BasenamePlain

\* A tool of the policy has a file name, which is its own.
LEMMA RealName ==
    ASSUME NEW name, RealFile(name) # NoFile
    PROVE  name # <<>> /\ FileName(name) = name /\ Basename(name) = name
BY RealBinaryAssumption DEF RealFile, Basename

\* A token without a file name is no tool, whole or empty.
LEMMA NamedTool ==
    ASSUME NEW tool \in {Name, Basename(Token)}
    PROVE  /\ RealFile(tool) = RealFile(Name)
           /\ RealFile(tool) # NoFile => tool = Name /\ Basename(Token) = Name
<1>1. CASE FileName(Token) # <<>>
  BY <1>1 DEF Basename, Name
<1>2. CASE FileName(Token) = <<>>
  <2>1. Name = <<>> /\ Basename(Token) = Token
    BY <1>2 DEF Basename, Name
  <2>2. RealFile(Name) = NoFile
    BY <2>1, RealName
  <2>3. RealFile(Token) = NoFile
    BY <1>2, RealName
  <2> QED
    BY <2>1, <2>2, <2>3
<1> QED
  BY <1>1, <1>2

\* What parse_invocation finds in the arguments it was given.
LEMMA ParseFinds ==
    ASSUME argv \in Seq(Word), NEW found, found = ParseInvocation(argv, sudoCommand)
    PROVE  IF "tool" \in DOMAIN found
           THEN /\ argv = <<>> => found.tool = <<>>
                /\ argv # <<>> => found.tool \in {Name, Basename(Token)} /\ SudoNames
           ELSE argv # <<>> /\ ~SudoNames
<1>1. CASE argv = <<>>
  BY <1>1 DEF ParseInvocation, Invoked
<1>2. CASE argv # <<>> /\ sudoCommand = Unset
  <2>1. NamedByArgv(argv).name \in {Name, Basename(Token)}
    <3>1. FileName(<<>>) = <<>>
      BY FileNameIs DEF Letters
    <3> QED
      BY <3>1 DEF NamedByArgv, Name, Token
  <2> QED
    BY <1>2, <2>1 DEF ParseInvocation, Invoked, SudoNames
<1>3. CASE argv # <<>> /\ sudoCommand # Unset
  BY <1>3 DEF ParseInvocation, Invoked, Spoofing, SudoNames, Token, Command, Senseless
<1> QED
  BY <1>1, <1>2, <1>3

\* A run that was not named by sudo, or not by that file, is not allowed.
LEMMA AllowedNames == Allowed => SudoNames
<1>1. Allowed => Basename(Token) = Name
  BY NamedTool DEF Allowed
<1> QED
  BY <1>1, ToolNames, SenselessBasename DEF Allowed, SudoNames

LEMMA AllowedIsBound ==
    ASSUME argv \in Seq(Word), ParsedRight, argv # <<>>, Supported(release),
           binary = RealFile(Tool), binary # NoFile
    PROVE  Allowed <=> Bound(sudoCommand)
<1>1. Tool = Name /\ Basename(Name) = Name /\ Basename(Token) = Name /\ SudoNames
  BY NamedTool, RealName DEF ParsedRight
<1>2. Bound(sudoCommand) <=>
          \/ sudoCommand = Unset
          \/ HasSlash(Command(sudoCommand)) => At(Command(sudoCommand)) = binary
  BY <1>1 DEF Bound, SudoNames, Command, Senseless
<1> QED
  BY <1>1, <1>2 DEF Allowed, ParsedRight, SudoNames

LEMMA RunInit == Init => RunInv
BY ArgvsAssumption DEF Init, InvocationInit, RunInv, Finds

LEMMA RunNext == TypeInv /\ StoryInv /\ RunInv /\ [Next]_vars => RunInv'
<1>. SUFFICES ASSUME TypeInv, StoryInv, RunInv, [Next]_vars PROVE RunInv'
  OBVIOUS
<1>1. argv' = argv /\ sudoCommand' = sudoCommand /\ release' = release
  BY DEF Next, Main, CheckKernel, DrawBytes, InitLoggingFallback, LoadPolicy, InitLogging, ResolveIdentity,
     Parse, Identify, Validate, VerifyBinding, RecordSpoofing, HashBinary, Approve, CommandStarts,
     SupervisorReturns, Replace, Kill, vars, invocation, setting
<1>2. argv \in Seq(Word) /\ argv' \in Seq(Word)
  BY <1>1 DEF RunInv
<1>3. SUFFICES ASSUME ~disturbed' PROVE Finds'
  BY <1>2 DEF RunInv
<1>. USE DEF Goto, Stop, setting, result, others, invocation
<1>4. ~disturbed /\ disk' = disk
  BY <1>3 DEF Next, Main, CheckKernel, DrawBytes, InitLoggingFallback, LoadPolicy, InitLogging,
     ResolveIdentity, Parse, Validate, VerifyBinding, RecordSpoofing, HashBinary, Approve, CommandStarts,
     SupervisorReturns, Replace, Kill, vars, Fault, NoFault, TypeInv, TypeOK
<1>5. Finds
  BY <1>4 DEF RunInv
<1>6. /\ Token' = Token /\ Name' = Name /\ SudoNames' = SudoNames /\ Allowed' = Allowed
      /\ \A tool : RealFile(tool)' = RealFile(tool)
  BY <1>1, <1>4 DEF Token, Name, SudoNames, Allowed, RealFile, At, Command
<1>7. executed # NoFile => pc \in {"supervise", "done"}
  BY DEF StoryInv
<1>8. CASE CheckKernel
  BY <1>1, <1>5, <1>6, <1>7, <1>8 DEF CheckKernel, Finds, Allowed
<1>9. CASE DrawBytes
  BY <1>1, <1>3, <1>5, <1>9 DEF DrawBytes, Finds, Fault
<1>10. CASE InitLoggingFallback \/ LoadPolicy \/ InitLogging \/ ResolveIdentity
  BY <1>1, <1>3, <1>5, <1>10 DEF InitLoggingFallback, LoadPolicy, InitLogging, ResolveIdentity, Finds, Fault
<1>11. CASE Parse
  <2>1. PICK procReadable \in BOOLEAN : Identify(procReadable)
    BY <1>11 DEF Parse
  <2>2. CASE ~Unicode(argv)
    <3>1. outcome' = Spoofing("panic")
      BY <1>2, <2>1, <2>2, ReadsTheArguments DEF Identify
    <3>2. ~ (Parsed')
      BY <3>1 DEF Parsed, Spoofing
    <3>3. pc' = "done" /\ executed' = NoFile
      BY <1>7, <1>11, <3>1, <3>2 DEF Parse
    <3>. QED
      BY <1>6, <2>2, <3>3 DEF Finds, Allowed
  <2>3. CASE Unicode(argv)
    <3>1. outcome' = ParseInvocation(argv, sudoCommand)
      BY <1>2, <2>1, <2>3, ReadsTheArguments, NeverBroken DEF Identify
    <3>2. IF Parsed' THEN /\ argv = <<>> => Tool' = <<>>
                          /\ argv # <<>> => Tool' \in {Name, Basename(Token)} /\ SudoNames
          ELSE argv # <<>> /\ ~SudoNames
      BY <1>2, <3>1, ParseFinds DEF Parsed, Tool
    <3>3. CASE Parsed'
      <4>1. outcome' # Spoofing("panic")
        BY <3>3 DEF Parsed, Spoofing
      <4>2. pc' = "validate" /\ Supported(release)
        BY <1>5, <1>11, <3>3, <4>1 DEF Parse, Finds
      <4>3. ParsedRight'
        BY <1>1, <1>6, <2>3, <3>2, <3>3 DEF ParsedRight
      <4>. QED
        BY <1>1, <4>2, <4>3 DEF Finds
    <3>4. CASE ~ (Parsed')
      <4>1. pc' = "done" /\ executed' = NoFile
        BY <1>7, <1>11, <3>4 DEF Parse
      <4>2. ~Allowed
        BY <3>2, <3>4, AllowedNames
      <4>. QED
        BY <1>6, <4>1, <4>2 DEF Finds
    <3>. QED
      BY <3>3, <3>4
  <2>. QED
    BY <2>2, <2>3
<1>13. CASE Validate
  <2>1. pc = "validate" /\ ParsedRight /\ Supported(release) /\ outcome' = outcome /\ executed' = NoFile
    BY <1>5, <1>7, <1>13 DEF Validate, Finds
  <2>2. ParsedRight'
    BY <1>1, <1>6, <2>1 DEF ParsedRight, Parsed, Tool
  <2>3. CASE RealFile(Tool) = NoFile
    <3>1. pc' = "done"
      BY <1>13, <2>3 DEF Validate, Deny
    <3>2. ~Allowed
      BY <2>1, <2>3, NamedTool DEF Allowed, ParsedRight
    <3>. QED
      BY <1>6, <2>1, <3>1, <3>2 DEF Finds
  <2>4. CASE RealFile(Tool) # NoFile
    <3>1. pc' = "bind" /\ binary' = RealFile(Tool)
      BY <1>3, <1>13, <2>4 DEF Validate, Deny, Fault
    <3>2. RealFile(Tool)' = RealFile(Tool)
      BY <1>6, <2>1 DEF Tool
    <3>3. argv # <<>>
      <4>1. <<>> \notin DOMAIN RealBinary
        BY RealBinaryAssumption
      <4>. QED
        BY <2>1, <2>4, <4>1 DEF ParsedRight, RealFile
    <3>. QED
      BY <1>1, <2>1, <2>2, <2>4, <3>1, <3>2, <3>3 DEF Finds
  <2>. QED
    BY <2>3, <2>4
<1>14. CASE VerifyBinding \/ RecordSpoofing \/ HashBinary \/ Approve \/ CommandStarts \/ SupervisorReturns
  <2>1. /\ pc \in {"bind", "spoofed", "hash", "approve", "supervise"}
        /\ outcome' = outcome /\ binary' = binary
    BY <1>14 DEF VerifyBinding, RecordSpoofing, HashBinary, Approve, CommandStarts, SupervisorReturns
  <2>2. ParsedRight /\ argv # <<>> /\ binary = RealFile(Tool) /\ binary # NoFile /\ Supported(release)
    BY <1>5, <2>1 DEF Finds
  <2>3. Allowed <=> Bound(sudoCommand)
    BY <1>2, <2>2, AllowedIsBound
  <2>4. ParsedRight' /\ binary' = RealFile(Tool)' /\ Bound(sudoCommand)' = Bound(sudoCommand)
    BY <1>1, <1>4, <1>6, <2>1, <2>2 DEF ParsedRight, Bound, Parsed, Tool, At, RealFile
  <2>5. CASE VerifyBinding
    BY <1>1, <2>2, <2>4, <2>5 DEF VerifyBinding, Finds
  <2>6. CASE RecordSpoofing
    BY <1>5, <1>6, <1>7, <2>3, <2>6 DEF RecordSpoofing, Finds
  <2>7. CASE HashBinary \/ Approve \/ CommandStarts
    BY <1>1, <1>3, <1>5, <2>2, <2>4, <2>7 DEF HashBinary, Approve, CommandStarts, Finds, Fault
  <2>8. CASE SupervisorReturns
    BY <1>3, <1>5, <1>6, <2>3, <2>8 DEF SupervisorReturns, Finds, Fault
  <2>. QED
    BY <1>14, <2>5, <2>6, <2>7, <2>8
<1>15. CASE Replace \/ Kill
  BY <1>3, <1>15 DEF Replace, Kill, Fault
<1>16. CASE UNCHANGED vars
  BY <1>1, <1>4, <1>5, <1>6, <1>16 DEF vars, Finds, ParsedRight, Bound, Parsed, Tool, At, RealFile
<1>. QED
  BY <1>8, <1>9, <1>10, <1>11, <1>13, <1>14, <1>15, <1>16 DEF Next, Main

(* When no call fails and nothing is replaced, a command runs exactly if the *)
(* kernel is 4.19 or newer, the invocation names a tool of the policy whose  *)
(* binary is there, and sudo, if it was used, ran that binary or named it    *)
(* only: for every argument vector, SUDO_COMMAND, policy and disk.           *)
THEOREM RunsIfAllowedTheorem == Spec => []RunsIfAllowed
<1>1. Spec => [](TypeInv /\ StoryInv /\ RunInv)
  BY TypeInit, TypeNext, StoryInit, StoryNext, RunInit, RunNext, PTL DEF Spec
<1>2. TypeInv /\ RunInv => RunsIfAllowed
  <2>. SUFFICES ASSUME TypeInv, RunInv, pc = "done", ~disturbed PROVE RunsIfAllowed
    BY DEF RunsIfAllowed
  <2>1. executed # NoFile <=> Allowed
    BY DEF RunInv, Finds
  <2>2. release.major \in Nat /\ release.minor \in Nat
    BY ReleasesAssumption DEF TypeInv, TypeOK
  <2>3. Supported(release) <=> ~ (release.major < 4 \/ (release.major = 4 /\ release.minor <= 18))
    BY <2>2 DEF Supported
  <2>. QED
    BY <2>1, <2>3 DEF RunsIfAllowed, Allowed, Name, Token
<1>. QED
  BY <1>1, <1>2, PTL

-----------------------------------------------------------------------------
(* The words of the invocation                                             *)

\* What the invocation was found to be is what its own arguments and
\* SUDO_COMMAND say, from the step that parsed them to the end.
IdentifiedInv ==
    /\ argv \in Seq(Word)
    /\ outcome # Pending =>
          outcome = IF Unicode(argv) THEN ParseInvocation(argv, sudoCommand) ELSE Spoofing("panic")

LEMMA IdentifiedInit == Init => IdentifiedInv
BY ArgvsAssumption DEF Init, InvocationInit, IdentifiedInv

LEMMA IdentifiedNext == IdentifiedInv /\ [Next]_vars => IdentifiedInv'
<1>. SUFFICES ASSUME IdentifiedInv, [Next]_vars PROVE IdentifiedInv'
  OBVIOUS
<1>1. CASE Parse
  <2>1. PICK procReadable \in BOOLEAN : Identify(procReadable)
    BY <1>1 DEF Parse
  <2>2. argv \in Seq(Word) /\ argv' = argv /\ sudoCommand' = sudoCommand
    BY <2>1 DEF Identify, IdentifiedInv
  <2>3. outcome' = IF Unicode(argv) THEN ParseInvocation(argv, sudoCommand) ELSE Spoofing("panic")
    BY <2>1, <2>2, ReadsTheArguments, NeverBroken DEF Identify
  <2>. QED
    BY <2>2, <2>3 DEF IdentifiedInv
<1>2. CASE ~Parse
  <2>1. UNCHANGED invocation
    BY <1>2 DEF Next, Main, CheckKernel, DrawBytes, InitLoggingFallback, LoadPolicy, InitLogging, ResolveIdentity,
       Validate, VerifyBinding, RecordSpoofing, HashBinary, Approve, CommandStarts,
       SupervisorReturns, Replace, Kill, vars
  <2>. QED
    BY <2>1 DEF IdentifiedInv, invocation
<1>. QED
  BY <1>1, <1>2

LEMMA Identified == Spec => []IdentifiedInv
BY IdentifiedInit, IdentifiedNext, PTL DEF Spec

(* The words the kernel and sudo wrote are read back as they were, whatever  *)
(* blanks, quotes and backslashes are in them and whatever follows them: for *)
(* arguments of any length made of any bytes.                                *)
THEOREM WordsReadBackTheorem == Spec => []WordsReadBack
<1>1. IdentifiedInv => WordsReadBack
  BY EverythingReadBack DEF IdentifiedInv
<1>. QED
  BY <1>1, Identified, PTL

(* A command run by sudo is identified whatever its arguments, by its own    *)
(* entry point and through secure-sudoers.                                   *)
THEOREM SudoRunIdentifiedTheorem == Spec => []SudoRunIdentified
<1>1. IdentifiedInv => SudoRunIdentified
  <2>. SUFFICES ASSUME IdentifiedInv, outcome # Pending, argv # <<>>, Unicode(argv), Plain(argv[1]),
                       FileName(argv[1]) # <<>>,
                       IsWrapper(argv[1]) => Len(argv) > 1 /\ Plain(argv[2]),
                       sudoCommand = SudoLine(<<Slash, "l", Slash>> \o FileName(argv[1]), argv)
                PROVE  outcome = Invoked(Basename(NamedByArgv(argv).token), NamedByArgv(argv).args)
    BY DEF SudoRunIdentified
  <2>1. argv \in Seq(Word) /\ outcome = ParseInvocation(argv, sudoCommand)
    BY DEF IdentifiedInv
  <2>. QED
    BY <2>1, SudoRunParsed DEF Directory
<1>. QED
  BY <1>1, Identified, PTL
=============================================================================
