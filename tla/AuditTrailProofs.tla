-------------------------- MODULE AuditTrailProofs --------------------------
(***************************************************************************)
(* The two parsers stay in step, argument by argument, for every policy    *)
(* and every list; what the audit event hides follows.                     *)
(***************************************************************************)
EXTENDS AuditTrail, Induction, FiniteSetTheorems

-----------------------------------------------------------------------------
(* Texts                                                                   *)

Text == Seq(Symbol)

LEMMA DashedText ==
    ASSUME NEW a \in Text
    PROVE  /\ Dashed(a) <=> Len(a) >= 1 /\ a[1] = "-"
           /\ Long(a) <=> Len(a) >= 2 /\ a[1] = "-" /\ a[2] = "-"
           /\ a = Delimiter <=> Len(a) = 2 /\ a[1] = "-" /\ a[2] = "-"
<1>1. ASSUME Len(a) >= 1
      PROVE  SubSeq(<<"-">>, 1, 1) = SubSeq(a, 1, 1) <=> a[1] = "-"
  BY <1>1 DEF Text
<1>2. ASSUME Len(a) >= 2
      PROVE  SubSeq(Delimiter, 1, 2) = SubSeq(a, 1, 2) <=> a[1] = "-" /\ a[2] = "-"
  BY <1>2 DEF Text, Delimiter
<1>3. a = Delimiter <=> Len(a) = 2 /\ a[1] = "-" /\ a[2] = "-"
  BY DEF Text, Delimiter
<1>4. Len(<<"-">>) = 1 /\ Len(Delimiter) = 2 /\ Len(a) \in Nat
  BY DEF Delimiter, Text
<1> QED
  BY <1>1, <1>2, <1>3, <1>4 DEF Dashed, Long, IsPrefix

LEMMA ToSetText == ASSUME NEW a \in Text, NEW x
                   PROVE  x \in ToSet(a) <=> \E i \in 1 .. Len(a) : a[i] = x
BY DEF ToSet, Text

\* The least of some places, and of none but the one after the last.
LEMMA MinPlace ==
    ASSUME NEW S \in SUBSET Nat, S # {}
    PROVE  Min(S) \in S /\ \A n \in S : Min(S) <= n
<1>1. \E n \in S : \A m \in S : n =< m
  BY LeastNumber
<1> QED
  BY <1>1 DEF Min

LEMMA PlaceText ==
    ASSUME NEW a \in Text, NEW x
    PROVE  /\ Place(a, x) \in 0 .. Len(a)
           /\ Place(a, x) = 0 => \A i \in 1 .. Len(a) : a[i] # x
           /\ Place(a, x) # 0 => /\ a[Place(a, x)] = x
                                 /\ \A i \in 1 .. Len(a) : a[i] = x => Place(a, x) <= i
<1> DEFINE S == {i \in 1 .. Len(a) : a[i] = x}
<1>1. Place(a, x) = IF S # {} THEN Min(S) ELSE 0
  BY DEF Place, SelectInSeq
<1>2. S \in SUBSET Nat /\ Len(a) \in Nat
  BY DEF Text
<1>3. S # {} => Min(S) \in S /\ \A n \in S : Min(S) <= n
  BY <1>2, MinPlace
<1> QED
  BY <1>1, <1>2, <1>3

LEMMA KeyText ==
    ASSUME NEW a \in Text
    PROVE  /\ EqualSign(a) \in 0 .. Len(a) /\ Len(a) \in Nat
           /\ EqualSign(a) = 0 => Key(a) = a
           /\ EqualSign(a) # 0 => Len(Key(a)) = EqualSign(a) - 1
           /\ Key(a) \in Text /\ Len(Key(a)) <= Len(a)
           /\ \A i \in 1 .. Len(Key(a)) : Key(a)[i] = a[i]
           /\ Key(a) = a => EqualSign(a) = 0
           /\ EqualSign(a) # 0 => a[EqualSign(a)] = "="
<1>1. /\ EqualSign(a) \in 0 .. Len(a) /\ Len(a) \in Nat
      /\ EqualSign(a) # 0 => a[EqualSign(a)] = "="
  BY PlaceText DEF EqualSign, Text
<1>2. CASE EqualSign(a) = 0
  BY <1>1, <1>2 DEF Key, Text
<1>3. CASE EqualSign(a) # 0
  <2>1. Key(a) = SubSeq(a, 1, EqualSign(a) - 1)
    BY <1>3 DEF Key
  <2>2. EqualSign(a) - 1 \in 0 .. Len(a) /\ EqualSign(a) - 1 < Len(a)
    BY <1>1, <1>3
  <2>3. /\ Key(a) \in Text /\ Len(Key(a)) = EqualSign(a) - 1
        /\ \A i \in 1 .. Len(Key(a)) : Key(a)[i] = a[i]
    BY <2>1, <2>2 DEF Text
  <2> QED
    BY <1>1, <1>3, <2>2, <2>3
<1> QED
  BY <1>2, <1>3

LEMMA AfterText ==
    ASSUME NEW a \in Text, NEW i \in 0 .. Len(a)
    PROVE  /\ After(a, i) \in Text /\ Len(After(a, i)) = Len(a) - i
           /\ \A j \in 1 .. Len(a) - i : After(a, i)[j] = a[i + j]
BY DEF After, Text

LEMMA FlagOfText ==
    ASSUME NEW x \in Symbol
    PROVE  /\ FlagOf(x) \in Text /\ Len(FlagOf(x)) = 2
           /\ FlagOf(x)[1] = "-" /\ FlagOf(x)[2] = x
BY TextAssumption DEF FlagOf, Text

LEMMA ShortFlag ==
    ASSUME NEW f \in Text, Len(f) = 2, Dashed(f)
    PROVE  f = FlagOf(f[2]) /\ f[2] \in Symbol
<1>1. f[1] = "-" /\ f[2] \in Symbol
  BY DashedText DEF Text
<1>2. /\ FlagOf(f[2]) \in Text /\ Len(FlagOf(f[2])) = 2
      /\ FlagOf(f[2])[1] = "-" /\ FlagOf(f[2])[2] = f[2]
  BY <1>1, FlagOfText
<1>3. \A i \in 1 .. Len(f) : f[i] = FlagOf(f[2])[i]
  BY <1>1, <1>2
<1> QED
  BY <1>1, <1>2, <1>3, SeqEqual DEF Text
-----------------------------------------------------------------------------
(* The parsers in step                                                     *)

Reading == {"verb", "args", "value", "rest"}

\* What a parser of known tools may be doing between two arguments.
ParserInv ==
    /\ policy \in DOMAIN Policies
    /\ parser.mode \in Reading \cup {"denied", "end"}
    /\ parser.mode \in Reading => Tool.known
    /\ parser.mode = "value" => /\ parser.flag \in DOMAIN Tool.params
                                /\ Tool.params[parser.flag].type # "bool"
    /\ verdict = "open" => parser.mode \in Reading
    /\ flagOrder \in SetToSeqs(SensitiveShort(Tool))

\* Redaction hides the next argument exactly where validation takes it for a
\* sensitive value, and both have met "--" or neither has.
Together(t, mode, flag, skip, delim) ==
    /\ skip <=> mode = "value" /\ t.params[flag].sensitive
    /\ delim <=> mode = "rest"

SyncInv ==
    /\ ParserInv
    /\ InStep(Tool) /\ parser.mode \in Reading
         => Together(Tool, parser.mode, parser.flag, skipNext, afterDelim)

\* What both made of argument a: p is the validator's parse, r the redaction.
Agree(t, a, p, r) ==
    /\ p.mode \in Reading => Together(t, p.mode, p.flag, r.skip, r.delim)
    /\ p.secret # 0 /\ a # Delimiter /\ r.entry.kept => ~(r.entry.shown >= p.secret)
    /\ ~t.positional.sensitive /\ p.mode \in {"args", "value", "rest"} /\ p.secret = 0
         => IF r.entry.kept THEN r.entry.shown = Len(a)
            ELSE Long(a) /\ Key(a) \in DOMAIN t.params

LEMMA ToolFacts ==
    ASSUME policy \in DOMAIN Policies
    PROVE  /\ Tool.known \in BOOLEAN /\ Tool.positional.sensitive \in BOOLEAN
           /\ Tool.audit \in {"minimal", "keys_only", "full"}
           /\ \A v \in Tool.verbs : v \in Text
           /\ \A f \in DOMAIN Tool.params : f \in Text
           /\ \A f \in DOMAIN Tool.params : Tool.params[f].sensitive \in BOOLEAN
BY PoliciesAssumption DEF Tool, Text

LEMMA FlagFacts ==
    ASSUME policy \in DOMAIN Policies, InStep(Tool), NEW f \in DOMAIN Tool.params
    PROVE  /\ f \in Text /\ Dashed(f) /\ Len(f) \in Nat /\ Len(f) > 1 /\ f # Delimiter
           /\ f[1] = "-" /\ EqualSign(f) = 0 /\ \A i \in 1 .. Len(f) : f[i] # "="
           /\ Tool.params[f].type = "bool" => ~Tool.params[f].sensitive
           /\ Len(f) = 2 => /\ Short(f) /\ f = FlagOf(f[2]) /\ f[2] \in Symbol
                            /\ f[2] # "-" /\ f[2] # "="
<1>1. f \in Text /\ FlagName(f) /\ (Tool.params[f].type = "bool" => ~Tool.params[f].sensitive)
  BY ToolFacts DEF InStep
<1>2. /\ Dashed(f) /\ Len(f) \in Nat /\ Len(f) > 1 /\ f # Delimiter
      /\ f[1] = "-" /\ EqualSign(f) = 0
  BY <1>1, DashedText DEF FlagName, Text
<1>3. \A i \in 1 .. Len(f) : f[i] # "="
  BY <1>1, <1>2, PlaceText DEF EqualSign
<1>4. ASSUME Len(f) = 2
      PROVE  Short(f) /\ f = FlagOf(f[2]) /\ f[2] \in Symbol /\ f[2] # "-" /\ f[2] # "="
  <2>1. f = FlagOf(f[2]) /\ f[2] \in Symbol
    BY <1>1, <1>2, <1>4, ShortFlag
  <2>2. f[2] # "-" /\ f[2] # "="
    BY <1>1, <1>2, <1>3, <1>4, DashedText
  <2> QED
    BY <1>1, <1>2, <1>4, <2>1, <2>2, DashedText DEF Short
<1> QED
  BY <1>1, <1>2, <1>3, <1>4

\* A policy has at most one sensitive short flag, and a group of short flags
\* is searched for its letter.
LEMMA OneSecretLetter ==
    ASSUME policy \in DOMAIN Policies, InStep(Tool),
           flagOrder \in SetToSeqs(SensitiveShort(Tool)), NEW f \in SensitiveShort(Tool)
    PROVE  /\ \A g \in SensitiveShort(Tool) : g = f
           /\ 1 \in DOMAIN flagOrder /\ \A i \in DOMAIN flagOrder : i = 1 /\ flagOrder[i] = f
<1>1. \A g \in SensitiveShort(Tool) : g = f
  BY DEF InStep, SensitiveShort, Sensitive
<1>2. SensitiveShort(Tool) = {f}
  BY <1>1
<1>3. Cardinality(SensitiveShort(Tool)) = 1
  BY <1>2, FS_Singleton
<1>4. flagOrder \in [1 .. 1 -> SensitiveShort(Tool)]
  BY <1>3 DEF SetToSeqs
<1> QED
  BY <1>1, <1>4

LEMMA LetterFacts ==
    ASSUME policy \in DOMAIN Policies, InStep(Tool),
           flagOrder \in SetToSeqs(SensitiveShort(Tool)), NEW a \in Text
    PROVE  /\ LetterFound(a) # NoFlag
                => /\ Short(a) /\ LetterFound(a) \in SensitiveShort(Tool)
                   /\ \E i \in 2 .. Len(a) : FlagOf(a[i]) = LetterFound(a)
           /\ \A i \in 2 .. Len(a) : Short(a) /\ FlagOf(a[i]) \in SensitiveShort(Tool)
                => LetterFound(a) = FlagOf(a[i]) /\ LetterFound(a) # NoFlag
<1> DEFINE found == {i \in DOMAIN flagOrder : Short(a) /\ flagOrder[i][2] \in ToSet(a)}
<1>1. LetterFound(a) = IF found = {} THEN NoFlag ELSE flagOrder[Min(found)]
  BY DEF LetterFound
<1>2. \A i \in DOMAIN flagOrder : i \in Nat /\ flagOrder[i] \in SensitiveShort(Tool)
  BY DEF SetToSeqs
<1>3. found # {} => Min(found) \in found
  <2>1. found \in SUBSET Nat
    BY <1>2
  <2> HIDE DEF found
  <2> QED
    BY <2>1, MinPlace
<1>4. ASSUME LetterFound(a) # NoFlag
      PROVE  /\ Short(a) /\ LetterFound(a) \in SensitiveShort(Tool)
             /\ \E i \in 2 .. Len(a) : FlagOf(a[i]) = LetterFound(a)
  <2> DEFINE f == LetterFound(a)
  <2>1. Short(a) /\ f \in SensitiveShort(Tool) /\ f[2] \in ToSet(a)
    BY <1>1, <1>2, <1>3, <1>4
  <2>2. f \in DOMAIN Tool.params /\ Len(f) = 2
    BY <2>1 DEF SensitiveShort, Sensitive
  <2>3. f = FlagOf(f[2]) /\ f[2] # "-"
    BY <2>2, FlagFacts
  <2>4. PICK i \in 1 .. Len(a) : a[i] = f[2]
    BY <2>1, ToSetText
  <2>5. i # 1
    BY <2>1, <2>3, <2>4, DashedText DEF Short
  <2> QED
    BY <2>1, <2>3, <2>4, <2>5
<1>5. ASSUME Short(a), NEW i \in 2 .. Len(a), FlagOf(a[i]) \in SensitiveShort(Tool)
      PROVE  LetterFound(a) = FlagOf(a[i]) /\ LetterFound(a) # NoFlag
  <2>1. a[i] \in Symbol /\ a[i] \in ToSet(a)
    BY <1>5, ToSetText DEF Text
  <2>2. FlagOf(a[i])[2] = a[i] /\ FlagOf(a[i]) # NoFlag
    BY <2>1, FlagOfText DEF NoFlag
  <2>3. 1 \in DOMAIN flagOrder /\ \A k \in DOMAIN flagOrder : k = 1 /\ flagOrder[k] = FlagOf(a[i])
    BY <1>5, OneSecretLetter
  <2>4. 1 \in found
    BY <1>5, <2>1, <2>2, <2>3
  <2> QED
    BY <1>1, <1>3, <2>2, <2>3, <2>4
<1> QED
  BY <1>4, <1>5
-----------------------------------------------------------------------------
(* What one argument may be to validation                                  *)

LEMMA PushFlagValueFacts ==
    ASSUME NEW t, NEW flag, NEW value, NEW from, NEW before
    PROVE  LET p == PushFlagValue(t, flag, value, from, before) IN
           /\ (p.mode = "args" /\ Permitted(t.params[flag], value) # {}) \/ p.mode = "denied"
           /\ p.secret = IF t.params[flag].sensitive THEN from ELSE 0
BY DEF PushFlagValue, Parsed, Denied

\* Texts that redaction does not take for flags.
Plain(a) == ~Dashed(a) \/ Len(a) = 1

LEMMA PushPositionalFacts ==
    ASSUME NEW t, NEW a \in DOMAIN Canon, NEW m
    PROVE  LET p == PushPositional(t, a, m) IN
           /\ (p.mode = m /\ Plain(a)) \/ p.mode = "denied"
           /\ p.secret = IF t.positional.sensitive THEN 1 ELSE 0
<1> DEFINE p == PushPositional(t, a, m)
           secret == IF t.positional.sensitive THEN 1 ELSE 0
<1>1. CASE a \notin t.unsafe /\ Permitted(t.positional, a) # {}
           /\ (t.positional.type = "path" \/ ~Dashed(a) \/ Len(a) = 1)
  <2>1. t.positional.type = "path" => Canon[a] # {}
    BY <1>1 DEF Permitted
  <2>2. Plain(a)
    BY <1>1, <2>1, CanonAssumption DEF Plain
  <2> QED
    BY <1>1, <2>2 DEF PushPositional, Parsed
<1>2. CASE ~(a \notin t.unsafe /\ Permitted(t.positional, a) # {}
             /\ (t.positional.type = "path" \/ ~Dashed(a) \/ Len(a) = 1))
  BY <1>2 DEF PushPositional, Denied
<1> QED
  BY <1>1, <1>2

LEMMA ArgFacts == ASSUME NEW a \in Args
                  PROVE  /\ a \in Text /\ Len(a) \in Nat /\ a \in DOMAIN Canon
                         /\ \A i \in 0 .. Len(a) : After(a, i) \in DOMAIN Canon
<1>1. a \in Text /\ Len(a) \in Nat /\ \A i \in 0 .. Len(a) : After(a, i) \in DOMAIN Canon
  BY TextAssumption DEF Text
<1>2. After(a, 0) = a
  <2>1. /\ After(a, 0) \in Text /\ Len(After(a, 0)) = Len(a)
        /\ \A j \in 1 .. Len(a) : After(a, 0)[j] = a[j]
    BY <1>1, AfterText
  <2> QED
    BY <1>1, <2>1, SeqEqual DEF Text
<1> QED
  BY <1>1, <1>2

\* A value accepted for a flag that is not sensitive does not look like a
\* flag and holds no letter of a sensitive one.
LEMMA AcceptedValue ==
    ASSUME policy \in DOMAIN Policies, InStep(Tool), NEW f \in DOMAIN Tool.params,
           Tool.params[f].type # "bool", ~Tool.params[f].sensitive,
           NEW v \in DOMAIN Canon, Permitted(Tool.params[f], v) # {}
    PROVE  /\ ~Dashed(v)
           /\ \A g \in SensitiveShort(Tool) : g[2] \notin ToSet(v)
BY DEF InStep, SensitiveShort, Sensitive

LEMMA PlainRedacted ==
    ASSUME policy \in DOMAIN Policies, InStep(Tool),
           flagOrder \in SetToSeqs(SensitiveShort(Tool)), ~skipNext,
           NEW a \in Text, Plain(a)
    PROVE  LET r == RedactArg(Tool, a) IN
           /\ ~r.skip /\ (r.delim <=> afterDelim) /\ r.entry.kept
           /\ r.entry.shown = IF Tool.positional.sensitive THEN 0 ELSE Len(a)
<1>2. a # Delimiter /\ ~Long(a) /\ (Dashed(a) => Len(a) = 1)
  BY DashedText DEF Plain, Text
<1>3. LetterFound(a) = NoFlag
  <2>1. LetterFound(a) # NoFlag => Short(a) /\ \E i \in 2 .. Len(a) : TRUE
    BY LetterFacts
  <2> QED
    BY <1>2, <2>1 DEF Short
<1>4. a \notin DOMAIN Tool.params
  BY <1>2, FlagFacts
<1>5. Key(a) \notin DOMAIN Tool.params
  <2>1. SUFFICES ASSUME Key(a) \in DOMAIN Tool.params PROVE FALSE
    OBVIOUS
  <2>2. Len(Key(a)) \in Nat /\ Len(Key(a)) > 1 /\ Key(a)[1] = "-"
    BY <2>1, FlagFacts
  <2>3. /\ Len(a) \in Nat /\ Len(Key(a)) <= Len(a)
        /\ \A i \in 1 .. Len(Key(a)) : Key(a)[i] = a[i]
    BY KeyText
  <2>4. Len(a) > 1 /\ a[1] = "-"
    BY <2>2, <2>3
  <2> QED
    BY <1>2, <2>4, DashedText
<1>6. ~(Dashed(a) /\ KnownFlag(Tool, a))
  <2>1. KnownFlag(Tool, a) => Long(a) \/ Len(a) > 1
    BY DEF KnownFlag
  <2>2. Dashed(a) => ~(Len(a) > 1)
    BY DashedText DEF Plain, Text
  <2> QED
    BY <1>2, <2>1, <2>2, Zenon
<1> QED
  BY <1>2, <1>3, <1>4, <1>5, <1>6 DEF RedactArg, Sensitive, Outcome, Show

LEMMA DashedPlain ==
    ASSUME NEW a \in Text, ~(Dashed(a) /\ Len(a) > 1)
    PROVE  Plain(a) /\ ~Long(a)
<1>1. /\ Dashed(a) <=> Len(a) >= 1 /\ a[1] = "-"
      /\ Long(a) <=> Len(a) >= 2 /\ a[1] = "-" /\ a[2] = "-"
      /\ Len(a) \in Nat
  BY DashedText DEF Text
<1> QED
  BY <1>1 DEF Plain

LEMMA VerbAgrees ==
    ASSUME SyncInv, InStep(Tool), parser.mode = "verb", NEW a \in Args
    PROVE  Agree(Tool, a, ParseArg(Tool, parser, a), RedactArg(Tool, a))
<1> DEFINE p == ParseArg(Tool, parser, a)
           r == RedactArg(Tool, a)
<1>1. /\ policy \in DOMAIN Policies /\ flagOrder \in SetToSeqs(SensitiveShort(Tool))
      /\ ~skipNext /\ ~afterDelim
  BY DEF SyncInv, ParserInv, Together, Reading
<1>2. /\ p = IF a \in Tool.verbs THEN Parsed("args", NoFlag, <<Emit("verb", a)>>, 0)
             ELSE Denied("unknown_verb", 0)
  BY DEF ParseArg
<1>3. CASE a \in Tool.verbs
  <2>1. Plain(a) /\ a \in Text
    BY <1>3, ArgFacts DEF InStep, Plain
  <2>2. /\ ~r.skip /\ ~r.delim /\ r.entry.kept
        /\ r.entry.shown = IF Tool.positional.sensitive THEN 0 ELSE Len(a)
    BY <1>1, <2>1, PlainRedacted
  <2>3. p.mode = "args" /\ p.secret = 0
    BY <1>2, <1>3 DEF Parsed
  <2> QED
    BY <2>2, <2>3 DEF Agree, Together
<1>4. CASE a \notin Tool.verbs
  <2>1. p.mode = "denied" /\ p.secret = 0
    BY <1>2, <1>4 DEF Denied
  <2> QED
    BY <2>1 DEF Agree, Reading
<1> QED
  BY <1>3, <1>4

LEMMA ValueAgrees ==
    ASSUME SyncInv, InStep(Tool), parser.mode = "value", NEW a \in Args
    PROVE  Agree(Tool, a, ParseArg(Tool, parser, a), RedactArg(Tool, a))
<1> DEFINE p == ParseArg(Tool, parser, a)
           r == RedactArg(Tool, a)
           c == Tool.params[parser.flag]
<1>1. /\ policy \in DOMAIN Policies /\ flagOrder \in SetToSeqs(SensitiveShort(Tool))
      /\ parser.flag \in DOMAIN Tool.params /\ c.type # "bool"
      /\ (skipNext <=> c.sensitive) /\ ~afterDelim
  BY DEF SyncInv, ParserInv, Together, Reading
<1>2. /\ (p.mode = "args" /\ Permitted(c, a) # {}) \/ p.mode = "denied"
      /\ p.secret = IF c.sensitive THEN 1 ELSE 0
  BY PushFlagValueFacts DEF ParseArg
<1>3. CASE c.sensitive
  <2>1. ~r.skip /\ ~r.delim /\ r.entry.shown = 0
    BY <1>1, <1>3 DEF RedactArg, Outcome, Show
  <2> QED
    BY <1>2, <1>3, <2>1 DEF Agree, Together, Reading
<1>4. CASE ~c.sensitive /\ p.mode = "args"
  <2>1. Plain(a) /\ a \in Text
    BY <1>1, <1>2, <1>4, ArgFacts, AcceptedValue DEF Plain
  <2>2. /\ ~r.skip /\ ~r.delim /\ r.entry.kept
        /\ r.entry.shown = IF Tool.positional.sensitive THEN 0 ELSE Len(a)
    BY <1>1, <1>4, <2>1, PlainRedacted
  <2> QED
    BY <1>2, <1>4, <2>2 DEF Agree, Together
<1>5. CASE ~c.sensitive /\ p.mode = "denied"
  BY <1>2, <1>5 DEF Agree, Reading
<1> QED
  BY <1>2, <1>3, <1>4, <1>5

LEMMA RestAgrees ==
    ASSUME SyncInv, InStep(Tool), parser.mode = "rest", NEW a \in Args
    PROVE  Agree(Tool, a, ParseArg(Tool, parser, a), RedactArg(Tool, a))
<1> DEFINE p == ParseArg(Tool, parser, a)
           r == RedactArg(Tool, a)
<1>1. /\ policy \in DOMAIN Policies /\ flagOrder \in SetToSeqs(SensitiveShort(Tool))
      /\ ~skipNext /\ afterDelim
  BY DEF SyncInv, ParserInv, Together, Reading
<1>2. /\ (p.mode = "rest" /\ Plain(a)) \/ p.mode = "denied"
      /\ p.secret = IF Tool.positional.sensitive THEN 1 ELSE 0
  BY ArgFacts, PushPositionalFacts DEF ParseArg
<1>3. CASE p.mode = "rest"
  <2>1. /\ ~r.skip /\ r.delim /\ r.entry.kept
        /\ r.entry.shown = IF Tool.positional.sensitive THEN 0 ELSE Len(a)
    BY <1>1, <1>2, <1>3, ArgFacts, PlainRedacted
  <2> QED
    BY <1>2, <1>3, <2>1 DEF Agree, Together
<1>4. CASE p.mode = "denied"
  <2>1. Tool.positional.sensitive /\ a # Delimiter => r.entry.shown = 0
    BY <1>1 DEF RedactArg, Outcome, Show
  <2> QED
    BY <1>2, <1>4, <2>1 DEF Agree, Reading
<1> QED
  BY <1>2, <1>3, <1>4

LEMMA PositionalAgrees ==
    ASSUME SyncInv, InStep(Tool), parser.mode = "args", NEW a \in Args, Plain(a)
    PROVE  Agree(Tool, a, PushPositional(Tool, a, "args"), RedactArg(Tool, a))
<1> DEFINE p == PushPositional(Tool, a, "args")
           r == RedactArg(Tool, a)
<1>1. /\ policy \in DOMAIN Policies /\ flagOrder \in SetToSeqs(SensitiveShort(Tool))
      /\ ~skipNext /\ ~afterDelim
  BY DEF SyncInv, ParserInv, Together, Reading
<1>2. /\ p.mode \in {"args", "denied"}
      /\ p.secret = IF Tool.positional.sensitive THEN 1 ELSE 0
  BY ArgFacts, PushPositionalFacts
<1>3. /\ ~r.skip /\ ~r.delim /\ r.entry.kept
      /\ r.entry.shown = IF Tool.positional.sensitive THEN 0 ELSE Len(a)
  BY <1>1, ArgFacts, PlainRedacted
<1> QED
  BY <1>2, <1>3 DEF Agree, Together, Reading
-----------------------------------------------------------------------------
(* Flags, and groups of them                                               *)

\* A flag without a secret is shown whole or, if it is long, leaves no trace.
LEMMA FlagRedacted ==
    ASSUME NEW a, ~skipNext, ~afterDelim, a # Delimiter, LetterFound(a) = NoFlag,
           ~Sensitive(Tool, a), ~Sensitive(Tool, Key(a)),
           Long(a) => Key(a) \in DOMAIN Tool.params
    PROVE  LET r == RedactArg(Tool, a) IN
           /\ ~r.skip /\ ~r.delim
           /\ ~Tool.positional.sensitive
                => IF r.entry.kept THEN r.entry.shown = Len(a)
                   ELSE Long(a) /\ Key(a) \in DOMAIN Tool.params
BY DEF RedactArg, Outcome, Show, Dropped

\* A sensitive letter is the place from which nothing is shown.
LEMMA LetterRedacted ==
    ASSUME policy \in DOMAIN Policies, InStep(Tool),
           flagOrder \in SetToSeqs(SensitiveShort(Tool)), ~skipNext, ~afterDelim,
           NEW a \in Text, a # Delimiter, Short(a), NEW end \in 2 .. Len(a),
           FlagOf(a[end]) \in SensitiveShort(Tool),
           \A i \in 2 .. end - 1 : FlagOf(a[i]) # FlagOf(a[end]),
           EqualSign(a) = 0 \/ ~Sensitive(Tool, Key(a))
    PROVE  LET r == RedactArg(Tool, a) IN
           /\ r.skip <=> end = Len(a)
           /\ ~r.delim /\ r.entry.kept /\ r.entry.shown = end
<1>1. LetterFound(a) = FlagOf(a[end]) /\ LetterFound(a) # NoFlag
  BY LetterFacts
<1>2. FlagOf(a[end]) \in DOMAIN Tool.params /\ Len(FlagOf(a[end])) = 2
  BY DEF SensitiveShort, Sensitive
<1>3. a[end] \in Symbol /\ a[1] = "-" /\ Len(a) \in Nat
  BY DashedText DEF Short, Text
<1>4. FlagOf(a[end])[2] = a[end] /\ a[end] # "-"
  BY <1>2, <1>3, FlagFacts, FlagOfText
<1>5. Place(a, a[end]) = end
  <2>1. /\ Place(a, a[end]) \in 0 .. Len(a)
        /\ Place(a, a[end]) = 0 => \A i \in 1 .. Len(a) : a[i] # a[end]
        /\ Place(a, a[end]) # 0 => /\ a[Place(a, a[end])] = a[end]
                                   /\ \A i \in 1 .. Len(a) : a[i] = a[end] => Place(a, a[end]) <= i
    BY PlaceText
  <2> DEFINE k == Place(a, a[end])
  <2>2. k \in 1 .. end /\ a[k] = a[end]
    BY <1>3, <2>1
  <2>3. k # 1
    BY <1>3, <1>4, <2>2
  <2>4. ASSUME k < end PROVE FALSE
    <3>1. k \in 2 .. end - 1
      BY <1>3, <2>2, <2>3, <2>4
    <3> QED
      BY <2>2, <3>1
  <2> QED
    BY <1>3, <2>2, <2>4
<1> QED
  BY <1>1, <1>4, <1>5 DEF RedactArg, Outcome, Show

\* The key of an argument that names a flag.
LEMMA KeyFacts ==
    ASSUME policy \in DOMAIN Policies, InStep(Tool), NEW a \in Text,
           Key(a) \in DOMAIN Tool.params
    PROVE  /\ Short(a) => Short(Key(a))
           /\ a \in DOMAIN Tool.params => Key(a) = a /\ EqualSign(a) = 0
           /\ Short(a) /\ Len(Key(a)) = 2 => Key(a) = FlagOf(a[2])
<1>1. /\ Key(a) \in Text /\ Len(Key(a)) \in Nat /\ Len(Key(a)) > 1 /\ Key(a)[1] = "-"
      /\ Dashed(Key(a)) /\ (Len(Key(a)) = 2 => Key(a) = FlagOf(Key(a)[2]))
  BY FlagFacts
<1>2. /\ Len(a) \in Nat /\ Len(Key(a)) <= Len(a)
      /\ \A i \in 1 .. Len(Key(a)) : Key(a)[i] = a[i]
      /\ EqualSign(a) = 0 => Key(a) = a
  BY KeyText
<1>3. Key(a)[2] = a[2] /\ Len(a) > 1
  BY <1>1, <1>2
<1>4. Short(a) => Short(Key(a))
  BY <1>1, <1>3, DashedText DEF Short
<1>5. a \in DOMAIN Tool.params => EqualSign(a) = 0
  BY FlagFacts
<1> QED
  BY <1>1, <1>2, <1>3, <1>4, <1>5

LEMMA NoLetterInFlag ==
    ASSUME policy \in DOMAIN Policies, InStep(Tool),
           flagOrder \in SetToSeqs(SensitiveShort(Tool)), NEW a \in Text,
           Key(a) \in DOMAIN Tool.params, ~Tool.params[Key(a)].sensitive,
           EqualSign(a) = 0 \/ \A g \in SensitiveShort(Tool) : g[2] \notin ToSet(After(a, EqualSign(a)))
    PROVE  LetterFound(a) = NoFlag
<1> SUFFICES ASSUME LetterFound(a) # NoFlag PROVE FALSE
  OBVIOUS
<1> DEFINE f == LetterFound(a)
<1>1. Short(a) /\ f \in SensitiveShort(Tool)
  BY LetterFacts
<1>2. PICK i \in 2 .. Len(a) : FlagOf(a[i]) = f
  BY LetterFacts
<1>3. /\ Key(a) \in Text /\ Len(Key(a)) \in Nat /\ Len(Key(a)) > 1
  BY FlagFacts
<1>4. Len(Key(a)) = 2
  <2>1. Short(Key(a)) /\ Len(Key(a)) > 2 => SensitiveShort(Tool) = {}
    BY DEF InStep, SensitiveShort, Sensitive
  <2>2. Short(Key(a))
    BY <1>1, KeyFacts
  <2>3. ~(Len(Key(a)) > 2)
    BY <1>1, <2>1, <2>2
  <2>4. \A n \in Nat : n > 1 /\ ~(n > 2) => n = 2
    OBVIOUS
  <2> QED
    BY <1>3, <2>3, <2>4
<1>5. i # 2
  <2>1. Key(a) = FlagOf(a[2])
    BY <1>1, <1>4, KeyFacts
  <2> QED
    BY <1>1, <1>2, <2>1 DEF SensitiveShort, Sensitive
<1>6. /\ EqualSign(a) \in 0 .. Len(a) /\ Len(a) \in Nat
      /\ EqualSign(a) = 0 => Key(a) = a
      /\ EqualSign(a) # 0 => Len(Key(a)) = EqualSign(a) - 1
      /\ EqualSign(a) # 0 => a[EqualSign(a)] = "="
  BY KeyText
<1>7. EqualSign(a) = 3 /\ a[3] = "="
  BY <1>2, <1>4, <1>5, <1>6
<1>8. a[i] \in Symbol /\ f[2] = a[i]
  BY <1>2, FlagOfText DEF Text
<1>9. i # 3
  <2>1. f \in DOMAIN Tool.params /\ Len(f) = 2
    BY <1>1 DEF SensitiveShort, Sensitive
  <2>2. f[2] # "="
    BY <2>1, FlagFacts
  <2> QED
    BY <1>7, <1>8, <2>2
<1>10. a[i] \in ToSet(After(a, 3))
  <2>1. /\ After(a, 3) \in Text /\ Len(After(a, 3)) = Len(a) - 3
        /\ \A j \in 1 .. Len(a) - 3 : After(a, 3)[j] = a[3 + j]
    BY <1>6, <1>7, AfterText
  <2>2. i - 3 \in 1 .. Len(a) - 3 /\ 3 + (i - 3) = i
    BY <1>2, <1>5, <1>6, <1>9
  <2>3. After(a, 3)[i - 3] = a[i]
    BY <2>1, <2>2
  <2> QED
    BY <2>1, <2>2, <2>3, ToSetText
<1> QED
  BY <1>1, <1>7, <1>8, <1>10

LEMMA WholeFlagAgrees ==
    ASSUME SyncInv, InStep(Tool), parser.mode = "args", NEW a \in Args,
           a # Delimiter, Key(a) \in DOMAIN Tool.params
    PROVE  Agree(Tool, a, ProcessFlagWithValue(Tool, a), RedactArg(Tool, a))
<1> DEFINE c == Tool.params[Key(a)]
           eq == EqualSign(a)
           value == After(a, eq)
           p == ProcessFlagWithValue(Tool, a)
           r == RedactArg(Tool, a)
<1>1. /\ policy \in DOMAIN Policies /\ flagOrder \in SetToSeqs(SensitiveShort(Tool))
      /\ ~skipNext /\ ~afterDelim
  BY DEF SyncInv, ParserInv, Together, Reading
<1>2. a \in Text /\ Len(a) \in Nat /\ eq \in 0 .. Len(a)
  BY ArgFacts, KeyText
<1>3. value \in DOMAIN Canon
  BY <1>2, ArgFacts
<1>4. c.type = "bool" => ~c.sensitive
  BY <1>1, FlagFacts
<1>5. a \in DOMAIN Tool.params => Key(a) = a /\ eq = 0
  BY <1>1, <1>2, KeyFacts
<1>6. ASSUME ~c.sensitive, p.mode # "denied", p.secret = 0,
             p.mode = "args" \/ (p.mode = "value" /\ p.flag = Key(a)),
             eq # 0 => c.type # "bool" /\ Permitted(c, value) # {}
      PROVE  Agree(Tool, a, p, r)
  <2>1. eq # 0 => \A g \in SensitiveShort(Tool) : g[2] \notin ToSet(value)
    BY <1>1, <1>3, <1>6, AcceptedValue
  <2>2. LetterFound(a) = NoFlag
    BY <1>1, <1>2, <1>6, <2>1, NoLetterInFlag
  <2>3. ~Sensitive(Tool, a) /\ ~Sensitive(Tool, Key(a))
    BY <1>5, <1>6 DEF Sensitive
  <2>4. /\ ~r.skip /\ ~r.delim
        /\ ~Tool.positional.sensitive
             => IF r.entry.kept THEN r.entry.shown = Len(a)
                ELSE Long(a) /\ Key(a) \in DOMAIN Tool.params
    BY <1>1, <2>2, <2>3, FlagRedacted
  <2> QED
    BY <1>6, <2>4 DEF Agree, Together
<1>7. CASE c.type = "bool"
  <2>1. CASE eq # 0
    <3>1. p.mode = "denied" /\ p.secret = 0
      BY <1>7, <2>1 DEF ProcessFlagWithValue, Denied
    <3> QED
      BY <3>1 DEF Agree, Reading
  <2>2. CASE eq = 0
    <3>1. p.mode = "args" /\ p.secret = 0
      BY <1>7, <2>2 DEF ProcessFlagWithValue, Parsed
    <3> QED
      BY <1>4, <1>6, <1>7, <2>2, <3>1
  <2> QED
    BY <2>1, <2>2
<1>8. CASE c.type # "bool" /\ eq # 0
  <2>1. /\ (p.mode = "args" /\ Permitted(c, value) # {}) \/ p.mode = "denied"
        /\ p.secret = IF c.sensitive THEN eq + 1 ELSE 0
    <3>1. p = PushFlagValue(Tool, Key(a), value, eq + 1, <<>>)
      BY <1>8 DEF ProcessFlagWithValue
    <3> QED
      BY <3>1, PushFlagValueFacts
  <2>2. CASE c.sensitive
    <3>1. Sensitive(Tool, Key(a))
      BY <2>2 DEF Sensitive
    <3>2. ~r.skip /\ ~r.delim /\ r.entry.shown = eq
      BY <1>1, <1>8, <3>1 DEF RedactArg, Outcome, Show
    <3>3. ~(eq >= eq + 1)
      BY <1>2
    <3> QED
      BY <1>2, <2>1, <2>2, <3>2, <3>3 DEF Agree, Together, Reading
  <2>3. CASE ~c.sensitive /\ p.mode = "args"
    BY <1>6, <1>8, <2>1, <2>3
  <2>4. CASE ~c.sensitive /\ p.mode = "denied"
    BY <2>1, <2>4 DEF Agree, Reading
  <2> QED
    BY <2>1, <2>2, <2>3, <2>4
<1>9. CASE c.type # "bool" /\ eq = 0
  <2>1. Key(a) = a
    BY <1>2, <1>9, KeyText
  <2>2. p.mode = "value" /\ p.flag = a /\ p.secret = 0
    BY <1>9, <2>1 DEF ProcessFlagWithValue, Parsed
  <2>3. CASE c.sensitive
    <3>1. CASE LetterFound(a) = NoFlag
      <4>1. Sensitive(Tool, a)
        BY <2>1, <2>3 DEF Sensitive
      <4>2. r.skip /\ ~r.delim /\ r.entry.kept /\ r.entry.shown = Len(a)
        BY <1>1, <1>9, <3>1, <4>1 DEF RedactArg, Outcome, Show
      <4> QED
        BY <2>1, <2>2, <2>3, <4>2 DEF Agree, Together
    <3>2. CASE LetterFound(a) # NoFlag
      <4>1. Short(a) /\ LetterFound(a) \in SensitiveShort(Tool)
        BY <1>1, <1>2, <3>2, LetterFacts
      <4>2. Len(a) > 2 => SensitiveShort(Tool) = {}
        BY <2>1, <4>1 DEF InStep, SensitiveShort, Sensitive
      <4>3. Len(a) = 2 /\ a = FlagOf(a[2])
        <5>1. a \in DOMAIN Tool.params /\ Len(a) \in Nat /\ ~(Len(a) > 2)
          BY <1>2, <2>1, <4>1, <4>2
        <5>2. Len(a) > 1 /\ (Len(a) = 2 => a = FlagOf(a[2]))
          BY <1>1, <5>1, FlagFacts
        <5>3. \A n \in Nat : n > 1 /\ ~(n > 2) => n = 2
          OBVIOUS
        <5> QED
          BY <5>1, <5>2, <5>3
      <4>4. FlagOf(a[2]) \in SensitiveShort(Tool)
        BY <2>1, <2>3, <4>1, <4>3 DEF SensitiveShort, Sensitive
      <4>5. r.skip /\ ~r.delim /\ r.entry.kept /\ r.entry.shown = 2
        <5>1. 2 \in 2 .. Len(a) /\ \A i \in 2 .. 2 - 1 : FALSE
          BY <4>3
        <5> QED
          BY <1>1, <1>2, <1>9, <4>1, <4>3, <4>4, <5>1, LetterRedacted
      <4> QED
        BY <2>1, <2>2, <2>3, <4>3, <4>5 DEF Agree, Together
    <3> QED
      BY <3>1, <3>2
  <2>4. CASE ~c.sensitive
    BY <1>6, <1>9, <2>1, <2>2, <2>4
  <2> QED
    BY <2>3, <2>4
<1> QED
  BY <1>7, <1>8, <1>9

LEMMA GroupEndFacts ==
    ASSUME NEW t, NEW a \in Text, Len(a) > 1
    PROVE  /\ GroupEnd(t, a) \in 2 .. Len(a) + 1
           /\ \A i \in 2 .. Len(a) : i < GroupEnd(t, a) => IsSwitch(t, FlagOf(a[i]))
           /\ GroupEnd(t, a) <= Len(a) => ~IsSwitch(t, FlagOf(a[GroupEnd(t, a)]))
<1> DEFINE S == {i \in 2 .. Len(a) : ~IsSwitch(t, FlagOf(a[i]))} \cup {Len(a) + 1}
<1>1. Len(a) \in Nat
  BY DEF Text
<1>2. S \in SUBSET Nat /\ S # {}
  BY <1>1
<1>3. GroupEnd(t, a) \in S /\ \A n \in S : GroupEnd(t, a) <= n
  <2> HIDE DEF S
  <2>1. GroupEnd(t, a) = Min(S)
    BY DEF GroupEnd, S
  <2> QED
    BY <1>2, <2>1, MinPlace
<1>4. GroupEnd(t, a) \in 2 .. Len(a) + 1
  BY <1>1, <1>3
<1> QED
  BY <1>1, <1>3, <1>4

\* Letters of switches are not secret.
LEMMA SwitchFacts ==
    ASSUME policy \in DOMAIN Policies, InStep(Tool), NEW f, IsSwitch(Tool, f)
    PROVE  f \notin SensitiveShort(Tool)
BY FlagFacts DEF IsSwitch, SensitiveShort, Sensitive

LEMMA GroupAgrees ==
    ASSUME SyncInv, InStep(Tool), parser.mode = "args", NEW a \in Args,
           Short(a), Len(a) > 1, Key(a) \notin DOMAIN Tool.params
    PROVE  Agree(Tool, a, ProcessShortGroup(Tool, a), RedactArg(Tool, a))
<1> DEFINE end == GroupEnd(Tool, a)
           flag == FlagOf(a[end])
           c == Tool.params[flag]
           value == After(a, end)
           p == ProcessShortGroup(Tool, a)
           r == RedactArg(Tool, a)
<1>1. /\ policy \in DOMAIN Policies /\ flagOrder \in SetToSeqs(SensitiveShort(Tool))
      /\ ~skipNext /\ ~afterDelim
  BY DEF SyncInv, ParserInv, Together, Reading
<1>2. a \in Text /\ Len(a) \in Nat
  BY ArgFacts
<1>3. /\ end \in 2 .. Len(a) + 1
      /\ \A i \in 2 .. Len(a) : i < end => IsSwitch(Tool, FlagOf(a[i]))
      /\ end <= Len(a) => ~IsSwitch(Tool, flag)
  BY <1>2, GroupEndFacts
<1>4. \A i \in 2 .. Len(a) : i < end => FlagOf(a[i]) \notin SensitiveShort(Tool)
  BY <1>1, <1>3, SwitchFacts
<1>5. a # Delimiter /\ ~Long(a) /\ a \notin DOMAIN Tool.params
  <2>1. a \in DOMAIN Tool.params => Key(a) = a
    BY <1>1, <1>2, FlagFacts, KeyText
  <2> QED
    BY <1>2, <2>1, DashedText DEF Short
<1> HIDE DEF end
<1>6. ASSUME \A i \in 2 .. Len(a) : i >= end => FlagOf(a[i]) \notin SensitiveShort(Tool),
             p.secret = 0, p.mode = "args" \/ (p.mode = "value" /\ ~Tool.params[p.flag].sensitive)
      PROVE  Agree(Tool, a, p, r)
  <2>1. \A i \in 2 .. Len(a) : FlagOf(a[i]) \notin SensitiveShort(Tool)
    BY <1>2, <1>3, <1>4, <1>6
  <2>2. LetterFound(a) = NoFlag
    BY <1>1, <1>2, <2>1, LetterFacts
  <2>3. ~Sensitive(Tool, a) /\ ~Sensitive(Tool, Key(a))
    BY <1>5 DEF Sensitive
  <2>4. /\ ~r.skip /\ ~r.delim
        /\ ~Tool.positional.sensitive
             => IF r.entry.kept THEN r.entry.shown = Len(a)
                ELSE Long(a) /\ Key(a) \in DOMAIN Tool.params
    BY <1>1, <1>5, <2>2, <2>3, FlagRedacted
  <2> QED
    BY <1>6, <2>4 DEF Agree, Together
<1>7. CASE end > Len(a)
  <2>1. p.mode = "args" /\ p.secret = 0
    BY <1>7 DEF ProcessShortGroup, Parsed, end
  <2>2. \A i \in 2 .. Len(a) : i >= end => FALSE
    BY <1>2, <1>3, <1>7
  <2> QED
    BY <1>6, <2>1, <2>2
<1>8. CASE ~(end > Len(a)) /\ flag \notin DOMAIN Tool.params
  <2>1. p.mode = "denied" /\ p.secret = 0
    BY <1>8 DEF ProcessShortGroup, Denied, end
  <2> QED
    BY <2>1 DEF Agree, Reading
<1>9. CASE ~(end > Len(a)) /\ flag \in DOMAIN Tool.params
  <2>1. end \in 2 .. Len(a) /\ a[end] \in Symbol /\ c.type # "bool"
    <3>1. end \in 2 .. Len(a)
      BY <1>2, <1>3, <1>9
    <3> QED
      BY <1>2, <1>3, <1>9, <3>1 DEF IsSwitch, Text
  <2>2. Len(flag) = 2 /\ Short(flag) /\ flag[2] = a[end]
    BY <1>1, <1>9, <2>1, FlagOfText, FlagFacts
  <2>3. flag \in SensitiveShort(Tool) <=> c.sensitive
    BY <1>9, <2>2 DEF SensitiveShort, Sensitive
  <2>4. c.sensitive => /\ r.skip <=> end = Len(a)
                       /\ ~r.delim /\ r.entry.kept /\ r.entry.shown = end
    <3>1. \A i \in 2 .. end - 1 : i \in 2 .. Len(a) /\ i < end
      BY <1>2, <2>1
    <3>2. c.sensitive => \A i \in 2 .. end - 1 : FlagOf(a[i]) # flag
      BY <1>4, <2>3, <3>1
    <3>3. ~Sensitive(Tool, Key(a))
      BY DEF Sensitive
    <3> QED
      BY <1>1, <1>2, <1>5, <2>1, <2>3, <3>2, <3>3, LetterRedacted
  <2>5. CASE end = Len(a)
    <3>1. p.mode = "value" /\ p.flag = flag /\ p.secret = 0
      BY <1>9, <2>5 DEF ProcessShortGroup, Parsed, end
    <3>2. CASE c.sensitive
      BY <2>4, <2>5, <3>1, <3>2 DEF Agree, Together
    <3>3. CASE ~c.sensitive
      <4>1. \A i \in 2 .. Len(a) : i >= end => i = end
        BY <1>2, <2>1, <2>5
      <4> QED
        BY <1>6, <2>3, <3>1, <3>3, <4>1
    <3> QED
      BY <3>2, <3>3
  <2>6. CASE end # Len(a)
    <3>1. /\ (p.mode = "args" /\ Permitted(c, value) # {}) \/ p.mode = "denied"
          /\ p.secret = IF c.sensitive THEN end + 1 ELSE 0
      <4>1. \E before : p = PushFlagValue(Tool, flag, value, end + 1, before)
        BY <1>9, <2>6 DEF ProcessShortGroup, end
      <4> QED
        BY <4>1, PushFlagValueFacts
    <3>2. CASE c.sensitive
      <4>1. ~(end >= end + 1)
        BY <2>1
      <4> QED
        BY <2>1, <2>4, <2>6, <3>1, <3>2, <4>1 DEF Agree, Together, Reading
    <3>3. CASE ~c.sensitive /\ p.mode = "args"
      <4>1. value \in DOMAIN Canon
        BY <2>1, ArgFacts
      <4>2. \A g \in SensitiveShort(Tool) : g[2] \notin ToSet(value)
        BY <1>1, <1>9, <2>1, <3>1, <3>3, <4>1, AcceptedValue
      <4>3. ASSUME NEW i \in 2 .. Len(a), i >= end
            PROVE  FlagOf(a[i]) \notin SensitiveShort(Tool)
        <5>1. CASE i = end
          BY <2>3, <3>3, <5>1
        <5>2. CASE i # end
          <6>1. /\ value \in Text /\ Len(value) = Len(a) - end
                /\ \A j \in 1 .. Len(a) - end : value[j] = a[end + j]
            BY <1>2, <2>1, AfterText
          <6>2. i - end \in 1 .. Len(a) - end /\ end + (i - end) = i
            BY <1>2, <2>1, <4>3, <5>2
          <6>3. a[i] \in ToSet(value)
            BY <6>1, <6>2, ToSetText
          <6>4. a[i] \in Symbol
            BY <1>2 DEF Text
          <6> QED
            BY <4>2, <6>3, <6>4, FlagOfText
        <5> QED
          BY <5>1, <5>2
      <4> QED
        BY <1>6, <3>1, <3>3, <4>3
    <3>4. CASE ~c.sensitive /\ p.mode = "denied"
      BY <3>1, <3>4 DEF Agree, Reading
    <3> QED
      BY <3>1, <3>2, <3>3, <3>4
  <2> QED
    BY <2>5, <2>6
<1> QED
  BY <1>7, <1>8, <1>9

LEMMA ReadAgrees ==
    ASSUME SyncInv, InStep(Tool), parser.mode \in Reading, NEW a \in Args
    PROVE  Agree(Tool, a, ParseArg(Tool, parser, a), RedactArg(Tool, a))
<1>1. CASE parser.mode = "args"
  <2>1. /\ ~skipNext /\ ~afterDelim /\ a \in Text /\ Len(a) \in Nat
        /\ policy \in DOMAIN Policies
    BY <1>1, ArgFacts DEF SyncInv, ParserInv, Together, Reading
  <2>2. CASE a = Delimiter
    <3>1. ParseArg(Tool, parser, a) = Parsed("rest", NoFlag, <<>>, 0)
      <4>1. Long(a) /\ ~Short(a)
        BY <2>1, <2>2, DashedText DEF Short
      <4> QED
        BY <1>1, <2>2, <4>1 DEF ParseArg
    <3>2. RedactArg(Tool, a) = Outcome(Show(Len(a)), FALSE, TRUE)
      BY <2>1, <2>2 DEF RedactArg
    <3> QED
      BY <3>1, <3>2 DEF Agree, Together, Parsed, Outcome, Show
  <2>3. CASE a # Delimiter /\ Dashed(a) /\ Len(a) > 1 /\ Key(a) \in DOMAIN Tool.params
    <3>1. ParseArg(Tool, parser, a) = ProcessFlagWithValue(Tool, a)
      BY <1>1, <2>3 DEF ParseArg, Short
    <3> QED
      BY <1>1, <2>3, <3>1, WholeFlagAgrees
  <2>4. CASE a # Delimiter /\ Short(a) /\ Len(a) > 1 /\ Key(a) \notin DOMAIN Tool.params
    <3>1. ParseArg(Tool, parser, a) = ProcessShortGroup(Tool, a)
      BY <1>1, <2>4 DEF ParseArg, Short
    <3> QED
      BY <1>1, <2>4, <3>1, GroupAgrees
  <2>5. CASE a # Delimiter /\ Long(a) /\ Key(a) \notin DOMAIN Tool.params
    <3>1. ParseArg(Tool, parser, a) = Denied("unknown_flag", 0)
      BY <1>1, <2>5 DEF ParseArg, Short
    <3> QED
      BY <3>1 DEF Agree, Denied, Reading
  <2>6. CASE a # Delimiter /\ ~(Dashed(a) /\ Len(a) > 1)
    <3>1. Plain(a) /\ ~Long(a)
      BY <2>1, <2>6, DashedPlain
    <3>2. ParseArg(Tool, parser, a) = PushPositional(Tool, a, "args")
      BY <1>1, <2>6, <3>1 DEF ParseArg, Short
    <3> QED
      BY <1>1, <3>1, <3>2, PositionalAgrees
  <2>7. Dashed(a) /\ Len(a) > 1 => Short(a) \/ Long(a)
    BY DEF Short
  <2> QED
    BY <2>2, <2>3, <2>4, <2>5, <2>6, <2>7
<1> QED
  BY <1>1, VerbAgrees, ValueAgrees, RestAgrees DEF Reading

LEMMA ParsedFacts ==
    ASSUME NEW t, NEW st, st.mode \in Reading, NEW a \in Args,
           st.mode = "value" => st.flag \in DOMAIN t.params
    PROVE  LET p == ParseArg(t, st, a) IN
           /\ p.mode \in {"args", "value", "rest", "denied"}
           /\ p.mode = "value" => p.flag \in DOMAIN t.params /\ t.params[p.flag].type # "bool"
           /\ p.mode = "denied" => p.slug # "open"
<1> DEFINE Good(p) == /\ p.mode \in {"args", "value", "rest", "denied"}
                      /\ p.mode = "value" => p.flag \in DOMAIN t.params /\ t.params[p.flag].type # "bool"
                      /\ p.mode = "denied" => p.slug # "open"
<1>1. ASSUME NEW out, NEW secret, NEW flag
      PROVE  /\ Good(Parsed("args", flag, out, secret)) /\ Good(Parsed("rest", flag, out, secret))
             /\ Good(Denied("unknown_flag", secret)) /\ Good(Denied("unknown_verb", secret))
             /\ Good(Denied("blocked_argument", secret))
             /\ flag \in DOMAIN t.params /\ t.params[flag].type # "bool"
                  => Good(Parsed("value", flag, out, secret))
  BY DEF Parsed, Denied
<1> HIDE DEF Good
<1>2. ASSUME NEW flag, NEW value, NEW from, NEW before
      PROVE  Good(PushFlagValue(t, flag, value, from, before))
  BY <1>1 DEF PushFlagValue
<1>3. Good(PushPositional(t, a, "args")) /\ Good(PushPositional(t, a, "rest"))
  BY <1>1 DEF PushPositional
<1>4. ASSUME Key(a) \in DOMAIN t.params PROVE Good(ProcessFlagWithValue(t, a))
  BY <1>1, <1>2, <1>4 DEF ProcessFlagWithValue
<1>5. ASSUME Short(a), Len(a) > 1 PROVE Good(ProcessShortGroup(t, a))
  <2> DEFINE end == GroupEnd(t, a)
  <2>1. end <= Len(a) => ~IsSwitch(t, FlagOf(a[end]))
    BY <1>5, ArgFacts, GroupEndFacts
  <2>2. end \in Int /\ Len(a) \in Int
    BY <1>5, ArgFacts, GroupEndFacts
  <2> HIDE DEF end
  <2>3. CASE end > Len(a)
    BY <1>1, <2>3 DEF ProcessShortGroup, end
  <2>4. CASE end <= Len(a) /\ FlagOf(a[end]) \notin DOMAIN t.params
    BY <1>1, <2>2, <2>4 DEF ProcessShortGroup, end
  <2>5. CASE end < Len(a) /\ FlagOf(a[end]) \in DOMAIN t.params
    BY <1>2, <2>2, <2>5 DEF ProcessShortGroup, end
  <2>6. CASE end = Len(a) /\ FlagOf(a[end]) \in DOMAIN t.params
    <3>1. t.params[FlagOf(a[end])].type # "bool"
      BY <2>1, <2>2, <2>6 DEF IsSwitch
    <3> DEFINE switches == [i \in 1 .. end - 2 |-> Emit("flag", FlagOf(a[i + 1]))]
    <3>2. ProcessShortGroup(t, a) = Parsed("value", FlagOf(a[end]), switches, 0)
      <4>1. ~(end > Len(a))
        BY <2>2, <2>6
      <4> QED
        BY <2>6, <4>1 DEF ProcessShortGroup, end
    <3> HIDE DEF switches
    <3> QED
      BY <1>1, <2>6, <3>1, <3>2
  <2> QED
    BY <2>2, <2>3, <2>4, <2>5, <2>6
<1>6. Good(ParseArg(t, st, a))
  BY <1>1, <1>2, <1>3, <1>4, <1>5 DEF ParseArg, Reading
<1> QED
  BY <1>6 DEF Good

-----------------------------------------------------------------------------
(* The invariants                                                          *)

LEMMA SyncInit == Init => SyncInv
<1> SUFFICES ASSUME Init PROVE SyncInv
  OBVIOUS
<1>1. /\ policy \in DOMAIN Policies /\ parser = StartParse(Tool)
      /\ verdict = IF parser.mode = "denied" THEN parser.slug ELSE "open"
      /\ flagOrder \in SetToSeqs(SensitiveShort(Tool)) /\ skipNext = FALSE /\ afterDelim = FALSE
  BY DEF Init, ValidatorInit, RedactionInit
<1>2. /\ parser.mode \in {"verb", "args", "denied"}
      /\ parser.mode # "denied" => Tool.known
      /\ parser.mode = "denied" => parser.slug # "open"
  BY <1>1 DEF StartParse, Parsed, Denied
<1> QED
  BY <1>1, <1>2 DEF SyncInv, ParserInv, Together, Reading

\* One argument read: both parsers move, or validation has stopped.
LEMMA ReadFacts ==
    ASSUME SyncInv, NEW a \in Args, Read(a)
    PROVE  /\ Tool' = Tool /\ policy' = policy /\ flagOrder' = flagOrder /\ arg' = a
           /\ parser.mode \in Reading =>
                 /\ Tool.known
                 /\ parser' = ParseArg(Tool, parser, a)
                 /\ verdict' = IF verdict = "open" /\ parser'.mode = "denied" THEN parser'.slug ELSE verdict
                 /\ entry' = RedactArg(Tool, a).entry
                 /\ skipNext' = RedactArg(Tool, a).skip /\ afterDelim' = RedactArg(Tool, a).delim
           /\ parser.mode \notin Reading =>
                 parser'.mode = "denied" /\ parser'.secret = 0 /\ verdict' # "open"
           /\ ~Tool.known => entry' = UnknownToolEntry(Tool.audit, a)
<1>1. /\ policy' = policy /\ flagOrder' = flagOrder /\ arg' = a
      /\ parser.mode # "end" /\ parser' = ParseArg(Tool, parser, a)
      /\ verdict' = IF verdict = "open" /\ parser'.mode = "denied" THEN parser'.slug ELSE verdict
  BY DEF Read, ValidateArg, Redact
<1>2. LET r == IF Tool.known THEN RedactArg(Tool, a)
               ELSE Outcome(UnknownToolEntry(Tool.audit, a), FALSE, FALSE)
      IN  entry' = r.entry /\ skipNext' = r.skip /\ afterDelim' = r.delim
  BY DEF Read, Redact
<1>3. parser.mode \in Reading => Tool.known
  BY DEF SyncInv, ParserInv
<1>4. ASSUME parser.mode \notin Reading
      PROVE  parser'.mode = "denied" /\ parser'.secret = 0 /\ verdict' # "open"
  <2>1. parser.mode = "denied" /\ verdict # "open"
    BY <1>1, <1>4 DEF SyncInv, ParserInv
  <2>2. parser' = Denied("none", 0)
    BY <1>1, <2>1 DEF ParseArg
  <2> QED
    BY <1>1, <2>1, <2>2 DEF Denied
<1>5. Tool' = Tool
  BY <1>1 DEF Tool
<1>6. ~Tool.known => entry' = UnknownToolEntry(Tool.audit, a)
  BY <1>2 DEF Outcome
<1> QED
  BY <1>1, <1>2, <1>3, <1>4, <1>5, <1>6

LEMMA FinishFacts ==
    ASSUME Finish
    PROVE  /\ Tool' = Tool /\ UNCHANGED <<policy, flagOrder, skipNext, afterDelim, entry, arg>>
           /\ parser'.mode = "end" /\ parser'.secret = 0
           /\ verdict' # "open"
BY DEF Finish, EndOfArgs, redaction, Tool, Parsed

LEMMA SyncNext == SyncInv /\ [Next]_vars => SyncInv'
<1> SUFFICES ASSUME SyncInv, [Next]_vars PROVE SyncInv'
  OBVIOUS
<1>1. ASSUME NEW a \in Args, Read(a) PROVE SyncInv'
  <2>1. CASE parser.mode \in Reading
    <3>1. parser.mode = "value" => parser.flag \in DOMAIN Tool.params
      BY DEF SyncInv, ParserInv
    <3>2. /\ parser'.mode \in {"args", "value", "rest", "denied"}
          /\ parser'.mode = "value" => /\ parser'.flag \in DOMAIN Tool.params
                                       /\ Tool.params[parser'.flag].type # "bool"
          /\ parser'.mode = "denied" => parser'.slug # "open"
      <4> DEFINE after == ParseArg(Tool, parser, a)
      <4>1. parser' = after /\ Tool' = Tool
        BY <1>1, <2>1, ReadFacts
      <4>2. /\ after.mode \in {"args", "value", "rest", "denied"}
            /\ after.mode = "value" => /\ after.flag \in DOMAIN Tool.params
                                       /\ Tool.params[after.flag].type # "bool"
            /\ after.mode = "denied" => after.slug # "open"
        BY <2>1, <3>1, ParsedFacts
      <4> HIDE DEF after
      <4> QED
        BY <4>1, <4>2
    <3>3. ParserInv'
      <4>1. verdict' = "open" => parser'.mode # "denied"
        BY <1>1, <2>1, <3>2, ReadFacts
      <4> QED
        BY <1>1, <2>1, <3>2, <4>1, ReadFacts DEF SyncInv, ParserInv, Reading
    <3>4. InStep(Tool) /\ parser'.mode \in Reading
             => Together(Tool, parser'.mode, parser'.flag, skipNext', afterDelim')
      BY <1>1, <2>1, ReadFacts, ReadAgrees DEF Agree
    <3> QED
      BY <1>1, <3>3, <3>4, ReadFacts DEF SyncInv
  <2>2. CASE parser.mode \notin Reading
    BY <1>1, <2>2, ReadFacts DEF SyncInv, ParserInv, Reading
  <2> QED
    BY <2>1, <2>2
<1>2. CASE Finish
  BY <1>2, FinishFacts DEF SyncInv, ParserInv, Reading
<1>3. CASE UNCHANGED vars
  BY <1>3 DEF vars, validator, redaction, SyncInv, ParserInv, Together, Tool
<1> QED
  BY <1>1, <1>2, <1>3 DEF Next

LEMMA SyncAlways == Spec => []SyncInv
BY SyncInit, SyncNext, PTL DEF Spec

-----------------------------------------------------------------------------
(* What the audit event hides                                              *)

LEMMA UnknownToolFacts ==
    ASSUME NEW a \in Text, Tool.audit \in {"minimal", "keys_only", "full"},
           Tool.audit # "full", UnknownToolEntry(Tool.audit, a).shown > 0
    PROVE  LET n == UnknownToolEntry(Tool.audit, a).shown IN
           /\ Tool.audit = "keys_only" /\ Dashed(a)
           /\ EqualSign(a) # 0 => n <= EqualSign(a)
           /\ Short(a) /\ EqualSign(a) = 0 => n <= 2
<1> DEFINE e == UnknownToolEntry(Tool.audit, a)
<1>1. ~(0 > 0) /\ Tool.audit = "keys_only"
  BY DEF UnknownToolEntry, Show
<1>2. CASE EqualSign(a) # 0
  <2>1. e = Show(IF Dashed(a) THEN EqualSign(a) ELSE 0)
    BY <1>1, <1>2 DEF UnknownToolEntry
  <2>2. Dashed(a) /\ e.shown = EqualSign(a)
    BY <1>1, <2>1 DEF Show
  <2>3. EqualSign(a) <= EqualSign(a)
    BY KeyText
  <2> QED
    BY <1>1, <1>2, <2>2, <2>3
<1>3. CASE EqualSign(a) = 0
  <2>1. e = Show(IF ~Dashed(a) THEN 0 ELSE IF Short(a) THEN Min({2, Len(a)}) ELSE Len(a))
    BY <1>1, <1>3 DEF UnknownToolEntry
  <2>2. Dashed(a) /\ (Short(a) => e.shown = Min({2, Len(a)}))
    BY <1>1, <2>1 DEF Show
  <2>3. Min({2, Len(a)}) <= 2
    <3>1. {2, Len(a)} \in SUBSET Nat
      BY DEF Text
    <3> QED
      BY <3>1, MinPlace
  <2> QED
    BY <1>1, <1>3, <2>2, <2>3
<1> QED
  BY <1>2, <1>3

LEMMA HiddenInit == Init => SensitiveHidden
<1> SUFFICES ASSUME Init PROVE SensitiveHidden
  OBVIOUS
<1>1. parser.secret = 0 /\ entry.shown = 0 /\ ~(0 > 0)
  BY DEF Init, ValidatorInit, RedactionInit, StartParse, Parsed, Denied, Show
<1> QED
  BY <1>1 DEF SensitiveHidden, ToolHidesSecrets, Exposed, UnknownToolShowsNoValue

LEMMA HiddenNext == SyncInv /\ SensitiveHidden /\ [Next]_vars => SensitiveHidden'
<1> SUFFICES ASSUME SyncInv, SensitiveHidden, [Next]_vars PROVE SensitiveHidden'
  OBVIOUS
<1>1. ASSUME NEW a \in Args, Read(a) PROVE SensitiveHidden'
  <2>1. /\ Tool' = Tool /\ arg' = a /\ policy \in DOMAIN Policies /\ a \in Text
        /\ ~Tool.known => entry' = UnknownToolEntry(Tool.audit, a)
    BY <1>1, ReadFacts, ArgFacts DEF SyncInv, ParserInv
  <2>2. ToolHidesSecrets'
    <3>1. CASE parser.mode \in Reading
      <4>1. parser' = ParseArg(Tool, parser, a) /\ entry' = RedactArg(Tool, a).entry
        BY <1>1, <3>1, ReadFacts
      <4>2. InStep(Tool) => Agree(Tool, a, parser', RedactArg(Tool, a))
        BY <3>1, <4>1, ReadAgrees
      <4> QED
        BY <2>1, <4>1, <4>2 DEF Agree, ToolHidesSecrets, Exposed
    <3>2. CASE parser.mode \notin Reading
      BY <1>1, <3>2, ReadFacts DEF ToolHidesSecrets, Exposed
    <3> QED
      BY <3>1, <3>2
  <2>3. UnknownToolShowsNoValue'
    <3>1. Tool.audit \in {"minimal", "keys_only", "full"}
      BY <2>1, ToolFacts
    <3> QED
      BY <2>1, <3>1, UnknownToolFacts DEF UnknownToolShowsNoValue
  <2> QED
    BY <2>2, <2>3 DEF SensitiveHidden
<1>2. CASE Finish
  <2>1. Tool' = Tool /\ entry' = entry /\ arg' = arg /\ parser'.secret = 0
    BY <1>2, FinishFacts
  <2> QED
    BY <2>1 DEF SensitiveHidden, ToolHidesSecrets, Exposed, UnknownToolShowsNoValue
<1>3. CASE UNCHANGED vars
  <2>1. Tool' = Tool /\ entry' = entry /\ arg' = arg /\ parser' = parser
    BY <1>3 DEF vars, validator, redaction, Tool
  <2> QED
    BY <2>1 DEF SensitiveHidden, ToolHidesSecrets, Exposed, UnknownToolShowsNoValue
<1> QED
  BY <1>1, <1>2, <1>3 DEF Next

\* For every policy whose tools keep the two parsers in step and every list of
\* arguments, no sensitive value is shown in the audit event, and of a tool
\* the policy does not have only what cannot be a value (validate_command
\* against redact_args).
THEOREM SensitiveHiddenTheorem == Spec => []SensitiveHidden
BY HiddenInit, HiddenNext, SyncAlways, PTL DEF Spec

LEMMA OnlySecretsInit == Init => OnlySecretsHidden
BY DEF Init, OnlySecretsHidden

LEMMA OnlySecretsNext == SyncInv /\ OnlySecretsHidden /\ [Next]_vars => OnlySecretsHidden'
<1> SUFFICES ASSUME SyncInv, OnlySecretsHidden, [Next]_vars PROVE OnlySecretsHidden'
  OBVIOUS
<1>1. ASSUME NEW a \in Args, Read(a) PROVE OnlySecretsHidden'
  <2>1. Tool' = Tool /\ arg' = a
    BY <1>1, ReadFacts
  <2>2. CASE parser.mode \in Reading
    <3>1. parser' = ParseArg(Tool, parser, a) /\ entry' = RedactArg(Tool, a).entry
      BY <1>1, <2>2, ReadFacts
    <3>2. InStep(Tool) => Agree(Tool, a, parser', RedactArg(Tool, a))
      BY <2>2, <3>1, ReadAgrees
    <3> QED
      BY <2>1, <3>1, <3>2 DEF Agree, OnlySecretsHidden
  <2>3. CASE parser.mode \notin Reading
    BY <1>1, <2>3, ReadFacts DEF OnlySecretsHidden
  <2> QED
    BY <2>2, <2>3
<1>2. CASE Finish
  BY <1>2, FinishFacts DEF OnlySecretsHidden
<1>3. CASE UNCHANGED vars
  <2>1. Tool' = Tool /\ entry' = entry /\ arg' = arg /\ parser' = parser
    BY <1>3 DEF vars, validator, redaction, Tool
  <2> QED
    BY <2>1 DEF OnlySecretsHidden
<1> QED
  BY <1>1, <1>2, <1>3 DEF Next

\* For the same policies whose positional arguments are not sensitive, every
\* argument the validator accepted that carries no secret is shown whole,
\* except the long flags the policy knows, which leave no trace (redact_args).
THEOREM OnlySecretsHiddenTheorem == Spec => []OnlySecretsHidden
BY OnlySecretsInit, OnlySecretsNext, SyncAlways, PTL DEF Spec

-----------------------------------------------------------------------------
(* The output read again                                                   *)

Emission == [role : {"verb", "flag", "value", "positional"}, text : Text]

\* Any function that takes the steps of the second reading is the reading.
Rereading(g, t, st, out) ==
    /\ g = [k \in 0 .. Len(out) |-> g[k]]
    /\ g[0] = Again(st.mode, st.flag, <<>>)
    /\ \A k \in 1 .. Len(out) : g[k] = ReadAgain(t, g[k - 1], out[k].text)

LEMMA ReparseSteps ==
    ASSUME NEW t, NEW st, NEW out, Len(out) \in Nat, NEW g, Rereading(g, t, st, out)
    PROVE  Reparse(t, st, out) = g[Len(out)]
<1> DEFINE n == Len(out)
           Is(f) == f = [k \in 0 .. n |-> IF k = 0 THEN Again(st.mode, st.flag, <<>>)
                                          ELSE ReadAgain(t, f[k - 1], out[k].text)]
           c == CHOOSE f : Is(f)
<1>0. /\ g = [k \in 0 .. n |-> g[k]] /\ g[0] = Again(st.mode, st.flag, <<>>)
      /\ \A k \in 1 .. n : g[k] = ReadAgain(t, g[k - 1], out[k].text)
  BY DEF Rereading
<1>1. Is(g)
  <2>1. ASSUME NEW k \in 0 .. n
        PROVE  g[k] = IF k = 0 THEN Again(st.mode, st.flag, <<>>)
                      ELSE ReadAgain(t, g[k - 1], out[k].text)
    <3>1. k = 0 \/ k \in 1 .. n
      OBVIOUS
    <3> QED
      BY <1>0, <3>1
  <2> QED
    BY <1>0, <2>1
<1>2. Is(c)
  BY <1>1
<1>3. Reparse(t, st, out) = c[n]
  BY DEF Reparse
<1>4. \A k \in 0 .. n : c[k] = IF k = 0 THEN Again(st.mode, st.flag, <<>>)
                               ELSE ReadAgain(t, c[k - 1], out[k].text)
  <2> HIDE DEF c
  <2> QED
    BY <1>2
<1> HIDE DEF c
<1>5. \A k \in 0 .. n : c[k] = g[k]
  <2> DEFINE S == {k \in 0 .. n : c[k] = g[k]}
  <2>1. 0 \in S
    BY <1>0, <1>4
  <2>2. ASSUME NEW k \in 0 .. n, k \in S /\ k < n PROVE k + 1 \in S
    <3>1. k + 1 \in 1 .. n /\ k + 1 \in 0 .. n /\ k + 1 # 0 /\ (k + 1) - 1 = k
      BY <2>2
    <3>2. c[k + 1] = ReadAgain(t, c[k], out[k + 1].text)
      BY <1>4, <3>1
    <3>3. g[k + 1] = ReadAgain(t, g[k], out[k + 1].text)
      BY <1>0, <3>1
    <3> QED
      BY <2>2, <3>1, <3>2, <3>3
  <2>3. \A k \in 0 .. n : k \in S
    <3> HIDE DEF S
    <3> QED
      BY <2>1, <2>2, BoundedInduction
  <2> QED
    BY <2>3
<1> QED
  BY <1>3, <1>5

LEMMA ReadFlagAgain ==
    ASSUME NEW t, NEW done \in Seq(Emission),
           NEW f \in DOMAIN t.params, f \in Text, FlagName(f)
    PROVE  ReadAgain(t, Again("args", NoFlag, done), f) =
             IF t.params[f].type = "bool" THEN Again("args", NoFlag, done \o <<Emit("flag", f)>>)
             ELSE Again("value", f, done)
<1> DEFINE st == Again("args", NoFlag, done)
<1>0. st.mode = "args" /\ st.out = done
  BY DEF Again
<1> HIDE DEF st
<1>1. Dashed(f) /\ Len(f) > 1 /\ f # Delimiter /\ EqualSign(f) = 0 /\ Key(f) = f
  BY KeyText DEF FlagName
<1>2. ParseArg(t, st, f) = ProcessFlagWithValue(t, f)
  BY <1>0, <1>1 DEF ParseArg, Short
<1>3. CASE t.params[f].type = "bool"
  <2>1. ParseArg(t, st, f) = Parsed("args", NoFlag, <<Emit("flag", f)>>, 0)
    BY <1>1, <1>2, <1>3 DEF ProcessFlagWithValue
  <2> QED
    BY <1>0, <1>3, <2>1 DEF ReadAgain, Parsed, st
<1>4. CASE t.params[f].type # "bool"
  <2>1. ParseArg(t, st, f) = Parsed("value", f, <<>>, 0)
    BY <1>1, <1>2, <1>4 DEF ProcessFlagWithValue
  <2>2. done \o <<>> = done
    OBVIOUS
  <2>3. ReadAgain(t, st, f) = Again("value", f, done \o <<>>)
    BY <1>0, <2>1 DEF ReadAgain, Parsed
  <2> QED
    BY <1>4, <2>2, <2>3 DEF st
<1> QED
  BY <1>3, <1>4

LEMMA ReadValueAgain ==
    ASSUME NEW t, NEW done, NEW f, NEW w, Permitted(t.params[f], w) = {w}
    PROVE  ReadAgain(t, Again("value", f, done), w) =
             Again("args", NoFlag, done \o <<Emit("flag", f), Emit("value", w)>>)
<1> DEFINE st == Again("value", f, done)
<1>0. st.mode = "value" /\ st.flag = f /\ st.out = done
  BY DEF Again
<1> HIDE DEF st
<1>1. (CHOOSE x \in Permitted(t.params[f], w) : TRUE) = w
  OBVIOUS
<1>2. <<>> \o <<Emit("flag", f), Emit("value", w)>> = <<Emit("flag", f), Emit("value", w)>>
  OBVIOUS
<1>3. ParseArg(t, st, w) =
        Parsed("args", NoFlag, <<Emit("flag", f), Emit("value", w)>>,
               IF t.params[f].sensitive THEN 1 ELSE 0)
  BY <1>0, <1>1, <1>2 DEF ParseArg, PushFlagValue
<1> QED
  BY <1>0, <1>3 DEF ReadAgain, Parsed, st

\* What is permitted is permitted again, as it is.
LEMMA PermittedAgain ==
    ASSUME NEW c, NEW v \in DOMAIN Canon, NEW w \in Permitted(c, v)
    PROVE  /\ w \in DOMAIN Canon /\ w \in Text /\ Permitted(c, w) = {w}
           /\ IF c.type = "path" THEN ~Dashed(w) /\ w \in Canon[v] ELSE w = v
<1>1. CASE c.type = "path"
  <2>1. w \in Canon[v] /\ w \notin c.disallowed /\ MatchesAllowedOrRegex(c, w)
    BY <1>1 DEF Permitted
  <2>2. w \in DOMAIN Canon /\ Canon[w] = {w}
    BY <2>1, CanonAssumption
  <2>3. ~Dashed(w)
    BY <2>2, CanonAssumption
  <2>4. Permitted(c, w) = {w}
    BY <1>1, <2>1, <2>2 DEF Permitted
  <2> QED
    BY <1>1, <2>1, <2>2, <2>3, <2>4, CanonAssumption DEF Text
<1>2. CASE c.type # "path"
  <2>1. w = v /\ Permitted(c, v) = {v}
    BY <1>2 DEF Permitted
  <2> QED
    BY <1>2, <2>1, CanonAssumption DEF Text
<1> QED
  BY <1>1, <1>2

LEMMA ReadableFlags ==
    ASSUME policy \in DOMAIN Policies, Readable(Tool), NEW f \in DOMAIN Tool.params
    PROVE  f \in Text /\ FlagName(f)
BY ToolFacts DEF Readable

LEMMA AppendTwo ==
    ASSUME NEW s \in Seq(Emission), NEW x \in Emission, NEW y \in Emission
    PROVE  /\ s \o <<x, y>> = Append(Append(s, x), y)
           /\ s \o <<x, y>> \in Seq(Emission) /\ Len(s \o <<x, y>>) = Len(s) + 2
           /\ \A k \in 1 .. Len(s) : (s \o <<x, y>>)[k] = s[k]
           /\ (s \o <<x, y>>)[Len(s) + 1] = x /\ (s \o <<x, y>>)[Len(s) + 2] = y
<1> DEFINE u == Append(Append(s, x), y)
<1>1. s \o <<x, y>> = u
  OBVIOUS
<1>2. /\ u \in Seq(Emission) /\ Len(u) = Len(s) + 2
      /\ \A k \in 1 .. Len(s) : u[k] = s[k]
      /\ u[Len(s) + 1] = x /\ u[Len(s) + 2] = y
  OBVIOUS
<1> HIDE DEF u
<1>3. /\ s \o <<x, y>> \in Seq(Emission) /\ Len(s \o <<x, y>>) = Len(s) + 2
      /\ \A k \in 1 .. Len(s) : (s \o <<x, y>>)[k] = s[k]
      /\ (s \o <<x, y>>)[Len(s) + 1] = x /\ (s \o <<x, y>>)[Len(s) + 2] = y
  BY <1>1, <1>2, Zenon
<1> QED
  BY <1>1, <1>3 DEF u

LEMMA SubSeqTwo ==
    ASSUME NEW s \in Seq(Emission), NEW n \in Nat, Len(s) = n + 2
    PROVE  SubSeq(s, 1, n + 2) = SubSeq(s, 1, n) \o <<s[n + 1], s[n + 2]>>
<1> DEFINE u == SubSeq(s, 1, n)
           x == s[n + 1]
           y == s[n + 2]
<1>1. u \in Seq(Emission) /\ x \in Emission /\ SubSeq(s, 1, n + 1) = Append(u, x)
  <2>1. n \in 0 .. Len(s) - 1
    OBVIOUS
  <2> QED
    BY <2>1, LastAppended
<1>2. y \in Emission /\ SubSeq(s, 1, n + 2) = Append(SubSeq(s, 1, n + 1), y)
  <2>1. n + 1 \in 0 .. Len(s) - 1 /\ (n + 1) + 1 = n + 2
    OBVIOUS
  <2> QED
    BY <2>1, LastAppended
<1> HIDE DEF u, x, y
<1>3. Append(Append(u, x), y) = u \o <<x, y>>
  BY <1>1, <1>2, AppendTwo
<1> QED
  BY <1>1, <1>2, <1>3 DEF u, x, y

\* Switches are read again as they are, and so is a flag with its value that
\* comes after them.
LEMMA FlagsAgain ==
    ASSUME policy \in DOMAIN Policies, Readable(Tool),
           NEW st, st.mode = "args", st.flag = NoFlag,
           NEW out \in Seq(Emission), NEW n \in 0 .. Len(out),
           \A k \in 1 .. n : IsSwitch(Tool, out[k].text) /\ out[k] = Emit("flag", out[k].text),
           \/ Len(out) = n
           \/ /\ Len(out) = n + 2 /\ out[n + 1].text \in DOMAIN Tool.params
              /\ Tool.params[out[n + 1].text].type # "bool"
              /\ out[n + 1] = Emit("flag", out[n + 1].text)
              /\ out[n + 2] = Emit("value", out[n + 2].text)
              /\ Permitted(Tool.params[out[n + 1].text], out[n + 2].text) = {out[n + 2].text}
    PROVE  Reparse(Tool, st, out) = Again("args", NoFlag, out)
<1> DEFINE m == Len(out)
           upto(k) == SubSeq(out, 1, k)
           g == [k \in 0 .. m |-> IF k = n + 1 THEN Again("value", out[n + 1].text, upto(n))
                                 ELSE Again("args", NoFlag, upto(k))]
<1>1. m \in Nat /\ n \in Nat
  OBVIOUS
<1>2. \A k \in 0 .. m : upto(k) \in Seq(Emission)
  BY SubSeqProperties
<1>3. g[0] = Again(st.mode, st.flag, <<>>)
  <2>1. upto(0) = <<>> /\ 0 \in 0 .. m /\ 0 # n + 1
    BY <1>1
  <2> QED
    BY <2>1
<1>4. ASSUME NEW k \in 1 .. n PROVE g[k] = ReadAgain(Tool, g[k - 1], out[k].text)
  <2>1. k - 1 \in 0 .. m /\ k - 1 # n + 1 /\ k \in 0 .. m /\ k # n + 1 /\ k \in 1 .. m
    BY <1>1
  <2>2. g[k] = Again("args", NoFlag, upto(k)) /\ g[k - 1] = Again("args", NoFlag, upto(k - 1))
    BY <2>1
  <2>3. /\ out[k].text \in DOMAIN Tool.params /\ Tool.params[out[k].text].type = "bool"
        /\ out[k].text \in Text /\ FlagName(out[k].text)
    BY <1>4, ReadableFlags DEF IsSwitch
  <2>4. upto(k) = upto(k - 1) \o <<out[k]>>
    <3>1. k - 1 \in 0 .. Len(out) - 1 /\ (k - 1) + 1 = k
      BY <1>1
    <3>2. upto(k) = Append(upto(k - 1), out[k]) /\ upto(k - 1) \in Seq(Emission) /\ out[k] \in Emission
      BY <3>1, LastAppended
    <3> HIDE DEF upto
    <3> QED
      BY <3>2
  <2>5. upto(k - 1) \in Seq(Emission)
    BY <1>2, <2>1
  <2> HIDE DEF g, upto
  <2>6. ReadAgain(Tool, g[k - 1], out[k].text)
          = Again("args", NoFlag, upto(k - 1) \o <<Emit("flag", out[k].text)>>)
    <3>1. ReadAgain(Tool, Again("args", NoFlag, upto(k - 1)), out[k].text)
            = Again("args", NoFlag, upto(k - 1) \o <<Emit("flag", out[k].text)>>)
      BY <2>3, <2>5, ReadFlagAgain
    <3> QED
      BY <2>2, <3>1
  <2>7. out[k] = Emit("flag", out[k].text)
    BY <1>4
  <2> QED
    BY <2>2, <2>4, <2>6, <2>7
<1>5. ASSUME m = n + 2 PROVE g[n + 1] = ReadAgain(Tool, g[n], out[n + 1].text)
  <2>1. n \in 0 .. m /\ n # n + 1 /\ n + 1 \in 0 .. m
    BY <1>1, <1>5
  <2>2. g[n] = Again("args", NoFlag, upto(n)) /\ g[n + 1] = Again("value", out[n + 1].text, upto(n))
    BY <2>1
  <2>3. out[n + 1].text \in DOMAIN Tool.params /\ Tool.params[out[n + 1].text].type # "bool"
    BY <1>1, <1>5
  <2>4. out[n + 1].text \in Text /\ FlagName(out[n + 1].text)
    BY <2>3, ReadableFlags
  <2>5. upto(n) \in Seq(Emission)
    BY <1>2, <2>1
  <2> HIDE DEF g, upto
  <2>6. ReadAgain(Tool, Again("args", NoFlag, upto(n)), out[n + 1].text)
          = Again("value", out[n + 1].text, upto(n))
    BY <2>3, <2>4, <2>5, ReadFlagAgain
  <2> QED
    BY <2>2, <2>6
<1>6. ASSUME m = n + 2 PROVE g[n + 2] = ReadAgain(Tool, g[n + 1], out[n + 2].text)
  <2>1. n + 2 \in 0 .. m /\ n + 2 # n + 1 /\ n + 1 \in 0 .. m /\ n + 2 \in 1 .. m /\ n + 1 \in 1 .. m
    BY <1>1, <1>6
  <2>2. g[n + 1] = Again("value", out[n + 1].text, upto(n)) /\ g[n + 2] = Again("args", NoFlag, upto(n + 2))
    BY <2>1
  <2>3. /\ out[n + 1] = Emit("flag", out[n + 1].text)
        /\ out[n + 2] = Emit("value", out[n + 2].text)
        /\ Permitted(Tool.params[out[n + 1].text], out[n + 2].text) = {out[n + 2].text}
    BY <1>1, <1>6
  <2>4. upto(n + 2) = upto(n) \o <<out[n + 1], out[n + 2]>>
    BY <1>1, <1>6, SubSeqTwo
  <2> HIDE DEF g, upto
  <2>6. ReadAgain(Tool, Again("value", out[n + 1].text, upto(n)), out[n + 2].text)
          = Again("args", NoFlag, upto(n) \o <<Emit("flag", out[n + 1].text), Emit("value", out[n + 2].text)>>)
    BY <2>3, ReadValueAgain, SMTT(30)
  <2> QED
    BY <2>2, <2>3, <2>4, <2>6
<1>7. \A k \in 1 .. m : g[k] = ReadAgain(Tool, g[k - 1], out[k].text)
  <2>1. m = n \/ m = n + 2
    OBVIOUS
  <2> HIDE DEF g
  <2> SUFFICES ASSUME NEW k \in 1 .. m PROVE g[k] = ReadAgain(Tool, g[k - 1], out[k].text)
    OBVIOUS
  <2>2. CASE k \in 1 .. n
    BY <1>4, <2>2
  <2>3. CASE k \notin 1 .. n
    <3>1. m = n + 2 /\ (k = n + 1 \/ k = n + 2)
      BY <1>1, <2>1, <2>3
    <3>2. CASE k = n + 1
      <4>1. k - 1 = n
        BY <1>1, <3>2
      <4> QED
        BY <1>5, <3>1, <3>2, <4>1
    <3>3. CASE k = n + 2
      <4>1. k - 1 = n + 1
        BY <1>1, <3>3
      <4> QED
        BY <1>6, <3>1, <3>3, <4>1
    <3> QED
      BY <3>1, <3>2, <3>3
  <2> QED
    BY <2>2, <2>3
<1>8. g = [k \in 0 .. m |-> g[k]]
  OBVIOUS
<1>9. g[m] = Again("args", NoFlag, out)
  <2>1. m \in 0 .. m /\ m # n + 1
    BY <1>1
  <2>2. upto(m) = out
    BY SubSeqFull
  <2> QED
    BY <2>1, <2>2
<1> HIDE DEF g
<1>10. Rereading(g, Tool, st, out)
  BY <1>3, <1>7, <1>8 DEF Rereading
<1>11. Reparse(Tool, st, out) = g[m]
  BY <1>1, <1>10, ReparseSteps
<1> QED
  BY <1>9, <1>11

\* One emission alone.
LEMMA OneAgain ==
    ASSUME NEW t, NEW st, NEW e \in Emission,
           ReadAgain(t, Again(st.mode, st.flag, <<>>), e.text) = Again("args", NoFlag, <<e>>)
    PROVE  Reparse(t, st, <<e>>) = Again("args", NoFlag, <<e>>)
<1> DEFINE g == [k \in 0 .. 1 |-> IF k = 0 THEN Again(st.mode, st.flag, <<>>) ELSE Again("args", NoFlag, <<e>>)]
<1> DEFINE out == <<e>>
<1>1. Len(out) = 1 /\ out[1] = e
  OBVIOUS
<1> HIDE DEF out
<1>2. g[0] = Again(st.mode, st.flag, <<>>) /\ g[1] = Again("args", NoFlag, <<e>>) /\ g = [k \in 0 .. 1 |-> g[k]]
  OBVIOUS
<1> HIDE DEF g
<1>3. \A k \in 1 .. 1 : g[k] = ReadAgain(t, g[k - 1], out[k].text)
  <2>1. \A k \in 1 .. 1 : k = 1 /\ k - 1 = 0
    OBVIOUS
  <2> QED
    BY <1>1, <1>2, <2>1
<1>4. Reparse(t, st, out) = g[Len(out)]
  <2>1. Rereading(g, t, st, out) /\ Len(out) \in Nat
    BY <1>1, <1>2, <1>3 DEF Rereading
  <2> QED
    BY <2>1, ReparseSteps
<1> QED
  BY <1>1, <1>2, <1>4 DEF out

\* Emissions of switches alone.
Switches(out) ==
    /\ out \in Seq(Emission)
    /\ \A k \in 1 .. Len(out) : IsSwitch(Tool, out[k].text) /\ out[k] = Emit("flag", out[k].text)

LEMMA SwitchesAgain ==
    ASSUME policy \in DOMAIN Policies, Readable(Tool), NEW st, st.mode = "args", st.flag = NoFlag,
           NEW out, Switches(out)
    PROVE  Reparse(Tool, st, out) = Again("args", NoFlag, out)
<1>1. /\ out \in Seq(Emission) /\ Len(out) \in 0 .. Len(out) /\ Len(out) = Len(out)
      /\ \A k \in 1 .. Len(out) : IsSwitch(Tool, out[k].text) /\ out[k] = Emit("flag", out[k].text)
  BY DEF Switches
<1> QED
  BY <1>1, FlagsAgain

LEMMA FlagEmission ==
    ASSUME policy \in DOMAIN Policies, NEW f \in DOMAIN Tool.params
    PROVE  Emit("flag", f) \in Emission /\ Emit("flag", f).text = f
BY ToolFacts DEF Emit, Emission

LEMMA ValueEmitted ==
    ASSUME policy \in DOMAIN Policies, Readable(Tool), NEW st, st.mode = "args", st.flag = NoFlag,
           NEW f \in DOMAIN Tool.params, Tool.params[f].type # "bool",
           NEW v \in DOMAIN Canon, NEW from, NEW before, Switches(before),
           PushFlagValue(Tool, f, v, from, before).mode # "denied"
    PROVE  LET out == PushFlagValue(Tool, f, v, from, before).out IN
           Reparse(Tool, st, out) = Again("args", NoFlag, out)
<1> DEFINE c == Tool.params[f]
           w == CHOOSE x \in Permitted(c, v) : TRUE
           pair == <<Emit("flag", f), Emit("value", w)>>
           out == before \o pair
           n == Len(before)
<1>1. Permitted(c, v) # {} /\ PushFlagValue(Tool, f, v, from, before).out = out
  BY DEF PushFlagValue, Denied, Parsed
<1>2. w \in Permitted(c, v)
  BY <1>1
<1> HIDE DEF w
<1>3. w \in Text /\ Permitted(c, w) = {w}
  BY <1>2, PermittedAgain
<1>4. /\ Emit("flag", f) \in Emission /\ Emit("flag", f).text = f
      /\ Emit("value", w) \in Emission /\ Emit("value", w).text = w
  BY <1>3, FlagEmission DEF Emit, Emission
<1>6. before \in Seq(Emission) /\ n \in Nat
  BY DEF Switches
<1>7. /\ out \in Seq(Emission) /\ Len(out) = n + 2 /\ \A k \in 1 .. n : out[k] = before[k]
      /\ out[n + 1] = Emit("flag", f) /\ out[n + 2] = Emit("value", w)
  BY <1>4, <1>6, AppendTwo
<1> HIDE DEF pair
<1>9. \A k \in 1 .. n : IsSwitch(Tool, out[k].text) /\ out[k] = Emit("flag", out[k].text)
  BY <1>7 DEF Switches
<1> HIDE DEF out
<1>10. /\ out[n + 1].text = f /\ out[n + 1] = Emit("flag", out[n + 1].text)
       /\ out[n + 2].text = w /\ out[n + 2] = Emit("value", out[n + 2].text)
  BY <1>4, <1>7
<1>11. n \in 0 .. Len(out)
  BY <1>6, <1>7
<1>12. Permitted(Tool.params[out[n + 1].text], out[n + 2].text) = {out[n + 2].text}
  BY <1>3, <1>10
<1>13. out[n + 1].text \in DOMAIN Tool.params /\ Tool.params[out[n + 1].text].type # "bool"
  BY <1>10
<1>14. Reparse(Tool, st, out) = Again("args", NoFlag, out)
  <2> HIDE DEF n
  <2> QED
    BY <1>7, <1>9, <1>10, <1>11, <1>12, <1>13, FlagsAgain
<1> QED
  BY <1>1, <1>14

LEMMA PositionalEmitted ==
    ASSUME policy \in DOMAIN Policies, Readable(Tool), NEW st, st.mode = "args", st.flag = NoFlag,
           NEW a \in DOMAIN Canon, NEW m, PushPositional(Tool, a, m).mode # "denied"
    PROVE  LET out == PushPositional(Tool, a, m).out IN
           Reparse(Tool, st, out) = Again("args", NoFlag, out)
<1> DEFINE c == Tool.positional
           w == CHOOSE x \in Permitted(c, a) : TRUE
           e == Emit("positional", w)
<1>1. /\ a \notin Tool.unsafe /\ Permitted(c, a) # {}
      /\ c.type = "path" \/ Plain(a)
      /\ PushPositional(Tool, a, m).out = <<e>>
  BY DEF PushPositional, Denied, Parsed, Plain
<1>2. w \in Permitted(c, a)
  BY <1>1
<1>3. /\ w \in DOMAIN Canon /\ w \in Text /\ Permitted(c, w) = {w}
      /\ IF c.type = "path" THEN ~Dashed(w) /\ w \in Canon[a] ELSE w = a
  BY <1>2, PermittedAgain, ZenonT(40)
<1>4. (CHOOSE x \in Permitted(c, w) : TRUE) = w
  BY <1>3
<1> HIDE DEF w
<1>5. Plain(w) /\ w \notin Tool.unsafe
  BY <1>1, <1>3 DEF Plain, Readable
<1>7. ~(Dashed(w) /\ Len(w) > 1) /\ ~Long(w) /\ w # Delimiter
  <2>1. /\ Dashed(w) <=> Len(w) >= 1 /\ w[1] = "-"
        /\ Long(w) <=> Len(w) >= 2 /\ w[1] = "-" /\ w[2] = "-"
        /\ w = Delimiter <=> Len(w) = 2 /\ w[1] = "-" /\ w[2] = "-"
        /\ Len(w) \in Nat
    BY <1>3, DashedText DEF Text
  <2> QED
    BY <1>5, <2>1 DEF Plain
<1> DEFINE start == Again(st.mode, st.flag, <<>>)
<1>8. ParseArg(Tool, start, w) = PushPositional(Tool, w, "args")
  <2>1. start.mode = "args"
    BY DEF Again
  <2> HIDE DEF start
  <2> QED
    BY <1>7, <2>1 DEF ParseArg, Short
<1>9. PushPositional(Tool, w, "args") =
        Parsed("args", NoFlag, <<e>>, IF c.sensitive THEN 1 ELSE 0)
  BY <1>1, <1>3, <1>4, <1>5 DEF PushPositional, Plain
<1>10. ReadAgain(Tool, start, w) = Again("args", NoFlag, <<>> \o <<e>>)
  <2>1. start.out = <<>>
    BY DEF Again
  <2> HIDE DEF start
  <2> QED
    BY <1>8, <1>9, <2>1 DEF ReadAgain, Parsed
<1>11. e \in Emission /\ e.text = w
  BY <1>3 DEF Emit, Emission
<1>12. <<>> \o <<e>> = <<e>>
  OBVIOUS
<1> HIDE DEF e
<1> QED
  BY <1>1, <1>10, <1>11, <1>12, OneAgain

LEMMA VerbEmitted ==
    ASSUME policy \in DOMAIN Policies, NEW st, st.mode = "verb", NEW a \in Tool.verbs
    PROVE  Reparse(Tool, st, <<Emit("verb", a)>>) = Again("args", NoFlag, <<Emit("verb", a)>>)
<1> DEFINE e == Emit("verb", a)
           start == Again(st.mode, st.flag, <<>>)
<1>1. e \in Emission /\ e.text = a
  BY ToolFacts DEF Emit, Emission
<1>2. start.mode = "verb" /\ start.out = <<>>
  BY DEF Again
<1> HIDE DEF start
<1>3. ParseArg(Tool, start, a) = Parsed("args", NoFlag, <<e>>, 0)
  BY <1>2 DEF ParseArg
<1>4. <<>> \o <<e>> = <<e>>
  OBVIOUS
<1>5. ReadAgain(Tool, start, a) = Again("args", NoFlag, <<e>>)
  BY <1>2, <1>3, <1>4 DEF ReadAgain, Parsed
<1> HIDE DEF e
<1> QED
  BY <1>1, <1>5, OneAgain DEF start, e

LEMMA NoneAgain ==
    ASSUME policy \in DOMAIN Policies, Readable(Tool), NEW st, st.mode = "args", st.flag = NoFlag
    PROVE  Reparse(Tool, st, <<>>) = Again("args", NoFlag, <<>>)
<1>1. Switches(<<>>)
  BY DEF Switches
<1> QED
  BY <1>1, SwitchesAgain

LEMMA WholeFlagEmitted ==
    ASSUME policy \in DOMAIN Policies, Readable(Tool), NEW st, st.mode = "args", st.flag = NoFlag,
           NEW a \in Args, Key(a) \in DOMAIN Tool.params,
           ProcessFlagWithValue(Tool, a).mode # "denied"
    PROVE  LET out == ProcessFlagWithValue(Tool, a).out IN
           Reparse(Tool, st, out) = Again("args", NoFlag, out)
<1> DEFINE f == Key(a)
           eq == EqualSign(a)
           p == ProcessFlagWithValue(Tool, a)
<1>1. eq \in 0 .. Len(a)
  BY ArgFacts, KeyText
<1>2. CASE Tool.params[f].type = "bool"
  <2> DEFINE out == <<Emit("flag", f)>>
  <2>1. p.out = out
    BY <1>2 DEF ProcessFlagWithValue, Denied, Parsed
  <2>2. Emit("flag", f) \in Emission /\ Emit("flag", f).text = f
    BY FlagEmission
  <2>3. IsSwitch(Tool, f)
    BY <1>2 DEF IsSwitch
  <2>4. Switches(out)
    <3>1. out \in Seq(Emission) /\ Len(out) = 1 /\ out[1] = Emit("flag", f)
      BY <2>2
    <3> HIDE DEF out
    <3>2. \A k \in 1 .. Len(out) : out[k] = Emit("flag", f)
      BY <3>1
    <3> QED
      BY <2>2, <2>3, <3>1, <3>2 DEF Switches
  <2> QED
    BY <2>1, <2>4, SwitchesAgain
<1>3. CASE Tool.params[f].type # "bool" /\ eq = 0
  <2>1. p.out = <<>>
    BY <1>3 DEF ProcessFlagWithValue, Parsed
  <2> QED
    BY <2>1, NoneAgain
<1>4. CASE Tool.params[f].type # "bool" /\ eq # 0
  <2>1. p = PushFlagValue(Tool, f, After(a, eq), eq + 1, <<>>)
    BY <1>4 DEF ProcessFlagWithValue
  <2>2. After(a, eq) \in DOMAIN Canon
    BY <1>1, ArgFacts
  <2>3. Switches(<<>>)
    BY DEF Switches
  <2> QED
    BY <1>4, <2>1, <2>2, <2>3, ValueEmitted
<1> QED
  BY <1>2, <1>3, <1>4

LEMMA GroupEmitted ==
    ASSUME policy \in DOMAIN Policies, Readable(Tool), NEW st, st.mode = "args", st.flag = NoFlag,
           NEW a \in Args, Len(a) > 1, ProcessShortGroup(Tool, a).mode # "denied"
    PROVE  LET out == ProcessShortGroup(Tool, a).out IN
           Reparse(Tool, st, out) = Again("args", NoFlag, out)
<1> DEFINE end == GroupEnd(Tool, a)
           switches == [i \in 1 .. end - 2 |-> Emit("flag", FlagOf(a[i + 1]))]
           flag == FlagOf(a[end])
           p == ProcessShortGroup(Tool, a)
<1>1. a \in Text /\ Len(a) \in Nat
  BY ArgFacts
<1>2. /\ end \in 2 .. Len(a) + 1
      /\ \A i \in 2 .. Len(a) : i < end => IsSwitch(Tool, FlagOf(a[i]))
      /\ end <= Len(a) => ~IsSwitch(Tool, flag)
  BY <1>1, GroupEndFacts
<1> HIDE DEF end
<1>3. Switches(switches)
  <2>1. ASSUME NEW k \in 1 .. end - 2
        PROVE  /\ switches[k] = Emit("flag", FlagOf(a[k + 1])) /\ switches[k] \in Emission
               /\ switches[k].text = FlagOf(a[k + 1]) /\ IsSwitch(Tool, FlagOf(a[k + 1]))
    <3>1. k + 1 \in 2 .. Len(a) /\ k + 1 < end
      BY <1>1, <1>2
    <3>2. IsSwitch(Tool, FlagOf(a[k + 1]))
      BY <1>2, <3>1
    <3>3. Emit("flag", FlagOf(a[k + 1])) \in Emission /\ Emit("flag", FlagOf(a[k + 1])).text = FlagOf(a[k + 1])
      BY <3>2, FlagEmission DEF IsSwitch
    <3> QED
      BY <3>2, <3>3
  <2>2. switches \in [1 .. end - 2 -> Emission] /\ end - 2 \in Nat
    BY <1>1, <1>2, <2>1
  <2>3. switches \in Seq(Emission) /\ Len(switches) = end - 2
    <3> HIDE DEF switches
    <3> QED
      BY <2>2
  <2> HIDE DEF switches
  <2> QED
    BY <2>1, <2>3 DEF Switches
<1>4. CASE end > Len(a)
  <2>1. p.out = switches
    BY <1>4 DEF ProcessShortGroup, Parsed, end
  <2> HIDE DEF switches
  <2> QED
    BY <1>3, <2>1, SwitchesAgain
<1>5. CASE ~(end > Len(a)) /\ flag \notin DOMAIN Tool.params
  <2>1. p.mode = "denied"
    BY <1>5 DEF ProcessShortGroup, Denied, end
  <2> QED
    BY <2>1
<1>6. CASE ~(end > Len(a)) /\ flag \in DOMAIN Tool.params /\ end = Len(a)
  <2>1. p.out = switches
    BY <1>6 DEF ProcessShortGroup, Parsed, end
  <2> HIDE DEF switches
  <2> QED
    BY <1>3, <2>1, SwitchesAgain
<1>7. CASE ~(end > Len(a)) /\ flag \in DOMAIN Tool.params /\ end # Len(a)
  <2>1. p = PushFlagValue(Tool, flag, After(a, end), end + 1, switches)
    BY <1>7 DEF ProcessShortGroup, end
  <2>2. end \in 0 .. Len(a) /\ end <= Len(a)
    BY <1>1, <1>2, <1>7
  <2>3. After(a, end) \in DOMAIN Canon /\ Tool.params[flag].type # "bool"
    BY <1>2, <1>7, <2>2, ArgFacts DEF IsSwitch
  <2> HIDE DEF switches, flag
  <2> QED
    BY <1>3, <1>7, <2>1, <2>3, ValueEmitted
<1> QED
  BY <1>4, <1>5, <1>6, <1>7

LEMMA OutputReadAgain ==
    ASSUME policy \in DOMAIN Policies, Readable(Tool), NEW a \in Args, NEW p, NEW st,
           p.mode \in Reading, p.mode = "value" => /\ p.flag \in DOMAIN Tool.params
                                                 /\ Tool.params[p.flag].type # "bool",
           st.mode = (IF p.mode = "verb" THEN "verb" ELSE "args"), st.flag = NoFlag,
           ParseArg(Tool, p, a).mode # "denied"
    PROVE  LET out == ParseArg(Tool, p, a).out IN
           Reparse(Tool, st, out) = Again("args", NoFlag, out)
<1> DEFINE q == ParseArg(Tool, p, a)
<1>1. CASE p.mode = "verb"
  <2>1. a \in Tool.verbs /\ q.out = <<Emit("verb", a)>>
    BY <1>1 DEF ParseArg, Parsed, Denied
  <2> QED
    BY <1>1, <2>1, VerbEmitted
<1>2. CASE p.mode = "value"
  <2>1. q = PushFlagValue(Tool, p.flag, a, 1, <<>>) /\ a \in DOMAIN Canon
    BY <1>2, ArgFacts DEF ParseArg
  <2>2. Switches(<<>>)
    BY DEF Switches
  <2> QED
    BY <1>2, <2>1, <2>2, ValueEmitted
<1>3. CASE p.mode = "rest"
  <2>1. q = PushPositional(Tool, a, "rest") /\ a \in DOMAIN Canon
    BY <1>3, ArgFacts DEF ParseArg
  <2> QED
    BY <1>3, <2>1, PositionalEmitted
<1>4. CASE p.mode = "args"
  <2>1. st.mode = "args" /\ a \in Text /\ a \in DOMAIN Canon
    BY <1>4, ArgFacts
  <2>2. CASE a = Delimiter
    <3>1. Long(a) /\ ~Short(a)
      BY <2>1, <2>2, DashedText DEF Short
    <3>2. q = Parsed("rest", NoFlag, <<>>, 0)
      BY <1>4, <2>2, <3>1 DEF ParseArg
    <3>3. q.out = <<>>
      BY <3>2 DEF Parsed
    <3> QED
      BY <2>1, <3>3, NoneAgain
  <2>3. CASE a # Delimiter /\ Dashed(a) /\ Len(a) > 1 /\ Key(a) \in DOMAIN Tool.params
    <3>1. q = ProcessFlagWithValue(Tool, a)
      BY <1>4, <2>3 DEF ParseArg, Short
    <3> QED
      BY <2>1, <2>3, <3>1, WholeFlagEmitted
  <2>4. CASE a # Delimiter /\ Short(a) /\ Len(a) > 1 /\ Key(a) \notin DOMAIN Tool.params
    <3>1. q = ProcessShortGroup(Tool, a)
      BY <1>4, <2>4 DEF ParseArg, Short
    <3> QED
      BY <2>1, <2>4, <3>1, GroupEmitted
  <2>5. CASE a # Delimiter /\ Long(a) /\ Key(a) \notin DOMAIN Tool.params
    <3>1. q.mode = "denied"
      BY <1>4, <2>5 DEF ParseArg, Short, Denied
    <3> QED
      BY <3>1
  <2>6. CASE a # Delimiter /\ ~(Dashed(a) /\ Len(a) > 1)
    <3>1. ~Long(a)
      BY <2>1, <2>6, DashedPlain
    <3>2. q = PushPositional(Tool, a, "args")
      BY <1>4, <2>6, <3>1 DEF ParseArg, Short
    <3> QED
      BY <2>1, <3>2, PositionalEmitted
  <2>7. Dashed(a) /\ Len(a) > 1 => Short(a) \/ Long(a)
    BY DEF Short
  <2> QED
    BY <2>2, <2>3, <2>4, <2>5, <2>6, <2>7
<1> QED
  BY <1>1, <1>2, <1>3, <1>4 DEF Reading

\* The second parser stands where the first one does, with its output.
FixpointInv ==
    Readable(Tool) /\ verdict = "open"
      => again = Again(IF parser.mode = "verb" THEN "verb" ELSE "args", NoFlag, parser.out)

LEMMA FixpointInit == Init => FixpointInv
<1> SUFFICES ASSUME Init, verdict = "open"
             PROVE  again = Again(IF parser.mode = "verb" THEN "verb" ELSE "args", NoFlag, parser.out)
  BY DEF FixpointInv
<1>1. /\ again = Again(parser.mode, NoFlag, <<>>) /\ parser = StartParse(Tool)
      /\ verdict = IF parser.mode = "denied" THEN parser.slug ELSE "open"
  BY DEF Init, ValidatorInit
<1>2. parser.mode \in {"verb", "args"} /\ parser.out = <<>>
  BY <1>1 DEF StartParse, Parsed, Denied
<1> QED
  BY <1>1, <1>2

LEMMA FixpointNext == SyncInv /\ FixpointInv /\ [Next]_vars => FixpointInv'
<1> SUFFICES ASSUME SyncInv, FixpointInv, [Next]_vars PROVE FixpointInv'
  OBVIOUS
<1>1. ASSUME NEW a \in Args, Read(a) PROVE FixpointInv'
  <2>1. SUFFICES ASSUME Readable(Tool), verdict' = "open"
                 PROVE  again' = Again(IF parser'.mode = "verb" THEN "verb" ELSE "args", NoFlag, parser'.out)
    <3>1. Readable(Tool)' => Readable(Tool)
      BY <1>1, ReadFacts DEF Readable
    <3> QED
      BY <3>1 DEF FixpointInv
  <2>2. parser.mode \in Reading
    BY <1>1, <2>1, ReadFacts
  <2>3. /\ policy \in DOMAIN Policies /\ parser' = ParseArg(Tool, parser, a)
        /\ parser.mode = "value" => /\ parser.flag \in DOMAIN Tool.params
                                    /\ Tool.params[parser.flag].type # "bool"
        /\ verdict' = IF verdict = "open" /\ parser'.mode = "denied" THEN parser'.slug ELSE verdict
    BY <1>1, <2>2, ReadFacts DEF SyncInv, ParserInv
  <2>4. parser'.mode \in {"args", "value", "rest"} /\ verdict = "open"
    BY <2>1, <2>2, <2>3, ParsedFacts
  <2>5. /\ again = Again(IF parser.mode = "verb" THEN "verb" ELSE "args", NoFlag, parser.out)
        /\ again' = Reparse(Tool, again, parser'.out)
    BY <1>1, <2>1, <2>4 DEF FixpointInv, Read
  <2>6. again.mode = (IF parser.mode = "verb" THEN "verb" ELSE "args") /\ again.flag = NoFlag
    BY <2>5 DEF Again
  <2>7. Reparse(Tool, again, parser'.out) = Again("args", NoFlag, parser'.out)
    BY <2>1, <2>2, <2>3, <2>4, <2>6, OutputReadAgain
  <2> QED
    BY <2>4, <2>5, <2>7
<1>2. CASE Finish
  BY <1>2, FinishFacts DEF FixpointInv
<1>3. CASE UNCHANGED vars
  BY <1>3 DEF vars, validator, FixpointInv, Tool, Readable
<1> QED
  BY <1>1, <1>2, <1>3 DEF Next

\* For every policy whose flags look like flags and whose canonical paths are
\* safe arguments, and every list of arguments: what validate_command emits,
\* validated again, is accepted and comes out as it went in.
THEOREM OutputIsFixpointTheorem == Spec => []OutputIsFixpoint
<1>1. FixpointInv => OutputIsFixpoint
  BY DEF FixpointInv, OutputIsFixpoint, Again
<1> QED
  BY <1>1, FixpointInit, FixpointNext, SyncAlways, PTL DEF Spec
=============================================================================
