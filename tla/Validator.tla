----------------------------- MODULE Validator -----------------------------
(***************************************************************************)
(* validate_command, one raw argument at a time: the verb, then flags with *)
(* their values and positional arguments, then what follows "--".  A raw   *)
(* argument is a sequence of symbols: "-", "=", a letter, or a symbol for  *)
(* a longer text in which no letter used as a short flag occurs.           *)
(***************************************************************************)
EXTENDS Integers, Sequences, SequencesExt, FiniteSetsExt

CONSTANTS Symbol,    \* what texts are made of
          Policies,  \* policies by name: what they say of the tool asked for
          Args,      \* the raw arguments a caller may write
          Canon      \* text -> its canonical path, {} where check_path fails

(***************************************************************************)
(* The shape of an argument                                                *)
(***************************************************************************)
Delimiter == <<"-", "-">>
Dashed(a) == IsPrefix(<<"-">>, a)
Long(a) == IsPrefix(Delimiter, a)
Short(a) == Dashed(a) /\ ~Long(a)
FlagOf(letter) == <<"-", letter>>

\* The first place of x in a, 0 if there is none.
Place(a, x) == SelectInSeq(a, LAMBDA y : y = x)
EqualSign(a) == Place(a, "=")
\* The flag a names: the text before "=".
Key(a) == LET eq == EqualSign(a) IN IF eq = 0 THEN a ELSE SubSeq(a, 1, eq - 1)
After(a, i) == SubSeq(a, i + 1, Len(a))

ASSUME TextAssumption ==
    /\ {"-", "="} \subseteq Symbol
    /\ Args \subseteq Seq(Symbol)
    /\ \A a \in Args : \A i \in 0 .. Len(a) : After(a, i) \in DOMAIN Canon

\* check_path takes absolute paths only, and a canonical path for itself.
ASSUME CanonAssumption ==
    /\ DOMAIN Canon \subseteq Seq(Symbol)
    /\ \A v \in DOMAIN Canon : \A w \in Canon[v] :
          ~Dashed(v) /\ w \in DOMAIN Canon /\ Canon[w] = {w}

\* What a policy may be: nothing here says that its flags look like flags.
ASSUME PoliciesAssumption == \A p \in DOMAIN Policies :
    LET t == Policies[p] IN
    /\ t.known \in BOOLEAN /\ t.positional.sensitive \in BOOLEAN
    /\ t.audit \in {"minimal", "keys_only", "full"}
    /\ DOMAIN t.params \cup t.verbs \subseteq Seq(Symbol)
    /\ \A f \in DOMAIN t.params : t.params[f].sensitive \in BOOLEAN

(***************************************************************************)
(* The rules of a parameter: [type, sensitive, lists, disallowed].  Its    *)
(* allow-list and the language of its regex are the members of lists.      *)
(***************************************************************************)
MatchesAllowedOrRegex(c, v) == c.lists = {} \/ v \in UNION c.lists

\* What goes to the command for value v of a parameter, {} if v is refused.
Permitted(c, v) ==
    {w \in (IF c.type = "path" THEN Canon[v] ELSE {v}) :
        w \notin c.disallowed /\ MatchesAllowedOrRegex(c, w)}

(***************************************************************************)
(* A parser state is [mode, flag]; mode is "verb", "args", "value" (flag   *)
(* waits for its value), "rest" (after "--") or "denied".  A parse of one  *)
(* argument adds the texts it emits, the slug of a refusal, and the place  *)
(* from which the argument is a sensitive value (0: it is none).           *)
(***************************************************************************)
NoFlag == <<>>
Emit(role, text) == [role |-> role, text |-> text]
Parsed(mode, flag, out, secret) ==
    [mode |-> mode, flag |-> flag, out |-> out, slug |-> "none", secret |-> secret]
Denied(slug, secret) ==
    [mode |-> "denied", flag |-> NoFlag, out |-> <<>>, slug |-> slug, secret |-> secret]

\* flag has value, found in the argument from place `from` on; `before` is
\* what the argument emitted so far.
PushFlagValue(t, flag, value, from, before) ==
    LET c == t.params[flag]
        secret == IF c.sensitive THEN from ELSE 0
    IN  IF Permitted(c, value) = {} THEN Denied("unknown_flag", secret)
        ELSE Parsed("args", NoFlag,
                    before \o <<Emit("flag", flag),
                                Emit("value", CHOOSE w \in Permitted(c, value) : TRUE)>>,
                    secret)

\* A whole argument that names a flag of the policy.
ProcessFlagWithValue(t, a) ==
    LET flag == Key(a)
        eq == EqualSign(a)
    IN  IF t.params[flag].type = "bool"
        THEN IF eq # 0 THEN Denied("unknown_flag", 0)
             ELSE Parsed("args", NoFlag, <<Emit("flag", flag)>>, 0)
        ELSE IF eq # 0 THEN PushFlagValue(t, flag, After(a, eq), eq + 1, <<>>)
             ELSE Parsed("value", flag, <<>>, 0)

IsSwitch(t, flag) == flag \in DOMAIN t.params /\ t.params[flag].type = "bool"

\* A group of short flags: switches up to the first letter that is none,
\* which takes the rest of the group, or the next argument, as its value.
GroupEnd(t, a) == Min({i \in 2 .. Len(a) : ~IsSwitch(t, FlagOf(a[i]))} \cup {Len(a) + 1})

ProcessShortGroup(t, a) ==
    LET end == GroupEnd(t, a)
        switches == [i \in 1 .. end - 2 |-> Emit("flag", FlagOf(a[i + 1]))]
    IN  IF end > Len(a) THEN Parsed("args", NoFlag, switches, 0)
        ELSE IF FlagOf(a[end]) \notin DOMAIN t.params THEN Denied("unknown_flag", 0)
        ELSE IF end = Len(a) THEN Parsed("value", FlagOf(a[end]), switches, 0)
        ELSE PushFlagValue(t, FlagOf(a[end]), After(a, end), end + 1, switches)

\* Mistake: positional arguments are not refused for looking like a flag
PushAnyPositional(t, a, mode) ==
    LET c == t.positional
        secret == IF c.sensitive THEN 1 ELSE 0
    IN  IF a \notin t.unsafe /\ Permitted(c, a) # {}
        THEN Parsed(mode, NoFlag, <<Emit("positional", CHOOSE w \in Permitted(c, a) : TRUE)>>, secret)
        ELSE Denied("blocked_argument", secret)

\* No positional rule is the rule of an unconstrained string.
PushPositional(t, a, mode) ==
    LET c == t.positional
        secret == IF c.sensitive THEN 1 ELSE 0
    IN  IF /\ a \notin t.unsafe
           /\ Permitted(c, a) # {}
           /\ c.type = "path" \/ ~Dashed(a) \/ Len(a) = 1
        THEN Parsed(mode, NoFlag, <<Emit("positional", CHOOSE w \in Permitted(c, a) : TRUE)>>, secret)
        ELSE Denied("blocked_argument", secret)

ParseArg(t, st, a) ==
    CASE st.mode = "denied" -> Denied("none", 0)
      [] st.mode = "verb" ->
            IF a \in t.verbs THEN Parsed("args", NoFlag, <<Emit("verb", a)>>, 0)
            ELSE Denied("unknown_verb", 0)
      [] st.mode = "value" -> PushFlagValue(t, st.flag, a, 1, <<>>)
      [] st.mode = "rest" -> PushPositional(t, a, "rest")
      [] st.mode = "args" ->
            CASE a = Delimiter -> Parsed("rest", NoFlag, <<>>, 0)
              [] a # Delimiter /\ Dashed(a) /\ Len(a) > 1 /\ Key(a) \in DOMAIN t.params ->
                    ProcessFlagWithValue(t, a)
              [] Short(a) /\ Len(a) > 1 /\ Key(a) \notin DOMAIN t.params -> ProcessShortGroup(t, a)
              [] Long(a) /\ a # Delimiter /\ Key(a) \notin DOMAIN t.params -> Denied("unknown_flag", 0)
              [] OTHER -> PushPositional(t, a, "args")

\* Before the first argument: the tool must be in the policy and its binary
\* pass check_path.
StartParse(p) ==
    IF ~p.known THEN Denied("missing_tool", 0)
    ELSE IF p.binary = "blocked" THEN Denied("blocked_path", 0)
    ELSE Parsed(IF p.verbs = {} THEN "args" ELSE "verb", NoFlag, <<>>, 0)

VARIABLES policy,   \* the name of the policy loaded
          parser,   \* state of the parser after the last argument
          verdict   \* "open", "allowed" or the slug of the denial

Tool == Policies[policy]
validator == <<policy, parser, verdict>>

ValidatorInit ==
    /\ policy \in DOMAIN Policies
    /\ parser = StartParse(Tool)
    /\ verdict = IF parser.mode = "denied" THEN parser.slug ELSE "open"

ValidateArg(a) ==
    /\ parser' = ParseArg(Tool, parser, a)
    /\ verdict' = IF verdict = "open" /\ parser'.mode = "denied" THEN parser'.slug ELSE verdict
    /\ UNCHANGED policy

\* No argument is left: a missing verb or value is a refusal.
EndOfArgs ==
    /\ verdict' = CASE verdict # "open" -> verdict
                    [] parser.mode = "verb" -> "missing_verb"
                    [] parser.mode = "value" -> "unknown_flag"
                    [] OTHER -> "allowed"
    /\ parser' = Parsed("end", NoFlag, <<>>, 0)
    /\ UNCHANGED policy
=============================================================================
