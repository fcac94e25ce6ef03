----------------------------- MODULE Redaction -----------------------------
(***************************************************************************)
(* redact_args: what the audit event shows of the raw arguments, decided   *)
(* one argument at a time by a parser of its own, which does not know what *)
(* validate_command made of the same argument.  Every outcome is a prefix  *)
(* of the argument, followed by [REDACTED] unless it is the whole of it.   *)
(***************************************************************************)
EXTENDS Validator

VARIABLES flagOrder,   \* the order in which the HashMap yields short sensitive flags
          skipNext,    \* skip_next: the next argument is hidden
          afterDelim,  \* after_double_dash
          entry        \* the last argument's entry: [kept, shown]

redaction == <<flagOrder, skipNext, afterDelim, entry>>

\* The first n symbols are shown.
Show(n) == [kept |-> TRUE, shown |-> n]
\* No branch pushes anything: the argument leaves no trace.
Dropped == [kept |-> FALSE, shown |-> 0]

Sensitive(t, flag) == flag \in DOMAIN t.params /\ t.params[flag].sensitive
\* Mistake: every short flag counts as sensitive
AnyShort(t) == {flag \in DOMAIN t.params : Short(flag) /\ Len(flag) = 2}

SensitiveShort(t) == {flag \in DOMAIN t.params : Sensitive(t, flag) /\ Short(flag) /\ Len(flag) = 2}

\* is_known_flag_argument
KnownFlag(t, a) ==
    IF Long(a) THEN Key(a) \in DOMAIN t.params
    ELSE /\ Len(a) > 1
         /\ \/ a \in DOMAIN t.params
            \/ \E end \in 2 .. Len(a) :
                  /\ \A i \in 2 .. end - 1 : IsSwitch(t, FlagOf(a[i]))
                  /\ FlagOf(a[end]) \in DOMAIN t.params
                  /\ end = Len(a) \/ ~IsSwitch(t, FlagOf(a[end]))

\* Mistake: a group of short flags is not searched
LetterFoundAlone(a) ==
    IF Short(a) /\ a \in ToSet(flagOrder) THEN a ELSE NoFlag

\* The sensitive short flag found in a first, NoFlag if there is none.
LetterFound(a) ==
    LET found == {i \in DOMAIN flagOrder : Short(a) /\ flagOrder[i][2] \in ToSet(a)}
    IN  IF found = {} THEN NoFlag ELSE flagOrder[Min(found)]

\* unauthorized_audit_mode, for a tool the policy does not have.
UnknownToolEntry(mode, a) ==
    CASE mode = "minimal" -> Show(0)
      [] mode = "full" -> Show(Len(a))
      [] mode = "keys_only" /\ EqualSign(a) # 0 -> Show(IF Dashed(a) THEN EqualSign(a) ELSE 0)
      [] OTHER -> Show(IF ~Dashed(a) THEN 0 ELSE IF Short(a) THEN Min({2, Len(a)}) ELSE Len(a))

Outcome(shown, skip, delim) == [entry |-> shown, skip |-> skip, delim |-> delim]

\* One argument of a tool the policy has.
RedactArg(t, a) ==
    LET whole == Show(Len(a))
        eq == EqualSign(a)
        letter == LetterFound(a)
        at == Place(a, letter[2])
    IN  IF skipNext THEN Outcome(Show(0), FALSE, afterDelim)
        ELSE IF a = Delimiter THEN Outcome(whole, FALSE, TRUE)
        ELSE IF afterDelim /\ t.positional.sensitive THEN Outcome(Show(0), FALSE, TRUE)
        ELSE IF eq # 0 /\ Sensitive(t, Key(a)) THEN Outcome(Show(eq), FALSE, afterDelim)
        ELSE IF letter # NoFlag THEN Outcome(Show(at), at = Len(a), afterDelim)
        ELSE IF Sensitive(t, a) THEN Outcome(whole, TRUE, afterDelim)
        ELSE IF ~afterDelim /\ Long(a)
             THEN IF Key(a) \in DOMAIN t.params THEN Outcome(Dropped, FALSE, afterDelim)
                  ELSE IF eq # 0 THEN Outcome(Show(eq), FALSE, afterDelim)
                  ELSE Outcome(whole, TRUE, afterDelim)
        ELSE IF t.positional.sensitive /\ ~(Dashed(a) /\ KnownFlag(t, a))
             THEN Outcome(Show(0), FALSE, afterDelim)
        ELSE Outcome(whole, FALSE, afterDelim)

RedactionInit ==
    /\ flagOrder \in SetToSeqs(SensitiveShort(Tool))
    /\ skipNext = FALSE
    /\ afterDelim = FALSE
    /\ entry = Show(0)

Redact(a) ==
    LET r == IF Tool.known THEN RedactArg(Tool, a)
             ELSE Outcome(UnknownToolEntry(Tool.audit, a), FALSE, FALSE)
    IN  /\ entry' = r.entry
        /\ skipNext' = r.skip
        /\ afterDelim' = r.delim
        /\ UNCHANGED flagOrder
=============================================================================
