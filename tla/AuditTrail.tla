---------------------------- MODULE AuditTrail ----------------------------
(***************************************************************************)
(* Validator and Redaction composed on the same raw arguments.  main calls *)
(* validate_command on the whole list and then redact_args on the whole    *)
(* list; neither sees the other's state, so both advance here by one       *)
(* argument at a time, and lists of every length are covered.  A second    *)
(* copy of the validator's parser reads the arguments the first one emits. *)
(***************************************************************************)
EXTENDS Redaction

VARIABLES arg,     \* the last argument read
          again    \* state and emissions of the parser that reads the output

vars == <<validator, redaction, arg, again>>

Again(mode, flag, out) == [mode |-> mode, flag |-> flag, out |-> out]
Stopped == Again("stopped", NoFlag, <<>>)

\* The parser state after one text more, with everything emitted so far.
ReadAgain(t, st, text) ==
    LET step == ParseArg(t, st, text) IN Again(step.mode, step.flag, st.out \o step.out)

\* The same after the texts of emissions `out`.
Reparse(t, st, out) ==
    LET upto[k \in 0 .. Len(out)] ==
            IF k = 0 THEN Again(st.mode, st.flag, <<>>)
            ELSE ReadAgain(t, upto[k - 1], out[k].text)
    IN  upto[Len(out)]

Init ==
    /\ ValidatorInit
    /\ RedactionInit
    /\ arg = <<>>
    /\ again = Again(parser.mode, NoFlag, <<>>)

Read(a) ==
    /\ parser.mode # "end"
    /\ ValidateArg(a)
    /\ Redact(a)
    /\ arg' = a
    /\ again' = IF verdict' = "open" THEN Reparse(Tool, again, parser'.out) ELSE Stopped

Finish ==
    /\ parser.mode # "end"
    /\ EndOfArgs
    /\ UNCHANGED <<redaction, arg, again>>

Next == (\E a \in Args : Read(a)) \/ Finish

Spec == Init /\ [][Next]_vars

(***************************************************************************)
(* Properties                                                              *)
(***************************************************************************)
\* A name the parsers take for a flag: a dash, something after it, and no "=".
FlagName(f) == Dashed(f) /\ Len(f) > 1 /\ f # Delimiter /\ EqualSign(f) = 0

\* Policies on which the two parsers cannot lose step: flags look like flags
\* and verbs do not, no value of a flag that is not sensitive may look like a
\* flag or hold the letter of a sensitive one, only flags with a value are
\* sensitive, and no group can hold two sensitive letters.
InStep(t) ==
    LET short == {f \in DOMAIN t.params : t.params[f].sensitive /\ Short(f) /\ Len(f) = 2}
        misread(v) == Dashed(v) \/ \E f \in short : f[2] \in ToSet(v)
    IN  /\ \A f \in DOMAIN t.params :
              /\ FlagName(f)
              /\ t.params[f].type = "bool" => ~t.params[f].sensitive
              /\ t.params[f].type = "bool" \/ t.params[f].sensitive
                     \/ \A v \in DOMAIN Canon : misread(v) => Permitted(t.params[f], v) = {}
              /\ Short(f) /\ Len(f) > 2 => short = {}
        /\ \A a \in t.verbs : ~Dashed(a)
        /\ \A f, g \in short : f = g

\* The text "--" itself gives nothing away.
Exposed == arg # Delimiter /\ parser.secret # 0 /\ entry.kept /\ entry.shown >= parser.secret

\* A value the validator took for a sensitive flag, or for a sensitive
\* positional argument, is never shown in the audit event, in whatever way
\* it was written (attached, after "=", as the next argument, in a group of
\* short flags, after "--"), for every policy on which the two parsers cannot
\* lose step (validator/helpers.rs against helpers/redaction.rs).
ToolHidesSecrets == InStep(Tool) => ~Exposed

\* For a tool that is not in the policy nobody knows which flags are
\* sensitive: outside the mode "full" nothing that may be a value is shown,
\* neither an argument without a dash, nor what follows "=" or the letter of
\* a short flag (unauthorized_audit_mode, redaction.rs 131-154).
UnknownToolShowsNoValue ==
    (~Tool.known /\ Tool.audit # "full" /\ entry.shown > 0)
        => /\ Tool.audit = "keys_only" /\ Dashed(arg)
           /\ EqualSign(arg) # 0 => entry.shown <= EqualSign(arg)
           /\ Short(arg) /\ EqualSign(arg) = 0 => entry.shown <= 2

\* No secret reaches the audit event, of a tool in the policy or of any other.
SensitiveHidden == ToolHidesSecrets /\ UnknownToolShowsNoValue

\* Nothing else is hidden: an argument that the validator accepted and that
\* carries no sensitive value is shown whole, except that a long flag known to
\* the policy leaves no trace (redaction.rs 105-115 pushes nothing for it).
OnlySecretsHidden ==
    (/\ InStep(Tool) /\ ~Tool.positional.sensitive
     /\ parser.mode \in {"args", "value", "rest"}
     /\ arg # <<>> /\ parser.secret = 0)
        => IF entry.kept THEN entry.shown = Len(arg)
           ELSE Long(arg) /\ Key(arg) \in DOMAIN Tool.params

\* What the command is started with means the same to a reader of the policy's
\* own grammar: the arguments that validate_command emits, validated again,
\* are accepted and come out as they went in, every flag a flag with its own
\* value and every positional argument a positional one (out in
\* validator.rs 152-224), where flags look like flags and the canonical paths
\* pass safe_arg_regex.
Readable(t) ==
    /\ \A f \in DOMAIN t.params : FlagName(f)
    /\ \A v \in DOMAIN Canon : Canon[v] \cap t.unsafe = {}

OutputIsFixpoint ==
    (Readable(Tool) /\ verdict = "open" /\ arg # <<>>)
        => /\ again.mode = IF parser.mode = "verb" THEN "verb" ELSE "args"
           /\ again.out = parser.out
=============================================================================
