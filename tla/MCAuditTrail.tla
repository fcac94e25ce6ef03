---------------------------- MODULE MCAuditTrail ----------------------------
(* Tools with --token, --name, --file, -u, -n, -v, --all and sometimes -un, most
   of them sensitive or not. *)
EXTENDS AuditTrail, TLC

w == <<"w">>     \* an ordinary word
s == <<"s">>     \* a word that should not be seen
canonical == <<"/", "s">>

MCArgs ==
    {w, s, <<"-">>, <<>>, Delimiter, <<"w", "=", "s">>,
     <<"-", "-", "token">>, <<"-", "-", "token", "=", "s">>, <<"-", "-", "token", "=">>,
     <<"-", "-", "name">>, <<"-", "-", "name", "=", "w">>, <<"-", "-", "name", "=", "-", "u">>,
     <<"-", "-", "file">>, <<"-", "-", "file", "=", "s">>,
     <<"-", "-", "all">>, <<"-", "-", "all", "=", "w">>, <<"-", "-", "other">>, <<"-", "-", "other", "=", "s">>,
     <<"-", "u">>, <<"-", "u", "s">>, <<"-", "u", "=", "s">>, <<"-", "v", "u">>, <<"-", "v", "u", "s">>,
     <<"-", "u", "n">>, <<"-", "v">>, <<"-", "n">>, <<"-", "n", "w">>, <<"-", "n", "w", "u">>, <<"-", "v", "n", "=", "w">>,
     <<"-", "x">>, <<"-", "v", "x">>}

\* check_path: s stands for an absolute path that a link leads away from.
TailsOf(a) == {SubSeq(a, i, Len(a)) : i \in 1 .. Len(a) + 1}
MCCanon == [a \in {canonical} \cup UNION {TailsOf(a) : a \in MCArgs} |->
                IF a \in {s, canonical} THEN {canonical} ELSE {}]

MCSymbol == UNION {ToSet(a) : a \in DOMAIN MCCanon}

Rule(t, sens, lists) == [type |-> t, sensitive |-> sens, lists |-> lists, disallowed |-> {}]
Anything == {}
Words == {{w}, {<<"=", "w">>, s}}

Policy(known, binary, audit, verbs, params, positional) ==
    [known |-> known, binary |-> binary, audit |-> audit, verbs |-> verbs, params |-> params,
     positional |-> positional, unsafe |-> {<<>>, <<"w", "=", "s">>}]

Params(token, file, u, n, group) ==
    (<<"-", "-", "token">> :> Rule("string", token, Anything)) @@ (<<"-", "-", "name">> :> Rule("string", FALSE, Words))
    @@ (<<"-", "-", "file">> :> Rule("path", file, {{canonical}})) @@ (<<"-", "u">> :> Rule("string", u, {{s, w}, {<<"n">>}}))
    @@ (<<"-", "n">> :> [Rule("string", n, Words) EXCEPT !.disallowed = {s}]) @@ (<<"-", "v">> :> Rule("bool", FALSE, Anything))
    @@ (<<"-", "-", "all">> :> Rule("bool", FALSE, Anything))
    @@ IF group THEN (<<"-", "u", "n">> :> Rule("string", TRUE, Anything)) ELSE [x \in {} |-> x]

Positional(p) ==
    CASE p = "plain" -> Rule("string", FALSE, Anything)
      [] p = "secret" -> Rule("string", TRUE, Anything)
      [] p = "secret path" -> Rule("path", TRUE, {{canonical}})

\* Tools named by what is sensitive in them, a tool with a blocked binary, and
\* unknown tools named by the audit mode.
Marks == {"--token", "--file", "-u", "-n", "-un"}
Named(c, p) ==
    Policy(TRUE, "ok", "minimal", IF "--token" \in c THEN {w} ELSE {},
           Params("--token" \in c, "--file" \in c, "-u" \in c, "-n" \in c, "-un" \in c),
           Positional(p))

\* Every combination on which the two parsers agree, and one on which they do not.
Combinations ==
    {x \in (SUBSET Marks) \X {"plain", "secret", "secret path"} : InStep(Named(x[1], x[2]))}
    \cup {<<Marks, "plain">>}

MCPolicies ==
    [x \in Combinations |-> Named(x[1], x[2])]
    @@ (<<{}, "blocked">> :>
            Policy(TRUE, "blocked", "minimal", {}, Params(TRUE, TRUE, TRUE, FALSE, FALSE), Positional("secret")))
    @@ [x \in {{}} \X {"minimal", "keys_only", "full"} |->
            Policy(FALSE, "ok", x[2], {}, [f \in {} |-> f], Positional("plain"))]
=============================================================================
