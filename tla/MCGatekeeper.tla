---------------------------- MODULE MCGatekeeper ----------------------------
(* Two tools installed in /u, their entry points and secure-sudoers in /l. *)
EXTENDS Gatekeeper, TLC

MCCharacter == {"a", "b", "c", "l", "s", "u", "/", ".", " ", "'", "\"", "\\", "?"}

a == <<"a">>
Usr(name) == <<Slash, "u", Slash, name>>
Local(name) == <<Slash, "l", Slash, name>>

MCReleases == {[major |-> 0, minor |-> 0], [major |-> 4, minor |-> 18], [major |-> 4, minor |-> 19], [major |-> 5, minor |-> 4]}
NewRelease == {[major |-> 5, minor |-> 4]}
MCRealBinary == (<<"a">> :> Usr("a")) @@ (<<"b">> :> Usr("b"))
MCPaths == {Usr("a"), Usr("b"), Local("a"), Local("s")}
MCFiles == {"tool a", "new a", "self"}

Installed == (Usr("a") :> "tool a") @@ (Usr("b") :> "none") @@ (Local("a") :> "self") @@ (Local("s") :> "self")
\* The entry point is the tool itself, as before an installation.
NotInstalled == [Installed EXCEPT ![Local("a")] = "tool a"]
MCDisks == {Installed, NotInstalled}

\* The vectors of runs that others disturb: tools present, absent and unknown,
\* arguments with a quote and with a byte that is not Unicode.
MCContested ==
    {<<a>>, <<a, <<"'">>>>, <<a, <<"?">>>>, <<<<"b">>>>, <<Local("s"), a>>}

\* Words with blanks, quotes, backslashes, slashes and nothing in them.
Words == {<<>>, a, <<"s">>, <<"'">>, <<"\\">>, <<"a", " ">>, <<"\"", "b">>, <<"\\", "'", "b">>, Usr("a"), Usr("s")}
\* Paths that end in a slash, in "." or in "..", behind which there is a name or none.
Slashed == {<<"a", "/">>, Usr("a") \o <<"/", ".">>, Local("s") \o <<"/", "/">>, <<"a", "/", ".", ".">>, <<"/">>, <<".">>}

MCArgvs ==
    MCContested \cup {<<>>, <<<<"c">>>>, <<Local("s")>>} \cup {<<w>> : w \in Words} \cup (Words \X Words)
    \cup {<<w>> : w \in Slashed} \cup {<<Local("s") \o <<"/">>, w>> : w \in Slashed} \cup {<<w, a>> : w \in Slashed}
    \cup {<<a, w, v>> : w \in {<<>>, <<"'">>, <<"\\">>}, v \in {<<>>, <<"a", " ">>, <<"\"", "b">>}}

MCSudoCommands(args) ==
    {Unset, Local("s") \o <<" ", "\"">>}
    \cup (IF args = <<>> THEN {} ELSE {SudoLine(<<Slash, "l", Slash>> \o FileName(args[1]), args)})
    \cup (IF Len(args) > 1 /\ args \notin MCContested THEN {} ELSE {<<>>, Usr("a"), Usr("b"), <<"'">>, a})
    \cup (IF args \in {<<w>> : w \in Slashed} THEN {Usr("a") \o <<"/">>} ELSE {})

\* Invocations by sudo only, for the run about the documentation.
SudoArgvs == {<<a>>, <<a, <<"?">>>>}
SudoOnly(args) == {SudoLine(Local("a"), args), SudoLine(Usr("a"), args)}
=============================================================================
