---------------------------- MODULE MCPathCheck ----------------------------
(* /u is a user's directory, /u/d and /u/d/e lie below it, /s is a secret one
   with the file f; links of all kinds lie in /u. *)
EXTENDS PathCheck, TLC

MCDirs == {"root", "U", "D", "E", "S"}
MCFiles == {"F", "G"}
MCLinks == {"toFile", "toSecret", "up", "self", "chain"}
Abs(ns) == [abs |-> TRUE, names |-> ns]
Rel(ns) == [abs |-> FALSE, names |-> ns]
MCTarget ==
    ("toFile" :> Abs(<<"s", "f">>)) @@ ("toSecret" :> Rel(<<"..", "s">>))
    @@ ("up" :> Rel(<<"d", "..", "..">>)) @@ ("self" :> Rel(<<"l">>)) @@ ("chain" :> Rel(<<"d", "l">>))

Tree == (<<"root", "u">> :> "U") @@ (<<"root", "s">> :> "S") @@ (<<"U", "d">> :> "D")
        @@ (<<"S", "f">> :> "F") @@ (<<"D", "g">> :> "G") @@ (<<"D", "e">> :> "E")

\* Two links, /u/l and /u/d/l, of every kind.
LinkedTrees == {Tree @@ (<<"U", "l">> :> a) @@ (<<"D", "l">> :> b) : a \in MCLinks, b \in MCLinks}
OneLink(trees) == {t \in trees : t[<<"U", "l">>] # t[<<"D", "l">>]}
QuietDisks == OneLink(LinkedTrees)

PathNames == {"u", "s", "d", "f", "l", "g", ".."}
UpTo(n) == UNION {[1 .. k -> PathNames] : k \in 0 .. n}
QuietRequests == {Abs(p) : p \in UpTo(3)} \cup {Rel(<<"u">>)}
QuietBlocked == {<<>>, << <<"s">> >>, << <<"u", "l">> >>, << <<"s", "x">>, <<"u", "d", "l", "f">> >>, << <<"s", "f", "x">> >>}

MCName == {"u", "s", "d", "e", "f", "l", "g", "x"}
UserDirs == {"U", "D"}

BusyRequests == {Abs(<<"u", "l">>), Abs(<<"u", "d", "l">>), Abs(<<"u", "l", "s", "f">>), Abs(<<"u", "d", "..", "l", "f">>),
                 Abs(<<"u", "d", "e", "..", "..", "s">>), Abs(<<"u", "d", "g">>)}

\* Many paths nobody interferes with, and a few while the user moves links and
\* entries about; /s is blocked and not the user's, or /u/g and in his reach.
MCRequests(quiet) == IF quiet THEN QuietRequests ELSE BusyRequests
MCCases ==
    [entry : QuietDisks, policy : QuietBlocked, alone : {TRUE}]
    \cup [entry : {Tree @@ (<<"U", "l">> :> "up")}, policy : {<< <<"s">> >>, << <<"u", "g">> >>}, alone : {FALSE}]
============================================================================
