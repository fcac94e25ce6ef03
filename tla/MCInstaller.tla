---------------------------- MODULE MCInstaller ----------------------------
(* Instances of Installer for TLC: the paths in the order of their names.   *)
EXTENDS Installer, TLC

CONSTANTS apt, vim, b1, b2, u1, u2, p1

TwoTools == {apt, vim}
TwoBuilds == {b1, b2}
TwoPrograms == {u1, u2}
OneProc == {p1}
Alike == Permutations(Build) \cup Permutations(Program)

\* /etc/secure-sudoers, /etc/sudoers.d, /usr/local/bin.
Sorted == [t \in Target |->
    CASE t = "policy" -> 1 [] t = "sig" -> 2 [] t = "key" -> 3 [] t = "dropin" -> 4
      [] t = apt -> 5 [] t = "binary" -> 6 [] t = "utils" -> 7 [] OTHER -> 8]
=============================================================================
