--------------------------- MODULE MCPolicyUpdate ---------------------------
(* Instances of PolicyUpdate for TLC: four policies, of which v1b has the    *)
(* serial of v1 and fails validate; v1 is installed first.                   *)
EXTENDS PolicyUpdate

CONSTANTS v0, v1, v1b, v2, u1, u2, l1

FourVersions == {v0, v1, v1b, v2}
ThreeVersions == FourVersions \ {v1b}
Serials == [v \in FourVersions |-> CASE v = v0 -> 0 [] v = v2 -> 2 [] OTHER -> 1]
OneUpdater == {u1}
TwoUpdaters == {u1, u2}
OneLoader == {l1}
=============================================================================
