---------------------------- MODULE MCSupervisor ----------------------------
(* Instances of Supervisor for TLC.                                        *)
EXTENDS Supervisor

CONSTANT x1   \* model value: a descendant of the command

OneDesc == {x1}
=============================================================================
