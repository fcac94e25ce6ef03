----------------------------- MODULE Delegation -----------------------------
(***************************************************************************)
(* What one invocation of secure-sudoers promises: it is refused and       *)
(* nothing runs, or one binary is approved in the audit log and, if any    *)
(* program runs at all, it is that binary, once, after the approval.       *)
(***************************************************************************)
CONSTANTS Binaries,  \* contents of programs
          NoBinary   \* none of them

VARIABLES approved,  \* the binary named by the approval in the audit log
          started,   \* the binary that was started
          verdict    \* "open", "refused", "ended"

delegation == <<approved, started, verdict>>

Init == approved = NoBinary /\ started = NoBinary /\ verdict = "open"

\* Any check fails, or the process dies before it has approved anything.
Refuse ==
    /\ verdict = "open" /\ approved = NoBinary
    /\ verdict' = "refused"
    /\ UNCHANGED <<approved, started>>

Approve ==
    /\ verdict = "open" /\ approved = NoBinary
    /\ approved' \in Binaries
    /\ UNCHANGED <<started, verdict>>

Start ==
    /\ verdict = "open" /\ approved # NoBinary /\ started = NoBinary
    /\ started' = approved
    /\ UNCHANGED <<approved, verdict>>

\* The command ended, or could not be started, or was given up.
End ==
    /\ verdict = "open" /\ approved # NoBinary
    /\ verdict' = "ended"
    /\ UNCHANGED <<approved, started>>

Next == Refuse \/ Approve \/ Start \/ End

Spec == Init /\ [][Next]_delegation
=============================================================================
