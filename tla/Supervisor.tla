----------------------------- MODULE Supervisor -----------------------------
(***************************************************************************)
(* Process supervision of an approved command, as implemented by           *)
(* src/crates/secure-sudoers/src/supervisor.rs (run_supervisor and all it  *)
(* calls), exec.rs (execute_securely) and signal_utils.rs.                 *)
(*                                                                         *)
(* Three processes run code of the program:                                *)
(*   "S"  the supervisor, the process started by sudo;                     *)
(*   "W"  the wrapper, forked by run_supervisor, which isolates itself and *)
(*        waits for the delegated command in execute_securely;             *)
(*   "D"  forked by execute_securely; it execs the delegated command.      *)
(* Desc is the set of processes the delegated command may fork in turn.    *)
(*                                                                         *)
(* Every step of this module is one system call or one run of code without *)
(* a visible effect between two system calls.  Signals are abstracted to   *)
(* the classes the code treats alike: "TERM" (SIGTERM, SIGHUP), "INT"      *)
(* (SIGINT, SIGQUIT), "TSTP" (SIGTSTP, SIGTTIN, SIGTTOU), "WINCH", "KILL". *)
(* SIGCONT acts when it is sent and is never pending.                      *)
(***************************************************************************)
EXTENDS Naturals, FiniteSets

CONSTANTS
    Desc,        \* processes the delegated command may fork
    Rounds,      \* rounds of SIGTERM, then of SIGKILL, in the final cleanup
    StdinIsTty,  \* isatty(STDIN_FILENO) in run_supervisor
    UnsharePid,  \* the policy asks for a new PID namespace (unshare_pid)
    MaxSignals,  \* bound: signals and resizes from outside
    MaxStops,    \* bound: times the command stops itself
    MaxFaults    \* bound: system calls that fail

ASSUME DescAssumption   == Desc \cap {"S", "W", "D", "init"} = {}
ASSUME RoundsAssumption == Rounds \in Nat \ {0}
ASSUME FlagAssumption   == StdinIsTty \in BOOLEAN /\ UnsharePid \in BOOLEAN
ASSUME BoundAssumption  == MaxSignals \in Nat /\ MaxStops \in Nat /\ MaxFaults \in Nat

Procs  == {"S", "W", "D"} \cup Desc
Own    == {"W", "D"}                    \* children that run code of the program first
Sigs   == {"TERM", "INT", "TSTP", "WINCH", "KILL"}
Codes  == {"code", "one", "sig"}        \* exit(n) of the command, exit(1) of the
                                        \* program, death by a signal or exit(128+sig)

SPC == {"start", "block", "fork", "setup", "publish", "handlers", "unmask",
        "loop", "winch", "resize", "enter", "wait", "suspend", "cont",
        "term_group", "group_check", "kill_group", "reap", "list",
        "finish", "drop", "setup_failed", "kill_child", "kill_setup_group",
        "reap_setup", "return", "main", "dead"}
WPC == {"none", "pdeath", "ppid", "setpg", "unmask", "isolate", "fork",
        "ignore", "wait", "suspend", "cont", "exit", "dead"}
DPC == {"none", "pdeath", "ppid", "exec", "run", "dead"}

VARIABLES
    spc, wpc, dpc,  \* where each process of the program is
    st,             \* state of each process in the kernel's process table
    par,            \* parent of each process but S
    inGrp,          \* member of the process group led by W
    pend,           \* signals pending for each process
    report,         \* last stop or continue of W and D not yet seen by waitpid
    status,         \* how W and D ended
    termFlag,       \* TERMINATION_SIGNAL is not 0
    winch,          \* SIGWINCH_RECEIVED
    pgidSet,        \* FORWARDED_CHILD_PGID is not 0
    handlers,       \* S has the forwarding handlers installed
    masked,         \* S blocks the forwarded signals
    setup,          \* history: the setup after the fork is still open, or done (S has
                    \* begun to supervise W), or S failed to restore its mask ("stuck")
    raw,            \* the terminal is in raw mode
    stale,          \* the command has not been told of the last resize
    late,           \* history: the handler of SIGWINCH ran after its flag was last
                    \* read and before waitpid was entered
    marker,         \* a failure stage has been written to the error pipe
    round,          \* rounds done by terminate_adopted_descendants
    outcome,        \* result of run_supervisor: Ok of a code, or Err
    budget          \* what is left of the bounds

pcs    == <<spc, wpc, dpc>>
table  == <<st, par, inGrp, pend, report, status>>
statics == <<termFlag, winch, pgidSet>>
disp   == <<handlers, masked, setup>>
tty    == <<raw, stale, late>>
result == <<marker, round, outcome>>
vars   == <<pcs, table, statics, disp, tty, result, budget>>

TypeOK ==
    /\ spc \in SPC /\ wpc \in WPC /\ dpc \in DPC
    /\ st \in [Procs -> {"none", "run", "stopped", "zombie", "gone"}]
    /\ par \in [Procs \ {"S"} -> Procs \cup {"init"}]
    /\ inGrp \in [Procs \ {"S"} -> BOOLEAN]
    /\ pend \in [Procs -> SUBSET Sigs]
    /\ report \in [Own -> {"none", "stopped", "continued"}]
    /\ status \in [Own -> Codes \cup {"none"}]
    /\ termFlag \in BOOLEAN /\ winch \in BOOLEAN /\ pgidSet \in BOOLEAN
    /\ handlers \in BOOLEAN /\ masked \in BOOLEAN /\ setup \in {"open", "done", "stuck"}
    /\ raw \in BOOLEAN /\ stale \in BOOLEAN /\ late \in BOOLEAN /\ marker \in BOOLEAN
    /\ round \in 0 .. 2 * Rounds
    /\ outcome \in Codes \cup {"none", "err"}
    /\ budget \in [{"sig", "stop", "fault"} -> Nat]

Init ==
    /\ spc = "start" /\ wpc = "none" /\ dpc = "none"
    /\ st = [p \in Procs |-> IF p = "S" THEN "run" ELSE "none"]
    /\ par = [p \in Procs \ {"S"} |-> "init"]
    /\ inGrp = [p \in Procs \ {"S"} |-> FALSE]
    /\ pend = [p \in Procs |-> {}]
    /\ report = [p \in Own |-> "none"]
    /\ status = [p \in Own |-> "none"]
    /\ termFlag = FALSE /\ winch = FALSE /\ pgidSet = FALSE
    /\ handlers = FALSE /\ masked = FALSE /\ setup = "open"
    /\ raw = FALSE /\ stale = FALSE /\ late = FALSE
    /\ marker = FALSE /\ round = 0 /\ outcome = "none"
    /\ budget = [b \in {"sig", "stop", "fault"} |->
                    CASE b = "sig"  -> MaxSignals
                      [] b = "stop" -> MaxStops
                      [] OTHER      -> MaxFaults]

-----------------------------------------------------------------------------
(* The kernel, as the code uses it                                         *)

Live(p)     == st[p] \in {"run", "stopped"}
CanRun(p)   == st[p] = "run" /\ "KILL" \notin pend[p]
Doomed(p)   == ~Live(p) \/ "KILL" \in pend[p]
Children(p) == {q \in Procs \ {"S"} : par[q] = p /\ st[q] \in {"run", "stopped", "zombie"}}
Group       == {q \in Procs \ {"S"} : inGrp[q] /\ st[q] \in {"run", "stopped", "zombie"}}

\* PR_SET_PDEATHSIG is in force for q
Armed(q) == \/ q = "W" /\ wpc \notin {"none", "pdeath"}
            \/ q = "D" /\ dpc \notin {"none", "pdeath"}

\* A signal whose disposition is SIG_IGN is discarded when it is sent.
Ignores(q, sig) ==
    \/ q = "W" /\ sig = "INT" /\ wpc \in {"wait", "suspend", "cont", "exit"}
    \/ q \in Desc /\ sig = "TSTP"

\* kill: sig becomes pending for the live processes of T
SendTo(T, sig) ==
    [q \in Procs |-> IF q \in T /\ Live(q) /\ ~Ignores(q, sig)
                     THEN pend[q] \cup {sig} ELSE pend[q]]

\* SIGCONT to the process group: it resumes the stopped members, cancels the
\* pending stops and leaves a "continued" report.
ContinueGroup ==
    /\ st' = [q \in Procs |-> IF q \in Group /\ st[q] = "stopped" THEN "run" ELSE st[q]]
    /\ report' = [q \in Own |-> IF q \in Group /\ st[q] = "stopped"
                                THEN "continued" ELSE report[q]]
    /\ pend' = [q \in Procs |-> IF q \in Group THEN pend[q] \ {"TSTP"} ELSE pend[q]]

Stop(p) ==
    /\ st' = [st EXCEPT ![p] = "stopped"]
    /\ report' = [q \in Own |-> IF q = p THEN "stopped" ELSE report[q]]

\* Who adopts the children of p: the nearest subreaper, which S is (set_subreaper)
Heir(p) == IF p # "S" /\ Live("S") THEN "S" ELSE "init"

\* End of process p: it becomes a zombie of its parent, its children are adopted
\* and those that asked for it are sent SIGKILL.
Exit(p, how) ==
    LET heir == Heir(p)
        kids == {q \in Procs \ {"S"} : par[q] = p}
    IN  /\ st' = [q \in Procs |->
                    IF q = p
                    THEN IF p = "S" \/ par[p] = "init" THEN "gone" ELSE "zombie"
                    ELSE IF q \in kids /\ heir = "init" /\ st[q] = "zombie"
                         THEN "gone" ELSE st[q]]
        /\ par' = [q \in Procs \ {"S"} |-> IF q \in kids THEN heir ELSE par[q]]
        /\ pend' = [q \in Procs |->
                      IF q = p THEN {}
                      ELSE IF q \in kids /\ Live(q) /\ Armed(q)
                           THEN pend[q] \cup {"KILL"} ELSE pend[q]]
        /\ report' = [q \in Own |-> IF q = p THEN "none" ELSE report[q]]
        /\ status' = [q \in Own |-> IF q = p THEN how ELSE status[q]]
        /\ spc' = IF p = "S" THEN "dead" ELSE spc
        /\ wpc' = IF p = "W" THEN "dead" ELSE wpc
        /\ dpc' = IF p = "D" THEN "dead" ELSE dpc

\* fork by p of process q, which inherits the process group
Fork(p, q) ==
    /\ st[q] = "none"
    /\ st' = [st EXCEPT ![q] = "run"]
    /\ par' = [par EXCEPT ![q] = p]
    /\ inGrp' = [inGrp EXCEPT ![q] = p # "S" /\ inGrp[p]]
    /\ UNCHANGED <<pend, report, status>>

Reap(T) == st' = [q \in Procs |-> IF q \in T THEN "gone" ELSE st[q]]

Spend(b) == budget[b] > 0 /\ budget' = [budget EXCEPT ![b] = @ - 1]

-----------------------------------------------------------------------------
(* The supervisor                                                          *)

SGo(from, to) == CanRun("S") /\ spc = from /\ spc' = to /\ UNCHANGED <<wpc, dpc>>

Fail(to) == outcome' = "err" /\ spc' = to /\ UNCHANGED <<wpc, dpc, marker, round>>

\* run_supervisor up to the reset of the statics: the terminal is made raw, the
\* SIGWINCH handler installed and S becomes a subreaper.
S_Start ==
    /\ SGo("start", "block")
    /\ raw' = StdinIsTty
    /\ termFlag' = FALSE /\ pgidSet' = FALSE
    /\ UNCHANGED <<table, winch, disp, stale, late, result, budget>>

\* TerminalGuard::new, install_sigwinch_handler or set_subreaper fails
S_StartFails ==
    /\ CanRun("S") /\ spc = "start" /\ Spend("fault") /\ Fail("return")
    /\ raw' \in {FALSE, StdinIsTty}
    /\ UNCHANGED <<table, statics, disp, stale, late>>

\* block_forwarded_signals; the error pipe is made in the same step
S_Block ==
    /\ SGo("block", "fork")
    /\ masked' = TRUE
    /\ UNCHANGED <<table, statics, handlers, setup, tty, result, budget>>

\* block_forwarded_signals fails, or the pipe does and the mask is restored
S_BlockFails ==
    /\ CanRun("S") /\ spc = "block" /\ Spend("fault") /\ Fail("return")
    /\ UNCHANGED <<table, statics, disp, tty>>

S_Fork ==
    /\ CanRun("S") /\ spc = "fork"
    /\ Fork("S", "W")
    /\ spc' = "setup" /\ wpc' = "pdeath" /\ dpc' = dpc
    /\ UNCHANGED <<statics, disp, tty, result, budget>>

S_ForkFails ==
    /\ CanRun("S") /\ spc = "fork" /\ Spend("fault") /\ Fail("return")
    /\ masked' = FALSE
    /\ UNCHANGED <<table, statics, handlers, setup, tty>>

\* set_child_process_group: setpgid(child, child); ESRCH is accepted
S_SetPgid ==
    /\ SGo("setup", "publish")
    /\ inGrp' = [inGrp EXCEPT !["W"] = TRUE]
    /\ UNCHANGED <<st, par, pend, report, status, statics, disp, tty, result, budget>>

S_PublishPgid ==
    /\ SGo("publish", "handlers")
    /\ pgidSet' = TRUE
    /\ UNCHANGED <<table, termFlag, winch, disp, tty, result, budget>>

S_InstallHandlers ==
    /\ SGo("handlers", "unmask")
    /\ handlers' = TRUE
    /\ UNCHANGED <<table, statics, masked, setup, tty, result, budget>>

\* setpgid or sigaction fails: the mask is restored first
S_SetupFails ==
    /\ CanRun("S") /\ spc \in {"setup", "handlers"} /\ Spend("fault") /\ Fail("setup_failed")
    /\ masked' = FALSE
    /\ UNCHANGED <<table, statics, handlers, setup, tty>>

S_SetupFailed ==
    /\ SGo("setup_failed", "kill_child")
    /\ pgidSet' = FALSE
    /\ UNCHANGED <<table, termFlag, winch, disp, tty, result, budget>>

\* restore_signal_mask; supervise_direct_child begins
S_Unmask ==
    /\ SGo("unmask", "loop")
    /\ masked' = FALSE /\ setup' = "done"
    /\ UNCHANGED <<table, statics, handlers, tty, result, budget>>

\* Mistake: the early return forgets FORWARDED_CHILD_PGID
S_UnmaskFailsKeepsPgid ==
    /\ CanRun("S") /\ spc = "unmask" /\ Spend("fault") /\ Fail("kill_child")
    /\ handlers' = FALSE /\ setup' = "stuck"
    /\ UNCHANGED <<table, statics, masked, tty>>

\* the mask stays as it is
S_UnmaskFails ==
    /\ CanRun("S") /\ spc = "unmask" /\ Spend("fault") /\ Fail("kill_child")
    /\ pgidSet' = FALSE /\ handlers' = FALSE /\ setup' = "stuck"
    /\ UNCHANGED <<table, termFlag, winch, masked, tty>>

\* terminate_setup_child: SIGKILL to the child, SIGKILL to its group, waitpid
S_KillChild ==
    /\ SGo("kill_child", "kill_setup_group")
    /\ pend' = SendTo({"W"}, "KILL")
    /\ UNCHANGED <<st, par, inGrp, report, status, statics, disp, tty, result, budget>>

S_KillSetupGroup ==
    /\ SGo("kill_setup_group", "reap_setup")
    /\ pend' = SendTo(Group, "KILL")
    /\ UNCHANGED <<st, par, inGrp, report, status, statics, disp, tty, result, budget>>

S_ReapSetup ==
    /\ SGo("reap_setup", "return")
    /\ st["W"] = "zombie"
    /\ Reap({"W"})
    /\ UNCHANGED <<par, inGrp, pend, report, status, statics, disp, tty, result, budget>>

\* supervise_direct_child: TERMINATION_SIGNAL.swap(0)
S_CheckTermination ==
    /\ CanRun("S") /\ spc = "loop"
    /\ IF termFlag THEN Fail("term_group")
                   ELSE spc' = "winch" /\ UNCHANGED <<wpc, dpc, result>>
    /\ termFlag' = FALSE
    /\ UNCHANGED <<table, winch, pgidSet, disp, tty, budget>>

\* SIGWINCH_RECEIVED.swap(false) && stdin_is_tty
S_TakeWinch ==
    /\ CanRun("S") /\ spc = "winch"
    /\ spc' = IF winch /\ StdinIsTty THEN "resize" ELSE "enter"
    /\ winch' = FALSE /\ late' = FALSE
    /\ UNCHANGED <<wpc, dpc, table, termFlag, pgidSet, disp, raw, stale, result, budget>>

\* forward_winsize_with_child_tty: the child's terminal gets the size of S's and
\* the process group is told, by TIOCSWINSZ or by an explicit SIGWINCH.
S_ForwardWinsize ==
    /\ SGo("resize", "enter")
    /\ stale' = FALSE
    /\ UNCHANGED <<table, statics, disp, raw, late, result, budget>>

\* S enters waitpid: neither flag is read again before it returns, so a handler
\* that has run since its flag was read does not keep S from blocking.
S_EnterWait ==
    /\ SGo("enter", "wait")
    /\ UNCHANGED <<table, statics, disp, tty, result, budget>>

\* waitpid(child, WUNTRACED | WCONTINUED) and the match on its result
S_WaitExited ==
    /\ CanRun("S") /\ spc = "wait" /\ st["W"] = "zombie"
    /\ spc' = "term_group" /\ outcome' = status["W"]
    /\ Reap({"W"})
    /\ UNCHANGED <<wpc, dpc, par, inGrp, pend, report, status, statics, disp, tty,
                   marker, round, budget>>

S_WaitReport ==
    /\ CanRun("S") /\ spc = "wait" /\ report["W"] # "none"
    /\ spc' = IF report["W"] = "stopped" THEN "suspend" ELSE "loop"
    /\ report' = [report EXCEPT !["W"] = "none"]
    /\ UNCHANGED <<wpc, dpc, st, par, inGrp, pend, status, statics, disp, tty, result, budget>>

\* waitpid, suspend_self_for_job_control or kill(SIGCONT) fails
S_SuperviseFails ==
    /\ CanRun("S") /\ spc \in {"wait", "suspend", "cont"} /\ Spend("fault") /\ Fail("term_group")
    /\ UNCHANGED <<table, statics, disp, tty>>

\* suspend_self_for_job_control: S stops itself with the default disposition
S_Suspend ==
    /\ SGo("suspend", "cont")
    /\ Stop("S")
    /\ UNCHANGED <<par, inGrp, pend, status, statics, disp, tty, result, budget>>

\* S has been resumed; it resumes the child's process group
S_ContinueGroup ==
    /\ SGo("cont", "loop")
    /\ ContinueGroup
    /\ UNCHANGED <<par, inGrp, status, statics, disp, tty, result, budget>>

\* terminate_supervised_descendants
S_TermGroup ==
    /\ SGo("term_group", "group_check")
    /\ pend' = SendTo(Group, "TERM")
    /\ UNCHANGED <<st, par, inGrp, report, status, statics, disp, tty, result, budget>>

S_GroupCheck ==
    /\ CanRun("S") /\ spc = "group_check"
    /\ spc' = IF Group = {} THEN "reap" ELSE "kill_group"
    /\ UNCHANGED <<wpc, dpc, table, statics, disp, tty, result, budget>>

S_KillGroup ==
    /\ SGo("kill_group", "reap")
    /\ pend' = SendTo(Group, "KILL")
    /\ UNCHANGED <<st, par, inGrp, report, status, statics, disp, tty, result, budget>>

\* reap_all_children_nonblocking
S_Reap ==
    /\ SGo("reap", "list")
    /\ Reap({q \in Children("S") : st[q] = "zombie"})
    /\ UNCHANGED <<par, inGrp, pend, report, status, statics, disp, tty, result, budget>>

\* Mistake: only the process group is considered, not adopted descendants
S_ListNoneInGroup ==
    /\ SGo("list", "finish")
    /\ Group = {}
    /\ UNCHANGED <<table, statics, disp, tty, result, budget>>

\* list_direct_children and one round of signals of terminate_adopted_descendants
S_ListNone ==
    /\ SGo("list", "finish")
    /\ Children("S") = {}
    /\ UNCHANGED <<table, statics, disp, tty, result, budget>>

S_SignalRound ==
    /\ SGo("list", "reap")
    /\ Children("S") # {} /\ round < 2 * Rounds
    /\ pend' = SendTo(Children("S"), IF round < Rounds THEN "TERM" ELSE "KILL")
    /\ round' = round + 1
    /\ UNCHANGED <<st, par, inGrp, report, status, statics, disp, tty, marker, outcome, budget>>

S_RoundsExhausted ==
    /\ CanRun("S") /\ spc = "list"
    /\ Children("S") # {} /\ round = 2 * Rounds
    /\ Fail("finish")
    /\ UNCHANGED <<table, statics, disp, tty, budget>>

\* read_dir("/proc") fails
S_ListFails ==
    /\ CanRun("S") /\ spc = "list" /\ Spend("fault") /\ Fail("finish")
    /\ UNCHANGED <<table, statics, disp, tty>>

\* FORWARDED_CHILD_PGID.store(0) and read_child_error_stage
S_Finish ==
    /\ SGo("finish", "drop")
    /\ pgidSet' = FALSE
    /\ outcome' = IF marker THEN "err" ELSE outcome
    /\ UNCHANGED <<table, termFlag, winch, disp, tty, marker, round, budget>>

S_FinishFails ==
    /\ CanRun("S") /\ spc = "finish" /\ Spend("fault") /\ Fail("drop")
    /\ pgidSet' = FALSE
    /\ UNCHANGED <<table, termFlag, winch, disp, tty>>

\* drop(forwarding_handlers)
S_DropHandlers ==
    /\ SGo("drop", "return")
    /\ handlers' = FALSE
    /\ UNCHANGED <<table, statics, masked, setup, tty, result, budget>>

\* run_supervisor returns and its TerminalGuard restores the terminal
S_Return ==
    /\ SGo("return", "main")
    /\ raw' = FALSE
    /\ UNCHANGED <<table, statics, disp, stale, late, result, budget>>

\* std::process::exit in main
S_MainExit ==
    /\ CanRun("S") /\ spc = "main"
    /\ Exit("S", outcome)
    /\ UNCHANGED <<inGrp, statics, disp, tty, result, budget>>

\* Mistake: a termination signal is only recorded, for the loop to act on
S_HandleRecordsOnly(sig) ==
    /\ CanRun("S") /\ handlers /\ sig \in pend["S"] \ {"WINCH"} /\ ~masked
    /\ pend' = [IF pgidSet /\ sig # "TERM" THEN SendTo(Group, sig) ELSE pend
                  EXCEPT !["S"] = @ \ {sig}]
    /\ termFlag' = (termFlag \/ sig = "TERM")
    /\ spc' = IF spc = "wait" THEN "loop" ELSE spc
    /\ UNCHANGED <<wpc, dpc, st, par, inGrp, report, status, winch, pgidSet, disp, tty,
                   result, budget>>

\* A signal is delivered to S.  With the handlers installed it is recorded
\* and forwarded, and interrupts waitpid (EINTR: there is no SA_RESTART) if S has
\* entered it; otherwise the default action is taken.
S_Handle(sig) ==
    /\ CanRun("S") /\ handlers /\ sig \in pend["S"] \ {"WINCH"} /\ ~masked
    /\ pend' = [IF pgidSet THEN SendTo(Group, sig) ELSE pend
                  EXCEPT !["S"] = @ \ {sig}]
    /\ termFlag' = (termFlag \/ sig = "TERM")
    /\ spc' = IF spc = "wait" THEN "loop" ELSE spc
    /\ UNCHANGED <<wpc, dpc, st, par, inGrp, report, status, winch, pgidSet, disp, tty,
                   result, budget>>

\* Mistake: the handler is installed with SA_RESTART
S_HandleWinchRestarts ==
    /\ CanRun("S") /\ "WINCH" \in pend["S"]
    /\ pend' = [pend EXCEPT !["S"] = @ \ {"WINCH"}]
    /\ winch' = TRUE
    /\ late' = (late \/ spc \in {"resize", "enter"})
    /\ UNCHANGED <<pcs, st, par, inGrp, report, status, termFlag, pgidSet, disp, raw, stale,
                   result, budget>>

\* sigwinch_handler; it is never blocked nor removed
S_HandleWinch ==
    /\ CanRun("S") /\ "WINCH" \in pend["S"]
    /\ pend' = [pend EXCEPT !["S"] = @ \ {"WINCH"}]
    /\ winch' = TRUE
    /\ late' = (late \/ spc \in {"resize", "enter"})
    /\ spc' = IF spc = "wait" THEN "loop" ELSE spc
    /\ UNCHANGED <<wpc, dpc, st, par, inGrp, report, status, termFlag, pgidSet, disp, raw, stale,
                   result, budget>>

S_DefaultAction(sig) ==
    /\ CanRun("S") /\ ~handlers /\ sig \in pend["S"] \ {"WINCH"} /\ ~masked
    /\ IF sig = "TSTP"
       THEN /\ Stop("S")
            /\ pend' = [pend EXCEPT !["S"] = @ \ {sig}]
            /\ UNCHANGED <<pcs, par, status>>
       ELSE Exit("S", "sig")
    /\ UNCHANGED <<inGrp, statics, disp, tty, result, budget>>

S_Setup ==
    \/ S_Start \/ S_Block \/ S_Fork \/ S_SetPgid \/ S_PublishPgid
    \/ S_InstallHandlers \/ S_SetupFailed \/ S_Unmask
    \/ S_KillChild \/ S_KillSetupGroup \/ S_ReapSetup
S_Supervise ==
    \/ S_CheckTermination \/ S_TakeWinch \/ S_ForwardWinsize \/ S_EnterWait
    \/ S_WaitExited \/ S_WaitReport \/ S_Suspend \/ S_ContinueGroup
S_Cleanup ==
    \/ S_TermGroup \/ S_GroupCheck \/ S_KillGroup \/ S_Reap
    \/ S_ListNone \/ S_SignalRound \/ S_RoundsExhausted
    \/ S_Finish \/ S_DropHandlers \/ S_Return \/ S_MainExit
S_Signal ==
    S_HandleWinch \/ \E sig \in Sigs : S_Handle(sig) \/ S_DefaultAction(sig)
S_Faults ==
    \/ S_StartFails \/ S_BlockFails \/ S_ForkFails \/ S_SetupFails \/ S_UnmaskFails
    \/ S_SuperviseFails \/ S_ListFails \/ S_FinishFails

-----------------------------------------------------------------------------
(* The wrapper: the child branch of run_supervisor and execute_securely    *)

WGo(from, to) == CanRun("W") /\ wpc = from /\ wpc' = to /\ UNCHANGED <<spc, dpc>>

\* Mistake: exit(1) without a word on the error pipe
ExitUnmarked(p) ==
    /\ Exit(p, "one")
    /\ UNCHANGED <<inGrp, statics, disp, tty, result>>

\* the failure stage is written to the error pipe and the process exits with 1
MarkAndExit(p) ==
    /\ marker' = TRUE
    /\ Exit(p, "one")
    /\ UNCHANGED <<inGrp, statics, disp, tty, round, outcome>>

\* set_parent_death_signal(SIGKILL)
W_SetPdeathsig ==
    /\ WGo("pdeath", "ppid")
    /\ UNCHANGED <<table, statics, disp, tty, result, budget>>

\* getppid() = supervisor_pid
W_CheckParent ==
    /\ WGo("ppid", "setpg") /\ par["W"] = "S"
    /\ UNCHANGED <<table, statics, disp, tty, result, budget>>

W_ParentChanged ==
    /\ CanRun("W") /\ wpc = "ppid" /\ par["W"] # "S"
    /\ MarkAndExit("W")
    /\ UNCHANGED budget

\* set_own_process_group
W_SetPgid ==
    /\ WGo("setpg", "unmask")
    /\ inGrp' = [inGrp EXCEPT !["W"] = TRUE]
    /\ UNCHANGED <<st, par, pend, report, status, statics, disp, tty, result, budget>>

\* restore_signal_mask
W_Unmask ==
    /\ WGo("unmask", "isolate")
    /\ UNCHANGED <<table, statics, disp, tty, result, budget>>

\* execute_securely up to its fork: isolation, pinning, capabilities, argv
W_Isolate ==
    /\ WGo("isolate", "fork")
    /\ UNCHANGED <<table, statics, disp, tty, result, budget>>

W_Fork ==
    /\ CanRun("W") /\ wpc = "fork"
    /\ Fork("W", "D")
    /\ wpc' = "ignore" /\ dpc' = "pdeath" /\ spc' = spc
    /\ UNCHANGED <<statics, disp, tty, result, budget>>

\* signal(SIGINT, SIG_IGN), signal(SIGQUIT, SIG_IGN) discard what is pending
W_IgnoreInt ==
    /\ WGo("ignore", "wait")
    /\ pend' = [pend EXCEPT !["W"] = @ \ {"INT"}]
    /\ UNCHANGED <<st, par, inGrp, report, status, statics, disp, tty, result, budget>>

\* waitpid(child, WUNTRACED | WCONTINUED) and the match on its result
W_WaitExited ==
    /\ WGo("wait", "exit")
    /\ st["D"] = "zombie"
    /\ Reap({"D"})
    /\ UNCHANGED <<par, inGrp, pend, report, status, statics, disp, tty, result, budget>>

\* Mistake: the wrapper waits on when the command has stopped
W_WaitReportSwallowsStop ==
    /\ WGo("wait", "wait") /\ report["D"] # "none"
    /\ report' = [report EXCEPT !["D"] = "none"]
    /\ UNCHANGED <<st, par, inGrp, pend, status, statics, disp, tty, result, budget>>

W_WaitReport ==
    /\ CanRun("W") /\ wpc = "wait" /\ report["D"] # "none"
    /\ wpc' = IF report["D"] = "stopped" THEN "suspend" ELSE "wait"
    /\ report' = [report EXCEPT !["D"] = "none"]
    /\ UNCHANGED <<spc, dpc, st, par, inGrp, pend, status, statics, disp, tty, result, budget>>

W_Suspend ==
    /\ WGo("suspend", "cont")
    /\ Stop("W")
    /\ UNCHANGED <<par, inGrp, pend, status, statics, disp, tty, result, budget>>

\* send_sigcont_to_current_group
W_ContinueGroup ==
    /\ WGo("cont", "wait")
    /\ ContinueGroup
    /\ UNCHANGED <<par, inGrp, status, statics, disp, tty, result, budget>>

\* Mistake: exit(sig) instead of exit(128 + sig)
W_ExitWithoutOffset ==
    /\ CanRun("W") /\ wpc = "exit"
    /\ Exit("W", IF status["D"] = "sig" THEN "code" ELSE status["D"])
    /\ UNCHANGED <<inGrp, statics, disp, tty, result, budget>>

\* fast_exit with the status of the delegated command
W_Exit ==
    /\ CanRun("W") /\ wpc = "exit"
    /\ Exit("W", status["D"])
    /\ UNCHANGED <<inGrp, statics, disp, tty, result, budget>>

\* a system call of the wrapper fails
W_Fails ==
    /\ CanRun("W")
    /\ wpc \in {"pdeath", "setpg", "unmask", "isolate", "fork", "wait", "suspend", "cont"}
    /\ Spend("fault")
    /\ MarkAndExit("W")

\* a pending signal takes its default action; SIGINT is ignored from "wait" on
W_Signal(sig) ==
    /\ CanRun("W") /\ sig \in pend["W"]
    /\ wpc \notin {"pdeath", "ppid", "setpg", "unmask"}
    /\ IF sig = "TSTP"
       THEN /\ Stop("W")
            /\ pend' = [pend EXCEPT !["W"] = @ \ {sig}]
            /\ UNCHANGED <<pcs, par, status>>
       ELSE Exit("W", "sig")
    /\ UNCHANGED <<inGrp, statics, disp, tty, result, budget>>

Wrapper ==
    \/ W_SetPdeathsig \/ W_CheckParent \/ W_ParentChanged \/ W_SetPgid \/ W_Unmask
    \/ W_Isolate \/ W_Fork \/ W_IgnoreInt \/ W_WaitExited \/ W_WaitReport
    \/ W_Suspend \/ W_ContinueGroup \/ W_Exit
    \/ \E sig \in Sigs : W_Signal(sig)

-----------------------------------------------------------------------------
(* The delegated command's process: the child branch of execute_securely   *)

DGo(from, to) == CanRun("D") /\ dpc = from /\ dpc' = to /\ UNCHANGED <<spc, wpc>>

\* getppid() as D sees it: the parent is outside a new PID namespace
PpidSeen == IF UnsharePid THEN "none" ELSE par["D"]

\* set_exec_parent_death_signal(wrapper_pid): prctl, then getppid
D_SetPdeathsig ==
    /\ DGo("pdeath", "ppid")
    /\ UNCHANGED <<table, statics, disp, tty, result, budget>>

\* Mistake: the parent may have died before PR_SET_PDEATHSIG
D_ParentUnchecked ==
    /\ DGo("ppid", "exec")
    /\ UNCHANGED <<table, statics, disp, tty, result, budget>>

D_CheckParent ==
    /\ DGo("ppid", "exec") /\ PpidSeen = "W"
    /\ UNCHANGED <<table, statics, disp, tty, result, budget>>

\* Mistake: the delegated process compares with the supervisor's pid
D_ParentIsNotSupervisor ==
    /\ CanRun("D") /\ dpc = "ppid" /\ PpidSeen # "S"
    /\ MarkAndExit("D")
    /\ UNCHANGED budget

D_ParentChanged ==
    /\ CanRun("D") /\ dpc = "ppid" /\ PpidSeen # "W"
    /\ MarkAndExit("D")
    /\ UNCHANGED budget

\* reset_exec_signal_defaults and fexecve
D_Exec ==
    /\ DGo("exec", "run")
    /\ UNCHANGED <<table, statics, disp, tty, result, budget>>

D_Fails ==
    /\ CanRun("D") /\ dpc \in {"pdeath", "exec"} /\ Spend("fault")
    /\ MarkAndExit("D")

\* before the exec a signal takes its default action, afterwards the command
\* may also handle it
D_Signal(sig) ==
    /\ CanRun("D") /\ sig \in pend["D"]
    /\ \/ /\ sig = "TSTP"
          /\ Stop("D")
          /\ pend' = [pend EXCEPT !["D"] = @ \ {sig}]
          /\ UNCHANGED <<pcs, par, status>>
       \/ sig # "TSTP" /\ Exit("D", "sig")
       \/ /\ dpc = "run"
          /\ pend' = [pend EXCEPT !["D"] = @ \ {sig}]
          /\ UNCHANGED <<pcs, st, par, report, status>>
    /\ UNCHANGED <<inGrp, statics, disp, tty, result, budget>>

Delegate ==
    \/ D_SetPdeathsig \/ D_CheckParent \/ D_ParentChanged \/ D_Exec
    \/ \E sig \in Sigs : D_Signal(sig)

-----------------------------------------------------------------------------
(* The delegated command and its descendants: any program                  *)

Runs(p) == CanRun(p) /\ (p = "D" => dpc = "run")

Cmd_Exit(p) ==
    /\ Runs(p) /\ Exit(p, "code")
    /\ UNCHANGED <<inGrp, statics, disp, tty, result, budget>>

Cmd_Fork(p, q) ==
    /\ Runs(p) /\ Fork(p, q)
    /\ UNCHANGED <<pcs, statics, disp, tty, result, budget>>

\* setsid: the process leaves the group, as a daemon does
Cmd_Leave(p) ==
    /\ Runs(p) /\ inGrp[p]
    /\ inGrp' = [inGrp EXCEPT ![p] = FALSE]
    /\ UNCHANGED <<pcs, st, par, pend, report, status, statics, disp, tty, result, budget>>

Cmd_Stop ==
    /\ Runs("D") /\ Spend("stop") /\ Stop("D")
    /\ UNCHANGED <<pcs, par, inGrp, pend, status, statics, disp, tty, result>>

\* a descendant dies of a signal or handles it
Desc_Signal(x, sig) ==
    /\ CanRun(x) /\ sig \in pend[x]
    /\ \/ Exit(x, "sig")
       \/ /\ pend' = [pend EXCEPT ![x] = @ \ {sig}]
          /\ UNCHANGED <<pcs, st, par, report, status>>
    /\ UNCHANGED <<inGrp, statics, disp, tty, result, budget>>

Command ==
    \/ Cmd_Stop
    \/ \E p \in {"D"} \cup Desc : Cmd_Exit(p) \/ Cmd_Leave(p)
    \/ \E p \in {"D"} \cup Desc, x \in Desc : Cmd_Fork(p, x)
    \/ \E x \in Desc, sig \in Sigs : Desc_Signal(x, sig)

-----------------------------------------------------------------------------
(* The outside: other processes, the shell, the terminal and the kernel    *)

\* SIGKILL ends a process whatever it does
Die(p) ==
    /\ Live(p) /\ "KILL" \in pend[p]
    /\ Exit(p, "sig")
    /\ UNCHANGED <<inGrp, statics, disp, tty, result, budget>>

\* a signal is sent to the supervisor, or SIGKILL to the wrapper
Env_Signal(p, sig) ==
    /\ Live(p) /\ sig \notin pend[p] /\ (p = "W" => sig = "KILL")
    /\ Spend("sig")
    /\ pend' = SendTo({p}, sig)
    /\ UNCHANGED <<pcs, st, par, inGrp, report, status, statics, disp, tty, result>>

\* the shell resumes the supervisor (fg)
Env_Continue ==
    /\ st["S"] = "stopped"
    /\ st' = [st EXCEPT !["S"] = "run"]
    /\ pend' = [pend EXCEPT !["S"] = @ \ {"TSTP"}]
    /\ UNCHANGED <<pcs, par, inGrp, report, status, statics, disp, tty, result, budget>>

\* A command that left the group is not reached by the program's SIGCONT: only
\* who stopped it can resume it.
Env_ContinueCommand ==
    /\ st["D"] = "stopped" /\ ~inGrp["D"]
    /\ st' = [st EXCEPT !["D"] = "run"]
    /\ report' = [report EXCEPT !["D"] = "continued"]
    /\ UNCHANGED <<pcs, par, inGrp, pend, status, statics, disp, tty, result, budget>>

\* the terminal is resized: SIGWINCH to the foreground process group, S's
Env_Resize ==
    /\ StdinIsTty /\ Live("S") /\ spc # "start" /\ Spend("sig")
    /\ stale' = TRUE
    /\ pend' = SendTo({"S"}, "WINCH")
    /\ UNCHANGED <<pcs, st, par, inGrp, report, status, statics, disp, raw, late, result>>

\* A process group with no parent in the session left that has stopped members
\* is sent SIGHUP and SIGCONT.
Env_Orphaned(p) ==
    /\ ~Live("S") /\ st[p] = "stopped"
    /\ st' = [st EXCEPT ![p] = "run"]
    /\ report' = [report EXCEPT ![p] = "continued"]
    /\ pend' = [pend EXCEPT ![p] = (@ \ {"TSTP"}) \cup {"TERM"}]
    /\ UNCHANGED <<pcs, par, inGrp, status, statics, disp, tty, result, budget>>

Environment ==
    \/ \E p \in Procs : Die(p)
    \/ \E p \in Own : Env_Orphaned(p)
    \/ \E p \in {"S", "W"}, sig \in Sigs \ {"WINCH"} : Env_Signal(p, sig)
    \/ Env_Continue \/ Env_ContinueCommand \/ Env_Resize

\* Every process has ended: the only state in which nothing more happens.
Finished == (\A p \in Procs : ~Live(p)) /\ UNCHANGED vars

Next ==
    \/ S_Setup \/ S_Supervise \/ S_Cleanup \/ S_Signal \/ S_Faults
    \/ Wrapper \/ W_Fails \/ Delegate \/ D_Fails
    \/ Command \/ Environment \/ Finished

Spec == Init /\ [][Next]_vars

(***************************************************************************)
(* The kernel schedules each process and delivers each pending signal.     *)
(* The command itself need never make progress, the user need never resume *)
(* a stopped supervisor, and no fault or outside signal has to happen.     *)
(***************************************************************************)
S_Step == S_Setup \/ S_Supervise \/ S_Cleanup \/ S_Signal
Fairness ==
    /\ WF_vars(S_Step)
    /\ WF_vars(Wrapper)
    /\ WF_vars(Delegate)
    /\ \A p \in Procs : WF_vars(Die(p))
    /\ \A x \in Desc : WF_vars(\E sig \in Sigs : Desc_Signal(x, sig))

FairSpec == Spec /\ Fairness

-----------------------------------------------------------------------------
(* Safety                                                                  *)

Returned == spc = "main"
Ok       == outcome \in Codes

\* When run_supervisor returns the code of the delegated command, no process it
\* started is left: not the wrapper, not the command, and no descendant of it,
\* daemonized or not (terminate_supervised_descendants).
NoSurvivorAfterOk ==
    Returned /\ Ok => \A p \in Procs \ {"S"} : ~Live(p)

\* A delegation that failed before or around the exec of the command is never
\* reported as the exit of the command (child error pipe, main's SEC-503), and
\* no exit of the program's own making passes for a code of the command.
FailedDelegationReported ==
    Returned /\ (marker \/ outcome = "one") => outcome = "err"

\* The code that run_supervisor returns is the command's: an exit code only if
\* the command exited with one, 128+sig only if it or the wrapper was killed.
ExitStatusFaithful ==
    /\ outcome = "code" => status["D"] = "code"
    /\ outcome = "sig"  => "sig" \in {status["W"], status["D"]}

\* The command never runs without a wrapper, nor the wrapper past its handshake
\* without a supervisor, except that SIGKILL is on its way: the check of
\* getppid after PR_SET_PDEATHSIG closes the race with the parent's death.
NoUnsupervisedCommand ==
    /\ dpc \in {"exec", "run"} /\ ~Doomed("D") => Live("W")
    /\ wpc \notin {"none", "pdeath", "ppid", "dead"} /\ ~Doomed("W") => Live("S")

\* S never blocks in waitpid on a termination request nobody will wake it for,
\* not even on one that came after TERMINATION_SIGNAL was read: the request has
\* reached the wrapper, whose death ends the wait.
TerminationForwarded ==
    spc \in {"enter", "wait"} /\ termFlag =>
        st["W"] = "zombie" \/ pend["W"] \cap {"TERM", "KILL"} # {}

\* Between the resize of the terminal and the SIGWINCH of the command's group
\* the fact is not forgotten: whenever S is next back in its loop it finds it.
WinchNotDropped ==
    stale /\ spc \in {"loop", "winch", "resize", "enter", "wait", "suspend", "cont"} =>
        winch \/ "WINCH" \in pend["S"] \/ spc = "resize"

\* S blocks in waitpid on a resize that nobody has told the command of only if
\* the signal is about to interrupt it, or if its handler ran in the window between
\* the swap of SIGWINCH_RECEIVED (supervisor.rs:348) and the entry of waitpid
\* (:360).  In that window the code loses the wake-up: nothing forwards the
\* resize until something else ends the wait.
ResizeWakes ==
    spc = "wait" /\ stale => "WINCH" \in pend["S"] \/ late

\* No request of the outside world is forgotten on its way to the command, and
\* none waits for the command, but for a resize that meets the window.
NoSignalLost == TerminationForwarded /\ WinchNotDropped /\ ResizeWakes

\* Neither wait loop misses a stop: a child that is stopped while its parent
\* waits has its stop still to be reported.  (SIGCONT goes to the process group,
\* so a command that left it with setsid is not resumed with it.)
StopNeverMissed ==
    /\ wpc = "wait" /\ st["D"] = "stopped" /\ inGrp["D"] => report["D"] = "stopped"
    /\ spc \in {"loop", "winch", "resize", "enter", "wait"} /\ st["W"] = "stopped"
         => report["W"] = "stopped"

\* Whatever way run_supervisor returns, the terminal is cooked again, no group
\* is signalled any more and the handlers that forward signals are gone; the mask is
\* as before unless restore_signal_mask itself failed; and a wrapper whose
\* supervision never began has been killed and reaped.  (What run_supervisor leaves
\* is the handler of SIGWINCH, which only sets a flag, and that S is a subreaper.)
ReturnRestoresProcessState ==
    spc = "main" =>
        /\ ~raw /\ ~pgidSet /\ ~handlers
        /\ masked => setup = "stuck"
        /\ setup # "done" => st["W"] \in {"none", "gone"}

\* With no fault and no signal from outside the delegation is not reported as
\* failed (exec.rs: the fork after unshare is what makes PID isolation
\* effective), unless descendants outlive all rounds of the cleanup.
Undisturbed == budget["fault"] = MaxFaults /\ budget["sig"] = MaxSignals
UndisturbedDelegationSucceeds == Undisturbed => ~marker

-----------------------------------------------------------------------------
(* The inductive invariant behind the safety properties                    *)

Ended(p) == st[p] \in {"zombie", "gone"}

\* The live processes of the delegation form trees whose roots are children of
\* S, or of init once S is dead: a parent is alive, and no set of processes
\* holds the parents of all its members (there is no cycle).
Forest ==
    /\ \A p \in Procs \ {"S"} : Live(p) =>
          \/ par[p] = "S"
          \/ par[p] = "init" /\ ~Live("S")
          \/ par[p] \in Procs \ {"S"} /\ Live(par[p])
    /\ \A X \in SUBSET (Procs \ {"S"}) :
          X # {} /\ (\A p \in X : Live(p)) => \E p \in X : par[p] \notin X

\* A process has a status exactly when it has ended, and an exit(1) of the
\* program's own making has left its mark on the error pipe before.
Endings ==
    /\ spc = "dead" <=> ~Live("S")
    /\ \A p \in Own : status[p] # "none" <=> Ended(p)
    /\ \A p \in Own : status[p] = "one" => marker
    /\ wpc = "exit" => status["D"] # "none"
    /\ status["W"] = "code" => status["D"] = "code"

\* What S has decided at each point of run_supervisor.
Results ==
    /\ spc \in {"setup_failed", "kill_child", "kill_setup_group", "reap_setup"}
         => outcome = "err"
    /\ spc \in {"term_group", "group_check", "kill_group", "reap", "list",
                "finish", "drop", "return", "main"} => outcome # "none"
    /\ spc \in {"finish", "drop", "return", "main"} /\ outcome # "err"
         => \A p \in Procs \ {"S"} : ~Live(p)
    /\ outcome = "one" => marker
    /\ outcome = "code" => status["D"] = "code"
    /\ outcome = "sig" => status["W"] = "sig"
    /\ spc \in {"drop", "return", "main"} /\ marker => outcome = "err"

\* A process that checked its parent after asking for PR_SET_PDEATHSIG has that
\* parent, or has been sent SIGKILL.
Handshake ==
    /\ st["W"] = "none" => st["D"] = "none"
    /\ Live("W") => (par["W"] = "S" <=> Live("S"))
    /\ Live("D") => (par["D"] = "W" <=> Live("W"))
    /\ wpc \notin {"none", "pdeath", "ppid"} /\ Live("W") /\ "KILL" \notin pend["W"]
         => Live("S")
    /\ dpc \in {"exec", "run"} /\ Live("D") /\ "KILL" \notin pend["D"] => Live("W")

SupervisionInv == TypeOK /\ Forest /\ Endings /\ Results /\ Handshake

\* run_supervisor from the fork of the wrapper on
SettingUp  == {"setup", "publish", "handlers", "unmask"}
Watching   == {"loop", "winch", "resize", "enter", "wait", "suspend", "cont"}
CleaningUp == {"term_group", "group_check", "kill_group", "reap", "list", "finish"}

\* Where in run_supervisor the process differs from what main left: every
\* difference begins and ends inside the call.
Deviations ==
    /\ spc = "main" => ~raw
    /\ pgidSet => spc \in {"handlers", "unmask", "setup_failed", "dead"}
                           \cup Watching \cup CleaningUp
    /\ handlers => spc \in {"unmask", "drop", "dead"} \cup Watching \cup CleaningUp
    /\ spc \in {"fork"} \cup SettingUp => masked
    /\ masked => setup = "stuck" \/ spc \in {"fork", "dead"} \cup SettingUp

\* A wrapper is left behind only by a run that has begun to supervise it.
Abandoned ==
    /\ spc \in {"start", "block", "fork"} => st["W"] = "none"
    /\ spc \in {"drop"} \cup Watching \cup CleaningUp => setup = "done"
    /\ spc \in {"return", "main"} /\ setup # "done" => st["W"] \in {"none", "gone"}

\* While S sets up and watches, the wrapper is in the process table; from
\* S_SetPgid on it leads the group that S signals once its number is published.
Watched ==
    /\ spc \in SettingUp \cup Watching => st["W"] \in {"run", "stopped", "zombie"}
    /\ spc \in (SettingUp \ {"setup"}) \cup Watching => inGrp["W"]
    /\ spc \in {"handlers", "unmask"} \cup Watching => pgidSet

\* A request S has been told of is still on its way: a termination among the
\* signals pending for the wrapper, a resize among S's own or in its flag.
Requests ==
    /\ termFlag => spc \notin {"start", "block", "fork"} \cup SettingUp
    /\ termFlag /\ spc \in Watching
         => st["W"] = "zombie" \/ pend["W"] \cap {"TERM", "KILL"} # {}
    /\ stale => StdinIsTty
    /\ stale => winch \/ "WINCH" \in pend["S"] \/ spc \in {"resize", "dead"}
    /\ stale /\ spc \in {"enter", "wait"} => "WINCH" \in pend["S"] \/ late

\* A stop is still to be reported from the fork of the child on.
CommandStops ==
    wpc \in {"ignore", "wait"} /\ st["D"] = "stopped" /\ inGrp["D"] => report["D"] = "stopped"
WrapperStops ==
    spc \in (SettingUp \cup Watching) \ {"suspend", "cont"} /\ st["W"] = "stopped"
        => report["W"] = "stopped"

ForwardingInv == Deviations /\ Abandoned /\ Watched /\ Requests /\ CommandStops /\ WrapperStops

\* With no fault and no signal from outside nothing but its own exit ends the
\* wrapper, it exits only when the command has ended, and S goes on to the
\* cleanup only when the wrapper has.
Quiet ==
    /\ ~marker /\ ~termFlag
    /\ pend["S"] = {} /\ pend["W"] = {}
    /\ Live("D") => Live("W")
    /\ spc \in {"start", "block", "fork"} \cup SettingUp \cup Watching \/ Ended("W")

UndisturbedInv ==
    /\ budget["fault"] <= MaxFaults /\ budget["sig"] <= MaxSignals
    /\ Undisturbed => Quiet

-----------------------------------------------------------------------------
(* Liveness                                                                *)

SupervisorDone == spc \in {"main", "dead"}
SupervisorStopped == st["S"] = "stopped"

\* A termination request ends run_supervisor, whatever the command does with
\* its own signals, unless the supervisor is suspended by job control.
TerminationHonoured == termFlag ~> SupervisorDone \/ SupervisorStopped

\* A stop of the command is passed up to the shell's job, or the command is
\* running again or dead.
StopPropagates ==
    st["D"] = "stopped" /\ inGrp["D"]
        ~> st["D"] # "stopped" \/ SupervisorStopped \/ SupervisorDone
=============================================================================
