-------------------------- MODULE SupervisorProofs --------------------------
(***************************************************************************)
(* Theorems about Supervisor for every set of descendants, every number of *)
(* cleanup rounds and any number of signals, stops and faults.             *)
(***************************************************************************)
EXTENDS Supervisor, TLAPS

-----------------------------------------------------------------------------
(* What the kernel operations do to the types of the process table         *)

LEMMA SendToType ==
    ASSUME TypeOK, NEW T, NEW sig \in Sigs
    PROVE  SendTo(T, sig) \in [Procs -> SUBSET Sigs]
  BY DEF TypeOK, SendTo

LEMMA ExitType ==
    ASSUME TypeOK, NEW p \in Procs, NEW how,
           p # "S" => how \in Codes \cup {"none"},
           Exit(p, how)
    PROVE  /\ spc' \in SPC /\ wpc' \in WPC /\ dpc' \in DPC
           /\ st' \in [Procs -> {"none", "run", "stopped", "zombie", "gone"}]
           /\ par' \in [Procs \ {"S"} -> Procs \cup {"init"}]
           /\ pend' \in [Procs -> SUBSET Sigs]
           /\ report' \in [Own -> {"none", "stopped", "continued"}]
           /\ status' \in [Own -> Codes \cup {"none"}]
  <1> USE DEF TypeOK
  <1>1. "S" \in Procs /\ "KILL" \in Sigs
    BY DEF Procs, Sigs
  <1>2. spc' \in SPC /\ wpc' \in WPC /\ dpc' \in DPC
    BY DEF Exit, SPC, WPC, DPC
  <1>3. st' \in [Procs -> {"none", "run", "stopped", "zombie", "gone"}]
    BY DEF Exit, Heir
  <1>4. par' \in [Procs \ {"S"} -> Procs \cup {"init"}]
    BY <1>1 DEF Exit, Heir
  <1>5. pend' \in [Procs -> SUBSET Sigs]
    BY <1>1 DEF Exit
  <1>6. report' \in [Own -> {"none", "stopped", "continued"}]
    BY DEF Exit
  <1>7. status' \in [Own -> Codes \cup {"none"}]
    BY DEF Exit, Own
  <1> QED BY <1>2, <1>3, <1>4, <1>5, <1>6, <1>7

LEMMA ForkType ==
    ASSUME TypeOK, NEW p \in Procs, NEW q \in Procs \ {"S"}, Fork(p, q)
    PROVE  /\ st' \in [Procs -> {"none", "run", "stopped", "zombie", "gone"}]
           /\ par' \in [Procs \ {"S"} -> Procs \cup {"init"}]
           /\ inGrp' \in [Procs \ {"S"} -> BOOLEAN]
  BY DEF TypeOK, Fork

LEMMA StopType ==
    ASSUME TypeOK, NEW p \in Procs, Stop(p)
    PROVE  /\ st' \in [Procs -> {"none", "run", "stopped", "zombie", "gone"}]
           /\ report' \in [Own -> {"none", "stopped", "continued"}]
  BY DEF TypeOK, Stop

LEMMA ContinueType ==
    ASSUME TypeOK, ContinueGroup
    PROVE  /\ st' \in [Procs -> {"none", "run", "stopped", "zombie", "gone"}]
           /\ report' \in [Own -> {"none", "stopped", "continued"}]
           /\ pend' \in [Procs -> SUBSET Sigs]
  BY DEF TypeOK, ContinueGroup

LEMMA ReapType ==
    ASSUME TypeOK, NEW T, Reap(T)
    PROVE  st' \in [Procs -> {"none", "run", "stopped", "zombie", "gone"}]
  BY DEF TypeOK, Reap

LEMMA SpendType ==
    ASSUME TypeOK, NEW b \in {"sig", "stop", "fault"}, Spend(b)
    PROVE  budget' \in [{"sig", "stop", "fault"} -> Nat]
  BY DEF TypeOK, Spend

-----------------------------------------------------------------------------
(* Type correctness                                                        *)

USE DEF vars, pcs, table, statics, disp, tty, result

LEMMA TypeSetup == TypeOK /\ S_Setup => TypeOK'
  <1> SUFFICES ASSUME TypeOK, S_Setup PROVE TypeOK'
    OBVIOUS
  <1> USE RoundsAssumption, FlagAssumption DEF SGo
  <1>p. "W" \in Procs \ {"S"} /\ "S" \in Procs /\ "KILL" \in Sigs
    BY DEF Procs, Sigs
  <1>s. spc' \in SPC
    BY DEF SPC, TypeOK, S_Setup, S_Start, S_Block, S_Fork, S_SetPgid, S_PublishPgid,
       S_InstallHandlers, S_SetupFailed, S_Unmask, S_KillChild, S_KillSetupGroup, S_ReapSetup
  <1>1. CASE S_Start
    <2>1. raw' \in BOOLEAN /\ termFlag' \in BOOLEAN /\ pgidSet' \in BOOLEAN
      BY <1>1 DEF TypeOK, S_Start
    <2>2. UNCHANGED <<wpc, dpc, table, winch, disp, stale, late, result, budget>>
      BY <1>1 DEF S_Start
    <2> QED BY <1>s, <2>1, <2>2 DEF TypeOK
  <1>2. CASE S_Block
    BY <1>2, <1>s DEF TypeOK, S_Block
  <1>3. CASE S_Fork
    <2>1. Fork("S", "W")
      BY <1>3 DEF S_Fork
    <2> QED BY <1>3, <1>s, <1>p, <2>1, ForkType DEF TypeOK, S_Fork, Fork, WPC
  <1>4. CASE S_SetPgid
    BY <1>4, <1>s, <1>p DEF TypeOK, S_SetPgid
  <1>5. CASE S_PublishPgid
    BY <1>5, <1>s DEF TypeOK, S_PublishPgid
  <1>6. CASE S_InstallHandlers
    BY <1>6, <1>s DEF TypeOK, S_InstallHandlers
  <1>7. CASE S_SetupFailed
    <2>1. pgidSet' \in BOOLEAN
      BY <1>7 DEF TypeOK, S_SetupFailed
    <2>2. UNCHANGED <<wpc, dpc, table, termFlag, winch, disp, tty, result, budget>>
      BY <1>7 DEF S_SetupFailed
    <2> QED BY <1>s, <2>1, <2>2 DEF TypeOK
  <1>8. CASE S_Unmask
    <2>1. masked' \in BOOLEAN /\ setup' \in {"open", "done", "stuck"}
      BY <1>8 DEF TypeOK, S_Unmask
    <2>2. UNCHANGED <<wpc, dpc, table, statics, handlers, tty, result, budget>>
      BY <1>8 DEF S_Unmask
    <2> QED BY <1>s, <2>1, <2>2 DEF TypeOK
  <1>9. CASE S_KillChild
    BY <1>9, <1>s, <1>p, SendToType DEF TypeOK, S_KillChild
  <1>10. CASE S_KillSetupGroup
    BY <1>10, <1>s, <1>p, SendToType DEF TypeOK, S_KillSetupGroup
  <1>11. CASE S_ReapSetup
    BY <1>11, <1>s, ReapType DEF TypeOK, S_ReapSetup
  <1> QED BY <1>1, <1>2, <1>3, <1>4, <1>5, <1>6, <1>7, <1>8, <1>9, <1>10, <1>11 DEF S_Setup

LEMMA TypeSupervise == TypeOK /\ S_Supervise => TypeOK'
  <1> SUFFICES ASSUME TypeOK, S_Supervise PROVE TypeOK'
    OBVIOUS
  <1> USE RoundsAssumption DEF SGo, Fail
  <1>p. "W" \in Own /\ "S" \in Procs
    BY DEF Own, Procs
  <1>s. spc' \in SPC
    BY DEF SPC, TypeOK, S_Supervise, S_CheckTermination, S_TakeWinch, S_ForwardWinsize,
       S_EnterWait, S_WaitExited, S_WaitReport, S_Suspend, S_ContinueGroup
  <1>1. CASE S_CheckTermination
    <2>1. /\ spc' \in SPC /\ wpc' \in WPC /\ dpc' \in DPC
          /\ outcome' \in Codes \cup {"none", "err"} /\ termFlag' \in BOOLEAN
      BY <1>1, <1>s DEF TypeOK, S_CheckTermination
    <2> QED BY <1>1, <1>s, <2>1 DEF TypeOK, S_CheckTermination
  <1>2. CASE S_TakeWinch
    <2>1. winch' \in BOOLEAN /\ late' \in BOOLEAN
      BY <1>2 DEF TypeOK, S_TakeWinch
    <2>2. UNCHANGED <<wpc, dpc, table, termFlag, pgidSet, disp, raw, stale, result, budget>>
      BY <1>2 DEF S_TakeWinch
    <2> QED BY <1>s, <2>1, <2>2 DEF TypeOK
  <1>3. CASE S_ForwardWinsize
    <2>1. stale' \in BOOLEAN
      BY <1>3 DEF TypeOK, S_ForwardWinsize
    <2>2. UNCHANGED <<wpc, dpc, table, statics, disp, raw, late, result, budget>>
      BY <1>3 DEF S_ForwardWinsize
    <2> QED BY <1>s, <2>1, <2>2 DEF TypeOK
  <1>8. CASE S_EnterWait
    BY <1>8, <1>s DEF TypeOK, S_EnterWait
  <1>4. CASE S_WaitExited
    BY <1>4, <1>s, <1>p, ReapType DEF TypeOK, S_WaitExited
  <1>5. CASE S_WaitReport
    BY <1>5, <1>s, <1>p DEF TypeOK, S_WaitReport
  <1>6. CASE S_Suspend
    BY <1>6, <1>s, <1>p, StopType DEF TypeOK, S_Suspend
  <1>7. CASE S_ContinueGroup
    BY <1>7, <1>s, ContinueType DEF TypeOK, S_ContinueGroup
  <1> QED BY <1>1, <1>2, <1>3, <1>4, <1>5, <1>6, <1>7, <1>8 DEF S_Supervise

LEMMA TypeCleanup == TypeOK /\ S_Cleanup => TypeOK'
  <1> SUFFICES ASSUME TypeOK, S_Cleanup PROVE TypeOK'
    OBVIOUS
  <1> USE RoundsAssumption DEF SGo, Fail
  <1>p. "S" \in Procs /\ "TERM" \in Sigs /\ "KILL" \in Sigs
    BY DEF Procs, Sigs
  <1>s. spc' \in SPC
    BY DEF SPC, TypeOK, S_Cleanup, S_TermGroup, S_GroupCheck, S_KillGroup, S_Reap, S_ListNone,
       S_SignalRound, S_RoundsExhausted, S_Finish, S_DropHandlers, S_Return, S_MainExit, Exit
  <1>1. CASE S_TermGroup
    BY <1>1, <1>s, <1>p, SendToType DEF TypeOK, S_TermGroup
  <1>2. CASE S_GroupCheck
    BY <1>2, <1>s DEF TypeOK, S_GroupCheck
  <1>3. CASE S_KillGroup
    BY <1>3, <1>s, <1>p, SendToType DEF TypeOK, S_KillGroup
  <1>4. CASE S_Reap
    BY <1>4, <1>s, ReapType DEF TypeOK, S_Reap
  <1>5. CASE S_ListNone
    BY <1>5, <1>s DEF TypeOK, S_ListNone
  <1>6. CASE S_SignalRound
    <2>1. (IF round < Rounds THEN "TERM" ELSE "KILL") \in Sigs
      BY <1>p
    <2>2. pend' \in [Procs -> SUBSET Sigs]
      BY <1>6, <2>1, SendToType DEF S_SignalRound
    <2>3. round' \in 0 .. 2 * Rounds
      BY <1>6, <1>s DEF TypeOK, S_SignalRound
    <2> QED BY <1>6, <1>s, <2>2, <2>3 DEF TypeOK, S_SignalRound
  <1>7. CASE S_RoundsExhausted
    BY <1>7, <1>s DEF TypeOK, S_RoundsExhausted
  <1>8. CASE S_Finish
    <2>1. pgidSet' \in BOOLEAN /\ outcome' \in Codes \cup {"none", "err"}
      BY <1>8 DEF TypeOK, S_Finish
    <2>2. UNCHANGED <<wpc, dpc, table, termFlag, winch, disp, tty, marker, round, budget>>
      BY <1>8 DEF S_Finish
    <2> QED BY <1>s, <2>1, <2>2 DEF TypeOK
  <1>9. CASE S_DropHandlers
    <2>1. handlers' \in BOOLEAN
      BY <1>9 DEF TypeOK, S_DropHandlers
    <2>2. UNCHANGED <<wpc, dpc, table, statics, masked, setup, tty, result, budget>>
      BY <1>9 DEF S_DropHandlers
    <2> QED BY <1>s, <2>1, <2>2 DEF TypeOK
  <1>10. CASE S_Return
    <2>1. raw' \in BOOLEAN
      BY <1>10 DEF TypeOK, S_Return
    <2>2. UNCHANGED <<wpc, dpc, table, statics, disp, stale, late, result, budget>>
      BY <1>10 DEF S_Return
    <2> QED BY <1>s, <2>1, <2>2 DEF TypeOK
  <1>11. CASE S_MainExit
    <2>1. Exit("S", outcome)
      BY <1>11 DEF S_MainExit
    <2> QED BY <1>11, <1>s, <1>p, <2>1, ExitType DEF TypeOK, S_MainExit
  <1> QED BY <1>1, <1>2, <1>3, <1>4, <1>5, <1>6, <1>7, <1>8, <1>9, <1>10, <1>11
          DEF S_Cleanup

LEMMA TypeSignal == TypeOK /\ S_Signal => TypeOK'
  <1> SUFFICES ASSUME TypeOK, S_Signal PROVE TypeOK'
    OBVIOUS
  <1> USE DEF SPC
  <1>p. "S" \in Procs
    BY DEF Procs
  <1>1. CASE S_HandleWinch
    BY <1>1, <1>p DEF TypeOK, S_HandleWinch
  <1>2. ASSUME NEW sig \in Sigs, S_Handle(sig) PROVE TypeOK'
    <2>1. (IF pgidSet THEN SendTo(Group, sig) ELSE pend) \in [Procs -> SUBSET Sigs]
      BY SendToType DEF TypeOK
    <2>2. pend' \in [Procs -> SUBSET Sigs]
      BY <1>2, <1>p, <2>1 DEF S_Handle
    <2> QED BY <1>2, <2>2 DEF TypeOK, S_Handle
  <1>3. ASSUME NEW sig \in Sigs, S_DefaultAction(sig) PROVE TypeOK'
    <2>1. CASE sig = "TSTP"
      <3>1. Stop("S")
        BY <1>3, <2>1 DEF S_DefaultAction
      <3> QED BY <1>3, <1>p, <2>1, <3>1, StopType DEF TypeOK, S_DefaultAction
    <2>2. CASE sig # "TSTP"
      <3>1. Exit("S", "sig")
        BY <1>3, <2>2 DEF S_DefaultAction
      <3> QED BY <1>3, <1>p, <2>2, <3>1, ExitType DEF TypeOK, S_DefaultAction
    <2> QED BY <2>1, <2>2
  <1> QED BY <1>1, <1>2, <1>3 DEF S_Signal

LEMMA TypeFaults == TypeOK /\ S_Faults => TypeOK'
  <1> SUFFICES ASSUME TypeOK, S_Faults PROVE TypeOK'
    OBVIOUS
  <1> USE SpendType DEF Fail
  <1>s. spc' \in SPC
    BY DEF SPC, TypeOK, S_Faults, S_StartFails, S_BlockFails, S_ForkFails, S_SetupFails,
       S_UnmaskFails, S_SuperviseFails, S_ListFails, S_FinishFails
  <1>1. CASE S_StartFails
    <2>1. budget' \in [{"sig", "stop", "fault"} -> Nat]
      BY <1>1 DEF S_StartFails
    <2>2. /\ spc' \in SPC /\ wpc' \in WPC /\ dpc' \in DPC /\ outcome' \in Codes \cup {"none", "err"}
      BY <1>1, <1>s DEF TypeOK, S_StartFails
    <2>3. raw' \in BOOLEAN
      BY <1>1, <1>s, FlagAssumption DEF S_StartFails
    <2> QED BY <1>1, <1>s, <2>1, <2>2, <2>3 DEF TypeOK, S_StartFails
  <1>2. CASE S_BlockFails
    BY <1>2, <1>s DEF TypeOK, S_BlockFails
  <1>3. CASE S_ForkFails
    <2>1. /\ masked' \in BOOLEAN
          /\ outcome' = "err" /\ budget' \in [{"sig", "stop", "fault"} -> Nat]
      BY <1>3 DEF TypeOK, S_ForkFails
    <2>2. UNCHANGED <<wpc, dpc, table, statics, handlers, setup, tty, marker, round>>
      BY <1>3 DEF S_ForkFails
    <2> QED BY <1>s, <2>1, <2>2 DEF TypeOK
  <1>4. CASE S_SetupFails
    <2>1. /\ masked' \in BOOLEAN
          /\ outcome' = "err" /\ budget' \in [{"sig", "stop", "fault"} -> Nat]
      BY <1>4 DEF TypeOK, S_SetupFails
    <2>2. UNCHANGED <<wpc, dpc, table, statics, handlers, setup, tty, marker, round>>
      BY <1>4 DEF S_SetupFails
    <2> QED BY <1>s, <2>1, <2>2 DEF TypeOK
  <1>5. CASE S_UnmaskFails
    <2>1. /\ pgidSet' \in BOOLEAN /\ handlers' \in BOOLEAN /\ setup' \in {"open", "done", "stuck"}
          /\ outcome' = "err" /\ budget' \in [{"sig", "stop", "fault"} -> Nat]
      BY <1>5 DEF TypeOK, S_UnmaskFails
    <2>2. UNCHANGED <<wpc, dpc, table, termFlag, winch, masked, tty, marker, round>>
      BY <1>5 DEF S_UnmaskFails
    <2> QED BY <1>s, <2>1, <2>2 DEF TypeOK
  <1>6. CASE S_SuperviseFails
    BY <1>6, <1>s DEF TypeOK, S_SuperviseFails
  <1>7. CASE S_ListFails
    BY <1>7, <1>s DEF TypeOK, S_ListFails
  <1>8. CASE S_FinishFails
    <2>1. /\ pgidSet' \in BOOLEAN
          /\ outcome' = "err" /\ budget' \in [{"sig", "stop", "fault"} -> Nat]
      BY <1>8 DEF TypeOK, S_FinishFails
    <2>2. UNCHANGED <<wpc, dpc, table, termFlag, winch, disp, tty, marker, round>>
      BY <1>8 DEF S_FinishFails
    <2> QED BY <1>s, <2>1, <2>2 DEF TypeOK
  <1> QED BY <1>1, <1>2, <1>3, <1>4, <1>5, <1>6, <1>7, <1>8 DEF S_Faults

LEMMA TypeMarkAndExit ==
    ASSUME TypeOK, NEW p \in Procs, MarkAndExit(p),
           budget' \in [{"sig", "stop", "fault"} -> Nat]
    PROVE  TypeOK'
  <1>1. Exit(p, "one") /\ "one" \in Codes
    BY DEF MarkAndExit, Codes
  <1> QED BY <1>1, ExitType DEF TypeOK, MarkAndExit

LEMMA TypeWrapper == TypeOK /\ (Wrapper \/ W_Fails) => TypeOK'
  <1> SUFFICES ASSUME TypeOK, Wrapper \/ W_Fails PROVE TypeOK'
    OBVIOUS
  <1> USE DEF WGo, WPC
  <1>p. /\ "W" \in Own /\ "D" \in Own /\ "W" \in Procs /\ "D" \in Procs \ {"S"}
        /\ "W" # "S" /\ "W" \in Procs \ {"S"}
    BY DEF Own, Procs
  <1>1. CASE W_SetPdeathsig
    BY <1>1 DEF TypeOK, W_SetPdeathsig
  <1>2. CASE W_CheckParent
    BY <1>2 DEF TypeOK, W_CheckParent
  <1>3. CASE W_ParentChanged
    BY <1>3, <1>p, TypeMarkAndExit DEF TypeOK, W_ParentChanged
  <1>4. CASE W_SetPgid
    BY <1>4, <1>p DEF TypeOK, W_SetPgid
  <1>5. CASE W_Unmask
    BY <1>5 DEF TypeOK, W_Unmask
  <1>6. CASE W_Isolate
    BY <1>6 DEF TypeOK, W_Isolate
  <1>7. CASE W_Fork
    <2>1. Fork("W", "D")
      BY <1>7 DEF W_Fork
    <2> QED BY <1>7, <1>p, <2>1, ForkType DEF TypeOK, W_Fork, Fork, DPC
  <1>8. CASE W_IgnoreInt
    BY <1>8, <1>p DEF TypeOK, W_IgnoreInt
  <1>9. CASE W_WaitExited
    BY <1>9, ReapType DEF TypeOK, W_WaitExited
  <1>10. CASE W_WaitReport
    BY <1>10, <1>p DEF TypeOK, W_WaitReport
  <1>11. CASE W_Suspend
    BY <1>11, <1>p, StopType DEF TypeOK, W_Suspend
  <1>12. CASE W_ContinueGroup
    BY <1>12, ContinueType DEF TypeOK, W_ContinueGroup
  <1>13. CASE W_Exit
    <2>1. Exit("W", status["D"]) /\ status["D"] \in Codes \cup {"none"}
      BY <1>13, <1>p DEF W_Exit, TypeOK
    <2> QED BY <1>13, <1>p, <2>1, ExitType DEF TypeOK, W_Exit
  <1>14. CASE W_Fails
    BY <1>14, <1>p, SpendType, TypeMarkAndExit DEF W_Fails
  <1>15. ASSUME NEW sig \in Sigs, W_Signal(sig) PROVE TypeOK'
    <2>1. CASE sig = "TSTP"
      <3>1. Stop("W")
        BY <1>15, <2>1 DEF W_Signal
      <3> QED BY <1>15, <1>p, <2>1, <3>1, StopType DEF TypeOK, W_Signal
    <2>2. CASE sig # "TSTP"
      <3>1. Exit("W", "sig") /\ "sig" \in Codes
        BY <1>15, <2>2 DEF W_Signal, Codes
      <3> QED BY <1>15, <1>p, <2>2, <3>1, ExitType DEF TypeOK, W_Signal
    <2> QED BY <2>1, <2>2
  <1> QED BY <1>1, <1>2, <1>3, <1>4, <1>5, <1>6, <1>7, <1>8, <1>9, <1>10, <1>11,
             <1>12, <1>13, <1>14, <1>15 DEF Wrapper

LEMMA TypeDelegate == TypeOK /\ (Delegate \/ D_Fails) => TypeOK'
  <1> SUFFICES ASSUME TypeOK, Delegate \/ D_Fails PROVE TypeOK'
    OBVIOUS
  <1> USE DEF DGo, DPC
  <1>p. "D" \in Procs
    BY DEF Procs
  <1>1. CASE D_SetPdeathsig
    BY <1>1 DEF TypeOK, D_SetPdeathsig
  <1>2. CASE D_CheckParent
    BY <1>2 DEF TypeOK, D_CheckParent
  <1>3. CASE D_ParentChanged
    BY <1>3, <1>p, TypeMarkAndExit DEF TypeOK, D_ParentChanged
  <1>4. CASE D_Exec
    BY <1>4 DEF TypeOK, D_Exec
  <1>5. CASE D_Fails
    BY <1>5, <1>p, SpendType, TypeMarkAndExit DEF D_Fails
  <1>6. ASSUME NEW sig \in Sigs, D_Signal(sig) PROVE TypeOK'
    <2>1. CASE Stop("D") /\ pend' = [pend EXCEPT !["D"] = @ \ {sig}]
                /\ UNCHANGED <<pcs, par, status>>
      BY <1>6, <1>p, <2>1, StopType DEF TypeOK, D_Signal
    <2>2. CASE Exit("D", "sig")
      <3>1. "sig" \in Codes
        BY DEF Codes
      <3> QED BY <1>6, <1>p, <2>2, <3>1, ExitType DEF TypeOK, D_Signal
    <2>3. CASE pend' = [pend EXCEPT !["D"] = @ \ {sig}]
                /\ UNCHANGED <<pcs, st, par, report, status>>
      BY <1>6, <1>p, <2>3 DEF TypeOK, D_Signal
    <2> QED BY <1>6, <2>1, <2>2, <2>3 DEF D_Signal
  <1> QED BY <1>1, <1>2, <1>3, <1>4, <1>5, <1>6 DEF Delegate

LEMMA TypeCommand == TypeOK /\ Command => TypeOK'
  <1> SUFFICES ASSUME TypeOK, Command PROVE TypeOK'
    OBVIOUS
  <1>p. /\ "D" \in Procs /\ Desc \subseteq Procs \ {"S"} /\ "code" \in Codes
        /\ "sig" \in Codes /\ "D" # "S"
    BY DescAssumption DEF Procs, Codes
  <1>1. CASE Cmd_Stop
    BY <1>1, <1>p, StopType, SpendType DEF TypeOK, Cmd_Stop
  <1>2. ASSUME NEW p \in {"D"} \cup Desc, Cmd_Exit(p) PROVE TypeOK'
    <2>1. Exit(p, "code") /\ p \in Procs
      BY <1>2, <1>p DEF Cmd_Exit
    <2> QED BY <1>2, <1>p, <2>1, ExitType DEF TypeOK, Cmd_Exit
  <1>3. ASSUME NEW p \in {"D"} \cup Desc, Cmd_Leave(p) PROVE TypeOK'
    BY <1>3, <1>p DEF TypeOK, Cmd_Leave
  <1>4. ASSUME NEW p \in {"D"} \cup Desc, NEW x \in Desc, Cmd_Fork(p, x) PROVE TypeOK'
    <2>1. Fork(p, x) /\ p \in Procs /\ x \in Procs \ {"S"}
      BY <1>4, <1>p DEF Cmd_Fork
    <2> QED BY <1>4, <2>1, ForkType DEF TypeOK, Cmd_Fork, Fork
  <1>5. ASSUME NEW x \in Desc, NEW sig \in Sigs, Desc_Signal(x, sig) PROVE TypeOK'
    <2>1. CASE Exit(x, "sig")
      BY <1>5, <1>p, <2>1, ExitType DEF TypeOK, Desc_Signal
    <2>2. CASE pend' = [pend EXCEPT ![x] = @ \ {sig}]
                /\ UNCHANGED <<pcs, st, par, report, status>>
      BY <1>5, <1>p, <2>2 DEF TypeOK, Desc_Signal
    <2> QED BY <1>5, <2>1, <2>2 DEF Desc_Signal
  <1> QED BY <1>1, <1>2, <1>3, <1>4, <1>5 DEF Command

LEMMA TypeEnvironment == TypeOK /\ Environment => TypeOK'
  <1> SUFFICES ASSUME TypeOK, Environment PROVE TypeOK'
    OBVIOUS
  <1>p. /\ Own \subseteq Procs /\ "S" \in Procs /\ "W" \in Procs /\ "D" \in Procs
        /\ "D" \in Own /\ "sig" \in Codes /\ "WINCH" \in Sigs /\ "TERM" \in Sigs
    BY DEF Own, Procs, Codes, Sigs
  <1>1. ASSUME NEW p \in Procs, Die(p) PROVE TypeOK'
    <2>1. Exit(p, "sig")
      BY <1>1 DEF Die
    <2> QED BY <1>1, <1>p, <2>1, ExitType DEF TypeOK, Die
  <1>2. ASSUME NEW p \in Own, Env_Orphaned(p) PROVE TypeOK'
    BY <1>2, <1>p DEF TypeOK, Env_Orphaned
  <1>3. ASSUME NEW p \in {"S", "W"}, NEW sig \in Sigs, Env_Signal(p, sig) PROVE TypeOK'
    BY <1>3, <1>p, SendToType, SpendType DEF TypeOK, Env_Signal
  <1>4. CASE Env_Continue
    BY <1>4, <1>p DEF TypeOK, Env_Continue
  <1>5. CASE Env_ContinueCommand
    BY <1>5, <1>p DEF TypeOK, Env_ContinueCommand
  <1>6. CASE Env_Resize
    BY <1>6, <1>p, SendToType, SpendType DEF TypeOK, Env_Resize
  <1> QED BY <1>1, <1>2, <1>3, <1>4, <1>5, <1>6 DEF Environment

LEMMA TypeInit == Init => TypeOK
  <1> SUFFICES ASSUME Init PROVE TypeOK
    OBVIOUS
  <1> USE RoundsAssumption, FlagAssumption, BoundAssumption
  <1>1. budget \in [{"sig", "stop", "fault"} -> Nat]
    BY DEF Init
  <1>2. round \in 0 .. 2 * Rounds
    BY DEF Init
  <1>3. /\ pend \in [Procs -> SUBSET Sigs]
        /\ st \in [Procs -> {"none", "run", "stopped", "zombie", "gone"}]
        /\ par \in [Procs \ {"S"} -> Procs \cup {"init"}]
        /\ inGrp \in [Procs \ {"S"} -> BOOLEAN]
    BY DEF Init
  <1>4. /\ report \in [Own -> {"none", "stopped", "continued"}]
        /\ status \in [Own -> Codes \cup {"none"}]
    BY DEF Init
  <1> HIDE FlagAssumption, BoundAssumption
  <1> QED BY <1>1, <1>2, <1>3, <1>4 DEF Init, TypeOK, SPC, WPC, DPC, Codes

LEMMA TypeStep == TypeOK /\ [Next]_vars => TypeOK'
  <1> SUFFICES ASSUME TypeOK, [Next]_vars PROVE TypeOK'
    OBVIOUS
  <1>1. CASE UNCHANGED vars
    BY <1>1 DEF TypeOK
  <1>2. CASE Finished
    BY <1>2 DEF TypeOK, Finished
  <1> QED BY <1>1, <1>2, TypeSetup, TypeSupervise, TypeCleanup, TypeSignal, TypeFaults,
             TypeWrapper, TypeDelegate, TypeCommand, TypeEnvironment DEF Next

\* Every variable keeps its type: in particular the cleanup never exceeds
\* 2 * Rounds rounds, so terminate_adopted_descendants always returns.
THEOREM TypeCorrect == Spec => []TypeOK
  <1> QED BY TypeInit, TypeStep, PTL DEF Spec

-----------------------------------------------------------------------------
(* How the steps change who is alive                                       *)

\* No process starts or ends.
SameLife == \A q \in Procs : (Live(q)' <=> Live(q)) /\ (Ended(q)' <=> Ended(q))

LEMMA ProcsFacts ==
    /\ "S" \in Procs /\ "W" \in Procs \ {"S"} /\ "D" \in Procs \ {"S"}
    /\ "W" \in Own /\ "D" \in Own /\ Own \subseteq Procs \ {"S"}
    /\ Desc \subseteq Procs \ {"S", "W", "D"}
    /\ "init" \notin Procs
  BY DescAssumption DEF Procs, Own

LEMMA StopLife ==
    ASSUME TypeOK, NEW p \in Procs, Live(p), Stop(p)
    PROVE  SameLife
  BY DEF TypeOK, Stop, SameLife, Live, Ended

LEMMA ContinueLife ==
    ASSUME TypeOK, ContinueGroup
    PROVE  SameLife
  BY DEF TypeOK, ContinueGroup, SameLife, Live, Ended

LEMMA ReapLife ==
    ASSUME TypeOK, NEW T, \A q \in T : st[q] = "zombie", Reap(T)
    PROVE  SameLife
  BY DEF TypeOK, Reap, SameLife, Live, Ended

LEMMA SameTableLife ==
    ASSUME st' = st
    PROVE  SameLife
  BY DEF SameLife, Live, Ended

LEMMA ResumeLife ==
    ASSUME TypeOK, NEW p \in Procs, st[p] = "stopped", st' = [st EXCEPT ![p] = "run"]
    PROVE  SameLife
  BY DEF TypeOK, SameLife, Live, Ended

LEMMA ExitLife ==
    ASSUME TypeOK, NEW p \in Procs, NEW how, Exit(p, how)
    PROVE  /\ ~Live(p)' /\ Ended(p)'
           /\ \A q \in Procs \ {p} : (Live(q)' <=> Live(q)) /\ (Ended(q)' <=> Ended(q))
           /\ \A q \in Procs \ {"S"} :
                 par'[q] = IF par[q] = p
                           THEN IF p # "S" /\ Live("S") THEN "S" ELSE "init"
                           ELSE par[q]
           /\ \A q \in Own : status'[q] = IF q = p THEN how ELSE status[q]
           /\ spc' = IF p = "S" THEN "dead" ELSE spc
           /\ wpc' = IF p = "W" THEN "dead" ELSE wpc
           /\ dpc' = IF p = "D" THEN "dead" ELSE dpc
  <1>1. ~Live(p)' /\ Ended(p)'
    BY DEF TypeOK, Exit, Heir, Live, Ended
  <1>2. \A q \in Procs \ {p} : (Live(q)' <=> Live(q)) /\ (Ended(q)' <=> Ended(q))
    BY DEF TypeOK, Exit, Heir, Live, Ended
  <1> QED BY <1>1, <1>2 DEF Exit, Heir

LEMMA ForkLife ==
    ASSUME TypeOK, NEW p \in Procs, NEW q \in Procs \ {"S"}, Fork(p, q)
    PROVE  /\ ~Live(q) /\ ~Ended(q) /\ Live(q)' /\ ~Ended(q)'
           /\ \A r \in Procs \ {q} : (Live(r)' <=> Live(r)) /\ (Ended(r)' <=> Ended(r))
           /\ \A r \in Procs \ {"S"} : par'[r] = IF r = q THEN p ELSE par[r]
           /\ status' = status /\ pend' = pend
  BY DEF TypeOK, Fork, Live, Ended

\* The reasons for which a process ends.
Cause(p, how) ==
    \/ p = "S"
    \/ p = "W" /\ wpc = "exit" /\ how = status["D"]
    \/ how = "one" /\ marker'
    \/ how = "sig"
    \/ how = "code" /\ p # "W"

\* The steps seen from the process table: nothing starts or ends, one process
\* ends, or one live process forks another.
Tables ==
    \/ /\ SameLife /\ par' = par /\ status' = status /\ marker' = marker
       /\ spc' = "dead" <=> spc = "dead"
       /\ wpc' = "exit" => wpc = "exit" \/ Ended("D")
    \/ \E p \in Procs : \E how :
          /\ Live(p) /\ Exit(p, how) /\ Cause(p, how)
          /\ marker' = marker \/ (marker' /\ p \in Own)
    \/ \E p \in Procs, q \in Procs \ {"S"} :
          /\ Live(p) /\ Fork(p, q) /\ (q = "W" => p = "S") /\ (q = "D" => p = "W")
          /\ p = "S" => spc = "fork"
          /\ marker' = marker
          /\ spc' = "dead" <=> spc = "dead"
          /\ wpc' = "exit" => wpc = "exit"

LEMMA SupervisorTables ==
    TypeOK /\ (S_Setup \/ S_Supervise \/ S_Cleanup \/ S_Signal \/ S_Faults) => Tables
  <1> SUFFICES ASSUME TypeOK,
                      S_Setup \/ S_Supervise \/ S_Cleanup \/ S_Signal \/ S_Faults
               PROVE  Tables
    OBVIOUS
  <1> USE ProcsFacts DEF SGo, Tables, Fail, Cause
  <1>1. CASE S_Setup
    <2>1. CASE S_Fork
      BY <2>1 DEF S_Fork, CanRun, Live
    <2>2. CASE S_ReapSetup
      BY <2>2, ReapLife DEF S_ReapSetup
    <2>3. CASE S_Start \/ S_Block \/ S_SetPgid \/ S_PublishPgid \/ S_InstallHandlers
      BY <2>3, SameTableLife
         DEF S_Start, S_Block, S_SetPgid, S_PublishPgid, S_InstallHandlers
    <2>4. CASE S_SetupFailed \/ S_Unmask \/ S_KillChild \/ S_KillSetupGroup
      BY <2>4, SameTableLife DEF S_SetupFailed, S_Unmask, S_KillChild, S_KillSetupGroup
    <2> QED BY <1>1, <2>1, <2>2, <2>3, <2>4 DEF S_Setup
  <1>2. CASE S_Supervise
    <2>1. CASE S_WaitExited
      BY <2>1, ReapLife DEF S_WaitExited
    <2>2. CASE S_Suspend
      BY <2>2, StopLife DEF S_Suspend, CanRun, Live
    <2>3. CASE S_ContinueGroup
      BY <2>3, ContinueLife DEF S_ContinueGroup
    <2>4. CASE \/ S_CheckTermination \/ S_TakeWinch \/ S_ForwardWinsize \/ S_EnterWait
               \/ S_WaitReport
      BY <2>4, SameTableLife
         DEF S_CheckTermination, S_TakeWinch, S_ForwardWinsize, S_EnterWait, S_WaitReport
    <2> QED BY <1>2, <2>1, <2>2, <2>3, <2>4 DEF S_Supervise
  <1>3. CASE S_Cleanup
    <2>1. CASE S_Reap
      BY <2>1, ReapLife DEF S_Reap
    <2>2. CASE S_MainExit
      BY <2>2 DEF S_MainExit, CanRun, Live
    <2>3. CASE S_TermGroup \/ S_GroupCheck \/ S_KillGroup \/ S_ListNone \/ S_SignalRound
      BY <2>3, SameTableLife DEF S_TermGroup, S_GroupCheck, S_KillGroup, S_ListNone, S_SignalRound
    <2>4. CASE S_RoundsExhausted \/ S_Finish \/ S_DropHandlers \/ S_Return
      BY <2>4, SameTableLife DEF S_RoundsExhausted, S_Finish, S_DropHandlers, S_Return
    <2> QED BY <1>3, <2>1, <2>2, <2>3, <2>4 DEF S_Cleanup
  <1>4. CASE S_Signal
    <2>1. CASE S_HandleWinch
      BY <2>1, SameTableLife DEF S_HandleWinch
    <2>2. ASSUME NEW sig \in Sigs, S_Handle(sig) PROVE Tables
      BY <2>2, SameTableLife DEF S_Handle
    <2>3. ASSUME NEW sig \in Sigs, S_DefaultAction(sig) PROVE Tables
      BY <2>3, StopLife DEF S_DefaultAction, CanRun, Live
    <2> QED BY <1>4, <2>1, <2>2, <2>3 DEF S_Signal
  <1>5. CASE S_Faults
    BY <1>5, SameTableLife
       DEF S_Faults, S_StartFails, S_BlockFails, S_ForkFails, S_SetupFails, S_UnmaskFails,
           S_SuperviseFails, S_ListFails, S_FinishFails
  <1> QED BY <1>1, <1>2, <1>3, <1>4, <1>5

LEMMA WrapperTables == TypeOK /\ (Wrapper \/ W_Fails) => Tables
  <1> SUFFICES ASSUME TypeOK, Wrapper \/ W_Fails PROVE Tables
    OBVIOUS
  <1> USE ProcsFacts DEF WGo, Tables, Cause, Ended
  <1>1. CASE W_SetPdeathsig \/ W_CheckParent \/ W_SetPgid \/ W_Unmask \/ W_Isolate
    BY <1>1, SameTableLife DEF W_SetPdeathsig, W_CheckParent, W_SetPgid, W_Unmask, W_Isolate
  <1>2. CASE W_IgnoreInt \/ W_WaitReport
    BY <1>2, SameTableLife DEF W_IgnoreInt, W_WaitReport
  <1>3. CASE W_ParentChanged \/ W_Fails \/ W_Exit
    BY <1>3 DEF W_ParentChanged, W_Fails, W_Exit, MarkAndExit, CanRun, Live
  <1>4. CASE W_Fork
    BY <1>4 DEF W_Fork, CanRun, Live
  <1>5. CASE W_WaitExited
    BY <1>5, ReapLife DEF W_WaitExited
  <1>6. CASE W_Suspend
    BY <1>6, StopLife DEF W_Suspend, CanRun, Live
  <1>7. CASE W_ContinueGroup
    BY <1>7, ContinueLife DEF W_ContinueGroup
  <1>8. ASSUME NEW sig \in Sigs, W_Signal(sig) PROVE Tables
    BY <1>8, StopLife DEF W_Signal, CanRun, Live
  <1> QED BY <1>1, <1>2, <1>3, <1>4, <1>5, <1>6, <1>7, <1>8 DEF Wrapper

LEMMA OtherTables ==
    TypeOK /\ (Delegate \/ D_Fails \/ Command \/ Environment) => Tables
  <1> SUFFICES ASSUME TypeOK, Delegate \/ D_Fails \/ Command \/ Environment PROVE Tables
    OBVIOUS
  <1> USE ProcsFacts DEF DGo, Tables, Cause
  <1>1. CASE Delegate \/ D_Fails
    <2>1. CASE D_SetPdeathsig \/ D_CheckParent \/ D_Exec
      BY <2>1, SameTableLife DEF D_SetPdeathsig, D_CheckParent, D_Exec
    <2>2. CASE D_ParentChanged \/ D_Fails
      BY <2>2 DEF D_ParentChanged, D_Fails, MarkAndExit, CanRun, Live
    <2>3. ASSUME NEW sig \in Sigs, D_Signal(sig) PROVE Tables
      BY <2>3, StopLife, SameTableLife DEF D_Signal, CanRun, Live
    <2> QED BY <1>1, <2>1, <2>2, <2>3 DEF Delegate
  <1>2. CASE Command
    <2>1. CASE Cmd_Stop
      BY <2>1, StopLife DEF Cmd_Stop, Runs, CanRun, Live
    <2>2. ASSUME NEW p \in {"D"} \cup Desc, Cmd_Exit(p) PROVE Tables
      BY <2>2 DEF Cmd_Exit, Runs, CanRun, Live
    <2>3. ASSUME NEW p \in {"D"} \cup Desc, Cmd_Leave(p) PROVE Tables
      BY <2>3, SameTableLife DEF Cmd_Leave
    <2>4. ASSUME NEW p \in {"D"} \cup Desc, NEW x \in Desc, Cmd_Fork(p, x) PROVE Tables
      BY <2>4 DEF Cmd_Fork, Runs, CanRun, Live
    <2>5. ASSUME NEW x \in Desc, NEW sig \in Sigs, Desc_Signal(x, sig) PROVE Tables
      BY <2>5, SameTableLife DEF Desc_Signal, CanRun, Live
    <2> QED BY <1>2, <2>1, <2>2, <2>3, <2>4, <2>5 DEF Command
  <1>3. CASE Environment
    <2>1. ASSUME NEW p \in Procs, Die(p) PROVE Tables
      BY <2>1 DEF Die
    <2>2. ASSUME NEW p \in Own, Env_Orphaned(p) PROVE Tables
      BY <2>2, ResumeLife DEF Env_Orphaned
    <2>3. ASSUME NEW p \in {"S", "W"}, NEW sig \in Sigs, Env_Signal(p, sig) PROVE Tables
      BY <2>3, SameTableLife DEF Env_Signal
    <2>4. CASE Env_Continue \/ Env_ContinueCommand
      BY <2>4, ResumeLife DEF Env_Continue, Env_ContinueCommand
    <2>5. CASE Env_Resize
      BY <2>5, SameTableLife DEF Env_Resize
    <2> QED BY <1>3, <2>1, <2>2, <2>3, <2>4, <2>5 DEF Environment
  <1> QED BY <1>1, <1>2, <1>3

LEMMA StepTables == TypeOK /\ Next => Tables
  <1>1. ASSUME Finished PROVE Tables
    BY <1>1, SameTableLife DEF Finished, Tables
  <1> QED BY <1>1, SupervisorTables, WrapperTables, OtherTables DEF Next

-----------------------------------------------------------------------------
(* The forest of live processes                                            *)

LEMMA ForestExit ==
    ASSUME TypeOK, Forest, NEW p \in Procs, NEW how, Live(p), Exit(p, how)
    PROVE  Forest'
  <1> USE ProcsFacts
  <1>1. ASSUME NEW q \in Procs \ {"S"}, Live(q)'
        PROVE  \/ par'[q] = "S"
               \/ par'[q] = "init" /\ ~Live("S")'
               \/ par'[q] \in Procs \ {"S"} /\ Live(par[q])'
    <2>1. q # p /\ Live(q)
      BY <1>1, ExitLife
    <2>2. CASE par[q] = p
      BY <2>2, ExitLife
    <2>3. CASE par[q] # p
      <3>1. par'[q] = par[q]
        BY <2>3, ExitLife
      <3>2. \/ par[q] = "S"
            \/ par[q] = "init" /\ ~Live("S")
            \/ par[q] \in Procs \ {"S"} /\ Live(par[q])
        BY <2>1 DEF Forest
      <3> QED BY <2>3, <3>1, <3>2, ExitLife
    <2> QED BY <2>2, <2>3
  <1>2. ASSUME NEW X \in SUBSET (Procs \ {"S"}), X # {}, \A q \in X : Live(q)'
        PROVE  \E q \in X : par'[q] \notin X
    <2>1. \A q \in X : Live(q)
      BY <1>2, ExitLife
    <2>2. PICK q \in X : par[q] \notin X
      BY <1>2, <2>1 DEF Forest
    <2>3. par'[q] \in {par[q], "S", "init"}
      BY ExitLife
    <2> QED BY <2>2, <2>3
  <1> QED BY <1>1, <1>2 DEF Forest

LEMMA ForestFork ==
    ASSUME TypeOK, Forest, NEW p \in Procs, NEW q \in Procs \ {"S"}, Live(p), Fork(p, q)
    PROVE  Forest'
  <1> USE ProcsFacts
  <1>1. ASSUME NEW r \in Procs \ {"S"}, Live(r)'
        PROVE  \/ par'[r] = "S"
               \/ par'[r] = "init" /\ ~Live("S")'
               \/ par'[r] \in Procs \ {"S"} /\ Live(par[r])'
    <2>1. CASE r = q
      BY <2>1, ForkLife
    <2>2. CASE r # q
      BY <1>1, <2>2, ForkLife DEF Forest
    <2> QED BY <2>1, <2>2
  <1>2. ASSUME NEW X \in SUBSET (Procs \ {"S"}), X # {}, \A r \in X : Live(r)'
        PROVE  \E r \in X : par'[r] \notin X
    <2>1. \A r \in X \ {q} : Live(r)
      BY <1>2, ForkLife
    <2>2. CASE X \ {q} = {}
      BY <1>2, <2>2, ForkLife
    <2>3. CASE X \ {q} # {}
      <3>1. PICK r \in X \ {q} : par[r] \notin X \ {q}
        BY <2>1, <2>3 DEF Forest
      <3>2. par[r] # q
        BY <2>1, <3>1, ForkLife DEF Forest
      <3>3. par'[r] = par[r]
        BY <3>1, ForkLife
      <3> QED BY <3>1, <3>2, <3>3
    <2> QED BY <2>2, <2>3
  <1> QED BY <1>1, <1>2 DEF Forest

LEMMA ForestSame ==
    ASSUME TypeOK, Forest, SameLife, par' = par
    PROVE  Forest'
  <1> USE ProcsFacts
  <1>1. ASSUME NEW q \in Procs \ {"S"}, Live(q)'
        PROVE  \/ par'[q] = "S"
               \/ par'[q] = "init" /\ ~Live("S")'
               \/ par'[q] \in Procs \ {"S"} /\ Live(par[q])'
    BY <1>1 DEF Forest, SameLife
  <1>2. ASSUME NEW X \in SUBSET (Procs \ {"S"}), X # {}, \A q \in X : Live(q)'
        PROVE  \E q \in X : par'[q] \notin X
    BY <1>2 DEF Forest, SameLife
  <1> QED BY <1>1, <1>2 DEF Forest

LEMMA ForestStep == TypeOK /\ Forest /\ Next => Forest'
  <1> SUFFICES ASSUME TypeOK, Forest, Next PROVE Forest'
    OBVIOUS
  <1>1. Tables
    BY StepTables
  <1> QED BY <1>1, ForestSame, ForestExit, ForestFork DEF Tables

\* When the live supervisor has no child left, nothing of the delegation lives:
\* the parent of a live process outside the set of all of them can only be S.
LEMMA NoChildNoProcess ==
    ASSUME TypeOK, Forest, Live("S"), Children("S") = {}
    PROVE  \A p \in Procs \ {"S"} : ~Live(p)
  <1> DEFINE X == {p \in Procs \ {"S"} : Live(p)}
  <1>1. SUFFICES ASSUME X # {} PROVE FALSE
    OBVIOUS
  <1>2. PICK p \in X : par[p] \notin X
    BY <1>1 DEF Forest
  <1>3. par[p] = "S"
    BY <1>2 DEF Forest
  <1> QED BY <1>2, <1>3 DEF Children, Live

-----------------------------------------------------------------------------
(* How processes end                                                       *)

LEMMA EndingsStep == TypeOK /\ Endings /\ Next => Endings'
  <1> SUFFICES ASSUME TypeOK, Endings, Next PROVE Endings'
    OBVIOUS
  <1> USE ProcsFacts
  <1>1. Tables
    BY StepTables
  <1>2. CASE /\ SameLife /\ par' = par /\ status' = status /\ marker' = marker
             /\ spc' = "dead" <=> spc = "dead"
             /\ wpc' = "exit" => wpc = "exit" \/ Ended("D")
    BY <1>2 DEF Endings, SameLife
  <1>3. ASSUME NEW p \in Procs, NEW how, Live(p), Exit(p, how), Cause(p, how),
               marker' = marker \/ (marker' /\ p \in Own)
        PROVE  Endings'
    <2>1. p \in Own => ~Ended(p) /\ status[p] = "none"
      BY <1>3 DEF Endings, Live, Ended
    <2>2. p \in Own => how # "none" /\ (how = "one" => marker')
      BY <1>3 DEF Cause, Endings
    <2>3. (spc = "dead" <=> ~Live("S"))'
      BY <1>3, ExitLife DEF Endings
    <2>4. \A q \in Own : (status[q] # "none" <=> Ended(q))'
      BY <1>3, <2>2, ExitLife DEF Endings
    <2>5. \A q \in Own : (status[q] = "one" => marker)'
      BY <1>3, <2>2, ExitLife DEF Endings
    <2>6. (wpc = "exit" => status["D"] # "none")'
      BY <1>3, <2>2, ExitLife DEF Endings
    <2>7. (status["W"] = "code" => status["D"] = "code")'
      <3>1. CASE p = "W"
        BY <1>3, <3>1, ExitLife DEF Cause
      <3>2. CASE p = "D"
        BY <1>3, <2>1, <3>2, ExitLife DEF Endings
      <3>3. CASE p \notin {"W", "D"}
        BY <1>3, <3>3, ExitLife DEF Endings
      <3> QED BY <3>1, <3>2, <3>3
    <2> QED BY <2>3, <2>4, <2>5, <2>6, <2>7 DEF Endings
  <1>4. ASSUME NEW p \in Procs, NEW q \in Procs \ {"S"}, Fork(p, q), marker' = marker,
               spc' = "dead" <=> spc = "dead", wpc' = "exit" => wpc = "exit"
        PROVE  Endings'
    BY <1>4, ForkLife DEF Endings
  <1> QED BY <1>1, <1>2, <1>3, <1>4 DEF Tables

-----------------------------------------------------------------------------
(* What the supervisor decides                                             *)

\* The steps that leave the decisions of S alone.
Undecided ==
    /\ outcome' = outcome
    /\ spc' = spc \/ spc' = "dead"

LEMMA UndecidedSteps ==
    TypeOK /\ Next =>
        \/ S_Setup \/ S_Supervise \/ S_Cleanup \/ S_Faults
        \/ Undecided
        \/ spc = "wait" /\ spc' = "loop" /\ outcome' = outcome
  <1> SUFFICES ASSUME TypeOK, Next
               PROVE  \/ S_Setup \/ S_Supervise \/ S_Cleanup \/ S_Faults
                      \/ Undecided
                      \/ spc = "wait" /\ spc' = "loop" /\ outcome' = outcome
    OBVIOUS
  <1> USE DEF Undecided
  <1>1. CASE S_Signal
    <2>1. CASE S_HandleWinch
      BY <2>1 DEF S_HandleWinch
    <2>2. ASSUME NEW sig \in Sigs, S_Handle(sig) \/ S_DefaultAction(sig)
          PROVE  Undecided \/ (spc = "wait" /\ spc' = "loop" /\ outcome' = outcome)
      BY <2>2 DEF S_Handle, S_DefaultAction, Exit
    <2> QED BY <1>1, <2>1, <2>2 DEF S_Signal
  <1>2. CASE Wrapper \/ W_Fails
    BY <1>2 DEF Wrapper, W_SetPdeathsig, W_CheckParent, W_ParentChanged, W_SetPgid, W_Unmask,
                W_Isolate, W_Fork, W_IgnoreInt, W_WaitExited, W_WaitReport, W_Suspend,
                W_ContinueGroup, W_Exit, W_Signal, W_Fails, WGo, MarkAndExit, Exit
  <1>3. CASE Delegate \/ D_Fails
    BY <1>3 DEF Delegate, D_SetPdeathsig, D_CheckParent, D_ParentChanged, D_Exec, D_Signal,
                D_Fails, DGo, MarkAndExit, Exit
  <1>4. CASE Command
    BY <1>4 DEF Command, Cmd_Stop, Cmd_Exit, Cmd_Leave, Cmd_Fork, Desc_Signal, Exit
  <1>5. CASE Environment
    BY <1>5 DEF Environment, Die, Env_Orphaned, Env_Signal, Env_Continue,
                Env_ContinueCommand, Env_Resize, Exit
  <1>6. CASE Finished
    BY <1>6 DEF Finished
  <1> QED BY <1>1, <1>2, <1>3, <1>4, <1>5, <1>6 DEF Next

\* With nothing else alive, nothing of the process table changes but S itself.
LEMMA NothingAlive ==
    ASSUME TypeOK, Next, \A p \in Procs \ {"S"} : ~Live(p), spc # "fork"
    PROVE  (\A p \in Procs \ {"S"} : ~Live(p))' /\ marker' = marker
  <1> USE ProcsFacts
  <1>1. Tables
    BY StepTables
  <1> QED BY <1>1, ExitLife DEF Tables, SameLife

\* A status is final and so is the mark on the error pipe.
LEMMA Final ==
    ASSUME TypeOK, Endings, Next
    PROVE  /\ \A p \in Own : status[p] # "none" => status'[p] = status[p]
           /\ marker => marker'
  <1> USE ProcsFacts
  <1>1. Tables
    BY StepTables
  <1>2. ASSUME NEW p \in Procs, NEW how, Live(p), Exit(p, how)
        PROVE  \A q \in Own : status[q] # "none" => status'[q] = status[q]
    <2>1. p \in Own => status[p] = "none"
      BY <1>2 DEF Endings, Live, Ended
    <2> QED BY <1>2, <2>1, ExitLife
  <1> QED BY <1>1, <1>2, ForkLife DEF Tables

LEMMA ResultsUndecided ==
    ASSUME TypeOK, Endings, Results, Next,
           Undecided \/ (spc = "wait" /\ spc' = "loop" /\ outcome' = outcome)
    PROVE  Results'
  <1> USE ProcsFacts
  <1>1. spc \in {"finish", "drop", "return", "main"} /\ outcome # "err"
          => (\A p \in Procs \ {"S"} : ~Live(p))' /\ marker' = marker
    BY NothingAlive DEF Results
  <1> QED BY <1>1, Final DEF Results, Undecided

LEMMA ResultsDecided ==
    ASSUME TypeOK, Forest, Endings, Results, Next,
           S_Setup \/ S_Supervise \/ S_Cleanup \/ S_Faults
    PROVE  Results'
  <1> USE ProcsFacts DEF SGo, Fail
  <1>n. spc \in {"finish", "drop", "return", "main"} /\ outcome # "err"
          => (\A p \in Procs \ {"S"} : ~Live(p))' /\ marker' = marker
    BY NothingAlive DEF Results
  <1>f. /\ status["D"] = "code" => status'["D"] = "code"
        /\ status["W"] = "sig" => status'["W"] = "sig"
        /\ marker => marker'
    BY Final
  <1>1. CASE S_Setup
    BY <1>1, <1>f DEF S_Setup, S_Start, S_Block, S_Fork, S_SetPgid, S_PublishPgid,
          S_InstallHandlers, S_SetupFailed, S_Unmask, S_KillChild, S_KillSetupGroup,
          S_ReapSetup, Results
  <1>2. CASE S_Supervise
    <2>1. CASE S_WaitExited
      <3>1. status["W"] # "none"
        BY <2>1 DEF S_WaitExited, Endings, Ended
      <3>2. outcome' = status["W"] /\ spc' = "term_group"
        BY <2>1 DEF S_WaitExited
      <3>3. status["W"] = "one" => marker
        BY DEF Endings
      <3> QED BY <1>f, <3>1, <3>2, <3>3 DEF Results, Endings
    <2>2. CASE S_CheckTermination
      BY <1>f, <2>2 DEF S_CheckTermination, Results
    <2>3. CASE \/ S_TakeWinch \/ S_ForwardWinsize \/ S_EnterWait \/ S_WaitReport
               \/ S_Suspend \/ S_ContinueGroup
      BY <1>f, <2>3 DEF S_TakeWinch, S_ForwardWinsize, S_EnterWait, S_WaitReport, S_Suspend,
            S_ContinueGroup, Results
    <2> QED BY <1>2, <2>1, <2>2, <2>3 DEF S_Supervise
  <1>3. CASE S_Cleanup
    <2>1. CASE S_ListNone
      <3>1. \A p \in Procs \ {"S"} : ~Live(p)
        BY <2>1, NoChildNoProcess DEF S_ListNone, CanRun, Live
      <3>2. (\A p \in Procs \ {"S"} : ~Live(p))'
        BY <2>1, <3>1 DEF S_ListNone, Live
      <3> QED BY <1>f, <2>1, <3>2 DEF S_ListNone, Results
    <2>2. CASE S_TermGroup \/ S_GroupCheck \/ S_KillGroup \/ S_Reap \/ S_SignalRound
      BY <1>f, <2>2 DEF S_TermGroup, S_GroupCheck, S_KillGroup, S_Reap, S_SignalRound, Results
    <2>3. CASE S_RoundsExhausted
      BY <1>f, <2>3 DEF S_RoundsExhausted, Results
    <2>4. CASE S_Finish
      BY <1>f, <1>n, <2>4 DEF S_Finish, Results
    <2>5. CASE S_DropHandlers \/ S_Return
      BY <1>f, <1>n, <2>5 DEF S_DropHandlers, S_Return, Results
    <2>6. CASE S_MainExit
      BY <1>f, <2>6 DEF S_MainExit, Exit, Results
    <2> QED BY <1>3, <2>1, <2>2, <2>3, <2>4, <2>5, <2>6 DEF S_Cleanup
  <1>4. CASE S_Faults
    BY <1>4, <1>f DEF S_Faults, S_StartFails, S_BlockFails, S_ForkFails, S_SetupFails,
          S_UnmaskFails, S_SuperviseFails, S_ListFails, S_FinishFails, Results
  <1> QED BY <1>1, <1>2, <1>3, <1>4

LEMMA ResultsStep == TypeOK /\ Forest /\ Endings /\ Results /\ Next => Results'
  BY UndecidedSteps, ResultsUndecided, ResultsDecided

-----------------------------------------------------------------------------
(* The handshake with the parent                                           *)

Early == {"none", "pdeath", "ppid"}

\* SIGKILL stays pending until it has killed, and the wrapper and the delegated
\* process get past their handshake only with the right parent.
Moves ==
    /\ \A p \in Own : "KILL" \in pend[p] => "KILL" \in pend'[p] \/ ~Live(p)'
    /\ wpc' \notin Early => wpc \notin Early \/ par["W"] = "S" \/ ~Live("W")'
    /\ dpc' \in {"exec", "run"} => dpc \in {"exec", "run"} \/ par["D"] = "W"

LEMMA SendToKeeps ==
    ASSUME TypeOK, NEW T, NEW sig
    PROVE  \A p \in Own : "KILL" \in pend[p] => "KILL" \in SendTo(T, sig)[p]
  BY ProcsFacts DEF SendTo

LEMMA ContinueKeeps ==
    ASSUME TypeOK, ContinueGroup
    PROVE  \A p \in Own : "KILL" \in pend[p] => "KILL" \in pend'[p]
  BY ProcsFacts DEF ContinueGroup

LEMMA ExitKeeps ==
    ASSUME TypeOK, NEW p \in Procs, NEW how, Exit(p, how)
    PROVE  Moves
  <1> USE ProcsFacts
  <1>1. ASSUME NEW q \in Own, "KILL" \in pend[q]
        PROVE  "KILL" \in pend'[q] \/ ~Live(q)'
    <2>1. CASE q = p
      BY <2>1, ExitLife
    <2>2. CASE q # p
      BY <1>1, <2>2 DEF Exit
    <2> QED BY <2>1, <2>2
  <1> QED BY <1>1, ExitLife DEF Moves, Early

LEMMA SupervisorMoves ==
    TypeOK /\ (S_Setup \/ S_Supervise \/ S_Cleanup \/ S_Signal \/ S_Faults) => Moves
  <1> SUFFICES ASSUME TypeOK,
                      S_Setup \/ S_Supervise \/ S_Cleanup \/ S_Signal \/ S_Faults
               PROVE  Moves
    OBVIOUS
  <1> USE ProcsFacts DEF SGo, Fail, Moves, Early
  <1>1. CASE S_Setup
    <2>1. CASE S_Fork
      BY <2>1 DEF S_Fork, Fork
    <2>2. CASE S_KillChild \/ S_KillSetupGroup
      BY <2>2, SendToKeeps DEF S_KillChild, S_KillSetupGroup
    <2>3. CASE \/ S_Start \/ S_Block \/ S_SetPgid \/ S_PublishPgid \/ S_InstallHandlers
               \/ S_SetupFailed \/ S_Unmask \/ S_ReapSetup
      BY <2>3 DEF S_Start, S_Block, S_SetPgid, S_PublishPgid, S_InstallHandlers,
            S_SetupFailed, S_Unmask, S_ReapSetup
    <2> QED BY <1>1, <2>1, <2>2, <2>3 DEF S_Setup
  <1>2. CASE S_Supervise
    BY <1>2, ContinueKeeps
       DEF S_Supervise, S_CheckTermination, S_TakeWinch, S_ForwardWinsize, S_EnterWait,
          S_WaitExited,
          S_WaitReport, S_Suspend, S_ContinueGroup
  <1>3. CASE S_Cleanup
    <2>1. CASE S_MainExit
      BY <2>1, ExitKeeps DEF S_MainExit
    <2>2. CASE S_TermGroup \/ S_KillGroup \/ S_SignalRound
      BY <2>2, SendToKeeps DEF S_TermGroup, S_KillGroup, S_SignalRound
    <2>3. CASE \/ S_GroupCheck \/ S_Reap \/ S_ListNone \/ S_RoundsExhausted
               \/ S_Finish \/ S_DropHandlers \/ S_Return
      BY <2>3 DEF S_GroupCheck, S_Reap, S_ListNone, S_RoundsExhausted, S_Finish,
            S_DropHandlers, S_Return
    <2> QED BY <1>3, <2>1, <2>2, <2>3 DEF S_Cleanup
  <1>4. CASE S_Signal
    <2>1. CASE S_HandleWinch
      BY <2>1 DEF S_HandleWinch, TypeOK
    <2>2. ASSUME NEW sig \in Sigs, S_Handle(sig) PROVE Moves
      <3>1. \A p \in Own : pend'[p] = IF pgidSet THEN SendTo(Group, sig)[p] ELSE pend[p]
        <4>1. pend \in [Procs -> SUBSET Sigs] /\ SendTo(Group, sig) \in [Procs -> SUBSET Sigs]
          BY SendToType DEF TypeOK
        <4> QED BY <2>2, <4>1 DEF S_Handle
      <3> QED BY <2>2, <3>1, SendToKeeps DEF S_Handle
    <2>3. ASSUME NEW sig \in Sigs, S_DefaultAction(sig) PROVE Moves
      <3>1. CASE sig = "TSTP"
        BY <2>3, <3>1 DEF S_DefaultAction, TypeOK
      <3>2. CASE sig # "TSTP"
        BY <2>3, <3>2, ExitKeeps DEF S_DefaultAction
      <3> QED BY <3>1, <3>2
    <2> QED BY <1>4, <2>1, <2>2, <2>3 DEF S_Signal
  <1>5. CASE S_Faults
    BY <1>5 DEF S_Faults, S_StartFails, S_BlockFails, S_ForkFails, S_SetupFails,
          S_UnmaskFails, S_SuperviseFails, S_ListFails, S_FinishFails
  <1> QED BY <1>1, <1>2, <1>3, <1>4, <1>5

LEMMA WrapperMoves == TypeOK /\ (Wrapper \/ W_Fails) => Moves
  <1> SUFFICES ASSUME TypeOK, Wrapper \/ W_Fails PROVE Moves
    OBVIOUS
  <1> USE ProcsFacts
  <1>1. CASE \/ W_SetPdeathsig \/ W_CheckParent \/ W_SetPgid \/ W_Unmask \/ W_Isolate
             \/ W_WaitExited \/ W_WaitReport \/ W_Suspend
    BY <1>1 DEF W_SetPdeathsig, W_CheckParent, W_SetPgid, W_Unmask, W_Isolate,
          W_WaitExited, W_WaitReport, W_Suspend, WGo, Moves, Early
  <1>2. CASE W_IgnoreInt
    BY <1>2 DEF W_IgnoreInt, WGo, Moves, Early, TypeOK
  <1>3. CASE W_ParentChanged \/ W_Fails \/ W_Exit
    BY <1>3, ExitKeeps DEF W_ParentChanged, W_Fails, W_Exit, MarkAndExit
  <1>4. CASE W_Fork
    BY <1>4 DEF W_Fork, Fork, Moves, Early
  <1>5. CASE W_ContinueGroup
    BY <1>5, ContinueKeeps DEF W_ContinueGroup, WGo, Moves, Early
  <1>6. ASSUME NEW sig \in Sigs, W_Signal(sig) PROVE Moves
    <2>1. CASE sig = "TSTP"
      BY <1>6, <2>1 DEF W_Signal, Moves, Early, TypeOK
    <2>2. CASE sig # "TSTP"
      BY <1>6, <2>2, ExitKeeps DEF W_Signal
    <2> QED BY <2>1, <2>2
  <1> QED BY <1>1, <1>2, <1>3, <1>4, <1>5, <1>6 DEF Wrapper

LEMMA DelegateMoves == TypeOK /\ (Delegate \/ D_Fails) => Moves
  <1> SUFFICES ASSUME TypeOK, Delegate \/ D_Fails PROVE Moves
    OBVIOUS
  <1> USE ProcsFacts
  <1>1. CASE D_SetPdeathsig \/ D_CheckParent \/ D_Exec
    BY <1>1 DEF D_SetPdeathsig, D_CheckParent, D_Exec, DGo, PpidSeen, Moves, Early
  <1>2. CASE D_ParentChanged \/ D_Fails
    BY <1>2, ExitKeeps DEF D_ParentChanged, D_Fails, MarkAndExit
  <1>3. ASSUME NEW sig \in Sigs, D_Signal(sig) PROVE Moves
    <2>1. CASE Exit("D", "sig")
      BY <2>1, ExitKeeps
    <2>2. CASE pend' = [pend EXCEPT !["D"] = @ \ {sig}] /\ UNCHANGED pcs
      BY <1>3, <2>2 DEF D_Signal, CanRun, Moves, Early, TypeOK
    <2> QED BY <1>3, <2>1, <2>2 DEF D_Signal
  <1> QED BY <1>1, <1>2, <1>3 DEF Delegate

LEMMA OtherMoves == TypeOK /\ (Command \/ Environment) => Moves
  <1> SUFFICES ASSUME TypeOK, Command \/ Environment PROVE Moves
    OBVIOUS
  <1> USE ProcsFacts
  <1>1. CASE Cmd_Stop
    BY <1>1 DEF Cmd_Stop, Moves
  <1>2. ASSUME NEW p \in {"D"} \cup Desc, Cmd_Exit(p) \/ Cmd_Leave(p) PROVE Moves
    <2>1. CASE Cmd_Exit(p)
      BY <2>1, ExitKeeps DEF Cmd_Exit
    <2>2. CASE Cmd_Leave(p)
      BY <2>2 DEF Cmd_Leave, Moves
    <2> QED BY <1>2, <2>1, <2>2
  <1>3. ASSUME NEW p \in {"D"} \cup Desc, NEW x \in Desc, Cmd_Fork(p, x) PROVE Moves
    BY <1>3 DEF Cmd_Fork, Fork, Moves
  <1>4. ASSUME NEW x \in Desc, NEW sig \in Sigs, Desc_Signal(x, sig) PROVE Moves
    <2>1. CASE Exit(x, "sig")
      BY <2>1, ExitKeeps
    <2>2. CASE pend' = [pend EXCEPT ![x] = @ \ {sig}] /\ UNCHANGED pcs
      BY <2>2 DEF Moves, TypeOK, Own
    <2> QED BY <1>4, <2>1, <2>2 DEF Desc_Signal
  <1>5. ASSUME NEW p \in Procs, Die(p) PROVE Moves
    BY <1>5, ExitKeeps DEF Die
  <1>6. ASSUME NEW p \in Own, Env_Orphaned(p) PROVE Moves
    BY <1>6 DEF Env_Orphaned, Moves, TypeOK
  <1>7. ASSUME NEW p \in {"S", "W"}, NEW sig \in Sigs, Env_Signal(p, sig) PROVE Moves
    BY <1>7, SendToKeeps DEF Env_Signal, Moves
  <1>8. CASE Env_Continue \/ Env_ContinueCommand
    BY <1>8 DEF Env_Continue, Env_ContinueCommand, Moves, TypeOK
  <1>9. CASE Env_Resize
    BY <1>9, SendToKeeps DEF Env_Resize, Moves
  <1> QED BY <1>1, <1>2, <1>3, <1>4, <1>5, <1>6, <1>7, <1>8, <1>9 DEF Command, Environment

LEMMA StepMoves == TypeOK /\ Next => Moves
  <1>1. ASSUME Finished PROVE Moves
    BY <1>1 DEF Finished, Moves
  <1> QED BY <1>1, SupervisorMoves, WrapperMoves, DelegateMoves, OtherMoves DEF Next

LEMMA HandshakeStep == TypeOK /\ Handshake /\ Next => Handshake'
  <1> SUFFICES ASSUME TypeOK, Handshake, Next PROVE Handshake'
    OBVIOUS
  <1> USE ProcsFacts
  <1>1. Tables /\ Moves /\ TypeOK'
    BY StepTables, StepMoves, TypeStep
  <1>n. /\ st["W"] = "none" <=> ~Live("W") /\ ~Ended("W")
        /\ st["D"] = "none" <=> ~Live("D") /\ ~Ended("D")
        /\ (st["W"] = "none")' <=> ~Live("W")' /\ ~Ended("W")'
        /\ (st["D"] = "none")' <=> ~Live("D")' /\ ~Ended("D")'
    BY <1>1 DEF TypeOK, Live, Ended
  <1>2. CASE SameLife /\ par' = par
    <2>1. st["W"] = "none" <=> (st["W"] = "none")'
      BY <1>2, <1>n DEF SameLife
    <2>2. st["D"] = "none" <=> (st["D"] = "none")'
      BY <1>2, <1>n DEF SameLife
    <2>3. (Live("W") <=> Live("W")') /\ (Live("D") <=> Live("D")') /\ (Live("S") <=> Live("S")')
      BY <1>2 DEF SameLife
    <2> QED BY <1>1, <1>2, <2>1, <2>2, <2>3 DEF Handshake, Moves, Early
  <1>3. ASSUME NEW p \in Procs, NEW how, Live(p), Exit(p, how)
        PROVE  Handshake'
    <2>1. (st["W"] = "none" => st["D"] = "none")'
      <3>1. (st["W"] = "none" <=> (st["W"] = "none")') /\ (st["D"] = "none" => (st["D"] = "none")')
        BY <1>3, <1>n, ExitLife
      <3> QED BY <3>1 DEF Handshake
    <2>2. (Live("W") => (par["W"] = "S" <=> Live("S")))'
      BY <1>3, ExitLife DEF Handshake
    <2>3. (Live("D") => (par["D"] = "W" <=> Live("W")))'
      BY <1>3, ExitLife DEF Handshake
    <2>4. (/\ wpc \notin {"none", "pdeath", "ppid"} /\ Live("W") /\ "KILL" \notin pend["W"]
           => Live("S"))'
      <3>1. SUFFICES ASSUME wpc' \notin Early, Live("W")', "KILL" \notin pend'["W"], ~Live("S")'
                     PROVE  FALSE
        BY DEF Early
      <3>2. p # "W" /\ Live("W") /\ wpc' = wpc
        BY <1>3, <3>1, ExitLife
      <3>3. CASE p = "S"
        <4>1. par["W"] = "S"
          BY <1>3, <3>2, <3>3 DEF Handshake
        <4> QED BY <1>3, <3>1, <3>2, <3>3, <4>1 DEF Exit, Armed, Early
      <3>4. CASE p # "S"
        BY <1>1, <1>3, <3>1, <3>2, <3>4, ExitLife DEF Handshake, Moves, Early
      <3> QED BY <3>3, <3>4
    <2>5. (dpc \in {"exec", "run"} /\ Live("D") /\ "KILL" \notin pend["D"] => Live("W"))'
      <3>1. SUFFICES ASSUME dpc' \in {"exec", "run"}, Live("D")', "KILL" \notin pend'["D"],
                            ~Live("W")'
                     PROVE  FALSE
        OBVIOUS
      <3>2. p # "D" /\ Live("D") /\ dpc' = dpc
        BY <1>3, <3>1, ExitLife
      <3>3. CASE p = "W"
        <4>1. par["D"] = "W"
          BY <1>3, <3>2, <3>3 DEF Handshake
        <4> QED BY <1>3, <3>1, <3>2, <3>3, <4>1 DEF Exit, Armed
      <3>4. CASE p # "W"
        BY <1>1, <1>3, <3>1, <3>2, <3>4, ExitLife DEF Handshake, Moves
      <3> QED BY <3>3, <3>4
    <2> QED BY <2>1, <2>2, <2>3, <2>4, <2>5 DEF Handshake
  <1>4. ASSUME NEW p \in Procs, NEW q \in Procs \ {"S"}, Live(p), Fork(p, q),
               q = "W" => p = "S", q = "D" => p = "W"
        PROVE  Handshake'
    <2>1. CASE q = "W"
      <3>1. ~Live("D") /\ ~Live("D")' /\ st'["D"] = "none"
        BY <1>4, <1>n, <2>1, ForkLife DEF Handshake
      <3>2. Live("S")' /\ par'["W"] = "S"
        BY <1>4, <2>1, ForkLife
      <3> QED BY <3>1, <3>2 DEF Handshake
    <2>2. CASE q = "D"
      <3>1. Live("W") /\ Live("W")' /\ par'["D"] = "W" /\ st'["W"] # "none"
        BY <1>4, <1>n, <2>2, ForkLife
      <3>2. Live("S") <=> Live("S")'
        BY <1>4, <2>2, ForkLife
      <3>3. par'["W"] = par["W"] /\ pend' = pend
        BY <1>4, <2>2, ForkLife
      <3> QED BY <1>1, <3>1, <3>2, <3>3 DEF Handshake, Moves, Early
    <2>3. CASE q \notin {"W", "D"}
      <3>1. /\ (Live("W") <=> Live("W")') /\ (Live("D") <=> Live("D")')
            /\ (Live("S") <=> Live("S")')
            /\ par'["W"] = par["W"] /\ par'["D"] = par["D"] /\ pend' = pend
        BY <1>4, <2>3, ForkLife
      <3>2. (st["W"] = "none" <=> st'["W"] = "none") /\ (st["D"] = "none" <=> st'["D"] = "none")
        BY <1>4, <1>n, <2>3, ForkLife
      <3> QED BY <1>1, <3>1, <3>2 DEF Handshake, Moves, Early
    <2> QED BY <2>1, <2>2, <2>3
  <1> QED BY <1>1, <1>2, <1>3, <1>4 DEF Tables

-----------------------------------------------------------------------------
(* The theorems                                                            *)

LEMMA InvInit == Init => SupervisionInv
  <1> SUFFICES ASSUME Init PROVE SupervisionInv
    OBVIOUS
  <1> USE ProcsFacts
  <1>1. TypeOK
    BY TypeInit
  <1>2. (\A p \in Procs \ {"S"} : ~Live(p)) /\ Live("S")
    BY DEF Init, Live
  <1>3. Forest
    BY <1>2 DEF Forest
  <1>4. Endings
    BY <1>2 DEF Init, Endings, Ended
  <1>5. Results
    BY DEF Init, Results
  <1>6. Handshake
    BY <1>2 DEF Init, Handshake
  <1> QED BY <1>1, <1>3, <1>4, <1>5, <1>6 DEF SupervisionInv

LEMMA InvStep == SupervisionInv /\ [Next]_vars => SupervisionInv'
  <1> SUFFICES ASSUME SupervisionInv, [Next]_vars PROVE SupervisionInv'
    OBVIOUS
  <1>1. CASE Next
    BY <1>1, TypeStep, ForestStep, EndingsStep, ResultsStep, HandshakeStep DEF SupervisionInv
  <1>2. CASE UNCHANGED vars
    <2>1. TypeOK'
      BY <1>2, TypeStep DEF SupervisionInv
    <2>2. SameLife
      BY <1>2, SameTableLife
    <2>3. Forest'
      BY <1>2, <2>2, ForestSame DEF SupervisionInv
    <2>4. Endings'
      BY <1>2 DEF SupervisionInv, Endings, Live, Ended
    <2>5. Results'
      BY <1>2 DEF SupervisionInv, Results, Live
    <2>6. Handshake'
      BY <1>2 DEF SupervisionInv, Handshake, Live
    <2> QED BY <2>1, <2>3, <2>4, <2>5, <2>6 DEF SupervisionInv
  <1> QED BY <1>1, <1>2

\* The invariant is inductive, so it holds in every reachable state.
THEOREM SupervisionInvariant == Spec => []SupervisionInv
  <1> QED BY InvInit, InvStep, PTL DEF Spec

\* When run_supervisor returns a code of the command, no process it started is
\* alive, however many the command forked and whatever group they are in.
THEOREM NoSurvivor == Spec => []NoSurvivorAfterOk
  <1>1. SupervisionInv => NoSurvivorAfterOk
    BY DEF SupervisionInv, Results, NoSurvivorAfterOk, Returned, Ok, Codes
  <1> QED BY <1>1, SupervisionInvariant, PTL

\* A failure of the delegation itself is never returned as a code of the command.
THEOREM FailureReported == Spec => []FailedDelegationReported
  <1>1. SupervisionInv => FailedDelegationReported
    BY DEF SupervisionInv, Results, FailedDelegationReported, Returned
  <1> QED BY <1>1, SupervisionInvariant, PTL

\* The code returned is the one with which the command, or its wrapper, ended.
THEOREM StatusFaithful == Spec => []ExitStatusFaithful
  <1>1. SupervisionInv => ExitStatusFaithful
    BY DEF SupervisionInv, Results, ExitStatusFaithful
  <1> QED BY <1>1, SupervisionInvariant, PTL

\* A command that runs has its wrapper and a wrapper past its handshake has its
\* supervisor, or SIGKILL is on its way.
THEOREM Supervised == Spec => []NoUnsupervisedCommand
  <1>1. SupervisionInv => NoUnsupervisedCommand
    BY DEF SupervisionInv, Handshake, NoUnsupervisedCommand, Doomed
  <1> QED BY <1>1, SupervisionInvariant, PTL
-----------------------------------------------------------------------------
(* What the supervisor is told and what it passes on                       *)

Others == Wrapper \/ W_Fails \/ Delegate \/ D_Fails \/ Command \/ Environment \/ Finished

\* A stop of a child is reported by the step that makes it, and the report stays
\* until the child's parent has read it.
StopKept(p) ==
    st'[p] = "stopped" => \/ st[p] = "stopped" /\ report'[p] = report[p]
                          \/ report'[p] = "stopped"

\* What the steps of other processes leave of what S relies on.
WrapperKept ==
    /\ st["W"] \in {"run", "stopped", "zombie"} => st'["W"] \in {"run", "stopped", "zombie"}
    /\ st["W"] = "zombie" => st'["W"] = "zombie"
    /\ st["W"] \in {"none", "gone"} => st'["W"] = st["W"]
    /\ pend["W"] \cap {"TERM", "KILL"} # {}
         => st'["W"] = "zombie" \/ pend'["W"] \cap {"TERM", "KILL"} # {}
    /\ inGrp["W"] => inGrp'["W"]
    /\ StopKept("W")
ResizeKept ==
    /\ "WINCH" \in pend["S"] => "WINCH" \in pend'["S"]
    /\ stale' = stale \/ (StdinIsTty /\ "WINCH" \in pend'["S"])
Aside ==
    /\ UNCHANGED <<statics, disp, raw, late>> /\ (stale' => stale \/ StdinIsTty)
    /\ spc' = "dead" \/ (spc' = spc /\ (spc = "dead" \/ (WrapperKept /\ ResizeKept)))

LEMMA AsideExit ==
    ASSUME TypeOK, Endings, Handshake, NEW p \in Procs, NEW how, Live(p), Exit(p, how),
           UNCHANGED <<inGrp, statics, disp, tty>>
    PROVE  Aside
  <1> USE ProcsFacts
  <1>1. CASE p = "S"
    BY <1>1 DEF Exit, Aside
  <1>2. CASE p # "S" /\ spc = "dead"
    BY <1>2 DEF Exit, Aside
  <1>3. CASE p # "S" /\ spc # "dead"
    <2>1. spc' = spc
      BY <1>3 DEF Exit
    <2>2. Live("S")
      BY <1>3 DEF Endings
    <2>3. CASE p = "W"
      <3>1. par["W"] = "S" /\ Live("W")
        BY <2>2, <2>3 DEF Handshake
      <3>2. st'["W"] = "zombie"
        BY <2>3, <3>1 DEF Exit
      <3>3. pend'["S"] = pend["S"] \/ pend'["S"] = pend["S"] \cup {"KILL"}
        BY <2>3 DEF Exit
      <3> QED BY <2>1, <3>1, <3>2, <3>3 DEF Aside, WrapperKept, ResizeKept, StopKept, Live
    <2>4. CASE p # "W"
      <3>1. st'["W"] = st["W"] /\ report'["W"] = report["W"]
        BY <1>3, <2>2, <2>4 DEF Exit, Heir
      <3>2. \A q \in {"S", "W"} : pend'[q] = pend[q] \/ pend'[q] = pend[q] \cup {"KILL"}
        BY <1>3, <2>4 DEF Exit
      <3> QED BY <2>1, <3>1, <3>2 DEF Aside, WrapperKept, ResizeKept, StopKept
    <2> QED BY <2>3, <2>4
  <1> QED BY <1>1, <1>2, <1>3

LEMMA AsideFork ==
    ASSUME TypeOK, NEW p \in Procs, NEW q \in Procs \ {"S", "W"}, Fork(p, q),
           spc' = spc, UNCHANGED <<statics, disp, tty>>
    PROVE  Aside
  BY ProcsFacts DEF Fork, TypeOK, Aside, WrapperKept, ResizeKept, StopKept

\* A step that sends or takes signals, resumes or stops
LEMMA AsideSignals ==
    ASSUME TypeOK, spc' = spc, UNCHANGED <<statics, disp, raw, late>>,
           ResizeKept,
           inGrp["W"] => inGrp'["W"],
           pend["W"] \cap {"TERM", "KILL"} \subseteq pend'["W"],
           st'["W"] = st["W"] \/ (st["W"] = "stopped" /\ st'["W"] = "run")
             \/ (st["W"] = "run" /\ st'["W"] = "stopped" /\ report'["W"] = "stopped"),
           st'["W"] = "stopped" => report'["W"] \in {report["W"], "stopped"}
    PROVE  Aside
  BY DEF Aside, WrapperKept, ResizeKept, StopKept

LEMMA SendToGrows ==
    ASSUME TypeOK, NEW T, NEW sig \in Sigs
    PROVE  \A q \in Procs : pend[q] \subseteq SendTo(T, sig)[q]
  BY DEF SendTo

LEMMA MarkAndExitAside ==
    ASSUME TypeOK, Endings, Handshake, NEW p \in Procs, Live(p), MarkAndExit(p)
    PROVE  Aside
  BY AsideExit DEF MarkAndExit

LEMMA WrapperAside == TypeOK /\ Endings /\ Handshake /\ (Wrapper \/ W_Fails) => Aside
  <1> SUFFICES ASSUME TypeOK, Endings, Handshake, Wrapper \/ W_Fails PROVE Aside
    OBVIOUS
  <1> USE ProcsFacts DEF WGo, CanRun
  <1>1. CASE W_SetPdeathsig \/ W_CheckParent \/ W_Unmask \/ W_Isolate
    BY <1>1, AsideSignals
       DEF W_SetPdeathsig, W_CheckParent, W_Unmask, W_Isolate, ResizeKept
  <1>2. CASE W_ParentChanged \/ W_Fails
    BY <1>2, MarkAndExitAside DEF W_ParentChanged, W_Fails, Live
  <1>3. CASE W_SetPgid
    BY <1>3, AsideSignals DEF W_SetPgid, ResizeKept, TypeOK
  <1>4. CASE W_Fork
    BY <1>4, AsideFork DEF W_Fork
  <1>5. CASE W_IgnoreInt
    <2>1. pend' = [pend EXCEPT !["W"] = @ \ {"INT"}]
      BY <1>5 DEF W_IgnoreInt
    <2>2. pend["W"] \cap {"TERM", "KILL"} \subseteq pend'["W"] /\ pend'["S"] = pend["S"]
      BY <2>1 DEF TypeOK
    <2> QED BY <1>5, <2>2, AsideSignals DEF W_IgnoreInt, ResizeKept
  <1>6. CASE W_WaitExited
    BY <1>6, AsideSignals DEF W_WaitExited, Reap, ResizeKept
  <1>7. CASE W_WaitReport
    BY <1>7, AsideSignals DEF W_WaitReport, ResizeKept, TypeOK
  <1>8. CASE W_Suspend
    BY <1>8, AsideSignals DEF W_Suspend, Stop, ResizeKept, TypeOK
  <1>9. CASE W_ContinueGroup
    BY <1>9, AsideSignals DEF W_ContinueGroup, ContinueGroup, ResizeKept, TypeOK
  <1>10. CASE W_Exit
    BY <1>10, AsideExit DEF W_Exit, Live
  <1>11. ASSUME NEW sig \in Sigs, W_Signal(sig) PROVE Aside
    <2>1. CASE sig = "TSTP"
      <3>1. pend' = [pend EXCEPT !["W"] = @ \ {"TSTP"}]
        BY <1>11, <2>1 DEF W_Signal
      <3>2. pend["W"] \cap {"TERM", "KILL"} \subseteq pend'["W"] /\ pend'["S"] = pend["S"]
        BY <3>1 DEF TypeOK
      <3> QED BY <1>11, <2>1, <3>2, AsideSignals DEF W_Signal, Stop, ResizeKept, TypeOK
    <2>2. CASE sig # "TSTP"
      BY <1>11, <2>2, AsideExit DEF W_Signal, Live
    <2> QED BY <2>1, <2>2
  <1> QED BY <1>1, <1>2, <1>3, <1>4, <1>5, <1>6, <1>7, <1>8, <1>9, <1>10, <1>11 DEF Wrapper

LEMMA DelegateAside == TypeOK /\ Endings /\ Handshake /\ (Delegate \/ D_Fails) => Aside
  <1> SUFFICES ASSUME TypeOK, Endings, Handshake, Delegate \/ D_Fails PROVE Aside
    OBVIOUS
  <1> USE ProcsFacts DEF DGo, CanRun
  <1>1. CASE D_SetPdeathsig \/ D_CheckParent \/ D_Exec
    BY <1>1, AsideSignals DEF D_SetPdeathsig, D_CheckParent, D_Exec, ResizeKept
  <1>2. CASE D_ParentChanged \/ D_Fails
    BY <1>2, MarkAndExitAside DEF D_ParentChanged, D_Fails, Live
  <1>3. ASSUME NEW sig \in Sigs, D_Signal(sig) PROVE Aside
    <2>1. CASE Exit("D", "sig")
      BY <1>3, <2>1, AsideExit DEF D_Signal, Live
    <2>2. CASE pend' = [pend EXCEPT !["D"] = @ \ {sig}]
      <3>1. pend'["W"] = pend["W"] /\ pend'["S"] = pend["S"]
        BY <2>2 DEF TypeOK
      <3>2. CASE Stop("D") /\ UNCHANGED pcs
        BY <1>3, <3>1, <3>2, AsideSignals DEF D_Signal, Stop, ResizeKept, TypeOK
      <3>3. CASE UNCHANGED <<pcs, st, report>>
        BY <1>3, <3>1, <3>3, AsideSignals DEF D_Signal, ResizeKept
      <3>4. CASE Exit("D", "sig")
        BY <1>3, <3>4, AsideExit DEF D_Signal, Live
      <3> QED BY <1>3, <3>2, <3>3, <3>4 DEF D_Signal
    <2> QED BY <1>3, <2>1, <2>2 DEF D_Signal
  <1> QED BY <1>1, <1>2, <1>3 DEF Delegate

LEMMA CommandAside == TypeOK /\ Endings /\ Handshake /\ Command => Aside
  <1> SUFFICES ASSUME TypeOK, Endings, Handshake, Command PROVE Aside
    OBVIOUS
  <1> USE ProcsFacts DEF CanRun
  <1>1. CASE Cmd_Stop
    BY <1>1, AsideSignals DEF Cmd_Stop, Runs, Stop, ResizeKept, TypeOK
  <1>2. ASSUME NEW p \in {"D"} \cup Desc, Cmd_Exit(p) PROVE Aside
    BY <1>2, AsideExit DEF Cmd_Exit, Runs, Live
  <1>3. ASSUME NEW p \in {"D"} \cup Desc, Cmd_Leave(p) PROVE Aside
    BY <1>3, AsideSignals DEF Cmd_Leave, ResizeKept, TypeOK
  <1>4. ASSUME NEW p \in {"D"} \cup Desc, NEW x \in Desc, Cmd_Fork(p, x) PROVE Aside
    BY <1>4, AsideFork DEF Cmd_Fork
  <1>5. ASSUME NEW x \in Desc, NEW sig \in Sigs, Desc_Signal(x, sig) PROVE Aside
    <2>1. CASE Exit(x, "sig")
      BY <1>5, <2>1, AsideExit DEF Desc_Signal, Live
    <2>2. CASE pend' = [pend EXCEPT ![x] = @ \ {sig}] /\ UNCHANGED <<pcs, st, report>>
      <3>1. pend'["W"] = pend["W"] /\ pend'["S"] = pend["S"]
        BY <2>2 DEF TypeOK
      <3> QED BY <1>5, <2>2, <3>1, AsideSignals DEF Desc_Signal, ResizeKept
    <2> QED BY <1>5, <2>1, <2>2 DEF Desc_Signal
  <1> QED BY <1>1, <1>2, <1>3, <1>4, <1>5 DEF Command

LEMMA EnvironmentAside == TypeOK /\ Endings /\ Handshake /\ Environment => Aside
  <1> SUFFICES ASSUME TypeOK, Endings, Handshake, Environment PROVE Aside
    OBVIOUS
  <1> USE ProcsFacts
  <1>1. ASSUME NEW p \in Procs, Die(p) PROVE Aside
    BY <1>1, AsideExit DEF Die
  <1>2. ASSUME NEW p \in Own, Env_Orphaned(p) PROVE Aside
    BY <1>2 DEF Env_Orphaned, Endings, Aside
  <1>3. ASSUME NEW p \in {"S", "W"}, NEW sig \in Sigs, Env_Signal(p, sig) PROVE Aside
    BY <1>3, SendToGrows, AsideSignals DEF Env_Signal, ResizeKept
  <1>4. CASE Env_Continue
    <2>1. pend'["W"] = pend["W"] /\ ("WINCH" \in pend["S"] => "WINCH" \in pend'["S"])
      BY <1>4 DEF Env_Continue, TypeOK
    <2> QED BY <1>4, <2>1, AsideSignals DEF Env_Continue, ResizeKept, TypeOK
  <1>5. CASE Env_ContinueCommand
    BY <1>5, AsideSignals DEF Env_ContinueCommand, ResizeKept, TypeOK
  <1>6. CASE Env_Resize
    <2>1. "WINCH" \in pend'["S"]
      BY <1>6 DEF Env_Resize, SendTo, Ignores
    <2>2. \A q \in Procs : pend[q] \subseteq pend'[q]
      BY <1>6, SendToGrows DEF Env_Resize, Sigs
    <2> QED BY <1>6, <2>1, <2>2, AsideSignals DEF Env_Resize, ResizeKept
  <1> QED BY <1>1, <1>2, <1>3, <1>4, <1>5, <1>6 DEF Environment

LEMMA OthersAside == TypeOK /\ Endings /\ Handshake /\ Others => Aside
  <1>1. Finished => Aside
    BY DEF Finished, Aside, WrapperKept, ResizeKept, StopKept
  <1> QED BY <1>1, WrapperAside, DelegateAside, CommandAside, EnvironmentAside DEF Others

-----------------------------------------------------------------------------
(* The signals on their way through the supervisor                         *)

Passing == Deviations /\ Abandoned /\ Watched /\ Requests

LEMMA PassingAside ==
    ASSUME TypeOK, Aside, Passing
    PROVE  Passing'
  <1> USE DEF Passing
  <1>1. CASE spc' = "dead"
    BY <1>1 DEF Aside, Deviations, Abandoned, Watched, Requests, SettingUp, Watching, CleaningUp
  <1>2. CASE spc' = spc /\ spc = "dead"
    BY <1>2 DEF Aside, Deviations, Abandoned, Watched, Requests, SettingUp, Watching, CleaningUp
  <1>3. CASE spc' = spc /\ WrapperKept /\ ResizeKept
    <2>1. Deviations'
      BY <1>3 DEF Aside, Deviations
    <2>4. Abandoned'
      BY <1>3 DEF Aside, WrapperKept, Abandoned
    <2>2. Watched'
      BY <1>3 DEF Aside, WrapperKept, Watched, SettingUp, Watching
    <2>3. Requests'
      BY <1>3 DEF Aside, WrapperKept, ResizeKept, Requests, SettingUp, Watching
    <2> QED BY <2>1, <2>2, <2>3, <2>4
  <1> QED BY <1>1, <1>2, <1>3 DEF Aside

LEMMA PassingSetup == TypeOK /\ Passing /\ S_Setup => Passing'
  <1> SUFFICES ASSUME TypeOK, Passing, S_Setup PROVE Passing'
    OBVIOUS
  <1> USE ProcsFacts
      DEF SGo, Passing, Deviations, Abandoned, Watched, Requests, SettingUp, Watching, CleaningUp
  <1>1. CASE S_Start
    BY <1>1 DEF S_Start
  <1>2. CASE S_Block
    BY <1>2 DEF S_Block
  <1>3. CASE S_Fork
    BY <1>3 DEF S_Fork, Fork, TypeOK
  <1>4. CASE S_SetPgid
    BY <1>4 DEF S_SetPgid, TypeOK
  <1>5. CASE S_PublishPgid
    BY <1>5 DEF S_PublishPgid
  <1>6. CASE S_InstallHandlers
    BY <1>6 DEF S_InstallHandlers
  <1>7. CASE S_SetupFailed
    BY <1>7 DEF S_SetupFailed
  <1>8. CASE S_Unmask
    BY <1>8 DEF S_Unmask
  <1>9. CASE S_KillChild \/ S_KillSetupGroup
    <2>1. "WINCH" \in pend["S"] => "WINCH" \in pend'["S"]
      BY <1>9, SendToGrows DEF S_KillChild, S_KillSetupGroup, Sigs
    <2> QED BY <1>9, <2>1 DEF S_KillChild, S_KillSetupGroup
  <1>10. CASE S_ReapSetup
    BY <1>10 DEF S_ReapSetup, Reap, TypeOK
  <1> QED BY <1>1, <1>2, <1>3, <1>4, <1>5, <1>6, <1>7, <1>8, <1>9, <1>10 DEF S_Setup

LEMMA PassingSupervise == TypeOK /\ Passing /\ S_Supervise => Passing'
  <1> SUFFICES ASSUME TypeOK, Passing, S_Supervise PROVE Passing'
    OBVIOUS
  <1> USE ProcsFacts
      DEF SGo, Fail, Passing, Deviations, Abandoned, Watched, Requests, SettingUp, Watching, CleaningUp
  <1>1. CASE S_CheckTermination
    BY <1>1 DEF S_CheckTermination
  <1>2. CASE S_TakeWinch
    BY <1>2 DEF S_TakeWinch
  <1>3. CASE S_ForwardWinsize
    BY <1>3 DEF S_ForwardWinsize
  <1>8. CASE S_EnterWait
    BY <1>8 DEF S_EnterWait
  <1>4. CASE S_WaitExited
    BY <1>4 DEF S_WaitExited
  <1>5. CASE S_WaitReport
    BY <1>5 DEF S_WaitReport
  <1>6. CASE S_Suspend
    BY <1>6 DEF S_Suspend, Stop, TypeOK
  <1>7. CASE S_ContinueGroup
    <2>1. st'["W"] = st["W"] \/ (st["W"] = "stopped" /\ st'["W"] = "run")
      BY <1>7 DEF S_ContinueGroup, ContinueGroup, TypeOK
    <2>2. /\ pend'["W"] \cap {"TERM", "KILL"} = pend["W"] \cap {"TERM", "KILL"}
          /\ "WINCH" \in pend["S"] => "WINCH" \in pend'["S"]
      BY <1>7 DEF S_ContinueGroup, ContinueGroup, Group
    <2> QED BY <1>7, <2>1, <2>2 DEF S_ContinueGroup
  <1> QED BY <1>1, <1>2, <1>3, <1>4, <1>5, <1>6, <1>7, <1>8 DEF S_Supervise

LEMMA PassingCleanup == TypeOK /\ Passing /\ S_Cleanup => Passing'
  <1> SUFFICES ASSUME TypeOK, Passing, S_Cleanup PROVE Passing'
    OBVIOUS
  <1> USE ProcsFacts
      DEF SGo, Fail, Passing, Deviations, Abandoned, Watched, Requests, SettingUp, Watching, CleaningUp
  <1>1. CASE S_TermGroup \/ S_KillGroup \/ S_SignalRound
    <2>1. "WINCH" \in pend["S"] => "WINCH" \in pend'["S"]
      BY <1>1, SendToGrows DEF S_TermGroup, S_KillGroup, S_SignalRound, Sigs
    <2> QED BY <1>1, <2>1 DEF S_TermGroup, S_KillGroup, S_SignalRound
  <1>2. CASE S_GroupCheck
    BY <1>2 DEF S_GroupCheck
  <1>3. CASE S_Reap
    BY <1>3 DEF S_Reap
  <1>4. CASE S_ListNone
    BY <1>4 DEF S_ListNone
  <1>5. CASE S_RoundsExhausted
    BY <1>5 DEF S_RoundsExhausted
  <1>6. CASE S_Finish
    BY <1>6 DEF S_Finish
  <1>7. CASE S_DropHandlers
    BY <1>7 DEF S_DropHandlers
  <1>8. CASE S_Return
    BY <1>8 DEF S_Return
  <1>9. CASE S_MainExit
    BY <1>9 DEF S_MainExit, Exit
  <1> QED BY <1>1, <1>2, <1>3, <1>4, <1>5, <1>6, <1>7, <1>8, <1>9 DEF S_Cleanup

LEMMA PassingFaults == TypeOK /\ Passing /\ S_Faults => Passing'
  <1> SUFFICES ASSUME TypeOK, Passing, S_Faults PROVE Passing'
    OBVIOUS
  <1> USE DEF Fail, Passing, Deviations, Abandoned, Watched, Requests, SettingUp, Watching, CleaningUp
  <1>1. CASE S_StartFails
    BY <1>1 DEF S_StartFails
  <1>6. CASE S_BlockFails
    BY <1>6 DEF S_BlockFails
  <1>7. CASE S_ForkFails
    BY <1>7 DEF S_ForkFails
  <1>2. CASE S_SetupFails
    BY <1>2 DEF S_SetupFails
  <1>3. CASE S_UnmaskFails
    BY <1>3 DEF S_UnmaskFails
  <1>4. CASE S_SuperviseFails
    BY <1>4 DEF S_SuperviseFails
  <1>5. CASE S_ListFails \/ S_FinishFails
    BY <1>5 DEF S_ListFails, S_FinishFails
  <1> QED BY <1>1, <1>2, <1>3, <1>4, <1>5, <1>6, <1>7 DEF S_Faults

LEMMA PassingSignal == TypeOK /\ Endings /\ Handshake /\ Passing /\ S_Signal => Passing'
  <1> SUFFICES ASSUME TypeOK, Endings, Handshake, Passing, S_Signal PROVE Passing'
    OBVIOUS
  <1> USE ProcsFacts
  <1>1. CASE S_HandleWinch
    <2>1. pend'["W"] = pend["W"]
      BY <1>1 DEF S_HandleWinch, TypeOK
    <2>2. late' = (late \/ spc \in {"resize", "enter"}) /\ winch' = TRUE
      BY <1>1 DEF S_HandleWinch
    <2>3. spc' = (IF spc = "wait" THEN "loop" ELSE spc)
      BY <1>1 DEF S_HandleWinch
    <2>4. UNCHANGED <<st, inGrp, termFlag, pgidSet, disp, raw, stale>>
      BY <1>1 DEF S_HandleWinch
    <2>5. spc' \in {"enter", "wait"} => spc = "enter"
      BY <2>3
    <2>6. stale /\ spc' \in {"enter", "wait"} => late'
      BY <2>2, <2>5
    <2>7. Deviations' /\ Abandoned' /\ Watched'
      BY <2>3, <2>4 DEF Passing, Deviations, Abandoned, Watched, SettingUp, Watching, CleaningUp
    <2>8. Requests'
      BY <2>1, <2>2, <2>3, <2>4, <2>6 DEF Passing, Requests, SettingUp, Watching
    <2> QED BY <2>7, <2>8 DEF Passing
  <1>2. ASSUME NEW sig \in Sigs, S_Handle(sig) PROVE Passing'
    <2>1. pend \in [Procs -> SUBSET Sigs] /\ SendTo(Group, sig) \in [Procs -> SUBSET Sigs]
      BY SendToType DEF TypeOK
    <2>2. /\ pend'["W"] = IF pgidSet THEN SendTo(Group, sig)["W"] ELSE pend["W"]
          /\ "WINCH" \in pend["S"] => "WINCH" \in pend'["S"]
      BY <1>2, <2>1, SendToGrows DEF S_Handle
    <2>3. pend["W"] \cap {"TERM", "KILL"} \subseteq pend'["W"]
      BY <2>2, SendToGrows
    <2>4. spc \notin {"start", "block", "fork"} \cup SettingUp
      BY <1>2 DEF S_Handle, Passing, Deviations, SettingUp, Watching, CleaningUp
    <2>5. sig = "TERM" /\ spc \in Watching => st["W"] = "zombie" \/ "TERM" \in pend'["W"]
      <3>1. SUFFICES ASSUME sig = "TERM", spc \in Watching, st["W"] # "zombie"
                     PROVE  "TERM" \in pend'["W"]
        OBVIOUS
      <3>2. pgidSet /\ inGrp["W"] /\ st["W"] \in {"run", "stopped"}
        BY <3>1 DEF Passing, Watched
      <3> QED BY <2>2, <3>1, <3>2 DEF SendTo, Group, Live, Ignores
    <2>6. /\ UNCHANGED <<st, inGrp, winch, pgidSet, disp, tty>>
          /\ termFlag' = (termFlag \/ sig = "TERM")
          /\ spc' = IF spc = "wait" THEN "loop" ELSE spc
      BY <1>2 DEF S_Handle
    <2>7. Deviations'
      BY <2>6 DEF Passing, Deviations, SettingUp, Watching, CleaningUp
    <2>10. Abandoned'
      BY <2>6 DEF Passing, Abandoned, Watching, CleaningUp
    <2>8. Watched'
      BY <2>6 DEF Passing, Watched, SettingUp, Watching
    <2>9. Requests'
      BY <2>2, <2>3, <2>4, <2>5, <2>6 DEF Passing, Requests, SettingUp, Watching
    <2> QED BY <2>7, <2>8, <2>9, <2>10 DEF Passing
  <1>3. ASSUME NEW sig \in Sigs, S_DefaultAction(sig) PROVE Passing'
    <2>1. CASE sig = "TSTP"
      <3>1. pend' = [pend EXCEPT !["S"] = @ \ {"TSTP"}] /\ Stop("S") /\ UNCHANGED pcs
        BY <1>3, <2>1 DEF S_DefaultAction
      <3>2. pend'["W"] = pend["W"] /\ ("WINCH" \in pend["S"] => "WINCH" \in pend'["S"])
        BY <3>1 DEF TypeOK
      <3>3. Aside
        BY <1>3, <3>1, <3>2, AsideSignals DEF S_DefaultAction, Stop, ResizeKept, TypeOK
      <3> QED BY <3>3, PassingAside
    <2>2. CASE sig # "TSTP"
      BY <1>3, <2>2, AsideExit, PassingAside DEF S_DefaultAction, CanRun, Live
    <2> QED BY <2>1, <2>2
  <1> QED BY <1>1, <1>2, <1>3 DEF S_Signal

LEMMA PassingStep == TypeOK /\ Endings /\ Handshake /\ Passing /\ Next => Passing'
  BY PassingSetup, PassingSupervise, PassingCleanup, PassingFaults, PassingSignal,
     OthersAside, PassingAside DEF Next, Others

-----------------------------------------------------------------------------
(* The stops of the children                                               *)

Awaiting == {"ignore", "wait"}

\* Most steps make no stop that goes unreported and do not bring the wrapper to
\* where it waits.
StopsSeen ==
    /\ StopKept("D")
    /\ inGrp'["D"] => inGrp["D"]
    /\ wpc' \in Awaiting => wpc \in Awaiting

LEMMA SeenIdle ==
    ASSUME st' = st, report' = report, inGrp' = inGrp, wpc' = wpc
    PROVE  StopsSeen
  BY DEF StopsSeen, StopKept

LEMMA SeenExit ==
    ASSUME TypeOK, NEW p \in Procs, NEW how, Exit(p, how), inGrp' = inGrp
    PROVE  StopsSeen
  <1>1. st'["D"] = "stopped" => st["D"] = "stopped" /\ report'["D"] = report["D"]
    BY ProcsFacts DEF Exit, Heir, TypeOK
  <1>2. wpc' \in Awaiting => wpc \in Awaiting
    BY DEF Exit, Awaiting
  <1> QED BY <1>1, <1>2 DEF StopsSeen, StopKept

LEMMA SeenStop ==
    ASSUME TypeOK, NEW p \in Procs, Stop(p), inGrp' = inGrp, wpc' \in {wpc, "cont"}
    PROVE  StopsSeen
  BY ProcsFacts DEF Stop, TypeOK, StopsSeen, StopKept, Awaiting

LEMMA SeenReap ==
    ASSUME TypeOK, NEW T, Reap(T), report' = report, inGrp' = inGrp, wpc' \in {wpc, "exit"}
    PROVE  StopsSeen
  BY ProcsFacts DEF Reap, TypeOK, StopsSeen, StopKept, Awaiting

LEMMA SeenFork ==
    ASSUME TypeOK, NEW p \in Procs, NEW q \in Procs \ {"S", "D"}, Fork(p, q), wpc' \in {wpc, "pdeath"}
    PROVE  StopsSeen
  BY ProcsFacts DEF Fork, TypeOK, StopsSeen, StopKept, Awaiting

LEMMA SupervisorSeen ==
    TypeOK /\ (S_Setup \/ S_Supervise \/ S_Cleanup \/ S_Signal \/ S_Faults) => StopsSeen
  <1> SUFFICES ASSUME TypeOK,
                      S_Setup \/ S_Supervise \/ S_Cleanup \/ S_Signal \/ S_Faults
               PROVE  StopsSeen
    OBVIOUS
  <1> USE ProcsFacts DEF SGo, Fail
  <1>1. CASE S_Setup
    <2>1. CASE S_Fork
      BY <2>1, SeenFork DEF S_Fork
    <2>2. CASE S_ReapSetup
      BY <2>2, SeenReap DEF S_ReapSetup
    <2>3. CASE S_SetPgid
      BY <2>3 DEF S_SetPgid, TypeOK, StopsSeen, StopKept
    <2>4. CASE \/ S_Start \/ S_Block \/ S_PublishPgid \/ S_InstallHandlers
               \/ S_SetupFailed \/ S_Unmask \/ S_KillChild \/ S_KillSetupGroup
      BY <2>4, SeenIdle DEF S_Start, S_Block, S_PublishPgid, S_InstallHandlers,
            S_SetupFailed, S_Unmask, S_KillChild, S_KillSetupGroup
    <2> QED BY <1>1, <2>1, <2>2, <2>3, <2>4 DEF S_Setup
  <1>2. CASE S_Supervise
    <2>1. CASE S_WaitExited
      BY <2>1, SeenReap DEF S_WaitExited
    <2>2. CASE S_Suspend
      BY <2>2, SeenStop DEF S_Suspend
    <2>3. CASE S_ContinueGroup
      BY <2>3 DEF S_ContinueGroup, ContinueGroup, TypeOK, StopsSeen, StopKept
    <2>4. CASE S_CheckTermination \/ S_TakeWinch \/ S_ForwardWinsize \/ S_EnterWait
      BY <2>4, SeenIdle DEF S_CheckTermination, S_TakeWinch, S_ForwardWinsize, S_EnterWait
    <2>5. CASE S_WaitReport
      BY <2>5 DEF S_WaitReport, TypeOK, StopsSeen, StopKept
    <2> QED BY <1>2, <2>1, <2>2, <2>3, <2>4, <2>5 DEF S_Supervise
  <1>3. CASE S_Cleanup
    <2>1. CASE S_Reap
      BY <2>1, SeenReap DEF S_Reap
    <2>2. CASE S_MainExit
      BY <2>2, SeenExit DEF S_MainExit
    <2>3. CASE S_TermGroup \/ S_GroupCheck \/ S_KillGroup \/ S_ListNone \/ S_SignalRound
      BY <2>3, SeenIdle DEF S_TermGroup, S_GroupCheck, S_KillGroup, S_ListNone, S_SignalRound
    <2>4. CASE S_RoundsExhausted \/ S_Finish \/ S_DropHandlers \/ S_Return
      BY <2>4, SeenIdle DEF S_RoundsExhausted, S_Finish, S_DropHandlers, S_Return
    <2> QED BY <1>3, <2>1, <2>2, <2>3, <2>4 DEF S_Cleanup
  <1>4. CASE S_Signal
    <2>1. CASE S_HandleWinch
      BY <2>1, SeenIdle DEF S_HandleWinch
    <2>2. ASSUME NEW sig \in Sigs, S_Handle(sig) PROVE StopsSeen
      BY <2>2, SeenIdle DEF S_Handle
    <2>3. ASSUME NEW sig \in Sigs, S_DefaultAction(sig) PROVE StopsSeen
      BY <2>3, SeenStop, SeenExit DEF S_DefaultAction
    <2> QED BY <1>4, <2>1, <2>2, <2>3 DEF S_Signal
  <1>5. CASE S_Faults
    BY <1>5, SeenIdle
       DEF S_Faults, S_StartFails, S_BlockFails, S_ForkFails, S_SetupFails, S_UnmaskFails,
           S_SuperviseFails, S_ListFails, S_FinishFails
  <1> QED BY <1>1, <1>2, <1>3, <1>4, <1>5

LEMMA WrapperSeen ==
    TypeOK /\ (Wrapper \/ W_Fails) => StopsSeen \/ W_WaitReport \/ W_Fork \/ W_ContinueGroup
  <1> SUFFICES ASSUME TypeOK, Wrapper \/ W_Fails
               PROVE  StopsSeen \/ W_WaitReport \/ W_Fork \/ W_ContinueGroup
    OBVIOUS
  <1> USE ProcsFacts DEF WGo
  <1>1. CASE W_SetPdeathsig \/ W_CheckParent \/ W_Unmask \/ W_Isolate
    BY <1>1 DEF W_SetPdeathsig, W_CheckParent, W_Unmask, W_Isolate, StopsSeen, StopKept, Awaiting
  <1>2. CASE W_SetPgid
    BY <1>2 DEF W_SetPgid, StopsSeen, StopKept, Awaiting, TypeOK
  <1>3. CASE W_IgnoreInt
    BY <1>3 DEF W_IgnoreInt, StopsSeen, StopKept, Awaiting
  <1>4. CASE W_ParentChanged \/ W_Fails \/ W_Exit
    BY <1>4, SeenExit DEF W_ParentChanged, W_Fails, W_Exit, MarkAndExit
  <1>5. CASE W_WaitExited
    BY <1>5, SeenReap DEF W_WaitExited
  <1>6. CASE W_Suspend
    BY <1>6, SeenStop DEF W_Suspend
  <1>7. ASSUME NEW sig \in Sigs, W_Signal(sig) PROVE StopsSeen
    BY <1>7, SeenStop, SeenExit DEF W_Signal
  <1> QED BY <1>1, <1>2, <1>3, <1>4, <1>5, <1>6, <1>7 DEF Wrapper

LEMMA RestSeen == TypeOK /\ (Delegate \/ D_Fails \/ Command \/ Environment) => StopsSeen
  <1> SUFFICES ASSUME TypeOK, Delegate \/ D_Fails \/ Command \/ Environment PROVE StopsSeen
    OBVIOUS
  <1> USE ProcsFacts
  <1>1. CASE D_SetPdeathsig \/ D_CheckParent \/ D_Exec
    BY <1>1, SeenIdle DEF D_SetPdeathsig, D_CheckParent, D_Exec, DGo
  <1>2. CASE D_ParentChanged \/ D_Fails
    BY <1>2, SeenExit DEF D_ParentChanged, D_Fails, MarkAndExit
  <1>3. ASSUME NEW sig \in Sigs, D_Signal(sig) PROVE StopsSeen
    BY <1>3, SeenExit, SeenStop, SeenIdle DEF D_Signal
  <1>4. CASE Cmd_Stop
    BY <1>4, SeenStop DEF Cmd_Stop
  <1>5. ASSUME NEW p \in {"D"} \cup Desc, Cmd_Exit(p) PROVE StopsSeen
    BY <1>5, SeenExit DEF Cmd_Exit
  <1>6. ASSUME NEW p \in {"D"} \cup Desc, Cmd_Leave(p) PROVE StopsSeen
    BY <1>6 DEF Cmd_Leave, TypeOK, StopsSeen, StopKept
  <1>7. ASSUME NEW p \in {"D"} \cup Desc, NEW x \in Desc, Cmd_Fork(p, x) PROVE StopsSeen
    BY <1>7, SeenFork DEF Cmd_Fork
  <1>8. ASSUME NEW x \in Desc, NEW sig \in Sigs, Desc_Signal(x, sig) PROVE StopsSeen
    BY <1>8, SeenExit, SeenIdle DEF Desc_Signal
  <1>9. ASSUME NEW p \in Procs, Die(p) PROVE StopsSeen
    BY <1>9, SeenExit DEF Die
  <1>10. ASSUME NEW p \in Own, Env_Orphaned(p) PROVE StopsSeen
    BY <1>10 DEF Env_Orphaned, TypeOK, StopsSeen, StopKept
  <1>11. ASSUME NEW p \in {"S", "W"}, NEW sig \in Sigs, Env_Signal(p, sig) PROVE StopsSeen
    BY <1>11, SeenIdle DEF Env_Signal
  <1>12. CASE Env_Continue \/ Env_ContinueCommand
    BY <1>12 DEF Env_Continue, Env_ContinueCommand, TypeOK, StopsSeen, StopKept
  <1>13. CASE Env_Resize
    BY <1>13, SeenIdle DEF Env_Resize
  <1> QED BY <1>1, <1>2, <1>3, <1>4, <1>5, <1>6, <1>7, <1>8, <1>9, <1>10, <1>11, <1>12, <1>13
          DEF Delegate, Command, Environment

LEMMA StepSeen ==
    TypeOK /\ Next => StopsSeen \/ W_WaitReport \/ W_Fork \/ W_ContinueGroup
  <1>1. Finished => StopsSeen
    BY SeenIdle DEF Finished
  <1> QED BY <1>1, SupervisorSeen, WrapperSeen, RestSeen DEF Next

LEMMA CommandStopsStep == TypeOK /\ CommandStops /\ Next => CommandStops'
  <1> SUFFICES ASSUME TypeOK, CommandStops, Next PROVE CommandStops'
    OBVIOUS
  <1> USE ProcsFacts
  <1>1. CASE StopsSeen
    BY <1>1 DEF StopsSeen, StopKept, CommandStops, Awaiting
  <1>2. CASE W_WaitReport
    BY <1>2 DEF W_WaitReport, CommandStops
  <1>3. CASE W_Fork
    BY <1>3 DEF W_Fork, Fork, TypeOK, CommandStops
  <1>4. CASE W_ContinueGroup
    <2>1. inGrp["D"] => st'["D"] # "stopped"
      BY <1>4 DEF W_ContinueGroup, ContinueGroup, Group
    <2> QED BY <1>4, <2>1 DEF W_ContinueGroup, CommandStops
  <1> QED BY <1>1, <1>2, <1>3, <1>4, StepSeen

LEMMA WrapperStopsStep ==
    TypeOK /\ Endings /\ Handshake /\ Watched /\ WrapperStops /\ Next => WrapperStops'
  <1> SUFFICES ASSUME TypeOK, Endings, Handshake, Watched, WrapperStops, Next
               PROVE  WrapperStops'
    OBVIOUS
  <1> USE ProcsFacts DEF SGo, Fail, WrapperStops, SettingUp, Watching
  <1>1. CASE Others
    <2>1. Aside
      BY <1>1, OthersAside
    <2> QED BY <2>1 DEF Aside, WrapperKept, StopKept
  <1>2. CASE S_Setup
    <2>1. CASE S_Fork
      BY <2>1 DEF S_Fork, Fork, TypeOK
    <2>2. CASE \/ S_Start \/ S_Block \/ S_SetPgid \/ S_PublishPgid \/ S_InstallHandlers
               \/ S_SetupFailed \/ S_Unmask
      BY <2>2 DEF S_Start, S_Block, S_SetPgid, S_PublishPgid, S_InstallHandlers,
            S_SetupFailed, S_Unmask
    <2>3. CASE S_KillChild \/ S_KillSetupGroup \/ S_ReapSetup
      BY <2>3 DEF S_KillChild, S_KillSetupGroup, S_ReapSetup
    <2> QED BY <1>2, <2>1, <2>2, <2>3 DEF S_Setup
  <1>3. CASE S_Supervise
    <2>1. CASE \/ S_CheckTermination \/ S_TakeWinch \/ S_ForwardWinsize \/ S_EnterWait
               \/ S_WaitExited
      BY <2>1 DEF S_CheckTermination, S_TakeWinch, S_ForwardWinsize, S_EnterWait, S_WaitExited
    <2>2. CASE S_WaitReport
      BY <2>2 DEF S_WaitReport
    <2>3. CASE S_Suspend
      BY <2>3 DEF S_Suspend
    <2>4. CASE S_ContinueGroup
      <3>1. inGrp["W"]
        BY <2>4 DEF S_ContinueGroup, Watched
      <3>2. st'["W"] # "stopped"
        BY <2>4, <3>1 DEF S_ContinueGroup, ContinueGroup, Group
      <3> QED BY <3>2
    <2> QED BY <1>3, <2>1, <2>2, <2>3, <2>4 DEF S_Supervise
  <1>4. CASE S_Cleanup
    BY <1>4 DEF S_Cleanup, S_TermGroup, S_GroupCheck, S_KillGroup, S_Reap, S_ListNone,
          S_SignalRound, S_RoundsExhausted, S_Finish, S_DropHandlers, S_Return, S_MainExit, Exit
  <1>5. CASE S_Faults
    BY <1>5 DEF S_Faults, S_StartFails, S_BlockFails, S_ForkFails, S_SetupFails,
          S_UnmaskFails, S_SuperviseFails, S_ListFails, S_FinishFails
  <1>6. CASE S_Signal
    <2>1. CASE S_HandleWinch
      BY <2>1 DEF S_HandleWinch
    <2>2. ASSUME NEW sig \in Sigs, S_Handle(sig) PROVE WrapperStops'
      BY <2>2 DEF S_Handle
    <2>3. ASSUME NEW sig \in Sigs, S_DefaultAction(sig) PROVE WrapperStops'
      <3>1. CASE sig = "TSTP"
        BY <2>3, <3>1 DEF S_DefaultAction, Stop, TypeOK
      <3>2. CASE sig # "TSTP"
        BY <2>3, <3>2 DEF S_DefaultAction, Exit
      <3> QED BY <3>1, <3>2
    <2> QED BY <1>6, <2>1, <2>2, <2>3 DEF S_Signal
  <1> QED BY <1>1, <1>2, <1>3, <1>4, <1>5, <1>6 DEF Next, Others

-----------------------------------------------------------------------------
(* A delegation that nothing disturbs                                      *)

\* An undisturbed step spends neither a fault nor a signal.
LEMMA UndisturbedBefore ==
    ASSUME TypeOK, UndisturbedInv, Undisturbed', budget' = budget \/ Spend("stop")
    PROVE  Undisturbed
  BY BoundAssumption DEF TypeOK, UndisturbedInv, Undisturbed, Spend

LEMMA SpendDisturbs ==
    ASSUME TypeOK, UndisturbedInv, NEW b \in {"sig", "fault"}, Spend(b)
    PROVE  /\ ~Undisturbed'
           /\ budget'["fault"] <= MaxFaults /\ budget'["sig"] <= MaxSignals
  BY BoundAssumption DEF TypeOK, UndisturbedInv, Undisturbed, Spend

LEMMA OthersSpendNothing ==
    ASSUME TypeOK, UndisturbedInv, budget' = budget \/ Spend("stop")
    PROVE  budget'["fault"] <= MaxFaults /\ budget'["sig"] <= MaxSignals
  BY BoundAssumption DEF TypeOK, UndisturbedInv, Spend

\* The steps that spend a fault or a signal, and the rest.
Disturbs == \E b \in {"sig", "fault"} : Spend(b)
QuietNext ==
    \/ S_Setup \/ S_Supervise \/ S_Cleanup \/ S_Signal \/ Wrapper \/ Delegate \/ Command
    \/ \E p \in Procs : Die(p)
    \/ \E p \in Own : Env_Orphaned(p)
    \/ Env_Continue \/ Env_ContinueCommand \/ Finished

LEMMA QuietOrDisturbs ==
    Next => Disturbs \/ (QuietNext /\ (budget' = budget \/ Spend("stop")))
  <1> SUFFICES ASSUME Next PROVE Disturbs \/ (QuietNext /\ (budget' = budget \/ Spend("stop")))
    OBVIOUS
  <1> USE DEF QuietNext, Disturbs
  <1>1. CASE S_Faults \/ W_Fails \/ D_Fails
    BY <1>1 DEF S_Faults, S_StartFails, S_BlockFails, S_ForkFails, S_SetupFails, S_UnmaskFails,
          S_SuperviseFails, S_ListFails, S_FinishFails, W_Fails, D_Fails
  <1>2. CASE S_Setup
    BY <1>2 DEF S_Setup, S_Start, S_Block, S_Fork, S_SetPgid, S_PublishPgid,
          S_InstallHandlers, S_SetupFailed, S_Unmask, S_KillChild, S_KillSetupGroup, S_ReapSetup
  <1>3. CASE S_Supervise
    BY <1>3 DEF S_Supervise, S_CheckTermination, S_TakeWinch, S_ForwardWinsize, S_EnterWait,
          S_WaitExited,
          S_WaitReport, S_Suspend, S_ContinueGroup
  <1>4. CASE S_Cleanup
    BY <1>4 DEF S_Cleanup, S_TermGroup, S_GroupCheck, S_KillGroup, S_Reap, S_ListNone,
          S_SignalRound, S_RoundsExhausted, S_Finish, S_DropHandlers, S_Return, S_MainExit
  <1>5. CASE S_Signal
    BY <1>5 DEF S_Signal, S_HandleWinch, S_Handle, S_DefaultAction
  <1>6. CASE Wrapper
    BY <1>6 DEF Wrapper, W_SetPdeathsig, W_CheckParent, W_ParentChanged, W_SetPgid, W_Unmask,
          W_Isolate, W_Fork, W_IgnoreInt, W_WaitExited, W_WaitReport, W_Suspend,
          W_ContinueGroup, W_Exit, W_Signal
  <1>7. CASE Delegate
    BY <1>7 DEF Delegate, D_SetPdeathsig, D_CheckParent, D_ParentChanged, D_Exec, D_Signal
  <1>8. CASE Command
    BY <1>8 DEF Command, Cmd_Stop, Cmd_Exit, Cmd_Leave, Cmd_Fork, Desc_Signal
  <1>9. CASE Environment
    BY <1>9 DEF Environment, Die, Env_Orphaned, Env_Signal, Env_Continue, Env_ContinueCommand,
          Env_Resize
  <1>10. CASE Finished
    BY <1>10 DEF Finished
  <1> QED BY <1>1, <1>2, <1>3, <1>4, <1>5, <1>6, <1>7, <1>8, <1>9, <1>10 DEF Next

\* What is live and where S is change little: the parts of Quiet about processes
LEMMA QuietExit ==
    ASSUME TypeOK, Endings, Handshake, Quiet, NEW p \in Procs, NEW how, Live(p), Exit(p, how),
           p = "S" => Ended("W"), p = "W" => ~Live("D"), marker' = marker, termFlag' = termFlag
    PROVE  Quiet'
  <1> USE ProcsFacts
  <1>1. pend'["S"] = {}
    BY DEF Exit, Armed, TypeOK, Quiet
  <1>2. pend'["W"] = {}
    <2>1. CASE p = "W"
      BY <2>1 DEF Exit
    <2>2. CASE p # "W" /\ par["W"] = p
      <3>1. ~Live("W")
        BY <2>2 DEF Handshake, Quiet, Endings, SettingUp, Watching, Live, Ended
      <3> QED BY <2>2, <3>1 DEF Exit, Quiet
    <2>3. CASE p # "W" /\ par["W"] # p
      BY <2>3 DEF Exit, Quiet
    <2> QED BY <2>1, <2>2, <2>3
  <1>3. (Live("D") => Live("W"))'
    BY ExitLife DEF Quiet
  <1>4. (spc \in {"start", "block", "fork"} \cup SettingUp \cup Watching \/ Ended("W"))'
    BY ExitLife DEF Quiet
  <1> QED BY <1>1, <1>2, <1>3, <1>4 DEF Quiet

\* A step that ends and starts nothing
LEMMA QuietSame ==
    ASSUME TypeOK, Quiet, SameLife, marker' = marker, termFlag' = termFlag,
           pend'["S"] \subseteq pend["S"], pend'["W"] \subseteq pend["W"],
           spc' \in {spc} \cup SettingUp \cup Watching \/ Ended("W")
    PROVE  Quiet'
  BY ProcsFacts DEF Quiet, SameLife

LEMMA QuietSend ==
    ASSUME TypeOK, Quiet, NEW T, "S" \notin T, NEW sig \in Sigs, Ended("W"),
           pend' = SendTo(T, sig)
    PROVE  pend'["S"] \subseteq pend["S"] /\ pend'["W"] \subseteq pend["W"]
  BY ProcsFacts DEF SendTo, Live, Ended

\* The wrapper and the command find the parent they were forked by.
LEMMA QuietParents ==
    ASSUME TypeOK, Endings, Handshake, Quiet, ~UnsharePid
    PROVE  ~W_ParentChanged /\ ~D_ParentChanged
  <1> USE ProcsFacts
  <1>1. ASSUME Live("W") PROVE par["W"] = "S"
    BY <1>1 DEF Quiet, Endings, Handshake, SettingUp, Watching, Live, Ended
  <1>2. ASSUME Live("D") PROVE par["D"] = "W"
    BY <1>2 DEF Quiet, Handshake
  <1> QED BY <1>1, <1>2 DEF W_ParentChanged, D_ParentChanged, PpidSeen, CanRun, Live

LEMMA QuietSupervisor ==
    ASSUME TypeOK, Endings, Handshake, Quiet,
           S_Setup \/ S_Supervise \/ S_Cleanup \/ S_Signal
    PROVE  Quiet'
  <1> USE ProcsFacts DEF SGo
  <1>s. "S" \notin Group /\ "S" \notin Children("S") /\ "KILL" \in Sigs /\ "TERM" \in Sigs
    BY DEF Group, Children, Sigs
  <1>1. CASE S_Setup
    <2>0. CASE S_Start \/ S_Block
      BY <2>0, SameTableLife DEF S_Start, S_Block, Quiet, SameLife
    <2>1. CASE S_SetPgid \/ S_PublishPgid \/ S_InstallHandlers \/ S_Unmask
      BY <2>1, SameTableLife, QuietSame
         DEF S_SetPgid, S_PublishPgid, S_InstallHandlers, S_Unmask, SettingUp, Watching
    <2>2. CASE S_Fork
      <3>1. Fork("S", "W") /\ spc' = "setup" /\ termFlag' = termFlag /\ marker' = marker
        BY <2>2 DEF S_Fork
      <3> QED BY <3>1, ForkLife DEF Quiet, SettingUp
    <2>3. CASE S_SetupFailed
      BY <2>3, SameTableLife, QuietSame DEF S_SetupFailed, Quiet, SettingUp, Watching
    <2>4. CASE S_KillChild \/ S_KillSetupGroup
      <3>1. Ended("W")
        BY <2>4 DEF S_KillChild, S_KillSetupGroup, Quiet, SettingUp, Watching
      <3>2. pend'["S"] \subseteq pend["S"] /\ pend'["W"] \subseteq pend["W"]
        BY <1>s, <2>4, <3>1, QuietSend DEF S_KillChild, S_KillSetupGroup
      <3> QED BY <2>4, <3>1, <3>2, SameTableLife, QuietSame DEF S_KillChild, S_KillSetupGroup
    <2>5. CASE S_ReapSetup
      BY <2>5, ReapLife, QuietSame DEF S_ReapSetup, Ended
    <2> QED BY <1>1, <2>0, <2>1, <2>2, <2>3, <2>4, <2>5 DEF S_Setup
  <1>2. CASE S_Supervise
    <2>1. CASE S_CheckTermination
      <3>1. termFlag = FALSE
        BY DEF Quiet, TypeOK
      <3> QED BY <2>1, <3>1, SameTableLife, QuietSame DEF S_CheckTermination, Watching
    <2>2. CASE S_TakeWinch \/ S_ForwardWinsize \/ S_EnterWait \/ S_WaitReport
      BY <2>2, SameTableLife, QuietSame
         DEF S_TakeWinch, S_ForwardWinsize, S_EnterWait, S_WaitReport, Watching
    <2>3. CASE S_WaitExited
      BY <2>3, ReapLife, QuietSame DEF S_WaitExited, Ended
    <2>4. CASE S_Suspend
      BY <2>4, StopLife, QuietSame DEF S_Suspend, CanRun, Live, Watching
    <2>5. CASE S_ContinueGroup
      <3>1. \A q \in Procs : pend'[q] \subseteq pend[q]
        BY <2>5 DEF S_ContinueGroup, ContinueGroup
      <3> QED BY <2>5, <3>1, ContinueLife, QuietSame DEF S_ContinueGroup, Watching
    <2> QED BY <1>2, <2>1, <2>2, <2>3, <2>4, <2>5 DEF S_Supervise
  <1>3. CASE S_Cleanup
    <2>e. Ended("W")
      BY <1>3 DEF S_Cleanup, S_TermGroup, S_GroupCheck, S_KillGroup, S_Reap, S_ListNone,
            S_SignalRound, S_RoundsExhausted, S_Finish, S_DropHandlers, S_Return, S_MainExit,
            Quiet, SettingUp, Watching
    <2>1. CASE S_TermGroup \/ S_KillGroup \/ S_SignalRound
      <3>1. pend'["S"] \subseteq pend["S"] /\ pend'["W"] \subseteq pend["W"]
        <4>1. \E T \in {Group, Children("S")}, sig \in {"TERM", "KILL"} : pend' = SendTo(T, sig)
          BY <2>1 DEF S_TermGroup, S_KillGroup, S_SignalRound
        <4> QED BY <1>s, <2>e, <4>1, QuietSend
      <3> QED BY <2>1, <2>e, <3>1, SameTableLife, QuietSame
              DEF S_TermGroup, S_KillGroup, S_SignalRound
    <2>2. CASE S_Reap
      BY <2>2, <2>e, ReapLife, QuietSame DEF S_Reap
    <2>3. CASE S_MainExit
      BY <2>3, <2>e, QuietExit DEF S_MainExit, CanRun, Live
    <2>4. CASE S_GroupCheck \/ S_ListNone \/ S_RoundsExhausted
      BY <2>4, <2>e, SameTableLife, QuietSame DEF S_GroupCheck, S_ListNone, S_RoundsExhausted, Fail
    <2>5. CASE S_Finish \/ S_DropHandlers \/ S_Return
      BY <2>5, <2>e, SameTableLife, QuietSame DEF S_Finish, S_DropHandlers, S_Return
    <2> QED BY <1>3, <2>1, <2>2, <2>3, <2>4, <2>5 DEF S_Cleanup
  <1>4. CASE S_Signal
    BY <1>4 DEF S_Signal, S_HandleWinch, S_Handle, S_DefaultAction, Quiet
  <1> QED BY <1>1, <1>2, <1>3, <1>4

LEMMA QuietWrapper ==
    ASSUME TypeOK, Endings, Handshake, Quiet, Wrapper, ~UnsharePid
    PROVE  Quiet'
  <1> USE ProcsFacts DEF WGo, CanRun
  <1>1. CASE W_SetPdeathsig \/ W_CheckParent \/ W_SetPgid \/ W_Unmask \/ W_Isolate \/ W_WaitReport
    BY <1>1, SameTableLife, QuietSame
       DEF W_SetPdeathsig, W_CheckParent, W_SetPgid, W_Unmask, W_Isolate, W_WaitReport
  <1>2. CASE W_IgnoreInt
    <2>1. pend'["W"] \subseteq pend["W"] /\ pend'["S"] = pend["S"]
      BY <1>2 DEF W_IgnoreInt, TypeOK
    <2> QED BY <1>2, <2>1, SameTableLife, QuietSame DEF W_IgnoreInt
  <1>3. CASE W_Fork
    <2>1. /\ Fork("W", "D") /\ Live("W")
          /\ spc' = spc /\ termFlag' = termFlag /\ marker' = marker
      BY <1>3 DEF W_Fork, Live
    <2> QED BY <2>1, ForkLife DEF Quiet
  <1>4. CASE W_WaitExited
    BY <1>4, ReapLife, QuietSame DEF W_WaitExited
  <1>5. CASE W_Suspend
    BY <1>5, StopLife, QuietSame DEF W_Suspend, Live
  <1>6. CASE W_ContinueGroup
    <2>1. \A q \in Procs : pend'[q] \subseteq pend[q]
      BY <1>6 DEF W_ContinueGroup, ContinueGroup
    <2> QED BY <1>6, <2>1, ContinueLife, QuietSame DEF W_ContinueGroup
  <1>7. CASE W_Exit
    <2>1. ~Live("D") /\ Live("W")
      BY <1>7 DEF W_Exit, Endings, Live, Ended
    <2> QED BY <1>7, <2>1, QuietExit DEF W_Exit
  <1>8. CASE W_ParentChanged
    BY <1>8, QuietParents
  <1>9. ASSUME NEW sig \in Sigs, W_Signal(sig) PROVE Quiet'
    BY <1>9 DEF W_Signal, Quiet
  <1> QED BY <1>1, <1>2, <1>3, <1>4, <1>5, <1>6, <1>7, <1>8, <1>9 DEF Wrapper

LEMMA QuietRest ==
    ASSUME TypeOK, Endings, Handshake, Quiet, ~UnsharePid,
           \/ Delegate \/ Command
           \/ \E p \in Procs : Die(p)
           \/ \E p \in Own : Env_Orphaned(p)
           \/ Env_Continue \/ Env_ContinueCommand \/ Finished
    PROVE  Quiet'
  <1> USE ProcsFacts
  <1>1. CASE D_SetPdeathsig \/ D_CheckParent \/ D_Exec
    BY <1>1, SameTableLife, QuietSame DEF D_SetPdeathsig, D_CheckParent, D_Exec, DGo
  <1>2. CASE D_ParentChanged
    BY <1>2, QuietParents
  <1>3. ASSUME NEW sig \in Sigs, D_Signal(sig) PROVE Quiet'
    <2>1. CASE Exit("D", "sig")
      BY <1>3, <2>1, QuietExit DEF D_Signal, CanRun, Live
    <2>2. CASE pend' = [pend EXCEPT !["D"] = @ \ {sig}] /\ ~Exit("D", "sig")
      <3>1. pend'["W"] = pend["W"] /\ pend'["S"] = pend["S"]
        BY <2>2 DEF TypeOK
      <3> QED BY <1>3, <2>2, <3>1, StopLife, SameTableLife, QuietSame DEF D_Signal, CanRun, Live
    <2> QED BY <1>3, <2>1, <2>2 DEF D_Signal
  <1>4. CASE Cmd_Stop
    BY <1>4, StopLife, QuietSame DEF Cmd_Stop, Runs, CanRun, Live
  <1>5. ASSUME NEW p \in {"D"} \cup Desc, Cmd_Exit(p) PROVE Quiet'
    BY <1>5, QuietExit DEF Cmd_Exit, Runs, CanRun, Live
  <1>6. ASSUME NEW p \in {"D"} \cup Desc, Cmd_Leave(p) PROVE Quiet'
    BY <1>6, SameTableLife, QuietSame DEF Cmd_Leave
  <1>7. ASSUME NEW p \in {"D"} \cup Desc, NEW x \in Desc, Cmd_Fork(p, x) PROVE Quiet'
    <2>1. Fork(p, x) /\ spc' = spc /\ termFlag' = termFlag /\ marker' = marker
      BY <1>7 DEF Cmd_Fork
    <2> QED BY <2>1, ForkLife DEF Quiet
  <1>8. ASSUME NEW x \in Desc, NEW sig \in Sigs, Desc_Signal(x, sig) PROVE Quiet'
    <2>1. CASE Exit(x, "sig")
      BY <1>8, <2>1, QuietExit DEF Desc_Signal, CanRun, Live
    <2>2. CASE pend' = [pend EXCEPT ![x] = @ \ {sig}] /\ UNCHANGED <<pcs, st, par, report, status>>
      <3>1. pend'["W"] = pend["W"] /\ pend'["S"] = pend["S"]
        BY <2>2 DEF TypeOK
      <3> QED BY <1>8, <2>2, <3>1, SameTableLife, QuietSame DEF Desc_Signal
    <2> QED BY <1>8, <2>1, <2>2 DEF Desc_Signal
  <1>9. ASSUME NEW p \in Procs, Die(p) PROVE Quiet'
    <2>1. p \notin {"S", "W"}
      BY <1>9 DEF Die, Quiet
    <2> QED BY <1>9, <2>1, QuietExit DEF Die
  <1>10. ASSUME NEW p \in Own, Env_Orphaned(p) PROVE Quiet'
    <2>1. Ended("W")
      BY <1>10 DEF Env_Orphaned, Endings, Quiet, SettingUp, Watching
    <2>2. p = "D" /\ Live("D")
      BY <1>10, <2>1 DEF Env_Orphaned, Own, Ended, Live
    <2> QED BY <2>1, <2>2 DEF Quiet, Live, Ended
  <1>11. CASE Env_Continue
    <2>1. pend'["W"] = pend["W"] /\ pend'["S"] \subseteq pend["S"]
      BY <1>11 DEF Env_Continue, TypeOK
    <2> QED BY <1>11, <2>1, ResumeLife, QuietSame DEF Env_Continue
  <1>12. CASE Env_ContinueCommand
    BY <1>12, ResumeLife, QuietSame DEF Env_ContinueCommand
  <1>13. CASE Finished
    BY <1>13, SameTableLife, QuietSame DEF Finished
  <1> QED BY <1>1, <1>2, <1>3, <1>4, <1>5, <1>6, <1>7, <1>8, <1>9, <1>10, <1>11, <1>12, <1>13
          DEF Delegate, Command

LEMMA UndisturbedStep ==
    ASSUME ~UnsharePid, TypeOK, Endings, Handshake, UndisturbedInv, Next
    PROVE  UndisturbedInv'
  <1>1. CASE Disturbs
    BY <1>1, SpendDisturbs DEF Disturbs, UndisturbedInv
  <1>2. CASE QuietNext /\ (budget' = budget \/ Spend("stop"))
    <2>1. Undisturbed' => Quiet'
      <3>1. SUFFICES ASSUME Undisturbed' PROVE Quiet'
        OBVIOUS
      <3>2. Quiet
        BY <1>2, <3>1, UndisturbedBefore DEF UndisturbedInv
      <3> QED BY <1>2, <3>2, QuietSupervisor, QuietWrapper, QuietRest DEF QuietNext
    <2> QED BY <1>2, <2>1, OthersSpendNothing DEF UndisturbedInv
  <1> QED BY <1>1, <1>2, QuietOrDisturbs

-----------------------------------------------------------------------------
(* The theorems about signals, stops and the return                        *)

LEMMA ForwardingInit == Init => ForwardingInv
  BY ProcsFacts DEF Init, ForwardingInv, Deviations, Abandoned, Watched, Requests, CommandStops, WrapperStops,
     SettingUp, Watching, CleaningUp

LEMMA ForwardingStep == SupervisionInv /\ ForwardingInv /\ [Next]_vars => ForwardingInv'
  <1> SUFFICES ASSUME SupervisionInv, ForwardingInv, [Next]_vars PROVE ForwardingInv'
    OBVIOUS
  <1>1. CASE Next
    <2>1. Passing'
      BY <1>1, PassingStep DEF SupervisionInv, ForwardingInv, Passing
    <2>2. CommandStops' /\ WrapperStops'
      BY <1>1, CommandStopsStep, WrapperStopsStep DEF SupervisionInv, ForwardingInv
    <2> QED BY <2>1, <2>2 DEF Passing, ForwardingInv
  <1>2. CASE UNCHANGED vars
    BY <1>2 DEF ForwardingInv, Deviations, Abandoned, Watched, Requests, CommandStops, WrapperStops
  <1> QED BY <1>1, <1>2

\* The invariant about what S has been told is inductive on top of SupervisionInv.
THEOREM ForwardingInvariant == Spec => []ForwardingInv
  <1> QED BY ForwardingInit, ForwardingStep, SupervisionInvariant, PTL DEF Spec

\* However run_supervisor returns, the terminal is cooked, no group is signalled,
\* the forwarding handlers are removed, the signal mask is restored unless that
\* call itself failed, and a wrapper whose setup failed is killed and reaped.
THEOREM Restored == Spec => []ReturnRestoresProcessState
  <1>1. ForwardingInv => ReturnRestoresProcessState
    BY DEF ForwardingInv, Deviations, Abandoned, ReturnRestoresProcessState, SettingUp, Watching,
           CleaningUp
  <1> QED BY <1>1, ForwardingInvariant, PTL

\* S never blocks in waitpid on a termination nobody will wake it for, forgets no
\* resize of the terminal, and blocks on one only if its handler ran between the
\* read of the flag and waitpid.
THEOREM SignalsPassedOn == Spec => []NoSignalLost
  <1>1. ForwardingInv => NoSignalLost
    BY DEF ForwardingInv, Requests, NoSignalLost, TerminationForwarded, WinchNotDropped,
           ResizeWakes, Watching
  <1> QED BY <1>1, ForwardingInvariant, PTL

\* Neither wait loop can sleep through a stop of the child it waits for.
THEOREM StopsReported == Spec => []StopNeverMissed
  <1>1. ForwardingInv => StopNeverMissed
    BY DEF ForwardingInv, CommandStops, WrapperStops, StopNeverMissed, SettingUp, Watching
  <1> QED BY <1>1, ForwardingInvariant, PTL

LEMMA UndisturbedInit == Init => UndisturbedInv
  BY ProcsFacts, BoundAssumption DEF Init, UndisturbedInv, Quiet, Live

\* Without a PID namespace a delegation that meets no fault and no outside signal
\* never writes a failure stage, whatever the command and its descendants do.
THEOREM UndisturbedSucceeds ==
    ASSUME ~UnsharePid
    PROVE  Spec => []UndisturbedDelegationSucceeds
  <1>1. SupervisionInv /\ UndisturbedInv /\ [Next]_vars => UndisturbedInv'
    <2>1. UndisturbedInv /\ UNCHANGED vars => UndisturbedInv'
      BY DEF UndisturbedInv, Undisturbed, Quiet, Live, Ended
    <2> QED BY <2>1, UndisturbedStep DEF SupervisionInv
  <1>2. UndisturbedInv => UndisturbedDelegationSucceeds
    BY DEF UndisturbedInv, Quiet, UndisturbedDelegationSucceeds
  <1> QED BY <1>1, <1>2, UndisturbedInit, SupervisionInvariant, PTL DEF Spec
=============================================================================
