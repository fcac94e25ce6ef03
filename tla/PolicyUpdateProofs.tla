------------------------- MODULE PolicyUpdateProofs -------------------------
(***************************************************************************)
(* Theorems about PolicyUpdate for every set of policies, updates and      *)
(* loads and any number of commands, faults, crashes and publications.     *)
(***************************************************************************)
EXTENDS PolicyUpdate, TLAPS

-----------------------------------------------------------------------------
(* Type correctness                                                        *)

LEMMA SpendType ==
    ASSUME TypeOK, NEW b \in Bounds, Spend(b)
    PROVE  budget' \in [Bounds -> Nat]
  BY DEF TypeOK, Spend

LEMMA FailsType ==
    ASSUME TypeOK, NEW hit \in BOOLEAN, Fails(hit)
    PROVE  budget' \in [Bounds -> Nat]
  BY SpendType DEF TypeOK, Fails, Bounds

LEMMA StartsType ==
    ASSUME TypeOK, NEW b \in Bounds, Starts(b)
    PROVE  budget' \in [Bounds -> Nat]
  BY SpendType DEF Starts, TypeOK, Bounds

LEMMA Names == "policy" \in Files /\ "sig" \in Files
  BY DEF Files

\* The part of TypeOK about the two files, and what the accesses to them keep of it.
FilesOK ==
    disk \in [Files -> Bytes] /\ disk["policy"] # "bad" /\ imm \in [Files -> BOOLEAN]

LEMMA KeepsType == ASSUME FilesOK, UNCHANGED files PROVE FilesOK'
  BY DEF FilesOK, files

LEMMA RenamesType ==
    ASSUME FilesOK, NEW f \in Files, NEW bytes \in Bytes, f = "sig" \/ bytes # "bad",
           Renames(f, bytes)
    PROVE  FilesOK'
  BY Names DEF FilesOK, Renames

LEMMA LocksType == ASSUME FilesOK, NEW f \in Files, Locks(f) PROVE FilesOK'
  BY Names DEF FilesOK, Locks

LEMMA UnlocksType == ASSUME FilesOK, NEW f \in Files, Unlocks(f) PROVE FilesOK'
  BY Names DEF FilesOK, Unlocks

LEMMA UpdateType ==
    ASSUME TypeOK, NEW u \in Updaters, Update(u)
    PROVE  TypeOK'
  <1> USE VersionAssumption, Names
      DEF At, Go, Return, UPC, Results, vars, updater, signer, locker, loader, history
  <1>b. {"command", "fault", "crash"} \subseteq Bounds
    BY DEF Bounds
  <1>f. FilesOK /\ Versions \subseteq Bytes /\ "none" \in Bytes /\ "bad" \notin Versions
    BY DEF FilesOK, TypeOK, Bytes
  <1>1. CASE U_FetchPolicy(u)
    BY <1>1, <1>b, StartsType DEF TypeOK, U_FetchPolicy, files
  <1>2. CASE U_FetchSig(u)
    BY <1>2 DEF TypeOK, U_FetchSig, files
  <1>3. CASE U_Verify(u)
    BY <1>3, ZenonT(40) DEF TypeOK, U_Verify, files
  <1>4. CASE U_CheckSerial(u)
    <2>1. budget' \in [Bounds -> Nat] /\ blind' \in BOOLEAN
      BY <1>4, FailsType DEF TypeOK, U_CheckSerial
    <2> QED BY <1>4, <2>1, ZenonT(40) DEF TypeOK, U_CheckSerial, files
  <1>5. CASE U_InspectSig(u)
    <2>1. prev' \in [Updaters -> Bytes] /\ was' \in [Updaters -> [Files -> BOOLEAN]]
      BY <1>5 DEF TypeOK, U_InspectSig
    <2> QED BY <1>5, <2>1 DEF TypeOK, U_InspectSig, files
  <1>6. CASE U_InspectPolicy(u)
    <2>1. was' \in [Updaters -> [Files -> BOOLEAN]]
      BY <1>6 DEF TypeOK, U_InspectPolicy
    <2> QED BY <1>6, <2>1 DEF TypeOK, U_InspectPolicy, files
  <1>7. CASE U_PersistSig(u)
    <2>1. new[u]["sig"] \in Bytes
      BY <1>f DEF TypeOK
    <2>2. FilesOK'
      BY <1>7, <1>f, <2>1, RenamesType, KeepsType DEF U_PersistSig
    <2> QED BY <1>7, <2>2, ZenonT(40) DEF TypeOK, U_PersistSig, FilesOK
  <1>8. CASE U_PersistPolicy(u)
    <2>1. budget' \in [Bounds -> Nat] /\ excused' \in BOOLEAN
      BY <1>8, FailsType DEF TypeOK, U_PersistPolicy
    <2>2. new[u]["policy"] \in Bytes \ {"bad"}
      BY <1>f DEF TypeOK
    <2>3. FilesOK'
      BY <1>8, <1>f, <2>2, RenamesType, KeepsType DEF U_PersistPolicy
    <2> QED BY <1>8, <2>1, <2>3, ZenonT(40) DEF TypeOK, U_PersistPolicy, FilesOK
  <1>9. CASE U_Rollback(u)
    <2>1. budget' \in [Bounds -> Nat] /\ excused' \in BOOLEAN
      BY <1>9, FailsType DEF TypeOK, U_Rollback
    <2>2. prev[u] \in Bytes
      BY DEF TypeOK
    <2>3. FilesOK'
      BY <1>9, <1>f, <2>2, RenamesType, KeepsType DEF U_Rollback
    <2> QED BY <1>9, <2>1, <2>3, ZenonT(40) DEF TypeOK, U_Rollback, FilesOK
  <1>10. CASE U_RollbackLock(u)
    <2>1. budget' \in [Bounds -> Nat]
      BY <1>10, FailsType DEF U_RollbackLock
    <2>2. FilesOK'
      BY <1>10, <1>f, LocksType, KeepsType DEF U_RollbackLock
    <2> QED BY <1>10, <2>1, <2>2, ZenonT(40) DEF TypeOK, U_RollbackLock, FilesOK
  <1>11. CASE U_LockSig(u)
    <2>1. budget' \in [Bounds -> Nat]
      BY <1>11, FailsType DEF U_LockSig
    <2>2. FilesOK'
      BY <1>11, <1>f, LocksType, KeepsType DEF U_LockSig
    <2> QED BY <1>11, <2>1, <2>2 DEF TypeOK, U_LockSig, FilesOK
  <1>12. CASE U_LockPolicy(u)
    <2>1. budget' \in [Bounds -> Nat]
      BY <1>12, FailsType DEF U_LockPolicy
    <2>2. FilesOK'
      BY <1>12, <1>f, LocksType, KeepsType DEF U_LockPolicy
    <2>3. floor' \in Versions \cup {"none"}
      BY <1>12 DEF TypeOK, U_LockPolicy
    <2> QED BY <1>12, <2>1, <2>2, <2>3 DEF TypeOK, U_LockPolicy, FilesOK
  <1>13. CASE U_Fails(u)
    BY <1>13, <1>b, SpendType DEF TypeOK, U_Fails, files
  <1>14. CASE U_Crash(u)
    BY <1>14, <1>b, SpendType DEF TypeOK, U_Crash, files
  <1> QED BY <1>1, <1>2, <1>3, <1>4, <1>5, <1>6, <1>7, <1>8, <1>9, <1>10, <1>11, <1>12,
             <1>13, <1>14 DEF Update

LEMMA SignType == ASSUME TypeOK, Sign PROVE TypeOK'
  <1> USE VersionAssumption, Names DEF GPC, updater, locker, loader
  <1>b. {"local", "fault", "crash"} \subseteq Bounds
    BY DEF Bounds
  <1>f. FilesOK
    BY DEF TypeOK, FilesOK
  <1>1. CASE G_Read
    <2>1. budget' \in [Bounds -> Nat]
      BY <1>1, <1>b, StartsType DEF G_Read
    <2>2. gread' \in Versions
      BY <1>1 DEF TypeOK, G_Read, Bytes
    <2> QED BY <1>1, <2>1, <2>2 DEF TypeOK, G_Read, files, history, Bytes
  <1>2. CASE G_Truncate
    <2>1. FilesOK'
      <3>1. CASE UNCHANGED files
        BY <1>f, <3>1, KeepsType
      <3>2. CASE disk' = [disk EXCEPT !["sig"] = "bad"] /\ UNCHANGED imm
        BY <1>f, <3>2 DEF FilesOK, Bytes
      <3> QED BY <1>2, <3>1, <3>2 DEF G_Truncate
    <2> QED BY <1>2, <2>1 DEF TypeOK, G_Truncate, FilesOK
  <1>3. CASE G_Write
    <2>1. FilesOK' /\ signed' \subseteq Versions
      BY <1>3, "policy" # "sig" DEF TypeOK, G_Write, FilesOK
    <2> QED BY <1>3, <2>1 DEF TypeOK, G_Write, FilesOK
  <1>4. CASE G_Stops
    BY <1>4, <1>b, SpendType DEF TypeOK, G_Stops, files, history
  <1> QED BY <1>1, <1>2, <1>3, <1>4 DEF Sign

LEMMA InstallType == ASSUME TypeOK, Install PROVE TypeOK'
  <1> USE VersionAssumption, Names DEF KPC, KGo, updater, signer, loader, history
  <1>b. {"command", "fault", "crash"} \subseteq Bounds
    BY DEF Bounds
  <1>f. FilesOK
    BY DEF FilesOK, TypeOK
  <1>1. CASE K_ReadPolicy
    BY <1>1, <1>b, StartsType DEF TypeOK, K_ReadPolicy, files
  <1>2. CASE K_Verify \/ K_Rejects
    BY <1>2 DEF TypeOK, K_Verify, K_Rejects, files
  <1>3. CASE K_LockPolicy
    <2>1. budget' \in [Bounds -> Nat]
      BY <1>3, FailsType DEF K_LockPolicy
    <2>2. FilesOK'
      BY <1>3, <1>f, LocksType, KeepsType DEF K_LockPolicy
    <2> QED BY <1>3, <2>1, <2>2 DEF TypeOK, K_LockPolicy, FilesOK
  <1>4. CASE K_LockSig
    <2>1. budget' \in [Bounds -> Nat] /\ secured' \in BOOLEAN
      BY <1>4, FailsType DEF K_LockSig
    <2>2. FilesOK'
      BY <1>4, <1>f, LocksType, KeepsType DEF K_LockSig
    <2> QED BY <1>4, <2>1, <2>2 DEF TypeOK, K_LockSig, FilesOK
  <1>5. CASE K_Unlock
    BY <1>5, <1>b, StartsType DEF TypeOK, K_Unlock, files
  <1>6. CASE K_UnlockPolicy \/ K_UnlockSig
    <2>1. budget' \in [Bounds -> Nat]
      BY <1>6, FailsType DEF K_UnlockPolicy, K_UnlockSig
    <2>2. FilesOK'
      BY <1>6, <1>f, UnlocksType, KeepsType DEF K_UnlockPolicy, K_UnlockSig
    <2> QED BY <1>6, <2>1, <2>2 DEF TypeOK, K_UnlockPolicy, K_UnlockSig, FilesOK
  <1>7. CASE K_Fails \/ K_Crash
    BY <1>7, <1>b, SpendType DEF TypeOK, K_Fails, K_Crash, files
  <1> QED BY <1>1, <1>2, <1>3, <1>4, <1>5, <1>6, <1>7 DEF Install

LEMMA OthersType ==
    ASSUME TypeOK, Outside \/ \E l \in Loaders : Load(l)
    PROVE  TypeOK'
  <1> USE VersionAssumption, Names DEF updater, signer, locker, loader
  <1>b. {"local", "publish"} \subseteq Bounds
    BY DEF Bounds
  <1>1. ASSUME NEW f \in Files, Publish(f) PROVE TypeOK'
    <2>1. budget' \in [Bounds -> Nat]
      BY <1>1, <1>b, SpendType DEF TypeOK, Publish, Files
    <2> QED BY <1>1, <2>1 DEF TypeOK, Publish, files
  <1>2. CASE Edit
    <2>1. FilesOK'
      BY <1>2 DEF TypeOK, Edit, FilesOK, Bytes
    <2> QED BY <1>2, <1>b, <2>1, StartsType DEF TypeOK, Edit, FilesOK
  <1>3. ASSUME NEW l \in Loaders, L_ReadPolicy(l) PROVE TypeOK'
    BY <1>3 DEF TypeOK, L_ReadPolicy, files
  <1>4. ASSUME NEW l \in Loaders, L_Verify(l) PROVE TypeOK'
    <2>1. lres' \in [Loaders -> Bytes]
      BY <1>4 DEF TypeOK, L_Verify, Bytes
    <2> QED BY <1>4, <2>1 DEF TypeOK, L_Verify, files, history
  <1> QED BY <1>1, <1>2, <1>3, <1>4 DEF Outside, Load

LEMMA TypeStep ==
    ASSUME TypeOK, [Next]_vars
    PROVE  TypeOK'
  <1>1. CASE UNCHANGED vars
    BY <1>1 DEF TypeOK, vars, files, updater, signer, locker, loader, history
  <1> QED BY <1>1, UpdateType, SignType, InstallType, OthersType DEF Next, Finished

LEMMA TypeInit == Init => TypeOK
  <1> SUFFICES ASSUME Init PROVE TypeOK
    OBVIOUS
  <1> USE VersionAssumption DEF Init, Nothing
  <1>1. FilesOK
    BY Names DEF FilesOK, Bytes
  <1>2. budget \in [Bounds -> Nat]
    BY BoundAssumption
  <1>3. /\ srv \in [Files -> Versions] /\ new \in [Updaters -> [Files -> Versions \cup {"none"}]]
        /\ before \in [Updaters -> [Files -> Bytes]]
        /\ was \in [Updaters -> [Files -> BOOLEAN]]
    BY DEF Bytes
  <1> QED BY <1>1, <1>2, <1>3, ZenonT(40) DEF TypeOK, FilesOK, Bytes, UPC, GPC, KPC, Results

\* Every reachable state is well typed, for every value of the constants.
THEOREM TypeCorrect == Spec => []TypeOK
  BY TypeInit, TypeStep, PTL DEF Spec

-----------------------------------------------------------------------------
(* What a gatekeeper loads has been signed                                 *)

LEMMA GenuineUpdate ==
    ASSUME TypeOK, Genuine, NEW u \in Updaters, Update(u)
    PROVE  Genuine'
  <1> USE Names DEF Genuine, LoadedWasSigned, TypeOK, At, Go, Return, loader, history
  <1>1. CASE U_FetchPolicy(u)
    BY <1>1 DEF U_FetchPolicy, files
  <1>2. CASE U_FetchSig(u)
    BY <1>2 DEF U_FetchSig, files
  <1>3. CASE U_Verify(u) \/ U_CheckSerial(u) \/ U_InspectPolicy(u) \/ U_Fails(u) \/ U_Crash(u)
    BY <1>3 DEF U_Verify, U_CheckSerial, U_InspectPolicy, U_Fails, U_Crash, files
  <1>4. CASE U_InspectSig(u)
    BY <1>4 DEF U_InspectSig, files
  <1>5. CASE U_PersistSig(u)
    BY <1>5 DEF U_PersistSig, Renames, files
  <1>6. CASE U_PersistPolicy(u)
    BY <1>6, "policy" # "sig" DEF U_PersistPolicy, Renames, files
  <1>7. CASE U_Rollback(u)
    BY <1>7 DEF U_Rollback, Renames, files
  <1>8. CASE U_RollbackLock(u) \/ U_LockSig(u) \/ U_LockPolicy(u)
    BY <1>8 DEF U_RollbackLock, U_LockSig, U_LockPolicy, Locks, files
  <1> QED BY <1>1, <1>2, <1>3, <1>4, <1>5, <1>6, <1>7, <1>8 DEF Update

LEMMA GenuineOthers ==
    ASSUME TypeOK, Genuine, Sign \/ Install \/ Outside \/ \E l \in Loaders : Load(l)
    PROVE  Genuine'
  <1> USE VersionAssumption, Names
      DEF Genuine, LoadedWasSigned, TypeOK, updater, loader, history
  <1>1. CASE G_Read \/ G_Stops
    BY <1>1 DEF G_Read, G_Stops, files
  <1>2. CASE G_Truncate
    BY <1>2 DEF G_Truncate, files
  <1>3. CASE G_Write
    BY <1>3 DEF G_Write
  <1>4. CASE Install
    BY <1>4 DEF Install, K_ReadPolicy, K_Verify, K_Rejects, K_Fails, K_LockPolicy, K_LockSig,
                K_Unlock, K_UnlockPolicy, K_UnlockSig, K_Crash, Locks, Unlocks, files
  <1>5. ASSUME NEW f \in Files, Publish(f) PROVE Genuine'
    BY <1>5 DEF Publish, files
  <1>6. CASE Edit
    BY <1>6, "policy" # "sig" DEF Edit
  <1>7. ASSUME NEW l \in Loaders, L_ReadPolicy(l) PROVE Genuine'
    BY <1>7 DEF L_ReadPolicy, files
  <1>8. ASSUME NEW l \in Loaders, L_Verify(l) PROVE Genuine'
    <2>1. lres'[l] \in Versions => lres'[l] \in signed \cap Valid
      BY <1>8 DEF L_Verify
    <2> QED BY <1>8, <2>1 DEF L_Verify, files
  <1> QED BY <1>1, <1>2, <1>3, <1>4, <1>5, <1>6, <1>7, <1>8 DEF Sign, Outside, Load

LEMMA GenuineStep ==
    ASSUME TypeOK, Genuine, [Next]_vars
    PROVE  Genuine'
  <1>1. CASE UNCHANGED vars
    BY <1>1 DEF Genuine, LoadedWasSigned, vars, files, updater, loader, history
  <1> QED BY <1>1, GenuineUpdate, GenuineOthers DEF Next, Finished

LEMMA GenuineInit == Init => Genuine
  BY VersionAssumption, Names DEF Init, Genuine, LoadedWasSigned, Nothing

\* A gatekeeper never runs on a policy that has not been signed or is not valid,
\* however many updates overlap and wherever they are killed.
THEOREM LoadedSigned == Spec => []LoadedWasSigned
  <1>1. Spec => []Genuine
    BY TypeInit, TypeStep, GenuineInit, GenuineStep, PTL DEF Spec
  <1>2. Genuine => LoadedWasSigned
    BY DEF Genuine
  <1> QED BY <1>1, <1>2, PTL

(***************************************************************************)
(* The guarantees of update, sign, install and unlock as long as the       *)
(* administrator runs one command at a time (Alone): the conjuncts of      *)
(* SerializedInv are inductive together until the first overlap.           *)
(* MCPolicyDowngrade shows that the condition is needed.                   *)
(***************************************************************************)

-----------------------------------------------------------------------------
(* Who moves                                                               *)

\* A command that starts and overlaps no other one finds none running.
LEMMA StartsQuiet ==
    ASSUME TypeOK, Alone, Alone', NEW b \in {"command", "local"}, Starts(b)
    PROVE  Quiet
  BY BoundAssumption DEF TypeOK, Alone, Bounds, Starts

\* Overlaps are only counted down: what has overlapped stays so.
LEMMA OverlapsStep ==
    ASSUME TypeOK, Counted, [Next]_vars
    PROVE  Counted' /\ (Alone' => Alone)
  <1> DEFINE Paid == \/ UNCHANGED budget \/ Starts("command") \/ Starts("local")
                     \/ Spend("fault") \/ Spend("crash") \/ Spend("publish")
  <1>1. ASSUME NEW u \in Updaters, Update(u) PROVE Paid
    BY <1>1
    DEF Update, U_FetchPolicy, U_FetchSig, U_Verify, U_CheckSerial, U_InspectSig,
        U_InspectPolicy, U_PersistSig, U_PersistPolicy, U_Rollback, U_RollbackLock, U_LockSig,
        U_LockPolicy, U_Fails, U_Crash, Fails
  <1>2. ASSUME Sign PROVE Paid
    BY <1>2 DEF Sign, G_Read, G_Truncate, G_Write, G_Stops
  <1>3. ASSUME Install PROVE Paid
    BY <1>3
    DEF Install, K_ReadPolicy, K_Verify, K_Rejects, K_Fails, K_LockPolicy, K_LockSig, K_Unlock,
        K_UnlockPolicy, K_UnlockSig, K_Crash, Fails
  <1>4. ASSUME Outside PROVE Paid
    BY <1>4 DEF Outside, Edit, Publish, Files
  <1>5. Paid
    BY <1>1, <1>2, <1>3, <1>4 DEF Next, Finished, Load, L_ReadPolicy, L_Verify, vars
  <1>6. budget'["overlap"] <= budget["overlap"] /\ budget["overlap"] \in Nat
        /\ budget'["overlap"] \in Nat
    BY <1>5 DEF TypeOK, Bounds, Spend, Starts
  <1> QED BY <1>6, BoundAssumption DEF Counted, Alone

\* A step of the other commands or of the editor finds no update running.
LEMMA LocalAlone ==
    ASSUME TypeOK, Alone, Alone', Exclusion, Sign \/ Install \/ Edit
    PROVE  (\A u \in Updaters : upc[u] = "idle") /\ UNCHANGED updater
  <1>q. \A b \in {"command", "local"} : Starts(b) => Quiet
    BY StartsQuiet
  <1>1. CASE Sign
    BY <1>1, <1>q DEF Sign, G_Read, G_Truncate, G_Write, G_Stops, Exclusion, Quiet, updater
  <1>2. CASE Install
    BY <1>2, <1>q DEF Install, K_ReadPolicy, K_Verify, K_Rejects, K_Fails, K_LockPolicy, K_LockSig,
                KGo, K_Unlock, K_UnlockPolicy, K_UnlockSig, K_Crash, Exclusion, Quiet,
                updater
  <1>3. CASE Edit
    BY <1>3, <1>q DEF Edit, Exclusion, Quiet, updater
  <1> QED BY <1>1, <1>2, <1>3

\* A step of an update finds nothing else running and concerns no other update.
LEMMA UpdateAlone ==
    ASSUME TypeOK, Alone, Alone', Exclusion, NEW u \in Updaters, Update(u)
    PROVE  /\ gpc = "idle" /\ kpc = "idle" /\ UNCHANGED <<signer, locker, loader, srv, secured>>
           /\ \A w \in Updaters : w # u => upc[w] = "idle"
  <1>q. \A b \in {"command", "local"} : Starts(b) => Quiet
    BY StartsQuiet
  <1> USE <1>q DEF Exclusion, Quiet, At, history
  <1>1. CASE U_FetchPolicy(u)
    BY <1>1 DEF U_FetchPolicy
  <1>2. CASE U_FetchSig(u) \/ U_Verify(u) \/ U_CheckSerial(u) \/ U_InspectSig(u)
             \/ U_InspectPolicy(u) \/ U_PersistSig(u)
    BY <1>2 DEF U_FetchSig, U_Verify, U_CheckSerial, U_InspectSig, U_InspectPolicy, U_PersistSig
  <1>3. CASE U_PersistPolicy(u) \/ U_Rollback(u) \/ U_RollbackLock(u) \/ U_LockSig(u)
             \/ U_LockPolicy(u) \/ U_Fails(u) \/ U_Crash(u)
    BY <1>3 DEF U_PersistPolicy, U_Rollback, U_RollbackLock, U_LockSig, U_LockPolicy, U_Fails,
                U_Crash
  <1> QED BY <1>1, <1>2, <1>3 DEF Update

LEMMA UpdateOwn ==
    ASSUME TypeOK, NEW u \in Updaters, Update(u), NEW w \in Updaters, w # u
    PROVE  upc'[w] = upc[w] /\ ures'[w] = ures[w]
  <1> USE DEF TypeOK, Go, Return
  <1>1. CASE U_FetchPolicy(u) \/ U_FetchSig(u) \/ U_Verify(u) \/ U_CheckSerial(u)
             \/ U_InspectSig(u) \/ U_InspectPolicy(u) \/ U_PersistSig(u)
    BY <1>1 DEF U_FetchPolicy, U_FetchSig, U_Verify, U_CheckSerial, U_InspectSig, U_InspectPolicy,
                U_PersistSig
  <1>2. CASE U_PersistPolicy(u) \/ U_Rollback(u) \/ U_RollbackLock(u) \/ U_LockSig(u)
             \/ U_LockPolicy(u) \/ U_Fails(u) \/ U_Crash(u)
    BY <1>2 DEF U_PersistPolicy, U_Rollback, U_RollbackLock, U_LockSig, U_LockPolicy, U_Fails,
                U_Crash
  <1> QED BY <1>1, <1>2 DEF Update

LEMMA ExclusionStep ==
    ASSUME Alone, Alone', TypeOK, Exclusion, [Next]_vars
    PROVE  Exclusion'
  <1>q. \A b \in {"command", "local"} : Starts(b) => Quiet
    BY StartsQuiet
  <1>1. ASSUME NEW u \in Updaters, Update(u) PROVE Exclusion'
    <2>1. \A w \in Updaters : w # u => upc'[w] = "idle"
      BY <1>1, UpdateAlone, UpdateOwn
    <2> QED BY <1>1, <2>1, UpdateAlone DEF Exclusion, signer, locker
  <1>2. CASE Sign
    BY <1>2, LocalAlone, <1>q
       DEF Sign, G_Read, G_Truncate, G_Write, G_Stops, Exclusion, Quiet, updater, locker
  <1>3. CASE Install
    BY <1>3, LocalAlone, <1>q
       DEF Install, K_ReadPolicy, K_Verify, K_Rejects, K_Fails, K_LockPolicy, K_LockSig,
           KGo, K_Unlock, K_UnlockPolicy, K_UnlockSig, K_Crash, Exclusion, Quiet,
           updater, signer
  <1>4. CASE UNCHANGED <<upc, gpc, kpc>>
    BY <1>4 DEF Exclusion
  <1> QED BY <1>1, <1>2, <1>3, <1>4
          DEF Next, Finished, Load, L_ReadPolicy, L_Verify, Outside, Edit, Publish, vars,
              updater, signer, locker

-----------------------------------------------------------------------------
(* Progress of an update                                                   *)

\* Two files are all there is to compare.
LEMMA SameFiles ==
    ASSUME NEW f \in [Files -> Bytes], NEW g \in [Files -> Bytes],
           f["policy"] = g["policy"], f["sig"] = g["sig"]
    PROVE  f = g
  BY DEF Files

LEMMA IdleProgress ==
    ASSUME NEW u \in Updaters, upc[u] = "idle"
    PROVE  Progress(u)
  BY DEF Progress, BeforeRenames, BetweenRenames, AfterRenames

LEMMA ProgressUpdate ==
    ASSUME TypeOK, NEW u \in Updaters, Progress(u), Update(u)
    PROVE  Progress(u)'
  <1> USE VersionAssumption, Names, "policy" # "sig"
      DEF Progress, BeforeRenames, BetweenRenames, AfterRenames, At, Go, Return, history
  <1>t. TypeOK' BY UpdateType
  <1>0. CASE upc'[u] = "idle"
    BY <1>0
  <1>1. CASE U_FetchPolicy(u)
    BY <1>1, <1>t DEF U_FetchPolicy, files, TypeOK
  <1>2. CASE U_FetchSig(u)
    BY <1>2 DEF U_FetchSig, files, TypeOK
  <1>3. CASE U_Verify(u)
    BY <1>3 DEF U_Verify, files, TypeOK
  <1>4. CASE U_CheckSerial(u)
    BY <1>4 DEF U_CheckSerial, files, TypeOK, Newer
  <1>5. CASE U_InspectSig(u)
    BY <1>5 DEF U_InspectSig, files, TypeOK, Newer
  <1>6. CASE U_InspectPolicy(u)
    BY <1>6 DEF U_InspectPolicy, files, TypeOK, Newer
  <1>7. CASE U_PersistSig(u)
    <2>1. CASE imm["sig"]
      BY <1>7, <1>0, <2>1 DEF U_PersistSig, TypeOK
    <2>2. CASE ~imm["sig"]
      <3>1. /\ disk'["policy"] = disk["policy"] /\ disk'["sig"] = new[u]["sig"]
            /\ imm'["policy"] = imm["policy"] /\ ~imm'["sig"]
            /\ upc'[u] = "persist_policy" /\ UNCHANGED <<new, prev, was, before, blind>>
        BY <1>7, <2>2 DEF U_PersistSig, Renames, TypeOK
      <3>2. Newer(u, blind)'
        BY <1>7, <3>1 DEF U_PersistSig, Newer
      <3> QED BY <1>7, <2>2, <3>1, <3>2 DEF U_PersistSig
    <2> QED BY <2>1, <2>2
  <1>8. CASE U_PersistPolicy(u)
    <2>1. CASE upc'[u] = "rollback"
      BY <1>8, <2>1 DEF U_PersistPolicy, files, TypeOK, Newer
    <2>2. CASE upc'[u] = "lock_sig"
      <3>1. /\ disk'["policy"] = new[u]["policy"] /\ disk'["sig"] = new[u]["sig"]
            /\ UNCHANGED <<new, was>> /\ imm'["sig"] = imm["sig"] /\ ~imm["policy"]
        BY <1>8, <2>2 DEF U_PersistPolicy, Renames, TypeOK
      <3>2. disk' = new'[u]
        <4>1. disk' \in [Files -> Bytes] /\ new'[u] \in [Files -> Bytes]
          BY <1>t DEF TypeOK, Bytes
        <4> QED BY <3>1, <4>1, SameFiles
      <3> QED BY <1>8, <2>2, <3>1, <3>2 DEF U_PersistPolicy
    <2> QED BY <1>8, <2>1, <2>2 DEF U_PersistPolicy, TypeOK
  <1>9. CASE U_Rollback(u)
    BY <1>9, <1>0 DEF U_Rollback, TypeOK
  <1>10. CASE U_RollbackLock(u)
    BY <1>10, <1>0 DEF U_RollbackLock, TypeOK
  <1>11. CASE U_LockSig(u)
    BY <1>11 DEF U_LockSig, files, TypeOK
  <1>12. CASE U_LockPolicy(u) \/ U_Fails(u) \/ U_Crash(u)
    BY <1>12, <1>0 DEF U_LockPolicy, U_Fails, U_Crash, TypeOK
  <1> QED BY <1>1, <1>2, <1>3, <1>4, <1>5, <1>6, <1>7, <1>8, <1>9, <1>10, <1>11, <1>12 DEF Update

LEMMA ProgressStep ==
    ASSUME Alone, Alone', TypeOK, Exclusion, \A u \in Updaters : Progress(u), [Next]_vars
    PROVE  \A u \in Updaters : Progress(u)'
  <1> TAKE w \in Updaters
  <1>0. upc'[w] = "idle" => Progress(w)'
    BY DEF Progress, BeforeRenames, BetweenRenames, AfterRenames
  <1>1. ASSUME NEW u \in Updaters, Update(u) PROVE Progress(w)'
    <2>1. CASE w = u
      BY <1>1, <2>1, ProgressUpdate
    <2>2. CASE w # u
      BY <1>1, <2>2, <1>0, UpdateAlone, UpdateOwn
    <2> QED BY <2>1, <2>2
  <1>2. CASE Sign \/ Install \/ Edit
    BY <1>2, <1>0, LocalAlone DEF updater
  <1>3. CASE UNCHANGED <<files, updater, before, blind>>
    BY <1>3 DEF Progress, Newer, files, updater
  <1> QED BY <1>1, <1>2, <1>3
          DEF Next, Finished, Load, L_ReadPolicy, L_Verify, Outside, Publish, vars, history
-----------------------------------------------------------------------------
(* The pair of files                                                       *)

LEMMA PairingStep ==
    ASSUME Alone, Alone', TypeOK, Exclusion, \A u \in Updaters : Progress(u), Pairing, [Next]_vars
    PROVE  Pairing'
  <1>q. \A b \in {"command", "local"} : Starts(b) => Quiet
    BY StartsQuiet
  <1> USE VersionAssumption, Names, "policy" # "sig" DEF BetweenRenames
  <1>t. TypeOK' BY TypeStep
  <1>1. ASSUME NEW u \in Updaters, Update(u) PROVE Pairing'
    <2> USE DEF At, Go, Return
    <2>t. upc \in [Updaters -> UPC]
      BY DEF TypeOK
    <2>a. /\ gpc' = "idle" /\ \A w \in Updaters : w # u => upc'[w] = "idle" /\ upc[w] = "idle"
          /\ upc[u] \notin BetweenRenames /\ ~excused => Paired(disk)
          /\ upc[u] \in BetweenRenames /\ ~excused => Paired(before[u])
      BY <1>1, UpdateAlone, UpdateOwn DEF Pairing, signer
    <2> SUFFICES ASSUME ~excused'
                 PROVE  IF upc'[u] \in BetweenRenames THEN Paired(before[u])' ELSE Paired(disk)'
      BY <2>a DEF Pairing
    <2>1. CASE U_FetchPolicy(u) \/ U_FetchSig(u) \/ U_Verify(u) \/ U_CheckSerial(u)
               \/ U_InspectSig(u) \/ U_InspectPolicy(u) \/ U_Fails(u)
      BY <2>1, <2>a, <2>t DEF U_FetchPolicy, U_FetchSig, U_Verify, U_CheckSerial, U_InspectSig,
                        U_InspectPolicy, U_Fails, Paired, files, history
    <2>2. CASE U_PersistSig(u)
      BY <2>2, <2>a, <2>t DEF U_PersistSig, Progress, BeforeRenames, Paired, files, history
    <2>3. CASE U_PersistPolicy(u)
      <3>0. upc[u] = "persist_policy"
        BY <2>3 DEF U_PersistPolicy
      <3>1. CASE upc'[u] = "rollback"
        <4>1. ~excused /\ UNCHANGED before
          BY <2>3, <2>t, <3>1 DEF U_PersistPolicy
        <4> QED BY <2>a, <3>0, <3>1, <4>1 DEF Paired
      <3>2. CASE upc'[u] = "lock_sig"
        <4>1. disk'["policy"] = new[u]["policy"] /\ disk'["sig"] = disk["sig"]
          BY <2>3, <2>t, <3>2 DEF U_PersistPolicy, Renames, TypeOK
        <4>2. /\ new[u]["sig"] = new[u]["policy"] /\ new[u]["policy"] \in Versions
              /\ disk["sig"] = new[u]["sig"]
          BY <3>0 DEF Progress
        <4> QED BY <3>2, <4>1, <4>2 DEF Paired
      <3> QED BY <2>3, <2>t, <3>1, <3>2 DEF U_PersistPolicy
    <2>4. CASE U_Rollback(u)
      <3>1. upc[u] = "rollback" /\ ~excused /\ disk'["policy"] = disk["policy"]
            /\ disk'["sig"] = prev[u] /\ UNCHANGED before
        BY <2>4 DEF U_Rollback, Renames, TypeOK
      <3>2. upc'[u] \notin BetweenRenames
        BY <2>4, <2>t DEF U_Rollback
      <3>3. before[u]["policy"] = disk["policy"] /\ before[u]["sig"] = prev[u]
        BY <3>1 DEF Progress
      <3>4. before[u] \in [Files -> Bytes] /\ disk' \in [Files -> Bytes]
        BY <1>t DEF TypeOK
      <3>5. disk' = before[u]
        BY <3>1, <3>3, <3>4, SameFiles
      <3> QED BY <2>a, <3>1, <3>2, <3>5 DEF Paired
    <2>5. CASE U_RollbackLock(u) \/ U_LockSig(u) \/ U_LockPolicy(u)
      BY <2>5, <2>a, <2>t DEF U_RollbackLock, U_LockSig, U_LockPolicy, Locks, Paired, files, history
    <2>6. CASE U_Crash(u)
      BY <2>6, <2>a, <2>t DEF U_Crash, Paired, files, history
    <2> QED BY <1>1, <2>1, <2>2, <2>3, <2>4, <2>5, <2>6 DEF Update
  <1>2. CASE Sign
    <2>a. /\ \A u \in Updaters : upc[u] = "idle" /\ upc'[u] = "idle"
          /\ before' = before
      BY <1>2, LocalAlone DEF updater, Sign, G_Read, G_Truncate, G_Write, G_Stops, history
    <2>b. ~excused => Paired(disk)
      BY <2>a DEF Pairing
    <2>1. CASE G_Read \/ G_Stops
      BY <2>1, <2>a, <2>b DEF G_Read, G_Stops, Pairing, Paired, files, history
    <2>2. CASE G_Truncate
      BY <2>2, <2>a, <2>b DEF G_Truncate, Pairing, Paired, files, TypeOK
    <2>3. CASE G_Write
      BY <2>3, <2>a DEF G_Write, Pairing, Paired, TypeOK
    <2> QED BY <1>2, <2>1, <2>2, <2>3 DEF Sign
  <1>3. CASE Install
    <2>a. /\ \A u \in Updaters : upc[u] = "idle" /\ upc'[u] = "idle"
          /\ gpc = "idle" /\ UNCHANGED <<gpc, disk, before, excused>>
      BY <1>3, LocalAlone, <1>q
         DEF updater, Install, K_ReadPolicy, K_Verify, K_Rejects, K_Fails, K_LockPolicy, K_LockSig,
             KGo, K_Unlock, K_UnlockPolicy, K_UnlockSig, K_Crash, Exclusion, Quiet,
             signer, Locks, Unlocks, files, history
    <2> QED BY <2>a DEF Pairing, Paired
  <1>4. CASE Edit
    BY <1>4, <1>q DEF Edit, Quiet, Pairing, signer
  <1>5. CASE UNCHANGED <<files, signer, upc, before, excused>>
    BY <1>5 DEF Pairing, Paired, files, signer
  <1> QED BY <1>1, <1>2, <1>3, <1>4, <1>5
          DEF Next, Finished, Load, L_ReadPolicy, L_Verify, Outside, Publish, vars, history, updater
-----------------------------------------------------------------------------
(* The locked pair                                                         *)

LEMMA SecuringStep ==
    ASSUME Alone, Alone', TypeOK, Exclusion, \A u \in Updaters : Progress(u), Pairing, Securing,
           [Next]_vars
    PROVE  Securing'
  <1>q. \A b \in {"command", "local"} : Starts(b) => Quiet
    BY StartsQuiet
  <1> USE VersionAssumption, Names, "policy" # "sig" DEF LockedPair, Matches
  <1>1. ASSUME NEW u \in Updaters, Update(u) PROVE Securing'
    <2>a. kpc' = "idle" /\ secured' = secured
      BY <1>1, UpdateAlone DEF locker
    <2> SUFFICES ASSUME secured PROVE UNCHANGED files
      BY <2>a DEF Securing, files
    <2>1. imm["policy"] /\ imm["sig"] /\ upc[u] \notin BetweenRenames \cup AfterRenames
      BY DEF Securing, Progress
    <2> QED BY <1>1, <2>1
            DEF Update, U_FetchPolicy, U_FetchSig, U_Verify, U_CheckSerial, U_InspectSig,
                U_InspectPolicy, U_PersistSig, U_PersistPolicy, U_Rollback, U_RollbackLock,
                U_LockSig, U_LockPolicy, U_Fails, U_Crash, At, Progress, BetweenRenames,
                AfterRenames
  <1>2. CASE Sign
    <2>a. kpc = "idle" /\ UNCHANGED <<locker, secured>>
      BY <1>2, <1>q DEF Sign, G_Read, G_Truncate, G_Write, G_Stops, Exclusion, Quiet, history
    <2> SUFFICES ASSUME secured PROVE UNCHANGED files
      BY <2>a DEF Securing, files, locker
    <2> QED BY <1>2
            DEF Securing, Pairing, Sign, G_Read, G_Truncate, G_Write, G_Stops
  <1>3. CASE K_ReadPolicy
    BY <1>3 DEF Securing, K_ReadPolicy, KGo, files, history
  <1>4. CASE K_Verify
    BY <1>4 DEF Securing, K_Verify, KGo, files, history
  <1>5. CASE K_Rejects \/ K_Fails \/ K_Crash
    BY <1>5 DEF Securing, K_Rejects, K_Fails, K_Crash, KGo, files, history
  <1>6. CASE K_LockPolicy
    BY <1>6, ZenonT(40) DEF Securing, K_LockPolicy, Locks, files, history, TypeOK
  <1>7. CASE K_LockSig
    BY <1>7, ZenonT(40) DEF Securing, K_LockSig, Locks, files, TypeOK
  <1>8. CASE K_Unlock
    BY <1>8 DEF Securing, K_Unlock, KGo
  <1>9. CASE K_UnlockPolicy \/ K_UnlockSig
    BY <1>9 DEF Securing, K_UnlockPolicy, K_UnlockSig, KGo, history
  <1>10. CASE Edit
    BY <1>10, <1>q DEF Securing, Edit, Quiet, locker
  <1>11. CASE UNCHANGED <<files, locker, secured>>
    BY <1>11 DEF Securing, files, locker
  <1> QED BY <1>1, <1>2, <1>3, <1>4, <1>5, <1>6, <1>7, <1>8, <1>9, <1>10, <1>11
          DEF Next, Finished, Load, L_ReadPolicy, L_Verify, Outside, Publish, vars, history,
              Install
-----------------------------------------------------------------------------
(* No way back behind an update                                            *)

\* The serial of the installed policy does not fall below that of the last update.
Kept ==
    ~blind /\ floor # "none"
      => disk["policy"] \in Versions /\ Serial[disk["policy"]] >= Serial[floor]

LEMMA KeptUpdate ==
    ASSUME TypeOK, NEW u \in Updaters, Progress(u), Kept, Update(u)
    PROVE  Kept'
  <1> USE VersionAssumption, Names, "policy" # "sig" DEF Kept, At, history
  <1>1. CASE U_PersistPolicy(u)
    <2>1. CASE UNCHANGED disk
      BY <1>1, <2>1 DEF U_PersistPolicy
    <2>2. CASE disk'["policy"] = new[u]["policy"]
      <3>1. /\ new[u]["policy"] \in Versions /\ Newer(u, blind) /\ UNCHANGED <<blind, floor>>
        BY <1>1 DEF U_PersistPolicy, Progress, BetweenRenames
      <3>2. \A v \in Versions : Serial[v] \in Int
        OBVIOUS
      <3>3. floor \in Versions \cup {"none"}
        BY DEF TypeOK
      <3> QED BY <2>2, <3>1, <3>2, <3>3 DEF Newer
    <2> QED BY <1>1, <2>1, <2>2 DEF U_PersistPolicy, Renames, files, TypeOK
  <1>2. CASE U_LockPolicy(u)
    <2>1. disk = new[u] /\ UNCHANGED disk /\ new[u]["policy"] \in Versions
      BY <1>2 DEF U_LockPolicy, Locks, files, Progress, AfterRenames
    <2>2. floor' \in {floor, new[u]["policy"]} /\ UNCHANGED blind
      BY <1>2 DEF U_LockPolicy
    <2>3. Serial[new[u]["policy"]] \in Int
      BY <2>1
    <2> QED BY <2>1, <2>2, <2>3
  <1>3. CASE U_PersistSig(u) \/ U_Rollback(u)
    BY <1>3 DEF U_PersistSig, U_Rollback, Renames, files, TypeOK
  <1>4. CASE U_FetchPolicy(u) \/ U_FetchSig(u) \/ U_Verify(u) \/ U_CheckSerial(u)
             \/ U_InspectSig(u) \/ U_InspectPolicy(u) \/ U_RollbackLock(u) \/ U_LockSig(u)
             \/ U_Fails(u) \/ U_Crash(u)
    BY <1>4 DEF U_FetchPolicy, U_FetchSig, U_Verify, U_CheckSerial, U_InspectSig, U_InspectPolicy,
                U_RollbackLock, U_LockSig, U_Fails, U_Crash, Locks, files
  <1> QED BY <1>1, <1>2, <1>3, <1>4 DEF Update

LEMMA FreshnessStep ==
    ASSUME Alone, Alone', TypeOK, Exclusion, \A u \in Updaters : Progress(u), Freshness, [Next]_vars
    PROVE  Freshness'
  <1> USE VersionAssumption, Names, "policy" # "sig" DEF Freshness
  <1>1. ASSUME NEW u \in Updaters, Update(u) PROVE Freshness'
    <2>0. CASE U_CheckSerial(u)
      BY <2>0 DEF U_CheckSerial, Kept, files, loader, TypeOK
    <2>1. CASE ~U_CheckSerial(u)
      <3>1. UNCHANGED <<loader, lfloor, blind>>
        BY <1>1, <2>1
           DEF Update, U_FetchPolicy, U_FetchSig, U_Verify, U_InspectSig, U_InspectPolicy,
               U_PersistSig, U_PersistPolicy, U_Rollback, U_RollbackLock, U_LockSig,
               U_LockPolicy, U_Fails, U_Crash, history
      <3>2. Kept'
        BY <1>1, KeptUpdate DEF Kept
      <3> QED BY <3>1, <3>2 DEF Kept, loader
    <2> QED BY <2>0, <2>1
  <1>2. CASE Sign
    BY <1>2, ZenonT(40) DEF Sign, G_Read, G_Truncate, G_Write, G_Stops, files, loader, history, TypeOK
  <1>3. CASE Install
    BY <1>3 DEF Install, K_ReadPolicy, K_Verify, K_Rejects, K_Fails, K_LockPolicy, K_LockSig,
                K_Unlock, K_UnlockPolicy, K_UnlockSig, K_Crash, Locks, Unlocks, files, loader, history
  <1>4. ASSUME NEW l \in Loaders, L_ReadPolicy(l) PROVE Freshness'
    <2>1. /\ lread' = [lread EXCEPT ![l] = disk["policy"]] /\ lfloor' = [lfloor EXCEPT ![l] = floor]
          /\ lpc' = [lpc EXCEPT ![l] = "sig"] /\ UNCHANGED <<disk, lres, blind, floor>>
          /\ lpc[l] = "start"
      BY <1>4 DEF L_ReadPolicy, files
    <2>2. lread \in [Loaders -> Bytes] /\ lfloor \in [Loaders -> Versions \cup {"none"}]
          /\ lpc \in [Loaders -> {"start", "sig", "done"}]
      BY DEF TypeOK
    <2> QED BY <2>1, <2>2
  <1>5. ASSUME NEW l \in Loaders, L_Verify(l) PROVE Freshness'
    BY <1>5 DEF L_Verify, files, history, TypeOK
  <1>6. CASE Edit
    BY <1>6 DEF Edit, loader
  <1>7. CASE UNCHANGED <<files, loader, blind, floor, lfloor>>
    BY <1>7 DEF files, loader
  <1> QED BY <1>1, <1>2, <1>3, <1>4, <1>5, <1>6, <1>7
          DEF Next, Finished, Load, Outside, Publish, vars, history

-----------------------------------------------------------------------------
(* The inductive invariant                                                 *)

LEMMA SerializedInit == Init => SerializedInv
  <1> SUFFICES ASSUME Init PROVE SerializedInv
    OBVIOUS
  <1> USE VersionAssumption, Names
  <1>1. TypeOK
    BY TypeInit
  <1>2. Exclusion
    BY DEF Init, Exclusion
  <1>3. \A u \in Updaters : Progress(u)
    BY IdleProgress DEF Init
  <1>4. Pairing
    BY DEF Init, Pairing, Paired, BetweenRenames
  <1>5. Securing
    BY DEF Init, Securing, LockedPair, Matches
  <1>6. Freshness
    BY DEF Init, Freshness
  <1> QED BY <1>1, <1>2, <1>3, <1>4, <1>5, <1>6 DEF SerializedInv

LEMMA SerializedStep ==
    ASSUME Alone, Alone', SerializedInv, [Next]_vars
    PROVE  SerializedInv'
  <1> USE DEF SerializedInv
  <1>1. TypeOK'
    BY TypeStep
  <1>2. Exclusion'
    BY ExclusionStep
  <1>3. (\A u \in Updaters : Progress(u))'
    BY ProgressStep
  <1>4. Pairing'
    BY PairingStep
  <1>5. Securing'
    BY SecuringStep
  <1>6. Freshness'
    BY FreshnessStep
  <1> QED BY <1>1, <1>2, <1>3, <1>4, <1>5, <1>6

LEMMA AloneStep == AloneInv /\ [Next]_vars => AloneInv'
  <1> SUFFICES ASSUME AloneInv, [Next]_vars PROVE AloneInv'
    OBVIOUS
  <1> USE DEF AloneInv
  <1>1. TypeOK' /\ Counted' /\ (Alone' => Alone)
    BY TypeStep, OverlapsStep
  <1>2. ASSUME Alone' PROVE SerializedInv'
    BY <1>1, <1>2, SerializedStep
  <1> QED BY <1>1, <1>2

\* As long as no commands overlap, what each command knows stays true while it runs.
THEOREM Invariance == Spec => []AloneInv
  <1>1. Init => AloneInv
    <2> SUFFICES ASSUME Init PROVE AloneInv
      OBVIOUS
    <2>1. budget["overlap"] = MaxOverlaps
      BY DEF Init, Bounds
    <2> QED BY <2>1, TypeInit, SerializedInit, BoundAssumption DEF AloneInv, Counted
  <1> QED BY <1>1, AloneStep, PTL DEF Spec

\* Between install and unlock the installed pair verifies and stays locked.
THEOREM Secured == Spec => []SecuredStays
  <1>1. AloneInv => SecuredStays
    BY DEF AloneInv, SerializedInv, Securing, SecuredStays
  <1> QED BY <1>1, Invariance, PTL

\* Between commands the two files belong together, unless a command was killed or
\* failed between its two writes or an edit is unsigned.
THEOREM Intact == Spec => []PairIntact
  <1>1. AloneInv => PairIntact
    BY DEF AloneInv, SerializedInv, Pairing, PairIntact, Paired, Matches, Quiet, BetweenRenames
  <1> QED BY <1>1, Invariance, PTL

\* After a successful update no gatekeeper starts on a policy of a lower serial.
THEOREM NotStale == Spec => []LoadNotStale
  <1>1. AloneInv => LoadNotStale
    BY VersionAssumption DEF AloneInv, SerializedInv, Freshness, LoadNotStale
  <1> QED BY <1>1, Invariance, PTL
-----------------------------------------------------------------------------
(* What a step of an update may do                                         *)

\* An update never replaces a readable policy by one of the same or a lower serial.
THEOREM NeverLower == Spec => NoDowngrade
  <1> DEFINE A == Alone' /\ UpdatesPolicy /\ ~blind => Raises
  <1>1. AloneInv /\ [Next]_vars => [A]_vars
    <2> SUFFICES ASSUME AloneInv, Next, Alone', UpdatesPolicy, ~blind PROVE Raises
      OBVIOUS
    <2>0. Alone /\ SerializedInv
      BY OverlapsStep DEF AloneInv
    <2> USE <2>0, VersionAssumption DEF SerializedInv, At
    <2>1. PICK u \in Updaters : upc[u] = "persist_policy" /\ upc'[u] # "persist_policy"
      BY DEF UpdatesPolicy
    <2>2. Update(u)
      <3>1. ASSUME NEW w \in Updaters, Update(w) PROVE w = u
        BY <2>1, <3>1, UpdateOwn
      <3>2. ~(Sign \/ Install \/ Edit) /\ upc' # upc
        BY <2>1, LocalAlone
      <3> QED BY <3>1, <3>2
              DEF Next, Finished, Load, L_ReadPolicy, L_Verify, Outside, Publish, vars, updater
    <2>3. U_PersistPolicy(u)
      BY <2>1, <2>2
         DEF UpdatesPolicy, Update, U_FetchPolicy, U_FetchSig, U_Verify, U_CheckSerial,
             U_InspectSig, U_InspectPolicy, U_PersistSig, U_Rollback, U_RollbackLock, U_LockSig,
             U_LockPolicy, U_Fails, U_Crash, files
    <2>4. disk'["policy"] = new[u]["policy"]
      BY <2>3, Names DEF UpdatesPolicy, U_PersistPolicy, Renames, files, TypeOK
    <2>5. new[u]["policy"] \in Versions /\ Newer(u, blind)
      BY <2>1 DEF Progress, BetweenRenames
    <2> QED BY <2>4, <2>5 DEF Raises, Newer
  <1> QED BY <1>1, Invariance, PTL DEF Spec, NoDowngrade
\* The action that ends an update is the update's own.
LEMMA EndsOwn ==
    ASSUME Alone, Alone', TypeOK, Exclusion, Next,
           NEW u \in Updaters, upc[u] # "idle", upc'[u] = "idle"
    PROVE  Update(u)
  <1>1. ASSUME NEW w \in Updaters, Update(w) PROVE w = u
    BY <1>1, UpdateOwn
  <1>2. ~(Sign \/ Install \/ Edit) /\ upc' # upc
    BY LocalAlone
  <1> QED BY <1>1, <1>2
          DEF Next, Finished, Load, L_ReadPolicy, L_Verify, Outside, Publish, vars, updater

\* An update that reports success has installed the pair it verified.
THEOREM OkInstalls == Spec => UpdateOkInstalls
  <1> DEFINE A == Alone' => \A u \in Updaters : Installs(u)
  <1>1. AloneInv /\ [Next]_vars => [A]_vars
    <2> SUFFICES ASSUME AloneInv, Next, Alone', NEW u \in Updaters, Ends(u, "ok")
                 PROVE  disk' = new[u] /\ Matches'
      BY DEF Installs
    <2>0. Alone /\ SerializedInv
      BY OverlapsStep DEF AloneInv
    <2> USE <2>0, VersionAssumption DEF SerializedInv, At, Go, Return
    <2>1. Update(u) /\ upc[u] # "idle" /\ upc'[u] = "idle" /\ ures'[u] = "ok"
      BY EndsOwn DEF Ends
    <2>2. upc \in [Updaters -> UPC] /\ ures \in [Updaters -> Results]
      BY DEF TypeOK
    <2>3. U_LockPolicy(u)
      BY <2>1, <2>2
         DEF Update, U_FetchPolicy, U_FetchSig, U_Verify, U_CheckSerial, U_InspectSig,
             U_InspectPolicy, U_PersistSig, U_PersistPolicy, U_Rollback, U_RollbackLock,
             U_LockSig, U_Fails, U_Crash
    <2>4. disk = new[u] /\ new[u]["sig"] = new[u]["policy"] /\ new[u]["policy"] \in Versions
      BY <2>3 DEF U_LockPolicy, Progress, AfterRenames
    <2>5. disk' = disk
      BY <2>3 DEF U_LockPolicy, Locks, files
    <2> QED BY <2>4, <2>5 DEF Matches
  <1> QED BY <1>1, Invariance, PTL DEF Spec, UpdateOkInstalls

\* An update that reports an error, other than a failed rollback, leaves the two
\* files as it found them.
THEOREM FailedRestores == Spec => FailedUpdateRestores
  <1> DEFINE A == Alone' => \A u \in Updaters : Restores(u)
  <1>1. AloneInv /\ [Next]_vars => [A]_vars
    <2> SUFFICES ASSUME AloneInv, Next, Alone', NEW u \in Updaters, Ends(u, "err")
                 PROVE  disk' = before[u]
      BY DEF Restores
    <2>0. Alone /\ SerializedInv
      BY OverlapsStep DEF AloneInv
    <2> USE <2>0, VersionAssumption, Names, "policy" # "sig" DEF SerializedInv, At, Go, Return
    <2>1. Update(u) /\ upc[u] # "idle" /\ upc'[u] = "idle" /\ ures'[u] = "err"
      BY EndsOwn DEF Ends
    <2>2. upc \in [Updaters -> UPC] /\ ures \in [Updaters -> Results]
      BY DEF TypeOK
    <2>3. CASE upc[u] \in BeforeRenames
      <3>1. disk' = disk
        BY <2>1, <2>2, <2>3
           DEF BeforeRenames, Update, U_FetchPolicy, U_FetchSig, U_Verify, U_CheckSerial,
               U_InspectSig, U_InspectPolicy, U_PersistSig, U_PersistPolicy, U_Rollback,
               U_RollbackLock, U_LockSig, U_LockPolicy, U_Fails, U_Crash, files
      <3> QED BY <2>3, <3>1 DEF Progress
    <2>4. CASE U_Rollback(u)
      <3>1. upc[u] = "rollback" /\ disk' = [disk EXCEPT !["sig"] = prev[u]]
        BY <2>1, <2>2, <2>4 DEF U_Rollback, Renames
      <3>2. before[u]["policy"] = disk["policy"] /\ before[u]["sig"] = prev[u]
        BY <3>1 DEF Progress, BetweenRenames
      <3>3. before[u] \in [Files -> Bytes] /\ disk' \in [Files -> Bytes]
        BY TypeStep DEF TypeOK
      <3>4. disk'["policy"] = disk["policy"] /\ disk'["sig"] = prev[u]
        BY <3>1 DEF TypeOK
      <3> QED BY <3>2, <3>3, <3>4, SameFiles
    <2>5. CASE U_LockPolicy(u)
      BY <2>1, <2>2, <2>5 DEF U_LockPolicy, Progress, AfterRenames
    <2>6. upc[u] # "rollback_lock"
      BY DEF Progress
    <2> QED BY <2>1, <2>2, <2>3, <2>4, <2>5, <2>6
            DEF BeforeRenames, Update, U_FetchPolicy, U_FetchSig, U_Verify, U_CheckSerial,
                U_InspectSig, U_InspectPolicy, U_PersistSig, U_PersistPolicy, U_RollbackLock,
                U_LockSig, U_Fails, U_Crash
  <1> QED BY <1>1, Invariance, PTL DEF Spec, FailedUpdateRestores

\* An update is all or nothing: it leaves the two files as it found them, or it
\* installs the pair it verified (install_update, restore_signature).
THEOREM AllOrNothing == Spec => UpdateAllOrNothing
  <1>1. /\ [Alone' => \A u \in Updaters : Restores(u)]_vars
        /\ [Alone' => \A u \in Updaters : Installs(u)]_vars
       => [Alone' => \A u \in Updaters : Restores(u) /\ Installs(u)]_vars
    OBVIOUS
  <1> QED
    BY <1>1, FailedRestores, OkInstalls, PTL
    DEF UpdateAllOrNothing, FailedUpdateRestores, UpdateOkInstalls
=============================================================================
