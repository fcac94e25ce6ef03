---------------------------- MODULE PolicyUpdate ----------------------------
(***************************************************************************)
(* The installed policy and its detached signature: two files that         *)
(*   update   secure-sudoers-utils/src/modules/network.rs  (Updaters)      *)
(*   sign     cmd_sign of secure-sudoers-utils/src/main.rs                 *)
(*   install, unlock   modules/installer.rs, policy.rs, immutable.rs       *)
(* write and lock, and that every run of the gatekeeper reads              *)
(* (secure-sudoers/src/helpers/policy.rs, Loaders).                        *)
(*                                                                         *)
(* A policy is a version; the bytes of a signature are the version they    *)
(* sign.  A step writes a file once or reads it; every command may be      *)
(* killed between two steps, and a system call may fail.                   *)
(***************************************************************************)
EXTENDS Integers, FiniteSets

CONSTANTS
    Versions,     \* policies the administrator signs, as the server or as sign does
    Serial,       \* their serial numbers
    Valid,        \* those that pass SecureSudoersPolicy::validate
    First,        \* the policy installed at the beginning
    Updaters,     \* runs of update that may overlap
    Loaders,      \* runs of the gatekeeper, each loads once
    MaxOverlaps,  \* bound: commands started while another one runs
    MaxCommands,  \* bound: updates, installs and unlocks started
    MaxLocal,     \* bound: edits and signings of the installed policy
    MaxFaults,    \* bound: system calls that fail
    MaxCrashes,   \* bound: commands killed
    MaxPublished  \* bound: policies published on the server

ASSUME VersionAssumption ==
    /\ {"none", "bad"} \cap Versions = {}
    /\ Serial \in [Versions -> Int]
    /\ Valid \subseteq Versions /\ First \in Valid
ASSUME BoundAssumption ==
    {MaxOverlaps, MaxCommands, MaxLocal, MaxFaults, MaxCrashes, MaxPublished} \subseteq Nat

Files == {"policy", "sig"}
Bytes == Versions \cup {"none", "bad"}  \* no such file, or half a signature

UPC == {"idle", "fetch_sig", "verify", "serial", "inspect_sig", "inspect_policy",
        "persist_sig", "persist_policy", "rollback", "rollback_lock", "lock_sig", "lock_policy"}
GPC == {"idle", "truncate", "write"}
KPC == {"idle", "read_sig", "lock_policy", "lock_sig", "lock_sig_err",
        "unlock_policy", "unlock_sig"}
Bounds == {"overlap", "command", "local", "fault", "crash", "publish"}
Results == {"none", "ok", "err", "rollback_err"}

VARIABLES
    disk,     \* contents of the two files
    imm,      \* their immutable flags
    srv,      \* what the server answers for the policy's URL and the signature's
    upc, new, prev, was, ures,  \* update: place, download, signature and flags
                                \* found, result
    gpc, gread,                 \* sign: place and policy read
    kpc, kread,                 \* install and unlock: place and policy read
    lpc, lread, lres,           \* a gatekeeper's load: place, policy read, result
    budget,
    (* history *)
    before,   \* the files as an update found them
    blind,    \* an update could not read the serial of the installed policy
    signed,   \* the versions a signature has been made of
    excused,  \* something happened after which the files need not match
    secured,  \* install has locked both files and unlock has not been started
    floor,    \* the policy of the last successful update
    lfloor    \* the same when a load started

files   == <<disk, imm>>
updater == <<upc, new, prev, was, ures>>
signer  == <<gpc, gread>>
locker  == <<kpc, kread>>
loader  == <<lpc, lread, lres>>
history == <<before, blind, signed, excused, secured, floor, lfloor>>
vars    == <<files, srv, updater, signer, locker, loader, budget, history>>

TypeOK ==
    /\ disk \in [Files -> Bytes] /\ disk["policy"] # "bad"
    /\ imm \in [Files -> BOOLEAN]
    /\ srv \in [Files -> Versions]
    /\ upc \in [Updaters -> UPC] /\ new \in [Updaters -> [Files -> Versions \cup {"none"}]]
    /\ prev \in [Updaters -> Bytes] /\ was \in [Updaters -> [Files -> BOOLEAN]]
    /\ ures \in [Updaters -> Results]
    /\ gpc \in GPC /\ gread \in Bytes /\ (gpc # "idle" => gread \in Versions)
    /\ kpc \in KPC /\ kread \in Bytes
    /\ lpc \in [Loaders -> {"start", "sig", "done"}] /\ lread \in [Loaders -> Bytes]
    /\ lres \in [Loaders -> Bytes]
    /\ budget \in [Bounds -> Nat]
    /\ before \in [Updaters -> [Files -> Bytes]] /\ blind \in BOOLEAN
    /\ signed \subseteq Versions /\ excused \in BOOLEAN /\ secured \in BOOLEAN
    /\ floor \in Versions \cup {"none"} /\ lfloor \in [Loaders -> Versions \cup {"none"}]

Nothing == [f \in Files |-> "none"]

\* A host without a policy, or with a signed one, locked by install or not.
Init ==
    /\ disk \in {Nothing, [f \in Files |-> First]}
    /\ secured \in BOOLEAN /\ (secured => disk # Nothing)
    /\ imm = [f \in Files |-> secured]
    /\ srv = [f \in Files |-> First]
    /\ upc = [u \in Updaters |-> "idle"] /\ new = [u \in Updaters |-> Nothing]
    /\ prev = [u \in Updaters |-> "none"] /\ was = [u \in Updaters |-> [f \in Files |-> FALSE]]
    /\ ures = [u \in Updaters |-> "none"]
    /\ gpc = "idle" /\ gread = "none" /\ kpc = "idle" /\ kread = "none"
    /\ lpc = [l \in Loaders |-> "start"]
    /\ lread = [l \in Loaders |-> "none"] /\ lres = [l \in Loaders |-> "none"]
    /\ budget = [b \in Bounds |->
                    CASE b = "overlap" -> MaxOverlaps
                      [] b = "command" -> MaxCommands [] b = "local" -> MaxLocal
                      [] b = "fault" -> MaxFaults
                      [] b = "crash" -> MaxCrashes [] OTHER -> MaxPublished]
    /\ before = [u \in Updaters |-> Nothing] /\ blind = FALSE
    /\ signed = {First} /\ excused = FALSE /\ floor = "none" /\ lfloor = [l \in Loaders |-> "none"]

Spend(b)   == budget[b] > 0 /\ budget' = [budget EXCEPT ![b] = @ - 1]
\* Either nothing fails, or a system call of this step does.
Fails(hit) == IF hit THEN Spend("fault") ELSE UNCHANGED budget

Quiet   == (\A u \in Updaters : upc[u] = "idle") /\ gpc = "idle" /\ kpc = "idle"

\* A command is started, possibly while another one runs.
Starts(b) ==
    \/ Quiet /\ Spend(b)
    \/ /\ ~Quiet /\ budget[b] > 0 /\ budget["overlap"] > 0
       /\ budget' = [budget EXCEPT ![b] = @ - 1, !["overlap"] = @ - 1]

\* The administrator has run one command at a time.
Alone == budget["overlap"] = MaxOverlaps

Matches == disk["policy"] \in Versions /\ disk["sig"] = disk["policy"]

-----------------------------------------------------------------------------
(* update                                                                  *)

At(u, from)  == upc[u] = from
Go(u, to)    == upc' = [upc EXCEPT ![u] = to] /\ UNCHANGED ures
Return(u, r) == upc' = [upc EXCEPT ![u] = "idle"] /\ ures' = [ures EXCEPT ![u] = r]

\* run_with_client: the policy is downloaded first
U_FetchPolicy(u) ==
    /\ At(u, "idle") /\ Starts("command")
    /\ Go(u, "fetch_sig")
    /\ new' = [new EXCEPT ![u]["policy"] = srv["policy"]]
    /\ before' = [before EXCEPT ![u] = disk]
    /\ UNCHANGED <<files, srv, prev, was, signer, locker, loader,
                   blind, signed, excused, secured, floor, lfloor>>

\* the signature is a second request
U_FetchSig(u) ==
    /\ At(u, "fetch_sig") /\ Go(u, "verify")
    /\ new' = [new EXCEPT ![u]["sig"] = srv["sig"]]
    /\ UNCHANGED <<files, srv, prev, was, signer, locker, loader, budget, history>>

\* Mistake: the signature of another version passes
U_VerifyUnpaired(u) ==
    /\ At(u, "verify")
    /\ IF new[u]["policy"] \in Valid THEN Go(u, "serial") ELSE Return(u, "err")
    /\ UNCHANGED <<files, srv, new, prev, was, signer, locker, loader, budget, history>>

U_Verify(u) ==
    /\ At(u, "verify")
    /\ IF new[u]["sig"] = new[u]["policy"] /\ new[u]["policy"] \in Valid
       THEN Go(u, "serial") ELSE Return(u, "err")
    /\ UNCHANGED <<files, srv, new, prev, was, signer, locker, loader, budget, history>>

\* Mistake: a policy of the same serial is accepted
NotOlder(u, blinded) ==
    disk["policy"] \in Versions /\ ~blinded
        => Serial[new[u]["policy"]] >= Serial[disk["policy"]]

\* The serial of the installed policy, if it can be read: its signature is not
\* looked at, and a policy that cannot be read sets no lower bound.
Newer(u, blinded) ==
    disk["policy"] \in Versions /\ ~blinded
        => Serial[new[u]["policy"]] > Serial[disk["policy"]]

U_CheckSerial(u) ==
    /\ At(u, "serial")
    /\ \E unreadable \in BOOLEAN :
          /\ Fails(unreadable)
          /\ blind' = (blind \/ unreadable)
          /\ IF Newer(u, unreadable) THEN Go(u, "inspect_sig") ELSE Return(u, "err")
    /\ UNCHANGED <<files, srv, new, prev, was, signer, locker, loader,
                   before, signed, excused, secured, floor, lfloor>>

\* install_update: what a rollback needs to know
U_InspectSig(u) ==
    /\ At(u, "inspect_sig") /\ Go(u, "inspect_policy")
    /\ prev' = [prev EXCEPT ![u] = disk["sig"]]
    /\ was' = [was EXCEPT ![u]["sig"] = disk["sig"] # "none" /\ imm["sig"]]
    /\ UNCHANGED <<files, srv, new, signer, locker, loader, budget, history>>

U_InspectPolicy(u) ==
    /\ At(u, "inspect_policy") /\ Go(u, "persist_sig")
    /\ was' = [was EXCEPT ![u]["policy"] = disk["policy"] # "none" /\ imm["policy"]]
    /\ UNCHANGED <<files, srv, new, prev, signer, locker, loader, budget, history>>

\* a request, an access to a file or the writing of the temporary files fails
U_Fails(u) ==
    /\ upc[u] \in {"fetch_sig", "verify", "inspect_sig", "inspect_policy", "persist_sig"}
    /\ Spend("fault") /\ Return(u, "err")
    /\ UNCHANGED <<files, srv, new, prev, was, signer, locker, loader, history>>

\* Mistake: a file that exists is kept
RenamesUnlessThere(f, bytes) ==
    /\ disk' = [disk EXCEPT ![f] = IF @ = "none" THEN bytes ELSE @]
    /\ imm' = [imm EXCEPT ![f] = FALSE]

\* rename of a temporary file, a new inode without flags, onto f
Renames(f, bytes) ==
    /\ disk' = [disk EXCEPT ![f] = bytes]
    /\ imm' = [imm EXCEPT ![f] = FALSE]

\* The kernel refuses to replace or to remove an immutable file.
U_PersistSig(u) ==
    /\ At(u, "persist_sig")
    /\ IF imm["sig"]
       THEN Return(u, "err") /\ UNCHANGED files
       ELSE Go(u, "persist_policy") /\ Renames("sig", new[u]["sig"])
    /\ UNCHANGED <<srv, new, prev, was, signer, locker, loader, budget, history>>

U_PersistPolicy(u) ==
    /\ At(u, "persist_policy")
    /\ \E hit \in BOOLEAN :
          /\ Fails(hit)
          /\ IF imm["policy"] \/ hit
             THEN Go(u, "rollback") /\ UNCHANGED files
             ELSE Go(u, "lock_sig") /\ Renames("policy", new[u]["policy"])
          /\ excused' = (excused /\ (imm["policy"] \/ hit))
    /\ UNCHANGED <<srv, new, prev, was, signer, locker, loader,
                   before, blind, signed, secured, floor, lfloor>>

\* Mistake: without a former signature the new one is left in place
U_RollbackForgetsAbsence(u) ==
    /\ At(u, "rollback") /\ UNCHANGED budget
    /\ IF imm["sig"] THEN Return(u, "rollback_err") /\ UNCHANGED files
       ELSE IF prev[u] = "none" THEN Return(u, "err") /\ UNCHANGED files
       ELSE Renames("sig", prev[u]) /\ Return(u, "err")
    /\ excused' = (excused \/ imm["sig"])
    /\ UNCHANGED <<srv, new, prev, was, signer, locker, loader,
                   before, blind, signed, secured, floor, lfloor>>

\* restore_signature: the former signature is put back, or the new one removed
U_Rollback(u) ==
    /\ At(u, "rollback")
    /\ \E hit \in BOOLEAN :
          /\ Fails(hit)
          /\ IF imm["sig"] \/ hit
             THEN Return(u, "rollback_err") /\ UNCHANGED files
             ELSE /\ Renames("sig", prev[u])
                  /\ IF was[u]["sig"] /\ prev[u] # "none"
                     THEN Go(u, "rollback_lock") ELSE Return(u, "err")
          /\ excused' = (excused \/ imm["sig"] \/ hit)
    /\ UNCHANGED <<srv, new, prev, was, signer, locker, loader,
                   before, blind, signed, secured, floor, lfloor>>

\* chattr_op("+i"): a missing file is an error, a flag already set is not
Locks(f) == imm' = [imm EXCEPT ![f] = disk[f] # "none"] /\ UNCHANGED disk

U_RollbackLock(u) ==
    /\ At(u, "rollback_lock")
    /\ \E hit \in BOOLEAN :
          /\ Fails(hit)
          /\ IF hit \/ disk["sig"] = "none"
             THEN Return(u, "rollback_err") /\ UNCHANGED files
             ELSE Return(u, "err") /\ Locks("sig")
    /\ UNCHANGED <<srv, new, prev, was, signer, locker, loader, history>>

\* restore_immutable_if_needed: both files are tried, then errors are reported
U_LockSig(u) ==
    /\ At(u, "lock_sig")
    /\ \E hit \in BOOLEAN :
          /\ Fails(hit)
          /\ IF was[u]["sig"] /\ ~hit THEN Locks("sig") ELSE UNCHANGED files
          /\ upc' = [upc EXCEPT ![u] = "lock_policy"]
          /\ ures' = [ures EXCEPT ![u] = IF was[u]["sig"] /\ (hit \/ disk["sig"] = "none")
                                         THEN "err" ELSE "ok"]
    /\ UNCHANGED <<srv, new, prev, was, signer, locker, loader, history>>

U_LockPolicy(u) ==
    /\ At(u, "lock_policy")
    /\ \E hit \in BOOLEAN :
          /\ Fails(hit)
          /\ IF was[u]["policy"] /\ ~hit THEN Locks("policy") ELSE UNCHANGED files
          /\ LET failed == \/ ures[u] = "err"
                           \/ was[u]["policy"] /\ (hit \/ disk["policy"] = "none")
             IN  /\ Return(u, IF failed THEN "err" ELSE "ok")
                 /\ floor' = IF failed THEN floor ELSE new[u]["policy"]
    /\ UNCHANGED <<srv, new, prev, was, signer, locker, loader,
                   before, blind, signed, excused, secured, lfloor>>

\* the process is killed; temporary files it leaves behind are never read
U_Crash(u) ==
    /\ ~At(u, "idle") /\ Spend("crash")
    /\ upc' = [upc EXCEPT ![u] = "idle"] /\ ures' = [ures EXCEPT ![u] = "none"]
    /\ excused' = (excused \/ upc[u] \in {"persist_policy", "rollback"})
    /\ UNCHANGED <<files, srv, new, prev, was, signer, locker, loader,
                   before, blind, signed, secured, floor, lfloor>>

Update(u) ==
    \/ U_FetchPolicy(u) \/ U_FetchSig(u) \/ U_Verify(u) \/ U_CheckSerial(u)
    \/ U_InspectSig(u) \/ U_InspectPolicy(u) \/ U_PersistSig(u) \/ U_PersistPolicy(u)
    \/ U_Rollback(u) \/ U_RollbackLock(u) \/ U_LockSig(u) \/ U_LockPolicy(u)
    \/ U_Fails(u) \/ U_Crash(u)

-----------------------------------------------------------------------------
(* sign: cmd_sign on the installed policy                                  *)

G_Read ==
    /\ gpc = "idle" /\ Starts("local") /\ disk["policy"] # "none"
    /\ gpc' = "truncate" /\ gread' = disk["policy"]
    /\ UNCHANGED <<files, srv, updater, locker, loader, history>>

\* open(O_TRUNC) of the signature; an immutable file cannot be opened for writing
G_Truncate ==
    /\ gpc = "truncate"
    /\ IF imm["sig"] THEN gpc' = "idle" /\ UNCHANGED <<files, excused>>
       ELSE /\ gpc' = "write" /\ excused' = TRUE
            /\ disk' = [disk EXCEPT !["sig"] = "bad"] /\ UNCHANGED imm
    /\ UNCHANGED <<gread, srv, updater, locker, loader, budget,
                   before, blind, signed, secured, floor, lfloor>>

G_Write ==
    /\ gpc = "write" /\ gpc' = "idle"
    /\ disk' = [disk EXCEPT !["sig"] = gread] /\ UNCHANGED imm
    /\ signed' = signed \cup {gread} /\ excused' = FALSE
    /\ UNCHANGED <<gread, srv, updater, locker, loader, budget,
                   before, blind, secured, floor, lfloor>>

\* write_all fails, or the process is killed
G_Stops ==
    /\ gpc # "idle" /\ gpc' = "idle" /\ (Spend("fault") \/ Spend("crash"))
    /\ UNCHANGED <<gread, files, srv, updater, locker, loader, history>>

Sign == G_Read \/ G_Truncate \/ G_Write \/ G_Stops

-----------------------------------------------------------------------------
(* install and unlock, as far as they concern the two files                *)

KGo(from, to) == kpc = from /\ kpc' = to

\* load_policy_with_verified_signature reads the policy, then its signature
K_ReadPolicy ==
    /\ KGo("idle", "read_sig") /\ Starts("command")
    /\ kread' = disk["policy"]
    /\ UNCHANGED <<files, srv, updater, signer, loader, history>>

\* Mistake: the signature is only looked at, not compared
K_SigPresent ==
    /\ KGo("read_sig", "lock_policy") /\ disk["sig"] # "none" /\ kread \in Valid
    /\ UNCHANGED <<kread, files, srv, updater, signer, loader, budget, history>>

K_Verify ==
    /\ KGo("read_sig", "lock_policy") /\ disk["sig"] = kread /\ kread \in Valid
    /\ UNCHANGED <<kread, files, srv, updater, signer, loader, budget, history>>

K_Rejects ==
    /\ KGo("read_sig", "idle") /\ ~(disk["sig"] = kread /\ kread \in Valid)
    /\ UNCHANGED <<kread, files, srv, updater, signer, loader, budget, history>>

\* chattr_op("+i") on the sorted targets: after a failure the next one is tried
K_LockPolicy ==
    /\ kpc = "lock_policy"
    /\ \E hit \in BOOLEAN :
          /\ Fails(hit)
          /\ IF hit THEN UNCHANGED files ELSE Locks("policy")
          /\ kpc' = IF hit \/ disk["policy"] = "none" THEN "lock_sig_err" ELSE "lock_sig"
    /\ UNCHANGED <<kread, srv, updater, signer, loader, history>>

K_LockSig ==
    /\ kpc \in {"lock_sig", "lock_sig_err"} /\ kpc' = "idle"
    /\ \E hit \in BOOLEAN :
          /\ Fails(hit)
          /\ IF hit THEN UNCHANGED files ELSE Locks("sig")
          /\ secured' = (kpc = "lock_sig" /\ ~hit /\ disk["sig"] # "none")
    /\ UNCHANGED <<kread, srv, updater, signer, loader,
                   before, blind, signed, excused, floor, lfloor>>

\* links or drop-in cannot be written: install returns before it locks anything
K_Fails ==
    /\ KGo("lock_policy", "idle") /\ Spend("fault")
    /\ UNCHANGED <<kread, files, srv, updater, signer, loader, history>>

\* unlock goes on whether or not the policy can be read
K_Unlock ==
    /\ KGo("idle", "unlock_policy") /\ Starts("command")
    /\ secured' = FALSE
    /\ UNCHANGED <<kread, files, srv, updater, signer, loader,
                   before, blind, signed, excused, floor, lfloor>>

\* chattr_op("-i"): a missing file is no error, after a failure the next one is tried
Unlocks(f) == imm' = [imm EXCEPT ![f] = FALSE] /\ UNCHANGED disk

K_UnlockPolicy ==
    /\ KGo("unlock_policy", "unlock_sig")
    /\ \E hit \in BOOLEAN : Fails(hit) /\ IF hit THEN UNCHANGED files ELSE Unlocks("policy")
    /\ UNCHANGED <<kread, srv, updater, signer, loader, history>>

K_UnlockSig ==
    /\ KGo("unlock_sig", "idle")
    /\ \E hit \in BOOLEAN : Fails(hit) /\ IF hit THEN UNCHANGED files ELSE Unlocks("sig")
    /\ UNCHANGED <<kread, srv, updater, signer, loader, history>>

K_Crash ==
    /\ kpc # "idle" /\ Spend("crash") /\ kpc' = "idle"
    /\ UNCHANGED <<kread, files, srv, updater, signer, loader, history>>

Install ==
    \/ K_ReadPolicy \/ K_Verify \/ K_Rejects \/ K_Fails \/ K_LockPolicy \/ K_LockSig
    \/ K_Unlock \/ K_UnlockPolicy \/ K_UnlockSig \/ K_Crash

-----------------------------------------------------------------------------
(* The gatekeeper: load_policy_with_pubkey                                 *)

L_ReadPolicy(l) ==
    /\ lpc[l] = "start" /\ lpc' = [lpc EXCEPT ![l] = "sig"]
    /\ lread' = [lread EXCEPT ![l] = disk["policy"]]
    /\ lfloor' = [lfloor EXCEPT ![l] = floor]
    /\ UNCHANGED <<files, srv, updater, signer, locker, lres, budget,
                   before, blind, signed, excused, secured, floor>>

\* Mistake: the policy is read again after its signature has been verified
L_VerifyThenRead(l) ==
    /\ lpc[l] = "sig" /\ lpc' = [lpc EXCEPT ![l] = "done"]
    /\ lres' = [lres EXCEPT ![l] =
                  IF disk["sig"] = lread[l] /\ lread[l] \in Valid THEN disk["policy"] ELSE "bad"]
    /\ UNCHANGED <<files, srv, updater, signer, locker, lread, budget, history>>

L_Verify(l) ==
    /\ lpc[l] = "sig" /\ lpc' = [lpc EXCEPT ![l] = "done"]
    /\ lres' = [lres EXCEPT ![l] =
                  IF disk["sig"] = lread[l] /\ lread[l] \in Valid THEN lread[l] ELSE "bad"]
    /\ UNCHANGED <<files, srv, updater, signer, locker, lread, budget, history>>

Load(l) == L_ReadPolicy(l) \/ L_Verify(l)

-----------------------------------------------------------------------------
(* The outside: the server and the administrator's editor                  *)

\* The publisher signs a policy and uploads the two files one after the other.
Publish(f) ==
    /\ \E v \in Versions :
          /\ f = "policy" => v # srv["policy"] /\ Spend("publish")
          /\ f = "sig" => v = srv["policy"] /\ v # srv["sig"] /\ UNCHANGED budget
          /\ srv' = [srv EXCEPT ![f] = v]
          /\ signed' = signed \cup {v}
    /\ UNCHANGED <<files, updater, signer, locker, loader,
                   before, blind, excused, secured, floor, lfloor>>

\* An edit of the installed policy supersedes what updates have installed and
\* is to be signed.
Edit ==
    /\ Starts("local") /\ ~imm["policy"]
    /\ \E v \in Versions : disk' = [disk EXCEPT !["policy"] = v]
    /\ excused' = TRUE /\ floor' = "none"
    /\ UNCHANGED <<imm, srv, updater, signer, locker, loader,
                   before, blind, signed, secured, lfloor>>

Outside == Edit \/ \E f \in Files : Publish(f)

\* No command is running and every load is over.
Finished == Quiet /\ (\A l \in Loaders : lpc[l] = "done") /\ UNCHANGED vars

Next ==
    \/ \E u \in Updaters : Update(u)
    \/ \E l \in Loaders : Load(l)
    \/ Sign \/ Install \/ Outside \/ Finished

Spec == Init /\ [][Next]_vars

-----------------------------------------------------------------------------
(* Safety                                                                  *)

\* A gatekeeper that loads a policy loads one that has been signed and is
\* valid, whatever is being written, edited or half done meanwhile.
LoadedWasSigned == \A l \in Loaders : lres[l] \in Versions => lres[l] \in signed \cap Valid

\* Between install and unlock the installed pair verifies and stays locked, if
\* commands run one at a time: no update, signing or edit gets past the immutable
\* flags, not even half way.
LockedPair == secured => Matches /\ disk["policy"] \in Valid /\ imm["policy"] /\ imm["sig"]
SecuredStays == Alone => LockedPair

\* An update that returns an error, other than a failed rollback, leaves the two
\* files as it found them.
Ends(u, r) == upc[u] # "idle" /\ upc'[u] = "idle" /\ ures'[u] = r
Restores(u) == Ends(u, "err") => disk' = before[u]
FailedUpdateRestores == [][Alone' => \A u \in Updaters : Restores(u)]_vars

\* An update that reports success has installed what it downloaded and verified,
\* and the two files belong together.
Installs(u) == Ends(u, "ok") => disk' = new[u] /\ Matches'
UpdateOkInstalls == [][Alone' => \A u \in Updaters : Installs(u)]_vars

\* An update is all or nothing, as far as its result tells, if commands run one at a time.
UpdateAllOrNothing == [][Alone' => \A u \in Updaters : Restores(u) /\ Installs(u)]_vars

\* When no command is running, and none has overlapped, the two files belong
\* together unless a command was killed or failed between its two writes, or an
\* edit has still to be signed.
PairIntact == Alone /\ Quiet /\ ~excused => Matches \/ disk = Nothing

Raises == disk["policy"] \in Versions =>
              disk'["policy"] \in Versions /\ Serial[disk'["policy"]] > Serial[disk["policy"]]
UpdatesPolicy ==
    /\ disk'["policy"] # disk["policy"]
    /\ \E u \in Updaters : At(u, "persist_policy") /\ ~At(u, "persist_policy")'

\* The serial of the installed policy only rises: an update never replaces a
\* policy by one of the same or a lower serial, if commands run one at a time and
\* the serial to compare with could be read (run_with_client turns an error into None).
NoDowngrade == [][Alone' /\ UpdatesPolicy /\ ~blind => Raises]_vars

\* The same for updates that overlap, as README.md:109 has it.
SerialOnlyRises == [][UpdatesPolicy /\ ~blind => Raises]_vars

\* Once an update has succeeded, no gatekeeper started afterwards runs on a policy
\* that the update superseded, if commands run one at a time.
LoadNotStale ==
    Alone /\ ~blind => \A l \in Loaders :
        lres[l] \in Versions /\ lfloor[l] # "none" => Serial[lres[l]] >= Serial[lfloor[l]]

-----------------------------------------------------------------------------
(* The inductive invariant behind the safety properties                    *)

\* Overlaps are counted down.
Counted == budget["overlap"] <= MaxOverlaps

\* One command at a time.
Exclusion ==
    /\ \A u, w \in Updaters : upc[u] # "idle" /\ upc[w] # "idle" => u = w
    /\ \A u \in Updaters : upc[u] # "idle" => gpc = "idle" /\ kpc = "idle"
    /\ gpc # "idle" => kpc = "idle"

\* Every signature in the system has been made of the version it claims.
Genuine ==
    /\ \A f \in Files : srv[f] \in signed
    /\ disk["sig"] \in signed \cup {"none", "bad"}
    /\ \A u \in Updaters : /\ new[u]["sig"] \in signed \cup {"none"}
                           /\ prev[u] \in signed \cup {"none", "bad"}
    /\ LoadedWasSigned

BeforeRenames == {"fetch_sig", "verify", "serial", "inspect_sig", "inspect_policy", "persist_sig"}
BetweenRenames == {"persist_policy", "rollback"}
AfterRenames == {"lock_sig", "lock_policy"}

\* What an update knows, and what it has changed, at each of its steps.
Progress(u) ==
    /\ upc[u] \in BeforeRenames => disk = before[u]
    /\ upc[u] \in {"inspect_sig", "inspect_policy", "persist_sig", "serial"}
                    \cup BetweenRenames \cup AfterRenames
         => new[u]["sig"] = new[u]["policy"] /\ new[u]["policy"] \in Valid
    /\ upc[u] \in {"inspect_sig", "inspect_policy", "persist_sig"} \cup BetweenRenames
         => Newer(u, blind)
    /\ upc[u] \in {"inspect_policy", "persist_sig"}
         => prev[u] = disk["sig"] /\ (was[u]["sig"] => imm["sig"])
    /\ upc[u] \in {"persist_sig"} \cup BetweenRenames => (was[u]["policy"] => imm["policy"])
    /\ upc[u] \in BetweenRenames =>
          /\ disk["policy"] = before[u]["policy"] /\ disk["sig"] = new[u]["sig"]
          /\ prev[u] = before[u]["sig"] /\ ~imm["sig"] /\ ~was[u]["sig"]
    /\ upc[u] # "rollback_lock"
    /\ upc[u] \in AfterRenames =>
          disk = new[u] /\ ~imm["sig"] /\ ~was[u]["sig"] /\ ~was[u]["policy"]
    /\ upc[u] = "lock_policy" => ures[u] = "ok"

\* The two files belong together, or did when the update between its renames started.
Paired(d) == d = Nothing \/ (d["policy"] \in Versions /\ d["sig"] = d["policy"])
Pairing ==
    /\ ~excused =>
          /\ (\A u \in Updaters : upc[u] \notin BetweenRenames) => Paired(disk)
          /\ \A u \in Updaters : upc[u] \in BetweenRenames => Paired(before[u])
    /\ gpc = "truncate" => gread = disk["policy"]
    /\ gpc = "write" => excused /\ gread = disk["policy"] /\ ~imm["sig"]

\* What install has verified is what it locks.
Securing ==
    /\ LockedPair
    /\ kpc \in {"read_sig", "lock_policy", "lock_sig", "lock_sig_err"} => kread = disk["policy"]
    /\ kpc \in {"lock_policy", "lock_sig", "lock_sig_err"} => Matches /\ kread \in Valid
    /\ kpc = "lock_sig" => imm["policy"]
    /\ kpc \in {"unlock_policy", "unlock_sig"} => ~secured

\* Nobody goes back behind a successful update.
Freshness ==
    /\ ~blind /\ floor # "none"
         => disk["policy"] \in Versions /\ Serial[disk["policy"]] >= Serial[floor]
    /\ \A l \in Loaders :
          /\ lres[l] \in {"none", "bad", lread[l]} /\ (lpc[l] = "start" => lres[l] = "none")
          /\ lpc[l] = "start" => lread[l] = "none"
          /\ ~blind /\ lfloor[l] # "none"
               => lread[l] \in Versions /\ Serial[lread[l]] >= Serial[lfloor[l]]

SerializedInv ==
    /\ TypeOK /\ Exclusion /\ (\A u \in Updaters : Progress(u))
    /\ Pairing /\ Securing /\ Freshness

\* What holds until the first overlap.
AloneInv == TypeOK /\ Counted /\ (Alone => SerializedInv)
=============================================================================
