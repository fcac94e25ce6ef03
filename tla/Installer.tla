------------------------------ MODULE Installer ------------------------------
(***************************************************************************)
(* install and unlock (secure-sudoers-utils/src/modules/installer.rs with  *)
(* links.rs, sudoers_io.rs, targets.rs and immutable.rs): the hard links   *)
(* to the gatekeeper in the entry-point directory, the backups of what     *)
(* they replace, the sudoers drop-in, and the immutable flags.             *)
(*                                                                         *)
(* A step is one system call that changes a file or decides how to go on.  *)
(* Every command may be killed between two steps, a call may fail, and     *)
(* the administrator changes policy, binary and foreign files in between.  *)
(***************************************************************************)
EXTENDS Naturals, FiniteSets

CONSTANTS
    Tool,       \* names a policy may define
    Build,      \* inodes of gatekeeper binaries, the present one and older ones
    Program,    \* inodes of users' own programs
    Proc,       \* install and unlock commands that may overlap
    NoFile,     \* nothing under a name
    PathOrder,  \* the position of a path in sorted order
    MaxFaults   \* bound: failing calls and killed commands

Fixed   == {"policy", "sig", "key", "dropin", "utils", "binary"}
Target  == Fixed \cup Tool
Foreign == Program \cup {"symlink", "dir"}  \* a user's file, a symbolic link, anything else
Kind    == Build \cup Foreign \cup {NoFile}
Inode   == Build \cup Foreign \cup Fixed

\* A sudoers file: the tools it names, whether all of it is written, who still writes.
File  == [tools : SUBSET Tool, whole : BOOLEAN, by : Proc \cup {NoFile}]
Place == {"idle", "open", "stat", "unlink", "backup", "link", "create", "write",
          "check", "rename", "cleanup", "lock", "unlock"}
Policy == [tools : SUBSET Tool, state : {"signed", "unsigned", "broken"}]

ASSUME NameAssumption ==
    /\ Build # {}
    /\ Tool \cap Fixed = {}
    /\ Build \cap (Foreign \cup Fixed) = {}
    /\ Program \cap (Fixed \cup {"symlink", "dir"}) = {}
    /\ NoFile \notin Build \cup Foreign \cup Fixed \cup Tool \cup Proc \cup File
ASSUME OrderAssumption == PathOrder \in [Target -> Nat]
ASSUME FaultAssumption == MaxFaults \in Nat

VARIABLES
    policy,     \* policy.json: its tools; signed and valid, only readable, or broken
    binary,     \* the inode of the managed binary
    entry,      \* what has the name of a tool in the entry-point directory
    bak,        \* what has the name <tool>.bak
    dropin,     \* the sudoers drop-in
    tmp,        \* its temporary file, the same name for every install
    immutable,  \* the inodes whose immutable flag is set
    pc, tool,   \* of each command: place, tool in hand,
    todo, done, \*   tools or paths it has still to treat, tools it has linked,
    err,        \*   whether it has recorded an error
    (* bound and history *)
    faults,
    clean,      \* install met everything unlocked and supported, and no call of it failed
    leftover    \* a crash or a failed removal left the temporary file behind

files == <<policy, binary, entry, bak, dropin, tmp, immutable>>
local == <<pc, tool, todo, done, err>>
bound == <<faults, clean, leftover>>
vars  == <<files, local, bound>>

TypeOK ==
    /\ policy \in Policy
    /\ binary \in Build
    /\ entry \in [Tool -> Kind] /\ bak \in [Tool -> Kind]
    /\ dropin \in File \cup {NoFile} /\ tmp \in File \cup {NoFile}
    /\ immutable \subseteq Inode
    /\ pc \in [Proc -> Place] /\ tool \in [Proc -> Tool \cup {NoFile}]
    /\ todo \in [Proc -> SUBSET Target] /\ done \in [Proc -> SUBSET Tool]
    /\ err \in [Proc -> BOOLEAN]
    /\ faults \in Nat /\ clean \in [Proc -> BOOLEAN] /\ leftover \in BOOLEAN

\* A host on which the program has never been installed.
Init ==
    /\ policy \in [tools : SUBSET Tool, state : {"signed"}] /\ binary \in Build
    /\ entry \in [Tool -> Foreign \cup {NoFile}]
    /\ bak = [t \in Tool |-> NoFile]
    /\ dropin = NoFile /\ tmp = NoFile /\ immutable = {}
    /\ pc = [p \in Proc |-> "idle"] /\ tool = [p \in Proc |-> NoFile]
    /\ todo = [p \in Proc |-> {}] /\ done = [p \in Proc |-> {}]
    /\ err = [p \in Proc |-> FALSE]
    /\ faults = 0 /\ clean = [p \in Proc |-> FALSE] /\ leftover = FALSE

-----------------------------------------------------------------------------
(* Steps and failures.                                                     *)

Goto(p, place) == pc' = [pc EXCEPT ![p] = place]
At(p, place)   == pc[p] = place
Error(p)       == err' = [err EXCEPT ![p] = TRUE]

\* The paths and the tools are treated in sorted order.
First(p, t) == t \in todo[p] /\ \A u \in todo[p] : PathOrder[t] <= PathOrder[u]
Drop(p, t)  == todo' = [todo EXCEPT ![p] = @ \ {t}]

Fails(p) ==
    /\ faults < MaxFaults /\ faults' = faults + 1
    /\ clean' = [clean EXCEPT ![p] = FALSE]
Works == UNCHANGED <<faults, clean>>

\* A call is refused for a reason in the files, or fails for another one.
Refused(p, reason) == (reason /\ Works) \/ Fails(p)

Forget(p) ==
    /\ Goto(p, "idle")
    /\ tool' = [tool EXCEPT ![p] = NoFile]
    /\ todo' = [todo EXCEPT ![p] = {}] /\ done' = [done EXCEPT ![p] = {}]
    /\ err' = [err EXCEPT ![p] = FALSE]
    /\ clean' = [clean EXCEPT ![p] = FALSE]

-----------------------------------------------------------------------------
(* install: the hard links.                                                *)

\* What keeps a name from being linked: a directory, or a hard link to its own
\* backup, which rename leaves where it is.
Bars(t) == entry[t] = "dir" \/ (entry[t] \in Program /\ entry[t] = bak[t])

\* install_with_paths_and_pubkey: a policy that is not signed and valid
\* changes nothing, so that run is left out.
I_Load(p) ==
    /\ At(p, "idle") /\ policy.state = "signed"
    /\ Goto(p, "open")
    /\ todo' = [todo EXCEPT ![p] = policy.tools]
    /\ clean' = [clean EXCEPT ![p] = /\ immutable = {} /\ ~leftover
                                     /\ \A t \in policy.tools : ~Bars(t)]
    /\ UNCHANGED <<files, tool, done, err, faults, leftover>>

\* The binary or the directory cannot be used: no tool is linked, and install goes on.
I_Open(p) ==
    /\ At(p, "open")
    /\ \/ Goto(p, "stat") /\ Works /\ UNCHANGED <<todo, err>>
       \/ /\ Fails(p) /\ Goto(p, "create") /\ Error(p)
          /\ todo' = [todo EXCEPT ![p] = {}]
    /\ UNCHANGED <<files, tool, done, leftover>>

Linked(p, t) ==
    /\ Goto(p, "stat") /\ Drop(p, t)
    /\ done' = [done EXCEPT ![p] = @ \cup {t}]
    /\ UNCHANGED err
Skipped(p, t) ==
    /\ Goto(p, "stat") /\ Drop(p, t) /\ Error(p)
    /\ UNCHANGED done

\* How a name is freed: a link is removed, a file is kept.
Replace(kind) == IF kind = "symlink" THEN "unlink"
                 ELSE IF kind = NoFile THEN "link" ELSE "backup"

\* An entry whose inode is one of links is a link that exists.
Treat(p, links) ==
    /\ At(p, "stat")
    /\ \E t \in Tool :
        /\ First(p, t)
        /\ tool' = [tool EXCEPT ![p] = t]
        /\ \/ entry[t] \in links /\ Linked(p, t) /\ Works
           \/ Refused(p, entry[t] = "dir") /\ Skipped(p, t)
           \/ /\ entry[t] \notin links \cup {"dir"} /\ Works
              /\ Goto(p, Replace(entry[t]))
              /\ UNCHANGED <<todo, done, err>>
    /\ UNCHANGED <<files, leftover>>

\* Mistake: any regular file counts as foreign.
L_StatWithoutIdentity(p) == Treat(p, {})
\* Mistake: a link to any build counts as the link to the present one.
L_StatAnyBuild(p) == Treat(p, Build)

L_Stat(p) == Treat(p, {binary})

L_Unlink(p) ==
    LET t == tool[p] IN
    /\ At(p, "unlink")
    /\ \/ /\ entry[t] \notin immutable \cup {NoFile, "dir"} /\ Works
          /\ entry' = [entry EXCEPT ![t] = NoFile]
          /\ Goto(p, "link") /\ UNCHANGED <<todo, done, err>>
       \/ /\ Refused(p, entry[t] \in immutable \cup {NoFile, "dir"})
          /\ Skipped(p, t) /\ UNCHANGED entry
    /\ UNCHANGED <<policy, binary, bak, dropin, tmp, immutable, tool, leftover>>

\* rename refuses an immutable source or target, and does nothing between
\* two links to the same inode.
SameInode(a, b) == a = b /\ a \in Build \cup Program
CannotRename(a, b) == a = NoFile \/ a \in immutable \/ b \in immutable

L_Backup(p) ==
    LET t == tool[p] IN
    /\ At(p, "backup")
    /\ \/ /\ ~CannotRename(entry[t], bak[t]) /\ Works
          /\ IF SameInode(entry[t], bak[t])
             THEN UNCHANGED <<entry, bak>>
             ELSE /\ bak' = [bak EXCEPT ![t] = entry[t]]
                  /\ entry' = [entry EXCEPT ![t] = NoFile]
          /\ Goto(p, "link") /\ UNCHANGED <<todo, done, err>>
       \/ /\ Refused(p, CannotRename(entry[t], bak[t]))
          /\ Skipped(p, t) /\ UNCHANGED <<entry, bak>>
    /\ UNCHANGED <<policy, binary, dropin, tmp, immutable, tool, leftover>>

\* linkat refuses a name in use and an immutable source.
CannotLink(t) == entry[t] # NoFile \/ binary \in immutable

L_Link(p) ==
    LET t == tool[p] IN
    /\ At(p, "link")
    /\ \/ /\ ~CannotLink(t) /\ Works
          /\ entry' = [entry EXCEPT ![t] = binary]
          /\ Linked(p, t)
       \/ Refused(p, CannotLink(t)) /\ Skipped(p, t) /\ UNCHANGED entry
    /\ UNCHANGED <<policy, binary, bak, dropin, tmp, immutable, tool, leftover>>

-----------------------------------------------------------------------------
(* install: the sudoers drop-in.  The guard that removes the temporary     *)
(* file is armed before the file is created ("cleanup").                   *)

\* Mistake: every tool of the policy.
ContentAll(p) == policy.tools

\* The tools the drop-in is written for.
Content(p) == done[p]

D_Begin(p) ==
    /\ At(p, "stat") /\ todo[p] = {}
    /\ Goto(p, "create")
    /\ UNCHANGED <<files, tool, todo, done, err, bound>>

\* The directory cannot be opened: install returns before the guard exists.
D_NoDirectory(p) ==
    /\ At(p, "create") /\ faults < MaxFaults /\ faults' = faults + 1
    /\ Forget(p)
    /\ UNCHANGED <<files, leftover>>

D_Create(p) ==
    /\ At(p, "create")
    /\ \/ /\ tmp = NoFile /\ Works /\ Goto(p, "write")
          /\ tmp' = [tools |-> {}, whole |-> FALSE, by |-> p]
       \/ Refused(p, tmp # NoFile) /\ Goto(p, "cleanup") /\ UNCHANGED tmp
    /\ UNCHANGED <<policy, binary, entry, bak, dropin, immutable>>
    /\ UNCHANGED <<tool, todo, done, err, leftover>>

Closed(f, p)    == IF f # NoFile /\ f.by = p THEN [f EXCEPT !.by = NoFile] ELSE f
Filled(f, p, s) == IF f # NoFile /\ f.by = p
                   THEN [tools |-> s, whole |-> TRUE, by |-> NoFile] ELSE f

\* The descriptor reaches the file even if it has been removed or renamed.
Write(p, onFailure) ==
    /\ At(p, "write")
    /\ \/ /\ Works /\ Goto(p, "check")
          /\ tmp' = Filled(tmp, p, Content(p)) /\ dropin' = Filled(dropin, p, Content(p))
       \/ /\ Fails(p) /\ Goto(p, onFailure)
          /\ tmp' = Closed(tmp, p) /\ dropin' = Closed(dropin, p)
    /\ UNCHANGED <<policy, binary, entry, bak, immutable, tool, todo, done, err, leftover>>

\* Mistake: a failed write is ignored.
D_WriteIgnored(p) == Write(p, "check")

D_Write(p) == Write(p, "cleanup")

\* visudo accepts a whole file, and may accept half a one.
D_Check(p) ==
    /\ At(p, "check")
    /\ \/ tmp # NoFile /\ Works /\ Goto(p, "rename")
       \/ Refused(p, tmp # NoFile => ~tmp.whole) /\ Goto(p, "cleanup")
    /\ UNCHANGED <<files, tool, todo, done, err, leftover>>

\* Mistake: the links only, which share the inode of the binary.
LinkTargets(tools) == (Fixed \ {"binary"}) \cup tools
\* managed_targets: what install locks and unlock unlocks.
ManagedTargets(tools) == Fixed \cup tools

D_Rename(p) ==
    /\ At(p, "rename")
    /\ \/ /\ tmp # NoFile /\ "dropin" \notin immutable /\ Works
          /\ dropin' = tmp /\ tmp' = NoFile /\ Goto(p, "lock")
          /\ todo' = [todo EXCEPT ![p] = ManagedTargets(done[p])]
          /\ leftover' = FALSE
       \/ /\ Refused(p, tmp = NoFile \/ "dropin" \in immutable)
          /\ Goto(p, "cleanup") /\ UNCHANGED <<dropin, tmp, todo, leftover>>
    /\ UNCHANGED <<policy, binary, entry, bak, immutable, tool, done, err>>

\* Mistake: the guard is disarmed as soon as the file is written.
G_CleanupDisarmed(p) ==
    /\ At(p, "cleanup") /\ Forget(p)
    /\ UNCHANGED <<files, faults, leftover>>

\* TempFileCleanupGuard::drop; install returns the error.
G_Cleanup(p) ==
    /\ At(p, "cleanup")
    /\ \/ tmp' = NoFile /\ leftover' = FALSE /\ UNCHANGED faults
       \/ /\ faults < MaxFaults /\ faults' = faults + 1
          /\ leftover' = (tmp # NoFile) /\ UNCHANGED tmp
    /\ Forget(p)
    /\ UNCHANGED <<policy, binary, entry, bak, dropin, immutable>>

-----------------------------------------------------------------------------
(* The immutable flags, which belong to inodes: every link to the binary   *)
(* shares its flag.                                                        *)

InodeOf(t) ==
    CASE t \in Tool   -> entry[t]
      [] t = "binary" -> binary
      [] t = "dropin" -> IF dropin = NoFile THEN NoFile ELSE "dropin"
      [] OTHER        -> t

\* Mistake: failures are warnings only.
K_LockWarns(p) ==
    /\ At(p, "lock")
    /\ \E t \in Target :
        /\ First(p, t) /\ Drop(p, t)
        /\ \/ /\ InodeOf(t) \notin {NoFile, "symlink"} /\ Works
              /\ immutable' = immutable \cup {InodeOf(t)}
           \/ /\ Refused(p, InodeOf(t) \in {NoFile, "symlink"})
              /\ UNCHANGED immutable
    /\ UNCHANGED <<policy, binary, entry, bak, dropin, tmp, pc, tool, done, err, leftover>>

\* chattr_op("+i"): a missing file or a symbolic link is an error.
K_Lock(p) ==
    /\ At(p, "lock")
    /\ \E t \in Target :
        /\ First(p, t) /\ Drop(p, t)
        /\ \/ /\ InodeOf(t) \notin {NoFile, "symlink"} /\ Works
              /\ immutable' = immutable \cup {InodeOf(t)} /\ UNCHANGED err
           \/ /\ Refused(p, InodeOf(t) \in {NoFile, "symlink"})
              /\ Error(p) /\ UNCHANGED immutable
    /\ UNCHANGED <<policy, binary, entry, bak, dropin, tmp, pc, tool, done, leftover>>

\* chattr_op("-i"): a missing file is none to unlock.
K_Unlock(p) ==
    /\ At(p, "unlock")
    /\ \E t \in Target :
        /\ First(p, t) /\ Drop(p, t)
        /\ \/ /\ InodeOf(t) # "symlink" /\ Works
              /\ immutable' = immutable \ {InodeOf(t)} /\ UNCHANGED err
           \/ /\ Refused(p, InodeOf(t) = "symlink")
              /\ Error(p) /\ UNCHANGED immutable
    /\ UNCHANGED <<policy, binary, entry, bak, dropin, tmp, pc, tool, done, leftover>>

\* install and unlock return, Ok unless err[p].
K_End(p) ==
    /\ pc[p] \in {"lock", "unlock"} /\ todo[p] = {}
    /\ Forget(p)
    /\ UNCHANGED <<files, faults, leftover>>

\* The links found by inode when the policy cannot be parsed.
Discovered == {t \in Tool : entry[t] = binary}

U_Load(p) ==
    /\ At(p, "idle") /\ Goto(p, "unlock")
    /\ \E tools \in (IF policy.state = "broken" THEN {Discovered, {}} ELSE {policy.tools}) :
          todo' = [todo EXCEPT ![p] = ManagedTargets(tools)]
    /\ UNCHANGED <<files, tool, done, err, bound>>

\* The command is killed; its descriptors close.
Crash(p) ==
    /\ pc[p] # "idle" /\ faults < MaxFaults /\ faults' = faults + 1
    /\ Forget(p)
    /\ tmp' = Closed(tmp, p) /\ dropin' = Closed(dropin, p)
    /\ leftover' = (tmp # NoFile)
    /\ UNCHANGED <<policy, binary, entry, bak, immutable>>

-----------------------------------------------------------------------------
(* The administrator, between two commands.                                *)

Quiet == \A p \in Proc : At(p, "idle")

EditPolicy ==
    /\ Quiet /\ "policy" \notin immutable
    /\ policy' \in Policy
    /\ UNCHANGED <<binary, entry, bak, dropin, tmp, immutable, local, bound>>

\* update replaces the policy of a locked installation and locks it again.
UpdatePolicy ==
    /\ Quiet
    /\ policy' \in [tools : SUBSET Tool, state : {"signed"}]
    /\ immutable' = immutable \cup {"policy", "sig"}
    /\ UNCHANGED <<binary, entry, bak, dropin, tmp, local, bound>>

\* A new binary is a new inode; the links keep the old one.
Upgrade ==
    /\ Quiet /\ binary \notin immutable
    /\ \E b \in Build :
        /\ b # binary /\ \A t \in Tool : b \notin {entry[t], bak[t]}
        /\ binary' = b /\ immutable' = immutable \ {b}
    /\ UNCHANGED <<policy, entry, bak, dropin, tmp, local, bound>>

\* Another program is put where the drop-in in force names none.
PutFile(t) ==
    /\ Quiet /\ entry[t] \notin immutable
    /\ dropin # NoFile => t \notin dropin.tools
    /\ \E k \in Foreign \cup {NoFile} : entry' = [entry EXCEPT ![t] = k]
    /\ UNCHANGED <<policy, binary, bak, dropin, tmp, immutable, local, bound>>

Step(p) ==
    \/ I_Load(p)   \/ I_Open(p)   \/ L_Stat(p)   \/ L_Unlink(p) \/ L_Backup(p) \/ L_Link(p)
    \/ D_Begin(p)  \/ D_NoDirectory(p) \/ D_Create(p) \/ D_Write(p) \/ D_Check(p)
    \/ D_Rename(p) \/ G_Cleanup(p) \/ K_Lock(p) \/ K_Unlock(p) \/ K_End(p) \/ U_Load(p)
    \/ Crash(p)
Administer == EditPolicy \/ UpdatePolicy \/ Upgrade \/ \E t \in Tool : PutFile(t)

Next == (\E p \in Proc : Step(p)) \/ Administer
Spec == Init /\ [][Next]_vars

-----------------------------------------------------------------------------
(* Properties.                                                             *)

\* What sudo grants as root is the gatekeeper: a path the drop-in names leads to
\* a link to a gatekeeper or to nothing, never to another program, whatever
\* failed, was killed or overlapped (install_tool_links_to, write_sudoers_file_to).
NamedAreGatekeepers ==
    dropin # NoFile => \A t \in dropin.tools : entry[t] \in Build \cup {NoFile}

\* While drop-in and binary are locked, every path the drop-in names is a link
\* to the present binary, even if earlier installs failed or were killed
\* halfway, and the policy or the binary was replaced between them.
Sealed ==
    {"dropin", binary} \subseteq immutable =>
        \A t \in dropin.tools : entry[t] = binary

\* install that returns Ok has installed the policy: a complete drop-in naming its
\* tools, all of them linked to the binary, and everything managed is locked.
InstallOkComplete ==
    \A p \in Proc : At(p, "lock") /\ todo[p] = {} /\ ~err[p] =>
        /\ dropin.whole /\ dropin.tools = policy.tools
        /\ \A t \in policy.tools : entry[t] = binary
        /\ (Fixed \ {"binary"}) \cup {binary} \subseteq immutable

\* unlock that returns Ok leaves nothing managed locked, links included that the
\* present policy does not name, even if the policy has changed or is broken.
UnlockOkFrees ==
    \A p \in Proc : At(p, "unlock") /\ todo[p] = {} /\ ~err[p] => immutable = {}

\* However earlier commands ended, install succeeds once everything is unlocked,
\* nothing bars a name (a directory, a hard link to its own backup), no call fails,
\* and no crash has left the temporary file behind (README: "run unlock, correct the issue, and re-run install").
ReinstallSucceeds ==
    \A p \in Proc : clean[p] => ~At(p, "cleanup") /\ ~err[p]

\* The drop-in in force is never half a file (rename after write and sync).
DropInWhole == dropin # NoFile => dropin.whole

\* Commands never lose a user's program from its name, and its backup only when
\* another file is at the name to be backed up over it: another program the user
\* has put there since, or, after an upgrade of the binary, the old link.  The
\* present link, which most installs meet, is never moved there (links.rs).
UserFileKept ==
    [][\A t \in Tool, u \in Program :
        u \in {entry[t], bak[t]} /\ u \notin {entry'[t], bak'[t]} =>
            \/ Quiet
            \/ bak[t] = u /\ entry[t] \in (Program \ {u}) \cup (Build \ {binary})]_vars

-----------------------------------------------------------------------------
(* Why NamedAreGatekeepers holds: the inductive invariant of the proofs.    *)

AsRoot(tools) == \A t \in tools : entry[t] \in Build \cup {NoFile}

\* The tool in hand is one of the policy's.
Holding == \A p \in Proc : pc[p] \in {"unlink", "backup", "link"} => tool[p] \in Tool

\* What a command has linked stays a link to a gatekeeper, or is gone.
DoneLinked ==
    \A p \in Proc : AsRoot(done[p]) /\ (At(p, "idle") => done[p] = {})

\* So do the tools a temporary file names, as long as it may be renamed.
TmpLinked ==
    (\E p \in Proc : pc[p] \in {"write", "check", "rename"}) /\ tmp # NoFile => AsRoot(tmp.tools)

\* The parts hold together, for any number of overlapping commands.
InstallerInv == TypeOK /\ Holding /\ DoneLinked /\ TmpLinked /\ NamedAreGatekeepers
-----------------------------------------------------------------------------
(* Why the other properties hold for one command at a time.                 *)

OneCommand == \A p, q \in Proc : p = q

\* The drop-in in force is whole, and nobody has it open.
Written == dropin # NoFile => dropin.whole /\ dropin.by = NoFile

\* Only managed files are locked, and the drop-in only if there is one.
Locked ==
    /\ immutable \subseteq (Fixed \ {"binary"}) \cup {binary}
    /\ "dropin" \in immutable => dropin # NoFile

\* What a command has linked is linked to the present binary, and unless it has
\* recorded an error it has linked, or has still to link, what the policy names.
Linking(p) ==
    /\ At(p, "idle") => done[p] = {} /\ ~err[p]
    /\ At(p, "open") => done[p] = {} /\ todo[p] = policy.tools
    /\ pc[p] \in {"stat", "unlink", "backup", "link"} =>
          done[p] \cap todo[p] = {} /\ (~err[p] => done[p] \cup todo[p] = policy.tools)
    /\ pc[p] \in {"unlink", "backup", "link"} => tool[p] \in todo[p]
    /\ pc[p] \in {"create", "write", "check", "rename", "lock"} /\ ~err[p] => done[p] = policy.tools
    /\ pc[p] \notin {"idle", "unlock"} => \A t \in done[p] : entry[t] = binary

\* The temporary file is the command's own until it becomes the drop-in.
Writing(p) ==
    /\ At(p, "write") => tmp # NoFile /\ tmp.by = p
    /\ pc[p] \in {"check", "rename"} =>
          tmp # NoFile /\ tmp.whole /\ tmp.by = NoFile /\ tmp.tools = done[p]

\* What has been treated is locked, and what is locked has still to be unlocked.
Locking(p) ==
    /\ At(p, "lock") =>
          /\ dropin # NoFile /\ dropin.tools = done[p] /\ todo[p] \subseteq ManagedTargets(done[p])
          /\ ~err[p] => \A t \in ManagedTargets(done[p]) \ todo[p] : InodeOf(t) \in immutable
    /\ At(p, "unlock") /\ ~err[p] =>
          \A i \in immutable : \E t \in todo[p] \cap Fixed : InodeOf(t) = i

SerialInv ==
    /\ Written /\ Locked /\ Sealed
    /\ \A p \in Proc : Linking(p) /\ Writing(p) /\ Locking(p)

\* What the command found under the name in hand is what it still has there.
InHand(p) ==
    /\ At(p, "unlink") => entry[tool[p]] = "symlink"
    /\ At(p, "backup") => entry[tool[p]] \in Program \cup (Build \ {binary})
    /\ At(p, "link") => entry[tool[p]] = NoFile \/ Bars(tool[p])

\* A backup is never a link to the present binary, nor one to the build its tool
\* is linked to: a rename between two links to one inode would do nothing.
Backups == \A t \in Tool : bak[t] # binary /\ (bak[t] \in Build => bak[t] # entry[t])

\* A temporary file without a command that cleans it up has been left behind.
Leftover(p) ==
    tmp # NoFile => leftover \/ pc[p] \in {"write", "check", "rename", "cleanup"}

\* An install that started clean has nothing in its way.
Clean(p) ==
    clean[p] =>
        /\ pc[p] \notin {"idle", "unlock", "cleanup"} /\ ~err[p]
        /\ pc[p] # "lock" => immutable = {}
        /\ pc[p] \in {"open", "stat", "unlink", "backup", "link", "create"} => ~leftover
        /\ pc[p] \in {"open", "stat", "unlink", "backup", "link"} =>
              \A t \in todo[p] : ~Bars(t)

ReinstallInv == Backups /\ \A p \in Proc : InHand(p) /\ Leftover(p) /\ Clean(p)
=============================================================================
