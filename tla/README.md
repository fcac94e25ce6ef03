# A formal model of Secure Sudoers

Secure Sudoers lets an administrator delegate single commands through `sudo`.
A user runs `sudo apt install vim`; the sudoers file lets that user run only
the gatekeeper `secure-sudoers` (through a hard link named `apt`); the
gatekeeper checks the command line against a signed policy, isolates itself and
runs the real `apt` under its supervision. A second program,
`secure-sudoers-utils`, signs, installs and updates policies and maintains the
links and the sudoers file.

This directory holds TLA+ models of the parts of that system whose correctness
depends on the order of steps of several actors, the TLC configurations that
check them on small instances, and proofs that TLAPS checks for every instance.

Paths below are relative to `src/crates/`: `gk` stands for `secure-sudoers/src`,
`common` for `secure-sudoers-common/src`, `utils` for `secure-sudoers-utils/src`.

## 1. Inventory

| Component | State it keeps | Operations | Interacts with |
|---|---|---|---|
| Supervisor (`gk/supervisor.rs`) | the three static atomics (`SIGWINCH_RECEIVED`, `TERMINATION_SIGNAL`, `FORWARDED_CHILD_PGID`), signal mask and dispositions, terminal mode, the error pipe | `run_supervisor`, its signal handlers, cleanup of descendants | kernel (signals, process table, terminal), wrapper (fork, signals, pipe), `main` (result) |
| Wrapper and exec (`gk/exec.rs`, `gk/signal_utils.rs`) | its wait loop, SIGINT/SIGQUIT dispositions, the error pipe | `execute_securely`, suspension and resumption, exec of the pinned binary | isolation, kernel, the command |
| Gatekeeper pipeline (`gk/main.rs`) | transaction id, audit events | load, parse, validate, bind, hash, approve, supervise | all helpers, the supervisor |
| Isolation (`gk/isolation.rs`, `isolation/*.rs`) | namespaces, mounts, capability sets, pinned descriptors | unshare, private mounts, blocked paths, re-binding of pinned paths, capability drop | policy, kernel |
| Invocation and binding (`gk/helpers/*.rs`) | none | argv[0] and `SUDO_COMMAND` parsing, comparison with the policy's binary, redaction | pipeline |
| Policy loading (`gk/helpers/policy.rs`) | the files `policy.json`, `policy.json.sig`, the public key | read and verify | policy update (shares the files) |
| Validation (`common/validator.rs`, `common/models.rs`) | none | `validate_command` | pipeline |
| Policy update (`utils/modules/network.rs`) | the same files, their immutable flags | download, verify, serial check, install, roll back | policy loading, the server, concurrent updates |
| Installer (`utils/modules/installer.rs`, `installer/*.rs`) | sudoers drop-in, links and their backups, immutable flags | install, unlock | sudo (reads the drop-in), the file system |
| Keys, signing, path checks, logging, telemetry, kernel check | none or single files | sequential I/O and formatting | |

What makes each component correct, and what makes that hard:

* **Supervisor and wrapper.** The command never runs unsupervised; nothing it
  started is alive after its code has been returned; a failure before the exec
  is never taken for an exit code; termination and stop are never lost, a resize is
  never forgotten.
  Three processes, a kernel that delivers signals at any point, a command that
  forks, daemonizes, stops itself or ignores signals, `SIGKILL` from outside,
  failing system calls.
* **Policy files.** The policy a gatekeeper loads is one the administrator
  signed; an update never lowers the serial; a failed update leaves the former
  pair; the immutable flags come back. Two files are replaced one after the
  other, updates run concurrently with loads, with other updates and with crashes.
* **Installer.** The drop-in names only tools of the policy whose links are in
  place; a failed installation never grants more than the gatekeeper and can be repeated.
* **Isolation and pipeline.** No exec without every isolation the policy asks
  for; an approval event before every exec; a denial or error event before every
  refusal; the binary that runs is the one that was pinned and hashed.
* **Validation.** An accepted argument vector has only allowed flags, with
  values of their kind, and redaction hides the values validation called secret.

`PROJECT.json` lists the hazards line by line with the properties that cover them.

## 2. How the models fit together

Each module is written so that it can be proved about (parameters with named
assumptions, one action per operation, no recursive operators).

| Module | Models | Relation to the others |
|---|---|---|
| `Delegation` | what one invocation promises: refuse, or approve one binary, start that binary once, end | abstract specification |
| `Invocation` | `/proc/self/cmdline`, `SUDO_COMMAND`, and the tool they name | extended by `Gatekeeper` |
| `Gatekeeper` | `main.rs` from the kernel check to the end, with binaries replaced under it | implements `Delegation` (`INSTANCE ... WITH`, checked and proved) |
| `Validator` | `validate_command`, one raw argument at a time | extended by `Redaction`; `Gatekeeper` leaves its verdict open |
| `Redaction` | `redact_args`, which parses the same list by rules of its own | composed with `Validator` in `AuditTrail` |
| `AuditTrail` | both on the same list, and a second reader of what is emitted | composition |
| `PathCheck` | `check_path` and the canonical blocked paths, against the kernel's resolution | `Validator` takes its result as a function, `Gatekeeper` as a lookup |
| `Supervisor` | supervisor, wrapper, delegated process, command and kernel | opens `Gatekeeper`'s step "supervise" |
| `Isolation` | the wrapper from its fork to the exec: mounts, pins, capabilities | opens `Supervisor`'s step "isolate" |
| `PolicyUpdate` | update, sign, install and unlock on the two policy files, and loads | opens `Gatekeeper`'s step "load" and `Installer`'s loading |
| `Installer` | links, backups, drop-in, flags, crashes | makes the entry points that `Gatekeeper` is run through |

Theorems stand in `SupervisorProofs`, `InstallerProofs`, `PolicyUpdateProofs`,
`IsolationProofs`, `GatekeeperProofs` (with `Invocation`), `AuditTrailProofs` and
`PathCheckProofs`. `Induction` holds induction over numbers and sequences in a form
the provers can use, and what the proofs need of the prefixes of sequences.

Every safety and action property of the passing runs is also proved. What is left
to do is a refinement from `Supervisor`'s steps to `Gatekeeper`'s.

## 3. The modules

### Supervisor

`Supervisor.tla` models one run of the gatekeeper from `run_supervisor` to its
result. The actors are the supervisor `S`, the wrapper `W` it forks (the process
that runs `execute_securely`), the process `D` the wrapper forks, which becomes
the command when it execs, and the command's descendants (`Desc`, a parameter).
The kernel's part is the process table (`st`, `par`, `inGrp`, `status`), pending
signals (`pend`) and stops still to be reported (`report`); `Env_*` actions are what happens outside: signals
from other processes, a terminal resize, `fg`.

| Module | Code |
|---|---|
| `spc`, actions `S_*` | `run_supervisor`, `supervise_direct_child` and the cleanup of descendants |
| `S_Handle`, `S_HandleWinch`; `termFlag`, `winch`, `pgidSet` | the two signal handlers; the static atomics `TERMINATION_SIGNAL`, `SIGWINCH_RECEIVED`, `FORWARDED_CHILD_PGID` |
| `marker`, `outcome` | the failure stage on the error pipe; the result of `run_supervisor` |
| `wpc`, actions `W_*` | the part of `execute_securely` that runs in the wrapper, and its wait loop |
| `dpc`, actions `D_*` | the forked child up to its exec |
| `Cmd_*`, `Desc_*` | the command: it may exit, fork, leave its group, stop itself |
| `Exit`, `Fork`, `Reap`, `Stop`, `ContinueGroup` | what the kernel does with parents, groups and reports |

A step is one system call or one access to shared state, so a signal handler
may run between any two. In particular S is at `"enter"` when it has read both flags
and not yet entered `waitpid`, and at `"wait"` inside it: a handler interrupts only
the latter, since the code has neither `sigsuspend` nor a pipe to itself. Two history variables
are read by the properties only: `late`, that the handler of SIGWINCH ran in that
window, and `setup`, how the setup after the fork ended. "Isolate" is one step of the wrapper that succeeds or
fails; module `Isolation` opens it.

### PolicyUpdate

`PolicyUpdate.tla` models the files `policy.json` and `policy.json.sig`
(`disk`), their immutable flags (`imm`) and everything that reads or writes
them. A policy is a version with a serial; the bytes of a signature are the
version they sign, `"bad"` if only half written, `"none"` if there is no file.

| Module | Code |
|---|---|
| `upc`, `new`, `prev`, `was`, actions `U_*` | `run_with_client`, `install_update`, `restore_signature`, `restore_immutable_if_needed` (`network.rs`) |
| `gpc`, `gread`, actions `G_*` | `cmd_sign` and its truncating write (`utils/main.rs`) |
| `kpc`, `kread`, actions `K_*` | `install` (verify, then lock) and `unlock`, as far as they touch the two files |
| `lpc`, `lread`, `lres`, actions `L_*` | `load_policy_with_pubkey` of a gatekeeper |
| `Publish`, `Edit` | the server's publisher and the administrator's editor |
| `before`, `blind`, `signed`, `excused`, `secured`, `floor`, `lfloor` | history, read by the properties only |

No file lock keeps commands from overlapping, so a command may start while
another runs (at most `MaxOverlaps` times). `Alone` says that this has not
happened yet. Most guarantees are stated for runs up to the first overlap, the
most important one (`LoadedWasSigned`) for all runs.

`K_*` covers what `install` and `unlock` do to the two policy files; links and
drop-in are in `Installer`.

### Installer

`Installer.tla` models `install` and `unlock` (`Proc`, one or several) on the
entry-point directory, the sudoers drop-in and the immutable flags. An entry
is nothing, a link to a gatekeeper build (an inode of `Build`), a user's own program
(an inode of `Program`), a symbolic link or something else (`"dir"`).

| Module | Code |
|---|---|
| `entry`, `bak`, actions `L_*` | `install_tool_links_to` (`links.rs`): recognise a link by inode, unlink a symbolic link, rename a file to `<tool>.bak`, link; errors are collected |
| `dropin`, `tmp`, actions `D_*` | `write_sudoers_file_to` (`sudoers_io.rs`): create exclusively, write, visudo, rename |
| `G_Cleanup` | `TempFileCleanupGuard` |
| `immutable`, `K_Lock`, `K_Unlock` | `chattr_op` over `managed_targets`; a flag belongs to an inode, so all links to the binary share one |
| `U_Load` | `unlock`, with `discover_managed_tools` when the policy cannot be parsed |
| `Crash`; `EditPolicy`, `UpdatePolicy`, `Upgrade`, `PutFile` | a kill; what the administrator and `update` do between two commands |
| `clean`, `leftover` | history, read by `ReinstallSucceeds` only |

A file is `[tools, whole, by]`: the tools it names, whether all of it is
written, and which command still holds it open, so that a write after a rename
reaches the file where it then is. Loading and verifying the policy is one step
here; `PolicyUpdate` opens it.

### Isolation

`Isolation.tla` models what the wrapper does between its fork and the exec. A
file is an inode, a directory entry maps a directory and a name to one, and a
mount hangs on one place of the tree, under an id larger than that of the mount it
hangs on; path lookup enters an entry and climbs the mounts stacked on it, as the
kernel does. `safe_traverse` opens one component
per system call, so other processes may replace an entry (`Swap`) between any two.

`unshare` starts from a copy of the host's mounts, so `mounts` starts as `HostMounts`: the
file systems mounted at or below directories of `Disk`. A bind without `MS_REC` covers them
(`mounts.rs:292`, `:150`) and a recursive one copies them. A mount that no bind of the job can
cover, like one above all its paths, may as well be part of `Disk`.

| Module | Code |
|---|---|
| `Program`, `plan`, `code` | the order of operations in `setup_isolation`, `pin_validated_path_arguments` and `drop_capabilities`, and the system calls left of the first one |
| `PinPlan`, `PinOps`, `AddOnce` | the pins: each path and each ancestor once (`seen_paths`, `seen_parent_paths`), ancestors from the root down |
| `OpenComponent`, `MissComponent`, `MakeComponent`, `Opened`; `walk`, `fd` | `safe_traverse` (`path_guard.rs`) |
| `Rechecked`, `first` | `ensure_path_matches_fd_with_stat` |
| `MountTmpfs`, `MountNull`, `Bind`, `BindParent`, `RemountReadOnly` | `mounts.rs`, one system call each |
| `Unshare`, `MakeRootPrivate`; `ns`, `leaked` | the mount namespace, and whether a mount reached the host |
| `held` | history: the arguments that were bound while every directory above them was a mount point; read by `HeldArgumentsStay` only |
| `DropBounding`, `CapSet`, `Exec` | `capabilities.rs`, and what the kernel grants root at exec |

### Validator, Redaction and AuditTrail

A raw argument is a sequence of symbols (`-`, `=`, a letter, or a symbol for a
longer text). `parser` is the state of `validate_command` between two arguments,
with the arguments emitted for the last one and the place where its sensitive
part starts; `skipNext`, `afterDelim` and `entry` are the state of `redact_args`
and what the audit event shows of the last argument. A `HashMap` yields short
flags in any order (`flagOrder`). Allow-list and regular expression of a
parameter are sets of texts. `AuditTrail` lets both read the same list; as each
works argument by argument, lists of every length are covered. A second parser
(`again`) reads what the first one emits. `check_path` is a function (`Canon`)
here: of an absolute path to its canonical paths, which it takes for themselves.

### PathCheck

`check_path` walks a path from the root, one `openat` per component, restarting
with a joined text at every symbolic link, and compares the text so far with the
blocked paths; those are made canonical when the policy is loaded (`validate`).
The kernel's own resolution (`Walk`) is the reference definition: the function of
its stages, as many as can be (`Reach`). Other processes
replace files and links by links and rename entries in the directories they
can write to, between any two system calls. Two history variables record what the
code does not look at: `guarded`, that no blocked path was within the others' reach
when it was loaded, and `strayed`, that `..` was opened in a directory that had been moved.

### Invocation and Gatekeeper

`Invocation` models the quoting of `SUDO_COMMAND` and the NUL-separated
`/proc/self/cmdline` character by character, since its properties are about
them, and so `FileName`, which is `Path::file_name`: slashes and `.` behind a name do
not count (`/u/a/` names `a`), `/` and `..` have no name. Where there is none,
`basename` takes the token whole and the reading of `argv[0]` takes the empty name (`invocation.rs:67`);
neither is a tool of a policy. `Gatekeeper` follows `main`: `pc` is the next step, `log` the security
events, `sink` where the global subscriber writes, `disk` what the paths of
binaries lead to, `binary` the file behind the descriptor of the validated
command, `hash` the file that was hashed, `executed` what the delegated process
executes. `Replace` changes a path at any moment, `Kill` ends the process.
Delegation is implemented under

    approved <- the hash of the SEC-101 event    started <- executed
    verdict  <- open until the process ends, then refused or ended

## 4. What the runs check

| Run | Instance | Shows |
|---|---|---|
| `supervisor_safety` | one descendant, two outside signals or resizes, one self-stop, one failing system call | termination and stop are never lost, a resize is never forgotten; the code returned is the command's; no survivor after `Ok`; failures are reported; nothing unsupervised; the state of the process is restored |
| `supervisor_liveness` | one descendant, one signal, one stop, `FairSpec` | a termination request ends the run, a stop reaches the shell |
| `supervisor_pid_namespace` | `UnsharePid = TRUE` | violation (section 7) |
| `policy_update` | four policies, two commands and two edits or signings, of which one may overlap others, one fault, one crash, one publication, one load | no load of an unsigned or invalid policy; until commands overlap, pair and flags survive failures and crashes as promised and there is no downgrade |
| `policy_downgrade_race` | two overlapping updates | violation (section 7) |
| `installer_serial` | one command at a time, two tools, two builds and two programs of users (each pair symmetric), two failing calls or kills | what the drop-in grants is the gatekeeper; `Ok` means complete and locked, or wholly unlocked; a failed installation can be repeated; a user's program is kept until another file takes the place of its backup |
| `isolation` | a tree of five files and one with a file system of the host mounted in it; up to one private, two blocked, two read-only paths and four path arguments in every order, "/" among them, undisturbed; three policies with four replacements by others | masks and read-only trees outlast later binds, path arguments stay the validated files, nothing leaks, no capability is left, a consistent policy is not refused |
| `isolation_covered` | the same policies | violation (section 7) |
| `gatekeeper` | vectors of up to three of ten words, and vectors with paths that end in a slash, `.` or `..`; nine forms of `SUDO_COMMAND`, four kernels, two sinks, every fault; five vectors while binaries are replaced twice | `Delegation` is implemented; the events tell one story; undisturbed, exactly the right command runs; what kernel and sudo wrote is read back |
| `gatekeeper_entry_point` | invocations through an installed entry point | violation (section 7) |
| `audit_trail` | 31 arguments, 24 policies, lists of every length | sensitive values are hidden and nothing else is; the emitted list means what was read |
| `path_check` | paths of up to three of seven names over 20 trees with two links each and five policies, undisturbed; six paths and two policies with two changes by a user | the walk agrees with the kernel, a blocked path is blocked by each of its names and against changes, every check ends |

Why the bounds are enough. In the supervisor every hazard involves at most two
signals (one that arrives while another is handled); one descendant suffices to
meet a scan of `/proc` before, during and after it is adopted, and the proofs
hold for any number. `Rounds` is 1 in the runs and 10 in the
source; the proofs hold for any number. For the policy files, two commands
suffice because a command's view of the files is fixed by the one before it, and
the second one is the first to meet what a crash or failure has left. The
policies are a first one, one lower, one higher, and one of the first one's serial that is not valid.
For the installer, two tools are one that succeeds and one that fails, two builds
are the present and the replaced one, two programs are one that has been backed up
and one put in its place, and two failures are one that leaves a
partial installation and one that hits the command that repairs it. Its overlapping
commands, like those of the policy files, are covered by the proofs.
For isolation, paths of up to three components allow one mount above, at and
below another, and one file system of the host with a directory above its mount, a file in it
and a file of the same name underneath shows each way to cover it; four replacements are
two between two looks at a path, which carry a directory elsewhere, and two that
put it back. In the gatekeeper a binary is replaced at most
between validation and hash and between hash and start. The parsers of
`AuditTrail` have a finite state, so the run covers lists of every length; its
policies are the combinations of what may be sensitive (a long flag, a path, two
short flags, a group of letters, the positional arguments). In `PathCheck` two
links make every shape of chain and loop, with a limit of two links instead of 32
(five instead of 40 for the kernel); the user's directory holds another of the
user's and one below that, so that a move meets a walk that has passed it and
leaves it by `..`.

Deadlock is checked where the system never stops or stops only in a `Finished`
state (supervisor, policy files, installer); the other models are runs that end.

Each property has a mutant (`PROJECT.json`), a plausible slip in the code that
the run's property finds. The mutants' definitions stand, marked "Mistake", next
to the ones they replace.

## 5. Fairness

`FairSpec` of `Supervisor` assumes: the program's own processes and the
delegated process before its exec take their steps when they can (weak
fairness: the scheduler runs every runnable process); the kernel delivers
pending signals, and SIGKILL kills. The command and the user are not assumed to
do anything: a command may run for ever, a job may stay suspended.
`TerminationHonoured` holds nevertheless, because the cleanup kills what does
not end. The policy and installer modules state safety only: every command of theirs is a straight line.

`FairSpec` of `PathCheck` assumes that the gatekeeper keeps running its walk
(`WF_vars(WalkOn)`), and nothing of the other processes, which may change
directories at any time, as often as the bound allows.

## 6. What is proved

`SupervisorProofs`, for any set of descendants, any number of rounds, signals,
stops and faults:

* `TypeCorrect`, `SupervisionInvariant`: `SupervisionInv` is inductive. It says
  that the parent pointers form a forest rooted in the supervisor while it lives
  (`Forest`, so a scan of `/proc` sees every survivor), that statuses match ends
  (`Endings`), what the result is at each point of `run_supervisor` (`Results`), and
  that a process past its check of `getppid` has its parent or is about to be
  killed (`Handshake`). The safety
  properties alone are not inductive: that no survivor is left after `Ok` needs
  that an orphan's new parent is the supervisor (`PR_SET_CHILD_SUBREAPER`) at
  all times between.
* `NoSurvivor`, `FailureReported`, `StatusFaithful`, `Supervised` follow from it.
* `ForwardingInvariant`: `ForwardingInv` is inductive on top of it. `Deviations`
  says between which points of `run_supervisor` the terminal, the signal mask,
  the handlers and the published group differ from what `main` left; `Watched`
  that the wrapper is in the process table and leads its group as long as a
  signal may be sent to it; `Requests` that a recorded termination is pending for the
  wrapper or has ended it, and a resize is pending for the supervisor or in its
  flag; `Abandoned` that a wrapper nobody supervised is not left behind; `CommandStops` and `WrapperStops` that a stop is still to be
  reported until its parent has taken the report. `NoSignalLost` alone speaks of the
  moment before `waitpid` and in it only, and is not inductive.
* `Restored`, `SignalsPassedOn` and `StopsReported` follow from it.
* `UndisturbedSucceeds` (without `unshare_pid`): from `UndisturbedInv`, that with no fault
  and no outside signal nothing is pending for supervisor or wrapper, the wrapper
  outlives the command, and the supervisor cleans up only after the wrapper. With
  `unshare_pid` it is false: that is the finding of `supervisor_pid_namespace`.

`PolicyUpdateProofs`, for any policies, updates, loads and bounds, and any overlap:

* `TypeCorrect`.
* `LoadedSigned` (`LoadedWasSigned`): from the invariant `Genuine`, that every
  signature anywhere (on the server, downloaded, installed, kept for a rollback)
  was made of the version it names. A load compares the signature with the bytes
  it has in memory, so nothing else about the files is needed.

* `AloneInv` is inductive
  (`Invariance`). It says that `SerializedInv` holds as long as no commands have
  overlapped; overlaps are counted down, so a step after which there has been none
  starts from a state with none (`OverlapsStep`).

The parts of `SerializedInv` are proved one after the other, each from the ones before:

1. `Exclusion`, one command is under way;
2. `Progress(u)`, what an update knows at each of its steps: what it read of
   the files is still true, so the comparison of serials holds when it renames,
   and what it would roll back to is what it found;
3. `Pairing`, `Securing`, `Freshness`: the pair verifies except where `excused`,
   is locked as verified, and its serial is not below that of the last update.

`Secured`, `Intact`, `NotStale` and the action properties `NeverLower` and
`AllOrNothing` (from `OkInstalls` and `FailedRestores`) follow.

`InstallerProofs`, for any tools, builds, number of overlapping commands and
failures: `Invariance`, `TypeCorrect` and `GatekeepersOnly` (`NamedAreGatekeepers`).
`NamedAreGatekeepers` alone is not inductive: the drop-in comes from a temporary
file (`TmpLinked`), and that from what a command has linked (`DoneLinked`), while
other commands replace entries. The temporary file of a killed command may go
stale; it never becomes the drop-in, because `create_new` refuses it. That is why
`TmpLinked` is restricted to times when some command is past the creation.

The rest holds for one command at a time (`OneCommand`), any tools and
builds and any number of failures, kills and changes between commands:
`SerialInvariance`. `SerialInv` says that only managed files are ever locked
(`Locked`), that what a command has linked leads to the present binary and, without
an error, is or will be all the policy names (`Linking`), that the temporary file
is the command's own until it is renamed (`Writing`), and that what `install` or
`unlock` has passed is locked or free (`Locking`). `Sealed` needs `Locked`: an old
link could be sealed only through the flag of a binary that is no longer present.
`SealedIsPresent`, `OkIsComplete`, `OkIsFree` and `NeverHalf` follow.
`ReinstallInvariance`: `ReinstallInv` says that no backup is a link to the present
binary or to the same build as its entry (`Backups`), what the entry of the tool in
hand is at each step (`InHand`), that a temporary file nobody is about to clean up was left by a
kill (`Leftover`), and that a clean install has nothing in its way (`Clean`). `Reinstalls` (`ReinstallSucceeds`) and
`UserFilesKept` (the action property `UserFileKept`) follow.

`IsolationProofs`, for any policies, replacements and number of
capabilities: `HostUntouchedTheorem` (every mount operation of the plan stands
behind the two that make the tree the wrapper's own), `CommandHasNoCapabilitiesTheorem`
(the loop over `0 ..= cap_last_cap` leaves nothing for exec to grant; the
invariant is that what has been passed is no longer bounding) and `ConfinedTheorem`.

`MasksStayTheorem` and `ReadOnlyStaysTheorem` hold for every disk that is a tree
without hard links (`DiskAssumption`), any tree of host mounts on it
(`HostAssumption`), every policy that does not list "/" itself
(`JobAssumption`) and every command, "/" as an argument included. The two properties speak of the end of the
setup; what is inductive (`Sound`, while nobody interferes) is that every listed path is either still to be
treated (`plan`) or `Guarded`: at and beneath one of its components no path at all
shows the disk, or shows it only through mounts that are read-only. A guard has to survive
every later mount, which is what the lemmas are about:

* Lookup. `TopIn` and `ResolveIn` are recursive functions; that they obey their equations is proved by
  induction over mount ids and components (`ClimbExists`, `LookupExists`), after
  which a mount stack is followed step by step.
* One more mount (`OneEffect`): paths that do not lead through the place lead
  where they led, the others into the new mount, where nothing else is mounted.
* A recursive bind (`CopyEffects`): the tree below gets copies of its mounts; a path shows
  the same inode, in the same mount or in its copy (`CopyKeeps`), and the copies
  are as read-only as the mounts (`CopyKeepsGuards`).
* A file or directory made for a blocked path that is missing (`EntryEffects`): nothing that was
  there changes, and no guard is lost.
* Why a non-recursive bind takes a guard away only beneath its path
  (`OnKeepsGuards`): no inode of the disk is shown at two paths (`Labelled`: there is a
  relation that gives each inode one path and follows entries and mounts, those of the host
  included), so that no other path leads to the place of the bind. Every mount of the wrapper keeps the
  relation, since each is a tmpfs, `/dev/null` or a place bound on itself.
* Between bind and remount (`PhaseInv`) everything at and beneath the path lies
  in one mount, which the remount then finds and makes read-only.
* The plan has every listed path (`PlanStarts`), and a completed system call drops
  only the operation it ends (`AdvanceFacts`).

`UndisturbedSetupSucceedsTheorem` says that a job without contradictions (`Workable`)
only fails if the kernel refuses a call or somebody interferes. A step that fails
finds a component missing, a symbolic link, another inode or another mount than expected, so the
invariant, `Smooth` on top of `Sound`, says what every path leads to at each step:

* What the disk had is there; what was made for a blocked path is there too, no link, and a
  directory unless it is that path itself (`EntryInv`, `MadeInv`, `AgainInv`).
* Nothing is hidden but by a mask of the job (`HiddenBy`), nothing is gone but beneath one
  (`GoneBelow`), and no private path that is still to be mounted lies beneath a mask already there
  (`Sorted`, `Free`): `setup_isolation` mounts the private paths first, and a
  workable job lists none after one above it.
* Between bind and remount the path shows the root of the new mount, with the inode that
  was bound (`BoundInv`), although nothing else of `Sound` says which of
  several mounts on one place is on top.

* The host's mounts are where they were: a path that no bind of the job covers and no mask hides leads to
  the inode it was validated with (`AsBefore`), which for each component is
  the entry of the disk or what the host has mounted there. That no bound directory has a mount of
  the host between itself and another path of the job is the last conjunct of `Workable`.

From these, `OpenGoesOn`, `MissGoesOn`, `RecheckGoesOn`, `BindGoesOn` and `RemountGoesOn` show
that none of the steps that can fail does.

`GatekeeperProofs`, for any binaries, paths, kernels, invocations and changes:
`TypeOKTheorem`; `OneStoryTheorem`, from an invariant that says at each step what
has been logged and that `hash` and `binary` are one file once it is hashed; and
`KeepsPromiseTheorem`, that `Gatekeeper` implements `Delegation`: each step of
`main` maps to a step of `Delegation` or to none. `RunsIfAllowedTheorem` needs to
know what an undisturbed run has found out at each step (`RunInv`): that the tool
parsed is the one the arguments name, the validated binary the one on the disk, the
binding verified; and that a token without a file name, taken whole or as the
empty name, is no tool (`NamedTool`). Assumed of the constants: an argument is a text of characters,
a tool of a policy is called by a file name (`models.rs:308`, which allows less), a release is two numbers.

`WordsReadBackTheorem` and `SudoRunIdentifiedTheorem` hold for arguments of any number
and length. What a recursive function computes is proved by induction over
sequences (`Induction`: of a set of sequences that holds the empty one and with
each its continuations, every sequence is a member). First comes that the
functions of `Invocation` obey their equations and continue (`ReadAppend`,
`ChunksAppend`, `FlattenAppend`). `Leads(n, st, text, next)` says that the reader
gets from state `st` to `next` by reading `text`, whatever it read before;
such facts compose (`LeadsThen`), so a text is followed quote by quote
(`LeadsQuoted`) and a line word by word (`SplitReads`). `IdentifiedInv` carries the result
from the step that parsed it to the end of the run.

`AuditTrailProofs`, for any policies and any arguments over any alphabet:
`SensitiveHiddenTheorem`, `OnlySecretsHiddenTheorem` and `OutputIsFixpointTheorem`.
None of the three properties is inductive: each speaks of one argument, and
the two parsers can lose step long before it. `SyncInv` says that they have not:
`redact_args` is about to skip an argument exactly where `validate_command` is about
to take one as a sensitive value, and both or neither have passed `--`. Its step is one lemma per
form of an argument (`VerbAgrees`, `ValueAgrees`, `RestAgrees`, `PositionalAgrees`,
`WholeFlagAgrees`, `GroupAgrees`); a group of letters is where both parsers
search the text by different rules, and where `InStep` is needed. `FixpointInv` says
that the second reader is where the first one is, except that it never waits for a value and has
never met `--`; the emissions of each form are followed one by one
(`ReparseSteps`, `FlagsAgain`, `OutputReadAgain`). Assumed of the constants
(`TextAssumption`, `CanonAssumption`, `PoliciesAssumption`): arguments are texts, a
canonical path is no flag and is canonical itself, and the types of the policies.

`PathCheckProofs`, for any tree of directories, files and links, any policies and
requests and any number of changes by others. The constants are assumed to be
trees (`IsTree`: one entry for each inode, and the path of each inode is
that of its directory and a name, so no cycles), names and links; nothing about their
size. That the walk up from an inode finds one path is proved by induction over inodes'
paths (`PathsUnique`, `Ancestors`, `SamePath`), that `Rename` and `ReplaceByLink` keep a tree
a tree, and what they do to the paths in it, in `Renamed` and `Replaced`.

* `BlockedIsNeverAcceptedTheorem`, from `WalkInv`: while no blocked path is in the others'
  reach, the walk stands where its text says, and that text was compared; or it
  was carried to a place below a directory of theirs (or to a removed file), and such
  places are clear of the blocked paths. The attempt to prove the property without `strayed`
  failed, and TLC then found the behaviour (section 7).
* `BlockedByEveryNameTheorem` and `AgreesWithKernelTheorem`, from `QuietInv`, which speaks
  of the time before the first change: every blocked path is the canonical form of
  the policy's, and the kernel's resolution of the request is abreast of the walk or
  ahead of it by names that the walk still has to open (`Follows`; a relative link
  sends the walk back to the root and leaves the kernel where it is). `Abreast` says
  that both then take the same step, `Ahead` that the walk opens the next directory on
  the way to the kernel's, `WalkDown` that a canonical path leads to its own inode.

Only model-checked:

* liveness (`supervisor_liveness`, `CheckEnds`), which is out of the prover's reach;
* `HeldArgumentsStay`: others may carry any file and directory anywhere between any two system
  calls, so what is proved of masks and of undisturbed jobs, where the paths form a tree, is of no
  use for it.

## 7. Where code and documentation disagree

* `supervisor_pid_namespace`: with `unshare_pid`, `getppid()` of the first process of the new
  namespace is 0; the check at `gk/exec.rs:315` compares it with the wrapper's
  pid and refuses to exec. Every such delegation fails.
* `policy_downgrade_race`: the serial is compared (`utils/modules/network.rs:61`) and the policy
  renamed (`:214`) without a lock; of two overlapping updates the older may win,
  although `README.md:109` promises a rising serial.
* `isolation_covered`: `apply_readonly_mounts` (`gk/isolation/mounts.rs:292`) and
  `pin_path_at_fd` bind a directory on itself without `MS_REC` after the masks
  have been mounted, so a blocked path below it is visible again, although
  `POLICY.md:12` calls blocked paths always denied. `MasksStay` excepts exactly
  these paths (`Uncovered`).
* `gatekeeper_entry_point`: `sudo apt` through an installed entry point leaves the
  entry point's path in `SUDO_COMMAND`; the file there is `secure-sudoers`, not the
  real binary, and `gk/helpers/binding.rs:152` refuses it as spoofing, although
  `README.md:16` describes this as the way to run a tool.

Exceptions that the properties state, because the code behaves otherwise than a
reader may expect:

* A resize of the terminal whose SIGWINCH is handled between the swap of
  `SIGWINCH_RECEIVED` (`gk/supervisor.rs:348`) and `waitpid` (`:360`) stays in the flag while
  `waitpid` blocks: the command learns of it only when a later signal, stop or
  resize ends the wait. `NoSignalLost` says that this window (`late`) is the only way for
  a resize to wait; a termination in the same window is harmless, as its
  handler has already sent it to the wrapper's group.
* If `restore_signal_mask` fails in the parent (`gk/supervisor.rs:228`), `run_supervisor` returns its
  error with the signals still blocked, and it never removes the handler of SIGWINCH (`:646`)
  nor the subreaper attribute: `ReturnRestoresProcessState` excepts the first (`setup`) and does
  not speak of the others.
* Two overlapping updates may rename their signatures and policies in opposite
  order (`utils/modules/network.rs:204`); both report success and the pair does
  not verify. `PairIntact` says nothing after an overlap.
* An installed policy that cannot be read at the moment of the comparison sets no
  lower bound (`network.rs:62`). `NoDowngrade` excepts this (`blind`).
* The first subscriber of the process is the fallback to standard output
  (`common/logging.rs:14`), so `log_destination` has no effect: `sink` never
  becomes `"syslog"`.
* A failure to hash the validated binary (`gk/main.rs:153`) and an argument that is
  not Unicode (a panic of `std::env::args`, `gk/helpers/invocation.rs:20`) end the
  process without a security event: `OneStory` allows an empty log.
* `redact_args` loses step with `validate_command` when the value of a flag that is
  not sensitive looks like a sensitive flag (`gk/helpers/redaction.rs:100`), or when a
  verb or a parameter's name has an unexpected form (a verb with a dash, a flag
  without one or with `=`, which no lint excludes): `SensitiveHidden` is stated for
  policies that exclude this (`InStep`). The output is read as it was meant
  (`OutputIsFixpoint`) if flags look like flags (`Readable`). A long flag
  that the policy knows leaves no trace in the audit event (`OnlySecretsHidden`).
* A file that others move into a blocked directory after its path was compared is
  accepted (`common/fs.rs:106` reads the path back without comparing it again);
  `BlockedIsNeverAccepted` is stated for policies none of whose blocked paths lies above or
  below a directory that others can write to (`guarded`). And `..` takes a name off
  the text (`common/fs.rs:88`), while the kernel goes to the present parent: if the directory
  was moved in between, the text that is compared is another one than that of the place
  reached, and the property excludes this (`strayed`). "/" itself has no component to compare.

## 8. Assumptions about the environment

* Signals of root are never refused; SIGCHLD is not ignored by the caller;
  the shell keeps the gatekeeper's process group from being orphaned; `exec` of
  the command keeps PDEATHSIG (it is not a set-id file). A kill of a group
  and a scan of `/proc` are one step each; a scan sees every process that is not reaped.
* A descendant of the command may fork, leave its group and ignore requests to
  terminate, but does not stop itself. The 50 ms sleeps between two polls are
  arbitrary delays. Writing the failure marker and exiting is one step.
* A failing `TIOCGWINSZ` and a second failure while an earlier one is being
  undone are not modelled.
* Opening a file and setting its flag is one step. A crash is the death of a
  process, not of the machine: the order in which the file system writes the
  two renames back is not modelled. An editor replaces the policy in one step.

* The administrator puts other programs only at names the drop-in does not grant, and
  replaces policy and binary between two commands, not during one. No tool of a
  policy is called like the backup `<tool>.bak` of another. The program's own
  files exist. Half a sudoers file names no tool.

Two limits of the installer that no document excludes: a killed `install` leaves
its temporary file, so the next one fails (and removes it) and only the one after
succeeds, which `ReinstallSucceeds` excludes; after an upgrade of the binary by
a new file, re-installation moves the old link over the backup of the user's
program. The second is a case of a third: `rename` to `<tool>.bak` (`links.rs:115`)
asks nobody whether that name is in use, so whatever is at the name of the tool,
and is neither the present link nor a symbolic link, takes the place of the backup. A
second program that a user puts there destroys the backup of the first.
`UserFileKept` says that these are the only ways to lose a program: never from the
name itself, from the backup only to another program or to an old link, and never
to the present link. It is proved for one command at a time; overlapping installations
can lose more. A program that is a hard link to its own backup bars its name, as
a directory does: `rename` leaves both and the link is then refused.

In the newer modules:

* An entry that is a mount point in the wrapper's namespace can be replaced by
  processes outside of it (`Isolation`; the kernel then drops the mount). The model
  records this in `pulled`, and `HeldArgumentsStay` excludes it. The bind of an ancestor is not compared
  with anything (`mounts.rs:112`), so others can have it made elsewhere and
  later rename the directory that was left out: `HeldArgumentsStay` is stated for the arguments that
  were bound while all directories above them were mount points (`held`). Without interference
  that is every argument. It also excepts an argument on a mount of the host that the bind of
  a directory argument above it covers (`mounts.rs:150`). `MasksStay` and `ReadOnlyStays` are stated for
  setups nobody interferes with, and `ReadOnlyStays` not for a read-only path below
  a directory argument, whose bind (`mounts.rs:150`) covers the mount of that path
  as it covers a mask (section 7).
* `Isolation`: a file of the first disk has one name, and a file system of the host is mounted once,
  since a mount hangs on an entry and the model names entries by their inodes: where others give a
  directory a second name, a mount on it shows at both, which only adds behaviours. A policy does not mask or protect "/" itself,
  since what is mounted on the root of a process is not what it sees there.
  `Disk` is what the arguments were validated against, and each argument carries the inode
  found there (`JobAssumption`); what was changed between validation and the
  first system call is a `Swap` like any later one.
* `Isolation`: others may replace, make or remove any entry of the disk and put any file or directory
  there, also an argument or a directory above one under another name (`OthersAssumption`); what is
  mounted in the wrapper's namespace alone (a tmpfs) is out of their reach.
* `Isolation`: a mount of the host below a directory that is bound without `MS_REC` is covered like a mask: what is beneath it
  cannot be opened any more, or is another file, and such a job is refused. `Workable` excepts it
  (`MountBetween`): with `/var` read-only and a separate `/var/log`, no command with
  an argument below `/var/log` runs.
* `Isolation`: a job is `Workable`, and its success guaranteed, only if no path of it leads
  through a symbolic link, since `safe_traverse` opens with `O_NOFOLLOW`; the others are
  explored, and may fail.
* `PathCheck`: paths are absolute (others are refused at once), files have one
  name each, components are not empty, and no path of a policy has a component
  that is called `(deleted)` alone, as the kernel names what has been removed.
* `Gatekeeper`: a binary is replaced by another file and never written in place;
  `getrandom` gives bytes or fails; of a policy the model keeps the path of each
  tool's binary, and whether `validate_command` allows the arguments is open.

## 9. Not modelled

* File modes, URLs and size limits of an update; key generation; argument parsing
  of the utilities; ownership checks of directories (`path_security.rs`), which
  are calls that may fail.
* Deserialisation of a policy and the lints of `models.rs`.
* The lookup of the invoking account in `/etc/passwd`, which only labels events;
  the formatting of events, logs and errors; reading the kernel's release out of
  its text.
* Reuse of process ids (`supervisor.rs:598` signals a group after its leader was
  reaped), reads of the terminal by the command (`supervisor.rs:441`), descendants
  left after a setup that failed (`supervisor.rs:222`, the result is an error).
* The window between opening a file and setting its flag
  (`installer/immutable.rs:166`).
