----------------------------- MODULE Isolation -----------------------------
(***************************************************************************)
(* What the wrapper does between fork and exec: setup_isolation,           *)
(* pin_validated_path_arguments and drop_capabilities, called in this      *)
(* order by execute_securely.  Any error ends the wrapper before exec.     *)
(*                                                                         *)
(* A file is an inode [fs, kind, id]; a directory entry maps <<directory,  *)
(* name>> to an inode; a mount hangs on one place [mnt, ino] of the tree   *)
(* and shows its root there.  Path lookup is the kernel's: enter the       *)
(* entry, then climb the mounts stacked on it.  safe_traverse opens one    *)
(* component per system call, so other processes may replace an entry      *)
(* between any two components, checks and mounts.                          *)
(***************************************************************************)
EXTENDS Integers, Sequences, SequencesExt, FiniteSetsExt

CONSTANTS Names,      \* names of path components
          Root,       \* the inode of "/"
          Disk,       \* the entries on disk when the arguments were validated
          HostMounts, \* the host's mounts that a bind may cover, like mounts
                      \* below; any other is as good as a directory of Disk
          Others,     \* <<directory, name>> -> what another process may put there
          Jobs,       \* the commands and policies considered
          MaxDepth,   \* bound: components of a path
          Contested,  \* those during which other processes interfere
          LastCap,    \* /proc/sys/kernel/cap_last_cap
          MaxSwaps    \* bound: replacements by other processes

ASSUME LastCapAssumption == LastCap \in Nat
ASSUME MaxDepthAssumption == MaxDepth \in Nat
ASSUME MaxSwapsAssumption == MaxSwaps \in Nat

Inode == [fs : {"disk", "tmp", "dev"}, kind : {"dir", "file", "link"}, id : Nat]
Nowhere == [fs |-> "none", kind |-> "none", id |-> 0]
DevNull == [fs |-> "dev", kind |-> "file", id |-> 0]
FirstNew == 100   \* the ids below are those of the disk
Caps == 0 .. LastCap

VARIABLES entry,      \* directory entries, shared by all mount namespaces
          mounts,     \* the mounts of the wrapper's namespace by id, younger ones higher:
                      \* [mnt, at] is the place covered, root what it shows
          fresh,      \* id of the next inode to be made
          job,        \* [private, blocked, readonly : sequences of paths,
                      \*  pins : the validated paths with their inodes]
          plan,       \* the operations left; the first is in progress
          code,       \* the system calls left of the first operation
          walk,       \* safe_traverse in progress: [at, depth, how]
          fd,         \* the place behind the descriptor last opened
          first,      \* the inode compared across bind and remount
          ns,         \* has the wrapper its own mount tree, is it private
          leaked,     \* did a mount show up in the host's namespace
          held,       \* history: the arguments that were bound while every
                      \* directory above them was a mount point
          bounding, inheritable, permitted,
          dropped,    \* how many capabilities PR_CAPBSET_DROP went through
          swaps,      \* replacements made so far by other processes
          pulled,     \* history: one of them replaced a mount point of this namespace
          refused,    \* did the kernel refuse a system call of the wrapper
          status      \* "setup", "exec" or "failed"

file == <<entry, mounts, fresh>>
progress == <<job, plan, code, walk, fd, first, ns>>
capabilities == <<bounding, inheritable, permitted, dropped>>
others == <<swaps, pulled>>
vars == <<file, progress, leaked, held, capabilities, others, refused, status>>

(***************************************************************************)
(* Path lookup, among the entries t and the mounts ms                      *)
(***************************************************************************)
Youngest(ms) == Max(DOMAIN ms \cup {0})

\* The place a mount stack shows at place l.  A mount is younger than the
\* mount it hangs on, so one pass from the oldest to the youngest climbs.
TopIn(ms, l) ==
    LET climb[k \in 0 .. Youngest(ms)] ==
            IF k = 0 THEN l
            ELSE LET at == climb[k - 1]
                 IN  IF k \in DOMAIN ms /\ ms[k].mnt = at.mnt /\ ms[k].at = at.ino
                     THEN [mnt |-> k, ino |-> ms[k].root]
                     ELSE at
    IN climb[Youngest(ms)]

RootPlace == [mnt |-> 0, ino |-> Root]
NoPlace == [mnt |-> 0, ino |-> Nowhere]

\* openat(O_PATH | O_NOFOLLOW) of one component: nothing in a non-directory.
EnterIn(t, ms, l, n) ==
    IF <<l.ino, n>> \in DOMAIN t
    THEN TopIn(ms, [mnt |-> l.mnt, ino |-> t[<<l.ino, n>>]])
    ELSE NoPlace

\* Where path p leads.
ResolveIn(t, ms, p) ==
    LET at[k \in 0 .. Len(p)] == IF k = 0 THEN RootPlace ELSE EnterIn(t, ms, at[k - 1], p[k])
    IN  at[Len(p)]

\* Path p as it led when the arguments were validated, and on which mount.
Original(p) == ResolveIn(Disk, HostMounts, p).ino
HostMount(p) == ResolveIn(Disk, HostMounts, p).mnt

\* Paths of a policy or command, and with one component more.
Listable == SeqOf(Names, MaxDepth)
Paths == SeqOf(Names, MaxDepth + 1)

OnDisk(i) == i \in Inode /\ i.fs = "disk" /\ i.id < FirstNew

\* The disk is a tree without hard links: an inode stands for the one entry
\* that leads to it, as a mount hangs on an entry.
ASSUME DiskAssumption ==
    /\ OnDisk(Root) /\ Root.kind = "dir"
    /\ \A e \in DOMAIN Disk : e \in Inode \X Names /\ OnDisk(e[1]) /\ OnDisk(Disk[e]) /\ Disk[e] # Root
    /\ \A e, f \in DOMAIN Disk : Disk[e] = Disk[f] => e = f

\* So are the host's mounts, oldest first: each hangs on an older one or the file
\* system of "/", on a place of its own, and shows a file system of its own.
ASSUME HostAssumption ==
    /\ HostMounts \in Seq([mnt : Nat, at : Inode, root : Inode, ro : BOOLEAN])
    /\ \A k \in DOMAIN HostMounts : LET m == HostMounts[k] IN
        /\ m.mnt < k /\ OnDisk(m.at) /\ OnDisk(m.root) /\ Root \notin {m.at, m.root}
        /\ \A e \in DOMAIN Disk : Disk[e] # m.root
        /\ \A i \in DOMAIN HostMounts \ {k} : LET o == HostMounts[i] IN
               o.root # m.root /\ <<o.mnt, o.at>> # <<m.mnt, m.at>>

\* "/" can be an argument; policies that mask or protect "/" itself are left
\* out, since what is mounted on the root of a process is not what it sees.
\* An argument carries the inode it was validated with.
ASSUME JobAssumption ==
    \A j \in Jobs :
        /\ \A list \in {j.private, j.blocked, j.readonly} : list \in Seq(Listable \ {<<>>})
        /\ j.pins \in Seq([path : Listable, ino : Inode])
        /\ \A k \in DOMAIN j.pins : j.pins[k].ino = Original(j.pins[k].path)

\* Others replace any entry by any file, by another argument or directory too;
\* what is mounted in this namespace is out of their reach.
ASSUME OthersAssumption ==
    \A slot \in DOMAIN Others :
        /\ slot \in Inode \X Names /\ slot[1].fs = "disk"
        /\ \A i \in Others[slot] : i \in Inode \cup {Nowhere} /\ i.fs \in {"disk", "none"} /\ i # Root

\* In this namespace now.
Top(l) == TopIn(mounts, l)
Enter(l, n) == EnterIn(entry, mounts, l, n)
Resolve(p) == ResolveIn(entry, mounts, p)
ReadOnly(m) == m > 0 /\ mounts[m].ro

\* The directory tree below inode i, i included.
Below(i) ==
    LET under[k \in 0 .. MaxDepth] ==
            IF k = 0 THEN {i}
            ELSE LET above == under[k - 1]
                 IN  above \cup {entry[e] : e \in {x \in DOMAIN entry : x[1] \in above}}
    IN under[MaxDepth]

(***************************************************************************)
(* Mounting: the new mounts, by their ids                                  *)
(***************************************************************************)
\* mount(2) goes on top of whatever is already stacked at place l.
On(l, root, ro) == LET t == Top(l) IN [mnt |-> t.mnt, at |-> t.ino, root |-> root, ro |-> ro]

One(m) == [k \in {Youngest(mounts) + 1} |-> m]

\* MS_BIND of the place l on itself: one mount, without the mounts below it.
SelfBind(l) == One(On(l, l.ino, ReadOnly(l.mnt)))

\* Mistake: the ancestors are bound without the mounts below them
SelfBindShallow(l) == SelfBind(l)

\* The mounts on the tree at place l.
MountsBelow(l) ==
    LET below[k \in 0 .. Youngest(mounts)] ==
            IF k = 0 THEN {}
            ELSE LET older == below[k - 1] IN
                 IF /\ k \in DOMAIN mounts
                    /\ \/ mounts[k].mnt = l.mnt /\ mounts[k].at \in Below(l.ino)
                       \/ mounts[k].mnt \in older
                 THEN older \cup {k} ELSE older
    IN below[Youngest(mounts)]

\* MS_BIND | MS_REC: the mounts below come along, each under a new id.
SelfBindRec(l) ==
    LET shift == Youngest(mounts) + 1
    IN  [k \in {i + shift : i \in MountsBelow(l) \cup {l.mnt}} |->
            IF k = l.mnt + shift THEN On(l, l.ino, ReadOnly(l.mnt))
            ELSE [mounts[k - shift] EXCEPT !.mnt = @ + shift]]

(***************************************************************************)
(* The operations, in the order of setup_isolation and                     *)
(* pin_validated_path_arguments                                            *)
(***************************************************************************)
Op(o, p, i) == [op |-> o, path |-> p, ino |-> i]
ForEach(o, paths) == [k \in DOMAIN paths |-> Op(o, paths[k], Nowhere)]

\* The ancestors of p below "/", root first.
ParentChain(p) == [k \in 1 .. Len(p) - 1 |-> SubSeq(p, 1, k)]

\* seen_paths and seen_parent_paths: nothing is pinned twice; a path seen
\* before has its ancestors pinned already.
AddOnce(ops, o) ==
    IF \E k \in DOMAIN ops : ops[k].op = o.op /\ ops[k].path = o.path THEN ops ELSE Append(ops, o)

AddAll(ops, more) ==
    LET upto[k \in 0 .. Len(more)] == IF k = 0 THEN ops ELSE AddOnce(upto[k - 1], more[k])
    IN  upto[Len(more)]

\* pin_parent_chain_for_path: the ancestors, root to leaf, then the path; "/"
\* has none.
PinOps(pin) ==
    (IF pin.path = <<>> THEN <<>> ELSE ForEach("parent", ParentChain(pin.path)))
        \o <<Op("pin", pin.path, pin.ino)>>

\* pin_validated_path_arguments_with: the binary and every path argument.
PinPlan(pins) ==
    LET upto[n \in 0 .. Len(pins)] == IF n = 0 THEN <<>> ELSE AddAll(upto[n - 1], PinOps(pins[n]))
    IN  upto[Len(pins)]

SetupIsolation(j) ==
    <<Op("namespace", <<>>, Nowhere)>>
        \o ForEach("private", j.private)
        \o ForEach("blocked", j.blocked)
        \o ForEach("readonly", j.readonly)

\* Mistake: the mount is bound on itself but never remounted read-only
NoRemount(o) ==
    CASE o = "namespace" -> <<"unshare", "rootprivate">>
      [] o = "private"  -> <<"open", "recheck", "tmpfs">>
      [] o = "blocked"  -> <<"create", "recheck", "shadow">>
      [] o = "readonly" -> <<"open", "recheck", "bind">>
      [] o = "parent"   -> <<"open", "bindrec">>
      [] o = "pin"      -> <<"open", "bind", "verify">>

\* Mistake: a blocked path that does not exist is not created
NoCreate(o) ==
    CASE o = "namespace" -> <<"unshare", "rootprivate">>
      [] o \in {"private", "blocked"} -> <<"open", "recheck", IF o = "private" THEN "tmpfs" ELSE "shadow">>
      [] o = "readonly" -> <<"open", "recheck", "bind", "open", "recheck", "remount">>
      [] o = "parent"   -> <<"open", "bindrec">>
      [] o = "pin"      -> <<"open", "bind", "verify">>

\* Mistake: no path is compared again before or after the mount
NoSecondLook(o) ==
    CASE o = "namespace" -> <<"unshare", "rootprivate">>
      [] o = "private"  -> <<"open", "tmpfs">>
      [] o = "blocked"  -> <<"create", "shadow">>
      [] o = "readonly" -> <<"open", "bind", "open", "remount">>
      [] o = "parent"   -> <<"open", "bindrec">>
      [] o = "pin"      -> <<"open", "bind">>

\* The system calls of one operation; "open" and "recheck" walk the path.
Program(o) ==
    CASE o = "namespace" -> <<"unshare", "rootprivate">>
      [] o = "private"  -> <<"open", "recheck", "tmpfs">>
      [] o = "blocked"  -> <<"create", "recheck", "shadow">>
      [] o = "readonly" -> <<"open", "recheck", "bind", "open", "recheck", "remount">>
      [] o = "parent"   -> <<"open", "bindrec">>
      [] o = "pin"      -> <<"open", "bind", "verify">>

Walks == {"open", "create", "recheck", "verify"}
StartWalk == [at |-> RootPlace, depth |-> 0, how |-> "look"]

Init ==
    /\ entry = Disk /\ mounts = HostMounts /\ fresh = FirstNew
    /\ job \in Jobs
    /\ plan = SetupIsolation(job) \o PinPlan(job.pins)
    /\ code = Program("namespace")
    /\ walk = StartWalk /\ fd = NoPlace /\ first = Nowhere
    /\ ns = [own |-> FALSE, private |-> FALSE] /\ leaked = FALSE /\ held = {}
    /\ bounding = Caps /\ inheritable \in {{}, Caps} /\ permitted = Caps /\ dropped = 0
    /\ swaps = 0 /\ pulled = FALSE /\ refused = FALSE /\ status = "setup"

Now == IF status = "setup" /\ code # <<>> THEN Head(code) ELSE "none"
Here == Head(plan)

\* mark_exec_failure and return Err: the command is never executed.
Fail == status' = "failed" /\ UNCHANGED <<file, progress, leaked, held, capabilities, others, refused>>

\* The next system call of the operation, or the next operation.
Advance ==
    IF Len(code) > 1
    THEN code' = Tail(code) /\ UNCHANGED plan
    ELSE plan' = Tail(plan) /\ code' = IF Len(plan) > 1 THEN Program(plan[2].op) ELSE <<>>

Moving == UNCHANGED <<capabilities, others, refused, status>>

(***************************************************************************)
(* safe_traverse, one component per step                                   *)
(***************************************************************************)
Component == Here.path[walk.depth + 1]
Walking == Now \in Walks /\ walk.depth < Len(Here.path)

\* The component is there: descend.  A component opened again after it was
\* made is not checked for being a symbolic link.
OpenComponent ==
    /\ Walking /\ walk.how \in {"look", "again"}
    /\ LET next == Enter(walk.at, Component) IN
       /\ next # NoPlace
       /\ IF next.ino.kind = "link" /\ walk.how = "look"
          THEN Fail
          ELSE /\ walk' = [at |-> next, depth |-> walk.depth + 1, how |-> "look"]
               /\ UNCHANGED <<file, job, plan, code, fd, first, ns, leaked, held>> /\ Moving

\* It is not: an error, unless the traversal may create it.
MissComponent ==
    /\ Walking /\ walk.how \in {"look", "again"}
    /\ Enter(walk.at, Component) = NoPlace
    /\ IF Now = "create" /\ walk.how = "look" /\ walk.at.ino.kind = "dir"
       THEN /\ walk' = [walk EXCEPT !.how = "make"]
            /\ UNCHANGED <<file, job, plan, code, fd, first, ns, leaked, held>> /\ Moving
       ELSE Fail

\* openat(O_CREAT | O_EXCL) of the last component, mkdirat of the others;
\* EEXIST is not an error.
MakeComponent ==
    /\ Walking /\ walk.how = "make"
    /\ LET slot == <<walk.at.ino, Component>>
           kind == IF walk.depth + 1 = Len(Here.path) THEN "file" ELSE "dir"
           made == [fs |-> walk.at.ino.fs, kind |-> kind, id |-> fresh]
       IN  IF slot \in DOMAIN entry
           THEN UNCHANGED <<entry, fresh>>
           ELSE /\ entry' = [e \in DOMAIN entry \cup {slot} |-> IF e = slot THEN made ELSE entry[e]]
                /\ fresh' = fresh + 1
    /\ walk' = [walk EXCEPT !.how = "again"]
    /\ UNCHANGED <<mounts, job, plan, code, fd, first, ns, leaked, held>> /\ Moving

Arrived == Now \in Walks /\ walk.depth = Len(Here.path)

\* safe_traverse returns: keep the descriptor.
Opened ==
    /\ Arrived /\ Now \in {"open", "create"}
    /\ fd' = walk.at /\ walk' = StartWalk
    /\ Advance
    /\ UNCHANGED <<file, job, first, ns, leaked, held>> /\ Moving

\* ensure_path_matches_fd: the path still leads to the inode behind the
\* descriptor; at the end of a pin, to the inode that was validated.
Rechecked ==
    /\ Arrived /\ Now \in {"recheck", "verify"}
    /\ IF walk.at.ino = (IF Now = "verify" THEN Here.ino ELSE fd.ino)
       THEN /\ walk' = StartWalk /\ Advance
            /\ UNCHANGED <<file, job, fd, first, ns, leaked, held>> /\ Moving
       ELSE Fail

(***************************************************************************)
(* Namespaces and mounts                                                   *)
(***************************************************************************)
\* unshare(CLONE_NEWNS | ...): from here on the mount tree is a copy of the
\* host's, with all that is mounted there.
Unshare ==
    /\ Now = "unshare"
    /\ ns' = [ns EXCEPT !.own = TRUE]
    /\ Advance /\ UNCHANGED <<file, job, walk, fd, first, leaked, held>> /\ Moving

\* make_root_private: mounts made from here on do not propagate.
MakeRootPrivate ==
    /\ Now = "rootprivate"
    /\ ns' = [ns EXCEPT !.private = TRUE]
    /\ Advance /\ UNCHANGED <<file, job, walk, fd, first, leaked, held>> /\ Moving

Mounted(new) ==
    /\ permitted # {}
    /\ mounts' = [k \in DOMAIN mounts \cup DOMAIN new |-> IF k \in DOMAIN new THEN new[k] ELSE mounts[k]]
    /\ leaked' = (leaked \/ ~ns.own \/ ~ns.private)
    /\ Advance /\ UNCHANGED <<entry, job, walk, fd, ns>> /\ Moving

EmptyDir == [fs |-> "tmp", kind |-> "dir", id |-> fresh]

\* apply_private_mounts, and mount_shadow_fd on a directory: an empty tmpfs.
MountTmpfs ==
    /\ Now = "tmpfs" \/ (Now = "shadow" /\ fd.ino.kind = "dir")
    /\ fresh' = fresh + 1 /\ UNCHANGED <<first, held>>
    /\ Mounted(One(On(fd, EmptyDir, FALSE)))

\* mount_shadow_fd on anything else: /dev/null.
MountNull ==
    /\ Now = "shadow" /\ fd.ino.kind # "dir"
    /\ UNCHANGED <<fresh, first, held>>
    /\ Mounted(One(On(fd, DevNull, FALSE)))

MountPoint(i) == \E k \in DOMAIN mounts : mounts[k].at = i

\* The self-bind of apply_readonly_mounts, and of pin_path_at_fd, which
\* first compares the descriptor with the validated inode.
Bind ==
    /\ Now = "bind"
    /\ IF Here.op = "pin" /\ fd.ino # Here.ino
       THEN Fail
       ELSE /\ UNCHANGED fresh /\ first' = fd.ino
            /\ held' = IF /\ Here.op = "pin"
                          /\ \A d \in 1 .. Len(Here.path) - 1 : MountPoint(Resolve(SubSeq(Here.path, 1, d)).ino)
                       THEN held \cup {Here.path} ELSE held
            /\ Mounted(SelfBind(fd))

\* pin_validated_path_parent.
BindParent ==
    /\ Now = "bindrec"
    /\ UNCHANGED <<fresh, first, held>>
    /\ Mounted(SelfBindRec(fd))

\* The second half of apply_readonly_mounts: the mount the path now leads to
\* becomes read-only, if it shows the inode that was bound.  The kernel
\* remounts only the root of a mount.
RemountReadOnly ==
    /\ Now = "remount"
    /\ IF fd.ino = first /\ fd.mnt > 0 /\ mounts[fd.mnt].root = fd.ino
       THEN /\ mounts' = [mounts EXCEPT ![fd.mnt].ro = TRUE]
            /\ Advance
            /\ UNCHANGED <<entry, fresh, job, walk, fd, first, ns, leaked, held>> /\ Moving
       ELSE Fail

(***************************************************************************)
(* drop_capabilities and exec                                              *)
(***************************************************************************)
Isolated == status = "setup" /\ code = <<>>

\* Mistake: the first capability is skipped
DropFromOne ==
    /\ Isolated /\ dropped <= LastCap
    /\ bounding' = bounding \ {dropped + 1}
    /\ dropped' = dropped + 1
    /\ UNCHANGED <<file, progress, leaked, held, inheritable, permitted, others, refused, status>>

\* drop_bounding_capabilities_with, one capability: 0 ..= cap_last_cap.
DropBounding ==
    /\ Isolated /\ dropped <= LastCap
    /\ bounding' = bounding \ {dropped}
    /\ dropped' = dropped + 1
    /\ UNCHANGED <<file, progress, leaked, held, inheritable, permitted, others, refused, status>>

\* capset with every set empty.
CapSet ==
    /\ Isolated /\ dropped = LastCap + 1 /\ permitted # {}
    /\ permitted' = {} /\ inheritable' = {}
    /\ UNCHANGED <<file, progress, leaked, held, bounding, dropped, others, refused, status>>

\* fexecve as root: the kernel grants what is inheritable or bounding.
Exec ==
    /\ Isolated /\ dropped = LastCap + 1 /\ permitted = {}
    /\ permitted' = inheritable \cup bounding
    /\ status' = "exec"
    /\ UNCHANGED <<file, progress, leaked, held, bounding, inheritable, dropped, others, refused>>

\* A system call of the wrapper is refused by the kernel.
Refuse ==
    /\ status = "setup"
    /\ refused' = TRUE /\ status' = "failed"
    /\ UNCHANGED <<file, progress, leaked, held, capabilities, others>>

Progress == \/ OpenComponent \/ MissComponent \/ MakeComponent \/ Opened \/ Rechecked
            \/ Unshare \/ MakeRootPrivate
            \/ MountTmpfs \/ MountNull \/ Bind \/ BindParent \/ RemountReadOnly
            \/ DropBounding \/ CapSet \/ Exec

Wrapper == Progress \/ Refuse

(***************************************************************************)
(* Other processes replace, make or remove directory entries, before and   *)
(* after exec.  A mount point is refused only to those in the namespace it *)
(* is mounted in: the command's own.                                       *)
(***************************************************************************)
Swap(slot, i) ==
    /\ swaps < MaxSwaps /\ status # "failed"
    /\ IF slot \in DOMAIN entry
       THEN /\ entry[slot] # i
            /\ pulled' = (pulled \/ MountPoint(entry[slot]))
       ELSE i # Nowhere /\ UNCHANGED pulled
    /\ entry' = [e \in (DOMAIN entry \cup {slot}) \ (IF i = Nowhere THEN {slot} ELSE {}) |->
                    IF e = slot THEN i ELSE entry[e]]
    /\ swaps' = swaps + 1
    /\ UNCHANGED <<mounts, fresh, progress, leaked, held, capabilities, refused, status>>

Next == \/ Wrapper
        \/ /\ job \in Contested
           /\ \E slot \in DOMAIN Others : \E i \in Others[slot] : Swap(slot, i)

Spec == Init /\ [][Next]_vars

(***************************************************************************)
(* Properties                                                              *)
(***************************************************************************)
Executed == status = "exec"
Listed(paths) == {paths[k] : k \in DOMAIN paths}
Beneath(p, q) == IsStrictPrefix(q, p)

\* The host has a mount at or above p, below q; it is covered if q is bound
\* without MS_REC ("/" is bound where nobody looks).
MountBetween(q, p) == q # <<>> /\ Beneath(p, q) /\ HostMount(p) # HostMount(q)

PinPaths(j) == {j.pins[k].path : k \in DOMAIN j.pins}

\* The command, and every path argument, is the file that was validated, for
\* as long as the command runs and whatever is renamed meanwhile, if the
\* directories above it were mount points when it was bound: it is compared
\* after it was mounted, and in this namespace a mount point cannot be renamed
\* or removed. Excepted are a change from another namespace that takes the mount
\* away with its directory (pulled), and an argument on a mount of the host
\* that a directory argument above it covers
\* (pin_path_at_fd, pin_parent_chain_for_path).
HeldArgumentsStay ==
    (Executed /\ ~pulled) => \A k \in DOMAIN job.pins : LET p == job.pins[k].path IN
        (p \in held /\ \A q \in PinPaths(job) : ~MountBetween(q, p)) => Resolve(p).ino = job.pins[k].ino

\* Paths whose mount a later non-recursive bind of an ancestor covers.
Uncovered(p) ==
    \A q \in Listed(job.readonly) \cup PinPaths(job) : ~Beneath(p, q)

Masked(p) == Resolve(p).ino.fs # "disk"

\* A blocked or private path shows nothing of the disk to the command,
\* whatever is mounted and bound after it (apply_private_mounts,
\* apply_blocked_paths before the binds of ancestors), if nobody replaced a
\* directory above it meanwhile.
MasksStay ==
    (Executed /\ swaps = 0) =>
        \A p \in Listed(job.blocked) \cup Listed(job.private) : Uncovered(p) => Masked(p)

\* POLICY.md:12: blocked paths are always denied.
BlockedAlwaysDenied == Executed => \A p \in Listed(job.blocked) : Masked(p)

\* What is left visible of a read-only tree cannot be written, whatever was
\* bound inside it or made read-only above it later (apply_readonly_mounts);
\* a directory argument above it covers its mount, like a mask.
ReadOnlyStays ==
    (Executed /\ swaps = 0) => \A q \in Listed(job.readonly) :
        (\A k \in DOMAIN job.pins : ~Beneath(q, job.pins[k].path)) =>
        \A p \in {Resolve(q)} \cup {Enter(Resolve(q), n) : n \in Names} :
            p.ino.fs = "disk" => ReadOnly(p.mnt)

\* No mount of the wrapper is seen outside its namespace: nothing is mounted
\* before the namespace is its own and its mounts are private.
HostUntouched == ~leaked

\* The command runs without capabilities, also those the kernel would grant
\* root again at exec.
CommandHasNoCapabilities == Executed => permitted = {}

\* The command can neither change the host's mounts nor its own confinement.
Confined == HostUntouched /\ CommandHasNoCapabilities

\* A policy and command that do not contradict themselves: what is bound,
\* overlaid or passed as an argument exists, no mask hides it, no path leads
\* through a symbolic link, and none lies on a mount of the host below a
\* directory that is bound without the mounts on it (mounts.rs:292, :150).
Exists(p) == Original(p) # Nowhere
Under(p, q) == p = q \/ Beneath(p, q)
Workable(j) ==
    LET masks == Listed(j.private) \cup Listed(j.blocked)
        bound == Listed(j.readonly) \cup PinPaths(j)
        paths == masks \cup bound
    IN
    /\ \A p \in paths, d \in 1 .. MaxDepth :
           d <= Len(p) => Original(SubSeq(p, 1, d)).kind # "link"
    /\ \A k \in DOMAIN j.private :
           Exists(j.private[k]) /\ \A i \in 1 .. k - 1 : ~Beneath(j.private[k], j.private[i])
    /\ \A p \in Listed(j.blocked), d \in 1 .. MaxDepth :
           d < Len(p) => LET q == SubSeq(p, 1, d) IN q \notin masks /\ Original(q).kind # "file"
    /\ \A p \in Listed(j.readonly) : Exists(p) /\ \A q \in masks : ~Beneath(p, q)
    /\ \A k \in DOMAIN j.pins : \A q \in masks : ~Under(j.pins[k].path, q)
    /\ \A p, q \in bound : ~MountBetween(q, p)

\* Without interference such a command is executed, however its paths nest or
\* repeat: no operation undoes what a later one needs, and no capability is
\* dropped while a mount still needs it.
UndisturbedSetupSucceeds == status = "failed" => refused \/ swaps > 0 \/ ~Workable(job)
============================================================================
