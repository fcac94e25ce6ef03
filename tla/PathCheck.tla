----------------------------- MODULE PathCheck -----------------------------
(***************************************************************************)
(* check_path: a path is walked from the root by hand, one openat per      *)
(* component, every symbolic link restarting the walk; the blocked paths   *)
(* were made canonical when the policy was loaded (validate).  Other       *)
(* processes may change the directories they can write to in between.      *)
(*                                                                         *)
(* A directory entry maps <<directory, name>> to an inode.  Files have one *)
(* name each.  A path is [abs, names]; ".." may be among the names.        *)
(***************************************************************************)
EXTENDS Integers, Sequences, SequencesExt, FiniteSetsExt

CONSTANTS Dirs, Files, Links,  \* inodes by kind
          Root,                \* the inode of "/"
          Name,                \* what a directory entry may be called
          Target,              \* link -> the path written in it
          MaxTarget,           \* the names in it, at most (PATH_MAX)
          Cases,               \* [entry : the directory tree, policy : names of absolute
                               \*  paths, alone : does no other process change anything]
          Requests(_),         \* the paths asked for, when alone and when not
          Writable,            \* the directories other processes can write to
          MaxSymlinkDepth,     \* MAX_SYMLINK_DEPTH
          KernelLinks,         \* the links the kernel follows in one path
          MaxChanges           \* bound: changes by other processes, where there are any

VARIABLES entry,      \* the directory tree, shared with other processes
          policy,     \* blocked_paths as written in the policy
          blocked,    \* those made canonical so far
          request,    \* the path asked for
          rest,       \* components still to be opened
          fd,         \* current_fd: the inode opened last
          canonical,  \* current_canonical
          links,      \* symlink_count
          result,     \* the path of the SecurePath returned
          alone,      \* no other process changes anything
          changes,    \* changes made so far by other processes
          guarded,    \* history: no blocked path is in reach of other processes
          strayed,    \* history: ".." was opened in a directory that had been moved
          status      \* "load", "walk", "accepted", "refused" or "no policy"

walk == <<rest, fd, canonical, links, strayed>>
disk == <<entry, alone, changes>>
loaded == <<policy, blocked, guarded>>
vars == <<disk, loaded, request, walk, result, status>>

Nothing == "nothing"
None == [abs |-> FALSE, names |-> <<>>]
Inode == Dirs \cup Files \cup Links

(***************************************************************************)
(* The kernel: what a name leads to now                                    *)
(***************************************************************************)
Lookup(d, n) == IF <<d, n>> \in DOMAIN entry THEN entry[<<d, n>>] ELSE Nothing
NamesOf(i) == {e \in DOMAIN entry : entry[e] = i}
Linked(i) == i = Root \/ NamesOf(i) # {}
Parent(i) == IF i = Root THEN Root ELSE (CHOOSE e \in NamesOf(i) : TRUE)[1]

\* readlink(/proc/self/fd/n): the names from the root to i now.
Unlinked == <<"(deleted)">>
PathIn(tree, i) ==
    LET path[j \in Inode] ==
            LET names == {e \in DOMAIN tree : tree[e] = j}
                e == CHOOSE e \in names : TRUE
            IN  IF j = Root THEN <<>>
                ELSE IF names = {} THEN Unlinked
                ELSE Append(path[e[1]], e[2])
    IN  path[i]
PathOf(i) == PathIn(entry, i)

\* Path resolution by the kernel, links followed in place: the inode, or
\* "missing" (ENOENT), or "error" (ENOTDIR, ELOOP).
KernelStep(w) ==
    LET n == Head(w.rest)
        next == IF n = ".." THEN Parent(w.at) ELSE Lookup(w.at, n)
    IN  IF w.at \notin Dirs THEN [w EXCEPT !.at = "error", !.rest = <<>>]
        ELSE IF next = Nothing THEN [w EXCEPT !.at = "missing", !.rest = <<>>]
        ELSE IF next \in Links
             THEN IF w.links = KernelLinks THEN [w EXCEPT !.at = "error", !.rest = <<>>]
                  ELSE [at |-> IF Target[next].abs THEN Root ELSE w.at,
                        rest |-> Target[next].names \o Tail(w.rest), links |-> w.links + 1]
        ELSE [w EXCEPT !.at = next, !.rest = Tail(@)]

\* The walk of names from the root, stage by stage: each consumes a name.
Reach(names) == Len(names) + KernelLinks * MaxTarget
Walk(names) ==
    LET stage[k \in 0 .. Reach(names)] ==
            IF k = 0 THEN [at |-> Root, rest |-> names, links |-> 0]
            ELSE LET w == stage[k - 1] IN IF w.rest = <<>> THEN w ELSE KernelStep(w)
    IN  stage

End(names) == Walk(names)[Reach(names)]
Names(names) == End(names).at

(***************************************************************************)
(* The constants: every tree is one, and paths are made of names           *)
(***************************************************************************)
Components == Name \cup {".."}

IsTree(tree) ==
    /\ DOMAIN tree \subseteq Dirs \X Name
    /\ \A e \in DOMAIN tree : tree[e] \in Inode \ {Root}
    /\ \A d, e \in DOMAIN tree : tree[d] = tree[e] => d = e
    /\ \A d \in Dirs \ {Root} : \E e \in DOMAIN tree : tree[e] = d
    /\ PathIn(tree, Root) = <<>>
    /\ \A d \in Dirs : PathIn(tree, d) \in Seq(Name)
    /\ \A e \in DOMAIN tree : PathIn(tree, tree[e]) = Append(PathIn(tree, e[1]), e[2])

ASSUME InodeAssumption ==
    /\ Root \in Dirs
    /\ Dirs \cap Files = {} /\ Dirs \cap Links = {} /\ Files \cap Links = {}
    /\ {Nothing, "missing", "error"} \cap Inode = {}
    /\ {"..", "(deleted)"} \cap Name = {}

ASSUME TargetAssumption ==
    /\ MaxTarget \in Nat
    /\ \A l \in Links : /\ Target[l].abs \in BOOLEAN
                        /\ Target[l].names \in Seq(Components)
                        /\ Len(Target[l].names) <= MaxTarget

\* The kernel follows at least as many links as check_path (32 and 40).
ASSUME LinksAssumption ==
    /\ MaxSymlinkDepth \in Nat /\ KernelLinks \in Nat
    /\ MaxSymlinkDepth <= KernelLinks

ASSUME CasesAssumption ==
    /\ Writable \subseteq Dirs
    /\ MaxChanges \in Nat
    /\ \A c \in Cases : /\ IsTree(c.entry)
                        /\ c.alone \in BOOLEAN
                        /\ c.policy \in Seq(Seq(Components))
    /\ \A quiet \in BOOLEAN : \A r \in Requests(quiet) :
           r.abs \in BOOLEAN /\ r.names \in Seq(Components)

(***************************************************************************)
(* The policy and the walk of check_path                                   *)
(***************************************************************************)
\* check_blocked: component by component, not character by character.
Under(p, bs) == \E k \in DOMAIN bs : IsPrefix(bs[k], p)

\* Neither of the two paths is at or below the other.
Apart(p, q) == ~IsPrefix(p, q) /\ ~IsPrefix(q, p)

Init ==
    /\ \E c \in Cases : entry = c.entry /\ policy = c.policy /\ alone = c.alone
    /\ request = None
    /\ blocked = <<>> /\ rest = <<>> /\ fd = Root /\ canonical = <<>> /\ links = 0
    /\ result = <<>> /\ changes = 0 /\ status = "load"
    /\ guarded = TRUE /\ strayed = FALSE

Fail(s) ==
    /\ status' = s
    /\ UNCHANGED <<disk, loaded, request, walk, result>>

Loading == status = "load" /\ Len(blocked) < Len(policy)
Written == policy[Len(blocked) + 1]

Block(p) ==
    /\ blocked' = Append(blocked, p)
    /\ guarded' = (guarded /\ \A d \in Writable : Apart(p, PathOf(d)))
    /\ UNCHANGED <<disk, policy, request, walk, result, status>>

\* Mistake: a blocked path is kept as it is written
KeepAsWritten == Loading /\ Block(Written)

\* One blocked path of validate: std::fs::canonicalize; a path that does not
\* exist stays as it is, any other error refuses the policy.
CanonicalizeBlocked ==
    /\ Loading
    /\ LET i == Names(Written) IN
       IF i = "error" THEN Fail("no policy")
       ELSE Block(IF i = "missing" THEN Written ELSE PathOf(i))

\* check_path: only absolute paths are looked at.
StartCheck ==
    /\ status = "load" /\ ~Loading
    /\ request' \in Requests(alone)
    /\ IF request'.abs THEN status' = "walk" /\ rest' = request'.names
       ELSE status' = "refused" /\ UNCHANGED rest
    /\ UNCHANGED <<disk, loaded, fd, canonical, links, strayed, result>>

Walking == status = "walk" /\ rest # <<>>
Component == Head(rest)
Opened == IF fd \notin Dirs THEN Nothing
          ELSE IF Component = ".." THEN Parent(fd)
          ELSE Lookup(fd, Component)

\* openat fails.
MissComponent == Walking /\ Opened = Nothing /\ Fail("refused")

\* The walk starts again from the root with these components.
Restart(names) ==
    /\ rest' = names /\ fd' = Root /\ canonical' = <<>>
    /\ UNCHANGED <<disk, loaded, request, strayed, result, status>>

\* Mistake: a relative target is resolved from the root
FollowFromRoot ==
    /\ Walking /\ Opened \in Links
    /\ IF links + 1 > MaxSymlinkDepth
       THEN Fail("refused")
       ELSE links' = links + 1 /\ Restart(Target[Opened].names \o Tail(rest))

\* Mistake: every link restarts the count
FollowUncounted ==
    /\ Walking /\ Opened \in Links
    /\ Restart((IF Target[Opened].abs THEN <<>> ELSE canonical) \o Target[Opened].names \o Tail(rest))
    /\ UNCHANGED links

\* A symbolic link: its target, read from the link that was opened, joined to
\* current_canonical unless it is absolute, and the components left are
\* resolved from the root.
FollowLink ==
    /\ Walking /\ Opened \in Links
    /\ IF links + 1 > MaxSymlinkDepth
       THEN Fail("refused")
       ELSE /\ links' = links + 1
            /\ Restart((IF Target[Opened].abs THEN <<>> ELSE canonical) \o Target[Opened].names \o Tail(rest))

\* current_canonical with the component pushed, or popped for "..".
Here == IF Component # ".." THEN Append(canonical, Component)
        ELSE IF canonical = <<>> THEN <<>> ELSE Front(canonical)

Enter ==
    /\ canonical' = Here /\ fd' = Opened /\ rest' = Tail(rest)
    /\ strayed' = (strayed \/ (Component = ".." /\ canonical # PathOf(fd)))
    /\ UNCHANGED <<disk, loaded, request, links, result, status>>

\* Mistake: a component is entered without check_blocked
EnterUnchecked == Walking /\ Opened \in Dirs \cup Files /\ Enter

\* A directory or file, or "..": check_blocked on the path so far.
EnterComponent ==
    /\ Walking /\ Opened \in Dirs \cup Files
    /\ IF Under(Here, blocked) THEN Fail("refused") ELSE Enter

\* No component is left: the path is the one the kernel gives the descriptor.
ReadBack ==
    /\ status = "walk" /\ rest = <<>>
    /\ result' = PathOf(fd) /\ status' = "accepted"
    /\ UNCHANGED <<disk, loaded, request, walk>>

WalkOn == MissComponent \/ FollowLink \/ EnterComponent \/ ReadBack
Step == CanonicalizeBlocked \/ StartCheck \/ WalkOn

(***************************************************************************)
(* Other processes                                                         *)
(***************************************************************************)
Changing ==
    /\ ~alone /\ changes < MaxChanges /\ changes' = changes + 1
    /\ UNCHANGED <<alone, loaded, request, walk, result, status>>

\* A name that is free, or a file's or a link's, becomes another link.
ReplaceByLink ==
    /\ Changing
    /\ \E d \in Writable, n \in {e[2] : e \in DOMAIN entry}, l \in Links :
          /\ Lookup(d, n) \notin Dirs
          /\ ~Linked(l)
          /\ entry' = [e \in DOMAIN entry \cup {<<d, n>>} |-> IF e = <<d, n>> THEN l ELSE entry[e]]

\* rename(2) of an entry to a free name, not below itself.
Rename ==
    /\ Changing
    /\ \E from \in DOMAIN entry, d \in Writable, n \in {e[2] : e \in DOMAIN entry} :
          /\ from[1] \in Writable
          /\ <<d, n>> \notin DOMAIN entry
          /\ ~IsPrefix(PathOf(entry[from]), PathOf(d))
          /\ entry' = [e \in (DOMAIN entry \ {from}) \cup {<<d, n>>} |->
                          IF e = <<d, n>> THEN entry[from] ELSE entry[e]]

Next == Step \/ ReplaceByLink \/ Rename

Spec == Init /\ [][Next]_vars
\* The gatekeeper keeps running; nothing is assumed of the other processes.
FairSpec == Spec /\ WF_vars(WalkOn)

(***************************************************************************)
(* Properties                                                              *)
(***************************************************************************)
Done == status \in {"accepted", "refused", "no policy"}

\* The walk by hand agrees with the kernel: an accepted path is the canonical
\* name of the very file the request names, whatever links, relative or
\* absolute, and ".." lead there (resolve_securely restarts with a joined
\* text at every link).
AcceptedIsTheFileNamed ==
    (status = "accepted" /\ changes = 0) => Names(request.names) = fd /\ result = PathOf(fd)

\* The path and the descriptor returned are the same file, and a walk of the
\* returned path ends at itself: checking it again changes nothing.
AcceptedIsCanonical ==
    (status = "accepted" /\ changes = 0) => result = canonical /\ Names(result) = fd

\* Nothing is refused without a reason: the kernel could not open the path,
\* the walk met more links than allowed, or it came by a blocked path.
RefusedForAReason ==
    (status = "refused" /\ changes = 0 /\ request.abs)
        => LET way == Walk(request.names)
           IN  \/ End(request.names).at \in {"missing", "error"}
               \/ End(request.names).links > MaxSymlinkDepth
               \/ \E k \in DOMAIN way : way[k].at \in Dirs \cup Files /\ Under(PathOf(way[k].at), blocked)

\* check_path is the kernel's path resolution, made canonical and cut short at
\* blocked paths and long chains of links.
AgreesWithKernel == AcceptedIsTheFileNamed /\ AcceptedIsCanonical /\ RefusedForAReason

\* A blocked path is blocked under each of its names: written in the policy
\* through links or not, and asked for through links and ".." or not.  The one
\* exception is "/", which has no component to check.
BlockedByEveryName ==
    (status = "accepted" /\ changes = 0 /\ result # <<>>)
        => \A k \in DOMAIN policy :
              LET i == Names(policy[k])
              IN  i \in Dirs \cup Files => ~IsPrefix(PathOf(i), result)

\* Blocked paths hold against other processes: whatever they do in directories
\* they can write to, no accepted path lies at or below a path that was
\* blocked when the policy was loaded (check_blocked after every component).
\* It takes two things: that those directories were neither above nor below
\* a blocked path, and that ".." was not opened in a directory that was moved
\* meanwhile, where the kernel goes to the present parent and the text that
\* is compared to the former one.
BlockedIsNeverAccepted ==
    (status = "accepted" /\ result # <<>> /\ (changes = 0 \/ (guarded /\ ~strayed)))
        => ~Under(result, blocked)

\* Every check comes to an end, also while links are replaced under its feet:
\* the number of links followed is limited (MAX_SYMLINK_DEPTH).
CheckEnds == status = "walk" ~> Done
=============================================================================
