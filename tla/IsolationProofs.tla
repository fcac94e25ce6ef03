-------------------------- MODULE IsolationProofs --------------------------
(***************************************************************************)
(* Proofs about module Isolation, for every disk, job, tree of mounts and  *)
(* number of capabilities: the host never sees a mount, the command runs   *)
(* without capabilities, no mask of a blocked or private path is uncovered *)
(* and no read-only path writable by what the wrapper mounts after it.  A  *)
(* job that does not contradict itself is executed, if nobody interferes.  *)
(***************************************************************************)
EXTENDS Isolation, Induction

(***************************************************************************)
(* No mount is made before the namespace is the wrapper's own and private: *)
(* until then the only system calls left of the first operation are those  *)
(* of unshare_namespaces and make_root_private.                            *)
(***************************************************************************)
NamespaceInv ==
    /\ ns \in [own : BOOLEAN, private : BOOLEAN]
    /\ leaked = FALSE
    /\ \/ code = <<"unshare", "rootprivate">>
       \/ code = <<"rootprivate">> /\ ns.own
       \/ ns.own /\ ns.private

LEMMA NamespaceInit == Init => NamespaceInv
BY DEF Init, NamespaceInv, Program

\* The steps that leave the namespace alone keep the invariant: a mount, and
\* any step of a traversal, is out of reach before the tree is private.
LEMMA NamespaceKept ==
    ASSUME NamespaceInv, UNCHANGED ns,
           Now \notin {"unshare", "rootprivate"},
           status = "setup" /\ code # <<>>,
           (leaked' = leaked) \/ (leaked' = (leaked \/ ~ns.own \/ ~ns.private))
    PROVE  NamespaceInv'
<1>1. ns.own /\ ns.private
  BY DEF NamespaceInv, Now
<1>. QED
  BY <1>1 DEF NamespaceInv

LEMMA NamespaceUnchanged ==
    ASSUME NamespaceInv, UNCHANGED <<ns, leaked, code>>
    PROVE  NamespaceInv'
BY DEF NamespaceInv

LEMMA NamespaceNext == NamespaceInv /\ [Next]_vars => NamespaceInv'
<1>. SUFFICES ASSUME NamespaceInv, [Next]_vars PROVE NamespaceInv'
  OBVIOUS
<1>1. CASE Fail
  BY <1>1, NamespaceUnchanged DEF Fail, progress
<1>2. CASE Unshare
  <2>1. code = <<"unshare", "rootprivate">> \/ (ns.own /\ ns.private)
    BY <1>2 DEF Unshare, Now, NamespaceInv
  <2>2. CASE code = <<"unshare", "rootprivate">>
    <3>1. Len(code) = 2 /\ Tail(code) = <<"rootprivate">>
      BY <2>2
    <3>2. code' = <<"rootprivate">>
      <4>1. Advance
        BY <1>2 DEF Unshare
      <4>2. Len(code) > 1
        BY <3>1
      <4>3. code' = Tail(code)
        BY <4>1, <4>2 DEF Advance
      <4>. QED
        BY <3>1, <4>3
    <3>. QED
      BY <1>2, <3>2 DEF Unshare, NamespaceInv
  <2>3. CASE ns.own /\ ns.private
    BY <1>2, <2>3 DEF Unshare, NamespaceInv
  <2>. QED
    BY <2>1, <2>2, <2>3
<1>3. CASE MakeRootPrivate
  <2>1. ns.own
    BY <1>3 DEF MakeRootPrivate, Now, NamespaceInv
  <2>. QED
    BY <1>3, <2>1 DEF MakeRootPrivate, NamespaceInv
<1>4. ASSUME OpenComponent \/ MissComponent \/ MakeComponent, ~Fail PROVE NamespaceInv'
  BY <1>4, NamespaceUnchanged
  DEF OpenComponent, MissComponent, MakeComponent
<1>5. ASSUME Opened \/ Rechecked, ~Fail PROVE NamespaceInv'
  BY <1>5, NamespaceKept DEF Opened, Rechecked, Arrived, Walks, Now
<1>6. CASE MountTmpfs
  BY <1>6, NamespaceKept DEF MountTmpfs, Mounted, Now
<1>7. CASE MountNull
  BY <1>7, NamespaceKept DEF MountNull, Mounted, Now
<1>8. ASSUME Bind, ~Fail PROVE NamespaceInv'
  BY <1>8, NamespaceKept DEF Bind, Mounted, Now
<1>9. CASE BindParent
  BY <1>9, NamespaceKept DEF BindParent, Mounted, Now
<1>10. ASSUME RemountReadOnly, ~Fail PROVE NamespaceInv'
  BY <1>10, NamespaceKept DEF RemountReadOnly, Now
<1>11. CASE DropBounding \/ CapSet \/ Exec \/ Refuse
  BY <1>11, NamespaceUnchanged DEF DropBounding, CapSet, Exec, Refuse, progress
<1>12. ASSUME NEW slot, NEW i, Swap(slot, i) PROVE NamespaceInv'
  BY <1>12, NamespaceUnchanged DEF Swap, progress
<1>13. CASE UNCHANGED vars
  BY <1>13, NamespaceUnchanged DEF vars, progress
<1>. QED
  BY <1>1, <1>2, <1>3, <1>4, <1>5, <1>6, <1>7, <1>8, <1>9, <1>10, <1>11, <1>12, <1>13
  DEF Next, Wrapper, Progress

(* Nothing the wrapper mounts is ever seen in the host's namespace           *)
(* (setup_isolation: unshare, then make_root_private, then the mounts).      *)
THEOREM HostUntouchedTheorem == Spec => []HostUntouched
<1>1. NamespaceInv => HostUntouched
  BY DEF NamespaceInv, HostUntouched
<1>. QED
  BY <1>1, NamespaceInit, NamespaceNext, PTL DEF Spec

(***************************************************************************)
(* The capabilities below the counter are gone from the bounding set, and  *)
(* nothing is inheritable once capset has emptied the permitted set.       *)
(***************************************************************************)
CapabilityInv ==
    /\ dropped \in 0 .. LastCap + 1
    /\ bounding \subseteq Caps
    /\ \A c \in bounding : c >= dropped
    /\ permitted = {} => inheritable = {}
    /\ CommandHasNoCapabilities
    /\ Executed => inheritable = {}

LEMMA CapabilityInit == Init => CapabilityInv
BY LastCapAssumption
DEF Init, CapabilityInv, Caps, CommandHasNoCapabilities, Executed

LEMMA CapabilityUnchanged ==
    ASSUME CapabilityInv, UNCHANGED capabilities, status' # "exec" \/ status' = status
    PROVE  CapabilityInv'
BY DEF CapabilityInv, capabilities, CommandHasNoCapabilities, Executed, Caps

LEMMA CapabilityNext == CapabilityInv /\ [Next]_vars => CapabilityInv'
<1>. SUFFICES ASSUME CapabilityInv, [Next]_vars PROVE CapabilityInv'
  OBVIOUS
<1>1. CASE Fail
  BY <1>1, CapabilityUnchanged DEF Fail
<1>2. ASSUME OpenComponent \/ MissComponent \/ MakeComponent \/ Opened \/ Rechecked, ~Fail
      PROVE  CapabilityInv'
  BY <1>2, CapabilityUnchanged
  DEF OpenComponent, MissComponent, MakeComponent, Opened, Rechecked, Moving
<1>3. CASE Unshare \/ MakeRootPrivate
  BY <1>3, CapabilityUnchanged DEF Unshare, MakeRootPrivate, Moving
<1>4. ASSUME MountTmpfs \/ MountNull \/ Bind \/ BindParent \/ RemountReadOnly, ~Fail
      PROVE  CapabilityInv'
  BY <1>4, CapabilityUnchanged
  DEF MountTmpfs, MountNull, Bind, BindParent, RemountReadOnly, Mounted, Moving
<1>5. CASE DropBounding
  BY <1>5, LastCapAssumption
  DEF DropBounding, Isolated, CapabilityInv, Caps, CommandHasNoCapabilities, Executed
<1>6. CASE CapSet
  BY <1>6 DEF CapSet, Isolated, CapabilityInv, Caps, CommandHasNoCapabilities, Executed
<1>7. CASE Exec
  <2>1. bounding = {}
    BY <1>7, LastCapAssumption DEF Exec, CapabilityInv, Caps
  <2>. QED
    BY <1>7, <2>1 DEF Exec, CapabilityInv, Caps, CommandHasNoCapabilities, Executed
<1>8. CASE Refuse
  BY <1>8, CapabilityUnchanged DEF Refuse
<1>9. ASSUME NEW slot, NEW i, Swap(slot, i) PROVE CapabilityInv'
  BY <1>9, CapabilityUnchanged DEF Swap
<1>10. CASE UNCHANGED vars
  BY <1>10, CapabilityUnchanged DEF vars
<1>. QED
  BY <1>1, <1>2, <1>3, <1>4, <1>5, <1>6, <1>7, <1>8, <1>9, <1>10 DEF Next, Wrapper, Progress

(* The delegated command never holds a capability, whatever the last        *)
(* capability of the kernel is (drop_capabilities before fexecve).           *)
THEOREM CommandHasNoCapabilitiesTheorem == Spec => []CommandHasNoCapabilities
<1>1. CapabilityInv => CommandHasNoCapabilities
  BY DEF CapabilityInv
<1>. QED
  BY <1>1, CapabilityInit, CapabilityNext, PTL DEF Spec

(* What the policy lists, how many capabilities there are, and what others   *)
(* do to the disk leave the command confined.                                *)
THEOREM ConfinedTheorem == Spec => []Confined
BY HostUntouchedTheorem, CommandHasNoCapabilitiesTheorem, PTL DEF Confined

(***************************************************************************)
(* Paths                                                                   *)
(***************************************************************************)

\* The paths of the model: sequences of names of bounded length.
LEMMA PathFacts ==
    /\ \A p : p \in Paths <=> p \in Seq(Names) /\ Len(p) <= MaxDepth + 1
    /\ \A p : p \in Listable <=> p \in Seq(Names) /\ Len(p) <= MaxDepth
    /\ \A p \in Listable : p \in Paths
    /\ <<>> \in Paths
<1>1. ASSUME NEW m \in Nat PROVE \A p : p \in SeqOf(Names, m) <=> p \in Seq(Names) /\ Len(p) <= m
  <2>1. ASSUME NEW p \in SeqOf(Names, m) PROVE p \in Seq(Names) /\ Len(p) <= m
    BY <2>1, SMTT(30) DEF SeqOf
  <2>2. ASSUME NEW p \in Seq(Names), Len(p) <= m PROVE p \in SeqOf(Names, m)
    <3>1. Len(p) \in 0 .. m /\ p \in [1 .. Len(p) -> Names]
      BY <2>2
    <3> QED BY <3>1 DEF SeqOf
  <2> QED BY <2>1, <2>2
<1>2. MaxDepth \in Nat /\ MaxDepth + 1 \in Nat
  BY MaxDepthAssumption
<1>3. \A p : p \in Paths <=> p \in Seq(Names) /\ Len(p) <= MaxDepth + 1
  BY <1>1, <1>2 DEF Paths
<1>4. \A p : p \in Listable <=> p \in Seq(Names) /\ Len(p) <= MaxDepth
  BY <1>1, <1>2 DEF Listable
<1>5. \A p \in Listable : p \in Paths
  <2> TAKE p \in Listable
  <2>1. p \in Seq(Names) /\ Len(p) <= MaxDepth /\ Len(p) \in Nat
    BY <1>4
  <2>2. Len(p) <= MaxDepth + 1
    BY <1>2, <2>1
  <2> QED BY <1>3, <2>1, <2>2
<1>6. <<>> \in Seq(Names) /\ Len(<<>>) <= MaxDepth + 1
  BY <1>2
<1> QED BY <1>3, <1>4, <1>5, <1>6

\* A path with one component more.
LEMMA Longer ==
    ASSUME NEW p \in Seq(Names), NEW c \in Names
    PROVE  /\ Append(p, c) \in Seq(Names) /\ Len(Append(p, c)) = Len(p) + 1 /\ Len(p) \in Nat
           /\ \A i \in 1 .. Len(p) : Append(p, c)[i] = p[i]
           /\ Append(p, c)[Len(p) + 1] = c
           /\ Append(p, c) # <<>>
           /\ Append(p, c) \in Paths => p \in Listable /\ p \in Paths
<1>1. /\ Append(p, c) \in Seq(Names) /\ Len(Append(p, c)) = Len(p) + 1 /\ Len(p) \in Nat
      /\ \A i \in 1 .. Len(p) : Append(p, c)[i] = p[i]
      /\ Append(p, c)[Len(p) + 1] = c /\ Append(p, c) # <<>>
  BY AppendProperties
<1>2. MaxDepth \in Nat
  BY MaxDepthAssumption
<1>3. ASSUME Append(p, c) \in Paths PROVE p \in Listable /\ p \in Paths
  <2>1. Len(Append(p, c)) <= MaxDepth + 1
    BY <1>3, PathFacts
  <2>2. Len(p) <= MaxDepth
    BY <1>1, <1>2, <2>1
  <2>3. p \in Listable
    BY <2>2, PathFacts
  <2> QED BY <2>3, PathFacts
<1> QED BY <1>1, <1>3

\* What "/" has, and every path has whose parent has it, every path has.
LEMMA PathInduction ==
    ASSUME NEW P, <<>> \in P,
           \A p \in Seq(Names), c \in Names : Append(p, c) \in Paths /\ p \in P => Append(p, c) \in P
    PROVE  \A p \in Paths : p \in P
<1> DEFINE S == {p \in Seq(Names) : p \in Paths => p \in P}
<1>1. <<>> \in S
  OBVIOUS
<1>2. ASSUME NEW p \in Seq(Names), NEW c \in Names, p \in S PROVE Append(p, c) \in S
  BY <1>2, Longer
<1>3. \A p \in Seq(Names) : p \in S
  <2> HIDE DEF S
  <2> QED BY <1>1, <1>2, SequenceInduction
<1> QED BY <1>3, PathFacts

(***************************************************************************)
(* Mounts                                                                  *)
(***************************************************************************)

\* A place of the tree, what a mount is, and where mount k hangs.
Place == [mnt : Nat, ino : Inode]
MountRecord == [mnt : Nat, at : Inode, root : Inode, ro : BOOLEAN]
Hangs(M, k, l) == M[k].mnt = l.mnt /\ M[k].at = l.ino
Shown(M, k) == [mnt |-> k, ino |-> M[k].root]
Covered(M, k) == [mnt |-> M[k].mnt, ino |-> M[k].at]

\* Every mount hangs on an older one, and no two on the same place.
Hung(M) ==
    /\ \E b \in Nat : DOMAIN M \subseteq 1 .. b
    /\ \A k \in DOMAIN M : M[k] \in MountRecord /\ M[k].mnt < k /\ M[k].mnt \in DOMAIN M \cup {0}
    /\ \A j, k \in DOMAIN M : M[j].mnt = M[k].mnt /\ M[j].at = M[k].at => j = k

\* Before the first mount.
LEMMA NoMounts == Hung(<<>>) /\ DOMAIN <<>> = {}
<1>1. DOMAIN <<>> = {}
  OBVIOUS
<1>2. DOMAIN <<>> \subseteq 1 .. 0 /\ 0 \in Nat
  BY <1>1
<1> QED BY <1>1, <1>2 DEF Hung

\* What a mount of such a table is.
LEMMA HungFacts ==
    ASSUME NEW M, Hung(M), NEW k \in DOMAIN M
    PROVE  /\ k \in Nat /\ k > 0 /\ M[k] \in MountRecord /\ M[k].mnt \in Nat /\ M[k].mnt < k
           /\ M[k].at \in Inode /\ M[k].root \in Inode /\ M[k].ro \in BOOLEAN
           /\ Shown(M, k) \in Place /\ Covered(M, k) \in Place
           /\ Shown(M, k).mnt = k /\ Shown(M, k).ino = M[k].root
           /\ Hangs(M, k, Covered(M, k))
<1>1. k \in Nat /\ k > 0
  BY DEF Hung
<1>2. M[k] \in MountRecord /\ M[k].mnt < k
  BY DEF Hung
<1>3. M[k].mnt \in Nat /\ M[k].at \in Inode /\ M[k].root \in Inode /\ M[k].ro \in BOOLEAN
  BY <1>2 DEF MountRecord
<1> QED BY <1>1, <1>2, <1>3 DEF Shown, Covered, Place, Hangs

\* The youngest mount has the largest id.
LEMMA YoungestFacts ==
    ASSUME NEW M, Hung(M)
    PROVE  /\ Youngest(M) \in Nat /\ Youngest(M) \in DOMAIN M \cup {0}
           /\ \A k \in DOMAIN M : k \in 1 .. Youngest(M)
           /\ Youngest(M) + 1 \notin DOMAIN M
<1> DEFINE S == DOMAIN M \cup {0}
<1>1. PICK b \in Nat : DOMAIN M \subseteq 1 .. b
  BY DEF Hung
<1>2. S \in SUBSET (0 .. b) /\ S # {}
  BY <1>1
<1>3. PICK n \in S : \A m \in S : m <= n
  <2> HIDE DEF S
  <2> QED BY <1>2, GreatestNumber
<1>4. Youngest(M) = CHOOSE x \in S : \A y \in S : x >= y
  BY DEF Youngest, Max
<1>5. \A y \in S : n >= y
  <2> TAKE y \in S
  <2>1. y \in 0 .. b /\ n \in 0 .. b /\ y <= n
    BY <1>2, <1>3
  <2> QED BY <2>1
<1>6. Youngest(M) \in S /\ \A y \in S : Youngest(M) >= y
  <2> HIDE DEF S
  <2> QED BY <1>4, <1>5
<1>7. Youngest(M) \in 0 .. b /\ Youngest(M) \in Nat
  <2> HIDE DEF S
  <2>1. Youngest(M) \in 0 .. b
    BY <1>2, <1>6
  <2> QED BY <1>1, <2>1
<1>8. ASSUME NEW k \in DOMAIN M PROVE k \in 1 .. Youngest(M)
  <2>1. k \in 1 .. b /\ Youngest(M) >= k
    BY <1>1, <1>6
  <2> QED BY <1>7, <2>1
<1> QED BY <1>6, <1>7, <1>8

\* One step of the climb.
Up(M, k, l) == IF k \in DOMAIN M /\ M[k].mnt = l.mnt /\ M[k].at = l.ino THEN Shown(M, k) ELSE l

\* It stays in the tree.
LEMMA UpType ==
    ASSUME NEW M, Hung(M), NEW k, NEW l \in Place
    PROVE  Up(M, k, l) \in Place
BY HungFacts DEF Up

\* g is the climb of TopIn from l.
Climbs(M, l, g) ==
    /\ g \in [0 .. Youngest(M) -> Place]
    /\ g[0] = l
    /\ \A k \in 1 .. Youngest(M) : g[k] = Up(M, k, g[k - 1])
    /\ TopIn(M, l) = g[Youngest(M)]

\* The recursive function of TopIn is such a climb.
LEMMA ClimbExists ==
    ASSUME NEW M, Hung(M), NEW l \in Place
    PROVE  \E g : Climbs(M, l, g)
<1> DEFINE b == Youngest(M)
           Is(f) == f = [k \in 0 .. b |-> IF k = 0 THEN l ELSE Up(M, k, f[k - 1])]
           c == CHOOSE f : Is(f)
           step == [p \in (1 .. b) \X Place |-> Up(M, p[1], p[2])]
<1>1. b \in Nat
  BY YoungestFacts
<1>4. step \in [(1 .. b) \X Place -> Place]
  <2> HIDE DEF b
  <2> QED BY UpType
<1>5. \A i \in 1 .. b, w \in Place : step[<<i, w>>] = Up(M, i, w)
  <2> HIDE DEF b
  <2> QED OBVIOUS
<1>6. PICK f \in [0 .. b -> Place] : Recursive(f, b, l, step)
  <2> HIDE DEF b, step
  <2> QED BY <1>1, <1>4, RecursionExists
<1>7. f[0] = l /\ \A k \in 1 .. b : f[k] = Up(M, k, f[k - 1])
  <2> HIDE DEF b, step
  <2>1. f[0] = l
    BY <1>6 DEF Recursive
  <2>2. ASSUME NEW k \in 1 .. b PROVE f[k] = Up(M, k, f[k - 1])
    <3>1. k - 1 \in 0 .. b
      BY <1>1
    <3>2. f[k - 1] \in Place
      BY <1>6, <3>1
    <3> QED BY <1>5, <1>6, <3>2 DEF Recursive
  <2> QED BY <2>1, <2>2
<1>8. Is(f)
  <2> HIDE DEF b, step
  <2>1. ASSUME NEW k \in 0 .. b PROVE f[k] = IF k = 0 THEN l ELSE Up(M, k, f[k - 1])
    <3>1. k = 0 \/ k \in 1 .. b
      BY <1>1
    <3> QED BY <1>7, <3>1
  <2>2. f = [k \in 0 .. b |-> f[k]]
    BY <1>6
  <2> QED BY <2>1, <2>2
<1>9. Is(c)
  <2> HIDE DEF b
  <2> QED BY <1>8
<1>10. TopIn(M, l) = c[b]
  BY DEF TopIn, Up, Shown
<1>11. /\ DOMAIN c = 0 .. b
       /\ \A k \in 0 .. b : c[k] = IF k = 0 THEN l ELSE Up(M, k, c[k - 1])
  <2> HIDE DEF c, b
  <2> QED BY <1>9
<1> HIDE DEF c
<1>12. c[0] = l
  BY <1>1, <1>11
<1>13. ASSUME NEW k \in 1 .. b PROVE c[k] = Up(M, k, c[k - 1])
  <2>1. k \in 0 .. b /\ k # 0
    BY <1>1
  <2> HIDE DEF b
  <2> QED BY <1>11, <2>1
<1>14. \A k \in 0 .. b : c[k] \in Place
  <2> DEFINE S == {k \in 0 .. b : c[k] \in Place}
  <2> HIDE DEF b
  <2>1. 0 \in S
    BY <1>1, <1>12
  <2>2. ASSUME NEW k \in 0 .. b, k \in S /\ k < b PROVE k + 1 \in S
    <3>1. k + 1 \in 1 .. b /\ k + 1 \in 0 .. b /\ (k + 1) - 1 = k
      BY <1>1, <2>2
    <3>2. c[k + 1] = Up(M, k + 1, c[k])
      BY <1>13, <3>1
    <3> QED BY <2>2, <3>1, <3>2, UpType
  <2>3. \A k \in 0 .. b : k \in S
    <3> HIDE DEF S
    <3> QED BY <1>1, <2>1, <2>2, BoundedInduction
  <2> QED BY <2>3
<1>15. c \in [0 .. b -> Place]
  <2>1. c = [k \in 0 .. b |-> c[k]]
    <3> HIDE DEF b
    <3>1. Is(c)
      BY <1>9 DEF c
    <3> QED BY <3>1, <1>11
  <2> HIDE DEF b
  <2> QED BY <1>14, <2>1
<1> QED BY <1>10, <1>12, <1>13, <1>15 DEF Climbs

\* What a place has, and every mount that hangs on such a place shows, the
\* top of its stack has.
LEMMA ClimbInduction ==
    ASSUME NEW M, Hung(M), NEW l \in Place, NEW g, Climbs(M, l, g), NEW S, l \in S,
           \A x \in Place, k \in DOMAIN M : x \in S /\ Hangs(M, k, x) => Shown(M, k) \in S
    PROVE  \A k \in 0 .. Youngest(M) : g[k] \in S
<1> DEFINE b == Youngest(M)
           T == {k \in 0 .. b : g[k] \in S}
<1>1. b \in Nat
  BY YoungestFacts
<1>2. 0 \in T
  BY <1>1 DEF Climbs
<1>3. ASSUME NEW k \in 0 .. b, k \in T /\ k < b PROVE k + 1 \in T
  <2>1. k + 1 \in 1 .. b /\ k + 1 \in 0 .. b /\ (k + 1) - 1 = k
    BY <1>1, <1>3
  <2>2. g[k + 1] = Up(M, k + 1, g[k]) /\ g[k] \in Place /\ g[k] \in S
    BY <1>3, <2>1 DEF Climbs
  <2>3. g[k + 1] \in S
    BY <2>2 DEF Up, Hangs
  <2> QED BY <2>1, <2>3
<1>4. \A k \in 0 .. b : k \in T
  <2> HIDE DEF T, b
  <2> QED BY <1>1, <1>2, <1>3, BoundedInduction
<1> QED BY <1>4

\* What a place has, and what a mount takes over from its place, the top of
\* the stack has.
LEMMA TopInduction ==
    ASSUME NEW M, Hung(M), NEW l \in Place, NEW S, l \in S,
           \A x \in Place, k \in DOMAIN M : x \in S /\ Hangs(M, k, x) => Shown(M, k) \in S
    PROVE  TopIn(M, l) \in S
<1>1. PICK g : Climbs(M, l, g)
  BY ClimbExists
<1>2. \A k \in 0 .. Youngest(M) : g[k] \in S
  BY <1>1, ClimbInduction
<1>3. Youngest(M) \in 0 .. Youngest(M)
  BY YoungestFacts
<1> QED BY <1>1, <1>2, <1>3 DEF Climbs

\* Nothing hangs on the top of a stack; a place nothing hangs on is its own.
LEMMA TopFacts ==
    ASSUME NEW M, Hung(M), NEW l \in Place
    PROVE  /\ TopIn(M, l) \in Place
           /\ \A k \in DOMAIN M : ~Hangs(M, k, TopIn(M, l))
           /\ TopIn(M, l) = l \/ TopIn(M, l).mnt \in DOMAIN M
           /\ (\A k \in DOMAIN M : ~Hangs(M, k, l)) => TopIn(M, l) = l
<1> DEFINE b == Youngest(M)
<1>1. PICK g : Climbs(M, l, g)
  BY ClimbExists
<1>2. b \in Nat /\ \A k \in DOMAIN M : k \in 1 .. b
  BY YoungestFacts
<1>3. TopIn(M, l) = g[b] /\ g[b] \in Place
  BY <1>1, <1>2 DEF Climbs
<1>4. \A k \in DOMAIN M : ~Hangs(M, k, g[b])
  <2> DEFINE T == {j \in 0 .. b : \A k \in DOMAIN M : k <= j => ~Hangs(M, k, g[j])}
  <2>1. 0 \in T
    <3>1. \A k \in DOMAIN M : ~(k <= 0)
      BY <1>2
    <3> QED BY <1>2, <3>1
  <2>2. ASSUME NEW j \in 0 .. b, j \in T /\ j < b PROVE j + 1 \in T
    <3>1. j + 1 \in 1 .. b /\ j + 1 \in 0 .. b /\ (j + 1) - 1 = j
      BY <1>2, <2>2
    <3>2. g[j + 1] = Up(M, j + 1, g[j])
      BY <1>1, <3>1 DEF Climbs
    <3>3. ASSUME NEW k \in DOMAIN M, k <= j + 1, Hangs(M, k, g[j + 1]) PROVE FALSE
      <4>1. k \in Nat /\ M[k].mnt < k /\ M[k].mnt \in Nat /\ j \in Nat
        BY HungFacts, <1>2
      <4>2. CASE j + 1 \in DOMAIN M /\ Hangs(M, j + 1, g[j])
        <5>1. g[j + 1] = Shown(M, j + 1)
          BY <3>2, <4>2 DEF Up, Hangs
        <5>2. M[k].mnt = j + 1
          BY <3>3, <5>1 DEF Hangs, Shown
        <5> QED BY <3>3, <4>1, <5>2
      <4>3. CASE ~(j + 1 \in DOMAIN M /\ Hangs(M, j + 1, g[j]))
        <5>1. g[j + 1] = g[j]
          BY <3>2, <4>3 DEF Up, Hangs
        <5>2. k # j + 1
          BY <3>3, <4>3, <5>1
        <5>3. k <= j
          BY <3>3, <4>1, <5>2
        <5> QED BY <2>2, <3>3, <5>1, <5>3
      <4> QED BY <4>2, <4>3
    <3> QED BY <3>1, <3>3
  <2>3. \A j \in 0 .. b : j \in T
    <3> HIDE DEF T, b
    <3> QED BY <1>2, <2>1, <2>2, BoundedInduction
  <2>4. b \in T
    <3> HIDE DEF T, b
    <3> QED BY <1>2, <2>3
  <2> QED BY <1>2, <2>4
<1>5. TopIn(M, l) = l \/ TopIn(M, l).mnt \in DOMAIN M
  <2> DEFINE S == {x \in Place : x = l \/ x.mnt \in DOMAIN M}
  <2>1. \A x \in Place, k \in DOMAIN M : x \in S /\ Hangs(M, k, x) => Shown(M, k) \in S
    BY HungFacts
  <2>2. TopIn(M, l) \in S
    <3>1. l \in S
      OBVIOUS
    <3> HIDE DEF S
    <3> QED BY <2>1, <3>1, TopInduction
  <2> QED BY <2>2
<1>6. ASSUME \A k \in DOMAIN M : ~Hangs(M, k, l) PROVE TopIn(M, l) = l
  <2> DEFINE S == {l}
  <2>1. \A x \in Place, k \in DOMAIN M : x \in S /\ Hangs(M, k, x) => Shown(M, k) \in S
    BY <1>6
  <2>2. TopIn(M, l) \in S
    <3>1. l \in S
      OBVIOUS
    <3> HIDE DEF S
    <3> QED BY <2>1, <3>1, TopInduction
  <2> QED BY <2>2
<1> QED BY <1>3, <1>4, <1>5, <1>6

\* The top of a stack is on top.
LEMMA TopTwice ==
    ASSUME NEW M, Hung(M), NEW l \in Place
    PROVE  TopIn(M, TopIn(M, l)) = TopIn(M, l)
BY TopFacts

\* M with one more mount, the youngest.
With(M, n, m) == [k \in DOMAIN M \cup {n} |-> IF k = n THEN m ELSE M[k]]

\* N is M and a mount n younger than all of M.
Extended(M, n, m, N) ==
    /\ Hung(N) /\ Youngest(N) = n /\ n \in Nat /\ n \notin DOMAIN M
    /\ DOMAIN N = DOMAIN M \cup {n} /\ N[n] = m /\ \A k \in DOMAIN M : N[k] = M[k]

\* A mount on a place nothing hangs on.
LEMMA WithFacts ==
    ASSUME NEW M, Hung(M), NEW m \in MountRecord, NEW n, n = Youngest(M) + 1,
           m.mnt \in DOMAIN M \cup {0},
           \A k \in DOMAIN M : ~(M[k].mnt = m.mnt /\ M[k].at = m.at),
           NEW N, N = With(M, n, m)
    PROVE  Extended(M, n, m, N)
<1>1. /\ Youngest(M) \in Nat /\ n \in Nat /\ n \notin DOMAIN M /\ n > 0
      /\ \A k \in DOMAIN M : k \in 1 .. Youngest(M)
  BY YoungestFacts
<1>2. DOMAIN N = DOMAIN M \cup {n} /\ N[n] = m /\ \A k \in DOMAIN M : N[k] = M[k]
  BY <1>1 DEF With
<1>3. DOMAIN N \subseteq 1 .. n
  BY <1>1, <1>2
<1>4. ASSUME NEW k \in DOMAIN N
      PROVE  N[k] \in MountRecord /\ N[k].mnt < k /\ N[k].mnt \in DOMAIN N \cup {0}
  <2>1. CASE k = n
    <3>1. m.mnt \in 0 .. Youngest(M)
      BY <1>1
    <3> QED BY <1>1, <1>2, <2>1, <3>1
  <2>2. CASE k \in DOMAIN M
    BY <1>2, <2>2 DEF Hung
  <2> QED BY <1>2, <2>1, <2>2
<1>5. ASSUME NEW j \in DOMAIN N, NEW k \in DOMAIN N, N[j].mnt = N[k].mnt, N[j].at = N[k].at PROVE j = k
  <2>1. CASE j \in DOMAIN M /\ k \in DOMAIN M
    BY <1>2, <1>5, <2>1 DEF Hung
  <2>2. CASE j = n /\ k \in DOMAIN M
    BY <1>2, <1>5, <2>2
  <2>3. CASE k = n /\ j \in DOMAIN M
    BY <1>2, <1>5, <2>3
  <2> QED BY <1>2, <2>1, <2>2, <2>3
<1>6. Hung(N)
  BY <1>1, <1>3, <1>4, <1>5 DEF Hung
<1>7. Youngest(N) = n
  <2>1. Youngest(N) \in DOMAIN N \cup {0} /\ n \in 1 .. Youngest(N) /\ Youngest(N) \in Nat
    BY <1>2, <1>6, YoungestFacts
  <2>2. Youngest(N) \in 0 .. n
    BY <1>1, <1>3, <2>1
  <2> QED BY <1>1, <2>1, <2>2
<1> QED BY <1>1, <1>2, <1>6, <1>7 DEF Extended

\* A mount added on place P: the stacks that showed P now show its root.
LEMMA TopWith ==
    ASSUME NEW M, Hung(M), NEW m \in MountRecord, NEW n, n = Youngest(M) + 1,
           m.mnt \in DOMAIN M \cup {0},
           \A k \in DOMAIN M : ~(M[k].mnt = m.mnt /\ M[k].at = m.at),
           NEW N, N = With(M, n, m),
           NEW l \in Place, l.mnt \in DOMAIN M \cup {0, n}
    PROVE  LET P == [mnt |-> m.mnt, ino |-> m.at]
           IN  TopIn(N, l) = IF l.mnt = n THEN l
                             ELSE IF TopIn(M, l) = P THEN [mnt |-> n, ino |-> m.root]
                             ELSE TopIn(M, l)
<1> DEFINE P == [mnt |-> m.mnt, ino |-> m.at]
           b == Youngest(M)
<1>1. /\ Hung(N) /\ Youngest(N) = n /\ n \in Nat /\ n \notin DOMAIN M
      /\ DOMAIN N = DOMAIN M \cup {n} /\ N[n] = m /\ \A k \in DOMAIN M : N[k] = M[k]
  BY WithFacts DEF Extended
<1>2. /\ b \in Nat /\ n = b + 1 /\ \A k \in DOMAIN M : k \in 1 .. b
  BY YoungestFacts
<1> HIDE DEF b
<1>3. CASE l.mnt = n
  <2>1. ASSUME NEW k \in DOMAIN N PROVE ~Hangs(N, k, l)
    <3>1. N[k].mnt \in DOMAIN M \cup {0}
      BY <1>1 DEF Hung
    <3>2. N[k].mnt # n
      BY <1>1, <1>2, <3>1
    <3> QED BY <1>3, <3>2 DEF Hangs
  <2> QED BY <1>1, <1>3, <2>1, TopFacts
<1>4. CASE l.mnt # n
  <2>1. PICK g : Climbs(M, l, g)
    BY ClimbExists
  <2>2. PICK h : Climbs(N, l, h)
    BY <1>1, ClimbExists
  <2>3. \A k \in 0 .. b : h[k] = g[k]
    <3> DEFINE T == {k \in 0 .. b : h[k] = g[k]}
    <3>1. 0 \in T
      BY <1>2, <2>1, <2>2 DEF Climbs
    <3>2. ASSUME NEW k \in 0 .. b, k \in T /\ k < b PROVE k + 1 \in T
      <4>1. k + 1 \in 1 .. b /\ k + 1 \in 0 .. b /\ (k + 1) - 1 = k /\ k + 1 \in 1 .. n /\ k + 1 # n
        BY <1>2, <3>2
      <4>2. g[k + 1] = Up(M, k + 1, g[k])
        BY <2>1, <4>1 DEF Climbs, b
      <4>3. h[k + 1] = Up(N, k + 1, h[k])
        BY <1>1, <2>2, <4>1 DEF Climbs
      <4>4. k + 1 \in DOMAIN N <=> k + 1 \in DOMAIN M
        BY <1>1, <4>1
      <4>5. Up(N, k + 1, g[k]) = Up(M, k + 1, g[k])
        BY <1>1, <4>4 DEF Up, Shown
      <4> QED BY <3>2, <4>1, <4>2, <4>3, <4>5
    <3>3. \A k \in 0 .. b : k \in T
      <4> HIDE DEF T
      <4> QED BY <1>2, <3>1, <3>2, BoundedInduction
    <3> QED BY <3>3
  <2>4. TopIn(M, l) = g[b] /\ TopIn(N, l) = h[n] /\ h[b] = g[b] /\ g[b] \in Place
    BY <1>1, <1>2, <2>1, <2>2, <2>3 DEF Climbs, b
  <2>5. h[n] = Up(N, n, h[b])
    <3>1. n \in 1 .. n /\ n - 1 = b
      BY <1>2
    <3> QED BY <1>1, <2>2, <3>1 DEF Climbs
  <2>6. n \in DOMAIN N /\ Shown(N, n) = [mnt |-> n, ino |-> m.root]
    BY <1>1 DEF Shown
  <2>7. N[n].mnt = m.mnt /\ N[n].at = m.at
    BY <1>1
  <2>8. (m.mnt = g[b].mnt /\ m.at = g[b].ino) <=> g[b] = P
    BY <2>4 DEF Place
  <2>9. h[n] = IF g[b] = P THEN [mnt |-> n, ino |-> m.root] ELSE g[b]
    <3>1. h[n] = IF m.mnt = g[b].mnt /\ m.at = g[b].ino THEN Shown(N, n) ELSE g[b]
      BY <2>4, <2>5, <2>6, <2>7 DEF Up
    <3> HIDE DEF P
    <3> QED BY <2>6, <2>8, <3>1
  <2> HIDE DEF P
  <2> QED BY <1>4, <2>4, <2>9 DEF P
<1> QED BY <1>3, <1>4

\* A stack has the same top from every place in it.
LEMMA TopAbove ==
    ASSUME NEW M, Hung(M), NEW l \in Place, NEW k \in DOMAIN M, Hangs(M, k, l)
    PROVE  TopIn(M, l) = TopIn(M, Shown(M, k))
<1> DEFINE b == Youngest(M)
           r == Shown(M, k)
<1>1. /\ b \in Nat /\ k \in 1 .. b /\ r \in Place /\ k \in Nat /\ r.mnt = k
      /\ \A j \in DOMAIN M : M[j].mnt < j /\ M[j].mnt \in Nat /\ j \in Nat
  BY YoungestFacts, HungFacts
<1>2. PICK g : Climbs(M, l, g)
  BY ClimbExists
<1>3. PICK h : Climbs(M, r, h)
  BY <1>1, ClimbExists
<1> DEFINE T == {j \in 0 .. b : IF j < k THEN g[j] = l /\ h[j] = r ELSE g[j] = h[j]}
<1> HIDE DEF b, r
<1>4. 0 \in T
  BY <1>1, <1>2, <1>3 DEF Climbs
<1>5. ASSUME NEW j \in 0 .. b, j \in T /\ j < b PROVE j + 1 \in T
  <2>1. j + 1 \in 1 .. b /\ j + 1 \in 0 .. b /\ (j + 1) - 1 = j
    BY <1>1, <1>5
  <2>2. g[j + 1] = Up(M, j + 1, g[j]) /\ h[j + 1] = Up(M, j + 1, h[j])
    BY <1>2, <1>3, <2>1 DEF Climbs, b
  <2>3. j + 1 <= k => Up(M, j + 1, r) = r
    BY <1>1 DEF Up
  <2>4. CASE j + 1 < k
    <3>1. Up(M, j + 1, l) = l
      <4>1. ~(j + 1 \in DOMAIN M /\ M[j + 1].mnt = l.mnt /\ M[j + 1].at = l.ino)
        BY <1>1, <2>4 DEF Hung, Hangs
      <4> QED BY <4>1 DEF Up
    <3>2. g[j] = l /\ h[j] = r
      BY <1>1, <1>5, <2>4
    <3>3. g[j + 1] = l /\ h[j + 1] = r
      BY <1>1, <2>2, <2>3, <2>4, <3>1, <3>2
    <3> QED BY <2>1, <2>4, <3>3
  <2>5. CASE j + 1 = k
    <3>1. g[j] = l /\ h[j] = r
      BY <1>1, <1>5, <2>5
    <3>2. Up(M, k, l) = r
      BY DEF Up, Hangs, r
    <3>3. g[j + 1] = h[j + 1]
      BY <1>1, <2>2, <2>3, <2>5, <3>1, <3>2
    <3> QED BY <1>1, <2>1, <2>5, <3>3
  <2>6. CASE k < j + 1
    <3>1. g[j] = h[j]
      BY <1>1, <1>5, <2>6
    <3>2. g[j + 1] = h[j + 1]
      BY <2>2, <3>1
    <3> QED BY <1>1, <2>1, <2>6, <3>2
  <2> QED BY <1>1, <2>4, <2>5, <2>6
<1>6. \A j \in 0 .. b : j \in T
  <2> HIDE DEF T
  <2> QED BY <1>1, <1>4, <1>5, BoundedInduction
<1>7. g[b] = h[b]
  <2>1. b \in T
    BY <1>1, <1>6
  <2> QED BY <1>1, <2>1
<1> QED BY <1>2, <1>3, <1>7 DEF Climbs, b, r

(***************************************************************************)
(* A mount and copies of those below it                                    *)
(***************************************************************************)

\* Those on the tree D of mount m.
AreBelow(M, m, D, B) ==
    /\ B \subseteq DOMAIN M
    /\ \A k \in DOMAIN M : k \in B <=> (M[k].mnt = m /\ M[k].at \in D) \/ M[k].mnt \in B

\* The place x is on that tree, or in a mount on it; its place in the copy.
Inside(l, D, B, x) == x.mnt \in B \cup {l.mnt} /\ (x.mnt = l.mnt => x.ino \in D)
Moved(s, x) == [mnt |-> x.mnt + s, ino |-> x.ino]

\* The bind of l on itself, and the copy of mount k.
BindAt(l, ro) == [mnt |-> l.mnt, at |-> l.ino, root |-> l.ino, ro |-> ro]
CopyOf(M, k, s) == [mnt |-> M[k].mnt + s, at |-> M[k].at, root |-> M[k].root, ro |-> M[k].ro]

\* N is M, a bind of place l on itself, and copies of the mounts B below it.
Copies(M, l, D, B, s, ro, N) ==
    /\ Hung(M)
    /\ l.mnt \in DOMAIN M \cup {0} /\ ro \in BOOLEAN /\ l.ino \in D
    /\ \A k \in DOMAIN M : ~Hangs(M, k, l)
    /\ AreBelow(M, l.mnt, D, B) /\ \A k \in B : k > l.mnt
    /\ \A k \in DOMAIN M : k \in Nat /\ k < s /\ N[k] = M[k] /\ k \in DOMAIN N
    /\ l.mnt \in Nat /\ l.mnt < s
    /\ N[l.mnt + s] = BindAt(l, ro) /\ l.mnt + s \in DOMAIN N
    /\ \A k \in B : N[k + s] = CopyOf(M, k, s) /\ k + s \in DOMAIN N
    /\ \A k \in DOMAIN N : k \in DOMAIN M \/ k = l.mnt + s \/ \E i \in B : k = i + s

\* What hangs where in N, and that every mount hangs on an older one.
OldHangs(M, l, s, N) ==
    \A k \in DOMAIN N, x \in Place :
        Hangs(N, k, x) /\ x.mnt < s => (k \in DOMAIN M /\ Hangs(M, k, x)) \/ (x = l /\ k = l.mnt + s)
NewHangs(M, B, s, N) ==
    \A k \in DOMAIN N, x \in Place :
        Hangs(N, k, Moved(s, x)) => \E i \in B : k = i + s /\ Hangs(M, i, x)

\* The copies make a table of mounts again, and what hangs where in it.
LEMMA CopyHung ==
    ASSUME NEW M, NEW l \in Place, NEW D, NEW B \in SUBSET Nat, NEW s \in Nat, NEW ro, NEW N,
           Copies(M, l, D, B, s, ro, N)
    PROVE  Hung(N) /\ OldHangs(M, l, s, N) /\ NewHangs(M, B, s, N)
<1>1. Hung(M) /\ l \in Place /\ l.mnt \in DOMAIN M \cup {0} /\ ro \in BOOLEAN
  BY DEF Copies
<1>2. /\ s \in Nat /\ l.mnt \in Nat /\ l.mnt < s
      /\ \A k \in DOMAIN M : k \in Nat /\ k < s /\ N[k] = M[k]
      /\ N[l.mnt + s] = BindAt(l, ro)
      /\ \A k \in B : /\ k \in DOMAIN M /\ M[k].mnt \in B \cup {l.mnt}
                      /\ N[k + s] = CopyOf(M, k, s)
  BY DEF Copies, AreBelow
<1>3. \A k \in B : k > l.mnt /\ k \in Nat
  BY DEF Copies
<1>4. \A k \in DOMAIN M : /\ M[k] \in MountRecord /\ M[k].mnt \in Nat /\ M[k].mnt < k /\ M[k].mnt < s
                          /\ M[k].mnt \in DOMAIN M \cup {0}
                          /\ M[k].at \in Inode /\ M[k].root \in Inode /\ M[k].ro \in BOOLEAN
  <2> TAKE k \in DOMAIN M
  <2>1. M[k].mnt \in Nat /\ M[k].mnt < k /\ k < s /\ k \in Nat
    BY <1>1, <1>2, HungFacts
  <2>2. M[k] \in MountRecord /\ M[k].at \in Inode /\ M[k].root \in Inode /\ M[k].ro \in BOOLEAN
    BY <1>1, HungFacts
  <2>3. M[k].mnt \in DOMAIN M \cup {0}
    BY <1>1 DEF Hung
  <2> QED BY <1>2, <2>1, <2>2, <2>3
<1>5. l.mnt + s \in DOMAIN N /\ \A k \in B : k + s \in DOMAIN N
  BY DEF Copies
<1>51. \A k \in DOMAIN N : k \in DOMAIN M \/ k = l.mnt + s \/ \E i \in B : k = i + s
  BY DEF Copies
<1>52. \A k \in DOMAIN M : k \in DOMAIN N
  BY DEF Copies
<1>6. \E b \in Nat : DOMAIN N \subseteq 1 .. b
  <2>1. \A k \in DOMAIN N : k \in 1 .. s + s
    <3> TAKE k \in DOMAIN N
    <3>1. CASE k \in DOMAIN M
      <4>1. k > 0
        BY <1>1, <3>1, HungFacts
      <4> QED BY <1>2, <3>1, <4>1
    <3>2. ASSUME NEW i \in B \cup {l.mnt}, k = i + s PROVE k \in 1 .. s + s
      <4>1. i \in Nat /\ i < s
        BY <1>2, <1>3
      <4>2. s > 0
        BY <1>2
      <4> QED BY <1>2, <3>2, <4>1, <4>2
    <3> QED BY <1>51, <3>1, <3>2
  <2>2. s + s \in Nat
    BY <1>2
  <2> QED BY <2>1, <2>2
<1>7. ASSUME NEW k \in DOMAIN N
      PROVE  N[k] \in MountRecord /\ N[k].mnt < k /\ N[k].mnt \in DOMAIN N \cup {0}
  <2>1. CASE k \in DOMAIN M
    <3>1. N[k] = M[k] /\ M[k].mnt \in DOMAIN N \cup {0}
      BY <1>2, <1>4, <1>52, <2>1
    <3> QED BY <1>1, <1>4, <2>1, <3>1
  <2>2. CASE k = l.mnt + s
    <3>1. N[k].mnt = l.mnt /\ l.mnt < k /\ l.mnt \in DOMAIN N \cup {0}
      BY <1>1, <1>2, <1>52, <2>2 DEF BindAt
    <3>2. N[k] \in MountRecord
      BY <1>1, <1>2, <2>2 DEF MountRecord, Place, BindAt
    <3> QED BY <3>1, <3>2
  <2>3. ASSUME NEW i \in B, k = i + s PROVE N[k] \in MountRecord /\ N[k].mnt < k /\ N[k].mnt \in DOMAIN N \cup {0}
    <3>1. i \in DOMAIN M /\ i \in Nat /\ M[i].mnt \in B \cup {l.mnt} /\ M[i].mnt \in Nat /\ M[i].mnt < i
      BY <1>2, <1>3, <1>4
    <3>2. N[k] = [mnt |-> M[i].mnt + s, at |-> M[i].at, root |-> M[i].root, ro |-> M[i].ro]
      BY <1>2, <2>3 DEF CopyOf
    <3>3. N[k] \in MountRecord
      BY <1>2, <1>4, <3>1, <3>2 DEF MountRecord
    <3>4. M[i].mnt + s \in DOMAIN N
      BY <1>5, <3>1
    <3>5. N[k].mnt = M[i].mnt + s /\ M[i].mnt + s < k
      BY <1>2, <2>3, <3>1, <3>2
    <3> QED BY <3>3, <3>4, <3>5
  <2> QED BY <2>1, <2>2, <2>3, <1>51
<1>8. ASSUME NEW k \in DOMAIN N, NEW x \in Place, Hangs(N, k, Moved(s, x))
      PROVE  \E i \in B : k = i + s /\ Hangs(M, i, x)
  <2>1. N[k].mnt = x.mnt + s /\ N[k].at = x.ino /\ x.mnt \in Nat
    BY <1>8 DEF Hangs, Moved, Place
  <2>2. k \notin DOMAIN M
    BY <1>2, <1>4, <2>1
  <2>3. k # l.mnt + s
    BY <1>2, <2>1 DEF BindAt
  <2>4. PICK i \in B : k = i + s
    BY <2>2, <2>3, <1>51
  <2>5. N[k].mnt = M[i].mnt + s /\ N[k].at = M[i].at /\ M[i].mnt \in Nat
    <3>1. N[k] = CopyOf(M, i, s) /\ M[i].mnt \in Nat
      BY <1>2, <1>4, <2>4
    <3> QED BY <3>1 DEF CopyOf
  <2>6. M[i].mnt = x.mnt /\ M[i].at = x.ino
    BY <1>2, <2>1, <2>5
  <2> QED BY <2>4, <2>6 DEF Hangs
<1>9. ASSUME NEW k \in DOMAIN N, NEW x \in Place, Hangs(N, k, x), x.mnt < s
      PROVE  (k \in DOMAIN M /\ Hangs(M, k, x)) \/ (x = l /\ k = l.mnt + s)
  <2>1. N[k].mnt = x.mnt /\ N[k].at = x.ino /\ x.mnt \in Nat
    BY <1>9 DEF Hangs, Place
  <2>2. CASE k \in DOMAIN M
    BY <1>2, <1>9, <2>2 DEF Hangs
  <2>3. CASE k = l.mnt + s
    <3>1. l.mnt = x.mnt /\ l.ino = x.ino
      BY <1>2, <2>1, <2>3 DEF BindAt
    <3> QED BY <1>1, <2>3, <3>1 DEF Place
  <2>4. ASSUME NEW i \in B, k = i + s PROVE FALSE
    <3>1. N[k].mnt = M[i].mnt + s /\ M[i].mnt \in Nat
      <4>1. N[k] = CopyOf(M, i, s) /\ M[i].mnt \in Nat
        BY <1>2, <1>4, <2>4
      <4> QED BY <4>1 DEF CopyOf
    <3> QED BY <1>2, <1>9, <2>1, <3>1
  <2> QED BY <2>2, <2>3, <2>4, <1>51
<1>10. \A k \in DOMAIN N : Hangs(N, k, l) => k = l.mnt + s
  BY <1>1, <1>2, <1>9 DEF Copies
<1>11. ASSUME NEW j \in DOMAIN N, NEW k \in DOMAIN N, N[j].mnt = N[k].mnt, N[j].at = N[k].at PROVE j = k
  <2> DEFINE x == [mnt |-> N[k].mnt, ino |-> N[k].at]
  <2>1. x \in Place
    BY <1>7 DEF MountRecord, Place
  <2>2. Hangs(N, j, x) /\ Hangs(N, k, x)
    BY <1>11 DEF Hangs
  <2>3. CASE x.mnt < s /\ x # l
    <3>1. j \in DOMAIN M /\ k \in DOMAIN M /\ Hangs(M, j, x) /\ Hangs(M, k, x)
      <4> HIDE DEF x
      <4> QED BY <1>9, <2>1, <2>2, <2>3
    <3> QED BY <1>1, <3>1 DEF Hung, Hangs
  <2>4. CASE x = l
    <3> HIDE DEF x
    <3> QED BY <1>10, <2>2, <2>4
  <2>5. CASE ~(x.mnt < s)
    <3> DEFINE y == [mnt |-> x.mnt - s, ino |-> x.ino]
    <3>1. y \in Place /\ Moved(s, y) = x
      <4>1. x.mnt \in Nat /\ x.ino \in Inode /\ x.mnt - s \in Nat
        BY <1>2, <2>1, <2>5 DEF Place
      <4>2. (x.mnt - s) + s = x.mnt
        BY <1>2, <4>1
      <4> QED BY <2>1, <4>1, <4>2 DEF Place, Moved
    <3> HIDE DEF x, y
    <3>2. PICK i \in B : j = i + s /\ Hangs(M, i, y)
      BY <1>8, <2>2, <3>1
    <3>3. PICK h \in B : k = h + s /\ Hangs(M, h, y)
      BY <1>8, <2>2, <3>1
    <3>4. i = h
      BY <1>1, <1>2, <3>2, <3>3 DEF Hung, Hangs
    <3> QED BY <3>2, <3>3, <3>4
  <2> QED BY <2>3, <2>4, <2>5
<1>12. Hung(N)
  BY <1>6, <1>7, <1>11 DEF Hung
<1> QED BY <1>8, <1>9, <1>12 DEF OldHangs, NewHangs

\* Inside the tree, what hangs on a place is among the mounts that are copied.
LEMMA InsideKept ==
    ASSUME NEW M, NEW l \in Place, NEW D, NEW B \in SUBSET Nat, NEW s \in Nat, NEW ro, NEW N,
           Copies(M, l, D, B, s, ro, N),
           NEW x \in Place, Inside(l, D, B, x), NEW k \in DOMAIN M, Hangs(M, k, x)
    PROVE  /\ k \in B /\ Shown(M, k) \in Place /\ Inside(l, D, B, Shown(M, k))
           /\ Moved(s, x) \in Place /\ k + s \in DOMAIN N
           /\ Hangs(N, k + s, Moved(s, x)) /\ Shown(N, k + s) = Moved(s, Shown(M, k))
<1>1. Hung(M) /\ AreBelow(M, l.mnt, D, B) /\ \A i \in B : i > l.mnt
  BY DEF Copies
<1>2. k \in B
  BY <1>1 DEF Hangs, Inside, AreBelow
<1>3. N[k + s] = CopyOf(M, k, s) /\ k + s \in DOMAIN N
  BY <1>2 DEF Copies
<1>4. Shown(M, k) \in Place /\ Shown(M, k).mnt = k /\ Shown(M, k).ino = M[k].root
  BY <1>1, HungFacts
<1>5. Inside(l, D, B, Shown(M, k))
  <2>1. k # l.mnt
    <3>1. k > l.mnt /\ l.mnt \in Nat /\ k \in Nat
      BY <1>1, <1>2 DEF Place
    <3> QED BY <3>1
  <2> QED BY <1>2, <1>4, <2>1 DEF Inside
<1>6. Moved(s, x) \in Place
  BY DEF Moved, Place
<1>7. Hangs(N, k + s, Moved(s, x))
  BY <1>3 DEF Hangs, Moved, CopyOf
<1>8. Shown(N, k + s) = Moved(s, Shown(M, k))
  BY <1>3 DEF Shown, Moved, CopyOf
<1> QED BY <1>2, <1>3, <1>4, <1>5, <1>6, <1>7, <1>8

\* A copied place has the copy of its stack.
LEMMA TopCopied ==
    ASSUME NEW M, NEW l \in Place, NEW D, NEW B \in SUBSET Nat, NEW s \in Nat, NEW ro, NEW N,
           Copies(M, l, D, B, s, ro, N), NEW x \in Place, Inside(l, D, B, x)
    PROVE  TopIn(N, Moved(s, x)) = Moved(s, TopIn(M, x)) /\ Inside(l, D, B, TopIn(M, x))
<1> DEFINE S == {y \in Place : Inside(l, D, B, y) /\ TopIn(N, Moved(s, y)) = TopIn(N, Moved(s, x))}
<1>1. Hung(M) /\ Hung(N)
  BY CopyHung DEF Copies
<1>2. ASSUME NEW y \in Place, NEW k \in DOMAIN M, y \in S, Hangs(M, k, y) PROVE Shown(M, k) \in S
  <2>1. Inside(l, D, B, y)
    BY <1>2
  <2>2. /\ Shown(M, k) \in Place /\ Inside(l, D, B, Shown(M, k))
        /\ Moved(s, y) \in Place /\ k + s \in DOMAIN N
        /\ Hangs(N, k + s, Moved(s, y)) /\ Shown(N, k + s) = Moved(s, Shown(M, k))
    BY <1>2, <2>1, InsideKept
  <2>3. TopIn(N, Moved(s, y)) = TopIn(N, Shown(N, k + s))
    BY <1>1, <2>2, TopAbove
  <2> QED BY <1>2, <2>2, <2>3
<1>3. x \in S
  OBVIOUS
<1>4. TopIn(M, x) \in S
  <2> HIDE DEF S
  <2> QED BY <1>1, <1>2, <1>3, TopInduction
<1> DEFINE y == TopIn(M, x)
<1>5. y \in Place /\ Inside(l, D, B, y) /\ TopIn(N, Moved(s, y)) = TopIn(N, Moved(s, x))
  BY <1>4
<1>6. \A k \in DOMAIN M : ~Hangs(M, k, y)
  BY <1>1, TopFacts
<1>7. Moved(s, y) \in Place
  <2> HIDE DEF y
  <2> QED BY <1>5 DEF Moved, Place
<1>8. \A k \in DOMAIN N : ~Hangs(N, k, Moved(s, y))
  <2> HIDE DEF y
  <2>1. ASSUME NEW k \in DOMAIN N, Hangs(N, k, Moved(s, y)) PROVE FALSE
    <3>1. PICK i \in B : k = i + s /\ Hangs(M, i, y)
      BY <1>5, <2>1, CopyHung DEF NewHangs
    <3>2. i \in DOMAIN M
      BY DEF Copies, AreBelow
    <3> QED BY <1>6, <3>1, <3>2
  <2> QED BY <2>1
<1>9. TopIn(N, Moved(s, y)) = Moved(s, y)
  <2> HIDE DEF y
  <2> QED BY <1>1, <1>7, <1>8, TopFacts
<1> QED BY <1>5, <1>9

\* Any other place has the stack it had, unless that ends at l.
LEMMA TopOutside ==
    ASSUME NEW M, NEW l \in Place, NEW D, NEW B \in SUBSET Nat, NEW s \in Nat, NEW ro, NEW N,
           Copies(M, l, D, B, s, ro, N), NEW x \in Place, x.mnt < s
    PROVE  TopIn(N, x) = IF TopIn(M, x) = l THEN Moved(s, l) ELSE TopIn(M, x)
<1> DEFINE S == {y \in Place : y.mnt < s /\ TopIn(N, y) = TopIn(N, x)}
<1>1. Hung(M) /\ Hung(N)
  BY CopyHung, SMTT(30) DEF Copies
<1>2. ASSUME NEW y \in Place, NEW k \in DOMAIN M, y \in S, Hangs(M, k, y) PROVE Shown(M, k) \in S
  <2>1. k < s /\ k \in DOMAIN N /\ N[k] = M[k]
    BY DEF Copies
  <2>2. Shown(M, k) \in Place /\ Shown(M, k).mnt = k
    BY <1>1, HungFacts
  <2>3. Hangs(N, k, y) /\ Shown(N, k) = Shown(M, k)
    BY <1>2, <2>1 DEF Hangs, Shown
  <2>4. TopIn(N, y) = TopIn(N, Shown(N, k))
    BY <1>1, <2>1, <2>3, TopAbove
  <2> QED BY <1>2, <2>1, <2>2, <2>3, <2>4
<1>3. x \in S
  OBVIOUS
<1>4. TopIn(M, x) \in S
  <2> HIDE DEF S
  <2> QED BY <1>1, <1>2, <1>3, TopInduction
<1> DEFINE y == TopIn(M, x)
<1>5. y \in Place /\ y.mnt < s /\ TopIn(N, y) = TopIn(N, x)
  BY <1>4
<1>6. \A k \in DOMAIN M : ~Hangs(M, k, y)
  BY <1>1, TopFacts
<1> HIDE DEF y
<1>7. CASE y # l
  <2>1. \A k \in DOMAIN N : ~Hangs(N, k, y)
    <3>1. OldHangs(M, l, s, N)
      BY CopyHung
    <3> QED BY <1>5, <1>6, <1>7, <3>1 DEF OldHangs
  <2>2. TopIn(N, y) = y
    BY <1>1, <1>5, <2>1, TopFacts
  <2> QED BY <1>5, <1>7, <2>2 DEF y
<1>8. CASE y = l
  <2>1. l.mnt + s \in DOMAIN N /\ N[l.mnt + s] = BindAt(l, ro) /\ l.ino \in D
    BY DEF Copies
  <2>2. Hangs(N, l.mnt + s, l) /\ Shown(N, l.mnt + s) = Moved(s, l)
    BY <2>1 DEF Hangs, Shown, Moved, BindAt
  <2>3. TopIn(N, l) = TopIn(N, Moved(s, l))
    <3> DEFINE k == l.mnt + s
    <3>1. k \in DOMAIN N /\ Hangs(N, k, l) /\ Shown(N, k) = Moved(s, l)
      BY <2>1, <2>2
    <3> HIDE DEF k
    <3> QED BY <1>1, <3>1, TopAbove
  <2>4. Inside(l, D, B, l)
    BY <2>1 DEF Inside
  <2>5. TopIn(N, Moved(s, l)) = Moved(s, TopIn(M, l))
    BY <2>4, TopCopied, SMTT(30)
  <2>6. TopIn(M, l) = l
    BY <1>1, <1>6, <1>8, TopFacts
  <2> QED BY <1>5, <1>8, <2>3, <2>5, <2>6 DEF y
<1> QED BY <1>7, <1>8

(***************************************************************************)
(* Path lookup                                                             *)
(***************************************************************************)

\* A table of entries; what a lookup can return.
Entries(t) == \A e \in DOMAIN t : e \in Inode \X Names /\ t[e] \in Inode
Spot == Place \cup {NoPlace}

\* "/" is a place, and nothing is none.
LEMMA SpotFacts ==
    /\ Root \in Inode /\ RootPlace \in Place /\ RootPlace \in Spot /\ NoPlace \in Spot
    /\ Nowhere \notin Inode /\ NoPlace \notin Place /\ NoPlace # RootPlace
    /\ \A x \in Spot : x = NoPlace <=> x \notin Place
<1>1. Root \in Inode
  BY DiskAssumption DEF OnDisk
<1>2. Nowhere \notin Inode
  BY DEF Nowhere, Inode
<1> QED BY <1>1, <1>2 DEF RootPlace, NoPlace, Place, Spot

\* Entering a component: nothing, or the top of the stack on its entry.
LEMMA EnterFacts ==
    ASSUME NEW t, Entries(t), NEW M, Hung(M), NEW x \in Spot, NEW c \in Names
    PROVE  /\ EnterIn(t, M, x, c) \in Spot
           /\ x = NoPlace => EnterIn(t, M, x, c) = NoPlace
           /\ EnterIn(t, M, x, c) # NoPlace <=> <<x.ino, c>> \in DOMAIN t
           /\ EnterIn(t, M, x, c) # NoPlace =>
                 /\ x \in Place
                 /\ t[<<x.ino, c>>] \in Inode
                 /\ [mnt |-> x.mnt, ino |-> t[<<x.ino, c>>]] \in Place
                 /\ EnterIn(t, M, x, c) = TopIn(M, [mnt |-> x.mnt, ino |-> t[<<x.ino, c>>]])
<1>1. CASE <<x.ino, c>> \in DOMAIN t
  <2>1. x.ino \in Inode /\ t[<<x.ino, c>>] \in Inode
    BY <1>1 DEF Entries
  <2>2. x \in Place /\ x # NoPlace
    BY <2>1, SpotFacts DEF Spot, NoPlace
  <2>3. [mnt |-> x.mnt, ino |-> t[<<x.ino, c>>]] \in Place
    BY <2>1, <2>2 DEF Place
  <2>4. EnterIn(t, M, x, c) = TopIn(M, [mnt |-> x.mnt, ino |-> t[<<x.ino, c>>]])
    BY <1>1 DEF EnterIn
  <2>5. EnterIn(t, M, x, c) \in Place
    BY <2>3, <2>4, TopFacts
  <2> QED BY <1>1, <2>1, <2>2, <2>3, <2>4, <2>5, SpotFacts DEF Spot
<1>2. CASE <<x.ino, c>> \notin DOMAIN t
  <2>1. EnterIn(t, M, x, c) = NoPlace
    BY <1>2 DEF EnterIn
  <2> QED BY <1>2, <2>1, SpotFacts
<1> QED BY <1>1, <1>2

\* g is the lookup of p by ResolveIn.
Leads(t, M, p, g) ==
    /\ g \in [0 .. Len(p) -> Spot]
    /\ g[0] = RootPlace
    /\ \A k \in 1 .. Len(p) : g[k] = EnterIn(t, M, g[k - 1], p[k])
    /\ ResolveIn(t, M, p) = g[Len(p)]

\* The recursive function of ResolveIn is such a lookup.
LEMMA LookupExists ==
    ASSUME NEW t, Entries(t), NEW M, Hung(M), NEW p \in Seq(Names)
    PROVE  \E g : Leads(t, M, p, g)
<1> DEFINE b == Len(p)
           Is(f) == f = [k \in 0 .. b |-> IF k = 0 THEN RootPlace ELSE EnterIn(t, M, f[k - 1], p[k])]
           c == CHOOSE f : Is(f)
           step == [w \in (1 .. b) \X Spot |-> EnterIn(t, M, w[2], p[w[1]])]
<1>1. b \in Nat
  OBVIOUS
<1>2. \A k \in 1 .. b : p[k] \in Names
  OBVIOUS
<1> HIDE DEF b
<1>4. step \in [(1 .. b) \X Spot -> Spot]
  BY <1>2, EnterFacts
<1>5. \A i \in 1 .. b, w \in Spot : step[<<i, w>>] = EnterIn(t, M, w, p[i])
  OBVIOUS
<1>6. PICK f \in [0 .. b -> Spot] : Recursive(f, b, RootPlace, step)
  <2> HIDE DEF step
  <2> QED BY <1>1, <1>4, RecursionExists, SpotFacts
<1>7. f[0] = RootPlace /\ \A k \in 1 .. b : f[k] = EnterIn(t, M, f[k - 1], p[k])
  <2> HIDE DEF step
  <2>1. f[0] = RootPlace
    BY <1>6 DEF Recursive
  <2>2. ASSUME NEW k \in 1 .. b PROVE f[k] = EnterIn(t, M, f[k - 1], p[k])
    <3>1. k - 1 \in 0 .. b
      BY <1>1
    <3>2. f[k - 1] \in Spot
      BY <1>6, <3>1
    <3> QED BY <1>5, <1>6, <3>2 DEF Recursive
  <2> QED BY <2>1, <2>2
<1>8. Is(f)
  <2> HIDE DEF step
  <2>1. ASSUME NEW k \in 0 .. b PROVE f[k] = IF k = 0 THEN RootPlace ELSE EnterIn(t, M, f[k - 1], p[k])
    <3>1. k = 0 \/ k \in 1 .. b
      BY <1>1
    <3> QED BY <1>7, <3>1
  <2>2. f = [k \in 0 .. b |-> f[k]]
    BY <1>6
  <2> QED BY <2>1, <2>2
<1>9. Is(c)
  BY <1>8
<1>10. ResolveIn(t, M, p) = c[b]
  BY DEF ResolveIn, b
<1>11. /\ DOMAIN c = 0 .. b
       /\ \A k \in 0 .. b : c[k] = IF k = 0 THEN RootPlace ELSE EnterIn(t, M, c[k - 1], p[k])
       /\ c = [k \in 0 .. b |-> c[k]]
  <2> HIDE DEF c
  <2>1. /\ DOMAIN c = 0 .. b
        /\ \A k \in 0 .. b : c[k] = IF k = 0 THEN RootPlace ELSE EnterIn(t, M, c[k - 1], p[k])
    BY <1>9
  <2>2. c = [k \in 0 .. b |-> c[k]]
    BY <1>9, <2>1
  <2> QED BY <2>1, <2>2
<1> HIDE DEF c
<1>12. c[0] = RootPlace
  BY <1>1, <1>11
<1>13. ASSUME NEW k \in 1 .. b PROVE c[k] = EnterIn(t, M, c[k - 1], p[k])
  <2>1. k \in 0 .. b /\ k # 0
    BY <1>1
  <2> QED BY <1>11, <2>1
<1>14. \A k \in 0 .. b : c[k] \in Spot
  <2> DEFINE S == {k \in 0 .. b : c[k] \in Spot}
  <2>1. 0 \in S
    BY <1>1, <1>12, SpotFacts
  <2>2. ASSUME NEW k \in 0 .. b, k \in S /\ k < b PROVE k + 1 \in S
    <3>1. k + 1 \in 1 .. b /\ k + 1 \in 0 .. b /\ (k + 1) - 1 = k
      BY <1>1, <2>2
    <3>2. c[k + 1] = EnterIn(t, M, c[k], p[k + 1]) /\ p[k + 1] \in Names
      BY <1>2, <1>13, <3>1
    <3>3. c[k] \in Spot
      BY <2>2
    <3> DEFINE x == c[k]
               n == p[k + 1]
    <3>4. x \in Spot /\ n \in Names /\ c[k + 1] = EnterIn(t, M, x, n)
      BY <3>2, <3>3
    <3> HIDE DEF x, n
    <3>5. EnterIn(t, M, x, n) \in Spot
      BY <3>4, EnterFacts
    <3> QED BY <3>1, <3>4, <3>5
  <2>3. \A k \in 0 .. b : k \in S
    <3> HIDE DEF S
    <3> QED BY <1>1, <2>1, <2>2, BoundedInduction
  <2> QED BY <2>3
<1>15. c \in [0 .. b -> Spot]
  BY <1>11, <1>14
<1> QED BY <1>10, <1>12, <1>13, <1>15 DEF Leads, b

\* Lookup goes one component at a time.
LEMMA ResolveFacts ==
    ASSUME NEW t, Entries(t), NEW M, Hung(M)
    PROVE  /\ ResolveIn(t, M, <<>>) = RootPlace
           /\ \A p \in Seq(Names) : ResolveIn(t, M, p) \in Spot
           /\ \A p \in Seq(Names), c \in Names :
                 ResolveIn(t, M, Append(p, c)) = EnterIn(t, M, ResolveIn(t, M, p), c)
<1>1. ResolveIn(t, M, <<>>) = RootPlace
  <2>1. <<>> \in Seq(Names) /\ Len(<<>>) = 0
    OBVIOUS
  <2>2. PICK g : Leads(t, M, <<>>, g)
    BY <2>1, LookupExists
  <2> QED BY <2>1, <2>2 DEF Leads
<1>2. ASSUME NEW p \in Seq(Names) PROVE ResolveIn(t, M, p) \in Spot
  <2>1. PICK g : Leads(t, M, p, g)
    BY LookupExists
  <2>2. Len(p) \in 0 .. Len(p)
    OBVIOUS
  <2> QED BY <2>1, <2>2 DEF Leads
<1>3. ASSUME NEW p \in Seq(Names), NEW c \in Names
      PROVE  ResolveIn(t, M, Append(p, c)) = EnterIn(t, M, ResolveIn(t, M, p), c)
  <2> DEFINE q == Append(p, c)
             n == Len(p)
  <2>1. /\ q \in Seq(Names) /\ Len(q) = n + 1 /\ n \in Nat
        /\ \A i \in 1 .. n : q[i] = p[i]
        /\ q[n + 1] = c
    BY Longer
  <2> HIDE DEF q, n
  <2>2. PICK g : Leads(t, M, p, g)
    BY LookupExists
  <2>3. PICK h : Leads(t, M, q, h)
    BY <2>1, LookupExists
  <2>4. \A k \in 0 .. n : h[k] = g[k]
    <3> DEFINE S == {k \in 0 .. n : h[k] = g[k]}
    <3>1. 0 \in S
      BY <2>1, <2>2, <2>3 DEF Leads
    <3>2. ASSUME NEW k \in 0 .. n, k \in S /\ k < n PROVE k + 1 \in S
      <4>1. k + 1 \in 1 .. n /\ k + 1 \in 0 .. n /\ (k + 1) - 1 = k /\ k + 1 \in 1 .. n + 1
        BY <2>1, <3>2
      <4>2. g[k + 1] = EnterIn(t, M, g[k], p[k + 1])
        BY <2>2, <4>1 DEF Leads, n
      <4>3. h[k + 1] = EnterIn(t, M, h[k], q[k + 1])
        BY <2>1, <2>3, <4>1 DEF Leads
      <4> QED BY <2>1, <3>2, <4>1, <4>2, <4>3
    <3>3. \A k \in 0 .. n : k \in S
      <4> HIDE DEF S
      <4> QED BY <2>1, <3>1, <3>2, BoundedInduction
    <3> QED BY <3>3
  <2>5. n \in 0 .. n /\ n + 1 \in 1 .. n + 1 /\ (n + 1) - 1 = n
    BY <2>1
  <2>6. h[n + 1] = EnterIn(t, M, h[n], q[n + 1])
    BY <2>1, <2>3, <2>5 DEF Leads
  <2>7. ResolveIn(t, M, q) = h[n + 1] /\ ResolveIn(t, M, p) = g[n]
    BY <2>1, <2>2, <2>3 DEF Leads, n
  <2> QED BY <2>1, <2>4, <2>5, <2>6, <2>7 DEF q
<1> QED BY <1>1, <1>2, <1>3

\* What is beneath nothing is nothing.
LEMMA NothingBeneath ==
    ASSUME NEW t, Entries(t), NEW M, Hung(M), NEW p \in Seq(Names), NEW c \in Names,
           ResolveIn(t, M, Append(p, c)) # NoPlace
    PROVE  ResolveIn(t, M, p) # NoPlace /\ ResolveIn(t, M, p) \in Place
<1> DEFINE x == ResolveIn(t, M, p)
<1>1. x \in Spot /\ EnterIn(t, M, x, c) # NoPlace
  BY ResolveFacts
<1> HIDE DEF x
<1>2. x # NoPlace /\ x \in Place
  BY <1>1, EnterFacts, SpotFacts
<1> QED BY <1>2 DEF x

(***************************************************************************)
(* The tree below an inode, and the mounts on it                           *)
(***************************************************************************)

\* One level more.
Deeper(above) == above \cup {entry[e] : e \in {x \in DOMAIN entry : x[1] \in above}}

\* u holds the tree below i, level by level.
Levels(i, u) ==
    /\ u \in [0 .. MaxDepth -> SUBSET Inode] /\ u[0] = {i}
    /\ \A k \in 1 .. MaxDepth : u[k] = Deeper(u[k - 1])
    /\ Below(i) = u[MaxDepth]

\* A level more takes no inode away.
LEMMA DeeperType ==
    ASSUME Entries(entry), NEW S \in SUBSET Inode
    PROVE  Deeper(S) \in SUBSET Inode /\ S \subseteq Deeper(S)
BY DEF Deeper, Entries

\* The recursive function of Below has these levels.
LEMMA LevelsExist ==
    ASSUME Entries(entry), NEW i \in Inode
    PROVE  \E u : Levels(i, u)
<1> DEFINE b == MaxDepth
           V == SUBSET Inode
           a == {i}
           Is(f) == f = [k \in 0 .. b |-> IF k = 0 THEN a ELSE Deeper(f[k - 1])]
           c == CHOOSE f : Is(f)
           step == [w \in (1 .. b) \X V |-> Deeper(w[2])]
<1>1. b \in Nat /\ a \in V
  BY MaxDepthAssumption
<1> HIDE DEF b, a
<1>4. step \in [(1 .. b) \X V -> V]
  BY DeeperType
<1>5. \A j \in 1 .. b, w \in V : step[<<j, w>>] = Deeper(w)
  OBVIOUS
<1>6. PICK f \in [0 .. b -> V] : Recursive(f, b, a, step)
  <2> HIDE DEF step, V
  <2> QED BY <1>1, <1>4, RecursionExists
<1>7. f[0] = a /\ \A k \in 1 .. b : f[k] = Deeper(f[k - 1])
  <2> HIDE DEF step, V
  <2>1. f[0] = a
    BY <1>6 DEF Recursive
  <2>2. ASSUME NEW k \in 1 .. b PROVE f[k] = Deeper(f[k - 1])
    <3>1. k - 1 \in 0 .. b
      BY <1>1
    <3>2. f[k - 1] \in V
      BY <1>6, <3>1
    <3> QED BY <1>5, <1>6, <3>2 DEF Recursive
  <2> QED BY <2>1, <2>2
<1>8. Is(f)
  <2> HIDE DEF step, V
  <2>1. ASSUME NEW k \in 0 .. b PROVE f[k] = IF k = 0 THEN a ELSE Deeper(f[k - 1])
    <3>1. k = 0 \/ k \in 1 .. b
      BY <1>1
    <3> QED BY <1>7, <3>1
  <2>2. f = [k \in 0 .. b |-> f[k]]
    BY <1>6
  <2> QED BY <2>1, <2>2
<1>9. Is(c)
  BY <1>8
<1>10. Below(i) = c[b]
  BY DEF Below, Deeper, b, a
<1>11. /\ DOMAIN c = 0 .. b
       /\ \A k \in 0 .. b : c[k] = IF k = 0 THEN a ELSE Deeper(c[k - 1])
       /\ c = [k \in 0 .. b |-> c[k]]
  <2> HIDE DEF c
  <2>1. /\ DOMAIN c = 0 .. b
        /\ \A k \in 0 .. b : c[k] = IF k = 0 THEN a ELSE Deeper(c[k - 1])
    BY <1>9
  <2>2. c = [k \in 0 .. b |-> c[k]]
    BY <1>9, <2>1
  <2> QED BY <2>1, <2>2
<1> HIDE DEF c
<1>12. c[0] = a
  BY <1>1, <1>11
<1>13. ASSUME NEW k \in 1 .. b PROVE c[k] = Deeper(c[k - 1])
  <2>1. k \in 0 .. b /\ k # 0
    BY <1>1
  <2> QED BY <1>11, <2>1
<1>14. \A k \in 0 .. b : c[k] \in V
  <2> DEFINE S == {k \in 0 .. b : c[k] \in V}
  <2> HIDE DEF V
  <2>1. 0 \in S
    BY <1>1, <1>12
  <2>2. ASSUME NEW k \in 0 .. b, k \in S /\ k < b PROVE k + 1 \in S
    <3>1. k + 1 \in 1 .. b /\ k + 1 \in 0 .. b /\ (k + 1) - 1 = k
      BY <1>1, <2>2
    <3>2. c[k + 1] = Deeper(c[k])
      BY <1>13, <3>1
    <3>3. Deeper(c[k]) \in V
      BY <2>2, DeeperType DEF V
    <3> QED BY <3>1, <3>2, <3>3
  <2>3. \A k \in 0 .. b : k \in S
    <3> HIDE DEF S
    <3> QED BY <1>1, <2>1, <2>2, BoundedInduction
  <2> QED BY <2>3
<1>15. c \in [0 .. b -> V]
  <2> HIDE DEF V
  <2> QED BY <1>11, <1>14
<1> QED BY <1>10, <1>12, <1>13, <1>15 DEF Levels, b, a

\* Every level but the last has its children in the next; all are below i.
LEMMA LevelFacts ==
    ASSUME Entries(entry), NEW i \in Inode, NEW u, Levels(i, u)
    PROVE  /\ \A k \in 0 .. MaxDepth : u[k] \subseteq Below(i)
           /\ \A k \in 0 .. MaxDepth, e \in DOMAIN entry : k < MaxDepth /\ e[1] \in u[k] => entry[e] \in u[k + 1]
           /\ i \in Below(i) /\ i \in u[0] /\ Below(i) \in SUBSET Inode
<1>1. MaxDepth \in Nat
  BY MaxDepthAssumption
<1>2. ASSUME NEW k \in 0 .. MaxDepth, k < MaxDepth
      PROVE  k + 1 \in 0 .. MaxDepth /\ u[k + 1] = Deeper(u[k]) /\ u[k] \in SUBSET Inode
  <2>1. k + 1 \in 1 .. MaxDepth /\ (k + 1) - 1 = k
    BY <1>1, <1>2
  <2> QED BY <2>1 DEF Levels
<1>3. \A k \in 0 .. MaxDepth : u[k] \subseteq Below(i)
  <2> DEFINE S == {k \in 0 .. MaxDepth : u[MaxDepth - k] \subseteq Below(i)}
  <2>1. 0 \in S
    <3>1. MaxDepth - 0 = MaxDepth
      BY <1>1
    <3> QED BY <1>1, <3>1 DEF Levels
  <2>2. ASSUME NEW k \in 0 .. MaxDepth, k \in S /\ k < MaxDepth PROVE k + 1 \in S
    <3> DEFINE j == MaxDepth - (k + 1)
    <3>1. j \in 0 .. MaxDepth /\ j < MaxDepth /\ j + 1 = MaxDepth - k /\ k + 1 \in 0 .. MaxDepth
      BY <1>1, <2>2
    <3>2. u[MaxDepth - k] \subseteq Below(i)
      BY <2>2
    <3> HIDE DEF j
    <3>3. u[j] \subseteq Deeper(u[j]) /\ u[j + 1] = Deeper(u[j])
      BY <1>2, <3>1 DEF Deeper
    <3>4. u[j] \subseteq Below(i)
      BY <3>1, <3>2, <3>3
    <3> QED BY <3>1, <3>4 DEF j
  <2>3. \A k \in 0 .. MaxDepth : k \in S
    <3> HIDE DEF S
    <3> QED BY <1>1, <2>1, <2>2, BoundedInduction
  <2>4. ASSUME NEW k \in 0 .. MaxDepth PROVE u[k] \subseteq Below(i)
    <3>1. MaxDepth - k \in 0 .. MaxDepth /\ MaxDepth - (MaxDepth - k) = k
      BY <1>1
    <3>2. u[MaxDepth - (MaxDepth - k)] \subseteq Below(i)
      BY <2>3, <3>1
    <3> QED BY <3>1, <3>2
  <2> QED BY <2>4
<1>4. ASSUME NEW k \in 0 .. MaxDepth, NEW e \in DOMAIN entry, k < MaxDepth, e[1] \in u[k]
      PROVE  entry[e] \in u[k + 1]
  <2>1. u[k + 1] = Deeper(u[k])
    BY <1>2, <1>4
  <2> QED BY <1>4, <2>1 DEF Deeper
<1>5. 0 \in 0 .. MaxDepth /\ MaxDepth \in 0 .. MaxDepth
  BY <1>1
<1> QED BY <1>3, <1>4, <1>5 DEF Levels

\* Mount k is on the tree at l, or in a mount of S.
OnTree(M, l, k, S) == (M[k].mnt = l.mnt /\ M[k].at \in Below(l.ino)) \/ M[k].mnt \in S
Younger(M, l, k, older) ==
    IF k \in DOMAIN M /\ OnTree(M, l, k, older) THEN older \cup {k} ELSE older

\* MountsBelow collects the mounts on the tree and in each other.
LEMMA MountsBelowFacts ==
    ASSUME Hung(mounts), NEW l \in Place
    PROVE  AreBelow(mounts, l.mnt, Below(l.ino), MountsBelow(l)) /\ MountsBelow(l) \in SUBSET Nat
<1> DEFINE b == Youngest(mounts)
           V == SUBSET Nat
           a == {}
           Is(f) == f = [k \in 0 .. b |-> IF k = 0 THEN a ELSE Younger(mounts, l, k, f[k - 1])]
           c == CHOOSE f : Is(f)
           step == [w \in (1 .. b) \X V |-> Younger(mounts, l, w[1], w[2])]
<1>1. b \in Nat /\ a \in V /\ \A k \in DOMAIN mounts : k \in 1 .. b
  BY YoungestFacts
<1>2. \A k \in 1 .. b, w \in V : Younger(mounts, l, k, w) \in V
  <2> HIDE DEF b
  <2> QED BY DEF Younger
<1> HIDE DEF b, a
<1>4. step \in [(1 .. b) \X V -> V]
  <2> HIDE DEF V
  <2> QED BY <1>2
<1>5. \A j \in 1 .. b, w \in V : step[<<j, w>>] = Younger(mounts, l, j, w)
  OBVIOUS
<1>6. PICK f \in [0 .. b -> V] : Recursive(f, b, a, step)
  <2> HIDE DEF step, V
  <2> QED BY <1>1, <1>4, RecursionExists
<1>7. f[0] = a /\ \A k \in 1 .. b : f[k] = Younger(mounts, l, k, f[k - 1])
  <2> HIDE DEF step, V
  <2>1. f[0] = a
    BY <1>6 DEF Recursive
  <2>2. ASSUME NEW k \in 1 .. b PROVE f[k] = Younger(mounts, l, k, f[k - 1])
    <3>1. k - 1 \in 0 .. b
      BY <1>1
    <3>2. f[k - 1] \in V
      BY <1>6, <3>1
    <3> QED BY <1>5, <1>6, <3>2 DEF Recursive
  <2> QED BY <2>1, <2>2
<1>8. Is(f)
  <2> HIDE DEF step, V
  <2>1. ASSUME NEW k \in 0 .. b PROVE f[k] = IF k = 0 THEN a ELSE Younger(mounts, l, k, f[k - 1])
    <3>1. k = 0 \/ k \in 1 .. b
      BY <1>1
    <3> QED BY <1>7, <3>1
  <2>2. f = [k \in 0 .. b |-> f[k]]
    BY <1>6
  <2> QED BY <2>1, <2>2
<1>9. Is(c)
  BY <1>8
<1>10. MountsBelow(l) = c[b]
  BY DEF MountsBelow, Younger, OnTree, b, a
<1>11. /\ DOMAIN c = 0 .. b
       /\ \A k \in 0 .. b : c[k] = IF k = 0 THEN a ELSE Younger(mounts, l, k, c[k - 1])
  <2> HIDE DEF c
  <2> QED BY <1>9
<1> HIDE DEF c
<1>12. c[0] = a
  BY <1>1, <1>11
<1>13. ASSUME NEW k \in 1 .. b PROVE c[k] = Younger(mounts, l, k, c[k - 1])
  <2>1. k \in 0 .. b /\ k # 0
    BY <1>1
  <2> QED BY <1>11, <2>1
<1> DEFINE Right(k, S) == /\ S \subseteq DOMAIN mounts /\ \A j \in S : j <= k
                          /\ \A j \in DOMAIN mounts : j \in S <=> j <= k /\ OnTree(mounts, l, j, S)
           T == {k \in 0 .. b : Right(k, c[k])}
<1>14. 0 \in T
  <2>1. c[0] = {}
    BY <1>12 DEF a
  <2>2. \A j \in DOMAIN mounts : ~(j <= 0)
    BY <1>1
  <2> QED BY <1>1, <2>1, <2>2
<1>15. ASSUME NEW k \in 0 .. b, k \in T /\ k < b PROVE k + 1 \in T
  <2>1. k + 1 \in 1 .. b /\ k + 1 \in 0 .. b /\ (k + 1) - 1 = k
    BY <1>1, <1>15
  <2> DEFINE S == c[k]
             R == c[k + 1]
  <2>2. R = Younger(mounts, l, k + 1, S)
    BY <1>13, <2>1
  <2>3. Right(k, S)
    BY <1>15
  <2> HIDE DEF S, R
  <2>4. k + 1 \notin S
    BY <1>1, <2>1, <2>3
  <2>5. \A j \in DOMAIN mounts : mounts[j].mnt < j /\ mounts[j].mnt \in Nat /\ j \in Nat
    BY HungFacts
  <2>6. Right(k + 1, R)
    <3>1. CASE k + 1 \in DOMAIN mounts /\ OnTree(mounts, l, k + 1, S)
      <4>1. R = S \cup {k + 1}
        BY <2>2, <3>1 DEF Younger
      <4>2. \A j \in DOMAIN mounts : j <= k + 1 => (OnTree(mounts, l, j, R) <=> OnTree(mounts, l, j, S))
        <5> TAKE j \in DOMAIN mounts
        <5> HAVE j <= k + 1
        <5>1. mounts[j].mnt # k + 1
          BY <2>1, <2>5
        <5> QED BY <4>1, <5>1 DEF OnTree
      <4>3. \A j \in R : j <= k + 1
        BY <1>1, <2>1, <2>3, <4>1
      <4>4. ASSUME NEW j \in DOMAIN mounts PROVE j \in R <=> j <= k + 1 /\ OnTree(mounts, l, j, R)
        <5>1. CASE j = k + 1
          <6>1. OnTree(mounts, l, j, S) /\ j <= k + 1
            BY <2>1, <3>1, <5>1
          <6>2. OnTree(mounts, l, j, R)
            BY <4>2, <6>1
          <6> QED BY <4>1, <5>1, <6>1, <6>2
        <5>2. CASE j # k + 1
          <6>1. j \in R <=> j \in S
            BY <4>1, <5>2
          <6>2. j <= k + 1 <=> j <= k
            BY <2>1, <2>5, <5>2
          <6> QED BY <2>3, <4>2, <6>1, <6>2
        <5> QED BY <5>1, <5>2
      <4> QED BY <2>3, <3>1, <4>1, <4>3, <4>4
    <3>2. CASE ~(k + 1 \in DOMAIN mounts /\ OnTree(mounts, l, k + 1, S))
      <4>1. R = S
        BY <2>2, <3>2 DEF Younger
      <4>2. ASSUME NEW j \in DOMAIN mounts PROVE j \in R <=> j <= k + 1 /\ OnTree(mounts, l, j, R)
        <5>1. CASE j = k + 1
          BY <2>4, <3>2, <4>1, <5>1
        <5>2. CASE j # k + 1
          <6>1. j <= k + 1 <=> j <= k
            BY <2>1, <2>5, <5>2
          <6> QED BY <2>3, <4>1, <6>1
        <5> QED BY <5>1, <5>2
      <4>3. \A j \in R : j <= k + 1
        BY <1>1, <2>1, <2>3, <4>1
      <4> QED BY <2>3, <4>1, <4>2, <4>3
    <3> QED BY <3>1, <3>2
  <2> QED BY <2>1, <2>6 DEF R
<1>16. \A k \in 0 .. b : k \in T
  <2> HIDE DEF T
  <2> QED BY <1>1, <1>14, <1>15, BoundedInduction
<1>17. Right(b, c[b])
  <2>1. b \in T
    BY <1>1, <1>16
  <2> QED BY <2>1
<1>18. \A j \in DOMAIN mounts : j <= b /\ j \in Nat
  BY <1>1
<1> DEFINE B == c[b]
<1>19. /\ B \subseteq DOMAIN mounts
       /\ \A j \in DOMAIN mounts : j \in B <=> OnTree(mounts, l, j, B)
  BY <1>17, <1>18
<1> HIDE DEF B
<1>20. AreBelow(mounts, l.mnt, Below(l.ino), B) /\ B \in SUBSET Nat
  BY <1>18, <1>19 DEF AreBelow, OnTree
<1> QED BY <1>10, <1>20 DEF B

\* The binds of the ancestors of an argument: what BindParent makes.
LEMMA BindParentCopies ==
    ASSUME Hung(mounts), Entries(entry), NEW l \in Place, Top(l) = l, l.mnt \in DOMAIN mounts \cup {0},
           NEW N, N = [k \in DOMAIN mounts \cup DOMAIN SelfBindRec(l) |->
                          IF k \in DOMAIN SelfBindRec(l) THEN SelfBindRec(l)[k] ELSE mounts[k]]
    PROVE  /\ Copies(mounts, l, Below(l.ino), MountsBelow(l), Youngest(mounts) + 1, ReadOnly(l.mnt), N)
           /\ MountsBelow(l) \in SUBSET Nat /\ Youngest(mounts) + 1 \in Nat
<1> DEFINE s == Youngest(mounts) + 1
           B == MountsBelow(l)
           D == Below(l.ino)
           ro == ReadOnly(l.mnt)
           new == {i + s : i \in B \cup {l.mnt}}
           C == SelfBindRec(l)
<1>1. AreBelow(mounts, l.mnt, D, B) /\ B \in SUBSET Nat
  BY MountsBelowFacts
<1>2. /\ s \in Nat /\ s > 0 /\ l.mnt \in Nat /\ l.mnt < s
      /\ \A k \in DOMAIN mounts : k \in Nat /\ k < s
  <2>1. Youngest(mounts) \in Nat /\ \A k \in DOMAIN mounts : k \in 1 .. Youngest(mounts)
    BY YoungestFacts
  <2> QED BY <2>1
<1>3. \A k \in DOMAIN mounts : ~Hangs(mounts, k, l)
  BY TopFacts DEF Top
<1>4. l.ino \in Inode /\ l.ino \in D
  <2>1. l.ino \in Inode
    BY DEF Place
  <2> QED BY <2>1, LevelsExist, LevelFacts
<1>5. ro \in BOOLEAN
  <2>1. CASE l.mnt \in DOMAIN mounts
    <3>1. mounts[l.mnt].ro \in BOOLEAN
      BY <2>1, HungFacts
    <3> QED BY <3>1 DEF ReadOnly
  <2>2. CASE l.mnt = 0
    BY <2>2 DEF ReadOnly
  <2> QED BY <2>1, <2>2
<1>6. C = [k \in new |-> IF k = l.mnt + s THEN BindAt(l, ro) ELSE [mounts[k - s] EXCEPT !.mnt = @ + s]]
  BY DEF SelfBindRec, On, BindAt
<1> HIDE DEF s, B, D, ro, C
<1>7. \A k \in B : /\ k \in DOMAIN mounts /\ k \in Nat /\ mounts[k] \in MountRecord
                   /\ mounts[k].mnt < k /\ mounts[k].mnt \in Nat
  <2> TAKE k \in B
  <2>1. k \in DOMAIN mounts
    BY <1>1 DEF AreBelow
  <2> QED BY <2>1, HungFacts
<1>8. \A k \in B : k > l.mnt
  <2> DEFINE Wrong == {k \in B : k <= l.mnt}
  <2>1. ASSUME Wrong # {} PROVE FALSE
    <3>1. Wrong \in SUBSET Nat
      BY <1>7
    <3>2. PICK k \in Wrong : \A j \in Wrong : k <= j
      <4> HIDE DEF Wrong
      <4> QED BY <2>1, <3>1, LeastNumber
    <3>3. mounts[k].mnt = l.mnt \/ mounts[k].mnt \in B
      BY <1>1, <1>7, <3>2 DEF AreBelow
    <3>4. CASE mounts[k].mnt = l.mnt
      BY <1>2, <1>7, <3>2, <3>4
    <3>5. CASE mounts[k].mnt \in B
      <4>1. mounts[k].mnt \in Wrong
        BY <1>2, <1>7, <3>2, <3>5
      <4> QED BY <1>7, <3>2, <4>1
    <3> QED BY <3>3, <3>4, <3>5
  <2> QED BY <1>2, <1>7, <2>1
<1>9. DOMAIN C = new /\ DOMAIN N = DOMAIN mounts \cup new
  <2>1. DOMAIN C = new
    BY <1>6
  <2> QED BY <2>1 DEF C
<1>10. \A k \in DOMAIN mounts : k \notin new
  BY <1>2, <1>7
<1>11. \A k \in DOMAIN N : N[k] = IF k \in new THEN C[k] ELSE mounts[k]
  BY <1>9 DEF C
<1>12. \A k \in DOMAIN mounts : N[k] = mounts[k] /\ k \in DOMAIN N
  <2> HIDE DEF new
  <2> QED BY <1>9, <1>10, <1>11
<1>13. l.mnt + s \in DOMAIN N /\ N[l.mnt + s] = BindAt(l, ro)
  <2>1. l.mnt + s \in new
    OBVIOUS
  <2>2. C[l.mnt + s] = BindAt(l, ro)
    BY <1>6, <2>1
  <2> HIDE DEF new
  <2> QED BY <1>9, <1>11, <2>1, <2>2
<1>14. ASSUME NEW k \in B PROVE N[k + s] = CopyOf(mounts, k, s) /\ k + s \in DOMAIN N
  <2>1. k + s \in new /\ k + s # l.mnt + s /\ (k + s) - s = k
    BY <1>2, <1>7, <1>8
  <2>2. C[k + s] = [mounts[k] EXCEPT !.mnt = @ + s]
    BY <1>6, <2>1
  <2>3. [mounts[k] EXCEPT !.mnt = @ + s] = CopyOf(mounts, k, s)
    BY <1>7 DEF MountRecord, CopyOf
  <2> HIDE DEF new
  <2> QED BY <1>9, <1>11, <2>1, <2>2, <2>3
<1>15. \A k \in DOMAIN N : k \in DOMAIN mounts \/ k = l.mnt + s \/ \E i \in B : k = i + s
  BY <1>9
<1>16. Copies(mounts, l, D, B, s, ro, N)
  BY <1>1, <1>2, <1>3, <1>4, <1>5, <1>8, <1>12, <1>13, <1>14, <1>15 DEF Copies
<1> QED BY <1>1, <1>2, <1>16 DEF s, B, D, ro

(***************************************************************************)
(* What one more mount does to path lookup                                 *)
(***************************************************************************)

\* A lookup ends on top of a stack, in a mount there is.
LEMMA KnownMount ==
    ASSUME NEW t, Entries(t), NEW M, Hung(M)
    PROVE  \A p \in Seq(Names) : /\ ResolveIn(t, M, p).mnt \in DOMAIN M \cup {0}
                                 /\ p # <<>> /\ ResolveIn(t, M, p) # NoPlace =>
                                        TopIn(M, ResolveIn(t, M, p)) = ResolveIn(t, M, p)
<1> DEFINE K == DOMAIN M \cup {0}
           S == {p \in Seq(Names) : ResolveIn(t, M, p).mnt \in K}
<1>0. NoPlace.mnt \in K /\ RootPlace.mnt \in K
  BY DEF NoPlace, RootPlace
<1>1. <<>> \in S
  BY <1>0, ResolveFacts
<1>2. ASSUME NEW p \in Seq(Names), NEW c \in Names, p \in S PROVE Append(p, c) \in S
  <2> DEFINE x == ResolveIn(t, M, p)
             y == EnterIn(t, M, x, c)
  <2>1. Append(p, c) \in Seq(Names) /\ ResolveIn(t, M, Append(p, c)) = y /\ x \in Spot /\ x.mnt \in K
    BY <1>2, ResolveFacts
  <2> HIDE DEF x
  <2>2. CASE y = NoPlace
    BY <1>0, <2>1, <2>2
  <2>3. CASE y # NoPlace
    <3> DEFINE z == [mnt |-> x.mnt, ino |-> t[<<x.ino, c>>]]
    <3>1. z \in Place /\ y = TopIn(M, z) /\ z.mnt = x.mnt
      BY <2>1, <2>3, EnterFacts
    <3> HIDE DEF z, y
    <3>2. y = z \/ y.mnt \in DOMAIN M
      BY <3>1, TopFacts
    <3> QED BY <2>1, <3>1, <3>2
  <2> QED BY <2>2, <2>3
<1>3. \A p \in Seq(Names) : p \in S
  <2> HIDE DEF S
  <2> QED BY <1>1, <1>2, SequenceInduction
<1>4. ASSUME NEW p \in Seq(Names), p # <<>>, ResolveIn(t, M, p) # NoPlace
      PROVE  TopIn(M, ResolveIn(t, M, p)) = ResolveIn(t, M, p)
  <2>1. PICK q \in Seq(Names), c \in Names : p = Append(q, c)
    BY <1>4, LastComponent, SMTT(30)
  <2> DEFINE x == ResolveIn(t, M, q)
             z == [mnt |-> x.mnt, ino |-> t[<<x.ino, c>>]]
  <2>2. x \in Spot /\ ResolveIn(t, M, p) = EnterIn(t, M, x, c)
    BY <2>1, ResolveFacts
  <2> HIDE DEF x
  <2>3. z \in Place /\ EnterIn(t, M, x, c) = TopIn(M, z)
    BY <1>4, <2>2, EnterFacts
  <2> HIDE DEF z
  <2> QED BY <2>2, <2>3, TopTwice
<1> QED BY <1>3, <1>4

\* Lookup of p goes through the place F, by a component of p.
Reaches(t, M, F, v, p) == v \in Seq(Names) /\ v # <<>> /\ IsPrefix(v, p) /\ ResolveIn(t, M, v) = F
Hit(t, M, F, p) == \E v : Reaches(t, M, F, v, p)

\* Lookup of one component more.
LEMMA HitLonger ==
    ASSUME NEW t, NEW M, NEW F, NEW p \in Seq(Names), NEW c \in Names
    PROVE  /\ Hit(t, M, F, p) => Hit(t, M, F, Append(p, c))
           /\ ResolveIn(t, M, Append(p, c)) = F => Hit(t, M, F, Append(p, c))
           /\ Hit(t, M, F, Append(p, c)) => Hit(t, M, F, p) \/ ResolveIn(t, M, Append(p, c)) = F
           /\ ~Hit(t, M, F, <<>>)
<1> DEFINE q == Append(p, c)
<1>1. q \in Seq(Names) /\ q # <<>> /\ IsPrefix(q, q) /\ IsPrefix(p, q)
  <2>1. q \in Seq(Names) /\ q # <<>>
    BY Longer
  <2> QED BY <2>1, PrefixOrder, PrefixLonger
<1>2. \A v \in Seq(Names) : IsPrefix(v, q) <=> IsPrefix(v, p) \/ v = q
  BY PrefixLonger
<1>3. \A v \in Seq(Names) : IsPrefix(v, <<>>) => v = <<>>
  BY PrefixOrder
<1> HIDE DEF q
<1>4. Hit(t, M, F, p) => Hit(t, M, F, q)
  BY <1>2 DEF Hit, Reaches
<1>5. ResolveIn(t, M, q) = F => Hit(t, M, F, q)
  BY <1>1 DEF Hit, Reaches
<1>6. Hit(t, M, F, q) => Hit(t, M, F, p) \/ ResolveIn(t, M, q) = F
  BY <1>2 DEF Hit, Reaches
<1>7. ~Hit(t, M, F, <<>>)
  BY <1>3 DEF Hit, Reaches
<1> QED BY <1>4, <1>5, <1>6, <1>7 DEF q

\* N is M with one more mount n, on place F, that shows r.
OneMore(M, F, r, ro, n, N) ==
    /\ Hung(M) /\ F \in Place /\ F.mnt \in DOMAIN M \cup {0} /\ r \in Inode /\ ro \in BOOLEAN
    /\ \A k \in DOMAIN M : ~Hangs(M, k, F)
    /\ n = Youngest(M) + 1
    /\ N = With(M, n, [mnt |-> F.mnt, at |-> F.ino, root |-> r, ro |-> ro])

\* What follows of it.
Grown(M, F, r, ro, n, N) ==
    /\ Hung(M) /\ Hung(N) /\ n \in Nat /\ n > 0 /\ n \notin DOMAIN M /\ DOMAIN N = DOMAIN M \cup {n}
    /\ N[n] = [mnt |-> F.mnt, at |-> F.ino, root |-> r, ro |-> ro]
    /\ \A k \in DOMAIN M : N[k] = M[k]
    /\ [mnt |-> n, ino |-> r] \in Place
    /\ \A l \in Place : l.mnt = n => TopIn(N, l) = l
    /\ \A l \in Place : l.mnt \in DOMAIN M \cup {0} =>
          TopIn(N, l) = IF TopIn(M, l) = F THEN [mnt |-> n, ino |-> r] ELSE TopIn(M, l)

\* What one more mount does to the stacks.
LEMMA OneMoreFacts ==
    ASSUME NEW M, NEW F, NEW r, NEW ro, NEW n, NEW N, OneMore(M, F, r, ro, n, N)
    PROVE  Grown(M, F, r, ro, n, N)
<1> DEFINE m == [mnt |-> F.mnt, at |-> F.ino, root |-> r, ro |-> ro]
<1>1. /\ Hung(M) /\ F \in Place /\ F.mnt \in DOMAIN M \cup {0} /\ r \in Inode /\ ro \in BOOLEAN
      /\ \A k \in DOMAIN M : ~Hangs(M, k, F)
      /\ n = Youngest(M) + 1
  BY DEF OneMore
<1>2. N = With(M, n, m)
  BY DEF OneMore
<1>3. /\ m.mnt = F.mnt /\ m.at = F.ino /\ m.root = r /\ m \in MountRecord
      /\ [mnt |-> m.mnt, ino |-> m.at] = F
  BY <1>1 DEF Place, MountRecord
<1> HIDE DEF m
<1>4. m.mnt \in DOMAIN M \cup {0} /\ \A k \in DOMAIN M : ~(M[k].mnt = m.mnt /\ M[k].at = m.at)
  BY <1>1, <1>3 DEF Hangs
<1>5. /\ Hung(N) /\ Youngest(N) = n /\ n \in Nat /\ n \notin DOMAIN M
      /\ DOMAIN N = DOMAIN M \cup {n} /\ N[n] = m /\ \A k \in DOMAIN M : N[k] = M[k]
  <2>1. Extended(M, n, m, N)
    BY <1>1, <1>2, <1>3, <1>4, WithFacts
  <2> QED BY <2>1 DEF Extended
<1>6. n > 0
  <2>1. Youngest(M) \in Nat
    BY <1>1, YoungestFacts
  <2> QED BY <1>1, <2>1
<1>7. [mnt |-> n, ino |-> r] \in Place
  BY <1>1, <1>5 DEF Place
<1>8. ASSUME NEW l \in Place, l.mnt \in DOMAIN M \cup {0, n}
      PROVE  TopIn(N, l) = IF l.mnt = n THEN l
                           ELSE IF TopIn(M, l) = F THEN [mnt |-> n, ino |-> r]
                           ELSE TopIn(M, l)
  BY <1>1, <1>2, <1>3, <1>4, <1>8, TopWith
<1>9. \A l \in Place : l.mnt = n => TopIn(N, l) = l
  BY <1>8
<1>10. n # 0
  BY <1>5, <1>6
<1>11. ASSUME NEW l \in Place, l.mnt \in DOMAIN M \cup {0}
       PROVE  TopIn(N, l) = IF TopIn(M, l) = F THEN [mnt |-> n, ino |-> r] ELSE TopIn(M, l)
  <2>1. l.mnt # n
    BY <1>5, <1>10, <1>11
  <2> QED BY <1>8, <1>11, <2>1
<1> QED BY <1>1, <1>5, <1>6, <1>7, <1>9, <1>11 DEF m, Grown

\* Paths that do not go through F lead where they led; the others into n.
Effect(t, M, F, r, n, N, p) ==
    IF Hit(t, M, F, p)
    THEN /\ ResolveIn(t, N, p) = NoPlace \/ ResolveIn(t, N, p).mnt = n
         /\ \E v : Reaches(t, M, F, v, p) /\ ResolveIn(t, N, v) = [mnt |-> n, ino |-> r]
    ELSE ResolveIn(t, N, p) = ResolveIn(t, M, p)

\* What one more mount does to every path.
LEMMA OneEffect ==
    ASSUME NEW t, Entries(t), NEW M, NEW F, NEW r, NEW ro, NEW n, NEW N, OneMore(M, F, r, ro, n, N)
    PROVE  \A p \in Seq(Names) : Effect(t, M, F, r, n, N, p)
<1>0. Grown(M, F, r, ro, n, N)
  BY OneMoreFacts
<1>1. /\ Hung(M) /\ Hung(N) /\ n \in Nat /\ n > 0 /\ n \notin DOMAIN M
      /\ [mnt |-> n, ino |-> r] \in Place
      /\ \A l \in Place : l.mnt = n => TopIn(N, l) = l
      /\ \A l \in Place : l.mnt \in DOMAIN M \cup {0} =>
            TopIn(N, l) = IF TopIn(M, l) = F THEN [mnt |-> n, ino |-> r] ELSE TopIn(M, l)
  BY <1>0 DEF Grown
<1> DEFINE S == {p \in Seq(Names) : Effect(t, M, F, r, n, N, p)}
<1>2. <<>> \in S
  <2>1. ResolveIn(t, N, <<>>) = ResolveIn(t, M, <<>>)
    BY <1>1, ResolveFacts
  <2>2. ~Hit(t, M, F, <<>>)
    <3>1. \A v \in Seq(Names) : IsPrefix(v, <<>>) => v = <<>>
      BY PrefixOrder
    <3> QED BY <3>1 DEF Hit, Reaches
  <2> QED BY <2>1, <2>2 DEF Effect
<1>3. ASSUME NEW p \in Seq(Names), NEW c \in Names, p \in S PROVE Append(p, c) \in S
  <2> DEFINE q == Append(p, c)
             x == ResolveIn(t, M, p)
             y == ResolveIn(t, N, p)
             x2 == ResolveIn(t, M, q)
             y2 == ResolveIn(t, N, q)
             R == [mnt |-> n, ino |-> r]
  <2>1. /\ x \in Spot /\ y \in Spot /\ x2 = EnterIn(t, M, x, c) /\ y2 = EnterIn(t, N, y, c)
        /\ x2 \in Spot /\ y2 \in Spot
    <3>1. q \in Seq(Names)
      BY Longer
    <3> QED BY <1>1, <3>1, ResolveFacts
  <2>2. Effect(t, M, F, r, n, N, p)
    BY <1>3
  <2>3. /\ Hit(t, M, F, p) => Hit(t, M, F, q)
        /\ x2 = F => Hit(t, M, F, q)
        /\ Hit(t, M, F, q) => Hit(t, M, F, p) \/ x2 = F
    BY HitLonger
  <2>4. \A v : Reaches(t, M, F, v, p) => Reaches(t, M, F, v, q)
    <3>1. \A v \in Seq(Names) : IsPrefix(v, p) => IsPrefix(v, q)
      BY PrefixLonger
    <3> QED BY <3>1 DEF Reaches
  <2>5. x2 = F => Reaches(t, M, F, q, q)
    <3>1. q \in Seq(Names) /\ q # <<>>
      BY Longer
    <3>2. IsPrefix(q, q)
      BY <3>1, PrefixOrder
    <3> QED BY <3>1, <3>2 DEF Reaches
  <2>6. q \in Seq(Names)
    BY Longer
  <2>7. x.mnt \in DOMAIN M \cup {0}
    BY <1>1, KnownMount
  <2>8. F # NoPlace /\ F \in Place
    BY SpotFacts DEF OneMore
  <2> HIDE DEF q, x, y, x2, y2, R
  <2>11. EnterIn(t, M, x, c) = NoPlace <=> EnterIn(t, N, x, c) = NoPlace
    <3>1. EnterIn(t, M, x, c) # NoPlace <=> <<x.ino, c>> \in DOMAIN t
      BY <1>1, <2>1, EnterFacts
    <3>2. EnterIn(t, N, x, c) # NoPlace <=> <<x.ino, c>> \in DOMAIN t
      BY <1>1, <2>1, EnterFacts
    <3> QED BY <3>1, <3>2
  <2>9. CASE Hit(t, M, F, p)
    <3>1. y = NoPlace \/ y.mnt = n
      BY <2>2, <2>9 DEF Effect, y
    <3>2. \E v : Reaches(t, M, F, v, q) /\ ResolveIn(t, N, v) = R
      BY <2>2, <2>4, <2>9 DEF Effect, R
    <3>3. y2 = NoPlace \/ y2.mnt = n
      <4>1. CASE y2 # NoPlace
        <5> DEFINE z == [mnt |-> y.mnt, ino |-> t[<<y.ino, c>>]]
        <5>1. z \in Place /\ y2 = TopIn(N, z) /\ z.mnt = y.mnt /\ y # NoPlace
          BY <1>1, <2>1, <4>1, EnterFacts
        <5> HIDE DEF z
        <5>2. y2 = z
          BY <1>1, <3>1, <5>1
        <5> QED BY <3>1, <5>1, <5>2
      <4> QED BY <4>1
    <3>4. Effect(t, M, F, r, n, N, q)
      BY <2>3, <2>9, <3>2, <3>3 DEF Effect, y2, R
    <3> QED BY <2>6, <3>4 DEF q
  <2>10. CASE ~Hit(t, M, F, p)
    <3>1. y = x
      BY <2>2, <2>10 DEF Effect, x, y
    <3>2. CASE x2 = NoPlace
      <4>1. y2 = NoPlace
        BY <2>1, <2>11, <3>1, <3>2
      <4>2. ~Hit(t, M, F, q)
        BY <2>3, <2>8, <2>10, <3>2
      <4>3. Effect(t, M, F, r, n, N, q)
        BY <3>2, <4>1, <4>2 DEF Effect, x2, y2
      <4> QED BY <2>6, <4>3 DEF q
    <3>3. CASE x2 # NoPlace
      <4> DEFINE z == [mnt |-> x.mnt, ino |-> t[<<x.ino, c>>]]
      <4>1. z \in Place /\ x2 = TopIn(M, z) /\ z.mnt = x.mnt
        BY <1>1, <2>1, <3>3, EnterFacts
      <4>2. y2 # NoPlace
        BY <2>1, <2>11, <3>1, <3>3
      <4>3. y2 = TopIn(N, z)
        BY <1>1, <2>1, <3>1, <4>2, EnterFacts
      <4> HIDE DEF z
      <4>4. y2 = IF x2 = F THEN R ELSE x2
        BY <1>1, <2>7, <4>1, <4>3 DEF R
      <4>5. CASE x2 = F
        <5>1. y2 = R /\ y2.mnt = n
          BY <4>4, <4>5 DEF R
        <5>2. Effect(t, M, F, r, n, N, q)
          BY <2>3, <2>5, <4>5, <5>1 DEF Effect, y2, R
        <5> QED BY <2>6, <5>2 DEF q
      <4>6. CASE x2 # F
        <5>1. y2 = x2 /\ ~Hit(t, M, F, q)
          BY <2>3, <2>10, <4>4, <4>6
        <5>2. Effect(t, M, F, r, n, N, q)
          BY <5>1 DEF Effect, y2, x2
        <5> QED BY <2>6, <5>2 DEF q
      <4> QED BY <4>5, <4>6
    <3> QED BY <3>2, <3>3
  <2> QED BY <2>9, <2>10
<1>4. \A p \in Seq(Names) : p \in S
  <2> HIDE DEF S
  <2> QED BY <1>2, <1>3, SequenceInduction
<1> QED BY <1>4

(***************************************************************************)
(* The disk is a tree, and an inode of it is shown at one path only        *)
(***************************************************************************)

\* No file made elsewhere holds one of the disk.
Closed(t) == \A e \in DOMAIN t : t[e].fs = "disk" => e[1].fs = "disk"

\* L gives every inode of the disk that a path can show that path, whatever is
\* mounted on the way: an entry leads one component on, a mount shows the path
\* it hangs on.  No inode gets two.
Labels(t, M, L) ==
    /\ <<Root, <<>>>> \in L
    /\ \A e \in DOMAIN t : \A p \in Seq(Names) :
           t[e].fs = "disk" /\ <<e[1], p>> \in L => <<t[e], Append(p, e[2])>> \in L
    /\ \A k \in DOMAIN M : M[k].root.fs = "disk" =>
           /\ M[k].at.fs = "disk"
           /\ \A p \in Seq(Names) : <<M[k].at, p>> \in L => <<M[k].root, p>> \in L
    /\ \A i : \A p, q \in Seq(Names) : <<i, p>> \in L /\ <<i, q>> \in L => p = q
Labelled(t, M) == \E L : Labels(t, M, L)

\* "/" is on the disk, and nothing is not.
LEMMA DiskFacts ==
    /\ Nowhere.fs # "disk" /\ NoPlace.ino = Nowhere /\ NoPlace.ino.fs # "disk"
    /\ Root.fs = "disk" /\ RootPlace.ino = Root /\ RootPlace.mnt = 0
    /\ Root.id \in Nat /\ Root.id < FirstNew
BY DiskAssumption DEF Nowhere, NoPlace, OnDisk, RootPlace, Inode

\* The ancestors of a path are paths.
LEMMA PrefixPath ==
    ASSUME NEW p \in Paths, NEW v \in Seq(Names), IsPrefix(v, p)
    PROVE  v \in Paths /\ p \in Seq(Names) /\ (p \in Listable => v \in Listable)
<1>1. p \in Seq(Names) /\ Len(p) <= MaxDepth + 1
  BY PathFacts
<1>2. Len(v) <= Len(p)
  BY <1>1, PrefixByPlace
<1>3. Len(v) \in Nat /\ Len(p) \in Nat /\ MaxDepth \in Nat
  BY <1>1, MaxDepthAssumption
<1>4. Len(v) <= MaxDepth + 1
  BY <1>1, <1>2, <1>3
<1>5. p \in Listable => Len(v) <= MaxDepth
  BY <1>2, <1>3, PathFacts
<1> QED BY <1>1, <1>4, <1>5, PathFacts

\* The first component that reaches F shows what was mounted there.
LEMMA FirstHit ==
    ASSUME NEW t, Entries(t), NEW M, NEW F, NEW r, NEW ro, NEW n, NEW N, OneMore(M, F, r, ro, n, N),
           NEW p \in Seq(Names), NEW c \in Names, ~Hit(t, M, F, p), Hit(t, M, F, Append(p, c))
    PROVE  /\ ResolveIn(t, N, Append(p, c)) = [mnt |-> n, ino |-> r]
           /\ ResolveIn(t, M, Append(p, c)) = F
<1>1. Append(p, c) \in Seq(Names)
  BY Longer
<1>2. Effect(t, M, F, r, n, N, Append(p, c))
  BY <1>1, OneEffect
<1>3. PICK v : Reaches(t, M, F, v, Append(p, c)) /\ ResolveIn(t, N, v) = [mnt |-> n, ino |-> r]
  BY <1>2 DEF Effect
<1>4. v \in Seq(Names) /\ IsPrefix(v, Append(p, c)) /\ ~IsPrefix(v, p)
  BY <1>3 DEF Reaches, Hit
<1>5. v = Append(p, c)
  BY <1>4, PrefixLonger
<1> QED BY <1>3, <1>5 DEF Reaches

\* Inside mount n nothing else is mounted.
LEMMA EnterNew ==
    ASSUME NEW t, Entries(t), NEW M, NEW F, NEW r, NEW ro, NEW n, NEW N, OneMore(M, F, r, ro, n, N),
           NEW y \in Spot, y = NoPlace \/ y.mnt = n, NEW c \in Names
    PROVE  \/ EnterIn(t, N, y, c) = NoPlace
           \/ <<y.ino, c>> \in DOMAIN t /\ EnterIn(t, N, y, c).ino = t[<<y.ino, c>>]
<1>1. Grown(M, F, r, ro, n, N)
  BY OneMoreFacts
<1>2. Hung(N) /\ \A l \in Place : l.mnt = n => TopIn(N, l) = l
  BY <1>1 DEF Grown
<1>3. CASE EnterIn(t, N, y, c) # NoPlace
  <2> DEFINE z == [mnt |-> y.mnt, ino |-> t[<<y.ino, c>>]]
  <2>1. z \in Place /\ EnterIn(t, N, y, c) = TopIn(N, z) /\ y \in Place /\ <<y.ino, c>> \in DOMAIN t
    BY <1>2, <1>3, EnterFacts
  <2>2. z.mnt = n /\ z.ino = t[<<y.ino, c>>]
    BY <2>1, SpotFacts
  <2> HIDE DEF z
  <2>3. EnterIn(t, N, y, c) = z
    BY <1>2, <2>1, <2>2
  <2> QED BY <2>1, <2>2, <2>3
<1> QED BY <1>3

\* Beneath a mount that shows nothing of the disk there is nothing of it.
LEMMA BelowOff ==
    ASSUME NEW t, Entries(t), Closed(t), NEW M, NEW F, NEW r, NEW ro, NEW n, NEW N,
           OneMore(M, F, r, ro, n, N), r.fs # "disk"
    PROVE  \A p \in Seq(Names) : Hit(t, M, F, p) => ResolveIn(t, N, p).ino.fs # "disk"
<1> DEFINE S == {p \in Seq(Names) : Hit(t, M, F, p) => ResolveIn(t, N, p).ino.fs # "disk"}
<1>0. Hung(N)
  <2>1. Grown(M, F, r, ro, n, N)
    BY OneMoreFacts
  <2> QED BY <2>1 DEF Grown
<1>1. <<>> \in S
  <2>1. \A v \in Seq(Names) : IsPrefix(v, <<>>) => v = <<>>
    BY PrefixOrder
  <2> QED BY <2>1 DEF Hit, Reaches
<1>2. ASSUME NEW p \in Seq(Names), NEW c \in Names, p \in S PROVE Append(p, c) \in S
  <2> DEFINE q == Append(p, c)
             y == ResolveIn(t, N, p)
  <2>1. q \in Seq(Names)
    BY Longer
  <2>2. y \in Spot /\ ResolveIn(t, N, q) = EnterIn(t, N, y, c)
    BY <1>0, ResolveFacts
  <2>3. ASSUME Hit(t, M, F, q) PROVE ResolveIn(t, N, q).ino.fs # "disk"
    <3>1. CASE ~Hit(t, M, F, p)
      <4>1. ResolveIn(t, N, q) = [mnt |-> n, ino |-> r]
        BY <2>3, <3>1, FirstHit
      <4> QED BY <4>1
    <3>2. CASE Hit(t, M, F, p)
      <4>1. y = NoPlace \/ y.mnt = n
        <5>1. Effect(t, M, F, r, n, N, p)
          BY OneEffect
        <5> QED BY <3>2, <5>1 DEF Effect
      <4>2. y.ino.fs # "disk"
        BY <1>2, <3>2
      <4> HIDE DEF y, q
      <4>3. \/ EnterIn(t, N, y, c) = NoPlace
            \/ <<y.ino, c>> \in DOMAIN t /\ EnterIn(t, N, y, c).ino = t[<<y.ino, c>>]
        BY <2>2, <4>1, EnterNew
      <4>4. <<y.ino, c>> \in DOMAIN t => t[<<y.ino, c>>].fs # "disk"
        BY <4>2 DEF Closed
      <4> QED BY <2>2, <4>3, <4>4, DiskFacts
    <3> QED BY <3>1, <3>2
  <2> QED BY <2>1, <2>3
<1>3. \A p \in Seq(Names) : p \in S
  <2> HIDE DEF S
  <2> QED BY <1>1, <1>2, SequenceInduction
<1> QED BY <1>3

\* What a path shows of the disk is labelled with the path.
LEMMA LabelFacts ==
    ASSUME NEW t, Entries(t), Closed(t), NEW M, Hung(M), NEW L, Labels(t, M, L)
    PROVE  \A p \in Seq(Names) : ResolveIn(t, M, p).ino.fs = "disk" => <<ResolveIn(t, M, p).ino, p>> \in L
<1> DEFINE S == {p \in Seq(Names) : ResolveIn(t, M, p).ino.fs = "disk" => <<ResolveIn(t, M, p).ino, p>> \in L}
<1>1. <<>> \in S
  BY ResolveFacts, DiskFacts DEF Labels
<1>2. ASSUME NEW p \in Seq(Names), NEW c \in Names, p \in S PROVE Append(p, c) \in S
  <2> DEFINE x == ResolveIn(t, M, p)
             q == Append(p, c)
             y == EnterIn(t, M, x, c)
             l == [mnt |-> x.mnt, ino |-> t[<<x.ino, c>>]]
             T == {z \in Place : z.ino.fs = "disk" => <<z.ino, q>> \in L}
  <2>1. q \in Seq(Names) /\ x \in Spot /\ ResolveIn(t, M, q) = y
    BY Longer, ResolveFacts
  <2>2. x.ino.fs = "disk" => <<x.ino, p>> \in L
    BY <1>2
  <2> HIDE DEF x, S
  <2> SUFFICES ASSUME y # NoPlace, y.ino.fs = "disk" PROVE <<y.ino, q>> \in L
    BY <2>1, DiskFacts DEF S
  <2>3. l \in Place /\ y = TopIn(M, l) /\ <<x.ino, c>> \in DOMAIN t
    BY <2>1, EnterFacts
  <2>4. l \in T
    <3>1. l.ino = t[<<x.ino, c>>]
      OBVIOUS
    <3>2. t[<<x.ino, c>>].fs = "disk" => x.ino.fs = "disk"
      BY <2>3 DEF Closed
    <3>3. t[<<x.ino, c>>].fs = "disk" => <<t[<<x.ino, c>>], q>> \in L
      BY <2>2, <2>3, <3>2 DEF Labels
    <3> QED BY <2>3, <3>1, <3>3
  <2>5. \A z \in Place, k \in DOMAIN M : z \in T /\ Hangs(M, k, z) => Shown(M, k) \in T
    <3> SUFFICES ASSUME NEW z \in Place, NEW k \in DOMAIN M, z \in T, Hangs(M, k, z)
                 PROVE  Shown(M, k) \in T
      OBVIOUS
    <3>1. Shown(M, k) \in Place /\ Shown(M, k).ino = M[k].root /\ M[k].at = z.ino
      BY HungFacts DEF Hangs
    <3>2. M[k].root.fs = "disk" => <<M[k].root, q>> \in L
      BY <2>1, <3>1 DEF Labels
    <3> QED BY <3>1, <3>2
  <2> HIDE DEF T, l, y, q
  <2>6. TopIn(M, l) \in T
    BY <2>3, <2>4, <2>5, TopInduction
  <2> QED BY <2>3, <2>6 DEF T
<1> HIDE DEF S
<1>3. \A p \in Seq(Names) : p \in S
  BY <1>1, <1>2, SequenceInduction
<1> QED BY <1>3 DEF S

\* So no two paths show one inode of the disk.
LEMMA OnePath ==
    ASSUME NEW t, Entries(t), Closed(t), NEW M, Hung(M), Labelled(t, M),
           NEW p \in Seq(Names), NEW q \in Seq(Names),
           ResolveIn(t, M, p).ino = ResolveIn(t, M, q).ino, ResolveIn(t, M, p).ino.fs = "disk"
    PROVE  p = q
<1>1. PICK L : Labels(t, M, L)
  BY DEF Labelled
<1>2. <<ResolveIn(t, M, p).ino, p>> \in L /\ <<ResolveIn(t, M, p).ino, q>> \in L
  BY <1>1, LabelFacts
<1> QED BY <1>1, <1>2 DEF Labels

\* What is mounted on F: nothing of the disk, or F itself.
Shows(F, r) == r.fs # "disk" \/ r = F.ino

\* A mount of nothing of the disk, or of a place on itself, needs no new label.
LEMMA MountKeepsLabels ==
    ASSUME NEW t, NEW M, NEW F, NEW r, NEW ro, NEW n, NEW N,
           OneMore(M, F, r, ro, n, N), Shows(F, r), NEW L, Labels(t, M, L)
    PROVE  Labels(t, N, L)
<1>1. Grown(M, F, r, ro, n, N)
  BY OneMoreFacts
<1>2. /\ DOMAIN N = DOMAIN M \cup {n} /\ N[n].at = F.ino /\ N[n].root = r
      /\ \A k \in DOMAIN M : N[k] = M[k]
  BY <1>1 DEF Grown
<1>3. ASSUME NEW k \in DOMAIN N, N[k].root.fs = "disk"
      PROVE  /\ N[k].at.fs = "disk"
             /\ \A p \in Seq(Names) : <<N[k].at, p>> \in L => <<N[k].root, p>> \in L
  BY <1>2, <1>3 DEF Labels, Shows
<1> QED BY <1>3 DEF Labels

(***************************************************************************)
(* Guarded: at and beneath some component of p nothing of the disk shows,  *)
(* or (prot) only read-only.                                               *)
(***************************************************************************)

Fine(M, x, prot) == x.ino.fs = "disk" => prot /\ x.mnt > 0 /\ M[x.mnt].ro
Guards(t, M, w, p, prot) ==
    /\ w \in Seq(Names) /\ w # <<>> /\ IsPrefix(w, p)
    /\ ResolveIn(t, M, w) # NoPlace
    /\ \A u \in Paths : IsPrefix(w, u) => Fine(M, ResolveIn(t, M, u), prot)
Guarded(t, M, p, prot) == \E w : Guards(t, M, w, p, prot)

\* A path not through the new mount is shown as it was.
LEMMA FineKept ==
    ASSUME NEW t, Entries(t), NEW M, NEW F, NEW r, NEW ro, NEW n, NEW N, OneMore(M, F, r, ro, n, N),
           NEW u \in Seq(Names), ~Hit(t, M, F, u), NEW prot, Fine(M, ResolveIn(t, M, u), prot)
    PROVE  Fine(N, ResolveIn(t, N, u), prot)
<1> DEFINE x == ResolveIn(t, M, u)
<1>1. Effect(t, M, F, r, n, N, u)
  BY OneEffect
<1>2. ResolveIn(t, N, u) = x
  BY <1>1 DEF Effect
<1>3. Grown(M, F, r, ro, n, N)
  BY OneMoreFacts
<1>4. x.mnt \in DOMAIN M \cup {0} /\ \A k \in DOMAIN M : N[k] = M[k]
  <2>1. Hung(M) /\ \A k \in DOMAIN M : N[k] = M[k]
    BY <1>3 DEF Grown
  <2> QED BY <2>1, KnownMount
<1> HIDE DEF x
<1>5. Fine(M, x, prot)
  BY DEF x
<1>6. Fine(N, x, prot)
  <2>1. CASE x.mnt \in DOMAIN M
    BY <1>4, <1>5, <2>1 DEF Fine
  <2>2. CASE x.mnt = 0
    BY <1>5, <2>2 DEF Fine
  <2> QED BY <1>4, <2>1, <2>2
<1> QED BY <1>2, <1>6

\* What goes through F at a component does so everywhere beneath it.
LEMMA HitBeneath ==
    ASSUME NEW t, NEW M, NEW F, NEW v, NEW w \in Seq(Names), NEW u \in Seq(Names),
           Reaches(t, M, F, v, w), IsPrefix(w, u)
    PROVE  Reaches(t, M, F, v, u)
BY PrefixOrder DEF Reaches

\* A mask guards every path that leads through it ...
LEMMA OffGuards ==
    ASSUME NEW t, Entries(t), Closed(t), NEW M, NEW F, NEW r, NEW ro, NEW n, NEW N,
           OneMore(M, F, r, ro, n, N), r.fs # "disk", NEW p \in Paths, NEW prot, Hit(t, M, F, p)
    PROVE  Guarded(t, N, p, prot)
<1>0. p \in Seq(Names)
  BY PathFacts
<1>1. Effect(t, M, F, r, n, N, p)
  BY <1>0, OneEffect
<1>2. PICK v : Reaches(t, M, F, v, p) /\ ResolveIn(t, N, v) = [mnt |-> n, ino |-> r]
  BY <1>1 DEF Effect
<1>3. v \in Seq(Names) /\ v # <<>> /\ IsPrefix(v, p)
  BY <1>2 DEF Reaches
<1>4. ResolveIn(t, N, v) # NoPlace
  BY <1>2, SpotFacts DEF OneMore, NoPlace
<1>5. ASSUME NEW u \in Paths, IsPrefix(v, u) PROVE Fine(N, ResolveIn(t, N, u), prot)
  <2>1. u \in Seq(Names)
    BY PathFacts
  <2>2. Reaches(t, M, F, v, v)
    BY <1>2, <1>3, PrefixOrder DEF Reaches
  <2>3. Hit(t, M, F, u)
    BY <1>3, <1>5, <2>1, <2>2, HitBeneath DEF Hit
  <2>4. ResolveIn(t, N, u).ino.fs # "disk"
    BY <2>1, <2>3, BelowOff
  <2> QED BY <2>4 DEF Fine
<1> QED BY <1>3, <1>4, <1>5 DEF Guarded, Guards

\* ... and takes no other guard away ...
LEMMA OffKeepsGuards ==
    ASSUME NEW t, Entries(t), Closed(t), NEW M, NEW F, NEW r, NEW ro, NEW n, NEW N,
           OneMore(M, F, r, ro, n, N), r.fs # "disk", NEW p \in Paths, NEW prot, Guarded(t, M, p, prot)
    PROVE  Guarded(t, N, p, prot)
<1>0. p \in Seq(Names)
  BY PathFacts
<1>1. PICK w : Guards(t, M, w, p, prot)
  BY DEF Guarded
<1>2. w \in Seq(Names) /\ w # <<>> /\ IsPrefix(w, p) /\ ResolveIn(t, M, w) # NoPlace
  BY <1>1 DEF Guards
<1>3. CASE Hit(t, M, F, p)
  BY <1>3, OffGuards
<1>4. CASE ~Hit(t, M, F, p)
  <2>1. ~Hit(t, M, F, w)
    BY <1>0, <1>2, <1>4, HitBeneath DEF Hit
  <2>2. ResolveIn(t, N, w) # NoPlace
    <3>1. Effect(t, M, F, r, n, N, w)
      BY <1>2, OneEffect
    <3> QED BY <1>2, <2>1, <3>1 DEF Effect
  <2>3. ASSUME NEW u \in Paths, IsPrefix(w, u) PROVE Fine(N, ResolveIn(t, N, u), prot)
    <3>1. u \in Seq(Names) /\ Fine(M, ResolveIn(t, M, u), prot)
      BY <1>1, <2>3, PathFacts DEF Guards
    <3>2. CASE Hit(t, M, F, u)
      <4>1. ResolveIn(t, N, u).ino.fs # "disk"
        BY <3>1, <3>2, BelowOff
      <4> QED BY <4>1 DEF Fine
    <3>3. CASE ~Hit(t, M, F, u)
      BY <3>1, <3>3, FineKept
    <3> QED BY <3>2, <3>3
  <2> QED BY <1>2, <2>2, <2>3 DEF Guarded, Guards
<1> QED BY <1>3, <1>4

\* ... a place of the disk is reached by its own path only ...
LEMMA OnlyByItself ==
    ASSUME NEW t, Entries(t), Closed(t), NEW M, Hung(M), Labelled(t, M), NEW F, F.ino.fs = "disk",
           NEW q \in Paths, ResolveIn(t, M, q) = F, NEW u \in Paths, NEW v, Reaches(t, M, F, v, u)
    PROVE  v = q
<1>1. v \in Seq(Names) /\ q \in Seq(Names) /\ ResolveIn(t, M, v) = F
  BY PathFacts DEF Reaches
<1> QED BY <1>1, OnePath

\* ... so that a bind of q on itself takes no guard away, except beneath q.
LEMMA OnKeepsGuards ==
    ASSUME NEW t, Entries(t), Closed(t), NEW M, Labelled(t, M),
           NEW F, NEW r, NEW ro, NEW n, NEW N,
           OneMore(M, F, r, ro, n, N), r = F.ino, F.ino.fs = "disk", ro = (F.mnt > 0 /\ M[F.mnt].ro),
           NEW q \in Paths, q # <<>>, ResolveIn(t, M, q) = F,
           NEW p \in Paths, ~IsStrictPrefix(q, p), NEW prot, Guarded(t, M, p, prot)
    PROVE  Guarded(t, N, p, prot)
<1>0. p \in Seq(Names) /\ q \in Seq(Names) /\ Hung(M)
  BY PathFacts, OneMoreFacts DEF Grown
<1>1. PICK w : Guards(t, M, w, p, prot)
  BY DEF Guarded
<1>2. w \in Seq(Names) /\ w # <<>> /\ IsPrefix(w, p) /\ ResolveIn(t, M, w) # NoPlace
  BY <1>1 DEF Guards
<1>3. w \in Paths
  BY <1>2, PrefixPath
<1>4. \A u \in Paths : IsPrefix(w, u) => u \in Seq(Names) /\ Fine(M, ResolveIn(t, M, u), prot)
  BY <1>1, PathFacts DEF Guards
<1>5. \A u \in Paths : Hit(t, M, F, u) => IsPrefix(q, u)
  <2> TAKE u \in Paths
  <2> HAVE Hit(t, M, F, u)
  <2>1. PICK v : Reaches(t, M, F, v, u)
    BY DEF Hit
  <2>2. v = q
    BY <1>0, <2>1, OnlyByItself
  <2> QED BY <2>1, <2>2 DEF Reaches
<1>6. IsPrefix(q, p) => q = p
  BY DEF IsStrictPrefix
<1>7. CASE IsPrefix(w, q)
  <2>1. prot /\ ro = TRUE
    <3>1. Fine(M, F, prot)
      BY <1>4, <1>7
    <3> QED BY <3>1 DEF Fine
  <2>2. ResolveIn(t, N, w) # NoPlace
    <3>1. Effect(t, M, F, r, n, N, w)
      BY <1>2, OneEffect
    <3>2. CASE ~Hit(t, M, F, w)
      BY <1>2, <3>1, <3>2 DEF Effect
    <3>3. CASE Hit(t, M, F, w)
      <4>1. PICK v : Reaches(t, M, F, v, w) /\ ResolveIn(t, N, v) = [mnt |-> n, ino |-> r]
        BY <3>1, <3>3 DEF Effect
      <4>2. v = q
        BY <1>0, <1>3, <4>1, OnlyByItself
      <4>3. IsPrefix(q, w)
        BY <4>1, <4>2 DEF Reaches
      <4>4. q = w
        <5>1. \A a, b \in Seq(Names) : IsPrefix(a, b) /\ IsPrefix(b, a) => a = b
          <6> TAKE a, b \in Seq(Names)
          <6> HAVE IsPrefix(a, b) /\ IsPrefix(b, a)
          <6>1. /\ Len(a) <= Len(b) /\ \A i \in 1 .. Len(a) : a[i] = b[i]
                /\ Len(b) <= Len(a)
            BY PrefixByPlace
          <6>2. Len(a) = Len(b)
            BY <6>1
          <6> QED BY <6>1, <6>2, SeqEqual
        <5> QED BY <1>0, <1>2, <1>7, <4>3, <5>1
      <4>5. ResolveIn(t, N, w) = [mnt |-> n, ino |-> r]
        BY <4>1, <4>2, <4>4
      <4> QED BY <4>5, SpotFacts DEF OneMore, NoPlace
    <3> QED BY <3>2, <3>3
  <2>3. ASSUME NEW u \in Paths, IsPrefix(w, u) PROVE Fine(N, ResolveIn(t, N, u), prot)
    <3>1. u \in Seq(Names) /\ Fine(M, ResolveIn(t, M, u), prot)
      BY <1>4, <2>3
    <3>2. CASE Hit(t, M, F, u)
      <4>1. Effect(t, M, F, r, n, N, u)
        BY <3>1, OneEffect
      <4>2. ResolveIn(t, N, u) = NoPlace \/ ResolveIn(t, N, u).mnt = n
        BY <3>2, <4>1 DEF Effect
      <4>3. Grown(M, F, r, ro, n, N)
        BY OneMoreFacts
      <4>4. n > 0 /\ N[n].ro = TRUE
        BY <2>1, <4>3 DEF Grown
      <4> QED BY <2>1, <4>2, <4>4, DiskFacts DEF Fine
    <3>3. CASE ~Hit(t, M, F, u)
      BY <3>1, <3>3, FineKept
    <3> QED BY <3>2, <3>3
  <2> QED BY <1>2, <2>2, <2>3 DEF Guarded, Guards
<1>8. CASE ~IsPrefix(w, q)
  <2>1. \A u \in Paths : IsPrefix(w, u) => ~Hit(t, M, F, u)
    <3> TAKE u \in Paths
    <3> HAVE IsPrefix(w, u)
    <3>1. ASSUME Hit(t, M, F, u) PROVE FALSE
      <4>1. IsPrefix(q, u) /\ u \in Seq(Names)
        BY <1>4, <1>5, <3>1
      <4>2. IsPrefix(q, w)
        BY <1>0, <1>2, <1>8, <4>1, PrefixOrder
      <4>3. IsPrefix(q, p)
        BY <1>0, <1>2, <4>2, PrefixOrder
      <4> QED BY <1>2, <1>6, <1>8, <4>3
    <3> QED BY <3>1
  <2>2. IsPrefix(w, w)
    BY <1>2, PrefixOrder
  <2>3. ResolveIn(t, N, w) # NoPlace
    <3>1. Effect(t, M, F, r, n, N, w)
      BY <1>2, OneEffect
    <3> QED BY <1>2, <1>3, <2>1, <2>2, <3>1 DEF Effect
  <2>4. ASSUME NEW u \in Paths, IsPrefix(w, u) PROVE Fine(N, ResolveIn(t, N, u), prot)
    BY <1>4, <2>1, <2>4, FineKept
  <2> QED BY <1>2, <2>3, <2>4 DEF Guarded, Guards
<1> QED BY <1>7, <1>8

(***************************************************************************)
(* What a recursive bind of a directory on itself does to path lookup:     *)
(* the same inodes, under the copies of the mounts that showed them        *)
(***************************************************************************)

\* On the copied tree the stacks are the copies of those there were.
SameStacks(M, l, D, B, s, N) ==
    \A x \in Place : Inside(l, D, B, x) => TopIn(N, Moved(s, x)) = Moved(s, TopIn(M, x))

\* They are, after the recursive bind.
LEMMA StacksCopied ==
    ASSUME NEW M, NEW l \in Place, NEW D, NEW B \in SUBSET Nat, NEW s \in Nat, NEW ro, NEW N,
           Copies(M, l, D, B, s, ro, N)
    PROVE  SameStacks(M, l, D, B, s, N)
<1> SUFFICES ASSUME NEW x \in Place, Inside(l, D, B, x)
             PROVE  TopIn(N, Moved(s, x)) = Moved(s, TopIn(M, x))
  BY DEF SameStacks
<1> QED BY TopCopied, SMTT(30)

\* What is stacked inside the tree is one of the mounts below it.
LEMMA TopOrBelow ==
    ASSUME NEW M, NEW l \in Place, NEW D, NEW B \in SUBSET Nat, NEW s \in Nat, NEW ro, NEW N,
           Copies(M, l, D, B, s, ro, N), NEW x \in Place, Inside(l, D, B, x)
    PROVE  TopIn(M, x) = x \/ TopIn(M, x).mnt \in B
<1> DEFINE S == {y \in Place : Inside(l, D, B, y) /\ (y = x \/ y.mnt \in B)}
<1>1. Hung(M)
  BY DEF Copies
<1>2. ASSUME NEW y \in Place, NEW k \in DOMAIN M, y \in S, Hangs(M, k, y) PROVE Shown(M, k) \in S
  <2>1. Inside(l, D, B, y)
    BY <1>2
  <2>2. k \in B /\ Shown(M, k) \in Place /\ Inside(l, D, B, Shown(M, k))
    BY <1>2, <2>1, InsideKept
  <2>3. Shown(M, k).mnt = k
    BY DEF Shown
  <2> QED BY <2>2, <2>3
<1>3. x \in S
  OBVIOUS
<1>4. TopIn(M, x) \in S
  <2> HIDE DEF S
  <2> QED BY <1>1, <1>2, <1>3, TopInduction
<1> QED BY <1>4

\* A place reached through l, and how deep below it.
Within(l, B, u, p, x) ==
    /\ x.mnt \in B \cup {l.mnt}
    /\ x.mnt = l.mnt => \E j \in 0 .. MaxDepth : j < Len(p) /\ x.ino \in u[j]

\* A path through l leads to the copy of what it led to, the others as before.
CopyEffect(l, B, u, s, N, p) ==
    LET x == ResolveIn(entry, mounts, p) IN
    IF Hit(entry, mounts, l, p) /\ x # NoPlace
    THEN ResolveIn(entry, N, p) = Moved(s, x) /\ Within(l, B, u, p, x)
    ELSE ResolveIn(entry, N, p) = x

\* So it is for every path; a path has no more components than Below has
\* levels.
LEMMA CopyEffects ==
    ASSUME Entries(entry), NEW l \in Place, NEW B \in SUBSET Nat, NEW s \in Nat, NEW ro, NEW N,
           Copies(mounts, l, Below(l.ino), B, s, ro, N), NEW u, Levels(l.ino, u)
    PROVE  \A p \in Paths : CopyEffect(l, B, u, s, N, p)
<1> DEFINE t == entry
           M == mounts
           D == Below(l.ino)
           S == {p \in Seq(Names) : CopyEffect(l, B, u, s, N, p)}
<1>1. Hung(M) /\ Hung(N)
  BY CopyHung, SMTT(30) DEF Copies
<1>2. /\ l.mnt \in Nat /\ l.mnt < s /\ \A k \in DOMAIN M : k \in Nat /\ k < s
      /\ \A k \in B : k > l.mnt /\ k \in Nat
  BY DEF Copies
<1>3. l.ino \in Inode /\ MaxDepth \in Nat
  BY MaxDepthAssumption DEF Place
<1>4. /\ \A k \in 0 .. MaxDepth : u[k] \subseteq D
      /\ \A k \in 0 .. MaxDepth, e \in DOMAIN t : k < MaxDepth /\ e[1] \in u[k] => t[e] \in u[k + 1]
      /\ l.ino \in D /\ l.ino \in u[0]
  BY <1>3, LevelFacts
<1>5. \A x \in Place : Moved(s, x) \in Place /\ Moved(s, x) # NoPlace
  <2> TAKE x \in Place
  <2>1. Moved(s, x) \in Place
    BY DEF Moved, Place
  <2> QED BY <2>1, SpotFacts
<1>6. <<>> \in S
  <2>1. ~Hit(t, M, l, <<>>)
    <3>1. \A v \in Seq(Names) : IsPrefix(v, <<>>) => v = <<>>
      BY PrefixOrder
    <3> QED BY <3>1 DEF Hit, Reaches
  <2>2. ResolveIn(t, N, <<>>) = ResolveIn(t, M, <<>>)
    BY <1>1, ResolveFacts
  <2> QED BY <2>1, <2>2 DEF CopyEffect
<1>7. ASSUME NEW p \in Seq(Names), NEW c \in Names, Append(p, c) \in Paths /\ p \in S PROVE Append(p, c) \in S
  <2> DEFINE q == Append(p, c)
             x == ResolveIn(t, M, p)
             y == ResolveIn(t, N, p)
             x2 == ResolveIn(t, M, q)
             y2 == ResolveIn(t, N, q)
  <2>1. q \in Seq(Names) /\ Len(q) = Len(p) + 1 /\ Len(p) \in Nat /\ Len(p) <= MaxDepth
    <3>1. p \in Listable
      BY <1>7, Longer
    <3> QED BY <3>1, Longer, PathFacts
  <2>2. /\ x \in Spot /\ y \in Spot /\ x2 = EnterIn(t, M, x, c) /\ y2 = EnterIn(t, N, y, c)
        /\ x2 \in Spot /\ y2 \in Spot
    BY <1>1, <2>1, ResolveFacts, ZenonT(40)
  <2>3. /\ Hit(t, M, l, p) => Hit(t, M, l, q)
        /\ x2 = l => Hit(t, M, l, q)
        /\ Hit(t, M, l, q) => Hit(t, M, l, p) \/ x2 = l
    BY HitLonger
  <2>4. CopyEffect(l, B, u, s, N, p)
    BY <1>7
  <2>5. x.mnt \in DOMAIN M \cup {0}
    BY <1>1, KnownMount
  <2>6. \A w \in Spot : /\ EnterIn(t, M, w, c) # NoPlace <=> <<w.ino, c>> \in DOMAIN t
                        /\ EnterIn(t, N, w, c) # NoPlace <=> <<w.ino, c>> \in DOMAIN t
    <3> TAKE w \in Spot
    <3>1. EnterIn(t, M, w, c) # NoPlace <=> <<w.ino, c>> \in DOMAIN t
      BY <1>1, EnterFacts
    <3>2. EnterIn(t, N, w, c) # NoPlace <=> <<w.ino, c>> \in DOMAIN t
      BY <1>1, EnterFacts
    <3> QED BY <3>1, <3>2
  <2>7. x = NoPlace => x2 = NoPlace
    <3> HIDE DEF x, x2
    <3>1. x2 = EnterIn(t, M, x, c) /\ x \in Spot
      BY <2>2
    <3>2. x = NoPlace => EnterIn(t, M, x, c) = NoPlace
      BY <1>1, <3>1, EnterFacts
    <3> QED BY <3>1, <3>2
  <2> DEFINE z == [mnt |-> x.mnt, ino |-> t[<<x.ino, c>>]]
  <2>8. x2 # NoPlace => z \in Place /\ x2 = TopIn(M, z) /\ x \in Place /\ <<x.ino, c>> \in DOMAIN t
    BY <1>1, <2>2, <2>6, EnterFacts
  <2>9. z.mnt = x.mnt /\ z.ino = t[<<x.ino, c>>]
    OBVIOUS
  <2> HIDE DEF q, x, y, x2, y2, z
  <2>10. CASE x2 = NoPlace
    <3>1. y2 = NoPlace
      <4>1. <<x.ino, c>> \notin DOMAIN t
        BY <2>2, <2>6, <2>10
      <4>2. y.ino = x.ino
        BY <2>4 DEF CopyEffect, x, y, Moved
      <4> QED BY <2>2, <2>6, <4>1, <4>2
    <3>2. CopyEffect(l, B, u, s, N, q)
      BY <2>10, <3>1 DEF CopyEffect, x2, y2
    <3> QED BY <2>1, <3>2 DEF q
  <2>11. CASE x2 # NoPlace /\ Hit(t, M, l, p)
    <3>1. x # NoPlace /\ x \in Place /\ z \in Place
      BY <2>7, <2>8, <2>11
    <3>2. y = Moved(s, x) /\ Within(l, B, u, p, x)
      BY <2>4, <2>11, <3>1 DEF CopyEffect, x, y
    <3>3. Inside(l, D, B, z) /\ Within(l, B, u, q, z)
      <4>1. CASE x.mnt = l.mnt
        <5>1. PICK j \in 0 .. MaxDepth : j < Len(p) /\ x.ino \in u[j]
          BY <3>2, <4>1 DEF Within
        <5>2. j < MaxDepth /\ j + 1 \in 0 .. MaxDepth /\ j + 1 < Len(q)
          BY <1>3, <2>1, <5>1
        <5>3. z.ino \in u[j + 1]
          <6> DEFINE e == <<x.ino, c>>
          <6>1. e \in DOMAIN t /\ e[1] = x.ino
            BY <2>8, <2>11
          <6> HIDE DEF e
          <6>2. t[e] \in u[j + 1]
            BY <1>4, <5>1, <5>2, <6>1
          <6> QED BY <2>9, <6>2 DEF e
        <5>4. z.ino \in D
          BY <1>4, <5>2, <5>3
        <5> QED BY <2>9, <4>1, <5>2, <5>3, <5>4 DEF Inside, Within
      <4>2. CASE x.mnt # l.mnt
        BY <2>9, <3>2, <4>2 DEF Inside, Within
      <4> QED BY <4>1, <4>2
    <3>4. TopIn(N, Moved(s, z)) = Moved(s, x2) /\ (x2 = z \/ x2.mnt \in B)
      <4>1. TopIn(N, Moved(s, z)) = Moved(s, TopIn(M, z))
        <5>1. SameStacks(M, l, D, B, s, N)
          BY StacksCopied
        <5> QED BY <3>1, <3>3, <5>1 DEF SameStacks
      <4>2. TopIn(M, z) = z \/ TopIn(M, z).mnt \in B
        <5>1. \A w \in Place : Inside(l, D, B, w) => TopIn(M, w) = w \/ TopIn(M, w).mnt \in B
          BY TopOrBelow
        <5> QED BY <3>1, <3>3, <5>1
      <4> QED BY <2>8, <2>11, <4>1, <4>2
    <3>5. Within(l, B, u, q, x2)
      <4>1. CASE x2 = z
        BY <3>3, <4>1
      <4>2. CASE x2.mnt \in B
        <5>1. x2.mnt # l.mnt
          BY <1>2, <4>2
        <5> QED BY <4>2, <5>1 DEF Within
      <4> QED BY <3>4, <4>1, <4>2
    <3>6. y2 = Moved(s, x2)
      <4>1. y.ino = x.ino /\ y.mnt = x.mnt + s
        BY <3>2 DEF Moved
      <4>2. y2 # NoPlace
        BY <2>2, <2>6, <2>8, <2>11, <4>1
      <4>3. y2 = TopIn(N, [mnt |-> y.mnt, ino |-> t[<<y.ino, c>>]])
        BY <1>1, <2>2, <4>2, EnterFacts
      <4>4. [mnt |-> y.mnt, ino |-> t[<<y.ino, c>>]] = Moved(s, z)
        BY <2>9, <4>1 DEF Moved
      <4> QED BY <3>4, <4>3, <4>4
    <3>7. CopyEffect(l, B, u, s, N, q)
      BY <2>3, <2>11, <3>5, <3>6 DEF CopyEffect, x2, y2
    <3> QED BY <2>1, <3>7 DEF q
  <2>12. CASE x2 # NoPlace /\ ~Hit(t, M, l, p)
    <3>1. y = x
      BY <2>4, <2>12 DEF CopyEffect, x, y
    <3>2. y2 = TopIn(N, z)
      <4>1. y2 # NoPlace
        BY <2>2, <2>6, <2>8, <2>12, <3>1
      <4>2. y2 = TopIn(N, [mnt |-> y.mnt, ino |-> t[<<y.ino, c>>]])
        BY <1>1, <2>2, <4>1, EnterFacts
      <4> QED BY <3>1, <4>2 DEF z
    <3>3. z \in Place /\ z.mnt < s /\ x2 = TopIn(M, z)
      <4>1. x.mnt < s
        BY <1>2, <2>5
      <4> QED BY <2>8, <2>9, <2>12, <4>1
    <3>4. y2 = IF x2 = l THEN Moved(s, l) ELSE x2
      BY <3>2, <3>3, TopOutside
    <3>5. CASE x2 = l
      <4>1. Within(l, B, u, q, l)
        <5>1. 0 \in 0 .. MaxDepth /\ 0 < Len(q)
          BY <1>3, <2>1
        <5> QED BY <1>4, <5>1 DEF Within
      <4>2. CopyEffect(l, B, u, s, N, q)
        BY <2>3, <2>12, <3>4, <3>5, <4>1 DEF CopyEffect, x2, y2
      <4> QED BY <2>1, <4>2 DEF q
    <3>6. CASE x2 # l
      <4>1. CopyEffect(l, B, u, s, N, q)
        BY <2>3, <2>12, <3>4, <3>6 DEF CopyEffect, x2, y2
      <4> QED BY <2>1, <4>1 DEF q
    <3> QED BY <3>5, <3>6
  <2> QED BY <2>10, <2>11, <2>12
<1>8. \A p \in Paths : p \in S
  <2> HIDE DEF S
  <2> QED BY <1>6, <1>7, PathInduction
<1> QED BY <1>8

\* p shows what it showed, maybe in a copy of the mount that showed it.
SameShown(l, B, s, N, p) ==
    LET x == ResolveIn(entry, mounts, p)
        y == ResolveIn(entry, N, p)
    IN  /\ x = NoPlace <=> y = NoPlace
        /\ y.ino = x.ino
        /\ y = x \/ (y = Moved(s, x) /\ x.mnt \in B \cup {l.mnt})

\* The recursive bind changes nothing that a path shows ...
LEMMA CopyKeeps ==
    ASSUME Entries(entry), NEW l \in Place, NEW B \in SUBSET Nat, NEW s \in Nat, NEW ro, NEW N,
           Copies(mounts, l, Below(l.ino), B, s, ro, N), NEW p \in Paths
    PROVE  SameShown(l, B, s, N, p)
<1>1. l.ino \in Inode
  BY DEF Place
<1>2. PICK u : Levels(l.ino, u)
  BY <1>1, LevelsExist
<1>3. CopyEffect(l, B, u, s, N, p)
  BY <1>2, CopyEffects
<1> DEFINE x == ResolveIn(entry, mounts, p)
           y == ResolveIn(entry, N, p)
<1>4. x \in Spot
  <2>1. Hung(mounts) /\ p \in Seq(Names)
    BY PathFacts DEF Copies
  <2> QED BY <2>1, ResolveFacts
<1> HIDE DEF x, y
<1>5. CASE x # NoPlace /\ y = Moved(s, x) /\ Within(l, B, u, p, x)
  <2>1. x \in Place
    BY <1>4, <1>5 DEF Spot
  <2>2. y \in Place
    BY <1>5, <2>1 DEF Moved, Place
  <2>3. y # NoPlace
    BY <2>2, SpotFacts
  <2> QED BY <1>5, <2>3 DEF Moved, Within, x, y, SameShown
<1>6. CASE y = x
  BY <1>6 DEF x, y, SameShown
<1> QED BY <1>3, <1>5, <1>6 DEF CopyEffect, x, y

\* ... nor which path an inode has ...
LEMMA CopyKeepsLabels ==
    ASSUME NEW M, NEW l \in Place, NEW D, NEW B \in SUBSET Nat, NEW s \in Nat, NEW ro, NEW N,
           Copies(M, l, D, B, s, ro, N), NEW t, NEW L, Labels(t, M, L)
    PROVE  Labels(t, N, L)
<1>1. ASSUME NEW k \in DOMAIN N, N[k].root.fs = "disk"
      PROVE  /\ N[k].at.fs = "disk"
             /\ \A p \in Seq(Names) : <<N[k].at, p>> \in L => <<N[k].root, p>> \in L
  <2>1. CASE k \in DOMAIN M
    BY <1>1, <2>1 DEF Copies, Labels
  <2>2. CASE k = l.mnt + s
    <3>1. N[k] = BindAt(l, ro)
      BY <2>2 DEF Copies
    <3> QED BY <1>1, <3>1 DEF BindAt
  <2>3. ASSUME NEW i \in B, k = i + s
        PROVE  /\ N[k].at.fs = "disk"
               /\ \A p \in Seq(Names) : <<N[k].at, p>> \in L => <<N[k].root, p>> \in L
    <3>1. i \in DOMAIN M /\ N[k] = CopyOf(M, i, s)
      BY <2>3 DEF Copies, AreBelow
    <3>2. N[k].root = M[i].root /\ N[k].at = M[i].at
      BY <3>1 DEF CopyOf
    <3> QED BY <1>1, <3>1, <3>2 DEF Labels
  <2> QED BY <2>1, <2>2, <2>3 DEF Copies
<1> QED BY <1>1 DEF Labels

\* ... and no guard is lost: the copies are as read-only as the mounts.
LEMMA CopyKeepsGuards ==
    ASSUME Entries(entry), NEW l \in Place, NEW B \in SUBSET Nat, NEW s \in Nat, NEW ro, NEW N,
           Copies(mounts, l, Below(l.ino), B, s, ro, N), ro = ReadOnly(l.mnt),
           NEW p \in Paths, NEW prot, Guarded(entry, mounts, p, prot)
    PROVE  Guarded(entry, N, p, prot)
<1>1. PICK w : Guards(entry, mounts, w, p, prot)
  BY DEF Guarded
<1>2. w \in Seq(Names) /\ w # <<>> /\ IsPrefix(w, p) /\ ResolveIn(entry, mounts, w) # NoPlace /\ w \in Paths
  BY <1>1, PrefixPath DEF Guards
<1>3. ResolveIn(entry, N, w) # NoPlace
  <2>1. SameShown(l, B, s, N, w)
    BY <1>2, CopyKeeps
  <2> QED BY <1>2, <2>1 DEF SameShown
<1>4. /\ Hung(mounts) /\ l.mnt \in Nat /\ s \in Nat /\ l.mnt < s
      /\ N[l.mnt + s] = BindAt(l, ro)
      /\ \A k \in B : N[k + s] = CopyOf(mounts, k, s) /\ k \in Nat /\ k > l.mnt
      /\ \A k \in DOMAIN mounts : N[k] = mounts[k]
  BY DEF Copies
<1>5. ASSUME NEW v \in Paths, IsPrefix(w, v) PROVE Fine(N, ResolveIn(entry, N, v), prot)
  <2> DEFINE x == ResolveIn(entry, mounts, v)
             y == ResolveIn(entry, N, v)
  <2>1. Fine(mounts, x, prot)
    BY <1>1, <1>5 DEF Guards
  <2>2. y.ino = x.ino /\ (y = x \/ (y = Moved(s, x) /\ x.mnt \in B \cup {l.mnt}))
    <3>1. SameShown(l, B, s, N, v)
      BY CopyKeeps
    <3> QED BY <3>1 DEF SameShown
  <2>3. x.mnt \in DOMAIN mounts \cup {0}
    BY <1>4, KnownMount, PathFacts
  <2> HIDE DEF x, y
  <2>4. CASE y = x
    BY <1>4, <2>1, <2>3, <2>4 DEF Fine, y
  <2>5. CASE y = Moved(s, x) /\ x.mnt \in B
    <3>0. x.mnt \in Nat /\ x.mnt > 0
      BY <1>4, <2>5
    <3>1. y.mnt = x.mnt + s /\ y.mnt > 0
      <4>1. y.mnt = x.mnt + s
        BY <2>5 DEF Moved
      <4> QED BY <1>4, <3>0, <4>1
    <3>2. N[y.mnt].ro = mounts[x.mnt].ro
      <4>1. N[x.mnt + s] = CopyOf(mounts, x.mnt, s)
        BY <1>4, <2>5
      <4> QED BY <3>1, <4>1 DEF CopyOf
    <3> QED BY <2>1, <2>2, <3>1, <3>2 DEF Fine, y
  <2>6. CASE y = Moved(s, x) /\ x.mnt = l.mnt
    <3>1. y.mnt = l.mnt + s /\ y.mnt > 0
      BY <1>4, <2>6 DEF Moved
    <3>2. N[y.mnt].ro = ro
      BY <1>4, <3>1 DEF BindAt
    <3>3. ro <=> x.mnt > 0 /\ mounts[x.mnt].ro
      BY <2>6 DEF ReadOnly
    <3> QED BY <2>1, <2>2, <3>1, <3>2, <3>3 DEF Fine, y
  <2> QED BY <2>2, <2>4, <2>5, <2>6
<1> QED BY <1>2, <1>3, <1>5 DEF Guarded, Guards

(***************************************************************************)
(* A new entry                                                             *)
(***************************************************************************)

\* Every inode in use was made before the one with id f.
Known(t, M, f) ==
    /\ \A e \in DOMAIN t : e[1].id < f /\ t[e].id < f
    /\ \A k \in DOMAIN M : M[k].root.id < f /\ M[k].at.id < f
    /\ Root.id < f /\ f \in Nat

\* A lookup returns only inodes in use.
LEMMA ResolvedKnown ==
    ASSUME NEW t, Entries(t), NEW M, Hung(M), NEW f, Known(t, M, f)
    PROVE  \A p \in Seq(Names) : ResolveIn(t, M, p) # NoPlace => ResolveIn(t, M, p).ino.id < f
<1> DEFINE S == {p \in Seq(Names) : ResolveIn(t, M, p) # NoPlace => ResolveIn(t, M, p).ino.id < f}
<1>1. <<>> \in S
  <2>1. ResolveIn(t, M, <<>>) = RootPlace
    BY ResolveFacts
  <2> QED BY <2>1, DiskFacts DEF Known
<1>2. ASSUME NEW p \in Seq(Names), NEW c \in Names, p \in S PROVE Append(p, c) \in S
  <2> DEFINE q == Append(p, c)
             x == ResolveIn(t, M, p)
             y == ResolveIn(t, M, q)
             z == [mnt |-> x.mnt, ino |-> t[<<x.ino, c>>]]
  <2>1. q \in Seq(Names) /\ x \in Spot /\ y = EnterIn(t, M, x, c)
    BY Longer, ResolveFacts
  <2>2. ASSUME y # NoPlace PROVE y.ino.id < f
    <3> HIDE DEF x, y
    <3>1. z \in Place /\ y = TopIn(M, z) /\ <<x.ino, c>> \in DOMAIN t
      BY <2>1, <2>2, EnterFacts
    <3>2. z.ino.id < f
      BY <3>1 DEF Known
    <3> DEFINE T == {w \in Place : w.ino.id < f}
    <3>3. \A w \in Place, k \in DOMAIN M : w \in T /\ Hangs(M, k, w) => Shown(M, k) \in T
      <4> TAKE w \in Place, k \in DOMAIN M
      <4>1. Shown(M, k) \in Place /\ Shown(M, k).ino = M[k].root
        BY HungFacts
      <4>2. M[k].root.id < f
        BY DEF Known
      <4> QED BY <4>1, <4>2
    <3>4. z \in T
      BY <3>1, <3>2
    <3> HIDE DEF z, T
    <3>5. TopIn(M, z) \in T
      BY <3>1, <3>3, <3>4, TopInduction
    <3> QED BY <3>1, <3>5 DEF T
  <2> QED BY <2>1, <2>2
<1>3. \A p \in Seq(Names) : p \in S
  <2> HIDE DEF S
  <2> QED BY <1>1, <1>2, SequenceInduction
<1> QED BY <1>3

\* t with one more entry.
AddEntry(t, slot, made) == [e \in DOMAIN t \cup {slot} |-> IF e = slot THEN made ELSE t[e]]

\* t2 is t with one more entry, from a known inode to a new one.
OneEntry(t, d, c, made, f, t2) ==
    /\ Entries(t) /\ d \in Inode /\ c \in Names /\ made \in Inode
    /\ <<d, c>> \notin DOMAIN t /\ t2 = AddEntry(t, <<d, c>>, made)
    /\ made.id = f /\ d.id < f /\ f \in Nat /\ made.fs = d.fs

\* The entries after it.
LEMMA OneEntryFacts ==
    ASSUME NEW t, NEW d, NEW c, NEW made, NEW f, NEW t2, OneEntry(t, d, c, made, f, t2)
    PROVE  /\ Entries(t2) /\ DOMAIN t2 = DOMAIN t \cup {<<d, c>>} /\ t2[<<d, c>>] = made
           /\ \A e \in DOMAIN t : t2[e] = t[e] /\ e # <<d, c>>
<1>1. DOMAIN t2 = DOMAIN t \cup {<<d, c>>} /\ t2[<<d, c>>] = made /\ \A e \in DOMAIN t : t2[e] = t[e] /\ e # <<d, c>>
  BY DEF OneEntry, AddEntry
<1>2. Entries(t2)
  BY <1>1 DEF OneEntry, Entries
<1> QED BY <1>1, <1>2

\* The place of the new entry.
MadeAt(t, M, d, c, made, p, y) ==
    \E q \in Seq(Names) : /\ p = Append(q, c)
                          /\ ResolveIn(t, M, q) # NoPlace /\ ResolveIn(t, M, q).ino = d
                          /\ y = [mnt |-> ResolveIn(t, M, q).mnt, ino |-> made]

\* What is there stays; what was not there may be the new inode.
EntryEffect(t, M, d, c, made, t2, p) ==
    IF ResolveIn(t, M, p) # NoPlace
    THEN ResolveIn(t2, M, p) = ResolveIn(t, M, p)
    ELSE \/ ResolveIn(t2, M, p) = NoPlace
         \/ MadeAt(t, M, d, c, made, p, ResolveIn(t2, M, p))

\* So it is for every path: nothing is mounted on, or found in, a new inode.
LEMMA EntryEffects ==
    ASSUME NEW t, NEW d, NEW c, NEW made, NEW f, NEW t2, OneEntry(t, d, c, made, f, t2),
           NEW M, Hung(M), Known(t, M, f)
    PROVE  \A p \in Seq(Names) : EntryEffect(t, M, d, c, made, t2, p)
<1> DEFINE S == {p \in Seq(Names) : EntryEffect(t, M, d, c, made, t2, p)}
           slot == <<d, c>>
<1>1. /\ Entries(t) /\ d \in Inode /\ c \in Names /\ made \in Inode /\ slot \notin DOMAIN t
      /\ made.id = f /\ d.id < f /\ f \in Nat
  BY DEF OneEntry
<1>2. /\ Entries(t2) /\ DOMAIN t2 = DOMAIN t \cup {slot} /\ t2[slot] = made
      /\ \A e \in DOMAIN t : t2[e] = t[e]
  BY OneEntryFacts
<1>3. \A k \in DOMAIN M : M[k].at # made
  <2> TAKE k \in DOMAIN M
  <2>1. M[k].at.id < f /\ M[k].at \in Inode
    BY HungFacts DEF Known
  <2> QED BY <1>1, <2>1 DEF Inode
<1>4. \A e \in DOMAIN t2 : e[1] # made
  <2> TAKE e \in DOMAIN t2
  <2>1. e[1].id < f /\ e[1] \in Inode
    BY <1>1, <1>2 DEF Known, Entries
  <2> QED BY <1>1, <2>1 DEF Inode
<1>5. <<>> \in S
  <2>1. ResolveIn(t, M, <<>>) = RootPlace /\ ResolveIn(t2, M, <<>>) = RootPlace
    BY <1>1, <1>2, ResolveFacts
  <2> QED BY <2>1, SpotFacts DEF EntryEffect
<1>6. ASSUME NEW p \in Seq(Names), NEW n \in Names, p \in S PROVE Append(p, n) \in S
  <2> DEFINE q == Append(p, n)
             x == ResolveIn(t, M, p)
             y == ResolveIn(t2, M, p)
             x2 == ResolveIn(t, M, q)
             y2 == ResolveIn(t2, M, q)
  <2>1. /\ q \in Seq(Names) /\ x \in Spot /\ y \in Spot
        /\ x2 = EnterIn(t, M, x, n) /\ y2 = EnterIn(t2, M, y, n)
    BY <1>1, <1>2, Longer, ResolveFacts
  <2>2. EntryEffect(t, M, d, c, made, t2, p)
    BY <1>6
  <2> HIDE DEF q, x, y, x2, y2, slot
  <2>3. x2 # NoPlace <=> <<x.ino, n>> \in DOMAIN t
    BY <1>1, <2>1, EnterFacts
  <2>4. y2 # NoPlace <=> <<y.ino, n>> \in DOMAIN t2
    BY <1>2, <2>1, EnterFacts
  <2>5. x2 # NoPlace => x2 = TopIn(M, [mnt |-> x.mnt, ino |-> t[<<x.ino, n>>]])
    BY <1>1, <2>1, EnterFacts
  <2>6. y2 # NoPlace => y2 = TopIn(M, [mnt |-> y.mnt, ino |-> t2[<<y.ino, n>>]])
    BY <1>2, <2>1, EnterFacts
  <2>7. CASE x # NoPlace
    <3>1. y = x
      BY <2>2, <2>7 DEF EntryEffect, x, y
    <3>2. CASE x2 # NoPlace
      <4>1. <<x.ino, n>> \in DOMAIN t /\ t2[<<x.ino, n>>] = t[<<x.ino, n>>] /\ y2 # NoPlace
        BY <1>2, <2>3, <2>4, <3>1, <3>2
      <4>2. y2 = x2
        BY <2>5, <2>6, <3>1, <3>2, <4>1
      <4>3. EntryEffect(t, M, d, c, made, t2, q)
        BY <3>2, <4>2 DEF EntryEffect, x2, y2
      <4> QED BY <2>1, <4>3 DEF q
    <3>3. CASE x2 = NoPlace /\ y2 # NoPlace
      <4>1. <<x.ino, n>> = slot
        BY <1>2, <2>3, <2>4, <3>1, <3>3
      <4>2. x.ino = d /\ n = c
        BY <4>1 DEF slot
      <4> DEFINE z == [mnt |-> x.mnt, ino |-> made]
      <4>3. y2 = TopIn(M, z) /\ z \in Place
        <5>1. x \in Place
          BY <2>1, <2>7 DEF Spot
        <5> QED BY <1>1, <1>2, <2>6, <3>1, <3>3, <4>1, <5>1 DEF Place
      <4>4. \A k \in DOMAIN M : ~Hangs(M, k, z)
        BY <1>3 DEF Hangs
      <4> HIDE DEF z
      <4>5. y2 = z
        BY <4>3, <4>4, TopFacts
      <4>6. MadeAt(t, M, d, c, made, q, y2)
        BY <2>7, <4>2, <4>5 DEF MadeAt, q, x, z
      <4>7. EntryEffect(t, M, d, c, made, t2, q)
        BY <3>3, <4>6 DEF EntryEffect, x2, y2
      <4> QED BY <2>1, <4>7 DEF q
    <3>4. CASE x2 = NoPlace /\ y2 = NoPlace
      <4>1. EntryEffect(t, M, d, c, made, t2, q)
        BY <3>4 DEF EntryEffect, x2, y2
      <4> QED BY <2>1, <4>1 DEF q
    <3> QED BY <3>2, <3>3, <3>4
  <2>8. CASE x = NoPlace
    <3>1. x2 = NoPlace
      <4>1. EnterIn(t, M, x, n) = NoPlace
        BY <1>1, <2>1, <2>8, EnterFacts
      <4> QED BY <2>1, <4>1
    <3>2. y = NoPlace \/ y.ino = made
      BY <2>2, <2>8 DEF EntryEffect, MadeAt, x, y
    <3>3. y2 = NoPlace
      <4>1. CASE y = NoPlace
        <5>1. EnterIn(t2, M, y, n) = NoPlace
          BY <1>2, <2>1, <4>1, EnterFacts
        <5> QED BY <2>1, <5>1
      <4>2. CASE y.ino = made
        <5>1. <<y.ino, n>> \notin DOMAIN t2
          BY <1>4, <4>2
        <5> QED BY <2>4, <5>1
      <4> QED BY <3>2, <4>1, <4>2
    <3>4. EntryEffect(t, M, d, c, made, t2, q)
      BY <3>1, <3>3 DEF EntryEffect, x2, y2
    <3> QED BY <2>1, <3>4 DEF q
  <2> QED BY <2>7, <2>8
<1>7. \A p \in Seq(Names) : p \in S
  <2> HIDE DEF S
  <2> QED BY <1>5, <1>6, SequenceInduction
<1> QED BY <1>7

\* No path that led somewhere leads elsewhere.
LEMMA EntryKeepsPlaces ==
    ASSUME NEW t, NEW d, NEW c, NEW made, NEW f, NEW t2, OneEntry(t, d, c, made, f, t2),
           NEW M, Hung(M), Known(t, M, f), NEW p \in Seq(Names), ResolveIn(t, M, p) # NoPlace
    PROVE  ResolveIn(t2, M, p) = ResolveIn(t, M, p)
<1>1. EntryEffect(t, M, d, c, made, t2, p)
  BY EntryEffects
<1> QED BY <1>1 DEF EntryEffect

\* A new file is on the file system of its directory.
LEMMA EntryKeepsTree ==
    ASSUME NEW t, NEW d, NEW c, NEW made, NEW f, NEW t2, OneEntry(t, d, c, made, f, t2),
           NEW M, Hung(M), Known(t, M, f), Closed(t)
    PROVE  Closed(t2) /\ Known(t2, M, f + 1) /\ Entries(t2)
<1>3. /\ Entries(t) /\ d \in Inode /\ c \in Names /\ made \in Inode /\ <<d, c>> \notin DOMAIN t
      /\ made.id = f /\ d.id < f /\ f \in Nat /\ made.fs = d.fs
  BY DEF OneEntry
<1>4. /\ Entries(t2) /\ DOMAIN t2 = DOMAIN t \cup {<<d, c>>} /\ t2[<<d, c>>] = made
      /\ \A e \in DOMAIN t : t2[e] = t[e] /\ e # <<d, c>>
  BY OneEntryFacts, ZenonT(40)
<1>10. Closed(t2)
  <2> SUFFICES ASSUME NEW e \in DOMAIN t2, t2[e].fs = "disk" PROVE e[1].fs = "disk"
    BY DEF Closed
  <2>1. CASE e = <<d, c>>
    <3>1. e[1] = d
      BY <2>1
    <3> QED BY <1>3, <1>4, <2>1, <3>1
  <2>2. CASE e \in DOMAIN t
    BY <1>4, <2>2 DEF Closed
  <2> QED BY <1>4, <2>1, <2>2
<1>11. Known(t2, M, f + 1)
  <2>1. \A e \in DOMAIN t2 : e[1].id < f + 1 /\ t2[e].id < f + 1
    <3> TAKE e \in DOMAIN t2
    <3>1. CASE e = <<d, c>>
      <4>1. e[1] = d /\ t2[e] = made /\ d.id \in Nat
        BY <1>3, <1>4, <3>1 DEF Inode
      <4> QED BY <1>3, <4>1
    <3>2. CASE e \in DOMAIN t
      <4>1. e[1].id < f /\ t[e].id < f /\ t2[e] = t[e]
        BY <1>4, <3>2 DEF Known
      <4>2. e[1].id \in Nat /\ t[e].id \in Nat
        BY <1>3, <3>2 DEF Entries, Inode
      <4> QED BY <1>3, <4>1, <4>2
    <3> QED BY <1>4, <3>1, <3>2
  <2>2. \A k \in DOMAIN M : M[k].root.id < f + 1 /\ M[k].at.id < f + 1
    <3> TAKE k \in DOMAIN M
    <3>1. M[k].root.id \in Nat /\ M[k].at.id \in Nat
      BY HungFacts DEF Inode
    <3>2. M[k].root.id < f /\ M[k].at.id < f
      BY DEF Known
    <3> QED BY <1>3, <3>1, <3>2
  <2>3. Root.id < f + 1
    BY <1>3, DiskFacts DEF Known
  <2> QED BY <1>3, <2>1, <2>2, <2>3 DEF Known
<1> QED BY <1>4, <1>10, <1>11

\* The labels after it: the new file gets the path of its directory and its name.
MoreLabels(L, d, c, made) ==
    {x \in L : x[1] # made} \cup {<<made, Append(p, c)>> : p \in {q \in Seq(Names) : <<d, q>> \in L}}

LEMMA EntryKeepsLabels ==
    ASSUME NEW t, NEW d, NEW c, NEW made, NEW f, NEW t2, OneEntry(t, d, c, made, f, t2),
           NEW M, Hung(M), Known(t, M, f), NEW L, Labels(t, M, L)
    PROVE  Labels(t2, M, MoreLabels(L, d, c, made))
<1> DEFINE K == MoreLabels(L, d, c, made)
<1>1. /\ DOMAIN t2 = DOMAIN t \cup {<<d, c>>} /\ t2[<<d, c>>] = made
      /\ \A e \in DOMAIN t : t2[e] = t[e]
  BY OneEntryFacts
<1>2. made.id = f /\ f \in Nat /\ made # d /\ made # Root /\ c \in Names
  <2>1. made.id = f /\ f \in Nat /\ d.id < f /\ Root.id < f /\ c \in Names
    BY DEF OneEntry, Known
  <2> QED BY <2>1
<1>3. \A e \in DOMAIN t : e[1] # made /\ t[e] # made
  <2> TAKE e \in DOMAIN t
  <2>1. e[1].id < f /\ t[e].id < f
    BY DEF Known
  <2> QED BY <1>2, <2>1
<1>4. \A k \in DOMAIN M : M[k].at # made /\ M[k].root # made
  <2> TAKE k \in DOMAIN M
  <2>1. M[k].at.id < f /\ M[k].root.id < f
    BY DEF Known
  <2> QED BY <1>2, <2>1
<1>5. \A i, p : i # made => (<<i, p>> \in K <=> <<i, p>> \in L)
  BY DEF MoreLabels
<1>6. \A p : <<made, p>> \in K <=> \E q \in Seq(Names) : p = Append(q, c) /\ <<d, q>> \in L
  BY DEF MoreLabels
<1> HIDE DEF K
<1>7. <<Root, <<>>>> \in K
  BY <1>2, <1>5 DEF Labels
<1>8. ASSUME NEW e \in DOMAIN t2, NEW p \in Seq(Names), t2[e].fs = "disk", <<e[1], p>> \in K
      PROVE  <<t2[e], Append(p, e[2])>> \in K
  <2>1. CASE e \in DOMAIN t
    <3>1. <<e[1], p>> \in L /\ t2[e] = t[e]
      BY <1>1, <1>3, <1>5, <1>8, <2>1
    <3>2. <<t[e], Append(p, e[2])>> \in L
      BY <1>8, <2>1, <3>1 DEF Labels
    <3> QED BY <1>3, <1>5, <2>1, <3>1, <3>2
  <2>2. CASE e = <<d, c>>
    <3>1. e[1] = d /\ e[2] = c /\ t2[e] = made
      BY <1>1, <2>2
    <3>2. <<d, p>> \in L
      BY <1>2, <1>5, <1>8, <3>1
    <3> QED BY <1>6, <3>1, <3>2
  <2> QED BY <1>1, <2>1, <2>2
<1>9. ASSUME NEW k \in DOMAIN M, M[k].root.fs = "disk"
      PROVE  /\ M[k].at.fs = "disk"
             /\ \A p \in Seq(Names) : <<M[k].at, p>> \in K => <<M[k].root, p>> \in K
  BY <1>4, <1>5, <1>9 DEF Labels
<1>10. ASSUME NEW i, NEW p \in Seq(Names), NEW q \in Seq(Names), <<i, p>> \in K, <<i, q>> \in K PROVE p = q
  <2>1. CASE i # made
    BY <1>5, <1>10, <2>1 DEF Labels
  <2>2. CASE i = made
    <3>1. PICK v \in Seq(Names) : p = Append(v, c) /\ <<d, v>> \in L
      BY <1>6, <1>10, <2>2
    <3>2. PICK w \in Seq(Names) : q = Append(w, c) /\ <<d, w>> \in L
      BY <1>6, <1>10, <2>2
    <3>3. v = w
      BY <3>1, <3>2 DEF Labels
    <3> QED BY <3>1, <3>2, <3>3
  <2> QED BY <2>1, <2>2
<1>11. Labels(t2, M, K)
  BY <1>7, <1>8, <1>9, <1>10 DEF Labels
<1> QED BY <1>11 DEF K

\* It takes no guard away: it appears in the mount its directory is in.
LEMMA EntryKeepsGuards ==
    ASSUME NEW t, NEW d, NEW c, NEW made, NEW f, NEW t2, OneEntry(t, d, c, made, f, t2),
           NEW M, Hung(M), Known(t, M, f), NEW p \in Paths, NEW prot, Guarded(t, M, p, prot)
    PROVE  Guarded(t2, M, p, prot)
<1>1. PICK w : Guards(t, M, w, p, prot)
  BY DEF Guarded
<1>2. w \in Seq(Names) /\ w # <<>> /\ IsPrefix(w, p) /\ ResolveIn(t, M, w) # NoPlace
  BY <1>1 DEF Guards
<1>3. ResolveIn(t2, M, w) # NoPlace
  BY <1>2, EntryKeepsPlaces
<1>4. ASSUME NEW u \in Paths, IsPrefix(w, u) PROVE Fine(M, ResolveIn(t2, M, u), prot)
  <2>1. u \in Seq(Names) /\ EntryEffect(t, M, d, c, made, t2, u)
    BY EntryEffects, PathFacts
  <2>2. CASE ResolveIn(t, M, u) # NoPlace
    <3>1. ResolveIn(t2, M, u) = ResolveIn(t, M, u)
      BY <2>1, <2>2 DEF EntryEffect
    <3> QED BY <1>1, <1>4, <3>1 DEF Guards
  <2>3. CASE ResolveIn(t, M, u) = NoPlace /\ MadeAt(t, M, d, c, made, u, ResolveIn(t2, M, u))
    <3>1. PICK q \in Seq(Names) : /\ u = Append(q, c) /\ ResolveIn(t, M, q).ino = d
                                  /\ ResolveIn(t2, M, u) = [mnt |-> ResolveIn(t, M, q).mnt, ino |-> made]
      BY <2>3 DEF MadeAt
    <3>2. c \in Names /\ made.fs = d.fs
      BY DEF OneEntry
    <3>3. q \in Paths /\ IsPrefix(w, q)
      <4>1. w # u
        BY <1>2, <2>3
      <4> QED BY <1>2, <1>4, <3>1, <3>2, <4>1, Longer, PrefixLonger
    <3>4. Fine(M, ResolveIn(t, M, q), prot)
      BY <1>1, <3>3 DEF Guards
    <3> QED BY <3>1, <3>2, <3>4 DEF Fine
  <2>4. CASE ResolveIn(t2, M, u) = NoPlace
    BY <2>4, DiskFacts DEF Fine
  <2> QED BY <2>1, <2>2, <2>3, <2>4 DEF EntryEffect
<1> QED BY <1>2, <1>3, <1>4 DEF Guarded, Guards

(***************************************************************************)
(* A remount changes no lookup                                             *)
(***************************************************************************)

\* Mount k of M becomes read-only.
Remounted(M, k, N) ==
    /\ Hung(M) /\ k \in DOMAIN M /\ N = [M EXCEPT ![k].ro = TRUE]

\* N is M but for what is read-only.
Alike(M, k, N) ==
    /\ Hung(N) /\ DOMAIN N = DOMAIN M /\ N[k].ro = TRUE
    /\ \A j \in DOMAIN M : /\ N[j].mnt = M[j].mnt /\ N[j].at = M[j].at /\ N[j].root = M[j].root
                           /\ M[j].ro => N[j].ro

\* What a remount leaves alone.
LEMMA RemountFacts ==
    ASSUME NEW M, NEW k, NEW N, Remounted(M, k, N)
    PROVE  Alike(M, k, N)
<1>1. Hung(M) /\ k \in DOMAIN M /\ N = [M EXCEPT ![k].ro = TRUE]
  BY DEF Remounted
<1>2. DOMAIN N = DOMAIN M
  BY <1>1
<1>3. ASSUME NEW j \in DOMAIN M
      PROVE  /\ N[j].mnt = M[j].mnt /\ N[j].at = M[j].at /\ N[j].root = M[j].root
             /\ M[j].ro => N[j].ro
             /\ N[j] \in MountRecord
             /\ j = k => N[j].ro = TRUE
  <2>1. M[j] \in MountRecord
    BY <1>1, HungFacts
  <2>2. CASE j = k
    <3>1. N[j] = [M[j] EXCEPT !.ro = TRUE]
      BY <1>1, <2>2
    <3>2. N[j].mnt = M[j].mnt /\ N[j].at = M[j].at /\ N[j].root = M[j].root /\ N[j].ro = TRUE /\ N[j] \in MountRecord
      BY <2>1, <3>1 DEF MountRecord
    <3> QED BY <3>2
  <2>3. CASE j # k
    <3>1. N[j] = M[j]
      BY <1>1, <2>3
    <3> QED BY <2>1, <2>3, <3>1
  <2> QED BY <2>2, <2>3
<1>4. Hung(N)
  <2>1. \E b \in Nat : DOMAIN N \subseteq 1 .. b
    BY <1>1, <1>2 DEF Hung
  <2>2. \A j \in DOMAIN N : N[j] \in MountRecord /\ N[j].mnt < j /\ N[j].mnt \in DOMAIN N \cup {0}
    <3> TAKE j \in DOMAIN N
    <3>1. M[j].mnt < j /\ M[j].mnt \in DOMAIN M \cup {0}
      BY <1>1, <1>2 DEF Hung
    <3>2. N[j] \in MountRecord /\ N[j].mnt = M[j].mnt
      BY <1>2, <1>3
    <3> QED BY <1>2, <3>1, <3>2
  <2>3. \A i, j \in DOMAIN N : N[i].mnt = N[j].mnt /\ N[i].at = N[j].at => i = j
    <3> TAKE i, j \in DOMAIN N
    <3>1. N[i].mnt = M[i].mnt /\ N[i].at = M[i].at /\ N[j].mnt = M[j].mnt /\ N[j].at = M[j].at
      BY <1>2, <1>3
    <3>2. M[i].mnt = M[j].mnt /\ M[i].at = M[j].at => i = j
      BY <1>1, <1>2 DEF Hung
    <3> QED BY <3>1, <3>2
  <2> QED BY <2>1, <2>2, <2>3 DEF Hung
<1> QED BY <1>1, <1>2, <1>3, <1>4 DEF Alike

\* It moves no stack ...
LEMMA RemountTop ==
    ASSUME NEW M, NEW k, NEW N, Remounted(M, k, N), NEW l \in Place
    PROVE  TopIn(N, l) = TopIn(M, l)
<1> DEFINE S == {x \in Place : TopIn(N, x) = TopIn(N, l)}
<1>1. Alike(M, k, N) /\ Hung(M)
  BY RemountFacts DEF Remounted
<1>2. Hung(N) /\ DOMAIN N = DOMAIN M
  BY <1>1 DEF Alike
<1>4. ASSUME NEW x \in Place, NEW j \in DOMAIN M
      PROVE  (Hangs(M, j, x) <=> Hangs(N, j, x)) /\ Shown(M, j) = Shown(N, j) /\ Shown(M, j) \in Place
  <2>1. N[j].mnt = M[j].mnt /\ N[j].at = M[j].at /\ N[j].root = M[j].root
    BY <1>1 DEF Alike
  <2>2. Shown(M, j) \in Place
    BY <1>1, HungFacts
  <2> QED BY <2>1, <2>2 DEF Hangs, Shown
<1>5. ASSUME NEW x \in Place, NEW j \in DOMAIN M, x \in S, Hangs(M, j, x) PROVE Shown(M, j) \in S
  <2>1. TopIn(N, x) = TopIn(N, Shown(N, j))
    BY <1>2, <1>4, <1>5, TopAbove
  <2>2. Shown(M, j) = Shown(N, j) /\ Shown(M, j) \in Place
    BY <1>4
  <2> QED BY <1>5, <2>1, <2>2
<1>6. l \in S
  OBVIOUS
<1> HIDE DEF S
<1>7. TopIn(M, l) \in S
  BY <1>1, <1>5, <1>6, TopInduction
<1>8. TopIn(M, l) \in Place /\ \A j \in DOMAIN M : ~Hangs(M, j, TopIn(M, l))
  BY <1>1, TopFacts
<1>9. \A j \in DOMAIN N : ~Hangs(N, j, TopIn(M, l))
  BY <1>2, <1>4, <1>8
<1>10. TopIn(N, TopIn(M, l)) = TopIn(M, l)
  BY <1>2, <1>8, <1>9, TopFacts
<1> QED BY <1>7, <1>10 DEF S

\* ... and no path.
LEMMA RemountPlaces ==
    ASSUME NEW t, Entries(t), NEW M, NEW k, NEW N, Remounted(M, k, N)
    PROVE  \A p \in Seq(Names) : ResolveIn(t, N, p) = ResolveIn(t, M, p)
<1> DEFINE S == {p \in Seq(Names) : ResolveIn(t, N, p) = ResolveIn(t, M, p)}
<1>1. Hung(M) /\ Hung(N)
  BY RemountFacts DEF Alike, Remounted
<1>2. <<>> \in S
  BY <1>1, ResolveFacts
<1>3. ASSUME NEW p \in Seq(Names), NEW c \in Names, p \in S PROVE Append(p, c) \in S
  <2> DEFINE x == ResolveIn(t, M, p)
             q == Append(p, c)
  <2>1. /\ q \in Seq(Names) /\ x \in Spot
        /\ ResolveIn(t, M, q) = EnterIn(t, M, x, c) /\ ResolveIn(t, N, q) = EnterIn(t, N, x, c)
    BY <1>1, <1>3, Longer, ResolveFacts
  <2> HIDE DEF x
  <2>2. EnterIn(t, N, x, c) = EnterIn(t, M, x, c)
    <3>1. CASE <<x.ino, c>> \in DOMAIN t
      <4> DEFINE z == [mnt |-> x.mnt, ino |-> t[<<x.ino, c>>]]
      <4>1. z \in Place
        BY <1>1, <2>1, <3>1, EnterFacts
      <4>2. EnterIn(t, N, x, c) = TopIn(N, z) /\ EnterIn(t, M, x, c) = TopIn(M, z)
        BY <3>1 DEF EnterIn
      <4> HIDE DEF z
      <4> QED BY <4>1, <4>2, RemountTop
    <3>2. CASE <<x.ino, c>> \notin DOMAIN t
      BY <3>2 DEF EnterIn
    <3> QED BY <3>1, <3>2
  <2> QED BY <2>1, <2>2
<1>4. \A p \in Seq(Names) : p \in S
  <2> HIDE DEF S
  <2> QED BY <1>2, <1>3, SequenceInduction
<1> QED BY <1>4

\* What was read-only is so still ...
LEMMA RemountFine ==
    ASSUME NEW M, NEW k, NEW N, Remounted(M, k, N), NEW x, NEW prot, Fine(M, x, prot),
           x.mnt \in DOMAIN M \cup {0}
    PROVE  Fine(N, x, prot)
<1>1. Alike(M, k, N)
  BY RemountFacts
<1>2. x.mnt > 0 => x.mnt \in DOMAIN M
  OBVIOUS
<1>3. x.mnt \in DOMAIN M => (M[x.mnt].ro => N[x.mnt].ro)
  BY <1>1 DEF Alike
<1> QED BY <1>2, <1>3 DEF Fine

\* ... nor which path an inode has ...
LEMMA RemountKeepsLabels ==
    ASSUME NEW t, NEW M, NEW k, NEW N, Remounted(M, k, N), NEW L, Labels(t, M, L)
    PROVE  Labels(t, N, L)
<1>1. Alike(M, k, N)
  BY RemountFacts
<1>2. DOMAIN N = DOMAIN M /\ \A i \in DOMAIN M : N[i].at = M[i].at /\ N[i].root = M[i].root
  BY <1>1 DEF Alike
<1> QED BY <1>2 DEF Labels

\* ... and no guard is lost.
LEMMA RemountKeepsGuards ==
    ASSUME NEW t, Entries(t), NEW M, NEW k, NEW N, Remounted(M, k, N),
           NEW p \in Paths, NEW prot, Guarded(t, M, p, prot)
    PROVE  Guarded(t, N, p, prot)
<1>1. PICK w : Guards(t, M, w, p, prot)
  BY DEF Guarded
<1>2. w \in Seq(Names) /\ w # <<>> /\ IsPrefix(w, p) /\ ResolveIn(t, M, w) # NoPlace
  BY <1>1 DEF Guards
<1>3. ResolveIn(t, N, w) # NoPlace
  <2>1. ResolveIn(t, N, w) = ResolveIn(t, M, w)
    BY <1>2, RemountPlaces
  <2> QED BY <1>2, <2>1
<1>4. ASSUME NEW u \in Paths, IsPrefix(w, u) PROVE Fine(N, ResolveIn(t, N, u), prot)
  <2>1. u \in Seq(Names) /\ Fine(M, ResolveIn(t, M, u), prot)
    BY <1>1, <1>4, PathFacts DEF Guards
  <2>2. ResolveIn(t, N, u) = ResolveIn(t, M, u)
    BY <2>1, RemountPlaces
  <2>3. ResolveIn(t, M, u).mnt \in DOMAIN M \cup {0}
    <3>1. Hung(M)
      BY DEF Remounted
    <3> QED BY <2>1, <3>1, KnownMount
  <2>4. Fine(N, ResolveIn(t, M, u), prot)
    BY <2>1, <2>3, RemountFine
  <2> QED BY <2>2, <2>4
<1> QED BY <1>2, <1>3, <1>4 DEF Guarded, Guards

\* At and beneath path o everything there is lies in mount k.
Covers(t, M, o, k) ==
    \A u \in Paths : IsPrefix(o, u) => ResolveIn(t, M, u) = NoPlace \/ ResolveIn(t, M, u).mnt = k

\* A remount of the mount that has all there is at and beneath o protects it.
LEMMA RemountGuards ==
    ASSUME NEW t, Entries(t), NEW M, NEW k, NEW N, Remounted(M, k, N),
           NEW o \in Seq(Names), o # <<>>, Covers(t, M, o, k), ResolveIn(t, M, o) # NoPlace,
           NEW p \in Paths, IsPrefix(o, p)
    PROVE  Guarded(t, N, p, TRUE)
<1>1. k > 0 /\ ResolveIn(t, M, o) # NoPlace
  BY HungFacts DEF Remounted
<1>2. ResolveIn(t, N, o) # NoPlace
  <2>1. ResolveIn(t, N, o) = ResolveIn(t, M, o)
    BY RemountPlaces
  <2> QED BY <1>1, <2>1
<1>3. ASSUME NEW u \in Paths, IsPrefix(o, u) PROVE Fine(N, ResolveIn(t, N, u), TRUE)
  <2>1. u \in Seq(Names)
    BY PathFacts
  <2>2. ResolveIn(t, N, u) = ResolveIn(t, M, u)
    BY <2>1, RemountPlaces
  <2>3. ResolveIn(t, M, u) = NoPlace \/ ResolveIn(t, M, u).mnt = k
    BY <1>3 DEF Covers
  <2>4. N[k].ro = TRUE
    BY RemountFacts DEF Alike
  <2> QED BY <1>1, <2>2, <2>3, <2>4, DiskFacts DEF Fine
<1> QED BY <1>2, <1>3 DEF Guarded, Guards

(***************************************************************************)
(* What a bind of o on itself leads to                                     *)
(***************************************************************************)

\* After the bind of o on itself that mount has all there is at and beneath o.
LEMMA OneCovers ==
    ASSUME NEW t, Entries(t), NEW M, NEW F, NEW r, NEW ro, NEW n, NEW N, OneMore(M, F, r, ro, n, N),
           NEW o \in Seq(Names), o # <<>>, ResolveIn(t, M, o) = F
    PROVE  Covers(t, N, o, n)
<1>1. IsPrefix(o, o)
  BY PrefixOrder
<1>2. Reaches(t, M, F, o, o)
  BY <1>1 DEF Reaches
<1>3. ASSUME NEW u \in Paths, IsPrefix(o, u)
      PROVE  ResolveIn(t, N, u) = NoPlace \/ ResolveIn(t, N, u).mnt = n
  <2>1. u \in Seq(Names)
    BY PathFacts
  <2>2. Hit(t, M, F, u)
    BY <1>2, <1>3, <2>1, HitBeneath DEF Hit
  <2>3. Effect(t, M, F, r, n, N, u)
    BY <2>1, OneEffect
  <2> QED BY <2>2, <2>3 DEF Effect
<1> QED BY <1>3 DEF Covers

(***************************************************************************)
(* The system calls left of an operation                                   *)
(***************************************************************************)

\* The operations, and what is left of the system calls of one in progress.
Ops == {"namespace", "private", "blocked", "readonly", "parent", "pin"}
Rest(o) ==
    CASE o = "namespace" -> {<<"unshare", "rootprivate">>, <<"rootprivate">>}
      [] o = "private"  -> {<<"open", "recheck", "tmpfs">>, <<"recheck", "tmpfs">>, <<"tmpfs">>}
      [] o = "blocked"  -> {<<"create", "recheck", "shadow">>, <<"recheck", "shadow">>, <<"shadow">>}
      [] o = "readonly" -> {<<"open", "recheck", "bind", "open", "recheck", "remount">>,
                            <<"recheck", "bind", "open", "recheck", "remount">>,
                            <<"bind", "open", "recheck", "remount">>,
                            <<"open", "recheck", "remount">>, <<"recheck", "remount">>, <<"remount">>}
      [] o = "parent"   -> {<<"open", "bindrec">>, <<"bindrec">>}
      [] o = "pin"      -> {<<"open", "bind", "verify">>, <<"bind", "verify">>, <<"verify">>}

\* A read-only mount that is made and not yet read-only.
AfterBind == {<<"open", "recheck", "remount">>, <<"recheck", "remount">>, <<"remount">>}

\* The calls that use the descriptor opened before them.
Uses == {"recheck", "tmpfs", "shadow", "bind", "bindrec", "remount"}

\* Facts about one call c: what follows it, and what it is part of.
Calls(o, c) ==
    /\ c # <<>>
    /\ Len(c) > 1 => Tail(c) \in Rest(o)
    /\ Len(c) > 1 /\ Head(Tail(c)) \in Uses => Head(c) \in {"open", "create", "recheck"}
    /\ Len(c) > 1 /\ Tail(c) \in AfterBind => c \in AfterBind \/ (Head(c) = "bind" /\ o = "readonly")
    /\ Len(c) <= 1 => CASE o = "private" -> Head(c) = "tmpfs"
                        [] o = "blocked" -> Head(c) = "shadow"
                        [] o = "readonly" -> Head(c) = "remount"
                        [] o = "parent" -> Head(c) = "bindrec"
                        [] o = "pin" -> Head(c) = "verify"
                        [] OTHER -> TRUE
    /\ Len(c) > 1 /\ Head(Tail(c)) = "verify" <=> Head(c) = "bind" /\ o = "pin"
    /\ Head(c) = "verify" => o = "pin" /\ Len(c) = 1
    /\ Head(c) = "bindrec" => o = "parent" /\ Len(c) = 1
    /\ Head(c) = "recheck" => o \in {"private", "blocked", "readonly"}
    /\ Head(c) = "create" => o = "blocked"
    /\ Head(c) = "bind" => o \in {"readonly", "pin"} /\ (o = "readonly" => Len(c) > 1 /\ Tail(c) \in AfterBind)
    /\ Head(c) = "remount" => o = "readonly" /\ c \in AfterBind
    /\ Head(c) \in {"tmpfs", "shadow", "bindrec", "bind", "create", "unshare", "rootprivate"} => c \notin AfterBind
    /\ Head(c) \in Uses \cup Walks => o # "namespace"
    /\ Head(c) \in {"tmpfs", "shadow"} => o \in {"private", "blocked"}

\* An operation starts with all its calls, the first opens what it needs.
LEMMA ProgramFacts ==
    ASSUME NEW o \in Ops
    PROVE  /\ Program(o) \in Rest(o)
           /\ Head(Program(o)) \notin Uses /\ Head(Program(o)) # "verify"
           /\ Program(o) \notin AfterBind
           /\ Program(o) # <<>>
<1>1. Program(o) \in Rest(o) /\ Program(o) # <<>>
  BY DEF Ops, Program, Rest
<1>2. Head(Program(o)) \notin Uses /\ Head(Program(o)) # "verify"
  BY DEF Ops, Program, Uses
<1>3. Program(o) \notin AfterBind
  BY DEF Ops, Program, AfterBind
<1> QED BY <1>1, <1>2, <1>3

\* What follows each call, from the list of Program.
LEMMA CallFacts ==
    ASSUME NEW o \in Ops, NEW c \in Rest(o)
    PROVE  Calls(o, c)
<1>1. CASE o = "namespace"
  <2>1. CASE c = <<"unshare", "rootprivate">>
    <3>1. Tail(c) = <<"rootprivate">> /\ Head(c) = "unshare" /\ Len(c) = 2 /\ c # <<>>
      BY <2>1
    <3> QED BY <1>1, <2>1, <3>1 DEF Calls, Rest, Uses, AfterBind, Walks
  <2>2. CASE c = <<"rootprivate">>
    BY <1>1, <2>2 DEF Calls, Rest, Uses, AfterBind, Walks
  <2> QED BY <1>1, <2>1, <2>2 DEF Rest
<1>2. CASE o = "private"
  <2>1. CASE c = <<"open", "recheck", "tmpfs">>
    <3>1. Tail(c) = <<"recheck", "tmpfs">> /\ Head(c) = "open" /\ Len(c) = 3 /\ c # <<>>
      BY <2>1
    <3> QED BY <1>2, <2>1, <3>1 DEF Calls, Rest, Uses, AfterBind, Walks
  <2>2. CASE c = <<"recheck", "tmpfs">>
    <3>1. Tail(c) = <<"tmpfs">> /\ Head(c) = "recheck" /\ Len(c) = 2 /\ c # <<>>
      BY <2>2
    <3> QED BY <1>2, <2>2, <3>1 DEF Calls, Rest, Uses, AfterBind, Walks
  <2>3. CASE c = <<"tmpfs">>
    BY <1>2, <2>3 DEF Calls, Rest, Uses, AfterBind, Walks
  <2> QED BY <1>2, <2>1, <2>2, <2>3 DEF Rest
<1>3. CASE o = "blocked"
  <2>1. CASE c = <<"create", "recheck", "shadow">>
    <3>1. Tail(c) = <<"recheck", "shadow">> /\ Head(c) = "create" /\ Len(c) = 3 /\ c # <<>>
      BY <2>1
    <3> QED BY <1>3, <2>1, <3>1 DEF Calls, Rest, Uses, AfterBind, Walks
  <2>2. CASE c = <<"recheck", "shadow">>
    <3>1. Tail(c) = <<"shadow">> /\ Head(c) = "recheck" /\ Len(c) = 2 /\ c # <<>>
      BY <2>2
    <3> QED BY <1>3, <2>2, <3>1 DEF Calls, Rest, Uses, AfterBind, Walks
  <2>3. CASE c = <<"shadow">>
    BY <1>3, <2>3 DEF Calls, Rest, Uses, AfterBind, Walks
  <2> QED BY <1>3, <2>1, <2>2, <2>3 DEF Rest
<1>4. CASE o = "readonly"
  <2>1. CASE c = <<"open", "recheck", "bind", "open", "recheck", "remount">>
    <3>1. Tail(c) = <<"recheck", "bind", "open", "recheck", "remount">> /\ Head(c) = "open" /\ Len(c) = 6 /\ c # <<>>
      BY <2>1
    <3> QED BY <1>4, <2>1, <3>1 DEF Calls, Rest, Uses, AfterBind, Walks
  <2>2. CASE c = <<"recheck", "bind", "open", "recheck", "remount">>
    <3>1. Tail(c) = <<"bind", "open", "recheck", "remount">> /\ Head(c) = "recheck" /\ Len(c) = 5 /\ c # <<>>
      BY <2>2
    <3> QED BY <1>4, <2>2, <3>1 DEF Calls, Rest, Uses, AfterBind, Walks
  <2>3. CASE c = <<"bind", "open", "recheck", "remount">>
    <3>1. Tail(c) = <<"open", "recheck", "remount">> /\ Head(c) = "bind" /\ Len(c) = 4 /\ c # <<>>
      BY <2>3
    <3> QED BY <1>4, <2>3, <3>1 DEF Calls, Rest, Uses, AfterBind, Walks
  <2>4. CASE c = <<"open", "recheck", "remount">>
    <3>1. Tail(c) = <<"recheck", "remount">> /\ Head(c) = "open" /\ Len(c) = 3 /\ c # <<>>
      BY <2>4
    <3> QED BY <1>4, <2>4, <3>1 DEF Calls, Rest, Uses, AfterBind, Walks
  <2>5. CASE c = <<"recheck", "remount">>
    <3>1. Tail(c) = <<"remount">> /\ Head(c) = "recheck" /\ Len(c) = 2 /\ c # <<>>
      BY <2>5
    <3> QED BY <1>4, <2>5, <3>1 DEF Calls, Rest, Uses, AfterBind, Walks
  <2>6. CASE c = <<"remount">>
    BY <1>4, <2>6 DEF Calls, Rest, Uses, AfterBind, Walks
  <2> QED BY <1>4, <2>1, <2>2, <2>3, <2>4, <2>5, <2>6 DEF Rest
<1>5. CASE o = "parent"
  <2>1. CASE c = <<"open", "bindrec">>
    <3>1. Tail(c) = <<"bindrec">> /\ Head(c) = "open" /\ Len(c) = 2 /\ c # <<>>
      BY <2>1
    <3> QED BY <1>5, <2>1, <3>1 DEF Calls, Rest, Uses, AfterBind, Walks
  <2>2. CASE c = <<"bindrec">>
    BY <1>5, <2>2 DEF Calls, Rest, Uses, AfterBind, Walks
  <2> QED BY <1>5, <2>1, <2>2 DEF Rest
<1>6. CASE o = "pin"
  <2>1. CASE c = <<"open", "bind", "verify">>
    <3>1. Tail(c) = <<"bind", "verify">> /\ Head(c) = "open" /\ Len(c) = 3 /\ c # <<>>
      BY <2>1
    <3> QED BY <1>6, <2>1, <3>1 DEF Calls, Rest, Uses, AfterBind, Walks
  <2>2. CASE c = <<"bind", "verify">>
    <3>1. Tail(c) = <<"verify">> /\ Head(c) = "bind" /\ Len(c) = 2 /\ c # <<>>
      BY <2>2
    <3> QED BY <1>6, <2>2, <3>1 DEF Calls, Rest, Uses, AfterBind, Walks
  <2>3. CASE c = <<"verify">>
    BY <1>6, <2>3 DEF Calls, Rest, Uses, AfterBind, Walks
  <2> QED BY <1>6, <2>1, <2>2, <2>3 DEF Rest
<1> QED BY <1>1, <1>2, <1>3, <1>4, <1>5, <1>6 DEF Ops

(***************************************************************************)
(* The plan of a job                                                       *)
(***************************************************************************)

\* The operations of a plan, and the paths they are for.
Operation == [op : Ops, path : Listable, ino : Inode \cup {Nowhere}]
\* The operations a job asks for.
Planned(j) == {o \in Operation :
    /\ o.path = <<>> => o.op \in {"namespace", "pin"}
    /\ o.op = "private" => o.path \in Listed(j.private)
    /\ o.op = "blocked" => o.path \in Listed(j.blocked)
    /\ o.op = "readonly" => o.path \in Listed(j.readonly)
    /\ o.op = "parent" => \E p \in PinPaths(j) : IsStrictPrefix(o.path, p)
    /\ o.op = "pin" => o.path \in PinPaths(j) /\ o.ino = Original(o.path)}
\* Operation o for path p is still to be done.
Includes(s, o, p) == \E k \in DOMAIN s : s[k].op = o /\ s[k].path = p

\* c holds the operations after each of those added.
Adds(B, ops, more, c) ==
    /\ c \in [0 .. Len(more) -> Seq(B)] /\ c[0] = ops
    /\ \A k \in 1 .. Len(more) : c[k] = AddOnce(c[k - 1], more[k])
    /\ AddAll(ops, more) = c[Len(more)]

\* The recursive function of AddAll is such a c.
LEMMA AddAllUnrolls ==
    ASSUME NEW B, NEW ops \in Seq(B), NEW more \in Seq(B)
    PROVE  \E c : Adds(B, ops, more, c)
<1> DEFINE b == Len(more)
           V == Seq(B)
           Is(f) == f = [k \in 0 .. b |-> IF k = 0 THEN ops ELSE AddOnce(f[k - 1], more[k])]
           c == CHOOSE f : Is(f)
           step == [w \in (1 .. b) \X V |-> AddOnce(w[2], more[w[1]])]
<1>1. b \in Nat
  OBVIOUS
<1>2. \A k \in 1 .. b : more[k] \in B
  OBVIOUS
<1>3. AddAll(ops, more) = c[b]
  BY DEF AddAll
<1>4. ops \in V
  OBVIOUS
<1> HIDE DEF b
<1>5. \A s \in V, o \in B : AddOnce(s, o) \in V
  BY DEF AddOnce
<1> HIDE DEF V
<1>6. step \in [(1 .. b) \X V -> V]
  BY <1>2, <1>5
<1>7. \A i \in 1 .. b, w \in V : step[<<i, w>>] = AddOnce(w, more[i])
  OBVIOUS
<1> HIDE DEF step
<1>8. PICK f \in [0 .. b -> V] : Recursive(f, b, ops, step)
  BY <1>1, <1>4, <1>6, RecursionExists
<1>9. Is(f)
  <2>1. ASSUME NEW k \in 0 .. b PROVE f[k] = IF k = 0 THEN ops ELSE AddOnce(f[k - 1], more[k])
    <3>1. CASE k = 0
      BY <1>8, <3>1 DEF Recursive
    <3>2. CASE k # 0
      <4>1. k \in 1 .. b /\ k - 1 \in 0 .. b
        BY <1>1, <3>2
      <4>2. f[k - 1] \in V
        BY <1>8, <4>1
      <4>3. f[k] = step[<<k, f[k - 1]>>]
        BY <1>8, <4>1 DEF Recursive
      <4> QED BY <1>7, <3>2, <4>1, <4>2, <4>3
    <3> QED BY <3>1, <3>2
  <2>2. f = [k \in 0 .. b |-> f[k]]
    BY <1>8
  <2> QED BY <2>1, <2>2
<1>10. Is(c)
  BY <1>9
<1> HIDE DEF c
<1>11. \A k \in 0 .. b : c[k] = IF k = 0 THEN ops ELSE AddOnce(c[k - 1], more[k])
  <2> SUFFICES ASSUME NEW k \in 0 .. b
               PROVE  c[k] = IF k = 0 THEN ops ELSE AddOnce(c[k - 1], more[k])
    OBVIOUS
  <2> QED BY <1>10
<1>12. \A k \in 1 .. b : c[k] = AddOnce(c[k - 1], more[k])
  <2> TAKE k \in 1 .. b
  <2>1. k \in 0 .. b /\ k # 0
    BY <1>1
  <2> QED BY <1>11, <2>1
<1>13. c \in [0 .. b -> V] /\ c[0] = ops
  <2> DEFINE S == {k \in 0 .. b : c[k] \in V}
  <2>1. c[0] = ops /\ 0 \in S
    BY <1>1, <1>4, <1>11
  <2>2. ASSUME NEW k \in 0 .. b, k \in S /\ k < b PROVE k + 1 \in S
    <3>1. k + 1 \in 0 .. b /\ k + 1 \in 1 .. b /\ k + 1 # 0 /\ (k + 1) - 1 = k
      BY <1>1, <2>2
    <3>2. c[k + 1] = AddOnce(c[k], more[k + 1])
      BY <1>11, <3>1
    <3>3. AddOnce(c[k], more[k + 1]) \in V
      BY <1>2, <1>5, <2>2, <3>1
    <3> QED BY <3>1, <3>2, <3>3
  <2> HIDE DEF S
  <2>3. \A k \in 0 .. b : k \in S
    BY <1>1, <2>1, <2>2, BoundedInduction
  <2>4. \A k \in 0 .. b : c[k] \in V
    BY <2>3 DEF S
  <2>5. c = [k \in 0 .. b |-> c[k]]
    BY <1>10
  <2> QED BY <2>1, <2>4, <2>5
<1> QED BY <1>3, <1>12, <1>13 DEF V, b, Adds

\* AddAll adds nothing but what it is given.
LEMMA AddAllKeeps ==
    ASSUME NEW B, NEW ops \in Seq(B), NEW more \in Seq(B)
    PROVE  AddAll(ops, more) \in Seq(B)
<1>1. PICK c : Adds(B, ops, more, c)
  BY AddAllUnrolls
<1>2. Len(more) \in 0 .. Len(more)
  OBVIOUS
<1> QED BY <1>1, <1>2 DEF Adds

\* The same for the plan of the pins.
Plans(B, pins, c) ==
    /\ c \in [0 .. Len(pins) -> Seq(B)] /\ c[0] = <<>>
    /\ \A k \in 1 .. Len(pins) : c[k] = AddAll(c[k - 1], PinOps(pins[k]))
    /\ PinPlan(pins) = c[Len(pins)]

\* The recursive function of PinPlan is such a c.
LEMMA PinPlanUnrolls ==
    ASSUME NEW B, NEW pins, Len(pins) \in Nat, \A k \in 1 .. Len(pins) : PinOps(pins[k]) \in Seq(B)
    PROVE  \E c : Plans(B, pins, c)
<1> DEFINE b == Len(pins)
           V == Seq(B)
           Is(f) == f = [k \in 0 .. b |-> IF k = 0 THEN <<>> ELSE AddAll(f[k - 1], PinOps(pins[k]))]
           c == CHOOSE f : Is(f)
           step == [w \in (1 .. b) \X V |-> AddAll(w[2], PinOps(pins[w[1]]))]
<1>1. b \in Nat /\ \A k \in 1 .. b : PinOps(pins[k]) \in V
  OBVIOUS
<1>2. <<>> \in V
  OBVIOUS
<1>3. PinPlan(pins) = c[b]
  BY DEF PinPlan
<1> HIDE DEF b
<1>4. \A s \in V, k \in 1 .. b : AddAll(s, PinOps(pins[k])) \in V
  BY <1>1, AddAllKeeps
<1> HIDE DEF V
<1>6. step \in [(1 .. b) \X V -> V]
  BY <1>4
<1>7. \A i \in 1 .. b, w \in V : step[<<i, w>>] = AddAll(w, PinOps(pins[i]))
  OBVIOUS
<1> HIDE DEF step
<1>8. PICK f \in [0 .. b -> V] : Recursive(f, b, <<>>, step)
  BY <1>1, <1>2, <1>6, RecursionExists
<1>9. Is(f)
  <2>1. ASSUME NEW k \in 0 .. b PROVE f[k] = IF k = 0 THEN <<>> ELSE AddAll(f[k - 1], PinOps(pins[k]))
    <3>1. CASE k = 0
      BY <1>8, <3>1 DEF Recursive
    <3>2. CASE k # 0
      <4>1. k \in 1 .. b /\ k - 1 \in 0 .. b
        BY <1>1, <3>2
      <4>2. f[k - 1] \in V
        BY <1>8, <4>1
      <4>3. f[k] = step[<<k, f[k - 1]>>]
        BY <1>8, <4>1 DEF Recursive
      <4> QED BY <1>7, <3>2, <4>1, <4>2, <4>3
    <3> QED BY <3>1, <3>2
  <2>2. f = [k \in 0 .. b |-> f[k]]
    BY <1>8
  <2> QED BY <2>1, <2>2
<1>10. Is(c)
  BY <1>9
<1> HIDE DEF c
<1>11. \A k \in 0 .. b : c[k] = IF k = 0 THEN <<>> ELSE AddAll(c[k - 1], PinOps(pins[k]))
  <2> SUFFICES ASSUME NEW k \in 0 .. b
               PROVE  c[k] = IF k = 0 THEN <<>> ELSE AddAll(c[k - 1], PinOps(pins[k]))
    OBVIOUS
  <2> QED BY <1>10
<1>12. \A k \in 1 .. b : c[k] = AddAll(c[k - 1], PinOps(pins[k]))
  <2> TAKE k \in 1 .. b
  <2>1. k \in 0 .. b /\ k # 0
    BY <1>1
  <2> QED BY <1>11, <2>1
<1>13. c \in [0 .. b -> V] /\ c[0] = <<>>
  <2> DEFINE S == {k \in 0 .. b : c[k] \in V}
  <2>1. c[0] = <<>> /\ 0 \in S
    BY <1>1, <1>2, <1>11
  <2>2. ASSUME NEW k \in 0 .. b, k \in S /\ k < b PROVE k + 1 \in S
    <3>1. k + 1 \in 0 .. b /\ k + 1 \in 1 .. b /\ k + 1 # 0 /\ (k + 1) - 1 = k
      BY <1>1, <2>2
    <3>2. c[k + 1] = AddAll(c[k], PinOps(pins[k + 1]))
      BY <1>11, <3>1
    <3>3. AddAll(c[k], PinOps(pins[k + 1])) \in V
      BY <1>4, <2>2, <3>1
    <3> QED BY <3>1, <3>2, <3>3
  <2> HIDE DEF S
  <2>3. \A k \in 0 .. b : k \in S
    BY <1>1, <2>1, <2>2, BoundedInduction
  <2>4. \A k \in 0 .. b : c[k] \in V
    BY <2>3 DEF S
  <2>5. c = [k \in 0 .. b |-> c[k]]
    BY <1>10
  <2> QED BY <2>1, <2>4, <2>5
<1> QED BY <1>3, <1>12, <1>13 DEF V, b, Plans

\* One operation for each path of a list.
LEMMA ForEachPlanned ==
    ASSUME NEW j, NEW o \in Ops, NEW paths \in Seq(Listable \ {<<>>}),
           \A k \in DOMAIN paths : Op(o, paths[k], Nowhere) \in Planned(j)
    PROVE  /\ ForEach(o, paths) \in Seq(Planned(j)) /\ Len(ForEach(o, paths)) = Len(paths)
           /\ \A k \in DOMAIN ForEach(o, paths) : ForEach(o, paths)[k] = Op(o, paths[k], Nowhere)
           /\ \A k \in DOMAIN paths : Includes(ForEach(o, paths), o, paths[k])
<1> DEFINE s == ForEach(o, paths)
<1>1. DOMAIN paths = 1 .. Len(paths) /\ Len(paths) \in Nat
  OBVIOUS
<1>2. ASSUME NEW k \in DOMAIN paths
      PROVE  s[k] \in Planned(j) /\ s[k].op = o /\ s[k].path = paths[k] /\ s[k] = Op(o, paths[k], Nowhere)
  <2>1. s[k] = Op(o, paths[k], Nowhere)
    BY DEF ForEach
  <2>2. s[k].op = o /\ s[k].path = paths[k]
    BY <2>1 DEF Op
  <2> QED BY <2>1, <2>2
<1>3. s = [k \in 1 .. Len(paths) |-> s[k]]
  BY <1>1 DEF ForEach
<1>4. DOMAIN s = DOMAIN paths
  BY <1>1, <1>3
<1> HIDE DEF s
<1>5. s \in Seq(Planned(j)) /\ Len(s) = Len(paths)
  BY <1>1, <1>2, <1>3
<1> QED BY <1>2, <1>4, <1>5 DEF Includes, s

\* The operations of the lists of a policy are planned.
LEMMA ListPlanned ==
    ASSUME NEW j \in Jobs, NEW o \in {"private", "blocked", "readonly"},
           NEW paths \in Seq(Listable \ {<<>>}),
           paths = (IF o = "private" THEN j.private ELSE IF o = "blocked" THEN j.blocked ELSE j.readonly)
    PROVE  /\ ForEach(o, paths) \in Seq(Planned(j))
           /\ \A k \in DOMAIN ForEach(o, paths) : ForEach(o, paths)[k] = Op(o, paths[k], Nowhere)
           /\ \A p \in Listed(paths) : Includes(ForEach(o, paths), o, p)
<1>1. ASSUME NEW k \in DOMAIN paths PROVE Op(o, paths[k], Nowhere) \in Planned(j)
  <2>1. paths[k] \in Listable /\ paths[k] # <<>>
    OBVIOUS
  <2>2. Op(o, paths[k], Nowhere) \in Operation
    BY <2>1 DEF Op, Operation, Ops
  <2>3. paths[k] \in Listed(paths)
    BY DEF Listed
  <2> QED BY <2>1, <2>2, <2>3 DEF Planned, Op
<1>2. o \in Ops
  BY DEF Ops
<1> QED BY <1>1, <1>2, ForEachPlanned DEF Listed

\* A plan of two parts has the operations of both.
LEMMA IncludesEither ==
    ASSUME NEW B, NEW s \in Seq(B), NEW t \in Seq(B), NEW o, NEW p, Includes(s, o, p) \/ Includes(t, o, p)
    PROVE  Includes(s \o t, o, p)
<1>1. /\ s \o t \in Seq(B) /\ Len(s \o t) = Len(s) + Len(t) /\ Len(s) \in Nat /\ Len(t) \in Nat
      /\ \A i \in 1 .. Len(s) : (s \o t)[i] = s[i]
      /\ \A i \in 1 .. Len(t) : (s \o t)[Len(s) + i] = t[i]
  <2>1. s \o t \in Seq(B) /\ Len(s \o t) = Len(s) + Len(t) /\ Len(s) \in Nat /\ Len(t) \in Nat
    OBVIOUS
  <2>2. \A i \in 1 .. Len(s) : (s \o t)[i] = s[i]
    OBVIOUS
  <2>3. ASSUME NEW i \in 1 .. Len(t) PROVE (s \o t)[Len(s) + i] = t[i]
    <3>1. Len(s) + i \in 1 .. Len(s) + Len(t) /\ ~(Len(s) + i <= Len(s)) /\ (Len(s) + i) - Len(s) = i
      BY <2>1
    <3> QED BY <3>1
  <2> QED BY <2>1, <2>2, <2>3
<1>2. DOMAIN s = 1 .. Len(s) /\ DOMAIN t = 1 .. Len(t) /\ DOMAIN (s \o t) = 1 .. Len(s \o t)
  BY <1>1
<1>3. CASE Includes(s, o, p)
  <2>1. PICK i \in 1 .. Len(s) : s[i].op = o /\ s[i].path = p
    BY <1>2, <1>3 DEF Includes
  <2>2. i \in DOMAIN (s \o t) /\ (s \o t)[i] = s[i]
    BY <1>1, <1>2
  <2> QED BY <2>1, <2>2 DEF Includes
<1>4. CASE Includes(t, o, p)
  <2>1. PICK i \in 1 .. Len(t) : t[i].op = o /\ t[i].path = p
    BY <1>2, <1>4 DEF Includes
  <2>2. Len(s) + i \in DOMAIN (s \o t) /\ (s \o t)[Len(s) + i] = t[i]
    BY <1>1, <1>2
  <2> QED BY <2>1, <2>2 DEF Includes
<1> QED BY <1>3, <1>4

\* The operations of pin_validated_path_arguments.
PinOp(j) == {o \in Planned(j) : o.op \in {"parent", "pin"}}
\* The ancestors and the path of an argument belong to the job.
LEMMA PinOpsPlanned ==
    ASSUME NEW j, NEW k \in DOMAIN j.pins, j.pins[k] \in [path : Listable, ino : Inode],
           j.pins[k].ino = Original(j.pins[k].path)
    PROVE  PinOps(j.pins[k]) \in Seq(PinOp(j))
<1> DEFINE p == j.pins[k].path
           last == Op("pin", p, j.pins[k].ino)
           B == PinOp(j)
<1>1. p \in Listable /\ j.pins[k].ino \in Inode /\ p \in PinPaths(j)
  BY DEF PinPaths
<1>2. p \in Seq(Names) /\ Len(p) <= MaxDepth /\ Len(p) \in Nat
  BY <1>1, PathFacts
<1>3. last \in B
  BY <1>1 DEF Planned, Operation, Op, Ops, PinOp
<1>4. CASE p = <<>>
  <2>1. PinOps(j.pins[k]) = <<>> \o <<last>>
    BY <1>4 DEF PinOps
  <2> HIDE DEF p, last, B
  <2>2. PinOps(j.pins[k]) = <<last>>
    BY <1>3, <2>1
  <2>3. PinOps(j.pins[k]) \in Seq(B) /\ DOMAIN PinOps(j.pins[k]) = {1} /\ PinOps(j.pins[k])[1] = last
    BY <1>3, <2>2
  <2> QED BY <2>3 DEF B
<1>5. CASE p # <<>>
  <2> DEFINE f == ForEach("parent", ParentChain(p))
             n == Len(p) - 1
  <2>0. Len(p) > 0 /\ n \in Nat
    BY <1>2, <1>5
  <2> HIDE DEF p
  <2>1. ASSUME NEW i \in 1 .. n
        PROVE  /\ SubSeq(p, 1, i) \in Listable \ {<<>>} /\ IsStrictPrefix(SubSeq(p, 1, i), p)
    <3>1. SubSeq(p, 1, i) \in Seq(Names) /\ Len(SubSeq(p, 1, i)) = i
          /\ \A x \in 1 .. i : SubSeq(p, 1, i)[x] = p[x]
      BY <1>2, <2>0
    <3>2. i <= MaxDepth /\ i > 0 /\ i < Len(p)
      BY <1>2, <2>0, MaxDepthAssumption
    <3> DEFINE z == SubSeq(p, 1, i)
    <3>3. z \in Seq(Names) /\ Len(z) = i /\ \A x \in 1 .. Len(z) : z[x] = p[x]
      BY <3>1
    <3> HIDE DEF z
    <3>4. z \in Listable /\ z # <<>> /\ z # p
      BY <1>2, <3>2, <3>3, PathFacts
    <3>5. IsPrefix(z, p)
      BY <1>2, <3>2, <3>3, PrefixByPlace
    <3> QED BY <3>4, <3>5 DEF IsStrictPrefix, z
  <2>2. /\ ParentChain(p) \in Seq(Listable \ {<<>>}) /\ DOMAIN ParentChain(p) = 1 .. n
        /\ \A i \in 1 .. n : ParentChain(p)[i] = SubSeq(p, 1, i)
    BY <2>0, <2>1 DEF ParentChain
  <2> HIDE DEF n
  <2>3. ASSUME NEW i \in 1 .. n PROVE Op("parent", ParentChain(p)[i], Nowhere) \in PinOp(j)
    <3>1. ParentChain(p)[i] = SubSeq(p, 1, i)
      BY <2>2
    <3>2. Op("parent", ParentChain(p)[i], Nowhere) \in Operation
      BY <2>1, <3>1 DEF Op, Operation, Ops
    <3> QED BY <1>1, <2>1, <3>1, <3>2 DEF PinOp, Planned, Op, p
  <2>4. /\ f \in Seq(Planned(j)) /\ DOMAIN f = 1 .. n
        /\ \A i \in 1 .. n : f[i] = Op("parent", SubSeq(p, 1, i), Nowhere)
    <3>1. \A i \in DOMAIN ParentChain(p) : Op("parent", ParentChain(p)[i], Nowhere) \in Planned(j)
      BY <2>2, <2>3 DEF PinOp
    <3>2. "parent" \in Ops
      BY DEF Ops
    <3>3. /\ f \in Seq(Planned(j)) /\ Len(f) = Len(ParentChain(p))
          /\ \A i \in DOMAIN f : f[i] = Op("parent", ParentChain(p)[i], Nowhere)
      BY <2>2, <3>1, <3>2, ForEachPlanned
    <3>4. DOMAIN f = DOMAIN ParentChain(p)
      <4> HIDE DEF f
      <4>1. Len(ParentChain(p)) \in Nat /\ DOMAIN ParentChain(p) = 1 .. Len(ParentChain(p))
        BY <2>2
      <4> QED BY <3>3, <4>1
    <3> QED BY <2>2, <3>3, <3>4
  <2>5. PinOps(j.pins[k]) = f \o <<last>>
    BY <1>5 DEF PinOps, p
  <2> HIDE DEF f, last
  <2>6. f \in Seq(B) /\ Len(f) = n
    <3>1. \A i \in 1 .. n : f[i] \in B
      BY <2>2, <2>3, <2>4
    <3>2. Len(f) = n /\ f = [i \in 1 .. n |-> f[i]]
      BY <2>0, <2>4
    <3> QED BY <2>0, <3>1, <3>2 DEF n
  <2> HIDE DEF B
  <2>7. f \o <<last>> \in Seq(B)
    BY <1>3, <2>6
  <2> QED BY <2>5, <2>7 DEF B, p
<1> QED BY <1>4, <1>5

\* An argument with the inode it was validated with.
JobPin == [path : Listable, ino : Inode]

\* The lists of a job.
LEMMA JobFacts ==
    ASSUME NEW j \in Jobs
    PROVE  /\ j.private \in Seq(Listable \ {<<>>}) /\ j.blocked \in Seq(Listable \ {<<>>})
           /\ j.readonly \in Seq(Listable \ {<<>>}) /\ j.pins \in Seq(JobPin)
           /\ Len(j.pins) \in Nat /\ DOMAIN j.pins = 1 .. Len(j.pins)
           /\ \A k \in DOMAIN j.pins : j.pins[k] \in JobPin /\ j.pins[k].ino = Original(j.pins[k].path)
<1>1. \A list \in {j.private, j.blocked, j.readonly} : list \in Seq(Listable \ {<<>>})
  BY JobAssumption
<1>2. j.pins \in Seq(JobPin) /\ \A k \in DOMAIN j.pins : j.pins[k].ino = Original(j.pins[k].path)
  BY JobAssumption DEF JobPin
<1> HIDE DEF JobPin
<1>3. Len(j.pins) \in Nat /\ DOMAIN j.pins = 1 .. Len(j.pins) /\ \A k \in DOMAIN j.pins : j.pins[k] \in JobPin
  BY <1>2
<1> QED BY <1>1, <1>2, <1>3

\* So do those of all arguments.
LEMMA PinPlanPlanned ==
    ASSUME NEW j \in Jobs
    PROVE  PinPlan(j.pins) \in Seq(PinOp(j))
<1>1. ASSUME NEW k \in 1 .. Len(j.pins) PROVE PinOps(j.pins[k]) \in Seq(PinOp(j))
  <2>1. k \in DOMAIN j.pins /\ j.pins[k] \in JobPin /\ j.pins[k].ino = Original(j.pins[k].path)
    BY JobFacts
  <2> QED BY <2>1, PinOpsPlanned DEF JobPin
<1>2. PICK c : Plans(PinOp(j), j.pins, c)
  BY <1>1, JobFacts, PinPlanUnrolls
<1>3. Len(j.pins) \in 0 .. Len(j.pins)
  BY JobFacts
<1> QED BY <1>2, <1>3 DEF Plans

\* The plan Init makes, and what is known of it.
StartPlan(j) == SetupIsolation(j) \o PinPlan(j.pins)

\* Nothing listed is forgotten.
Starts(j, s) ==
    /\ s \in Seq(Planned(j)) /\ s # <<>> /\ Head(s).op = "namespace"
    /\ \A p \in Listed(j.private) : Includes(s, "private", p)
    /\ \A p \in Listed(j.blocked) : Includes(s, "blocked", p)
    /\ \A p \in Listed(j.readonly) : Includes(s, "readonly", p)

\* Every listed path has its operation in the first plan.
LEMMA PlanStarts ==
    ASSUME NEW j \in Jobs
    PROVE  Starts(j, StartPlan(j))
<1> DEFINE P == Planned(j)
           first0 == Op("namespace", <<>>, Nowhere)
           a == ForEach("private", j.private)
           b == ForEach("blocked", j.blocked)
           c == ForEach("readonly", j.readonly)
           d == PinPlan(j.pins)
<1>1. first0 \in P /\ first0.op = "namespace"
  <2>1. <<>> \in Listable
    BY MaxDepthAssumption, PathFacts
  <2> QED BY <2>1 DEF Planned, Operation, Op, Ops
<1>2. a \in Seq(P) /\ \A p \in Listed(j.private) : Includes(a, "private", p)
  BY JobFacts, ListPlanned
<1>3. b \in Seq(P) /\ \A p \in Listed(j.blocked) : Includes(b, "blocked", p)
  BY JobFacts, ListPlanned
<1>4. c \in Seq(P) /\ \A p \in Listed(j.readonly) : Includes(c, "readonly", p)
  BY JobFacts, ListPlanned
<1>5. d \in Seq(P)
  <2>1. d \in Seq(PinOp(j))
    BY PinPlanPlanned
  <2>2. PinOp(j) \subseteq P
    BY DEF PinOp
  <2> HIDE DEF P, d
  <2> QED BY <2>1, <2>2
<1>6. StartPlan(j) = (((<<first0>> \o a) \o b) \o c) \o d
  BY DEF StartPlan, SetupIsolation
<1> HIDE DEF P, first0, a, b, c, d
<1>7. \A s, t \in Seq(P) : s \o t \in Seq(P)
  OBVIOUS
<1> DEFINE s1 == <<first0>> \o a
           s2 == s1 \o b
           s3 == s2 \o c
           s4 == s3 \o d
<1>8. <<first0>> \in Seq(P) /\ Len(<<first0>>) = 1
  BY <1>1
<1>9. s1 \in Seq(P) /\ s2 \in Seq(P) /\ s3 \in Seq(P) /\ s4 \in Seq(P)
  <2>1. s1 \in Seq(P)
    BY <1>2, <1>7, <1>8
  <2> HIDE DEF s1
  <2>2. s2 \in Seq(P)
    BY <1>3, <1>7, <2>1
  <2> HIDE DEF s2
  <2>3. s3 \in Seq(P)
    BY <1>4, <1>7, <2>2
  <2> HIDE DEF s3
  <2>4. s4 \in Seq(P)
    BY <1>5, <1>7, <2>3
  <2> QED BY <2>1, <2>2, <2>3, <2>4
<1>10. \A s, t \in Seq(P) : \A o, p : Includes(s, o, p) \/ Includes(t, o, p) => Includes(s \o t, o, p)
  BY IncludesEither
<1>11. \A o, p : Includes(a, o, p) => Includes(s4, o, p)
  BY <1>2, <1>3, <1>4, <1>5, <1>8, <1>9, <1>10
<1>12. \A o, p : Includes(b, o, p) => Includes(s4, o, p)
  BY <1>3, <1>4, <1>5, <1>9, <1>10
<1>13. \A o, p : Includes(c, o, p) => Includes(s4, o, p)
  BY <1>4, <1>5, <1>9, <1>10
<1>14. s4 # <<>> /\ Head(s4) = first0
  <2>1. Len(s1) >= 1 /\ s1[1] = first0
    BY <1>2, <1>8
  <2>2. \A s, t \in Seq(P) : Len(s) >= 1 => Len(s \o t) >= 1 /\ (s \o t)[1] = s[1]
    OBVIOUS
  <2>3. Len(s4) >= 1 /\ s4[1] = first0
    BY <1>3, <1>4, <1>5, <1>9, <2>1, <2>2
  <2> HIDE DEF s4
  <2> QED BY <1>9, <2>3
<1> QED
  BY <1>1, <1>2, <1>3, <1>4, <1>5, <1>6, <1>9, <1>11, <1>12, <1>13, <1>14 DEF Starts, P

(***************************************************************************)
(* The inductive invariant                                                 *)
(***************************************************************************)

\* What is mounted on "/" shows "/".
RootShown(M) == \A k \in DOMAIN M : M[k].at = Root => M[k].root = Root

\* No inode of the disk is shown at two paths.
TreeInv ==
    /\ Entries(entry) /\ Closed(entry) /\ Labelled(entry, mounts)
    /\ Hung(mounts) /\ Known(entry, mounts, fresh) /\ RootShown(mounts)

\* What is left to do belongs to the job, and the calls to the operation.
PlanInv ==
    /\ job \in Jobs /\ plan \in Seq(Planned(job))
    /\ plan = <<>> => code = <<>>
    /\ plan # <<>> => code \in Rest(Here.op)

\* The call in progress.
Doing == IF code = <<>> THEN "none" ELSE Head(code)

\* A traversal stands where its path, so far, leads.
WalkInv ==
    IF Doing \in Walks
    THEN /\ walk \in [at : Spot, depth : Nat, how : {"look", "make", "again"}]
         /\ walk.depth \in 0 .. Len(Here.path)
         /\ walk.at = Resolve(SubSeq(Here.path, 1, walk.depth)) /\ walk.at # NoPlace
         /\ walk.how = "make" => Doing = "create"
    ELSE walk = StartWalk

\* The descriptor is where the path leads: without interference, the check
\* between the look and the mount changes nothing.
FdInv == Doing \in Uses => fd = Resolve(Here.path) /\ fd # NoPlace

\* Between bind and remount, all there is at and beneath the path lies in one
\* mount.
PhaseInv == code \in AfterBind => \E n : Covers(entry, mounts, Here.path, n)

\* A path to be masked is guarded or still planned.
MaskInv ==
    \A p \in Listed(job.blocked) \cup Listed(job.private) : Uncovered(p) =>
        \/ Includes(plan, "blocked", p)
        \/ Includes(plan, "private", p)
        \/ Guarded(entry, mounts, p, FALSE)

\* A read-only path is guarded, still planned, or beneath a path that is
\* bound again and not yet read-only.
Rebinding(q) == code \in AfterBind /\ IsPrefix(Here.path, q)
Unpinned(q) == \A r \in PinPaths(job) : ~Beneath(q, r)

\* A path to be read-only: the same, and beneath no argument.
ReadOnlyInv ==
    \A q \in Listed(job.readonly) : Unpinned(q) =>
        \/ Includes(plan, "readonly", q)
        \/ Rebinding(q)
        \/ Guarded(entry, mounts, q, TRUE)

\* The invariant while nobody interferes.
Sound == TreeInv /\ PlanInv /\ WalkInv /\ FdInv /\ PhaseInv /\ MaskInv /\ ReadOnlyInv

\* The first operation left, and its path.
LEMMA HereFacts ==
    ASSUME PlanInv, code # <<>>
    PROVE  /\ plan # <<>> /\ Here \in Planned(job) /\ Here.op \in Ops /\ code \in Rest(Here.op)
           /\ Here.path \in Listable /\ Here.path \in Paths /\ Here.path \in Seq(Names)
           /\ Here.op \notin {"namespace", "pin"} => Here.path # <<>>
           /\ Here.op = "readonly" => Here.path \in Listed(job.readonly)
           /\ Here.op = "pin" => Here.path \in PinPaths(job) /\ Here.ino = Original(Here.path)
           /\ Calls(Here.op, code)
<1>1. plan # <<>> /\ plan \in Seq(Planned(job)) /\ code \in Rest(Here.op)
  BY DEF PlanInv
<1>2. Here \in Planned(job)
  BY <1>1 DEF Here
<1>3. Here \in Operation
  BY <1>2 DEF Planned
<1>4. Here.op \in Ops /\ Here.path \in Listable
  BY <1>3 DEF Operation
<1>5. Here.path \in Paths /\ Here.path \in Seq(Names)
  BY <1>4, PathFacts
<1>6. Calls(Here.op, code)
  BY <1>1, <1>4, CallFacts
<1> QED BY <1>1, <1>2, <1>4, <1>5, <1>6 DEF Planned

\* From bind to remount the read-only phase is not left.
LEMMA AfterBindFacts ==
    ASSUME NEW c \in AfterBind
    PROVE  /\ Head(c) # "remount" => Len(c) > 1 /\ Tail(c) \in AfterBind
           /\ Head(c) = "remount" => Len(c) = 1
           /\ Head(c) \in {"open", "recheck", "remount"} /\ c # <<>>
<1>1. CASE c = <<"open", "recheck", "remount">>
  <2>1. Tail(c) = <<"recheck", "remount">> /\ Head(c) = "open" /\ Len(c) = 3 /\ c # <<>>
    BY <1>1
  <2> QED BY <2>1 DEF AfterBind
<1>2. CASE c = <<"recheck", "remount">>
  <2>1. Tail(c) = <<"remount">> /\ Head(c) = "recheck" /\ Len(c) = 2 /\ c # <<>>
    BY <1>2
  <2> QED BY <2>1 DEF AfterBind
<1>3. CASE c = <<"remount">>
  BY <1>3
<1> QED BY <1>1, <1>2, <1>3 DEF AfterBind

\* What the end of a system call leaves.
Dropped(o, p) ==
    /\ Here.op = o /\ Here.path = p
    /\ o = "private" => Doing = "tmpfs"
    /\ o = "blocked" => Doing = "shadow"
    /\ o = "readonly" => Doing = "remount"
    /\ o = "parent" => Doing = "bindrec"
    /\ o = "pin" => Doing = "verify"

\* What a completed call leaves of the plan: the operation it ends is done.
Went ==
    /\ PlanInv'
    /\ Doing' \in Uses => Here' = Here /\ Doing \in {"open", "create", "recheck"}
    /\ code' \in AfterBind =>
           /\ Here' = Here
           /\ (code \in AfterBind /\ Doing # "remount") \/ (Doing = "bind" /\ Here.op = "readonly")
    /\ code \in AfterBind /\ Doing # "remount" => Here' = Here /\ code' \in AfterBind
    /\ Doing = "bind" /\ Here.op = "readonly" => Here' = Here /\ code' \in AfterBind
    /\ Doing' = "verify" <=> Doing = "bind" /\ Here.op = "pin"
    /\ Doing' = "verify" => Here' = Here
    /\ plan' = plan \/ (plan # <<>> /\ plan' = Tail(plan))
    /\ \A o, p : Includes(plan, o, p) => Includes(plan', o, p) \/ Dropped(o, p)

\* Advance completes one call and drops nothing else.
LEMMA AdvanceFacts ==
    ASSUME PlanInv, code # <<>>, Advance, job' = job
    PROVE  Went
<1>1. /\ plan # <<>> /\ Here.op \in Ops /\ code \in Rest(Here.op) /\ Calls(Here.op, code)
      /\ plan \in Seq(Planned(job)) /\ Doing = Head(code)
  BY HereFacts DEF PlanInv, Doing
<1>2. CASE Len(code) > 1
  <2>1. code' = Tail(code) /\ plan' = plan /\ Here' = Here
    BY <1>2 DEF Advance, Here
  <2>2. Tail(code) \in Rest(Here.op)
    BY <1>1, <1>2 DEF Calls
  <2>3. PlanInv'
    BY <1>1, <2>1, <2>2 DEF PlanInv
  <2>4. Tail(code) # <<>>
    <3>1. Calls(Here.op, Tail(code))
      BY <1>1, <2>2, CallFacts
    <3> QED BY <3>1 DEF Calls
  <2>5. Doing' = Head(Tail(code))
    BY <2>1, <2>4 DEF Doing
  <2>6. Doing' \in Uses => Here' = Here /\ Doing \in {"open", "create", "recheck"}
    BY <1>1, <1>2, <2>1, <2>5 DEF Calls
  <2>7. code' \in AfterBind => Here' = Here /\ ((code \in AfterBind /\ Doing # "remount")
                                               \/ (Doing = "bind" /\ Here.op = "readonly"))
    BY <1>1, <1>2, <2>1, AfterBindFacts DEF Calls
  <2>8. code \in AfterBind /\ Doing # "remount" => Here' = Here /\ code' \in AfterBind
    BY <1>1, <2>1, AfterBindFacts
  <2>9. Doing = "bind" /\ Here.op = "readonly" => Here' = Here /\ code' \in AfterBind
    BY <1>1, <2>1 DEF Calls
  <2>10. \A o, p : Includes(plan, o, p) => Includes(plan', o, p)
    BY <2>1
  <2>11. Doing' = "verify" <=> Doing = "bind" /\ Here.op = "pin"
    BY <1>1, <1>2, <2>5 DEF Calls
  <2> QED BY <2>1, <2>3, <2>6, <2>7, <2>8, <2>9, <2>10, <2>11 DEF Went
<1>3. CASE ~(Len(code) > 1)
  <2>1. /\ plan' = Tail(plan)
        /\ code' = IF Len(plan) > 1 THEN Program(plan[2].op) ELSE <<>>
    BY <1>3 DEF Advance
  <2>2. Len(plan) \in Nat /\ Len(plan) >= 1 /\ DOMAIN plan = 1 .. Len(plan)
    BY <1>1
  <2>3. /\ Tail(plan) \in Seq(Planned(job)) /\ Len(Tail(plan)) = Len(plan) - 1
        /\ \A i \in 1 .. Len(plan) - 1 : Tail(plan)[i] = plan[i + 1]
    BY <1>1
  <2>4. Len(code) <= 1
    <3>1. Len(code) \in Nat
      <4>1. code = <<>> \/ Len(code) \in Nat
        BY <1>1 DEF Rest, Ops
      <4> QED BY <1>1, <4>1 DEF Calls
    <3> QED BY <1>3, <3>1
  <2>5. CASE Len(plan) > 1
    <3>1. code' = Program(plan[2].op) /\ plan' # <<>> /\ Here' = plan[2]
      <4>1. Tail(plan)[1] = plan[1 + 1] /\ Len(Tail(plan)) >= 1
        BY <2>2, <2>3, <2>5
      <4>2. Head(Tail(plan)) = Tail(plan)[1] /\ Tail(plan) # <<>>
        <5>1. \A B, s : s \in Seq(B) /\ Len(s) >= 1 => Head(s) = s[1] /\ s # <<>>
          OBVIOUS
        <5> QED BY <2>3, <4>1, <5>1
      <4>3. plan[1 + 1] = plan[2]
        OBVIOUS
      <4> QED BY <2>1, <2>5, <4>1, <4>2, <4>3 DEF Here
    <3>2. plan[2] \in Planned(job)
      BY <1>1, <2>2, <2>5
    <3>3. plan[2].op \in Ops
      BY <3>2 DEF Planned, Operation
    <3>4. Program(plan[2].op) \in Rest(plan[2].op) /\ Program(plan[2].op) # <<>>
          /\ Head(Program(plan[2].op)) \notin Uses /\ Program(plan[2].op) \notin AfterBind
          /\ Head(Program(plan[2].op)) # "verify"
      BY <3>3, ProgramFacts
    <3>5. PlanInv'
      <4>1. job' \in Jobs /\ plan' \in Seq(Planned(job'))
        BY <2>1, <2>3 DEF PlanInv
      <4>2. code' \in Rest(Here'.op)
        BY <3>1, <3>4
      <4> QED BY <3>1, <4>1, <4>2 DEF PlanInv
    <3>6. Doing' \notin Uses /\ code' \notin AfterBind /\ Doing' # "verify"
      BY <3>1, <3>4 DEF Doing
    <3> QED
      <4>1. code \in AfterBind => Doing = "remount"
        BY <1>1, <1>3, AfterBindFacts
      <4>2. ~(Doing = "bind" /\ Here.op = "readonly")
        BY <1>1, <1>3 DEF Calls
      <4>3. \A o, p : Includes(plan, o, p) => Includes(plan', o, p) \/ Dropped(o, p)
        <5> TAKE o, p
        <5> HAVE Includes(plan, o, p)
        <5>1. PICK i \in 1 .. Len(plan) : plan[i].op = o /\ plan[i].path = p
          BY <2>2 DEF Includes
        <5>2. CASE i = 1
          <6>1. Here.op = o /\ Here.path = p
            BY <1>1, <5>1, <5>2 DEF Here
          <6> QED BY <1>1, <2>4, <6>1 DEF Dropped, Calls
        <5>3. CASE i # 1
          <6>1. i - 1 \in 1 .. Len(plan) - 1 /\ (i - 1) + 1 = i
            BY <2>2, <5>3
          <6>2. Tail(plan)[i - 1] = plan[i]
            BY <2>3, <6>1
          <6>3. i - 1 \in DOMAIN Tail(plan)
            BY <2>3, <6>1
          <6> QED BY <2>1, <5>1, <6>2, <6>3 DEF Includes
        <5> QED BY <5>2, <5>3
      <4>4. ~(Doing = "bind" /\ Here.op = "pin")
        BY <1>1, <1>3 DEF Calls
      <4> QED BY <1>1, <2>1, <3>5, <3>6, <4>1, <4>2, <4>3, <4>4 DEF Went
  <2>6. CASE ~(Len(plan) > 1)
    <3>1. code' = <<>> /\ plan' = <<>>
      <4>1. Len(Tail(plan)) = 0
        BY <2>2, <2>3, <2>6
      <4> QED BY <2>1, <2>3, <2>6, <4>1
    <3>2. PlanInv'
      <4>1. <<>> \in Seq(Planned(job))
        OBVIOUS
      <4> QED BY <3>1, <4>1 DEF PlanInv
    <3>3. Doing' = "none" /\ code' \notin AfterBind
      BY <3>1, AfterBindFacts DEF Doing
    <3>4. Doing' \notin Uses
      BY <3>3 DEF Uses
    <3>5. code \in AfterBind => Doing = "remount"
      BY <1>1, <1>3, AfterBindFacts
    <3>6. ~(Doing = "bind" /\ Here.op = "readonly")
      BY <1>1, <1>3 DEF Calls
    <3>7. \A o, p : Includes(plan, o, p) => Dropped(o, p)
      <4> TAKE o, p
      <4> HAVE Includes(plan, o, p)
      <4>1. PICK i \in 1 .. Len(plan) : plan[i].op = o /\ plan[i].path = p
        BY <2>2 DEF Includes
      <4>2. i = 1
        BY <2>2, <2>6
      <4>3. Here.op = o /\ Here.path = p
        BY <1>1, <4>1, <4>2 DEF Here
      <4> QED BY <1>1, <2>4, <4>3 DEF Dropped, Calls
    <3>8. ~(Doing = "bind" /\ Here.op = "pin")
      BY <1>1, <1>3 DEF Calls
    <3> QED BY <1>1, <2>1, <3>2, <3>3, <3>4, <3>5, <3>6, <3>7, <3>8 DEF Went
  <2> QED BY <2>5, <2>6
<1> QED BY <1>2, <1>3

\* A traversal starts at "/".
LEMMA StartedWalk ==
    ASSUME TreeInv', PlanInv', walk' = StartWalk
    PROVE  WalkInv'
<1>1. CASE Doing' \in Walks
  <2>1. code' # <<>>
    BY <1>1 DEF Doing, Walks
  <2>2. plan' # <<>> /\ plan' \in Seq(Planned(job'))
    BY <2>1 DEF PlanInv
  <2>3. Here' \in Planned(job')
    BY <2>2 DEF Here
  <2>4. Here'.path \in Seq(Names)
    BY <2>3, PathFacts DEF Planned, Operation
  <2>5. SubSeq(Here'.path, 1, 0) = <<>> /\ 0 \in 0 .. Len(Here'.path)
    BY <2>4
  <2>6. ResolveIn(entry', mounts', <<>>) = RootPlace
    BY ResolveFacts DEF TreeInv
  <2>7. walk'.depth = 0 /\ walk'.at = RootPlace /\ walk'.how = "look"
    BY DEF StartWalk
  <2>8. walk'.at = Resolve(SubSeq(Here.path, 1, walk.depth))'
    BY <2>5, <2>6, <2>7 DEF Resolve
  <2>9. walk' \in [at : Spot, depth : Nat, how : {"look", "make", "again"}]
    BY SpotFacts DEF StartWalk
  <2> QED BY <1>1, <2>5, <2>7, <2>8, <2>9, SpotFacts DEF WalkInv
<1>2. CASE Doing' \notin Walks
  BY <1>2 DEF WalkInv
<1> QED BY <1>1, <1>2

(***************************************************************************)
(* What the steps of the wrapper keep                                      *)
(***************************************************************************)

\* A step that neither mounts, walks nor goes on to another call.
LEMMA StillStep ==
    ASSUME Sound, UNCHANGED <<file, job, plan, code, walk, fd>>
    PROVE  Sound'
<1>1. entry' = entry /\ mounts' = mounts /\ fresh' = fresh
  BY DEF file
<1>2. TreeInv' /\ PlanInv' /\ Doing' = Doing /\ Here' = Here
  BY <1>1 DEF Sound, TreeInv, PlanInv, Doing, Here
<1>3. WalkInv' /\ FdInv'
  BY <1>1, <1>2 DEF Sound, WalkInv, FdInv, Resolve
<1>4. PhaseInv' /\ MaskInv'
  BY <1>1, <1>2 DEF Sound, PhaseInv, MaskInv, Uncovered
<1>5. ReadOnlyInv'
  BY <1>1, <1>2 DEF Sound, ReadOnlyInv, Unpinned, PinPaths, Rebinding
<1> QED BY <1>2, <1>3, <1>4, <1>5 DEF Sound

\* A step of a traversal that changes no entry.
LEMMA WalkStep ==
    ASSUME Sound, UNCHANGED <<file, job, plan, code, fd>>, WalkInv'
    PROVE  Sound'
<1>1. entry' = entry /\ mounts' = mounts /\ fresh' = fresh
  BY DEF file
<1>2. TreeInv' /\ PlanInv' /\ Doing' = Doing /\ Here' = Here
  BY <1>1 DEF Sound, TreeInv, PlanInv, Doing, Here
<1>3. FdInv'
  BY <1>1, <1>2 DEF Sound, FdInv, Resolve
<1>4. PhaseInv' /\ MaskInv'
  BY <1>1, <1>2 DEF Sound, PhaseInv, MaskInv, Uncovered
<1>5. ReadOnlyInv'
  BY <1>1, <1>2 DEF Sound, ReadOnlyInv, Unpinned, PinPaths, Rebinding
<1> QED BY <1>2, <1>3, <1>4, <1>5 DEF Sound

\* A step keeps the masks if it keeps every guard and mounts the mask it
\* was to mount.
LEMMA MaskKept ==
    ASSUME PlanInv, MaskInv, Went, job' = job,
           \A p \in Paths : Uncovered(p) /\ Guarded(entry, mounts, p, FALSE) => Guarded(entry', mounts', p, FALSE),
           Doing \in {"tmpfs", "shadow"} => Guarded(entry', mounts', Here.path, FALSE)
    PROVE  MaskInv'
<1> SUFFICES ASSUME NEW p \in Listed(job.blocked) \cup Listed(job.private), Uncovered(p)
             PROVE  \/ Includes(plan', "blocked", p)
                    \/ Includes(plan', "private", p)
                    \/ Guarded(entry', mounts', p, FALSE)
  BY DEF MaskInv, Uncovered
<1>1. p \in Paths
  <2>1. job.blocked \in Seq(Listable \ {<<>>}) /\ job.private \in Seq(Listable \ {<<>>})
    BY JobFacts DEF PlanInv
  <2>2. p \in Listable
    BY <2>1 DEF Listed
  <2> QED BY <2>2, PathFacts
<1>2. \/ Includes(plan, "blocked", p) \/ Includes(plan, "private", p) \/ Guarded(entry, mounts, p, FALSE)
  BY DEF MaskInv
<1>3. \A o : Includes(plan, o, p) => Includes(plan', o, p) \/ Dropped(o, p)
  BY DEF Went
<1>4. Dropped("blocked", p) \/ Dropped("private", p) => Guarded(entry', mounts', p, FALSE)
  BY DEF Dropped
<1>5. CASE Guarded(entry, mounts, p, FALSE)
  BY <1>1, <1>5
<1> QED BY <1>2, <1>3, <1>4, <1>5

\* A step keeps what is read-only if it keeps every guard, or rebinds, and
\* protects what it was to protect.
LEMMA ReadOnlyKept ==
    ASSUME PlanInv, ReadOnlyInv, Went, job' = job,
           \A q \in Paths : Unpinned(q) /\ Guarded(entry, mounts, q, TRUE) =>
                                Guarded(entry', mounts', q, TRUE) \/ Rebinding(q)',
           Doing = "remount" =>
               \A q \in Paths : IsPrefix(Here.path, q) => Guarded(entry', mounts', q, TRUE)
    PROVE  ReadOnlyInv'
<1> SUFFICES ASSUME NEW q \in Listed(job.readonly), Unpinned(q)
             PROVE  \/ Includes(plan', "readonly", q)
                    \/ Rebinding(q)'
                    \/ Guarded(entry', mounts', q, TRUE)
  BY DEF ReadOnlyInv, Unpinned, PinPaths
<1>1. q \in Paths /\ q \in Seq(Names)
  <2>1. job.readonly \in Seq(Listable \ {<<>>})
    BY JobFacts DEF PlanInv
  <2>2. q \in Listable
    BY <2>1 DEF Listed
  <2> QED BY <2>2, PathFacts
<1>2. \/ Includes(plan, "readonly", q) \/ Rebinding(q) \/ Guarded(entry, mounts, q, TRUE)
  BY DEF ReadOnlyInv
<1>3. CASE Includes(plan, "readonly", q)
  <2>1. Includes(plan', "readonly", q) \/ Dropped("readonly", q)
    BY <1>3 DEF Went
  <2>2. CASE Dropped("readonly", q)
    <3>1. Doing = "remount" /\ Here.path = q
      BY <2>2 DEF Dropped
    <3>2. IsPrefix(q, q)
      BY <1>1, PrefixOrder
    <3> QED BY <1>1, <3>1, <3>2
  <2> QED BY <2>1, <2>2
<1>4. CASE Rebinding(q)
  <2>1. code \in AfterBind /\ IsPrefix(Here.path, q)
    BY <1>4 DEF Rebinding
  <2>2. CASE Doing = "remount"
    BY <1>1, <2>1, <2>2
  <2>3. CASE Doing # "remount"
    <3>1. Here' = Here /\ code' \in AfterBind
      BY <2>1, <2>3 DEF Went
    <3> QED BY <2>1, <3>1 DEF Rebinding
  <2> QED BY <2>2, <2>3
<1>5. CASE Guarded(entry, mounts, q, TRUE)
  BY <1>1, <1>5
<1> QED BY <1>2, <1>3, <1>4, <1>5

\* The calls that change a mount.
Mounting == {"tmpfs", "shadow", "bind", "bindrec", "remount"}

\* The end of a system call that mounts nothing.
LEMMA CallStep ==
    ASSUME Sound, code # <<>>, Advance, UNCHANGED <<file, job>>, walk' = StartWalk,
           Doing \notin Mounting,
           Doing \in {"open", "create", "recheck"} => fd' = Resolve(Here.path) /\ fd' # NoPlace
    PROVE  Sound'
<1>1. entry' = entry /\ mounts' = mounts /\ fresh' = fresh /\ job' = job
  BY DEF file
<1>2. Went
  BY AdvanceFacts DEF Sound
<1>3. PlanInv'
  BY <1>2 DEF Went
<1>4. TreeInv'
  BY <1>1 DEF Sound, TreeInv
<1>5. WalkInv'
  BY <1>3, <1>4, StartedWalk
<1>6. FdInv'
  <2> SUFFICES ASSUME Doing' \in Uses PROVE (fd = Resolve(Here.path) /\ fd # NoPlace)'
    BY DEF FdInv
  <2>1. Here' = Here /\ Doing \in {"open", "create", "recheck"}
    BY <1>2 DEF Went
  <2> QED BY <1>1, <2>1 DEF Resolve
<1>7. PhaseInv'
  <2> SUFFICES ASSUME code' \in AfterBind PROVE \E n : Covers(entry', mounts', Here'.path, n)
    BY DEF PhaseInv
  <2>1. Here' = Here /\ code \in AfterBind
    BY <1>2 DEF Went, Mounting
  <2> QED BY <1>1, <2>1 DEF PhaseInv, Sound
<1>8. MaskInv'
  <2>1. Doing \notin {"tmpfs", "shadow"}
    BY DEF Mounting
  <2> QED BY <1>1, <1>2, <2>1, MaskKept DEF Sound
<1>9. ReadOnlyInv'
  <2>1. Doing # "remount"
    BY DEF Mounting
  <2> QED BY <1>1, <1>2, <2>1, ReadOnlyKept DEF Sound
<1> QED BY <1>3, <1>4, <1>5, <1>6, <1>7, <1>8, <1>9 DEF Sound

\* The end of one that mounts or remounts.
LEMMA MountStep ==
    ASSUME Sound, code # <<>>, Advance, UNCHANGED <<job, walk>>, TreeInv', Doing \in Mounting,
           Doing = "bind" /\ Here.op = "readonly" => \E n : Covers(entry', mounts', Here.path, n),
           \A p \in Paths : Uncovered(p) /\ Guarded(entry, mounts, p, FALSE) => Guarded(entry', mounts', p, FALSE),
           Doing \in {"tmpfs", "shadow"} => Guarded(entry', mounts', Here.path, FALSE),
           \A q \in Paths : Unpinned(q) /\ Guarded(entry, mounts, q, TRUE) =>
               \/ Guarded(entry', mounts', q, TRUE)
               \/ Doing = "bind" /\ Here.op = "readonly" /\ IsPrefix(Here.path, q),
           Doing = "remount" =>
               \A q \in Paths : IsPrefix(Here.path, q) => Guarded(entry', mounts', q, TRUE)
    PROVE  Sound'
<1>1. Went
  BY AdvanceFacts DEF Sound
<1>2. PlanInv'
  BY <1>1 DEF Went
<1>3. walk' = StartWalk
  <2>1. Doing \notin Walks
    BY DEF Walks, Mounting
  <2> QED BY <2>1 DEF Sound, WalkInv
<1>4. WalkInv'
  BY <1>2, <1>3, StartedWalk
<1>5. FdInv'
  <2>1. Doing' \notin Uses
    BY <1>1 DEF Went, Mounting
  <2> QED BY <2>1 DEF FdInv
<1>6. PhaseInv'
  <2> SUFFICES ASSUME code' \in AfterBind PROVE \E n : Covers(entry', mounts', Here'.path, n)
    BY DEF PhaseInv
  <2>1. Here' = Here /\ ((code \in AfterBind /\ Doing # "remount") \/ (Doing = "bind" /\ Here.op = "readonly"))
    BY <1>1 DEF Went
  <2>2. code \in AfterBind => Doing \in {"open", "recheck", "remount"}
    BY AfterBindFacts DEF Doing
  <2>3. Doing = "bind" /\ Here.op = "readonly"
    BY <2>1, <2>2 DEF Mounting
  <2> QED BY <2>1, <2>3
<1>7. MaskInv'
  BY <1>1, MaskKept DEF Sound
<1>8. ReadOnlyInv'
  <2>1. ASSUME NEW q \in Paths, Doing = "bind" /\ Here.op = "readonly" /\ IsPrefix(Here.path, q)
        PROVE  Rebinding(q)'
    <3>1. Here' = Here /\ code' \in AfterBind
      BY <1>1, <2>1 DEF Went
    <3> QED BY <2>1, <3>1 DEF Rebinding
  <2>2. \A q \in Paths : Unpinned(q) /\ Guarded(entry, mounts, q, TRUE) =>
            Guarded(entry', mounts', q, TRUE) \/ Rebinding(q)'
    BY <2>1
  <2> QED BY <1>1, <2>2, ReadOnlyKept DEF Sound
<1> QED BY <1>2, <1>4, <1>5, <1>6, <1>7, <1>8 DEF Sound

(***************************************************************************)
(* The mounts of the wrapper                                               *)
(***************************************************************************)

\* The descriptor used by a mount is the place of the path, and the top of
\* what is mounted there.
LEMMA FdFacts ==
    ASSUME Sound, Doing \in Uses, Here.path # <<>>
    PROVE  /\ code # <<>> /\ Here.path \in Seq(Names) /\ Here.path \in Paths
           /\ ResolveIn(entry, mounts, Here.path) = fd /\ fd # NoPlace /\ fd \in Place
           /\ fd.mnt \in DOMAIN mounts \cup {0} /\ TopIn(mounts, fd) = fd
           /\ \A k \in DOMAIN mounts : ~Hangs(mounts, k, fd)
           /\ fd.ino \in Inode /\ fd.ino.id < fresh /\ fd.ino # Root
<1>1. code # <<>>
  BY DEF Doing, Uses
<1>2. Here.path \in Paths /\ Here.path \in Seq(Names)
  BY <1>1, HereFacts DEF Sound
<1>3. fd.ino # Root
  <2> SUFFICES ASSUME fd.ino = Root PROVE FALSE
    OBVIOUS
  <2>1. ResolveIn(entry, mounts, Here.path) = fd
    BY DEF Sound, FdInv, Resolve
  <2>2. Entries(entry) /\ Closed(entry) /\ Labelled(entry, mounts) /\ Hung(mounts)
    BY DEF Sound, TreeInv
  <2>3. ResolveIn(entry, mounts, <<>>).ino = Root /\ Root.fs = "disk" /\ <<>> \in Seq(Names)
    BY <2>2, ResolveFacts, DiskFacts
  <2>4. ResolveIn(entry, mounts, Here.path).ino = ResolveIn(entry, mounts, <<>>).ino
    BY <2>1, <2>3
  <2>5. Here.path = <<>>
    BY <1>2, <2>2, <2>3, <2>4, OnePath
  <2> QED BY <2>5
<1>4. fd = ResolveIn(entry, mounts, Here.path) /\ fd # NoPlace
  BY DEF Sound, FdInv, Resolve
<1>5. Entries(entry) /\ Hung(mounts) /\ Known(entry, mounts, fresh)
  BY DEF Sound, TreeInv
<1>6. ResolveIn(entry, mounts, Here.path) \in Spot
  BY <1>2, <1>5, ResolveFacts
<1>7. fd \in Place
  BY <1>4, <1>6, SpotFacts
<1>8. /\ ResolveIn(entry, mounts, Here.path).mnt \in DOMAIN mounts \cup {0}
      /\ TopIn(mounts, ResolveIn(entry, mounts, Here.path)) = ResolveIn(entry, mounts, Here.path)
  BY <1>2, <1>4, <1>5, KnownMount
<1>9. TopIn(mounts, fd) = fd /\ fd.mnt \in DOMAIN mounts \cup {0}
  BY <1>4, <1>8
<1>10. \A k \in DOMAIN mounts : ~Hangs(mounts, k, TopIn(mounts, fd))
  BY <1>5, <1>7, TopFacts
<1>11. ResolveIn(entry, mounts, Here.path).ino.id < fresh
  BY <1>2, <1>4, <1>5, ResolvedKnown
<1>12. fd.ino \in Inode /\ fd.ino.id < fresh
  BY <1>4, <1>7, <1>11 DEF Place
<1> QED BY <1>1, <1>2, <1>3, <1>4, <1>7, <1>9, <1>10, <1>12

\* Only a pin can be "/".
LEMMA UsedPath ==
    ASSUME Sound, Doing \in Uses
    PROVE  Here.path = <<>> => Doing = "bind" /\ Here.op = "pin"
<1>1. code # <<>>
  BY DEF Doing, Uses
<1>2. Calls(Here.op, code) /\ (Here.op \notin {"namespace", "pin"} => Here.path # <<>>)
  BY <1>1, HereFacts DEF Sound
<1>3. Doing = Head(code)
  BY <1>1 DEF Doing
<1>4. Here.op # "namespace"
  BY <1>2, <1>3 DEF Calls
<1>5. Here.op = "pin" => Doing = "bind"
  BY <1>2, <1>3 DEF Calls, Uses
<1> QED BY <1>2, <1>4, <1>5

\* A mount on the descriptor is one more mount on the place of the path.
LEMMA MountedIsOneMore ==
    ASSUME Sound, Doing \in Uses, Here.path # <<>>, NEW r \in Inode, NEW ro \in BOOLEAN,
           Mounted(One(On(fd, r, ro)))
    PROVE  OneMore(mounts, fd, r, ro, Youngest(mounts) + 1, mounts')
<1> DEFINE n == Youngest(mounts) + 1
           m == [mnt |-> fd.mnt, at |-> fd.ino, root |-> r, ro |-> ro]
           new == One(On(fd, r, ro))
<1>1. TopIn(mounts, fd) = fd
  BY FdFacts
<1>2. On(fd, r, ro) = m
  BY <1>1 DEF On, Top
<1>3. new = [k \in {n} |-> m]
  BY <1>2 DEF One
<1>4. DOMAIN new = {n} /\ new[n] = m
  BY <1>3
<1>5. mounts' = [k \in DOMAIN mounts \cup DOMAIN new |-> IF k \in DOMAIN new THEN new[k] ELSE mounts[k]]
  BY DEF Mounted
<1> HIDE DEF new, n, m
<1>6. mounts' = With(mounts, n, m)
  <2>1. \A k \in DOMAIN mounts \cup {n} :
            (IF k \in {n} THEN new[k] ELSE mounts[k]) = (IF k = n THEN m ELSE mounts[k])
    BY <1>4
  <2> QED BY <1>4, <1>5, <2>1 DEF With
<1>7. /\ Hung(mounts) /\ fd \in Place /\ fd.mnt \in DOMAIN mounts \cup {0}
      /\ \A k \in DOMAIN mounts : ~Hangs(mounts, k, fd)
  BY FdFacts DEF Sound, TreeInv
<1> QED BY <1>6, <1>7 DEF OneMore, n, m

\* It brings no inode that was not made.
LEMMA KnownGrown ==
    ASSUME NEW t, Entries(t), NEW M, NEW F, NEW r, NEW ro, NEW n, NEW N, OneMore(M, F, r, ro, n, N),
           NEW f, Known(t, M, f), NEW g \in Nat, f <= g, r.id < g, F.ino.id < f
    PROVE  Known(t, N, g)
<1>1. f \in Nat /\ Root.id < f /\ Root.id \in Nat
  BY DiskFacts DEF Known
<1>2. \A e \in DOMAIN t : e[1].id < g /\ t[e].id < g
  <2> TAKE e \in DOMAIN t
  <2>1. e[1].id < f /\ t[e].id < f
    BY DEF Known
  <2>2. e[1].id \in Nat /\ t[e].id \in Nat
    BY DEF Entries, Inode
  <2> QED BY <1>1, <2>1, <2>2
<1>3. \A k \in DOMAIN N : N[k].root.id < g /\ N[k].at.id < g
  <2> TAKE k \in DOMAIN N
  <2>1. Grown(M, F, r, ro, n, N)
    BY OneMoreFacts
  <2>2. CASE k \in DOMAIN M
    <3>1. M[k].root.id < f /\ M[k].at.id < f /\ N[k] = M[k]
      BY <2>1, <2>2 DEF Known, Grown
    <3>2. M[k].root.id \in Nat /\ M[k].at.id \in Nat
      BY <2>2, HungFacts DEF Inode, OneMore
    <3> QED BY <1>1, <3>1, <3>2
  <2>3. CASE k = n
    <3>1. N[k].root = r /\ N[k].at = F.ino
      BY <2>1, <2>3 DEF Grown
    <3>2. F.ino.id \in Nat
      BY DEF OneMore, Place, Inode
    <3> QED BY <1>1, <3>1, <3>2
  <2> QED BY <2>1, <2>2, <2>3 DEF Grown
<1> QED BY <1>1, <1>2, <1>3 DEF Known

\* One more mount, of nothing of the disk or of the place itself, keeps the tree.
LEMMA MountKeepsTree ==
    ASSUME Sound, NEW F, NEW r, NEW ro, NEW n, OneMore(mounts, F, r, ro, n, mounts'), Shows(F, r),
           entry' = entry, fresh' \in Nat, fresh <= fresh', r.id < fresh', F.ino.id < fresh,
           F.ino = Root => r = Root
    PROVE  TreeInv'
<1>1. /\ Entries(entry) /\ Closed(entry) /\ Labelled(entry, mounts)
      /\ Known(entry, mounts, fresh) /\ RootShown(mounts)
  BY DEF Sound, TreeInv
<1>2. Hung(mounts')
  BY OneMoreFacts DEF Grown
<1>5. RootShown(mounts')
  <2>1. Grown(mounts, F, r, ro, n, mounts')
    BY OneMoreFacts
  <2>2. DOMAIN mounts' = DOMAIN mounts \cup {n} /\ mounts'[n].at = F.ino /\ mounts'[n].root = r
        /\ \A k \in DOMAIN mounts : mounts'[k] = mounts[k]
    BY <2>1 DEF Grown
  <2> QED BY <1>1, <2>2 DEF RootShown
<1>3. Labelled(entry, mounts')
  <2>1. PICK L : Labels(entry, mounts, L)
    BY <1>1 DEF Labelled
  <2> QED BY <2>1, MountKeepsLabels DEF Labelled
<1>4. Known(entry, mounts', fresh')
  BY <1>1, KnownGrown
<1> QED BY <1>1, <1>2, <1>3, <1>4, <1>5 DEF TreeInv

\* A mask is mounted.
LEMMA MaskStep ==
    ASSUME Sound, Doing \in {"tmpfs", "shadow"}, NEW r \in Inode, r.fs # "disk",
           Mounted(One(On(fd, r, FALSE))), fresh' \in Nat, fresh <= fresh', r.id < fresh'
    PROVE  Sound'
<1> DEFINE n == Youngest(mounts) + 1
<1>0. Here.path # <<>>
  BY UsedPath DEF Uses
<1>1. OneMore(mounts, fd, r, FALSE, n, mounts')
  BY <1>0, MountedIsOneMore DEF Uses
<1> HIDE DEF n
<1>2. /\ code # <<>> /\ Here.path \in Seq(Names) /\ Here.path \in Paths /\ Here.path # <<>>
      /\ ResolveIn(entry, mounts, Here.path) = fd /\ fd.ino.id < fresh /\ fd.ino # Root
  BY <1>0, FdFacts DEF Uses
<1>3. Advance /\ job' = job /\ walk' = walk /\ entry' = entry
  BY DEF Mounted
<1>4. TreeInv'
  BY <1>1, <1>2, <1>3, MountKeepsTree DEF Shows
<1>5. Entries(entry) /\ Closed(entry)
  BY DEF Sound, TreeInv
<1>6. \A p \in Paths : \A prot : Guarded(entry, mounts, p, prot) => Guarded(entry', mounts', p, prot)
  BY <1>1, <1>3, <1>5, OffKeepsGuards
<1>7. Guarded(entry', mounts', Here.path, FALSE)
  <2>1. Reaches(entry, mounts, fd, Here.path, Here.path)
    BY <1>2, PrefixOrder DEF Reaches
  <2>2. Hit(entry, mounts, fd, Here.path)
    BY <2>1 DEF Hit
  <2>3. Guarded(entry, mounts', Here.path, FALSE)
    BY <1>1, <1>2, <1>5, <2>2, OffGuards
  <2> QED BY <1>3, <2>3
<1> QED BY <1>2, <1>3, <1>4, <1>6, <1>7, MountStep DEF Mounting

\* apply_private_mounts, and a blocked directory.
LEMMA TmpfsStep == ASSUME Sound, MountTmpfs PROVE Sound'
<1>1. Doing \in {"tmpfs", "shadow"}
  BY DEF MountTmpfs, Now, Doing
<1>2. fresh \in Nat /\ fresh' = fresh + 1
  BY DEF Sound, TreeInv, Known, MountTmpfs
<1>3. EmptyDir \in Inode /\ EmptyDir.fs # "disk" /\ EmptyDir.id = fresh
  BY <1>2 DEF EmptyDir, Inode
<1>4. Mounted(One(On(fd, EmptyDir, FALSE)))
  BY DEF MountTmpfs
<1>5. fresh' \in Nat /\ fresh <= fresh' /\ EmptyDir.id < fresh'
  BY <1>2, <1>3
<1> QED BY <1>1, <1>3, <1>4, <1>5, MaskStep

\* A blocked file.
LEMMA NullStep == ASSUME Sound, MountNull PROVE Sound'
<1>1. Doing \in {"tmpfs", "shadow"}
  BY DEF MountNull, Now, Doing
<1>2. fresh \in Nat /\ fresh' = fresh /\ 0 < fresh
  <2>1. Root.id < fresh /\ Root.id \in Nat /\ fresh \in Nat
    BY DiskFacts DEF Sound, TreeInv, Known
  <2> QED BY <2>1 DEF MountNull
<1>3. DevNull \in Inode /\ DevNull.fs # "disk" /\ DevNull.id = 0
  BY DEF DevNull, Inode
<1>4. Mounted(One(On(fd, DevNull, FALSE)))
  BY DEF MountNull
<1>5. fresh' \in Nat /\ fresh <= fresh' /\ DevNull.id < fresh'
  BY <1>2, <1>3
<1> QED BY <1>1, <1>3, <1>4, <1>5, MaskStep

\* A place is bound on itself.
LEMMA BindStep ==
    ASSUME Sound, Doing = "bind", Here.path # <<>>, Mounted(SelfBind(fd)), fresh' = fresh
    PROVE  Sound'
<1> DEFINE n == Youngest(mounts) + 1
           ro == ReadOnly(fd.mnt)
           o == Here.path
<1>1. /\ code # <<>> /\ o \in Seq(Names) /\ o \in Paths /\ o # <<>>
      /\ ResolveIn(entry, mounts, o) = fd /\ fd.ino.id < fresh /\ fd.ino \in Inode
      /\ fd.mnt \in DOMAIN mounts \cup {0}
  BY FdFacts DEF Uses
<1>2. /\ Entries(entry) /\ Closed(entry) /\ Labelled(entry, mounts) /\ Hung(mounts)
      /\ fresh \in Nat
  BY DEF Sound, TreeInv, Known
<1>3. ro \in BOOLEAN /\ ro = (fd.mnt > 0 /\ mounts[fd.mnt].ro)
  <2>1. ro = (fd.mnt > 0 /\ mounts[fd.mnt].ro)
    BY DEF ReadOnly
  <2> QED BY <2>1
<1>4. Mounted(One(On(fd, fd.ino, ro)))
  BY DEF SelfBind
<1> HIDE DEF ro
<1>5. OneMore(mounts, fd, fd.ino, ro, n, mounts')
  BY <1>1, <1>3, <1>4, MountedIsOneMore DEF Uses
<1> HIDE DEF n
<1>6. Advance /\ job' = job /\ walk' = walk /\ entry' = entry
  BY DEF Mounted
<1>7. TreeInv'
  <2>1. fresh' \in Nat /\ fresh <= fresh' /\ fd.ino.id < fresh'
    BY <1>1, <1>2
  <2> QED BY <1>1, <1>5, <1>6, <2>1, MountKeepsTree DEF Shows
<1>8. Covers(entry', mounts', o, n)
  BY <1>1, <1>2, <1>5, <1>6, OneCovers
<1>9. \A p \in Paths : \A prot : ~IsStrictPrefix(o, p) /\ Guarded(entry, mounts, p, prot) =>
                                 Guarded(entry', mounts', p, prot)
  <2> SUFFICES ASSUME NEW p \in Paths, NEW prot, ~IsStrictPrefix(o, p), Guarded(entry, mounts, p, prot)
               PROVE  Guarded(entry, mounts', p, prot)
    BY <1>6
  <2>1. CASE fd.ino.fs = "disk"
    BY <1>1, <1>2, <1>3, <1>5, <2>1, OnKeepsGuards
  <2>2. CASE fd.ino.fs # "disk"
    BY <1>2, <1>5, <2>2, OffKeepsGuards
  <2> QED BY <2>1, <2>2
<1>10. /\ Here.op = "readonly" \/ Here.op = "pin"
       /\ Here.op = "readonly" => o \in Listed(job.readonly)
       /\ Here.op = "pin" => o \in PinPaths(job)
  <2>1. /\ Calls(Here.op, code)
        /\ Here.op = "readonly" => Here.path \in Listed(job.readonly)
        /\ Here.op = "pin" => Here.path \in PinPaths(job)
    BY <1>1, HereFacts DEF Sound
  <2>2. Here.op \in {"readonly", "pin"}
    BY <1>1, <2>1 DEF Calls, Doing
  <2> QED BY <2>1, <2>2
<1>11. \A p \in Paths : Uncovered(p) => ~IsStrictPrefix(o, p)
  BY <1>10 DEF Uncovered, Beneath, PinPaths
<1>12. \A q \in Paths : Unpinned(q) => ~IsStrictPrefix(o, q) \/ (Here.op = "readonly" /\ IsPrefix(o, q))
  <2> SUFFICES ASSUME NEW q \in Paths, Unpinned(q), IsStrictPrefix(o, q)
               PROVE  Here.op = "readonly" /\ IsPrefix(o, q)
    OBVIOUS
  <2>1. Here.op # "pin"
    BY <1>10 DEF Unpinned, Beneath
  <2>2. IsPrefix(o, q)
    BY DEF IsStrictPrefix
  <2> QED BY <1>10, <2>1, <2>2
<1>13. \A p \in Paths : Uncovered(p) /\ Guarded(entry, mounts, p, FALSE) => Guarded(entry', mounts', p, FALSE)
  BY <1>9, <1>11
<1>14. \A q \in Paths : Unpinned(q) /\ Guarded(entry, mounts, q, TRUE) =>
            \/ Guarded(entry', mounts', q, TRUE)
            \/ Doing = "bind" /\ Here.op = "readonly" /\ IsPrefix(Here.path, q)
  BY <1>9, <1>12
<1> QED BY <1>1, <1>6, <1>7, <1>8, <1>13, <1>14, MountStep DEF Mounting

\* A mount on "/" shows "/", and the root of the process stays below it.
LEMMA RootTop ==
    ASSUME Hung(mounts), RootShown(mounts)
    PROVE  TopIn(mounts, RootPlace).ino = Root
<1> DEFINE S == {x \in Place : x.ino = Root}
<1>1. RootPlace \in Place /\ RootPlace \in S
  BY SpotFacts, DiskFacts
<1>2. ASSUME NEW x \in Place, NEW k \in DOMAIN mounts, x \in S /\ Hangs(mounts, k, x)
      PROVE  Shown(mounts, k) \in S
  <2>1. mounts[k].at = Root
    BY <1>2 DEF Hangs
  <2>2. Shown(mounts, k) \in Place /\ Shown(mounts, k).ino = mounts[k].root
    BY HungFacts
  <2> QED BY <2>1, <2>2 DEF RootShown
<1> HIDE DEF S
<1>3. TopIn(mounts, RootPlace) \in S
  BY <1>1, <1>2, TopInduction
<1> QED BY <1>3 DEF S

\* A bind of "/" goes on top of what is mounted there.
LEMMA RootBound ==
    ASSUME Sound, Doing = "bind", Here.path = <<>>, Mounted(SelfBind(fd))
    PROVE  \E F : F.ino = Root /\ OneMore(mounts, F, Root, FALSE, Youngest(mounts) + 1, mounts')
<1> DEFINE n == Youngest(mounts) + 1
           F == Top(RootPlace)
           m == [mnt |-> F.mnt, at |-> F.ino, root |-> Root, ro |-> FALSE]
           new == One(m)
<1>2. /\ Entries(entry) /\ Hung(mounts) /\ Known(entry, mounts, fresh) /\ RootShown(mounts)
  BY DEF Sound, TreeInv
<1>3. fd = RootPlace
  BY <1>2, ResolveFacts DEF Sound, FdInv, Resolve, Uses
<1>4. F.ino = Root /\ F \in Place /\ F.mnt \in DOMAIN mounts \cup {0} /\ \A k \in DOMAIN mounts : ~Hangs(mounts, k, F)
  BY <1>2, RootTop, TopFacts, SpotFacts, DiskFacts DEF Top
<1>5. SelfBind(fd) = new
  <2>1. fd.mnt = 0 /\ fd.ino = Root /\ ReadOnly(fd.mnt) = FALSE
    BY <1>3, DiskFacts DEF ReadOnly
  <2>2. On(fd, fd.ino, ReadOnly(fd.mnt)) = m
    BY <1>3, <2>1 DEF On
  <2> QED BY <2>2 DEF SelfBind
<1>6. mounts' = With(mounts, n, m)
  <2>1. new = [k \in {n} |-> m]
    BY DEF One
  <2>2. DOMAIN new = {n} /\ new[n] = m
    BY <2>1
  <2>3. mounts' = [k \in DOMAIN mounts \cup DOMAIN new |-> IF k \in DOMAIN new THEN new[k] ELSE mounts[k]]
    BY <1>5 DEF Mounted
  <2> HIDE DEF new, n, m
  <2>4. \A k \in DOMAIN mounts \cup {n} :
            (IF k \in {n} THEN new[k] ELSE mounts[k]) = (IF k = n THEN m ELSE mounts[k])
    BY <2>2
  <2> QED BY <2>2, <2>3, <2>4 DEF With
<1>7. OneMore(mounts, F, Root, FALSE, n, mounts')
  BY <1>2, <1>4, <1>6, SpotFacts DEF OneMore
<1> QED BY <1>4, <1>7 DEF n

\* "/" itself is bound.
LEMMA RootBindStep ==
    ASSUME Sound, Doing = "bind", Here.path = <<>>, Mounted(SelfBind(fd)), fresh' = fresh
    PROVE  Sound'
<1>1. code # <<>> /\ Here.op = "pin" /\ <<>> \in PinPaths(job)
  <2>1. code # <<>>
    BY DEF Doing
  <2>2. Here.op = "pin"
    BY UsedPath DEF Uses
  <2> QED BY <2>1, <2>2, HereFacts DEF Sound
<1>2. Known(entry, mounts, fresh)
  BY DEF Sound, TreeInv
<1>4. PICK F : F.ino = Root /\ OneMore(mounts, F, Root, FALSE, Youngest(mounts) + 1, mounts')
  BY RootBound
<1>8. Advance /\ job' = job /\ walk' = walk /\ entry' = entry
  BY DEF Mounted
<1>9. TreeInv'
  <2>1. Root.id < fresh /\ fresh \in Nat
    BY <1>2 DEF Known
  <2>2. fresh' \in Nat /\ fresh <= fresh' /\ Root.id < fresh' /\ F.ino.id < fresh
    BY <1>4, <2>1
  <2> QED BY <1>4, <1>8, <2>2, MountKeepsTree DEF Shows
<1>10. \A p \in Paths : \A prot : ~(p # <<>> /\ Guarded(entry, mounts, p, prot) /\ (Uncovered(p) \/ Unpinned(p)))
  <2> SUFFICES ASSUME NEW p \in Paths, p # <<>> PROVE ~Uncovered(p) /\ ~Unpinned(p)
    OBVIOUS
  <2>1. IsStrictPrefix(<<>>, p)
    BY PathFacts, PrefixOrder DEF IsStrictPrefix
  <2> QED BY <1>1, <2>1 DEF Uncovered, Unpinned, Beneath, PinPaths
<1>11. \A prot : ~Guarded(entry, mounts, <<>>, prot)
  BY PrefixOrder DEF Guarded, Guards
<1>12. \A p \in Paths : \A prot : Guarded(entry, mounts, p, prot) => ~Uncovered(p) /\ ~Unpinned(p)
  BY <1>10, <1>11
<1> QED BY <1>1, <1>8, <1>9, <1>12, MountStep DEF Mounting

\* The binds of an ancestor and of all that is mounted below it.
LEMMA CopyKnown ==
    ASSUME NEW M, NEW l \in Place, NEW D, NEW B \in SUBSET Nat, NEW s \in Nat, NEW ro, NEW N,
           Copies(M, l, D, B, s, ro, N), NEW t, NEW f, Known(t, M, f), l.ino.id < f
    PROVE  Known(t, N, f)
<1>1. ASSUME NEW k \in DOMAIN N PROVE N[k].root.id < f /\ N[k].at.id < f
  <2>1. CASE k \in DOMAIN M
    BY <2>1 DEF Copies, Known
  <2>2. CASE k = l.mnt + s
    <3>1. N[k] = BindAt(l, ro)
      BY <2>2 DEF Copies
    <3> QED BY <3>1 DEF BindAt
  <2>3. ASSUME NEW i \in B, k = i + s PROVE N[k].root.id < f /\ N[k].at.id < f
    <3>1. i \in DOMAIN M /\ N[k] = CopyOf(M, i, s)
      BY <2>3 DEF Copies, AreBelow
    <3>2. N[k].root = M[i].root /\ N[k].at = M[i].at
      BY <3>1 DEF CopyOf
    <3> QED BY <3>1, <3>2 DEF Known
  <2> QED BY <2>1, <2>2, <2>3 DEF Copies
<1> QED BY <1>1 DEF Known

\* Nor does a recursive bind hide "/".
LEMMA CopyRootShown ==
    ASSUME NEW M, NEW l \in Place, NEW D, NEW B \in SUBSET Nat, NEW s \in Nat, NEW ro, NEW N,
           Copies(M, l, D, B, s, ro, N), RootShown(M)
    PROVE  RootShown(N)
<1> SUFFICES ASSUME NEW k \in DOMAIN N, N[k].at = Root PROVE N[k].root = Root
  BY DEF RootShown
<1>1. CASE k \in DOMAIN M
  BY <1>1 DEF Copies, RootShown
<1>2. CASE k = l.mnt + s
  <2>1. N[k] = BindAt(l, ro)
    BY <1>2 DEF Copies
  <2> QED BY <2>1 DEF BindAt
<1>3. ASSUME NEW i \in B, k = i + s PROVE N[k].root = Root
  <2>1. i \in DOMAIN M /\ N[k] = CopyOf(M, i, s)
    BY <1>3 DEF Copies, AreBelow
  <2>2. N[k].root = M[i].root /\ N[k].at = M[i].at
    BY <2>1 DEF CopyOf
  <2> QED BY <2>1, <2>2 DEF RootShown
<1> QED BY <1>1, <1>2, <1>3 DEF Copies

\* pin_validated_path_parent.
LEMMA ParentStep == ASSUME Sound, BindParent PROVE Sound'
<1> DEFINE s == Youngest(mounts) + 1
           B == MountsBelow(fd)
           ro == ReadOnly(fd.mnt)
<1>1. Doing = "bindrec"
  BY DEF BindParent, Now, Doing
<1>2. /\ code # <<>> /\ fd \in Place /\ fd.mnt \in DOMAIN mounts \cup {0}
      /\ TopIn(mounts, fd) = fd /\ fd.ino.id < fresh
  <2>1. Here.path # <<>>
    BY <1>1, UsedPath DEF Uses
  <2> QED BY <1>1, <2>1, FdFacts DEF Uses
<1>3. /\ Entries(entry) /\ Closed(entry) /\ Labelled(entry, mounts) /\ Hung(mounts)
      /\ Known(entry, mounts, fresh) /\ RootShown(mounts)
  BY DEF Sound, TreeInv
<1>4. Mounted(SelfBindRec(fd)) /\ fresh' = fresh
  BY DEF BindParent
<1>5. Advance /\ job' = job /\ walk' = walk /\ entry' = entry
  BY <1>4 DEF Mounted
<1>6. mounts' = [k \in DOMAIN mounts \cup DOMAIN SelfBindRec(fd) |->
                    IF k \in DOMAIN SelfBindRec(fd) THEN SelfBindRec(fd)[k] ELSE mounts[k]]
  BY <1>4 DEF Mounted
<1>7. /\ Copies(mounts, fd, Below(fd.ino), B, s, ro, mounts')
      /\ B \in SUBSET Nat /\ s \in Nat
  BY <1>2, <1>3, <1>6, BindParentCopies DEF Top
<1> HIDE DEF s, B
<1>8. Hung(mounts')
  BY <1>2, <1>7, CopyHung
<1>9. Labelled(entry, mounts')
  <2>1. PICK L : Labels(entry, mounts, L)
    BY <1>3 DEF Labelled
  <2>2. Labels(entry, mounts', L)
    BY <1>2, <1>7, <2>1, CopyKeepsLabels
  <2> QED BY <2>2 DEF Labelled
<1>10. Known(entry, mounts', fresh)
  BY <1>2, <1>3, <1>7, CopyKnown
<1>13. RootShown(mounts')
  BY <1>2, <1>3, <1>7, CopyRootShown
<1>11. TreeInv'
  BY <1>3, <1>4, <1>5, <1>8, <1>9, <1>10, <1>13 DEF TreeInv
<1>12. \A p \in Paths : \A prot : Guarded(entry, mounts, p, prot) => Guarded(entry', mounts', p, prot)
  BY <1>2, <1>3, <1>5, <1>7, CopyKeepsGuards
<1> QED BY <1>1, <1>2, <1>5, <1>11, <1>12, MountStep DEF Mounting

\* The mount the path leads to becomes read-only, and all that is left to be
\* seen at and below the path lies in it.
LEMMA RemountStep == ASSUME Sound, RemountReadOnly, ~Fail PROVE Sound'
<1> DEFINE k == fd.mnt
           o == Here.path
<1>1. Doing = "remount"
  BY DEF RemountReadOnly, Now, Doing
<1>2. /\ code # <<>> /\ fd.mnt \in DOMAIN mounts \cup {0}
      /\ o \in Seq(Names) /\ o \in Paths /\ o # <<>>
      /\ ResolveIn(entry, mounts, o) = fd /\ fd # NoPlace
  <2>1. Here.path # <<>>
    BY <1>1, UsedPath DEF Uses
  <2> QED BY <1>1, <2>1, FdFacts DEF Uses
<1>3. /\ Entries(entry) /\ Closed(entry) /\ Labelled(entry, mounts) /\ Hung(mounts)
      /\ Known(entry, mounts, fresh) /\ RootShown(mounts)
  BY DEF Sound, TreeInv
<1>4. /\ fd.mnt > 0 /\ mounts' = [mounts EXCEPT ![fd.mnt].ro = TRUE] /\ Advance
      /\ entry' = entry /\ fresh' = fresh /\ job' = job /\ walk' = walk
  BY DEF RemountReadOnly
<1>5. Remounted(mounts, k, mounts')
  BY <1>2, <1>3, <1>4 DEF Remounted
<1>6. Alike(mounts, k, mounts')
  BY <1>5, RemountFacts
<1>7. TreeInv'
  <2>1. Hung(mounts')
    BY <1>6 DEF Alike
  <2>2. Labelled(entry, mounts')
    BY <1>3, <1>5, RemountKeepsLabels DEF Labelled
  <2>3. Known(entry, mounts', fresh)
    BY <1>3, <1>6 DEF Known, Alike
  <2>4. RootShown(mounts')
    BY <1>3, <1>6 DEF RootShown, Alike
  <2> QED BY <1>3, <1>4, <2>1, <2>2, <2>3, <2>4 DEF TreeInv
<1>8. \A p \in Paths : \A prot : Guarded(entry, mounts, p, prot) => Guarded(entry', mounts', p, prot)
  BY <1>3, <1>4, <1>5, RemountKeepsGuards
<1>9. Covers(entry, mounts, o, k)
  <2>1. code \in AfterBind
    <3>1. Calls(Here.op, code)
      BY <1>2, HereFacts DEF Sound
    <3> QED BY <1>1, <1>2, <3>1 DEF Calls, Doing
  <2>2. PICK n : Covers(entry, mounts, o, n)
    BY <2>1 DEF Sound, PhaseInv
  <2>3. IsPrefix(o, o)
    BY <1>2, PrefixOrder
  <2>4. n = k
    BY <1>2, <2>2, <2>3 DEF Covers
  <2> QED BY <2>2, <2>4
<1> HIDE DEF k, o
<1>10. \A q \in Paths : IsPrefix(o, q) => Guarded(entry', mounts', q, TRUE)
  BY <1>2, <1>3, <1>4, <1>5, <1>9, RemountGuards
<1> QED BY <1>1, <1>2, <1>4, <1>7, <1>8, <1>10, MountStep DEF Mounting, o

\* Where a traversal is, and what comes next.
LEMMA WalkFacts ==
    ASSUME Sound, Walking
    PROVE  LET p == SubSeq(Here.path, 1, walk.depth)
               q == SubSeq(Here.path, 1, walk.depth + 1)
           IN  /\ Doing \in Walks /\ Doing = Now /\ code # <<>>
               /\ walk \in [at : Spot, depth : Nat, how : {"look", "make", "again"}]
               /\ walk.depth + 1 \in 0 .. Len(Here.path)
               /\ p \in Seq(Names) /\ Component \in Names
               /\ walk.at = ResolveIn(entry, mounts, p) /\ walk.at # NoPlace /\ walk.at \in Place
               /\ ResolveIn(entry, mounts, q) = EnterIn(entry, mounts, walk.at, Component)
<1> DEFINE p == SubSeq(Here.path, 1, walk.depth)
           q == SubSeq(Here.path, 1, walk.depth + 1)
<1>1. Now \in Walks /\ walk.depth < Len(Here.path)
  BY DEF Walking
<1>2. Doing \in Walks /\ Doing = Now /\ code # <<>>
  BY <1>1 DEF Doing, Now, Walks
<1>3. Here.path \in Seq(Names)
  BY <1>2, HereFacts DEF Sound
<1>4. /\ walk \in [at : Spot, depth : Nat, how : {"look", "make", "again"}]
      /\ walk.depth \in 0 .. Len(Here.path)
      /\ walk.at = ResolveIn(entry, mounts, p) /\ walk.at # NoPlace
  BY <1>2 DEF Sound, WalkInv, Resolve
<1>5. walk.depth \in Nat /\ walk.at \in Spot
  BY <1>4
<1>6. walk.depth \in 0 .. Len(Here.path) - 1 /\ walk.depth + 1 \in 0 .. Len(Here.path)
  BY <1>1, <1>3, <1>5
<1>7. /\ p \in Seq(Names) /\ Here.path[walk.depth + 1] \in Names
      /\ q = Append(p, Here.path[walk.depth + 1])
  BY <1>3, <1>6, LastAppended
<1> HIDE DEF p, q
<1>8. Entries(entry) /\ Hung(mounts)
  BY DEF Sound, TreeInv
<1>9. ResolveIn(entry, mounts, q) = EnterIn(entry, mounts, walk.at, Component)
  BY <1>4, <1>7, <1>8, ResolveFacts DEF Component
<1>10. walk.at \in Place
  BY <1>4, <1>5, SpotFacts
<1> QED BY <1>2, <1>4, <1>6, <1>7, <1>9, <1>10 DEF p, q, Component

\* A traversal descends ...
LEMMA OpenStep == ASSUME Sound, OpenComponent, ~Fail PROVE Sound'
<1> DEFINE next == Enter(walk.at, Component)
<1>1. /\ next # NoPlace /\ walk' = [at |-> next, depth |-> walk.depth + 1, how |-> "look"]
      /\ UNCHANGED <<file, job, plan, code, fd>>
  BY DEF OpenComponent
<1>2. /\ Doing \in Walks /\ walk.depth \in Nat
      /\ walk.depth + 1 \in 0 .. Len(Here.path)
      /\ ResolveIn(entry, mounts, SubSeq(Here.path, 1, walk.depth + 1)) = next
      /\ walk.at \in Spot /\ Component \in Names
  BY WalkFacts DEF OpenComponent, Enter
<1>3. next \in Spot
  <2>1. Entries(entry) /\ Hung(mounts)
    BY DEF Sound, TreeInv
  <2> QED BY <1>2, <2>1, EnterFacts DEF Enter
<1> HIDE DEF next
<1>4. entry' = entry /\ mounts' = mounts /\ Here' = Here /\ Doing' = Doing
  BY <1>1 DEF file, Here, Doing
<1>5. walk'.at = next /\ walk'.depth = walk.depth + 1 /\ walk'.how = "look"
  BY <1>1
<1>6. walk' \in [at : Spot, depth : Nat, how : {"look", "make", "again"}]
  BY <1>1, <1>2, <1>3
<1>7. WalkInv'
  BY <1>1, <1>2, <1>4, <1>5, <1>6 DEF WalkInv, Resolve
<1> QED BY <1>1, <1>7, WalkStep

\* ... or finds nothing, and goes on to make it.
LEMMA MissStep == ASSUME Sound, MissComponent, ~Fail PROVE Sound'
<1>1. /\ Now = "create" /\ walk' = [walk EXCEPT !.how = "make"]
      /\ UNCHANGED <<file, job, plan, code, fd>>
  BY DEF MissComponent
<1>2. /\ Doing \in Walks /\ Doing = Now
      /\ walk \in [at : Spot, depth : Nat, how : {"look", "make", "again"}]
  BY WalkFacts DEF MissComponent
<1>3. entry' = entry /\ mounts' = mounts /\ Here' = Here /\ Doing' = Doing
  BY <1>1 DEF file, Here, Doing
<1>4. /\ walk'.at = walk.at /\ walk'.depth = walk.depth
      /\ walk' \in [at : Spot, depth : Nat, how : {"look", "make", "again"}]
  BY <1>1, <1>2
<1>5. WalkInv
  BY DEF Sound
<1>6. WalkInv'
  BY <1>1, <1>2, <1>3, <1>4, <1>5 DEF WalkInv, Resolve
<1> QED BY <1>1, <1>6, WalkStep

\* A missing component of a blocked path is made: nothing else moves.
LEMMA MakeStep == ASSUME Sound, MakeComponent PROVE Sound'
<1> DEFINE d == walk.at.ino
           c == Component
           kind == IF walk.depth + 1 = Len(Here.path) THEN "file" ELSE "dir"
           made == [fs |-> walk.at.ino.fs, kind |-> kind, id |-> fresh]
           p == SubSeq(Here.path, 1, walk.depth)
<1>1. /\ Doing \in Walks /\ Doing = Now /\ code # <<>>
      /\ walk \in [at : Spot, depth : Nat, how : {"look", "make", "again"}]
      /\ p \in Seq(Names) /\ c \in Names
      /\ walk.at = ResolveIn(entry, mounts, p) /\ walk.at # NoPlace /\ walk.at \in Place
  BY WalkFacts DEF MakeComponent
<1>2. /\ walk.how = "make" /\ walk' = [walk EXCEPT !.how = "again"]
      /\ UNCHANGED <<mounts, job, plan, code, fd>>
  BY DEF MakeComponent
<1>3. Doing = "create"
  BY <1>1, <1>2 DEF Sound, WalkInv
<1>4. Here' = Here /\ Doing' = Doing /\ mounts' = mounts
  BY <1>2 DEF Here, Doing
<1>5. /\ walk'.at = walk.at /\ walk'.depth = walk.depth /\ walk'.how = "again"
      /\ walk' \in [at : Spot, depth : Nat, how : {"look", "make", "again"}]
  BY <1>1, <1>2
<1>6. /\ Entries(entry) /\ Closed(entry) /\ Labelled(entry, mounts) /\ Hung(mounts)
      /\ Known(entry, mounts, fresh)
  BY DEF Sound, TreeInv
<1>7. WalkInv
  BY DEF Sound
<1>8. CASE <<d, c>> \in DOMAIN entry
  <2>1. UNCHANGED file
    BY <1>2, <1>8 DEF MakeComponent, file
  <2>2. entry' = entry
    BY <2>1 DEF file
  <2>3. WalkInv'
    BY <1>1, <1>4, <1>5, <1>7, <2>2 DEF WalkInv, Resolve
  <2> QED BY <1>2, <2>1, <2>3, WalkStep
<1>9. CASE <<d, c>> \notin DOMAIN entry
  <2>1. /\ entry' = [e \in DOMAIN entry \cup {<<d, c>>} |-> IF e = <<d, c>> THEN made ELSE entry[e]]
        /\ fresh' = fresh + 1
    BY <1>9 DEF MakeComponent
  <2>2. OneEntry(entry, d, c, made, fresh, entry')
    <3>1. d \in Inode
      BY <1>1 DEF Place
    <3>2. fresh \in Nat
      BY <1>6 DEF Known
    <3>3. made \in Inode /\ made.id = fresh /\ made.fs = d.fs
      BY <3>1, <3>2 DEF Inode
    <3>4. d.id < fresh
      <4>1. ResolveIn(entry, mounts, p).ino.id < fresh
        BY <1>1, <1>6, ResolvedKnown
      <4> QED BY <1>1, <4>1
    <3> HIDE DEF made, d, c
    <3> QED BY <1>1, <1>6, <1>9, <2>1, <3>1, <3>2, <3>3, <3>4 DEF OneEntry, AddEntry
  <2> HIDE DEF made, d, c, p
  <2>3. TreeInv'
    <3>1. Closed(entry') /\ Known(entry', mounts, fresh + 1) /\ Entries(entry')
      BY <1>6, <2>2, EntryKeepsTree
    <3>2. RootShown(mounts)
      BY DEF Sound, TreeInv
    <3>3. Labelled(entry', mounts)
      <4>1. PICK L : Labels(entry, mounts, L)
        BY <1>6 DEF Labelled
      <4> QED BY <1>6, <2>2, <4>1, EntryKeepsLabels DEF Labelled
    <3> QED BY <1>4, <1>6, <2>1, <3>1, <3>2, <3>3 DEF TreeInv
  <2>4. PlanInv'
    BY <1>2, <1>4 DEF Sound, PlanInv
  <2>5. WalkInv'
    <3>1. ResolveIn(entry', mounts, p) = ResolveIn(entry, mounts, p)
      BY <1>1, <1>6, <2>2, EntryKeepsPlaces
    <3>2. walk'.at = Resolve(SubSeq(Here.path, 1, walk.depth))'
      BY <1>1, <1>4, <1>5, <3>1 DEF Resolve, p
    <3>3. walk.depth \in 0 .. Len(Here.path)
      BY <1>1, <1>7 DEF WalkInv
    <3> QED BY <1>1, <1>4, <1>5, <3>2, <3>3 DEF WalkInv
  <2>6. FdInv'
    BY <1>3, <1>4 DEF FdInv, Uses
  <2>7. PhaseInv'
    <3>1. Calls(Here.op, code)
      BY <1>1, HereFacts DEF Sound
    <3>2. code' \notin AfterBind
      BY <1>1, <1>2, <1>3, <3>1 DEF Calls, Doing
    <3> QED BY <3>2 DEF PhaseInv
  <2>8. \A u \in Paths : \A prot : Guarded(entry, mounts, u, prot) => Guarded(entry', mounts, u, prot)
    BY <1>6, <2>2, EntryKeepsGuards
  <2>9. MaskInv'
    <3> SUFFICES ASSUME NEW u \in Listed(job.blocked) \cup Listed(job.private), Uncovered(u)
                 PROVE  \/ Includes(plan, "blocked", u)
                        \/ Includes(plan, "private", u)
                        \/ Guarded(entry', mounts, u, FALSE)
      BY <1>2 DEF MaskInv, Uncovered
    <3>1. u \in Paths
      <4>1. job.blocked \in Seq(Listable \ {<<>>}) /\ job.private \in Seq(Listable \ {<<>>})
        BY JobFacts DEF Sound, PlanInv
      <4>2. u \in Listable
        BY <4>1 DEF Listed
      <4> QED BY <4>2, PathFacts
    <3> QED BY <2>8, <3>1 DEF Sound, MaskInv
  <2>10. ReadOnlyInv'
    <3> SUFFICES ASSUME NEW u \in Listed(job.readonly), Unpinned(u)
                 PROVE  \/ Includes(plan, "readonly", u)
                        \/ Rebinding(u)'
                        \/ Guarded(entry', mounts, u, TRUE)
      BY <1>2 DEF ReadOnlyInv, Unpinned, PinPaths
    <3>1. u \in Paths
      <4>1. job.readonly \in Seq(Listable \ {<<>>})
        BY JobFacts DEF Sound, PlanInv
      <4>2. u \in Listable
        BY <4>1 DEF Listed
      <4> QED BY <4>2, PathFacts
    <3>2. Rebinding(u)' <=> Rebinding(u)
      BY <1>2, <1>4 DEF Rebinding
    <3> QED BY <2>8, <3>1, <3>2 DEF Sound, ReadOnlyInv
  <2> QED BY <2>3, <2>4, <2>5, <2>6, <2>7, <2>9, <2>10 DEF Sound
<1> QED BY <1>8, <1>9

\* A traversal that has come to its end stands at the path.
LEMMA ArrivedFacts ==
    ASSUME Sound, Arrived
    PROVE  /\ code # <<>> /\ Doing = Now /\ Doing \in Walks
           /\ walk.at = Resolve(Here.path) /\ walk.at # NoPlace
<1>1. Now \in Walks /\ walk.depth = Len(Here.path)
  BY DEF Arrived
<1>2. Doing \in Walks /\ Doing = Now /\ code # <<>>
  BY <1>1 DEF Doing, Now, Walks
<1>3. Here.path \in Seq(Names)
  BY <1>2, HereFacts DEF Sound
<1>4. SubSeq(Here.path, 1, Len(Here.path)) = Here.path
  BY <1>3
<1>5. walk.at = Resolve(SubSeq(Here.path, 1, walk.depth)) /\ walk.at # NoPlace
  BY <1>2 DEF Sound, WalkInv
<1> QED BY <1>1, <1>2, <1>4, <1>5

\* safe_traverse returns its descriptor.
LEMMA OpenedStep == ASSUME Sound, Opened PROVE Sound'
<1>1. /\ Now \in {"open", "create"} /\ fd' = walk.at /\ walk' = StartWalk /\ Advance
      /\ UNCHANGED <<file, job>>
  BY DEF Opened
<1>2. /\ code # <<>> /\ Doing = Now
      /\ walk.at = Resolve(Here.path) /\ walk.at # NoPlace
  BY ArrivedFacts DEF Opened
<1>3. Doing \notin Mounting
  BY <1>1, <1>2 DEF Mounting
<1> QED BY <1>1, <1>2, <1>3, CallStep

\* ensure_path_matches_fd passes.
LEMMA RecheckedStep == ASSUME Sound, Rechecked, ~Fail PROVE Sound'
<1>1. /\ Now \in {"recheck", "verify"} /\ fd' = fd /\ walk' = StartWalk /\ Advance
      /\ UNCHANGED <<file, job>>
  BY DEF Rechecked
<1>2. code # <<>> /\ Doing = Now
  BY ArrivedFacts DEF Rechecked
<1>3. Doing \notin Mounting
  BY <1>1, <1>2 DEF Mounting
<1>4. Doing \in {"open", "create", "recheck"} => fd' = Resolve(Here.path) /\ fd' # NoPlace
  <2>1. FdInv
    BY DEF Sound
  <2>2. Doing = "recheck" => Doing \in Uses
    BY DEF Uses
  <2> QED BY <1>1, <1>2, <2>1, <2>2 DEF FdInv
<1> QED BY <1>1, <1>2, <1>3, <1>4, CallStep

\* unshare_namespaces and make_root_private.
LEMMA NamespaceStep == ASSUME Sound, Unshare \/ MakeRootPrivate PROVE Sound'
<1>1. Doing \in {"unshare", "rootprivate"} /\ code # <<>> /\ Advance /\ UNCHANGED <<file, job, walk>>
  BY DEF Unshare, MakeRootPrivate, Now, Doing
<1>2. walk' = StartWalk
  <2>1. Doing \notin Walks
    BY <1>1 DEF Walks
  <2> QED BY <1>1, <2>1 DEF Sound, WalkInv
<1> QED BY <1>1, <1>2, CallStep DEF Mounting

\* The self-bind of apply_readonly_mounts and pin_path_at_fd.
LEMMA BindMountStep == ASSUME Sound, Bind, ~Fail PROVE Sound'
<1>1. Doing = "bind"
  BY DEF Bind, Now, Doing
<1>2. Mounted(SelfBind(fd)) /\ fresh' = fresh
  BY DEF Bind
<1> QED BY <1>1, <1>2, BindStep, RootBindStep

(***************************************************************************)
(* Init and Next                                                           *)
(***************************************************************************)

\* Nobody replaced an entry; the invariant of the setup. An argument "/"
\* covers every path, so that nothing is claimed of it.
Quiet == swaps = 0
SetupInv ==
    /\ swaps \in Nat /\ job \in Jobs
    /\ status = "exec" => code = <<>>
    /\ Quiet => Sound

\* The disk and the host's mounts, before anything is made or mounted.
LEMMA HostFacts ==
    /\ Entries(Disk) /\ Closed(Disk) /\ Hung(HostMounts)
    /\ Known(Disk, HostMounts, FirstNew) /\ RootShown(HostMounts)
<1>1. Entries(Disk) /\ Closed(Disk) /\ \A e \in DOMAIN Disk : e[1].id < FirstNew /\ Disk[e].id < FirstNew
  BY DiskAssumption DEF Entries, Closed, OnDisk
<1>0. HostMounts \in Seq(MountRecord)
  BY HostAssumption DEF MountRecord
<1>2. \A k \in DOMAIN HostMounts :
          /\ k \in Nat \ {0} /\ HostMounts[k] \in MountRecord
          /\ HostMounts[k].mnt < k /\ HostMounts[k].mnt \in DOMAIN HostMounts \cup {0}
          /\ HostMounts[k].at.id < FirstNew /\ HostMounts[k].root.id < FirstNew
          /\ HostMounts[k].at # Root
  <2> TAKE k \in DOMAIN HostMounts
  <2>1. HostMounts[k].mnt < k /\ OnDisk(HostMounts[k].at) /\ OnDisk(HostMounts[k].root) /\ HostMounts[k].at # Root
    BY HostAssumption
  <2>2. k \in 1 .. Len(HostMounts) /\ Len(HostMounts) \in Nat /\ HostMounts[k] \in MountRecord
    BY <1>0
  <2>3. HostMounts[k].mnt \in Nat
    BY <2>2 DEF MountRecord
  <2>4. HostMounts[k].mnt \in DOMAIN HostMounts \cup {0}
    BY <1>0, <2>1, <2>2, <2>3
  <2> QED BY <2>1, <2>2, <2>4 DEF OnDisk
<1>3. Hung(HostMounts)
  <2>1. Len(HostMounts) \in Nat /\ DOMAIN HostMounts \subseteq 1 .. Len(HostMounts)
    BY <1>0
  <2>2. \A i, k \in DOMAIN HostMounts :
            HostMounts[i].mnt = HostMounts[k].mnt /\ HostMounts[i].at = HostMounts[k].at => i = k
    BY HostAssumption
  <2> QED BY <1>2, <2>1, <2>2 DEF Hung
<1>4. FirstNew \in Nat /\ Root.id < FirstNew
  BY DiskFacts DEF FirstNew
<1> QED BY <1>1, <1>2, <1>3, <1>4 DEF Known, RootShown

\* The paths that entries and host mounts lead to, and no others.
HostLeads(C) ==
    /\ <<Root, <<>>>> \in C
    /\ \A e \in DOMAIN Disk : \A p \in Seq(Names) :
           <<e[1], p>> \in C => <<Disk[e], Append(p, e[2])>> \in C
    /\ \A k \in DOMAIN HostMounts : \A p \in Seq(Names) :
           <<HostMounts[k].at, p>> \in C => <<HostMounts[k].root, p>> \in C
HostLabels == {x \in Inode \X Seq(Names) :
                  \A C \in SUBSET (Inode \X Seq(Names)) : HostLeads(C) => x \in C}

\* Every file has one entry or one mount that leads to it, so one path.
LEMMA HostLabelled == Labels(Disk, HostMounts, HostLabels)
<1> DEFINE L == HostLabels
           U == Inode \X Seq(Names)
<1>1. \A e \in DOMAIN Disk : /\ e \in Inode \X Names /\ e[1] \in Inode /\ e[2] \in Names /\ Disk[e] \in Inode
                            /\ Disk[e] # Root /\ \A f \in DOMAIN Disk : Disk[e] = Disk[f] => e = f
                            /\ \A k \in DOMAIN HostMounts : Disk[e] # HostMounts[k].root
  BY DiskAssumption, HostAssumption DEF OnDisk
<1>2. \A k \in DOMAIN HostMounts :
          /\ HostMounts[k].at \in Inode /\ HostMounts[k].root \in Inode /\ HostMounts[k].root # Root
          /\ HostMounts[k].at.fs = "disk"
          /\ \A i \in DOMAIN HostMounts : HostMounts[i].root = HostMounts[k].root => i = k
  <2> TAKE k \in DOMAIN HostMounts
  <2>1. OnDisk(HostMounts[k].at) /\ OnDisk(HostMounts[k].root) /\ HostMounts[k].root # Root
    BY HostAssumption
  <2>2. \A i \in DOMAIN HostMounts \ {k} : HostMounts[i].root # HostMounts[k].root
    BY HostAssumption
  <2> QED BY <2>1, <2>2 DEF OnDisk
<1>3. <<Root, <<>>>> \in U
  <2>1. Root \in Inode /\ <<>> \in Seq(Names)
    BY DiskAssumption DEF OnDisk
  <2> QED BY <2>1
<1>4. \A p \in Seq(Names), c \in Names : Append(p, c) \in Seq(Names)
  BY Longer
<1>5. \A C \in SUBSET U : HostLeads(C) => L \subseteq C
  BY DEF HostLabels
<1>6. L \in SUBSET U
  BY DEF HostLabels
<1>7. HostLeads(L)
  <2>1. <<Root, <<>>>> \in L
    BY <1>3 DEF HostLabels, HostLeads
  <2>2. ASSUME NEW e \in DOMAIN Disk, NEW p \in Seq(Names), <<e[1], p>> \in L
        PROVE  <<Disk[e], Append(p, e[2])>> \in L
    <3>1. <<Disk[e], Append(p, e[2])>> \in U
      BY <1>1, <1>4
    <3>2. ASSUME NEW C \in SUBSET U, HostLeads(C) PROVE <<Disk[e], Append(p, e[2])>> \in C
      <4>1. <<e[1], p>> \in C
        BY <1>5, <2>2, <3>2
      <4> QED BY <3>2, <4>1 DEF HostLeads
    <3> QED BY <3>1, <3>2 DEF HostLabels
  <2>3. ASSUME NEW k \in DOMAIN HostMounts, NEW p \in Seq(Names), <<HostMounts[k].at, p>> \in L
        PROVE  <<HostMounts[k].root, p>> \in L
    <3>1. <<HostMounts[k].root, p>> \in U
      BY <1>2
    <3>2. ASSUME NEW C \in SUBSET U, HostLeads(C) PROVE <<HostMounts[k].root, p>> \in C
      <4>1. <<HostMounts[k].at, p>> \in C
        BY <1>5, <2>3, <3>2
      <4> QED BY <3>2, <4>1 DEF HostLeads
    <3> QED BY <3>1, <3>2 DEF HostLabels
  <2> QED BY <2>1, <2>2, <2>3 DEF HostLeads
<1> HIDE DEF L
<1> DEFINE ByEntry(i, p) == \E e \in DOMAIN Disk : \E q \in Seq(Names) :
                                Disk[e] = i /\ <<e[1], q>> \in L /\ p = Append(q, e[2])
           ByMount(i, p) == \E k \in DOMAIN HostMounts : HostMounts[k].root = i /\ <<HostMounts[k].at, p>> \in L
           Come(i, p) == (i = Root /\ p = <<>>) \/ ByEntry(i, p) \/ ByMount(i, p)
<1>8. ASSUME NEW i, NEW p, <<i, p>> \in L PROVE Come(i, p)
  <2> DEFINE C == {x \in L : Come(x[1], x[2])}
  <2>1. \A j, q : <<j, q>> \in C <=> <<j, q>> \in L /\ Come(j, q)
    OBVIOUS
  <2>2. C \in SUBSET U
    BY <1>6
  <2> HIDE DEF C
  <2>3. HostLeads(C)
    <3>1. <<Root, <<>>>> \in C
      BY <1>7, <2>1 DEF HostLeads
    <3>2. \A e \in DOMAIN Disk : \A q \in Seq(Names) : <<e[1], q>> \in C => <<Disk[e], Append(q, e[2])>> \in C
      BY <1>7, <2>1 DEF HostLeads
    <3>3. \A k \in DOMAIN HostMounts : \A q \in Seq(Names) :
              <<HostMounts[k].at, q>> \in C => <<HostMounts[k].root, q>> \in C
      BY <1>7, <2>1 DEF HostLeads
    <3> QED BY <3>1, <3>2, <3>3 DEF HostLeads
  <2>4. <<i, p>> \in C
    BY <1>5, <1>8, <2>2, <2>3
  <2> QED BY <2>1, <2>4
<1> DEFINE C == {x \in L : \A q : <<x[1], q>> \in L => q = x[2]}
<1>9. \A i, p : <<i, p>> \in C <=> <<i, p>> \in L /\ \A q : <<i, q>> \in L => q = p
  OBVIOUS
<1>10. C \in SUBSET U
  BY <1>6
<1> HIDE DEF C
<1>11. HostLeads(C)
  <2>1. <<Root, <<>>>> \in C
    <3>1. ASSUME NEW q, <<Root, q>> \in L PROVE q = <<>>
      <4>1. Come(Root, q)
        BY <1>8, <3>1
      <4> QED BY <1>1, <1>2, <4>1
    <3> QED BY <1>7, <1>9, <3>1 DEF HostLeads
  <2>2. ASSUME NEW e \in DOMAIN Disk, NEW p \in Seq(Names), <<e[1], p>> \in C
        PROVE  <<Disk[e], Append(p, e[2])>> \in C
    <3>1. <<e[1], p>> \in L /\ \A q : <<e[1], q>> \in L => q = p
      BY <1>9, <2>2
    <3>2. <<Disk[e], Append(p, e[2])>> \in L
      BY <1>7, <3>1 DEF HostLeads
    <3>3. ASSUME NEW q, <<Disk[e], q>> \in L PROVE q = Append(p, e[2])
      <4>1. Come(Disk[e], q)
        BY <1>8, <3>3
      <4>2. ByEntry(Disk[e], q)
        BY <1>1, <4>1
      <4>3. PICK f \in DOMAIN Disk, v \in Seq(Names) :
                Disk[f] = Disk[e] /\ <<f[1], v>> \in L /\ q = Append(v, f[2])
        BY <4>2
      <4>4. f = e
        BY <1>1, <4>3
      <4> QED BY <3>1, <4>3, <4>4
    <3> QED BY <1>9, <3>2, <3>3
  <2>3. ASSUME NEW k \in DOMAIN HostMounts, NEW p \in Seq(Names), <<HostMounts[k].at, p>> \in C
        PROVE  <<HostMounts[k].root, p>> \in C
    <3>1. <<HostMounts[k].at, p>> \in L /\ \A q : <<HostMounts[k].at, q>> \in L => q = p
      BY <1>9, <2>3
    <3>2. <<HostMounts[k].root, p>> \in L
      BY <1>7, <3>1 DEF HostLeads
    <3>3. ASSUME NEW q, <<HostMounts[k].root, q>> \in L PROVE q = p
      <4>1. Come(HostMounts[k].root, q)
        BY <1>8, <3>3
      <4>2. ByMount(HostMounts[k].root, q)
        BY <1>1, <1>2, <4>1
      <4>3. PICK i \in DOMAIN HostMounts : HostMounts[i].root = HostMounts[k].root /\ <<HostMounts[i].at, q>> \in L
        BY <4>2
      <4>4. i = k
        BY <1>2, <4>3
      <4> QED BY <3>1, <4>3, <4>4
    <3> QED BY <1>9, <3>2, <3>3
  <2> QED BY <2>1, <2>2, <2>3 DEF HostLeads
<1>12. \A i : \A p, q \in Seq(Names) : <<i, p>> \in L /\ <<i, q>> \in L => p = q
  BY <1>5, <1>9, <1>10, <1>11
<1>13. Labels(Disk, HostMounts, L)
  BY <1>2, <1>7, <1>12 DEF Labels, HostLeads
<1> QED BY <1>13 DEF L

\* It holds at the start.
LEMMA SetupInit == Init => SetupInv
<1> SUFFICES ASSUME Init PROVE SetupInv
  OBVIOUS
<1>1. /\ entry = Disk /\ mounts = HostMounts /\ fresh = FirstNew /\ job \in Jobs
      /\ plan = StartPlan(job) /\ code = Program("namespace")
      /\ walk = StartWalk /\ fd = NoPlace /\ swaps = 0 /\ status = "setup"
  BY DEF Init, StartPlan
<1>2. ASSUME Quiet PROVE Sound
  <2>1. Starts(job, plan)
    BY <1>1, <1>2, PlanStarts DEF Quiet
  <2>2. plan \in Seq(Planned(job)) /\ plan # <<>> /\ Head(plan).op = "namespace"
    BY <2>1 DEF Starts
  <2>3. code = <<"unshare", "rootprivate">> /\ code # <<>> /\ Doing = "unshare" /\ Here.op = "namespace"
    BY <1>1, <2>2 DEF Program, Doing, Here
  <2>4. PlanInv
    BY <1>1, <2>2, <2>3 DEF PlanInv, Rest
  <2>10. TreeInv
    BY <1>1, HostFacts, HostLabelled DEF TreeInv, Labelled
  <2>11. WalkInv /\ FdInv
    BY <1>1, <2>3 DEF WalkInv, FdInv, Walks, Uses
  <2>12. PhaseInv
    <3>1. code \notin AfterBind
      BY <2>3, AfterBindFacts
    <3> QED BY <3>1 DEF PhaseInv
  <2>13. MaskInv /\ ReadOnlyInv
    BY <2>1 DEF MaskInv, ReadOnlyInv, Starts
  <2> QED BY <2>4, <2>10, <2>11, <2>12, <2>13 DEF Sound
<1> QED BY <1>1, <1>2 DEF SetupInv

\* Every step of the wrapper keeps Sound.
LEMMA SoundNext == ASSUME Sound, Wrapper PROVE Sound'
<1>1. CASE Fail
  BY <1>1, StillStep DEF Fail, progress
<1>2. CASE OpenComponent /\ ~Fail
  BY <1>2, OpenStep
<1>3. CASE MissComponent /\ ~Fail
  BY <1>3, MissStep
<1>4. CASE MakeComponent
  BY <1>4, MakeStep
<1>5. CASE Opened
  BY <1>5, OpenedStep
<1>6. CASE Rechecked /\ ~Fail
  BY <1>6, RecheckedStep
<1>7. CASE Unshare \/ MakeRootPrivate
  BY <1>7, NamespaceStep
<1>8. CASE MountTmpfs
  BY <1>8, TmpfsStep
<1>9. CASE MountNull
  BY <1>9, NullStep
<1>10. CASE Bind /\ ~Fail
  BY <1>10, BindMountStep
<1>11. CASE BindParent
  BY <1>11, ParentStep
<1>12. CASE RemountReadOnly /\ ~Fail
  BY <1>12, RemountStep
<1>13. CASE DropBounding \/ CapSet \/ Exec \/ Refuse
  BY <1>13, StillStep DEF DropBounding, CapSet, Exec, Refuse, progress
<1> QED BY <1>1, <1>2, <1>3, <1>4, <1>5, <1>6, <1>7, <1>8, <1>9, <1>10, <1>11, <1>12, <1>13
     DEF Wrapper, Progress

\* The wrapper replaces nothing.
LEMMA WrapperKeeps == ASSUME Wrapper PROVE job' = job /\ swaps' = swaps
BY DEF Wrapper, Progress, OpenComponent, MissComponent, MakeComponent, Opened, Rechecked, Unshare,
       MakeRootPrivate, MountTmpfs, MountNull, Bind, BindParent, RemountReadOnly, DropBounding, CapSet,
       Exec, Refuse, Fail, Moving, Mounted, progress, others

\* The command is executed only when no system call is left.
LEMMA ExecLast == ASSUME Wrapper, status = "exec" => code = <<>> PROVE status' = "exec" => code' = <<>>
<1>1. CASE Fail
  BY <1>1 DEF Fail
<1>2. CASE Exec
  BY <1>2 DEF Exec, Isolated, progress
<1>3. CASE DropBounding \/ CapSet
  BY <1>3 DEF DropBounding, CapSet, progress
<1>4. CASE Refuse
  BY <1>4 DEF Refuse
<1>5. CASE ~Fail /\ (OpenComponent \/ MissComponent \/ MakeComponent \/ Opened \/ Rechecked)
  BY <1>5 DEF OpenComponent, MissComponent, MakeComponent, Opened, Rechecked, Walking, Arrived, Now, Walks, Moving
<1>6. CASE ~Fail /\ (Unshare \/ MakeRootPrivate)
  BY <1>6 DEF Unshare, MakeRootPrivate, Now, Moving
<1>7. CASE ~Fail /\ (MountTmpfs \/ MountNull \/ Bind \/ BindParent \/ RemountReadOnly)
  BY <1>7 DEF MountTmpfs, MountNull, Bind, BindParent, RemountReadOnly, Mounted, Now, Moving
<1> QED BY <1>1, <1>2, <1>3, <1>4, <1>5, <1>6, <1>7 DEF Wrapper, Progress

\* So every step keeps the invariant.
LEMMA SetupNext == SetupInv /\ [Next]_vars => SetupInv'
<1> SUFFICES ASSUME SetupInv, [Next]_vars PROVE SetupInv'
  OBVIOUS
<1>1. CASE Wrapper
  <2>1. job' = job /\ swaps' = swaps
    BY <1>1, WrapperKeeps
  <2>2. status' = "exec" => code' = <<>>
    BY <1>1, ExecLast DEF SetupInv
  <2>3. Quiet' => Quiet
    BY <2>1 DEF Quiet, PinPaths
  <2>4. Quiet => Sound'
    BY <1>1, SoundNext DEF SetupInv
  <2> QED BY <2>1, <2>2, <2>3, <2>4 DEF SetupInv
<1>2. ASSUME NEW slot, NEW i, Swap(slot, i) PROVE SetupInv'
  <2>1. swaps' = swaps + 1 /\ swaps \in Nat /\ job' = job /\ status' = status /\ code' = code
    BY <1>2 DEF Swap, SetupInv, progress
  <2>2. swaps' \in Nat /\ swaps' # 0
    BY <2>1
  <2>3. ~Quiet'
    BY <2>2 DEF Quiet
  <2>4. job' \in Jobs /\ (status' = "exec" => code' = <<>>)
    BY <2>1 DEF SetupInv
  <2> QED BY <2>2, <2>3, <2>4 DEF SetupInv
<1>3. CASE UNCHANGED vars
  <2>1. UNCHANGED <<file, job, plan, code, walk, fd, swaps, status>>
    BY <1>3 DEF vars, progress, others
  <2>2. Quiet' => Quiet
    BY <2>1 DEF Quiet, PinPaths
  <2>3. Quiet => Sound'
    BY <2>1, StillStep DEF SetupInv
  <2> QED BY <2>1, <2>2, <2>3 DEF SetupInv
<1> QED BY <1>1, <1>2, <1>3 DEF Next

\* The invariant holds in every state.
LEMMA SetupAlways == Spec => []SetupInv
<1>1. Init => SetupInv
  BY SetupInit
<1>2. SetupInv /\ [Next]_vars => SetupInv'
  BY SetupNext
<1> QED BY <1>1, <1>2, PTL DEF Spec

\* At exec no operation is left, so that every path to be masked is guarded.
LEMMA MasksHold == SetupInv => MasksStay
<1> SUFFICES ASSUME SetupInv, Executed, swaps = 0,
                    NEW p \in Listed(job.blocked) \cup Listed(job.private), Uncovered(p)
             PROVE  Masked(p)
  BY DEF MasksStay
<1>1. job \in Jobs /\ code = <<>>
  BY DEF SetupInv, Executed
<1>2. p \in Listable /\ p # <<>> /\ p \in Paths /\ p \in Seq(Names)
  <2>1. job.blocked \in Seq(Listable \ {<<>>}) /\ job.private \in Seq(Listable \ {<<>>})
    BY <1>1, JobFacts
  <2>2. p \in Listable /\ p # <<>>
    BY <2>1 DEF Listed
  <2> QED BY <2>2, PathFacts
<1>4. Sound
  BY DEF SetupInv, Quiet
<1>5. plan = <<>>
  <2>1. plan # <<>> => code \in Rest(Here.op) /\ plan \in Seq(Planned(job))
    BY <1>4 DEF Sound, PlanInv
  <2>2. plan # <<>> => Here.op \in Ops
    BY <2>1 DEF Here, Planned, Operation
  <2> QED BY <1>1, <2>1, <2>2, CallFacts DEF Calls
<1>6. Guarded(entry, mounts, p, FALSE)
  <2>1. \A o : ~Includes(plan, o, p)
    BY <1>5, NoMounts DEF Includes
  <2> QED BY <1>4, <2>1 DEF Sound, MaskInv
<1>7. PICK w : Guards(entry, mounts, w, p, FALSE)
  BY <1>6 DEF Guarded
<1>8. Fine(mounts, ResolveIn(entry, mounts, p), FALSE)
  BY <1>2, <1>7 DEF Guards
<1> QED BY <1>8 DEF Fine, Masked, Resolve

\* Nor is any left for a path to be read-only; the guard covers its entries.
LEMMA ReadOnlyHolds == SetupInv => ReadOnlyStays
<1> SUFFICES ASSUME SetupInv, Executed, swaps = 0, NEW q \in Listed(job.readonly),
                    \A k \in DOMAIN job.pins : ~Beneath(q, job.pins[k].path),
                    NEW x \in {Resolve(q)} \cup {Enter(Resolve(q), n) : n \in Names},
                    x.ino.fs = "disk"
             PROVE  ReadOnly(x.mnt)
  BY DEF ReadOnlyStays
<1>1. job \in Jobs /\ code = <<>>
  BY DEF SetupInv, Executed
<1>2. q \in Listable /\ q # <<>> /\ q \in Paths /\ q \in Seq(Names)
  <2>1. job.readonly \in Seq(Listable \ {<<>>})
    BY <1>1, JobFacts
  <2>2. q \in Listable /\ q # <<>>
    BY <2>1 DEF Listed
  <2> QED BY <2>2, PathFacts
<1>3. Unpinned(q)
  BY DEF Unpinned, PinPaths
<1>5. Sound
  BY DEF SetupInv, Quiet
<1>6. plan = <<>>
  <2>1. plan # <<>> => code \in Rest(Here.op) /\ plan \in Seq(Planned(job))
    BY <1>5 DEF Sound, PlanInv
  <2>2. plan # <<>> => Here.op \in Ops
    BY <2>1 DEF Here, Planned, Operation
  <2> QED BY <1>1, <2>1, <2>2, CallFacts DEF Calls
<1>7. code \notin AfterBind
  BY <1>1, AfterBindFacts
<1>8. Guarded(entry, mounts, q, TRUE)
  <2>1. \A o : ~Includes(plan, o, q)
    BY <1>6, NoMounts DEF Includes
  <2> QED BY <1>3, <1>5, <1>7, <2>1 DEF Sound, ReadOnlyInv, Rebinding
<1>9. PICK w : Guards(entry, mounts, w, q, TRUE)
  BY <1>8 DEF Guarded
<1>10. w \in Seq(Names) /\ IsPrefix(w, q)
  BY <1>9 DEF Guards
<1>11. Fine(mounts, x, TRUE)
  <2>1. CASE x = Resolve(q)
    <3>1. Fine(mounts, ResolveIn(entry, mounts, q), TRUE)
      BY <1>2, <1>9 DEF Guards
    <3> QED BY <2>1, <3>1 DEF Resolve
  <2>2. ASSUME NEW n \in Names, x = Enter(Resolve(q), n) PROVE Fine(mounts, x, TRUE)
    <3>1. Append(q, n) \in Paths
      <4>1. Append(q, n) \in Seq(Names) /\ Len(Append(q, n)) = Len(q) + 1 /\ Len(q) \in Nat
        BY <1>2, Longer
      <4>2. Len(q) <= MaxDepth
        BY <1>2, PathFacts
      <4>3. Len(Append(q, n)) <= MaxDepth + 1
        BY <4>1, <4>2, MaxDepthAssumption
      <4> QED BY <4>1, <4>3, PathFacts
    <3>2. IsPrefix(w, Append(q, n))
      BY <1>2, <1>10, PrefixLonger
    <3>3. Fine(mounts, ResolveIn(entry, mounts, Append(q, n)), TRUE)
      BY <1>9, <3>1, <3>2 DEF Guards
    <3>4. ResolveIn(entry, mounts, Append(q, n)) = EnterIn(entry, mounts, ResolveIn(entry, mounts, q), n)
      BY <1>2, <1>5, ResolveFacts DEF Sound, TreeInv
    <3> QED BY <2>2, <3>3, <3>4 DEF Enter, Resolve
  <2> QED BY <2>1, <2>2
<1> QED BY <1>11 DEF Fine, ReadOnly

\* Every blocked and private path that no later bind of an ancestor covers
\* shows nothing of the disk to the command, whatever the policy lists and in
\* whatever order the mounts, pins and recursive binds of
\* setup_isolation and pin_validated_path_arguments nest, for every disk and
\* whatever the host has mounted on it.
THEOREM MasksStayTheorem == Spec => []MasksStay
BY SetupAlways, MasksHold, PTL

\* Every read-only path, and every entry in it, is read-only for the command
\* as far as anything of the disk is visible there, although other binds are
\* made on, above and inside it afterwards.
THEOREM ReadOnlyStaysTheorem == Spec => []ReadOnlyStays
BY SetupAlways, ReadOnlyHolds, PTL

(***************************************************************************)
(* What paths led to when the arguments were validated                     *)
(***************************************************************************)

\* What is on top of a place is it, or younger than its mount.
LEMMA TopHigher ==
    ASSUME NEW M, Hung(M), NEW l \in Place
    PROVE  TopIn(M, l) = l \/ (TopIn(M, l).mnt > l.mnt /\ TopIn(M, l).mnt \in Nat)
<1> DEFINE S == {x \in Place : x = l \/ x.mnt > l.mnt}
<1>1. l \in S /\ l.mnt \in Nat
  BY DEF Place
<1>2. \A x \in Place, k \in DOMAIN M : x \in S /\ Hangs(M, k, x) => Shown(M, k) \in S
  <2> SUFFICES ASSUME NEW x \in Place, NEW k \in DOMAIN M, x \in S, Hangs(M, k, x) PROVE Shown(M, k) \in S
    OBVIOUS
  <2>1. Shown(M, k) \in Place /\ Shown(M, k).mnt = k /\ k \in Nat /\ M[k].mnt < k /\ M[k].mnt \in Nat
    BY HungFacts
  <2>2. x.mnt \in Nat /\ x.mnt >= l.mnt /\ M[k].mnt = x.mnt
    BY <1>1 DEF Place, Hangs
  <2> QED BY <1>1, <2>1, <2>2
<1> HIDE DEF S
<1>3. TopIn(M, l) \in S
  BY <1>1, <1>2, TopInduction
<1> QED BY <1>3 DEF S, Place

\* A path that was there led, component by component, to a file of the disk, on
\* its directory's mount or on a younger one.
LEMMA OriginalFacts ==
    /\ Original(<<>>) = Root
    /\ \A p \in Seq(Names) : Original(p) # Nowhere => OnDisk(Original(p)) /\ Original(p) \in Inode /\ HostMount(p) \in Nat
    /\ \A p \in Seq(Names) : Original(p) # Nowhere <=> ResolveIn(Disk, HostMounts, p) # NoPlace
    /\ \A p \in Seq(Names), c \in Names : LET e == <<Original(p), c>> IN
          /\ Original(Append(p, c)) # Nowhere <=> e \in DOMAIN Disk
          /\ e \in DOMAIN Disk =>
                /\ Original(p) # Nowhere
                /\ HostMount(p) <= HostMount(Append(p, c))
                /\ HostMount(p) = HostMount(Append(p, c)) => Original(Append(p, c)) = Disk[e]
<1> DEFINE R(p) == ResolveIn(Disk, HostMounts, p)
<1>1. Entries(Disk) /\ Hung(HostMounts)
  BY HostFacts
<1>2. \A p : Original(p) = R(p).ino /\ HostMount(p) = R(p).mnt
  BY DEF Original, HostMount
<1>3. /\ R(<<>>) = RootPlace
      /\ \A p \in Seq(Names) : R(p) \in Spot
      /\ \A p \in Seq(Names), c \in Names : R(Append(p, c)) = EnterIn(Disk, HostMounts, R(p), c)
  BY <1>1, ResolveFacts
<1> HIDE DEF R
<1>4. \A p \in Seq(Names) : /\ R(p) # NoPlace => R(p) \in Place /\ R(p).ino \in Inode /\ R(p).mnt \in Nat
                            /\ R(p).ino # Nowhere <=> R(p) # NoPlace
  BY <1>3, SpotFacts DEF NoPlace, Place
<1>5. ASSUME NEW p \in Seq(Names), NEW c \in Names
      PROVE  LET e == <<R(p).ino, c>>
                 l == [mnt |-> R(p).mnt, ino |-> Disk[e]]
             IN  /\ R(Append(p, c)) # NoPlace <=> e \in DOMAIN Disk
                 /\ e \in DOMAIN Disk => /\ R(p) # NoPlace /\ l \in Place /\ R(Append(p, c)) = TopIn(HostMounts, l)
                                         /\ R(p).mnt <= R(Append(p, c)).mnt
                                         /\ R(p).mnt = R(Append(p, c)).mnt => R(Append(p, c)).ino = Disk[e]
  <2> DEFINE e == <<R(p).ino, c>>
             l == [mnt |-> R(p).mnt, ino |-> Disk[e]]
  <2>1. /\ R(Append(p, c)) # NoPlace <=> e \in DOMAIN Disk
        /\ e \in DOMAIN Disk => R(p) \in Place /\ l \in Place /\ R(Append(p, c)) = TopIn(HostMounts, l)
    BY <1>1, <1>3, EnterFacts
  <2>2. e \in DOMAIN Disk => R(p) # NoPlace
    BY <2>1, SpotFacts
  <2>3. ASSUME e \in DOMAIN Disk
        PROVE  /\ R(p).mnt <= R(Append(p, c)).mnt
               /\ R(p).mnt = R(Append(p, c)).mnt => R(Append(p, c)).ino = Disk[e]
    <3>1. l.mnt = R(p).mnt /\ R(p).mnt \in Nat /\ l.ino = Disk[e]
      BY <2>1, <2>3 DEF Place
    <3>2. R(Append(p, c)) = l \/ (R(Append(p, c)).mnt > l.mnt /\ R(Append(p, c)).mnt \in Nat)
      BY <1>1, <2>1, <2>3, TopHigher
    <3> HIDE DEF l, e
    <3> QED BY <3>1, <3>2
  <2> HIDE DEF R
  <2> QED BY <2>1, <2>2, <2>3
<1>6. \A p \in Seq(Names) : R(p) # NoPlace => OnDisk(R(p).ino)
  <2>1. OnDisk(Root) /\ (\A e \in DOMAIN Disk : OnDisk(Disk[e])) /\ \A k \in DOMAIN HostMounts : OnDisk(HostMounts[k].root)
    BY DiskAssumption, HostAssumption
  <2> SUFFICES ASSUME NEW p \in Seq(Names), R(p) # NoPlace PROVE OnDisk(R(p).ino)
    OBVIOUS
  <2>2. CASE p = <<>>
    BY <1>3, <2>1, <2>2 DEF RootPlace
  <2>3. CASE p # <<>>
    <3>1. PICK q \in Seq(Names), c \in Names : p = Append(q, c)
      BY <2>3, LastComponent, SMTT(30)
    <3> DEFINE l == [mnt |-> R(q).mnt, ino |-> Disk[<<R(q).ino, c>>]]
               S == {x \in Place : OnDisk(x.ino)}
    <3>2. l \in Place /\ <<R(q).ino, c>> \in DOMAIN Disk /\ R(p) = TopIn(HostMounts, l)
      BY <1>5, <3>1
    <3>3. l \in S
      BY <2>1, <3>2
    <3>4. \A x \in Place, k \in DOMAIN HostMounts : x \in S /\ Hangs(HostMounts, k, x) => Shown(HostMounts, k) \in S
      <4> TAKE x \in Place, k \in DOMAIN HostMounts
      <4>1. Shown(HostMounts, k) \in Place /\ Shown(HostMounts, k).ino = HostMounts[k].root
        BY <1>1, HungFacts
      <4> QED BY <2>1, <4>1
    <3> HIDE DEF l, S
    <3>5. TopIn(HostMounts, l) \in S
      BY <1>1, <3>2, <3>3, <3>4, TopInduction
    <3> QED BY <3>2, <3>5 DEF S
  <2> QED BY <2>2, <2>3
<1>7. Original(<<>>) = Root
  BY <1>2, <1>3 DEF RootPlace
<1>8. \A p \in Seq(Names) : Original(p) # Nowhere => OnDisk(Original(p)) /\ Original(p) \in Inode /\ HostMount(p) \in Nat
  BY <1>2, <1>4, <1>6
<1>9. \A p \in Seq(Names) : Original(p) # Nowhere <=> ResolveIn(Disk, HostMounts, p) # NoPlace
  BY <1>2, <1>4 DEF R
<1>10. ASSUME NEW p \in Seq(Names), NEW c \in Names
       PROVE  LET e == <<Original(p), c>> IN
          /\ Original(Append(p, c)) # Nowhere <=> e \in DOMAIN Disk
          /\ e \in DOMAIN Disk =>
                /\ Original(p) # Nowhere
                /\ HostMount(p) <= HostMount(Append(p, c))
                /\ HostMount(p) = HostMount(Append(p, c)) => Original(Append(p, c)) = Disk[e]
  <2>1. Append(p, c) \in Seq(Names)
    BY Longer
  <2> QED BY <1>2, <1>4, <1>5, <2>1
<1> QED BY <1>7, <1>8, <1>9, <1>10

\* What was there was there component by component, on mounts that are no
\* younger.
LEMMA OriginalAbove ==
    ASSUME NEW p \in Paths, Original(p) # Nowhere, NEW q \in Seq(Names), IsPrefix(q, p)
    PROVE  Original(q) # Nowhere /\ HostMount(q) <= HostMount(p) /\ HostMount(p) \in Nat /\ HostMount(q) \in Nat
<1> DEFINE P == {u \in Paths : Original(u) # Nowhere /\ IsPrefix(q, u) =>
                                   Original(q) # Nowhere /\ HostMount(q) <= HostMount(u)}
<1>1. <<>> \in P
  <2> SUFFICES ASSUME Original(<<>>) # Nowhere, IsPrefix(q, <<>>)
               PROVE  Original(q) # Nowhere /\ HostMount(q) <= HostMount(<<>>)
    BY PathFacts
  <2>1. q = <<>>
    BY PrefixOrder
  <2>2. Original(q) # Nowhere /\ HostMount(q) \in Nat
    BY <2>1, OriginalFacts
  <2>3. HostMount(q) <= HostMount(q)
    BY <2>2
  <2> QED BY <2>1, <2>2, <2>3
<1>2. ASSUME NEW u \in Seq(Names), NEW c \in Names, Append(u, c) \in Paths, u \in P
      PROVE  Append(u, c) \in P
  <2> SUFFICES ASSUME Original(Append(u, c)) # Nowhere, IsPrefix(q, Append(u, c))
               PROVE  Original(q) # Nowhere /\ HostMount(q) <= HostMount(Append(u, c))
    BY <1>2
  <2>1. /\ Original(u) # Nowhere /\ HostMount(u) <= HostMount(Append(u, c))
        /\ HostMount(u) \in Nat /\ HostMount(Append(u, c)) \in Nat
    BY <1>2, PathFacts, OriginalFacts
  <2>2. CASE q = Append(u, c)
    <3>1. HostMount(q) <= HostMount(q)
      BY <2>1, <2>2
    <3> QED BY <2>2, <3>1
  <2>3. CASE IsPrefix(q, u)
    <3>1. Original(q) # Nowhere /\ HostMount(q) <= HostMount(u)
      BY <1>2, <2>1, <2>3
    <3>2. HostMount(q) \in Nat
      BY <3>1, OriginalFacts
    <3> QED BY <2>1, <3>1, <3>2
  <2> QED BY <2>2, <2>3, PrefixLonger
<1> HIDE DEF P
<1>3. \A u \in Paths : u \in P
  BY <1>1, <1>2, PathInduction
<1>4. Original(q) # Nowhere /\ HostMount(q) <= HostMount(p)
  BY <1>3 DEF P
<1>5. p \in Seq(Names)
  BY PathFacts
<1> QED BY <1>4, <1>5, OriginalFacts

(***************************************************************************)
(* A job that can be worked off is: the invariant without interference     *)
(***************************************************************************)

\* What a job masks.
MaskPaths == Listed(job.blocked) \cup Listed(job.private)

\* No private path beneath v is left to be mounted.
Free(s, v) == \A k \in DOMAIN s : s[k].op = "private" => ~Beneath(s[k].path, v)

\* The private paths come first, no path before one above it.
Sorted(s) ==
    \A i, k \in DOMAIN s : i < k /\ s[k].op = "private" =>
        /\ s[i].op \in {"private", "namespace"}
        /\ s[i].op = "private" => ~Beneath(s[k].path, s[i].path)

\* The masks come before the binds.
Masking == {"namespace", "private", "blocked"}
MasksFirst(s) == \A i, k \in DOMAIN s : i < k /\ s[k].op \in Masking => s[i].op \in Masking

\* What is bound without the mounts below it.
BoundPaths == Listed(job.readonly) \cup PinPaths(job)

\* No bind covers a mount of the host on the way along u; as long as masks are
\* left nothing is bound.
Plain(s, u) ==
    \/ \E k \in DOMAIN s : s[k].op \in Masking
    \/ \A q \in BoundPaths, v \in Seq(Names) : IsPrefix(v, u) => ~MountBetween(q, v)

\* The disk has what it had, and what was made is on it and no link.
EntryInv ==
    /\ \A e \in DOMAIN Disk : e \in DOMAIN entry /\ entry[e] = Disk[e]
    /\ \A e \in DOMAIN entry : /\ entry[e].fs = "disk"
                               /\ e \in DOMAIN Disk \/ (entry[e].id >= FirstNew /\ entry[e].kind # "link")
    /\ fresh \in Nat /\ fresh >= FirstNew

\* Nor is what was mounted.
NewRoot(i) == i.fs # "disk" \/ i.id >= FirstNew => i.kind # "link"
RootInv(M) == \A k \in DOMAIN M : NewRoot(M[k].root)

\* What was made on the way to a blocked path is a directory.
MadeInv ==
    \E L : /\ Labels(entry, mounts, L)
           /\ \A i, p : <<i, p>> \in L /\ i.id >= FirstNew /\ i.kind # "dir" => p \in Listed(job.blocked)

\* A place shows the file of the disk that the path led to, or what was made.
Before(u, x) == x.ino = Original(u) \/ (Original(u) = Nowhere /\ x.ino.id >= FirstNew)
AsBefore(M, s) ==
    \A u \in Paths : /\ Plain(s, u) /\ ResolveIn(entry, M, u) # NoPlace
                     /\ ResolveIn(entry, M, u).ino.fs = "disk"
                     => Before(u, ResolveIn(entry, M, u))

\* Nothing is hidden but by a mask, and nothing is gone but below one.
HiddenBy(M, s) ==
    \A u \in Paths : ResolveIn(entry, M, u) # NoPlace /\ ResolveIn(entry, M, u).ino.fs # "disk" =>
        \E v \in MaskPaths : IsPrefix(v, u) /\ Free(s, v)
GoneBelow(M, s) ==
    \A u \in Paths : Plain(s, u) /\ Original(u) # Nowhere /\ ResolveIn(entry, M, u) = NoPlace =>
        \E v \in MaskPaths : IsStrictPrefix(v, u) /\ Free(s, v)
MountsInv(M, s) == RootInv(M) /\ AsBefore(M, s) /\ HiddenBy(M, s) /\ GoneBelow(M, s)

\* A component that was made is there.
AgainInv == Doing \in Walks /\ walk.how = "again" => <<walk.at.ino, Component>> \in DOMAIN entry

\* Between bind and remount, the path shows the root of the new mount.
BoundInv ==
    code \in AfterBind =>
        LET x == Resolve(Here.path)
        IN  first = x.ino /\ x.mnt \in DOMAIN mounts /\ mounts[x.mnt].root = first

Smooth == /\ Sorted(plan) /\ MasksFirst(plan) /\ EntryInv /\ MadeInv
          /\ MountsInv(mounts, plan) /\ AgainInv /\ BoundInv

\* A path that led to no link shows none.
LEMMA NoLink ==
    ASSUME Smooth, Sound, NEW u \in Paths, u # <<>>, Plain(plan, u),
           Resolve(u) # NoPlace, Original(u).kind # "link"
    PROVE  Resolve(u).ino.kind # "link"
<1> DEFINE Old(i) == OnDisk(i)
           Right(i) == OnDisk(i) \/ i.kind # "link"
<1>1. Entries(entry) /\ Hung(mounts) /\ EntryInv /\ RootInv(mounts)
  BY DEF Sound, TreeInv, Smooth, MountsInv
<1>2. Resolve(u) = ResolveIn(entry, mounts, u) /\ u \in Seq(Names)
  BY PathFacts DEF Resolve
<1>3. PICK q \in Seq(Names), c \in Names : u = Append(q, c)
  BY <1>2, LastComponent, SMTT(30)
<1> DEFINE x == ResolveIn(entry, mounts, q)
<1>4. x \in Spot /\ ResolveIn(entry, mounts, u) = EnterIn(entry, mounts, x, c)
  BY <1>1, <1>3, ResolveFacts
<1>5. /\ <<x.ino, c>> \in DOMAIN entry
      /\ [mnt |-> x.mnt, ino |-> entry[<<x.ino, c>>]] \in Place
      /\ EnterIn(entry, mounts, x, c) = TopIn(mounts, [mnt |-> x.mnt, ino |-> entry[<<x.ino, c>>]])
  BY <1>1, <1>2, <1>4, EnterFacts
<1> HIDE DEF x
<1> DEFINE l == [mnt |-> x.mnt, ino |-> entry[<<x.ino, c>>]]
           S == {y \in Place : OnDisk(y.ino) \/ y.ino.kind # "link"}
<1>6. l \in S
  <2>1. <<x.ino, c>> \in DOMAIN Disk => OnDisk(entry[<<x.ino, c>>])
    BY <1>1, DiskAssumption DEF EntryInv
  <2> QED BY <1>1, <1>5, <2>1 DEF EntryInv
<1>7. \A y \in Place, k \in DOMAIN mounts : y \in S /\ Hangs(mounts, k, y) => Shown(mounts, k) \in S
  <2> SUFFICES ASSUME NEW k \in DOMAIN mounts PROVE Shown(mounts, k) \in S
    OBVIOUS
  <2>1. Shown(mounts, k) \in Place /\ Shown(mounts, k).ino = mounts[k].root /\ mounts[k].root \in Inode
    BY <1>1, HungFacts
  <2>2. NewRoot(mounts[k].root)
    BY <1>1 DEF RootInv
  <2>3. OnDisk(mounts[k].root) \/ mounts[k].root.kind # "link"
    BY <2>1, <2>2 DEF NewRoot, OnDisk, Inode, FirstNew
  <2> QED BY <2>1, <2>3
<1>8. l \in Place
  BY <1>5
<1> HIDE DEF S, l
<1>9. TopIn(mounts, l) \in S
  BY <1>1, <1>6, <1>7, <1>8, TopInduction
<1>10. Resolve(u).ino \in Inode /\ (OnDisk(Resolve(u).ino) \/ Resolve(u).ino.kind # "link")
  BY <1>2, <1>4, <1>5, <1>9 DEF S, l, Place
<1> SUFFICES ASSUME OnDisk(Resolve(u).ino) PROVE Resolve(u).ino.kind # "link"
  BY <1>10
<1>11. Before(u, Resolve(u))
  BY <1>2 DEF Smooth, MountsInv, AsBefore, OnDisk
<1>12. Resolve(u).ino = Original(u)
  BY <1>10, <1>11 DEF Before, OnDisk, Inode, FirstNew
<1> QED BY <1>12

\* What leads somewhere does so at every component.
LEMMA ResolvedAbove ==
    ASSUME NEW t, Entries(t), NEW M, Hung(M), NEW p \in Paths, ResolveIn(t, M, p) # NoPlace,
           NEW q \in Seq(Names), IsPrefix(q, p)
    PROVE  ResolveIn(t, M, q) # NoPlace
<1> DEFINE P == {u \in Paths : ResolveIn(t, M, u) # NoPlace /\ IsPrefix(q, u) => ResolveIn(t, M, q) # NoPlace}
<1>1. <<>> \in P
  BY PathFacts, PrefixOrder
<1>2. ASSUME NEW u \in Seq(Names), NEW c \in Names, Append(u, c) \in Paths, u \in P
      PROVE  Append(u, c) \in P
  <2> SUFFICES ASSUME ResolveIn(t, M, Append(u, c)) # NoPlace, IsPrefix(q, Append(u, c))
               PROVE  ResolveIn(t, M, q) # NoPlace
    BY <1>2
  <2>1. CASE q = Append(u, c)
    BY <2>1
  <2>2. CASE IsPrefix(q, u)
    <3>1. ResolveIn(t, M, u) # NoPlace
      BY NothingBeneath
    <3> QED BY <1>2, <2>2, <3>1
  <2> QED BY <2>1, <2>2, PrefixLonger
<1> HIDE DEF P
<1>3. \A u \in Paths : u \in P
  BY <1>1, <1>2, PathInduction
<1> QED BY <1>3 DEF P

\* What is left of a plan stays sorted, and frees no less.
LEMMA TailSorted ==
    ASSUME NEW B, plan \in Seq(B), plan # <<>>, Sorted(plan), MasksFirst(plan),
           plan' = plan \/ plan' = Tail(plan)
    PROVE  /\ Sorted(plan') /\ MasksFirst(plan') /\ \A v : Free(plan, v) => Free(plan', v)
           /\ \A u : Plain(plan', u) => Plain(plan, u)
<1>1. /\ Len(plan) \in Nat /\ Len(plan) >= 1 /\ DOMAIN plan = 1 .. Len(plan)
      /\ DOMAIN Tail(plan) = 1 .. Len(plan) - 1
      /\ \A i \in 1 .. Len(plan) - 1 : Tail(plan)[i] = plan[i + 1]
  OBVIOUS
<1>2. \A i \in DOMAIN Tail(plan) : i \in Nat /\ i + 1 \in DOMAIN plan /\ Tail(plan)[i] = plan[i + 1]
  BY <1>1
<1>3. Sorted(Tail(plan))
  <2> SUFFICES ASSUME NEW i \in DOMAIN Tail(plan), NEW k \in DOMAIN Tail(plan), i < k,
                      Tail(plan)[k].op = "private"
               PROVE  /\ Tail(plan)[i].op \in {"private", "namespace"}
                      /\ Tail(plan)[i].op = "private" => ~Beneath(Tail(plan)[k].path, Tail(plan)[i].path)
    BY DEF Sorted
  <2>1. i + 1 < k + 1
    BY <1>2
  <2> QED BY <1>2, <2>1 DEF Sorted
<1>4. \A v : Free(plan, v) => Free(Tail(plan), v)
  BY <1>2 DEF Free
<1>5. MasksFirst(Tail(plan))
  <2> SUFFICES ASSUME NEW i \in DOMAIN Tail(plan), NEW k \in DOMAIN Tail(plan), i < k,
                      Tail(plan)[k].op \in Masking
               PROVE  Tail(plan)[i].op \in Masking
    BY DEF MasksFirst
  <2>1. i + 1 < k + 1
    BY <1>2
  <2> QED BY <1>2, <2>1 DEF MasksFirst
<1>6. \A u : Plain(Tail(plan), u) => Plain(plan, u)
  BY <1>2 DEF Plain
<1> QED BY <1>3, <1>4, <1>5, <1>6

\* What is masked next hides no private path that is left.
LEMMA HeadFree ==
    ASSUME NEW B, plan \in Seq(B), plan # <<>>, Sorted(plan), Here.op \in {"private", "blocked"}
    PROVE  Free(plan, Here.path)
<1>1. /\ Len(plan) \in Nat /\ Len(plan) >= 1 /\ DOMAIN plan = 1 .. Len(plan) /\ Here = plan[1]
  BY DEF Here
<1> SUFFICES ASSUME NEW k \in DOMAIN plan, plan[k].op = "private" PROVE ~Beneath(plan[k].path, Here.path)
  BY DEF Free
<1>2. CASE k = 1
  BY <1>1, <1>2 DEF Beneath, IsStrictPrefix
<1>3. CASE k # 1
  <2>1. 1 \in DOMAIN plan /\ 1 < k
    BY <1>1, <1>3
  <2>2. plan[1].op = "private" /\ ~Beneath(plan[k].path, plan[1].path)
    BY <1>1, <2>1 DEF Sorted
  <2> QED BY <1>1, <2>2
<1> QED BY <1>2, <1>3

\* The paths a workable job speaks of, and what is above them.
JobPaths == MaskPaths \cup Listed(job.readonly) \cup PinPaths(job)

\* What the conditions of Workable say of the operation in progress.
Sensible ==
    /\ \A q \in Seq(Names) : q # <<>> /\ IsPrefix(q, Here.path) => Original(q).kind # "link"
    /\ Here.op \in {"private", "readonly", "parent", "pin"} => Original(Here.path) # Nowhere
    /\ Here.op = "blocked" => \A q \in Seq(Names) : q # <<>> /\ IsStrictPrefix(q, Here.path) =>
          q \notin MaskPaths /\ Original(q).kind # "file"
    /\ Here.op = "readonly" => \A v \in MaskPaths : ~Beneath(Here.path, v)
    /\ Here.op \in {"parent", "pin"} => \A v \in MaskPaths : ~IsPrefix(v, Here.path)

\* The paths of a job are paths of the model, and what it masks is not "/".
LEMMA MaskPathFacts ==
    ASSUME job \in Jobs
    PROVE  /\ \A v \in MaskPaths : v \in Listable /\ v \in Seq(Names) /\ v # <<>>
           /\ \A p \in JobPaths : p \in Listable /\ p \in Seq(Names)
<1>1. /\ job.private \in Seq(Listable \ {<<>>}) /\ job.blocked \in Seq(Listable \ {<<>>})
      /\ job.readonly \in Seq(Listable \ {<<>>})
      /\ \A k \in DOMAIN job.pins : job.pins[k].path \in Listable
  BY JobFacts DEF JobPin
<1>2. \A s \in Seq(Listable \ {<<>>}) : \A k \in DOMAIN s : s[k] \in Listable \ {<<>>}
  OBVIOUS
<1>3. \A v \in MaskPaths : v \in Listable \ {<<>>}
  BY <1>1, <1>2 DEF MaskPaths, Listed
<1>4. \A p \in JobPaths : p \in Listable
  BY <1>1, <1>2, <1>3 DEF JobPaths, Listed, PinPaths
<1> QED BY <1>3, <1>4, PathFacts

\* What Workable says, list by list.
LEMMA WorkableFacts ==
    ASSUME job \in Jobs, Workable(job)
    PROVE  /\ \A p \in JobPaths, d \in 1 .. MaxDepth : d <= Len(p) => Original(SubSeq(p, 1, d)).kind # "link"
           /\ \A p \in Listed(job.private) : Original(p) # Nowhere
           /\ \A p \in Listed(job.blocked), d \in 1 .. MaxDepth :
                 d < Len(p) => SubSeq(p, 1, d) \notin MaskPaths /\ Original(SubSeq(p, 1, d)).kind # "file"
           /\ \A p \in Listed(job.readonly) : Original(p) # Nowhere /\ \A v \in MaskPaths : ~Beneath(p, v)
           /\ \A p \in PinPaths(job) : \A v \in MaskPaths : ~Under(p, v)
           /\ \A p, q \in BoundPaths : ~MountBetween(q, p)
<1>1. MaskPaths = Listed(job.private) \cup Listed(job.blocked)
  BY DEF MaskPaths
<1>2. JobPaths = (Listed(job.private) \cup Listed(job.blocked)) \cup (Listed(job.readonly) \cup PinPaths(job))
  BY DEF MaskPaths, JobPaths
<1>3. \A p \in JobPaths, d \in 1 .. MaxDepth : d <= Len(p) => Original(SubSeq(p, 1, d)).kind # "link"
  BY <1>2 DEF Workable
<1>4. \A p \in Listed(job.private) : Original(p) # Nowhere
  BY DEF Workable, Exists, Listed
<1>5. \A p \in Listed(job.blocked), d \in 1 .. MaxDepth :
                 d < Len(p) => SubSeq(p, 1, d) \notin MaskPaths /\ Original(SubSeq(p, 1, d)).kind # "file"
  BY <1>1 DEF Workable
<1>6. \A p \in Listed(job.readonly) : Original(p) # Nowhere /\ \A v \in MaskPaths : ~Beneath(p, v)
  BY <1>1 DEF Workable, Exists
<1>7. \A p \in PinPaths(job) : \A v \in MaskPaths : ~Under(p, v)
  BY <1>1 DEF Workable, PinPaths
<1>8. \A p, q \in BoundPaths : ~MountBetween(q, p)
  BY DEF Workable, BoundPaths
<1> QED BY <1>3, <1>4, <1>5, <1>6, <1>7, <1>8

\* The ancestors of a path of the job are no links, and exist if it does.
LEMMA PlannedFacts ==
    ASSUME job \in Jobs, Workable(job), NEW p \in JobPaths, NEW q \in Seq(Names), IsPrefix(q, p)
    PROVE  /\ q # <<>> => /\ Len(q) \in 1 .. MaxDepth /\ Original(q).kind # "link"
                          /\ q = SubSeq(p, 1, Len(q)) /\ Len(q) <= Len(p)
           /\ q # <<>> /\ q # p => Len(q) < Len(p)
<1>1. p \in Seq(Names) /\ Len(p) <= MaxDepth
  BY MaskPathFacts, PathFacts
<1>2. q = SubSeq(p, 1, Len(q)) /\ Len(q) \in 0 .. Len(p)
  BY <1>1, PrefixIsCut
<1>3. q # <<>> => Len(q) \in 1 .. MaxDepth
  BY <1>1, <1>2, MaxDepthAssumption
<1>4. Len(q) = Len(p) => q = p
  <2>1. \A s \in Seq(Names) : SubSeq(s, 1, Len(s)) = s
    OBVIOUS
  <2> QED BY <1>1, <1>2, <2>1
<1>5. q # <<>> => Original(q).kind # "link"
  <2> SUFFICES ASSUME q # <<>> PROVE Original(q).kind # "link"
    OBVIOUS
  <2>1. Len(q) \in 1 .. MaxDepth /\ Len(q) <= Len(p)
    BY <1>2, <1>3
  <2>2. Original(SubSeq(p, 1, Len(q))).kind # "link"
    BY <2>1, WorkableFacts
  <2> QED BY <1>2, <2>2
<1>6. q # p => Len(q) < Len(p)
  BY <1>2, <1>4
<1> QED BY <1>1, <1>2, <1>3, <1>5, <1>6

\* What is pinned was there.
LEMMA PinnedThere ==
    ASSUME job \in Jobs, NEW p \in PinPaths(job)
    PROVE  p \in Paths /\ p \in Seq(Names) /\ Original(p) # Nowhere
<1>1. PICK k \in DOMAIN job.pins : p = job.pins[k].path
  BY DEF PinPaths
<1>2. job.pins[k] \in JobPin /\ job.pins[k].ino = Original(p)
  BY <1>1, JobFacts
<1>3. p \in Listable /\ Original(p) \in Inode
  BY <1>1, <1>2 DEF JobPin
<1> QED BY <1>3, PathFacts, SpotFacts

\* An operation of a workable job is a sensible one.
LEMMA HereSensible ==
    ASSUME PlanInv, code # <<>>, Workable(job), Here.op # "namespace"
    PROVE  Sensible
<1>1. /\ Here \in Planned(job) /\ Here.op \in Ops /\ job \in Jobs
      /\ Here.path \in Seq(Names) /\ Here.path \in Paths
  BY HereFacts DEF PlanInv
<1>2. PICK p \in JobPaths : /\ IsPrefix(Here.path, p) /\ p \in Seq(Names)
                            /\ Here.op # "parent" => p = Here.path
                            /\ Here.op = "private" => p \in Listed(job.private)
                            /\ Here.op = "blocked" => p \in Listed(job.blocked)
                            /\ Here.op = "readonly" => p \in Listed(job.readonly)
                            /\ Here.op \in {"parent", "pin"} => p \in PinPaths(job)
  <2>1. \A p \in JobPaths : p \in Seq(Names)
    BY <1>1, MaskPathFacts
  <2>2. CASE Here.op = "private"
    BY <1>1, <2>1, <2>2, PrefixOrder DEF Planned, JobPaths, MaskPaths
  <2>3. CASE Here.op = "blocked"
    BY <1>1, <2>1, <2>3, PrefixOrder DEF Planned, JobPaths, MaskPaths
  <2>4. CASE Here.op = "readonly"
    BY <1>1, <2>1, <2>4, PrefixOrder DEF Planned, JobPaths
  <2>5. CASE Here.op = "pin"
    BY <1>1, <2>1, <2>5, PrefixOrder DEF Planned, JobPaths
  <2>6. CASE Here.op = "parent"
    BY <1>1, <2>1, <2>6 DEF Planned, JobPaths, IsStrictPrefix
  <2> QED BY <1>1, <2>2, <2>3, <2>4, <2>5, <2>6 DEF Ops
<1>3. \A q \in Seq(Names) : IsPrefix(q, Here.path) => IsPrefix(q, p)
  BY <1>1, <1>2, PrefixOrder
<1>4. \A q \in Seq(Names) : q # <<>> /\ IsPrefix(q, Here.path) => Original(q).kind # "link"
  BY <1>1, <1>3, PlannedFacts
<1>5. Here.op \in {"private", "readonly", "parent", "pin"} => Original(Here.path) # Nowhere
  <2>1. CASE Here.op \in {"private", "readonly"}
    BY <1>1, <1>2, <2>1, WorkableFacts
  <2>2. CASE Here.op \in {"parent", "pin"}
    <3>1. p \in Paths /\ Original(p) # Nowhere
      BY <1>1, <1>2, <2>2, PinnedThere
    <3> QED BY <1>1, <1>2, <3>1, OriginalAbove
  <2> QED BY <2>1, <2>2
<1>6. ASSUME Here.op = "blocked", NEW q \in Seq(Names), q # <<>>, IsStrictPrefix(q, Here.path)
      PROVE  q \notin MaskPaths /\ Original(q).kind # "file"
  <2>1. IsPrefix(q, p) /\ q # p
    BY <1>2, <1>6 DEF IsStrictPrefix
  <2>2. Len(q) \in 1 .. MaxDepth /\ Len(q) < Len(p) /\ q = SubSeq(p, 1, Len(q))
    BY <1>1, <1>6, <2>1, PlannedFacts
  <2>3. p \in Listed(job.blocked)
    BY <1>2, <1>6
  <2>4. SubSeq(p, 1, Len(q)) \notin MaskPaths /\ Original(SubSeq(p, 1, Len(q))).kind # "file"
    BY <1>1, <2>2, <2>3, WorkableFacts
  <2> QED BY <2>2, <2>4
<1>7. Here.op = "readonly" => \A v \in MaskPaths : ~Beneath(Here.path, v)
  BY <1>1, <1>2, WorkableFacts
<1>8. ASSUME Here.op \in {"parent", "pin"}, NEW v \in MaskPaths PROVE ~IsPrefix(v, Here.path)
  <2>1. ~Under(p, v)
    BY <1>1, <1>2, <1>8, WorkableFacts
  <2>2. v \in Seq(Names)
    BY <1>1, MaskPathFacts
  <2> QED BY <1>3, <2>1, <2>2 DEF Under, Beneath, IsStrictPrefix
<1> QED BY <1>4, <1>5, <1>6, <1>7, <1>8 DEF Sensible

\* No bind has covered a mount on the way to the operation in progress.
LEMMA HerePlain ==
    ASSUME PlanInv, code # <<>>, Workable(job), NEW q \in Seq(Names), IsPrefix(q, Here.path)
    PROVE  Plain(plan, q)
<1>1. /\ Here \in Planned(job) /\ Here.op \in Ops /\ job \in Jobs /\ plan # <<>> /\ plan \in Seq(Planned(job))
      /\ Here.path \in Seq(Names)
  BY HereFacts DEF PlanInv
<1>2. CASE Here.op \in Masking
  <2>1. 1 \in DOMAIN plan /\ Here = plan[1]
    BY <1>1 DEF Here
  <2> QED BY <1>2, <2>1 DEF Plain
<1>3. CASE Here.op \notin Masking
  <2>1. PICK p \in BoundPaths : IsPrefix(Here.path, p) /\ p \in Seq(Names) /\ p \in Paths /\ Original(p) # Nowhere
    <3>1. CASE Here.op = "readonly"
      <4>1. Here.path \in Listed(job.readonly) /\ IsPrefix(Here.path, Here.path)
        BY <1>1, <3>1, PrefixOrder DEF Planned
      <4>2. Here.path \in Paths /\ Original(Here.path) # Nowhere
        BY <1>1, <4>1, HereFacts, WorkableFacts
      <4> QED BY <1>1, <4>1, <4>2 DEF BoundPaths
    <3>2. CASE Here.op = "pin"
      <4>1. Here.path \in PinPaths(job) /\ IsPrefix(Here.path, Here.path)
        BY <1>1, <3>2, PrefixOrder DEF Planned
      <4> QED BY <1>1, <4>1, PinnedThere DEF BoundPaths
    <3>3. CASE Here.op = "parent"
      <4>1. PICK p \in PinPaths(job) : IsStrictPrefix(Here.path, p)
        BY <1>1, <3>3 DEF Planned
      <4> QED BY <1>1, <4>1, PinnedThere DEF BoundPaths, IsStrictPrefix
    <3> QED BY <1>1, <1>3, <3>1, <3>2, <3>3 DEF Ops, Masking
  <2>2. IsPrefix(q, p)
    BY <1>1, <2>1, PrefixOrder
  <2>3. ASSUME NEW r \in BoundPaths, NEW v \in Seq(Names), IsPrefix(v, q), MountBetween(r, v)
        PROVE  FALSE
    <3>1. IsPrefix(v, p)
      BY <2>1, <2>2, <2>3, PrefixOrder
    <3>2. r # <<>> /\ IsStrictPrefix(r, v) /\ HostMount(v) # HostMount(r)
      BY <2>3 DEF MountBetween, Beneath
    <3>3. r \in Seq(Names)
      BY <1>1, MaskPathFacts DEF BoundPaths, JobPaths
    <3>4. IsPrefix(r, v) /\ r # v
      BY <3>2 DEF IsStrictPrefix
    <3>5. v \in Paths /\ Original(v) # Nowhere /\ HostMount(v) <= HostMount(p)
      BY <2>1, <3>1, OriginalAbove, PrefixPath
    <3>6. HostMount(r) <= HostMount(v) /\ HostMount(v) \in Nat /\ HostMount(r) \in Nat /\ HostMount(p) \in Nat
      BY <2>1, <3>1, <3>3, <3>4, <3>5, OriginalAbove
    <3>7. HostMount(p) # HostMount(r)
      BY <3>2, <3>5, <3>6
    <3>8. IsStrictPrefix(r, p)
      <4>1. IsPrefix(r, p)
        BY <2>1, <3>1, <3>3, <3>4, PrefixOrder
      <4>2. r # p
        BY <3>1, <3>3, <3>4, PrefixBoth
      <4> QED BY <4>1, <4>2 DEF IsStrictPrefix
    <3>9. MountBetween(r, p)
      BY <3>2, <3>7, <3>8 DEF MountBetween, Beneath
    <3> QED BY <1>1, <2>1, <3>9, WorkableFacts
  <2> QED BY <2>3 DEF Plain
<1> QED BY <1>2, <1>3

\* No mask that stays is in the way of the operation in progress.
LEMMA Clear ==
    ASSUME PlanInv, Smooth, code # <<>>, Workable(job), Here.op # "namespace",
           NEW v \in MaskPaths, IsPrefix(v, Here.path), Free(plan, v)
    PROVE  v = Here.path /\ Here.op \notin {"parent", "pin"}
<1>1. /\ Here.op \in Ops /\ job \in Jobs /\ Here.path \in Seq(Names) /\ plan # <<>> /\ plan \in Seq(Planned(job))
  BY HereFacts DEF PlanInv
<1>2. Sensible
  BY HereSensible
<1>3. v \in Seq(Names) /\ v # <<>>
  BY <1>1, MaskPathFacts
<1>4. Here.op \notin {"parent", "pin"}
  BY <1>2 DEF Sensible
<1>5. ASSUME v # Here.path PROVE FALSE
  <2>1. IsStrictPrefix(v, Here.path) /\ Beneath(Here.path, v)
    BY <1>5 DEF IsStrictPrefix, Beneath
  <2>2. CASE Here.op = "private"
    <3>1. 1 \in DOMAIN plan /\ Here = plan[1]
      BY <1>1 DEF Here
    <3> QED BY <2>1, <2>2, <3>1 DEF Free
  <2>3. CASE Here.op = "blocked"
    BY <1>2, <1>3, <2>1, <2>3 DEF Sensible
  <2>4. CASE Here.op = "readonly"
    BY <1>2, <2>1, <2>4 DEF Sensible
  <2> QED BY <1>1, <1>4, <2>2, <2>3, <2>4 DEF Ops
<1> QED BY <1>4, <1>5

(***************************************************************************)
(* No step of a workable job fails                                         *)
(***************************************************************************)

\* The path walked so far.
Trail == SubSeq(Here.path, 1, walk.depth)

\* A traversal of a workable job is on the disk, where no mask is.
Underway(q) ==
    /\ status = "setup" /\ Doing \in Walks /\ Doing = Now /\ code # <<>> /\ Here.op # "namespace" /\ Sensible
    /\ Here.path \in Seq(Names) /\ Here.path \in Paths /\ job \in Jobs
    /\ Trail \in Paths /\ Trail \in Seq(Names) /\ Component \in Names /\ q = Append(Trail, Component)
    /\ q \in Paths /\ q \in Seq(Names) /\ q # <<>> /\ IsPrefix(q, Here.path)
    /\ IsPrefix(Trail, Here.path) /\ Trail # Here.path
    /\ walk.how \in {"look", "make", "again"}
    /\ walk.at = Resolve(Trail) /\ walk.at \in Place /\ walk.at # NoPlace
    /\ Resolve(q) = Enter(walk.at, Component)
    /\ walk.at.ino.fs = "disk" /\ Plain(plan, Trail) /\ Plain(plan, q) /\ Plain(plan, Here.path)

\* Every traversal of a workable job is.
LEMMA WalkUnderway ==
    ASSUME Sound, Smooth, Workable(job), Walking
    PROVE  \E q : Underway(q)
<1> DEFINE q == SubSeq(Here.path, 1, walk.depth + 1)
<1>1. /\ Doing \in Walks /\ Doing = Now /\ code # <<>>
      /\ walk \in [at : Spot, depth : Nat, how : {"look", "make", "again"}]
      /\ walk.depth + 1 \in 0 .. Len(Here.path)
      /\ Trail \in Seq(Names) /\ Component \in Names
      /\ walk.at = Resolve(Trail) /\ walk.at # NoPlace /\ walk.at \in Place
      /\ Resolve(q) = Enter(walk.at, Component)
  BY WalkFacts DEF Trail, Resolve, Enter
<1>2. status = "setup"
  BY DEF Walking, Now, Walks
<1>3. PlanInv /\ job \in Jobs
  BY DEF Sound, PlanInv
<1>4. Here.op # "namespace"
  <2>1. Calls(Here.op, code) /\ Head(code) = Doing
    BY <1>1, <1>3, HereFacts DEF Doing
  <2> QED BY <1>1, <2>1 DEF Calls
<1>5. Sensible
  BY <1>1, <1>3, <1>4, HereSensible
<1>6. Here.path \in Seq(Names) /\ Here.path \in Paths
  BY <1>1, <1>3, HereFacts
<1>7. walk.depth \in Nat /\ walk.depth < Len(Here.path)
  BY <1>1, <1>6
<1>8. q = Append(Trail, Component)
  <2>1. \A s \in Seq(Names), d \in Nat : d < Len(s) => SubSeq(s, 1, d + 1) = Append(SubSeq(s, 1, d), s[d + 1])
    OBVIOUS
  <2> QED BY <1>6, <1>7, <2>1 DEF Trail, Component
<1>9. q \in Seq(Names) /\ IsPrefix(q, Here.path) /\ q # <<>>
  <2>1. q \in Seq(Names) /\ IsPrefix(q, Here.path) /\ Len(q) = walk.depth + 1
    BY <1>1, <1>6, PrefixCut
  <2> QED BY <1>7, <2>1
<1>10. IsPrefix(Trail, Here.path) /\ Trail # Here.path /\ Len(Trail) = walk.depth
  BY <1>6, <1>7, PrefixCut DEF Trail
<1> HIDE DEF q
<1>11. q \in Paths /\ Trail \in Paths
  BY <1>1, <1>6, <1>9, <1>10, PrefixPath
<1>12. walk.at.ino.fs = "disk"
  <2> SUFFICES ASSUME walk.at.ino.fs # "disk" PROVE FALSE
    OBVIOUS
  <2>1. PICK v \in MaskPaths : IsPrefix(v, Trail) /\ Free(plan, v)
    BY <1>1, <1>11 DEF Smooth, MountsInv, HiddenBy, Resolve
  <2>2. v \in Seq(Names)
    BY <1>3, MaskPathFacts
  <2>3. IsPrefix(v, Here.path)
    BY <1>1, <1>6, <1>10, <2>1, <2>2, PrefixOrder
  <2>4. v = Here.path
    BY <1>1, <1>3, <1>4, <2>1, <2>3, Clear
  <2>5. Len(Here.path) <= Len(Trail)
    BY <1>1, <1>6, <2>1, <2>4, PrefixByPlace
  <2> QED BY <1>7, <1>10, <2>5
<1>13. Plain(plan, Trail) /\ Plain(plan, q) /\ Plain(plan, Here.path)
  BY <1>1, <1>3, <1>6, <1>9, <1>10, HerePlain, PrefixOrder
<1> QED BY <1>1, <1>2, <1>3, <1>4, <1>5, <1>6, <1>8, <1>9, <1>10, <1>11, <1>12, <1>13 DEF Underway

\* No symbolic link is in the way.
LEMMA OpenGoesOn ==
    ASSUME Sound, Smooth, Workable(job), OpenComponent
    PROVE  status' = status /\ ~Fail
<1>1. PICK q : Underway(q)
  BY WalkUnderway DEF OpenComponent
<1>2. Enter(walk.at, Component) # NoPlace /\ Resolve(q) = Enter(walk.at, Component)
  BY <1>1 DEF OpenComponent, Underway
<1>3. Original(q).kind # "link"
  BY <1>1 DEF Underway, Sensible
<1>5. q \in Paths /\ q # <<>> /\ Plain(plan, q)
  BY <1>1 DEF Underway
<1>6. Resolve(q).ino.kind # "link"
  BY <1>2, <1>3, <1>5, NoLink
<1>7. status' = status
  BY <1>2, <1>6 DEF OpenComponent, Moving
<1> QED BY <1>1, <1>7 DEF Fail, Underway

\* Nothing is missing but what is made.
LEMMA MissGoesOn ==
    ASSUME Sound, Smooth, Workable(job), MissComponent
    PROVE  status' = status /\ ~Fail
<1>1. PICK q : Underway(q)
  BY WalkUnderway DEF MissComponent
<1>2. /\ Enter(walk.at, Component) = NoPlace /\ Resolve(q) = NoPlace
      /\ walk.how \in {"look", "again"}
  BY <1>1 DEF MissComponent, Underway
<1>3. Entries(entry) /\ Closed(entry) /\ Hung(mounts)
  BY DEF Sound, TreeInv
<1>4. walk.how = "look"
  <2> SUFFICES ASSUME walk.how = "again" PROVE FALSE
    BY <1>2
  <2>1. <<walk.at.ino, Component>> \in DOMAIN entry
    BY <1>1 DEF Underway, Smooth, AgainInv
  <2>2. walk.at \in Spot /\ Component \in Names
    BY <1>1 DEF Underway, Spot
  <2> QED BY <1>2, <1>3, <2>1, <2>2, EnterFacts DEF Enter
<1>5. Resolve(Here.path) = NoPlace
  <2>1. Here.path \in Paths /\ q \in Seq(Names) /\ IsPrefix(q, Here.path)
    BY <1>1 DEF Underway
  <2> QED BY <1>2, <1>3, <2>1, ResolvedAbove DEF Resolve
<1>6. Doing = "create"
  <2> SUFFICES ASSUME Doing # "create" PROVE FALSE
    OBVIOUS
  <2>1. Doing # "recheck"
    BY <1>5 DEF Sound, FdInv, Uses
  <2>2. Doing \in {"open", "verify"}
    BY <1>1, <2>1 DEF Underway, Walks
  <2>3. Here.op \in {"private", "readonly", "parent", "pin"}
    <3>1. Calls(Here.op, code) /\ Here.op \in Ops /\ code \in Rest(Here.op) /\ Head(code) = Doing
      BY <1>1, HereFacts DEF Underway, Sound, Doing
    <3>2. Here.op # "blocked"
      BY <2>2, <3>1 DEF Rest
    <3> QED BY <1>1, <3>1, <3>2 DEF Ops, Underway
  <2>4. Original(Here.path) # Nowhere
    BY <1>1, <2>3 DEF Underway, Sensible
  <2>5. PICK v \in MaskPaths : IsStrictPrefix(v, Here.path) /\ Free(plan, v)
    BY <1>1, <1>5, <2>4 DEF Underway, Smooth, MountsInv, GoneBelow, Resolve
  <2>6. v = Here.path
    BY <1>1, <2>5, Clear DEF Underway, Sound, IsStrictPrefix
  <2> QED BY <2>5, <2>6 DEF IsStrictPrefix
<1>7. walk.at.ino.kind = "dir"
  <2>1. walk.at.ino \in Inode /\ walk.at.ino.kind \in {"dir", "file", "link"} /\ walk.at = ResolveIn(entry, mounts, Trail)
    BY <1>1 DEF Underway, Place, Inode, Resolve
  <2>2. CASE Trail = <<>>
    <3>1. ResolveIn(entry, mounts, Trail) = RootPlace
      BY <1>3, <2>2, ResolveFacts
    <3> QED BY <2>1, <3>1, DiskAssumption DEF RootPlace
  <2>3. CASE Trail # <<>>
    <3>1. IsStrictPrefix(Trail, Here.path) /\ IsPrefix(Trail, Here.path) /\ Trail \in Seq(Names) /\ Trail \in Paths
      BY <1>1 DEF Underway, IsStrictPrefix
    <3>2. Here.op = "blocked"
      <4>1. Calls(Here.op, code) /\ Head(code) = Doing
        BY <1>1, HereFacts DEF Underway, Sound, Doing
      <4> QED BY <1>6, <4>1 DEF Calls
    <3>3. Trail \notin MaskPaths /\ Original(Trail).kind # "file" /\ Original(Trail).kind # "link"
      BY <1>1, <2>3, <3>1, <3>2 DEF Underway, Sensible
    <3>4. Before(Trail, walk.at)
      BY <1>1, <2>1 DEF Underway, Smooth, MountsInv, AsBefore
    <3>5. CASE walk.at.ino = Original(Trail)
      BY <2>1, <3>3, <3>5
    <3>6. CASE walk.at.ino.id >= FirstNew
      <4>1. Trail \notin Listed(job.blocked)
        BY <3>3 DEF MaskPaths
      <4>2. PICK L : /\ Labels(entry, mounts, L)
                     /\ \A i, p : <<i, p>> \in L /\ i.id >= FirstNew /\ i.kind # "dir" => p \in Listed(job.blocked)
        BY DEF Smooth, MadeInv
      <4>3. <<walk.at.ino, Trail>> \in L
        BY <1>1, <1>3, <2>1, <3>1, <4>2, LabelFacts DEF Underway
      <4> QED BY <3>6, <4>1, <4>2, <4>3
    <3> QED BY <3>4, <3>5, <3>6 DEF Before
  <2> QED BY <2>2, <2>3
<1>8. Now = "create"
  BY <1>1, <1>6 DEF Underway
<1>9. status' = status
  BY <1>4, <1>7, <1>8 DEF MissComponent, Moving
<1> QED BY <1>1, <1>9 DEF Fail, Underway

\* A path without a mask shows its own inode of the disk.
LEMMA PinShown ==
    ASSUME Sound, Smooth, Workable(job), code # <<>>, Here.op = "pin", Resolve(Here.path) # NoPlace
    PROVE  Resolve(Here.path).ino = Here.ino /\ Here.ino.fs = "disk"
<1>1. PlanInv
  BY DEF Sound
<1>2. /\ Here.path \in PinPaths(job) /\ Here.ino = Original(Here.path) /\ job \in Jobs
      /\ Here.path \in Paths /\ Here.path \in Seq(Names)
  BY <1>1, HereFacts DEF PlanInv
<1>3. Original(Here.path) # Nowhere
  BY <1>2, PinnedThere
<1>4. Resolve(Here.path).ino.fs = "disk"
  <2> SUFFICES ASSUME Resolve(Here.path).ino.fs # "disk" PROVE FALSE
    OBVIOUS
  <2>1. PICK v \in MaskPaths : IsPrefix(v, Here.path) /\ Free(plan, v)
    BY <1>2 DEF Smooth, MountsInv, HiddenBy, Resolve
  <2> QED BY <1>1, <2>1, Clear
<1>5. Plain(plan, Here.path)
  BY <1>1, <1>2, HerePlain, PrefixOrder
<1>6. Before(Here.path, Resolve(Here.path))
  BY <1>2, <1>4, <1>5 DEF Smooth, MountsInv, AsBefore, Resolve
<1> QED BY <1>2, <1>3, <1>4, <1>6 DEF Before

\* The path still leads to what was opened, or to what was validated.
LEMMA RecheckGoesOn ==
    ASSUME Sound, Smooth, Workable(job), Rechecked
    PROVE  status' = status /\ ~Fail
<1>1. /\ code # <<>> /\ Doing = Now /\ Doing \in Walks
      /\ walk.at = Resolve(Here.path) /\ walk.at # NoPlace
  BY ArrivedFacts DEF Rechecked
<1>2. status = "setup" /\ Now \in {"recheck", "verify"}
  BY <1>1 DEF Rechecked, Now, Walks
<1>3. CASE Now = "recheck"
  <2>1. fd = Resolve(Here.path)
    BY <1>1, <1>3 DEF Sound, FdInv, Uses
  <2>2. status' = status
    BY <1>1, <1>3, <2>1 DEF Rechecked, Moving
  <2> QED BY <1>2, <2>2 DEF Fail
<1>4. CASE Now = "verify"
  <2>1. Here.op = "pin"
    <3>1. Calls(Here.op, code) /\ Head(code) = Doing
      BY <1>1, HereFacts DEF Sound, Doing
    <3> QED BY <1>1, <1>4, <3>1 DEF Calls
  <2>2. walk.at.ino = Here.ino
    BY <1>1, <2>1, PinShown
  <2>3. status' = status
    BY <1>4, <2>2 DEF Rechecked, Moving
  <2> QED BY <1>2, <2>3 DEF Fail
<1> QED BY <1>2, <1>3, <1>4

\* The descriptor of a pin is the inode that was validated.
LEMMA BindGoesOn ==
    ASSUME Sound, Smooth, Workable(job), Bind
    PROVE  status' = status /\ ~Fail
<1>1. Now = "bind" /\ status = "setup" /\ Doing = "bind" /\ code # <<>>
  BY DEF Bind, Now, Doing
<1>2. fd = Resolve(Here.path) /\ fd # NoPlace
  BY <1>1 DEF Sound, FdInv, Uses
<1>3. Here.op = "pin" => fd.ino = Here.ino
  BY <1>1, <1>2, PinShown
<1>4. status' = status
  BY <1>3 DEF Bind, Mounted, Moving
<1> QED BY <1>1, <1>4 DEF Fail

\* The path leads to the mount that was made.
LEMMA RemountGoesOn ==
    ASSUME Sound, Smooth, Workable(job), RemountReadOnly
    PROVE  status' = status /\ ~Fail
<1>1. Now = "remount" /\ status = "setup" /\ Doing = "remount" /\ code # <<>>
  BY DEF RemountReadOnly, Now, Doing
<1>2. fd = Resolve(Here.path)
  BY <1>1 DEF Sound, FdInv, Uses
<1>3. code \in AfterBind
  <2>1. Calls(Here.op, code) /\ Head(code) = Doing
    BY <1>1, HereFacts DEF Sound, Doing
  <2> QED BY <1>1, <2>1 DEF Calls
<1>4. first = fd.ino /\ fd.mnt \in DOMAIN mounts /\ mounts[fd.mnt].root = first
  BY <1>2, <1>3 DEF Smooth, BoundInv
<1>5. fd.mnt > 0
  BY <1>4, HungFacts DEF Sound, TreeInv
<1>6. status' = status
  BY <1>4, <1>5 DEF RemountReadOnly, Moving
<1> QED BY <1>1, <1>6 DEF Fail

\* A step of a traversal, or one that touches nothing of the invariant.
LEMMA SmoothWalk ==
    ASSUME Smooth, UNCHANGED <<file, job, plan, code, first>>, AgainInv'
    PROVE  Smooth'
<1>1. entry' = entry /\ mounts' = mounts /\ fresh' = fresh
  BY DEF file
<1>2. EntryInv' /\ MadeInv' /\ Sorted(plan)' /\ MasksFirst(plan)'
  BY <1>1 DEF Smooth, EntryInv, MadeInv
<1>3. MaskPaths' = MaskPaths /\ BoundPaths' = BoundPaths
  BY DEF MaskPaths, BoundPaths, PinPaths
<1>4. MountsInv(mounts, plan)'
  BY <1>1, <1>3 DEF Smooth, MountsInv, RootInv, AsBefore, HiddenBy, GoneBelow, Plain
<1>5. BoundInv'
  BY <1>1 DEF Smooth, BoundInv, Resolve, Here
<1> QED BY <1>2, <1>4, <1>5 DEF Smooth

\* A step that leaves the files and the plan alone.
LEMMA SmoothStill ==
    ASSUME Smooth, UNCHANGED <<file, job, plan, code, walk, first>>
    PROVE  Smooth'
<1>1. AgainInv'
  BY DEF Smooth, AgainInv, Doing, Component, Here, file
<1> QED BY <1>1, SmoothWalk

\* A traversal descends ...
LEMMA SmoothOpen == ASSUME Smooth, OpenComponent, ~Fail PROVE Smooth'
<1>1. UNCHANGED <<file, job, plan, code, first>> /\ walk'.how = "look"
  BY DEF OpenComponent
<1>2. AgainInv'
  BY <1>1 DEF AgainInv
<1> QED BY <1>1, <1>2, SmoothWalk

\* ... or goes on to make what is missing.
LEMMA SmoothMiss == ASSUME Smooth, Sound, MissComponent, ~Fail PROVE Smooth'
<1>1. UNCHANGED <<file, job, plan, code, first>> /\ walk' = [walk EXCEPT !.how = "make"]
  BY DEF MissComponent
<1>2. walk \in [at : Spot, depth : Nat, how : {"look", "make", "again"}]
  BY WalkFacts DEF MissComponent
<1>3. AgainInv'
  BY <1>1, <1>2 DEF AgainInv
<1> QED BY <1>1, <1>3, SmoothWalk

\* What holds of the mounts holds when less is left to do.
LEMMA LaterMounts ==
    ASSUME NEW M, NEW s, MountsInv(M, plan),
           entry' = entry, mounts' = M, plan' = s, MaskPaths' = MaskPaths, BoundPaths' = BoundPaths,
           \A v : Free(plan, v) => Free(s, v), \A u : Plain(s, u) => Plain(plan, u)
    PROVE  MountsInv(mounts, plan)'
<1>1. \A u : Plain(plan, u)' <=> Plain(s, u)
  BY DEF Plain
<1>2. \A v : Free(plan, v)' <=> Free(s, v)
  BY DEF Free
<1>3. RootInv(mounts)' /\ AsBefore(mounts, plan)'
  BY <1>1 DEF MountsInv, RootInv, AsBefore
<1>4. HiddenBy(mounts, plan)' /\ GoneBelow(mounts, plan)'
  BY <1>1, <1>2 DEF MountsInv, HiddenBy, GoneBelow
<1> QED BY <1>3, <1>4 DEF MountsInv

\* The end of a system call that mounts nothing.
LEMMA SmoothCall ==
    ASSUME Sound, Smooth, code # <<>>, Advance, UNCHANGED <<file, job, first>>, walk' = StartWalk,
           Doing \notin Mounting
    PROVE  Smooth'
<1>1. entry' = entry /\ mounts' = mounts /\ fresh' = fresh
  BY DEF file
<1>2. Went
  BY AdvanceFacts DEF Sound
<1>3. plan \in Seq(Planned(job)) /\ plan # <<>>
  BY HereFacts DEF Sound, PlanInv
<1>4. /\ Sorted(plan') /\ MasksFirst(plan') /\ \A v : Free(plan, v) => Free(plan', v)
      /\ \A u : Plain(plan', u) => Plain(plan, u)
  BY <1>2, <1>3, TailSorted DEF Smooth, Went
<1>5. EntryInv' /\ MadeInv'
  BY <1>1 DEF Smooth, EntryInv, MadeInv
<1>6. MaskPaths' = MaskPaths /\ BoundPaths' = BoundPaths
  BY DEF MaskPaths, BoundPaths, PinPaths
<1>7. MountsInv(mounts, plan)'
  BY <1>1, <1>4, <1>6, LaterMounts DEF Smooth
<1>8. AgainInv'
  BY DEF AgainInv, StartWalk
<1>9. BoundInv'
  <2>1. code' \in AfterBind => Here' = Here /\ code \in AfterBind
    BY <1>2 DEF Went, Mounting
  <2> QED BY <1>1, <2>1 DEF Smooth, BoundInv, Resolve
<1> QED BY <1>4, <1>5, <1>7, <1>8, <1>9 DEF Smooth

\* The end of one that mounts.
LEMMA SmoothMount ==
    ASSUME Sound, Smooth, code # <<>>, Advance, UNCHANGED <<entry, job, walk>>, Doing \in Mounting,
           fresh' \in Nat, fresh' >= fresh,
           MountsInv(mounts', plan),
           \A L : Labels(entry, mounts, L) => Labels(entry, mounts', L),
           Doing = "bind" /\ Here.op = "readonly" =>
               LET x == ResolveIn(entry, mounts', Here.path)
               IN  first' = x.ino /\ x.mnt \in DOMAIN mounts' /\ mounts'[x.mnt].root = first'
    PROVE  Smooth'
<1>2. Went
  BY AdvanceFacts DEF Sound
<1>3. plan \in Seq(Planned(job)) /\ plan # <<>>
  BY HereFacts DEF Sound, PlanInv
<1>4. /\ Sorted(plan') /\ MasksFirst(plan') /\ \A v : Free(plan, v) => Free(plan', v)
      /\ \A u : Plain(plan', u) => Plain(plan, u)
  BY <1>2, <1>3, TailSorted DEF Smooth, Went
<1>5. EntryInv'
  <2>1. fresh' >= FirstNew
    BY DEF Smooth, EntryInv, FirstNew
  <2> QED BY <2>1 DEF Smooth, EntryInv
<1>6. MadeInv'
  <2>1. PICK L : /\ Labels(entry, mounts, L)
                 /\ \A i, p : <<i, p>> \in L /\ i.id >= FirstNew /\ i.kind # "dir" => p \in Listed(job.blocked)
    BY DEF Smooth, MadeInv
  <2>2. Labels(entry, mounts', L)
    BY <2>1
  <2> QED BY <2>1, <2>2 DEF MadeInv
<1>7. MaskPaths' = MaskPaths /\ BoundPaths' = BoundPaths
  BY DEF MaskPaths, BoundPaths, PinPaths
<1>8. MountsInv(mounts, plan)'
  <2> DEFINE M == mounts'
             s == plan'
  <2>1. MountsInv(M, plan) /\ mounts' = M /\ plan' = s
    OBVIOUS
  <2>2. (\A v : Free(plan, v) => Free(s, v)) /\ \A u : Plain(s, u) => Plain(plan, u)
    BY <1>4
  <2> HIDE DEF M, s
  <2> QED BY <1>7, <2>1, <2>2, LaterMounts
<1>9. AgainInv'
  <2>1. walk = StartWalk
    <3>1. Doing \notin Walks
      BY DEF Walks, Mounting
    <3> QED BY <3>1 DEF Sound, WalkInv
  <2> QED BY <2>1 DEF AgainInv, StartWalk
<1>10. BoundInv'
  <2> SUFFICES ASSUME code' \in AfterBind
               PROVE  LET x == ResolveIn(entry, mounts', Here'.path)
                      IN  first' = x.ino /\ x.mnt \in DOMAIN mounts' /\ mounts'[x.mnt].root = first'
    BY DEF BoundInv, Resolve
  <2>1. Here' = Here /\ ((code \in AfterBind /\ Doing # "remount") \/ (Doing = "bind" /\ Here.op = "readonly"))
    BY <1>2 DEF Went
  <2>2. code \in AfterBind => Doing \in {"open", "recheck", "remount"}
    BY AfterBindFacts DEF Doing
  <2>3. Doing = "bind" /\ Here.op = "readonly"
    BY <2>1, <2>2 DEF Mounting
  <2> QED BY <2>1, <2>3
<1> QED BY <1>4, <1>5, <1>6, <1>8, <1>9, <1>10 DEF Smooth

\* A path that leads through a new mount on path P leads through P, or is
\* beneath a mask.
Screened(P, F, r, n, N, u) ==
    \E v \in Seq(Names) :
        /\ IsPrefix(v, u) /\ v \in Paths /\ ResolveIn(entry, N, v) = [mnt |-> n, ino |-> r]
        /\ F.ino.fs = "disk" => v = P
        /\ F.ino.fs # "disk" => \E w \in MaskPaths : IsPrefix(w, v) /\ w \in Seq(Names) /\ Free(plan, w)
        /\ ResolveIn(entry, mounts, v) = F

\* Every path through the new mount does.
LEMMA HitScreened ==
    ASSUME Sound, Smooth, NEW P \in Paths, NEW F, NEW r, NEW ro, NEW n, NEW N, OneMore(mounts, F, r, ro, n, N),
           ResolveIn(entry, mounts, P) = F, NEW u \in Paths, Hit(entry, mounts, F, u)
    PROVE  Screened(P, F, r, n, N, u)
<1>1. Entries(entry) /\ Closed(entry) /\ Hung(mounts) /\ Labelled(entry, mounts) /\ job \in Jobs
  BY DEF Sound, TreeInv, PlanInv
<1>2. u \in Seq(Names)
  BY PathFacts
<1>3. PICK v : Reaches(entry, mounts, F, v, u) /\ ResolveIn(entry, N, v) = [mnt |-> n, ino |-> r]
  BY <1>1, <1>2, OneEffect DEF Effect
<1>4. v \in Seq(Names) /\ IsPrefix(v, u) /\ ResolveIn(entry, mounts, v) = F
  BY <1>3 DEF Reaches
<1>5. v \in Paths
  BY <1>4, PrefixPath
<1>6. F.ino.fs = "disk" => v = P
  BY <1>1, <1>3, OnlyByItself
<1>7. ASSUME F.ino.fs # "disk"
      PROVE  \E w \in MaskPaths : IsPrefix(w, v) /\ w \in Seq(Names) /\ Free(plan, w)
  <2>1. F # NoPlace
    <3>1. F \in Place
      BY DEF OneMore
    <3> QED BY <3>1, SpotFacts
  <2>2. \E w \in MaskPaths : IsPrefix(w, v) /\ Free(plan, w)
    BY <1>4, <1>5, <1>7, <2>1 DEF Smooth, MountsInv, HiddenBy
  <2> QED BY <1>1, <2>2, MaskPathFacts
<1> QED BY <1>3, <1>4, <1>5, <1>6, <1>7 DEF Screened

\* The others lead where they led.
LEMMA NotHit ==
    ASSUME Entries(entry), NEW F, NEW r, NEW ro, NEW n, NEW N, OneMore(mounts, F, r, ro, n, N),
           NEW u \in Paths, ~Hit(entry, mounts, F, u)
    PROVE  ResolveIn(entry, N, u) = ResolveIn(entry, mounts, u)
<1>1. u \in Seq(Names)
  BY PathFacts
<1>2. Effect(entry, mounts, F, r, n, N, u)
  BY <1>1, OneEffect
<1> QED BY <1>2 DEF Effect

\* A mask hides what is beneath it, and nothing else.
LEMMA SmoothMask ==
    ASSUME Sound, Smooth, Workable(job), Doing \in {"tmpfs", "shadow"}, NEW r \in Inode, r.fs # "disk",
           r.kind # "link", Mounted(One(On(fd, r, FALSE))), fresh' \in Nat, fresh' >= fresh
    PROVE  Smooth'
<1> DEFINE n == Youngest(mounts) + 1
           P == Here.path
<1>0. P # <<>>
  BY UsedPath DEF Uses
<1>1. OneMore(mounts, fd, r, FALSE, n, mounts')
  BY <1>0, MountedIsOneMore DEF Uses
<1> HIDE DEF n
<1>2. /\ code # <<>> /\ P \in Seq(Names) /\ P \in Paths
      /\ ResolveIn(entry, mounts, P) = fd
  BY <1>0, FdFacts DEF Uses
<1>3. Advance /\ job' = job /\ walk' = walk /\ entry' = entry
  BY DEF Mounted
<1>4. plan # <<>> /\ plan \in Seq(Planned(job)) /\ Here \in Planned(job) /\ Calls(Here.op, code) /\ job \in Jobs
  BY <1>2, HereFacts DEF Sound, PlanInv
<1>5. Here.op \in {"private", "blocked"}
  BY <1>2, <1>4 DEF Calls, Doing
<1>6. P \in MaskPaths /\ Free(plan, P)
  <2>1. P \in MaskPaths
    BY <1>4, <1>5 DEF Planned, MaskPaths
  <2>2. Free(plan, P)
    BY <1>4, <1>5, HeadFree DEF Smooth
  <2> QED BY <2>1, <2>2
<1> HIDE DEF P
<1>7. ASSUME NEW u \in Paths, Hit(entry, mounts, fd, u)
      PROVE  \E v, w \in Seq(Names) : /\ ResolveIn(entry, mounts', v) # NoPlace /\ IsPrefix(v, u)
                                      /\ w \in MaskPaths /\ IsPrefix(w, v) /\ IsPrefix(w, u) /\ Free(plan, w)
  <2>1. Screened(P, fd, r, n, mounts', u)
    BY <1>1, <1>2, <1>7, HitScreened
  <2>2. PICK v \in Seq(Names) :
            /\ IsPrefix(v, u) /\ v \in Paths /\ ResolveIn(entry, mounts', v) = [mnt |-> n, ino |-> r]
            /\ fd.ino.fs = "disk" => v = P
            /\ fd.ino.fs # "disk" => \E w \in MaskPaths : IsPrefix(w, v) /\ w \in Seq(Names) /\ Free(plan, w)
    BY <2>1 DEF Screened
  <2>3. ResolveIn(entry, mounts', v) # NoPlace
    <3>1. [mnt |-> n, ino |-> r].ino # NoPlace.ino
      BY SpotFacts DEF NoPlace
    <3> QED BY <2>2, <3>1
  <2>4. PICK w \in MaskPaths : IsPrefix(w, v) /\ w \in Seq(Names) /\ Free(plan, w)
    BY <1>2, <1>6, <2>2, PrefixOrder
  <2>5. IsPrefix(w, u) /\ u \in Seq(Names)
    BY <2>2, <2>4, PathFacts, PrefixOrder
  <2> QED BY <2>2, <2>3, <2>4, <2>5
<1>8. ASSUME NEW u \in Paths, ~Hit(entry, mounts, fd, u)
      PROVE  ResolveIn(entry, mounts', u) = ResolveIn(entry, mounts, u)
  BY <1>1, <1>8, NotHit DEF Sound, TreeInv
<1>9. HiddenBy(mounts', plan)
  <2> SUFFICES ASSUME NEW u \in Paths, ResolveIn(entry, mounts', u) # NoPlace,
                      ResolveIn(entry, mounts', u).ino.fs # "disk"
               PROVE  \E v \in MaskPaths : IsPrefix(v, u) /\ Free(plan, v)
    BY DEF HiddenBy
  <2>1. CASE Hit(entry, mounts, fd, u)
    BY <1>7, <2>1
  <2>2. CASE ~Hit(entry, mounts, fd, u)
    BY <1>8, <2>2 DEF Smooth, MountsInv, HiddenBy
  <2> QED BY <2>1, <2>2
<1>10. GoneBelow(mounts', plan)
  <2> SUFFICES ASSUME NEW u \in Paths, Plain(plan, u), Original(u) # Nowhere, ResolveIn(entry, mounts', u) = NoPlace
               PROVE  \E v \in MaskPaths : IsStrictPrefix(v, u) /\ Free(plan, v)
    BY DEF GoneBelow
  <2>1. CASE Hit(entry, mounts, fd, u)
    <3>1. PICK v, w \in Seq(Names) : /\ ResolveIn(entry, mounts', v) # NoPlace /\ IsPrefix(v, u)
                                      /\ w \in MaskPaths /\ IsPrefix(w, v) /\ IsPrefix(w, u) /\ Free(plan, w)
      BY <1>7, <2>1
    <3>2. v # u
      BY <3>1
    <3>3. w # u
      BY <3>1, <3>2, PrefixBoth
    <3> QED BY <3>1, <3>3 DEF IsStrictPrefix
  <2>2. CASE ~Hit(entry, mounts, fd, u)
    BY <1>8, <2>2 DEF Smooth, MountsInv, GoneBelow
  <2> QED BY <2>1, <2>2
<1>11. RootInv(mounts')
  <2> SUFFICES ASSUME NEW k \in DOMAIN mounts' PROVE NewRoot(mounts'[k].root)
    BY DEF RootInv
  <2>1. Grown(mounts, fd, r, FALSE, n, mounts')
    BY <1>1, OneMoreFacts
  <2>2. CASE k = n
    BY <2>1, <2>2 DEF Grown, NewRoot
  <2>3. CASE k # n
    BY <2>1, <2>3 DEF Grown, Smooth, MountsInv, RootInv
  <2> QED BY <2>2, <2>3
<1>12. AsBefore(mounts', plan)
  <2> SUFFICES ASSUME NEW u \in Paths, Plain(plan, u), ResolveIn(entry, mounts', u) # NoPlace,
                      ResolveIn(entry, mounts', u).ino.fs = "disk"
               PROVE  Before(u, ResolveIn(entry, mounts', u))
    BY DEF AsBefore
  <2>1. ~Hit(entry, mounts, fd, u)
    <3>1. Entries(entry) /\ Closed(entry) /\ u \in Seq(Names)
      BY PathFacts DEF Sound, TreeInv
    <3> QED BY <1>1, <3>1, BelowOff
  <2> QED BY <1>8, <2>1 DEF Smooth, MountsInv, AsBefore
<1>13. \A L : Labels(entry, mounts, L) => Labels(entry, mounts', L)
  BY <1>1, MountKeepsLabels DEF Shows
<1> QED BY <1>2, <1>3, <1>9, <1>10, <1>11, <1>12, <1>13, SmoothMount DEF Mounting, MountsInv

\* apply_private_mounts, and a blocked directory.
LEMMA SmoothTmpfs == ASSUME Sound, Smooth, Workable(job), MountTmpfs PROVE Smooth'
<1>1. Doing \in {"tmpfs", "shadow"}
  BY DEF MountTmpfs, Now, Doing
<1>2. fresh \in Nat /\ fresh' = fresh + 1
  BY DEF Sound, TreeInv, Known, MountTmpfs
<1>3. EmptyDir \in Inode /\ EmptyDir.fs # "disk" /\ EmptyDir.kind # "link"
  BY <1>2 DEF EmptyDir, Inode
<1>4. Mounted(One(On(fd, EmptyDir, FALSE)))
  BY DEF MountTmpfs
<1>5. fresh' \in Nat /\ fresh' >= fresh
  BY <1>2
<1> QED BY <1>1, <1>3, <1>4, <1>5, SmoothMask

\* A blocked file.
LEMMA SmoothNull == ASSUME Sound, Smooth, Workable(job), MountNull PROVE Smooth'
<1>1. Doing \in {"tmpfs", "shadow"}
  BY DEF MountNull, Now, Doing
<1>2. fresh \in Nat /\ fresh' = fresh
  BY DEF Sound, TreeInv, Known, MountNull
<1>3. DevNull \in Inode /\ DevNull.fs # "disk" /\ DevNull.kind # "link"
  BY DEF DevNull, Inode
<1>4. Mounted(One(On(fd, DevNull, FALSE)))
  BY DEF MountNull
<1>5. fresh' \in Nat /\ fresh' >= fresh
  BY <1>2
<1> QED BY <1>1, <1>3, <1>4, <1>5, SmoothMask

\* "/" leads through no mount.
LEMMA NoneAbove == \A F : ~Hit(entry, mounts, F, <<>>)
BY PrefixOrder DEF Hit, Reaches

\* A bind of P on itself, after the masks.
Bound(P, F, ro, n, N) ==
    /\ P \in Paths /\ P # <<>> /\ P \in BoundPaths /\ Original(P) # Nowhere /\ Plain(plan, P)
    /\ \A k \in DOMAIN plan : plan[k].op \notin Masking
    /\ OneMore(mounts, F, F.ino, ro, n, N) /\ ResolveIn(entry, mounts, P) = F

\* No mount of the host lies on the way from P along p and one component more.
LEMMA BoundBelow ==
    ASSUME Sound, NEW P, NEW F, NEW ro, NEW n, NEW N, Bound(P, F, ro, n, N), F.ino.fs = "disk",
           NEW p \in Seq(Names), NEW c \in Names, Append(p, c) \in Paths, Hit(entry, mounts, F, p),
           Plain(plan, Append(p, c))
    PROVE  Plain(plan, p) /\ HostMount(Append(p, c)) = HostMount(p)
<1>1. /\ Entries(entry) /\ Closed(entry) /\ Hung(mounts) /\ Labelled(entry, mounts)
      /\ P \in Paths /\ P \in Seq(Names) /\ P # <<>> /\ P \in BoundPaths
      /\ ResolveIn(entry, mounts, P) = F
      /\ p \in Paths /\ Append(p, c) \in Seq(Names)
  BY PathFacts, Longer DEF Sound, TreeInv, Bound
<1>2. PICK v : Reaches(entry, mounts, F, v, p)
  BY DEF Hit
<1>3. IsPrefix(P, p)
  <2>1. v = P
    BY <1>1, <1>2, OnlyByItself
  <2> QED BY <1>2, <2>1 DEF Reaches
<1>4. /\ IsPrefix(p, Append(p, c)) /\ p # Append(p, c) /\ IsPrefix(P, Append(p, c)) /\ P # Append(p, c)
      /\ \A w \in Seq(Names) : IsPrefix(w, p) => IsPrefix(w, Append(p, c))
  <2>1. IsPrefix(p, Append(p, c)) /\ p # Append(p, c)
    BY PrefixLonger
  <2>2. \A w \in Seq(Names) : IsPrefix(w, p) => IsPrefix(w, Append(p, c))
    BY PrefixLonger
  <2>3. P # Append(p, c)
    BY <1>1, <1>3, <2>1, PrefixBoth
  <2> QED BY <1>1, <1>3, <2>1, <2>2, <2>3
<1>5. \A q \in BoundPaths, w \in Seq(Names) : IsPrefix(w, Append(p, c)) => ~MountBetween(q, w)
  BY DEF Plain, Bound
<1>6. Plain(plan, p)
  BY <1>4, <1>5 DEF Plain
<1>7. HostMount(Append(p, c)) = HostMount(P)
  <2>1. ~MountBetween(P, Append(p, c))
    BY <1>1, <1>5, PrefixOrder
  <2> QED BY <1>1, <1>4, <2>1 DEF MountBetween, Beneath, IsStrictPrefix
<1>8. HostMount(p) = HostMount(P)
  <2>1. ~MountBetween(P, p)
    BY <1>1, <1>4, <1>5
  <2> QED BY <1>1, <1>3, <2>1 DEF MountBetween, Beneath, IsStrictPrefix
<1> QED BY <1>6, <1>7, <1>8

\* What a path through the bind shows: the disk, and what it led to before.
BoundShown(N, p) ==
    LET y == ResolveIn(entry, N, p) IN
    /\ y # NoPlace => y.ino.fs = "disk"
    /\ Plain(plan, p) /\ y # NoPlace => Before(p, y)
    /\ Plain(plan, p) /\ Original(p) # Nowhere => y # NoPlace

\* One component more does, too.
LEMMA BoundStep ==
    ASSUME Sound, Smooth, NEW P, NEW F, NEW ro, NEW n, NEW N, Bound(P, F, ro, n, N), F.ino.fs = "disk",
           NEW p \in Seq(Names), NEW c \in Names, Append(p, c) \in Paths, Hit(entry, mounts, F, p),
           BoundShown(N, p)
    PROVE  BoundShown(N, Append(p, c))
<1> DEFINE q == Append(p, c)
           y == ResolveIn(entry, N, p)
           z == ResolveIn(entry, N, q)
           e == <<y.ino, c>>
<1>1. Entries(entry) /\ EntryInv /\ OneMore(mounts, F, F.ino, ro, n, N) /\ q \in Seq(Names)
  BY Longer DEF Sound, TreeInv, Smooth, Bound
<1>2. Hung(N)
  <2>1. Grown(mounts, F, F.ino, ro, n, N)
    BY <1>1, OneMoreFacts
  <2> QED BY <2>1 DEF Grown
<1>3. z = EnterIn(entry, N, y, c) /\ y \in Spot
  BY <1>1, <1>2, ResolveFacts
<1>4. y = NoPlace \/ y.mnt = n
  <2>1. Effect(entry, mounts, F, F.ino, n, N, p)
    BY <1>1, OneEffect
  <2> QED BY <2>1 DEF Effect
<1>5. /\ z # NoPlace <=> e \in DOMAIN entry
      /\ z # NoPlace => y # NoPlace /\ y \in Place
  <2> HIDE DEF y, z
  <2>1. z # NoPlace <=> e \in DOMAIN entry
    BY <1>1, <1>2, <1>3, EnterFacts
  <2>2. z # NoPlace => y \in Place
    BY <1>1, <1>2, <1>3, EnterFacts
  <2> QED BY <2>1, <2>2, SpotFacts
<1>6. z # NoPlace => z.ino = entry[e]
  BY <1>1, <1>3, <1>4, EnterNew
<1>7. Plain(plan, q) => Plain(plan, p) /\ HostMount(q) = HostMount(p)
  BY BoundBelow
<1>8. LET o == <<Original(p), c>> IN
          /\ Original(q) # Nowhere <=> o \in DOMAIN Disk
          /\ o \in DOMAIN Disk => /\ Original(p) # Nowhere
                                  /\ HostMount(p) = HostMount(q) => Original(q) = Disk[o]
  BY OriginalFacts
<1>9. \A x \in DOMAIN Disk : x \in DOMAIN entry /\ entry[x] = Disk[x] /\ x[1].id < FirstNew /\ x[1] \in Inode
  BY <1>1, DiskAssumption DEF EntryInv, OnDisk
<1>10. \A x \in DOMAIN entry : entry[x].fs = "disk" /\ (x \in DOMAIN Disk \/ entry[x].id >= FirstNew)
  BY <1>1 DEF EntryInv
<1>11. /\ y # NoPlace => y.ino.fs = "disk"
       /\ Plain(plan, p) /\ y # NoPlace => y.ino = Original(p) \/ (Original(p) = Nowhere /\ y.ino.id >= FirstNew)
       /\ Plain(plan, p) /\ Original(p) # Nowhere => y # NoPlace
  BY DEF BoundShown, Before
<1> HIDE DEF q, y, z
<1>12. z # NoPlace => z.ino.fs = "disk"
  BY <1>5, <1>6, <1>10
<1>13. ASSUME Plain(plan, q), z # NoPlace
       PROVE  z.ino = Original(q) \/ (Original(q) = Nowhere /\ z.ino.id >= FirstNew)
  <2>1. y.ino = Original(p) \/ (Original(p) = Nowhere /\ y.ino.id >= FirstNew)
    BY <1>5, <1>7, <1>11, <1>13
  <2>2. e \in DOMAIN entry /\ z.ino = entry[e]
    BY <1>5, <1>6, <1>13
  <2>3. CASE e \in DOMAIN Disk
    <3>1. y.ino \in Inode /\ y.ino.id < FirstNew
      BY <1>9, <2>3
    <3>2. y.ino = Original(p)
      BY <2>1, <3>1 DEF Inode, FirstNew
    <3> QED BY <1>7, <1>8, <1>9, <1>13, <2>2, <2>3, <3>2
  <2>4. CASE e \notin DOMAIN Disk
    <3>1. entry[e].id >= FirstNew
      BY <1>10, <2>2, <2>4
    <3>2. Original(q) = Nowhere
      BY <1>8, <2>1, <2>4
    <3> QED BY <2>2, <3>1, <3>2
  <2> QED BY <2>3, <2>4
<1>14. ASSUME Plain(plan, q), Original(q) # Nowhere PROVE z # NoPlace
  <2>1. <<Original(p), c>> \in DOMAIN Disk /\ Original(p) # Nowhere
    BY <1>8, <1>14
  <2>2. y.ino = Original(p)
    BY <1>7, <1>11, <1>14, <2>1
  <2> QED BY <1>5, <1>9, <2>1, <2>2
<1> QED BY <1>12, <1>13, <1>14 DEF BoundShown, Before, q, z

\* A bind of a place of the disk on itself shows all there is beneath it.
LEMMA BoundShows ==
    ASSUME Sound, Smooth, NEW P, NEW F, NEW ro, NEW n, NEW N, Bound(P, F, ro, n, N), F.ino.fs = "disk",
           NEW u \in Paths, Hit(entry, mounts, F, u)
    PROVE  BoundShown(N, u)
<1> DEFINE S == {p \in Paths : Hit(entry, mounts, F, p) => BoundShown(N, p)}
<1>1. <<>> \in S
  BY PathFacts, NoneAbove
<1>2. ASSUME NEW p \in Seq(Names), NEW c \in Names, Append(p, c) \in Paths, p \in S
      PROVE  Append(p, c) \in S
  <2> SUFFICES ASSUME Hit(entry, mounts, F, Append(p, c)) PROVE BoundShown(N, Append(p, c))
    BY <1>2
  <2>1. CASE ~Hit(entry, mounts, F, p)
    <3>1. /\ Entries(entry) /\ Closed(entry) /\ Hung(mounts) /\ Labelled(entry, mounts)
          /\ OneMore(mounts, F, F.ino, ro, n, N) /\ ResolveIn(entry, mounts, P) = F
          /\ P \in Paths /\ P \in Seq(Names) /\ Append(p, c) \in Seq(Names)
      BY PathFacts, Longer DEF Sound, TreeInv, Bound
    <3>2. /\ ResolveIn(entry, N, Append(p, c)) = [mnt |-> n, ino |-> F.ino]
          /\ ResolveIn(entry, mounts, Append(p, c)) = F
      BY <2>1, <3>1, FirstHit
    <3>3. Append(p, c) = P
      BY <3>1, <3>2, OnePath
    <3>4. F # NoPlace /\ [mnt |-> n, ino |-> F.ino] # NoPlace
      <4>1. F.ino # NoPlace.ino
        BY DiskFacts
      <4> QED BY <4>1
    <3>5. Plain(plan, P) => Before(P, F)
      BY <3>1, <3>4 DEF Smooth, MountsInv, AsBefore
    <3> QED BY <3>2, <3>3, <3>4, <3>5 DEF BoundShown, Before
  <2>2. CASE Hit(entry, mounts, F, p)
    <3>1. BoundShown(N, p)
      BY <1>2, <2>2, Longer
    <3> QED BY <1>2, <2>2, <3>1, BoundStep
  <2> QED BY <2>1, <2>2
<1> HIDE DEF S
<1>3. \A p \in Paths : p \in S
  BY <1>1, <1>2, PathInduction
<1> QED BY <1>3 DEF S

\* So the bind of a path on itself hides nothing and takes nothing away.
LEMMA BindHides ==
    ASSUME Sound, Smooth, NEW P, NEW F, NEW ro, NEW n, NEW N, Bound(P, F, ro, n, N)
    PROVE  AsBefore(N, plan) /\ HiddenBy(N, plan) /\ GoneBelow(N, plan)
<1>1. /\ Entries(entry) /\ Closed(entry) /\ F.ino \in Inode /\ P \in Paths
      /\ OneMore(mounts, F, F.ino, ro, n, N) /\ ResolveIn(entry, mounts, P) = F
  BY DEF Sound, TreeInv, Bound, OneMore
<1>2. ASSUME NEW u \in Paths, F.ino.fs = "disk", Hit(entry, mounts, F, u) PROVE BoundShown(N, u)
  BY <1>2, BoundShows
<1>3. ASSUME NEW u \in Paths, F.ino.fs # "disk", Hit(entry, mounts, F, u)
      PROVE  /\ \E w \in MaskPaths : IsPrefix(w, u) /\ Free(plan, w)
             /\ ResolveIn(entry, N, u) = NoPlace => \E w \in MaskPaths : IsStrictPrefix(w, u) /\ Free(plan, w)
  <2>1. Screened(P, F, F.ino, n, N, u)
    BY <1>1, <1>3, HitScreened
  <2>2. PICK v \in Seq(Names) :
            /\ IsPrefix(v, u) /\ v \in Paths /\ ResolveIn(entry, N, v) = [mnt |-> n, ino |-> F.ino]
            /\ \E w \in MaskPaths : IsPrefix(w, v) /\ w \in Seq(Names) /\ Free(plan, w)
    BY <1>3, <2>1 DEF Screened
  <2>3. PICK w \in MaskPaths : IsPrefix(w, v) /\ w \in Seq(Names) /\ Free(plan, w)
    BY <2>2
  <2>4. IsPrefix(w, u) /\ u \in Seq(Names)
    BY <2>2, <2>3, PathFacts, PrefixOrder
  <2>5. ASSUME ResolveIn(entry, N, u) = NoPlace PROVE IsStrictPrefix(w, u)
    <3>1. ResolveIn(entry, N, v) # NoPlace
      <4>1. [mnt |-> n, ino |-> F.ino].ino # NoPlace.ino
        BY <1>1, SpotFacts DEF NoPlace
      <4> QED BY <2>2, <4>1
    <3>2. v # u
      BY <2>5, <3>1
    <3>3. w # u
      BY <2>2, <2>3, <2>4, <3>2, PrefixBoth
    <3> QED BY <2>4, <3>3 DEF IsStrictPrefix
  <2> QED BY <2>3, <2>4, <2>5
<1>4. ASSUME NEW u \in Paths, ~Hit(entry, mounts, F, u)
      PROVE  ResolveIn(entry, N, u) = ResolveIn(entry, mounts, u)
  BY <1>1, <1>4, NotHit
<1>5. HiddenBy(N, plan)
  <2> SUFFICES ASSUME NEW u \in Paths, ResolveIn(entry, N, u) # NoPlace, ResolveIn(entry, N, u).ino.fs # "disk"
               PROVE  \E v \in MaskPaths : IsPrefix(v, u) /\ Free(plan, v)
    BY DEF HiddenBy
  <2>1. CASE Hit(entry, mounts, F, u)
    BY <1>2, <1>3, <2>1 DEF BoundShown
  <2>2. CASE ~Hit(entry, mounts, F, u)
    BY <1>4, <2>2 DEF Smooth, MountsInv, HiddenBy
  <2> QED BY <2>1, <2>2
<1>6. GoneBelow(N, plan)
  <2> SUFFICES ASSUME NEW u \in Paths, Plain(plan, u), Original(u) # Nowhere, ResolveIn(entry, N, u) = NoPlace
               PROVE  \E v \in MaskPaths : IsStrictPrefix(v, u) /\ Free(plan, v)
    BY DEF GoneBelow
  <2>1. CASE Hit(entry, mounts, F, u)
    BY <1>2, <1>3, <2>1 DEF BoundShown
  <2>2. CASE ~Hit(entry, mounts, F, u)
    BY <1>4, <2>2 DEF Smooth, MountsInv, GoneBelow
  <2> QED BY <2>1, <2>2
<1>7. AsBefore(N, plan)
  <2> SUFFICES ASSUME NEW u \in Paths, Plain(plan, u), ResolveIn(entry, N, u) # NoPlace,
                      ResolveIn(entry, N, u).ino.fs = "disk"
               PROVE  Before(u, ResolveIn(entry, N, u))
    BY DEF AsBefore
  <2>1. CASE Hit(entry, mounts, F, u)
    <3>1. F.ino.fs = "disk"
      BY <1>1, <2>1, BelowOff, PathFacts
    <3> QED BY <1>2, <2>1, <3>1 DEF BoundShown
  <2>2. CASE ~Hit(entry, mounts, F, u)
    BY <1>4, <2>2 DEF Smooth, MountsInv, AsBefore
  <2> QED BY <2>1, <2>2
<1> QED BY <1>5, <1>6, <1>7

\* The self-bind of apply_readonly_mounts and pin_path_at_fd.
LEMMA SmoothBind == ASSUME Sound, Smooth, Workable(job), Bind, ~Fail PROVE Smooth'
<1> DEFINE P == Here.path
           n == Youngest(mounts) + 1
           ro == ReadOnly(fd.mnt)
<1>1. /\ Doing = "bind" /\ code # <<>> /\ fresh' = fresh /\ first' = fd.ino /\ Mounted(SelfBind(fd))
      /\ Advance /\ job' = job /\ walk' = walk /\ entry' = entry
  BY DEF Bind, Now, Doing, Mounted
<1>2. Here.op \in {"readonly", "pin"} /\ PlanInv /\ job \in Jobs
  <2>1. Calls(Here.op, code)
    BY <1>1, HereFacts DEF Sound
  <2> QED BY <1>1, <2>1 DEF Calls, Doing, Sound, PlanInv
<1>3. Sensible
  BY <1>1, <1>2, HereSensible
<1>4. fresh' \in Nat /\ fresh' >= fresh
  BY <1>1 DEF Smooth, EntryInv
<1>5. CASE P # <<>>
  <2>1. /\ P \in Seq(Names) /\ P \in Paths
        /\ ResolveIn(entry, mounts, P) = fd /\ fd.ino \in Inode /\ fd.mnt \in DOMAIN mounts \cup {0}
    BY <1>1, <1>5, FdFacts DEF Uses
  <2>2. OneMore(mounts, fd, fd.ino, ro, n, mounts')
    <3>1. Mounted(One(On(fd, fd.ino, ro)))
      BY <1>1 DEF SelfBind
    <3>2. ro \in BOOLEAN
      <4>1. ro = (fd.mnt > 0 /\ mounts[fd.mnt].ro)
        BY DEF ReadOnly
      <4> QED BY <4>1
    <3> HIDE DEF ro
    <3> QED BY <1>1, <1>5, <2>1, <3>1, <3>2, MountedIsOneMore DEF Uses
  <2> HIDE DEF n, ro, P
  <2>3. Original(P) # Nowhere
    BY <1>2, <1>3 DEF Sensible, P
  <2>10. Plain(plan, P)
    BY <1>1, <1>2, <2>1, HerePlain, PrefixOrder DEF P
  <2>4. AsBefore(mounts', plan) /\ HiddenBy(mounts', plan) /\ GoneBelow(mounts', plan)
    <3>1. P \in BoundPaths
      <4>1. Here \in Planned(job)
        BY <1>1, <1>2, HereFacts
      <4> QED BY <1>2, <4>1 DEF Planned, BoundPaths, P
    <3>2. \A k \in DOMAIN plan : plan[k].op \notin Masking
      <4>1. MasksFirst(plan) /\ plan # <<>> /\ plan \in Seq(Planned(job))
        BY <1>1, <1>2, HereFacts DEF Smooth, PlanInv
      <4>2. 1 \in DOMAIN plan /\ Here = plan[1] /\ \A k \in DOMAIN plan : k = 1 \/ 1 < k
        BY <4>1 DEF Here
      <4>3. plan[1].op \notin Masking
        BY <1>2, <4>2 DEF Masking
      <4> QED BY <4>1, <4>2, <4>3 DEF MasksFirst
    <3>3. Bound(P, fd, ro, n, mounts')
      BY <1>5, <2>1, <2>2, <2>3, <2>10, <3>1, <3>2 DEF Bound
    <3> QED BY <3>3, BindHides
  <2>5. Grown(mounts, fd, fd.ino, ro, n, mounts')
    BY <2>2, OneMoreFacts
  <2>6. ResolveIn(entry, mounts, P) # NoPlace
    <3>1. fd.ino # NoPlace.ino
      BY <2>1, SpotFacts DEF NoPlace
    <3> QED BY <2>1, <3>1
  <2>7. fd.ino.kind # "link"
    <3>2. Original(P).kind # "link"
      <4>1. IsPrefix(P, P)
        BY <2>1, PrefixOrder
      <4> QED BY <1>3, <1>5, <2>1, <4>1 DEF Sensible, P
    <3>3. Resolve(P).ino.kind # "link"
      BY <1>5, <2>1, <2>6, <2>10, <3>2, NoLink DEF Resolve
    <3> QED BY <2>1, <3>3 DEF Resolve
  <2>8. RootInv(mounts')
    <3> SUFFICES ASSUME NEW k \in DOMAIN mounts' PROVE NewRoot(mounts'[k].root)
      BY DEF RootInv
    <3>1. CASE k = n
      BY <2>5, <2>7, <3>1 DEF Grown, NewRoot
    <3>2. CASE k # n
      BY <2>5, <3>2 DEF Grown, Smooth, MountsInv, RootInv
    <3> QED BY <3>1, <3>2
  <2>11. \A L : Labels(entry, mounts, L) => Labels(entry, mounts', L)
    BY <2>2, MountKeepsLabels DEF Shows
  <2>9. ASSUME Here.op = "readonly"
        PROVE  LET x == ResolveIn(entry, mounts', P)
               IN  first' = x.ino /\ x.mnt \in DOMAIN mounts' /\ mounts'[x.mnt].root = first'
    <3>1. Hit(entry, mounts, fd, P)
      <4>1. Reaches(entry, mounts, fd, P, P)
        BY <1>5, <2>1, PrefixOrder DEF Reaches
      <4> QED BY <4>1 DEF Hit
    <3>2. Screened(P, fd, fd.ino, n, mounts', P)
      BY <2>1, <2>2, <3>1, HitScreened
    <3>3. PICK v \in Seq(Names) :
              /\ IsPrefix(v, P) /\ ResolveIn(entry, mounts', v) = [mnt |-> n, ino |-> fd.ino]
              /\ fd.ino.fs = "disk" => v = P
              /\ fd.ino.fs # "disk" => \E w \in MaskPaths : IsPrefix(w, v) /\ w \in Seq(Names) /\ Free(plan, w)
      BY <3>2 DEF Screened
    <3>4. v = P
      <4> SUFFICES ASSUME fd.ino.fs # "disk" PROVE v = P
        BY <3>3
      <4>1. PICK w \in MaskPaths : IsPrefix(w, v) /\ w \in Seq(Names) /\ Free(plan, w)
        BY <3>3
      <4>2. IsPrefix(w, P)
        BY <2>1, <3>3, <4>1, PrefixOrder
      <4>3. w = P
        BY <1>1, <1>2, <4>1, <4>2, Clear DEF P
      <4> QED BY <2>1, <3>3, <4>1, <4>3, PrefixBoth
    <3>5. ResolveIn(entry, mounts', P) = [mnt |-> n, ino |-> fd.ino]
      BY <3>3, <3>4
    <3>6. n \in DOMAIN mounts' /\ mounts'[n].root = fd.ino
      BY <2>5 DEF Grown
    <3> QED BY <1>1, <3>5, <3>6
  <2> QED BY <1>1, <1>4, <2>4, <2>8, <2>9, <2>11, SmoothMount DEF Mounting, MountsInv, P
<1>6. CASE P = <<>>
  <2>1. PICK F : F.ino = Root /\ OneMore(mounts, F, Root, FALSE, n, mounts')
    BY <1>1, <1>6, RootBound
  <2> HIDE DEF n
  <2>2. Entries(entry) /\ Closed(entry) /\ Hung(mounts) /\ Labelled(entry, mounts)
    BY DEF Sound, TreeInv
  <2>3. \A u \in Paths : ~Hit(entry, mounts, F, u)
    <3> SUFFICES ASSUME NEW u \in Paths, NEW v, Reaches(entry, mounts, F, v, u) PROVE FALSE
      BY DEF Hit
    <3>1. v \in Seq(Names) /\ v # <<>> /\ IsPrefix(v, u) /\ ResolveIn(entry, mounts, v).ino = Root
      BY <2>1 DEF Reaches
    <3>2. <<>> \in Seq(Names) /\ ResolveIn(entry, mounts, <<>>).ino = Root /\ Root.fs = "disk"
      BY <2>2, DiskFacts, ResolveFacts
    <3> QED BY <2>2, <3>1, <3>2, OnePath
  <2>4. \A u \in Paths : ResolveIn(entry, mounts', u) = ResolveIn(entry, mounts, u)
    BY <2>1, <2>2, <2>3, NotHit
  <2>5. AsBefore(mounts', plan) /\ HiddenBy(mounts', plan) /\ GoneBelow(mounts', plan)
    BY <2>4 DEF Smooth, MountsInv, AsBefore, HiddenBy, GoneBelow
  <2>6. Grown(mounts, F, Root, FALSE, n, mounts')
    BY <2>1, OneMoreFacts
  <2>7. RootInv(mounts')
    <3> SUFFICES ASSUME NEW k \in DOMAIN mounts' PROVE NewRoot(mounts'[k].root)
      BY DEF RootInv
    <3>1. CASE k = n
      BY <2>6, <3>1, DiskAssumption DEF Grown, NewRoot
    <3>2. CASE k # n
      BY <2>6, <3>2 DEF Grown, Smooth, MountsInv, RootInv
    <3> QED BY <3>1, <3>2
  <2>9. \A L : Labels(entry, mounts, L) => Labels(entry, mounts', L)
    BY <2>1, MountKeepsLabels DEF Shows
  <2>8. Here.op = "pin"
    BY <1>1, <1>6, UsedPath DEF Uses
  <2> QED BY <1>1, <1>4, <2>5, <2>7, <2>8, <2>9, SmoothMount DEF Mounting, MountsInv
<1> QED BY <1>5, <1>6

\* pin_validated_path_parent: every path shows what it showed.
LEMMA SmoothParent == ASSUME Sound, Smooth, Workable(job), BindParent PROVE Smooth'
<1> DEFINE s == Youngest(mounts) + 1
           B == MountsBelow(fd)
           ro == ReadOnly(fd.mnt)
<1>1. Doing = "bindrec"
  BY DEF BindParent, Now, Doing
<1>2. /\ code # <<>> /\ fd \in Place /\ fd.mnt \in DOMAIN mounts \cup {0}
      /\ TopIn(mounts, fd) = fd /\ fd = ResolveIn(entry, mounts, Here.path) /\ Here.path \in Paths /\ Here.path # <<>>
  <2>1. Here.path # <<>>
    BY <1>1, UsedPath DEF Uses
  <2> QED BY <1>1, <2>1, FdFacts DEF Uses
<1>3. Entries(entry) /\ Hung(mounts)
  BY DEF Sound, TreeInv
<1>4. /\ Mounted(SelfBindRec(fd)) /\ fresh' = fresh
      /\ Advance /\ job' = job /\ walk' = walk /\ entry' = entry
  BY DEF BindParent, Mounted
<1>5. mounts' = [k \in DOMAIN mounts \cup DOMAIN SelfBindRec(fd) |->
                    IF k \in DOMAIN SelfBindRec(fd) THEN SelfBindRec(fd)[k] ELSE mounts[k]]
  BY <1>4 DEF Mounted
<1>6. /\ Copies(mounts, fd, Below(fd.ino), B, s, ro, mounts')
      /\ B \in SUBSET Nat /\ s \in Nat
  BY <1>2, <1>3, <1>5, BindParentCopies DEF Top
<1> HIDE DEF s, B, ro
<1>7. \A u \in Paths : SameShown(fd, B, s, mounts', u)
  BY <1>2, <1>3, <1>6, CopyKeeps
<1>8. AsBefore(mounts', plan) /\ HiddenBy(mounts', plan) /\ GoneBelow(mounts', plan)
  BY <1>7 DEF Smooth, MountsInv, AsBefore, HiddenBy, GoneBelow, SameShown, Before
<1>9. fresh' \in Nat /\ fresh' >= fresh
  BY <1>4 DEF Smooth, EntryInv
<1>11. fd.ino.kind # "link"
  <2>1. Here.op = "parent" /\ PlanInv /\ job \in Jobs
    <3>1. Calls(Here.op, code)
      BY <1>2, HereFacts DEF Sound
    <3> QED BY <1>1, <1>2, <3>1 DEF Calls, Doing, Sound, PlanInv
  <2>2. Sensible
    BY <1>2, <2>1, HereSensible
  <2>3. Original(Here.path).kind # "link"
    <3>1. Here.path \in Seq(Names)
      BY <1>2, PathFacts
    <3>2. IsPrefix(Here.path, Here.path)
      BY <3>1, PrefixOrder
    <3> QED BY <1>2, <2>2, <3>1, <3>2 DEF Sensible
  <2>4. Plain(plan, Here.path)
    BY <1>2, <2>1, HerePlain, PathFacts, PrefixOrder
  <2>5. Resolve(Here.path) = fd /\ fd # NoPlace
    BY <1>2, SpotFacts DEF Resolve
  <2> QED BY <1>2, <2>3, <2>4, <2>5, NoLink
<1>12. \A L : Labels(entry, mounts, L) => Labels(entry, mounts', L)
  BY <1>2, <1>6, CopyKeepsLabels
<1>10. RootInv(mounts')
  <2>1. \A k \in DOMAIN mounts : NewRoot(mounts[k].root)
    BY DEF Smooth, MountsInv, RootInv
  <2> SUFFICES ASSUME NEW k \in DOMAIN mounts' PROVE NewRoot(mounts'[k].root)
    BY DEF RootInv
  <2>2. CASE k \in DOMAIN mounts
    BY <1>6, <2>1, <2>2 DEF Copies
  <2>3. CASE k = fd.mnt + s
    <3>1. mounts'[k].root = fd.ino
      BY <1>6, <2>3 DEF Copies, BindAt
    <3> QED BY <1>11, <3>1 DEF NewRoot
  <2>4. ASSUME NEW i \in B, k = i + s PROVE NewRoot(mounts'[k].root)
    <3>1. mounts'[i + s] = CopyOf(mounts, i, s)
      BY <1>6, <2>4 DEF Copies
    <3>2. AreBelow(mounts, fd.mnt, Below(fd.ino), B)
      BY <1>6 DEF Copies
    <3>3. i \in DOMAIN mounts
      BY <2>4, <3>2 DEF AreBelow
    <3>4. mounts'[k].root = mounts[i].root
      BY <2>4, <3>1 DEF CopyOf
    <3> QED BY <2>1, <3>3, <3>4
  <2> QED BY <1>6, <2>2, <2>3, <2>4 DEF Copies
<1> QED BY <1>1, <1>2, <1>4, <1>8, <1>9, <1>10, <1>12, SmoothMount DEF Mounting, MountsInv

\* The remount of apply_readonly_mounts.
LEMMA SmoothRemount == ASSUME Sound, Smooth, RemountReadOnly, ~Fail PROVE Smooth'
<1>1. /\ Doing = "remount" /\ code # <<>>
      /\ fd.mnt > 0 /\ mounts' = [mounts EXCEPT ![fd.mnt].ro = TRUE] /\ Advance
      /\ entry' = entry /\ fresh' = fresh /\ job' = job /\ walk' = walk
  BY DEF RemountReadOnly, Now, Doing
<1>2. Here.path # <<>>
  BY <1>1, UsedPath DEF Uses
<1>3. Entries(entry) /\ Hung(mounts) /\ fd.mnt \in DOMAIN mounts
  <2>1. fd.mnt \in DOMAIN mounts \cup {0}
    BY <1>1, <1>2, FdFacts DEF Uses
  <2> QED BY <1>1, <2>1 DEF Sound, TreeInv
<1>4. Remounted(mounts, fd.mnt, mounts')
  BY <1>1, <1>3 DEF Remounted
<1>5. \A u \in Paths : ResolveIn(entry, mounts', u) = ResolveIn(entry, mounts, u)
  BY <1>3, <1>4, RemountPlaces, PathFacts
<1>6. AsBefore(mounts', plan) /\ HiddenBy(mounts', plan) /\ GoneBelow(mounts', plan)
  BY <1>5 DEF Smooth, MountsInv, AsBefore, HiddenBy, GoneBelow
<1>7. Alike(mounts, fd.mnt, mounts')
  BY <1>4, RemountFacts
<1>8. RootInv(mounts')
  BY <1>7 DEF Alike, Smooth, MountsInv, RootInv
<1>10. \A L : Labels(entry, mounts, L) => Labels(entry, mounts', L)
  BY <1>4, RemountKeepsLabels
<1>9. fresh' \in Nat /\ fresh' >= fresh
  BY <1>1 DEF Smooth, EntryInv
<1> QED BY <1>1, <1>6, <1>8, <1>9, <1>10, SmoothMount DEF Mounting, MountsInv


\* What mkdirat and openat(O_CREAT) make is one new entry.
LEMMA MakeIsEntry ==
    ASSUME Sound, Smooth, Workable(job), MakeComponent, <<walk.at.ino, Component>> \notin DOMAIN entry
    PROVE  \E made : /\ OneEntry(entry, walk.at.ino, Component, made, fresh, entry')
                     /\ made.kind = IF walk.depth + 1 = Len(Here.path) THEN "file" ELSE "dir"
                     /\ fresh' = fresh + 1
<1> DEFINE d == walk.at.ino
           c == Component
           kind == IF walk.depth + 1 = Len(Here.path) THEN "file" ELSE "dir"
           made == [fs |-> walk.at.ino.fs, kind |-> kind, id |-> fresh]
<1>1. PICK q : Underway(q)
  BY WalkUnderway DEF MakeComponent
<1>2. /\ d \in Inode /\ c \in Names /\ Entries(entry) /\ Known(entry, mounts, fresh) /\ Hung(mounts)
      /\ Trail \in Seq(Names) /\ walk.at = ResolveIn(entry, mounts, Trail) /\ walk.at # NoPlace
  BY <1>1 DEF Underway, Place, Sound, TreeInv, Resolve
<1>3. /\ entry' = [e \in DOMAIN entry \cup {<<d, c>>} |-> IF e = <<d, c>> THEN made ELSE entry[e]]
      /\ fresh' = fresh + 1
  BY DEF MakeComponent
<1>4. d.id < fresh /\ fresh \in Nat
  <2>1. ResolveIn(entry, mounts, Trail).ino.id < fresh
    BY <1>2, ResolvedKnown
  <2> QED BY <1>2, <2>1 DEF Known
<1>5. made \in Inode /\ made.id = fresh /\ made.fs = d.fs /\ made.kind = kind
  BY <1>2, <1>4 DEF Inode
<1> HIDE DEF made, d, c
<1>6. OneEntry(entry, d, c, made, fresh, entry')
  <2>1. <<d, c>> \notin DOMAIN entry
    BY DEF d, c
  <2> QED BY <1>2, <1>3, <1>4, <1>5, <2>1 DEF OneEntry, AddEntry
<1> QED BY <1>3, <1>5, <1>6 DEF d, c

\* What is made on the way to a blocked path is on the disk, and a directory above it.
LEMMA SmoothMake == ASSUME Sound, Smooth, Workable(job), MakeComponent PROVE Smooth'
<1> DEFINE d == walk.at.ino
           c == Component
<1>1. PICK q : Underway(q)
  BY WalkUnderway DEF MakeComponent
<1>2. /\ walk.how = "make" /\ walk' = [walk EXCEPT !.how = "again"]
      /\ UNCHANGED <<mounts, job, plan, code, fd, first>>
  BY DEF MakeComponent
<1>3. walk \in [at : Spot, depth : Nat, how : {"look", "make", "again"}]
  BY WalkFacts DEF MakeComponent
<1>4. /\ Here' = Here /\ Doing' = Doing /\ mounts' = mounts /\ job' = job
      /\ walk'.at = walk.at /\ walk'.depth = walk.depth
  BY <1>2, <1>3 DEF Here, Doing
<1>5. Component' = Component
  BY <1>4 DEF Component
<1>6. /\ Entries(entry) /\ Closed(entry) /\ Hung(mounts) /\ Known(entry, mounts, fresh) /\ Labelled(entry, mounts)
  BY DEF Sound, TreeInv
<1>7. CASE <<d, c>> \in DOMAIN entry
  <2>1. UNCHANGED <<file, job, plan, code, first>> /\ entry' = entry
    BY <1>2, <1>7 DEF MakeComponent, file
  <2>2. AgainInv'
    BY <1>4, <1>5, <1>7, <2>1 DEF AgainInv
  <2> QED BY <2>1, <2>2, SmoothWalk
<1>8. CASE <<d, c>> \notin DOMAIN entry
  <2>1. PICK made : /\ OneEntry(entry, d, c, made, fresh, entry')
                    /\ made.kind = IF walk.depth + 1 = Len(Here.path) THEN "file" ELSE "dir"
                    /\ fresh' = fresh + 1
    BY <1>8, MakeIsEntry
  <2>2. /\ d.fs = "disk" /\ Trail \in Paths /\ Trail \in Seq(Names) /\ q = Append(Trail, c)
        /\ Component \in Names /\ walk.at = ResolveIn(entry, mounts, Trail) /\ d = ResolveIn(entry, mounts, Trail).ino
        /\ ResolveIn(entry, mounts, Trail) # NoPlace /\ Plain(plan, Trail)
    BY <1>1 DEF Underway, Resolve
  <2> HIDE DEF d, c
  <2>3. /\ made.fs = "disk" /\ made.kind # "link" /\ made.id = fresh /\ d \in Inode
        /\ Entries(entry') /\ DOMAIN entry' = DOMAIN entry \cup {<<d, c>>} /\ entry'[<<d, c>>] = made
        /\ \A e \in DOMAIN entry : entry'[e] = entry[e]
    <3>1. OneEntry(entry, d, c, made, fresh, entry') /\ made.kind # "link"
      BY <2>1
    <3>2. /\ Entries(entry') /\ DOMAIN entry' = DOMAIN entry \cup {<<d, c>>} /\ entry'[<<d, c>>] = made
          /\ \A e \in DOMAIN entry : entry'[e] = entry[e] /\ e # <<d, c>>
      <4> DEFINE T == entry'
      <4>1. OneEntry(entry, d, c, made, fresh, T)
        BY <3>1
      <4> HIDE DEF T
      <4>2. DOMAIN T = DOMAIN entry \cup {<<d, c>>} /\ T[<<d, c>>] = made /\ \A e \in DOMAIN entry : T[e] = entry[e] /\ e # <<d, c>>
        BY <4>1 DEF OneEntry, AddEntry
      <4>3. Entries(T)
        BY <4>1, <4>2 DEF OneEntry, Entries
      <4> QED BY <4>2, <4>3 DEF T
    <3>3. made.fs = "disk" /\ made.id = fresh /\ d \in Inode
      BY <2>2, <3>1 DEF OneEntry
    <3> QED BY <3>1, <3>2, <3>3
  <2>4. EntryInv'
    <3>1. EntryInv
      BY DEF Smooth
    <3>2. fresh' \in Nat /\ fresh' >= FirstNew /\ fresh >= FirstNew
      BY <2>1, <3>1 DEF EntryInv, FirstNew
    <3>3. \A e \in DOMAIN Disk : e \in DOMAIN entry' /\ entry'[e] = Disk[e]
      BY <2>3, <3>1 DEF EntryInv
    <3>4. \A e \in DOMAIN entry' : /\ entry'[e].fs = "disk"
                                   /\ e \in DOMAIN Disk \/ (entry'[e].id >= FirstNew /\ entry'[e].kind # "link")
      BY <2>3, <3>1, <3>2 DEF EntryInv
    <3> QED BY <1>4, <3>1, <3>2, <3>3, <3>4 DEF EntryInv
  <2>5. \A u \in Seq(Names) : EntryEffect(entry, mounts, d, c, made, entry', u)
    BY <1>6, <2>1, EntryEffects
  <2>7. made.kind # "dir" => q \in Listed(job.blocked)
    <3> SUFFICES ASSUME made.kind # "dir" PROVE q \in Listed(job.blocked)
      OBVIOUS
    <3>1. walk.depth + 1 = Len(Here.path) /\ walk.depth \in Nat
      BY <1>3, <2>1
    <3>2. q = Here.path
      <4>1. Here.path \in Seq(Names)
        BY <1>1 DEF Underway
      <4>2. \A s \in Seq(Names), k \in Nat : k + 1 = Len(s) => Append(SubSeq(s, 1, k), s[k + 1]) = s
        OBVIOUS
      <4> QED BY <2>2, <3>1, <4>1, <4>2 DEF Trail, Component, c
    <3>3. Doing = "create"
      BY <1>1, <1>2 DEF Underway, Sound, WalkInv
    <3>4. Here.op = "blocked" /\ Here \in Planned(job)
      <4>1. Calls(Here.op, code) /\ Here \in Planned(job) /\ Head(code) = Doing
        BY <1>1, HereFacts DEF Underway, Sound, Doing
      <4> QED BY <3>3, <4>1 DEF Calls
    <3> QED BY <3>2, <3>4 DEF Planned
  <2>8. MadeInv'
    <3>1. PICK L : /\ Labels(entry, mounts, L)
                   /\ \A i, p : <<i, p>> \in L /\ i.id >= FirstNew /\ i.kind # "dir" => p \in Listed(job.blocked)
      BY DEF Smooth, MadeInv
    <3> DEFINE K == MoreLabels(L, d, c, made)
    <3>2. Labels(entry', mounts, K)
      <4> DEFINE T == entry'
      <4>1. OneEntry(entry, d, c, made, fresh, T)
        BY <2>1
      <4> HIDE DEF T
      <4>2. Labels(T, mounts, K)
        BY <1>6, <3>1, <4>1, EntryKeepsLabels
      <4> QED BY <4>2 DEF T
    <3>3. <<d, Trail>> \in L
      BY <1>6, <2>2, <3>1, LabelFacts
    <3>4. ASSUME NEW i, NEW p, <<i, p>> \in K, i.id >= FirstNew, i.kind # "dir"
          PROVE  p \in Listed(job.blocked)
      <4>1. CASE <<i, p>> \in L
        BY <3>1, <3>4, <4>1
      <4>2. CASE <<i, p>> \notin L
        <5>1. PICK s \in Seq(Names) : <<d, s>> \in L /\ <<i, p>> = <<made, Append(s, c)>>
          BY <3>4, <4>2 DEF MoreLabels
        <5>2. s = Trail
          BY <2>2, <3>1, <3>3, <5>1 DEF Labels
        <5> QED BY <2>2, <2>7, <3>4, <5>1, <5>2
      <4> QED BY <4>1, <4>2
    <3> HIDE DEF K
    <3> QED BY <1>4, <3>2, <3>4 DEF MadeInv
  <2>14. Before(q, [mnt |-> walk.at.mnt, ino |-> made])
    <3>1. made.id >= FirstNew
      BY <2>3 DEF Smooth, EntryInv
    <3>2. Before(Trail, ResolveIn(entry, mounts, Trail))
      BY <2>2 DEF Smooth, MountsInv, AsBefore
    <3>3. <<Original(Trail), c>> \notin DOMAIN Disk
      <4> SUFFICES ASSUME <<Original(Trail), c>> \in DOMAIN Disk PROVE FALSE
        OBVIOUS
      <4>1. Original(Trail) # Nowhere
        BY <2>2, OriginalFacts DEF c
      <4>2. Original(Trail) = d
        BY <2>2, <3>2, <4>1 DEF Before
      <4> QED BY <1>8, <4>2 DEF Smooth, EntryInv, d, c
    <3>4. Original(q) = Nowhere
      BY <2>2, <3>3, OriginalFacts DEF c
    <3> QED BY <3>1, <3>4 DEF Before
  <2>15. ASSUME NEW u \in Paths, ResolveIn(entry, mounts, u) = NoPlace, ResolveIn(entry', mounts, u) # NoPlace
         PROVE  ResolveIn(entry', mounts, u).ino = made /\ u = q
    <3>1. u \in Seq(Names)
      BY PathFacts
    <3>2. MadeAt(entry, mounts, d, c, made, u, ResolveIn(entry', mounts, u))
      BY <2>5, <2>15, <3>1 DEF EntryEffect
    <3>3. PICK s \in Seq(Names) : /\ u = Append(s, c) /\ ResolveIn(entry, mounts, s).ino = d
                                  /\ ResolveIn(entry', mounts, u).ino = made
      BY <3>2 DEF MadeAt
    <3>4. s = Trail
      BY <1>6, <2>2, <3>3, OnePath
    <3> QED BY <2>2, <3>3, <3>4
  <2>16. \A u \in Paths : ResolveIn(entry, mounts, u) # NoPlace =>
             ResolveIn(entry', mounts, u) = ResolveIn(entry, mounts, u)
    BY <2>5, PathFacts DEF EntryEffect
  <2>17. MaskPaths' = MaskPaths /\ \A v : /\ Free(plan, v)' <=> Free(plan, v)
                                          /\ Plain(plan, v)' <=> Plain(plan, v)
    <3>1. MaskPaths' = MaskPaths /\ BoundPaths' = BoundPaths
      BY <1>2 DEF MaskPaths, BoundPaths, PinPaths
    <3> QED BY <1>2, <3>1 DEF Free, Plain
  <2>18. AsBefore(mounts, plan)'
    <3> SUFFICES ASSUME NEW u \in Paths, Plain(plan, u), ResolveIn(entry', mounts, u) # NoPlace,
                        ResolveIn(entry', mounts, u).ino.fs = "disk"
                 PROVE  Before(u, ResolveIn(entry', mounts, u))
      BY <1>2, <2>17 DEF AsBefore, Before
    <3>1. CASE ResolveIn(entry, mounts, u) # NoPlace
      BY <2>16, <3>1 DEF Smooth, MountsInv, AsBefore
    <3>2. CASE ResolveIn(entry, mounts, u) = NoPlace
      BY <2>14, <2>15, <3>2 DEF Before
    <3> QED BY <3>1, <3>2
  <2>9. HiddenBy(mounts, plan)'
    <3> SUFFICES ASSUME NEW u \in Paths, ResolveIn(entry', mounts, u) # NoPlace,
                        ResolveIn(entry', mounts, u).ino.fs # "disk"
                 PROVE  \E v \in MaskPaths : IsPrefix(v, u) /\ Free(plan, v)
      BY <1>2, <2>17 DEF HiddenBy
    <3>1. ResolveIn(entry, mounts, u) # NoPlace
      BY <2>3, <2>15
    <3> QED BY <2>16, <3>1 DEF Smooth, MountsInv, HiddenBy
  <2>10. GoneBelow(mounts, plan)'
    <3> SUFFICES ASSUME NEW u \in Paths, Plain(plan, u), Original(u) # Nowhere, ResolveIn(entry', mounts, u) = NoPlace
                 PROVE  \E v \in MaskPaths : IsStrictPrefix(v, u) /\ Free(plan, v)
      BY <1>2, <2>17 DEF GoneBelow
    <3>1. ResolveIn(entry, mounts, u) = NoPlace
      BY <2>16
    <3> QED BY <3>1 DEF Smooth, MountsInv, GoneBelow
  <2>11. AgainInv'
    BY <1>4, <1>5, <2>3 DEF AgainInv, d, c
  <2>12. BoundInv'
    <3>1. Calls(Here.op, code) /\ Head(code) = "create"
      <4>1. Doing = "create"
        BY <1>1, <1>2 DEF Underway, Sound, WalkInv
      <4> QED BY <1>1, <4>1, HereFacts DEF Underway, Sound, Doing
    <3>2. code' \notin AfterBind
      BY <1>2, <3>1 DEF Calls
    <3> QED BY <3>2 DEF BoundInv
  <2>13. Sorted(plan)' /\ MasksFirst(plan)' /\ RootInv(mounts)'
    BY <1>2 DEF Smooth, MountsInv, RootInv
  <2> QED BY <2>4, <2>8, <2>9, <2>10, <2>11, <2>12, <2>13, <2>18 DEF Smooth, MountsInv
<1> QED BY <1>7, <1>8

\* safe_traverse returns its descriptor.
LEMMA SmoothOpened == ASSUME Sound, Smooth, Opened PROVE Smooth'
<1>1. Now \in {"open", "create"} /\ walk' = StartWalk /\ Advance /\ UNCHANGED <<file, job, first>>
  BY DEF Opened
<1>2. code # <<>> /\ Doing = Now
  BY ArrivedFacts DEF Opened
<1>3. Doing \notin Mounting
  BY <1>1, <1>2 DEF Mounting
<1> QED BY <1>1, <1>2, <1>3, SmoothCall

\* ensure_path_matches_fd passes.
LEMMA SmoothRechecked == ASSUME Sound, Smooth, Rechecked, ~Fail PROVE Smooth'
<1>1. Now \in {"recheck", "verify"} /\ walk' = StartWalk /\ Advance /\ UNCHANGED <<file, job, first>>
  BY DEF Rechecked
<1>2. code # <<>> /\ Doing = Now
  BY ArrivedFacts DEF Rechecked
<1>3. Doing \notin Mounting
  BY <1>1, <1>2 DEF Mounting
<1> QED BY <1>1, <1>2, <1>3, SmoothCall

\* unshare_namespaces and make_root_private.
LEMMA SmoothNamespace == ASSUME Sound, Smooth, Unshare \/ MakeRootPrivate PROVE Smooth'
<1>1. /\ Doing \in {"unshare", "rootprivate"} /\ code # <<>> /\ Advance
      /\ UNCHANGED <<file, job, walk, first>>
  BY DEF Unshare, MakeRootPrivate, Now, Doing
<1>2. walk' = StartWalk
  <2>1. Doing \notin Walks
    BY <1>1 DEF Walks
  <2> QED BY <1>1, <2>1 DEF Sound, WalkInv
<1>3. Doing \notin Mounting
  BY <1>1 DEF Mounting
<1> QED BY <1>1, <1>2, <1>3, SmoothCall

\* A list without private paths, after a sorted one.
NoPrivate(s) == \A k \in DOMAIN s : s[k].op # "private"

\* The whole is sorted.
LEMMA SortedBefore ==
    ASSUME NEW B, NEW s \in Seq(B), NEW t \in Seq(B), Sorted(s), NoPrivate(t)
    PROVE  Sorted(s \o t)
<1> DEFINE u == s \o t
<1>1. /\ DOMAIN u = 1 .. Len(s) + Len(t) /\ DOMAIN s = 1 .. Len(s) /\ DOMAIN t = 1 .. Len(t)
      /\ Len(s) \in Nat /\ Len(t) \in Nat
      /\ \A k \in 1 .. Len(s) + Len(t) : u[k] = IF k <= Len(s) THEN s[k] ELSE t[k - Len(s)]
  OBVIOUS
<1> HIDE DEF u
<1>2. ASSUME NEW i \in DOMAIN u, NEW k \in DOMAIN u, i < k, u[k].op = "private"
      PROVE  /\ u[i].op \in {"private", "namespace"}
             /\ u[i].op = "private" => ~Beneath(u[k].path, u[i].path)
  <2>1. k <= Len(s)
    <3> SUFFICES ASSUME ~(k <= Len(s)) PROVE FALSE
      OBVIOUS
    <3>1. k - Len(s) \in DOMAIN t /\ u[k] = t[k - Len(s)]
      BY <1>1
    <3> QED BY <1>2, <3>1 DEF NoPrivate
  <2>2. i \in DOMAIN s /\ k \in DOMAIN s /\ u[i] = s[i] /\ u[k] = s[k]
    BY <1>1, <1>2, <2>1
  <2> QED BY <1>2, <2>2 DEF Sorted
<1> QED BY <1>2 DEF Sorted, u

\* A list of masks, and one without.
OnlyMasks(s) == \A k \in DOMAIN s : s[k].op \in Masking
NoMasks(s) == \A k \in DOMAIN s : s[k].op \notin Masking

\* Masks, then masks and then binds.
LEMMA MasksBefore ==
    ASSUME NEW B, NEW s \in Seq(B), NEW t \in Seq(B)
    PROVE  /\ OnlyMasks(s) /\ OnlyMasks(t) => OnlyMasks(s \o t)
           /\ OnlyMasks(s) => MasksFirst(s)
           /\ MasksFirst(s) /\ NoMasks(t) => MasksFirst(s \o t)
<1> DEFINE u == s \o t
<1>1. /\ DOMAIN u = 1 .. Len(s) + Len(t) /\ DOMAIN s = 1 .. Len(s) /\ DOMAIN t = 1 .. Len(t)
      /\ Len(s) \in Nat /\ Len(t) \in Nat
      /\ \A k \in 1 .. Len(s) + Len(t) : u[k] = IF k <= Len(s) THEN s[k] ELSE t[k - Len(s)]
  OBVIOUS
<1> HIDE DEF u
<1>2. \A k \in DOMAIN u : /\ k <= Len(s) => k \in DOMAIN s /\ u[k] = s[k]
                          /\ ~(k <= Len(s)) => k - Len(s) \in DOMAIN t /\ u[k] = t[k - Len(s)]
  BY <1>1
<1>3. OnlyMasks(s) /\ OnlyMasks(t) => OnlyMasks(u)
  BY <1>2 DEF OnlyMasks
<1>4. OnlyMasks(s) => MasksFirst(s)
  BY DEF OnlyMasks, MasksFirst
<1>5. ASSUME MasksFirst(s), NoMasks(t), NEW i \in DOMAIN u, NEW k \in DOMAIN u, i < k, u[k].op \in Masking
      PROVE  u[i].op \in Masking
  <2>1. k <= Len(s)
    BY <1>2, <1>5 DEF NoMasks
  <2>2. i <= Len(s)
    BY <1>1, <1>5, <2>1
  <2> QED BY <1>2, <1>5, <2>1, <2>2 DEF MasksFirst
<1>6. MasksFirst(s) /\ NoMasks(t) => MasksFirst(u)
  BY <1>5 DEF MasksFirst
<1> QED BY <1>3, <1>4, <1>6 DEF u

\* The plan of a workable job is sorted, masks first.
LEMMA StartSorted ==
    ASSUME NEW j \in Jobs, Workable(j)
    PROVE  Sorted(StartPlan(j)) /\ MasksFirst(StartPlan(j))
<1> DEFINE P == Planned(j)
           first0 == Op("namespace", <<>>, Nowhere)
           a == ForEach("private", j.private)
           b == ForEach("blocked", j.blocked)
           c == ForEach("readonly", j.readonly)
           d == PinPlan(j.pins)
<1>1. first0 \in P /\ first0.op = "namespace"
  <2>1. <<>> \in Listable
    BY MaxDepthAssumption, PathFacts
  <2> QED BY <2>1 DEF Planned, Operation, Op, Ops
<1>2. /\ a \in Seq(P) /\ Len(a) \in Nat /\ DOMAIN a = 1 .. Len(a)
      /\ \A k \in DOMAIN a : a[k].op = "private" /\ a[k].path = j.private[k]
      /\ \A k \in DOMAIN a : k \in DOMAIN j.private
  <2>1. a \in Seq(P) /\ \A k \in DOMAIN a : a[k] = Op("private", j.private[k], Nowhere)
    BY JobFacts, ListPlanned
  <2>2. DOMAIN a = DOMAIN j.private
    BY DEF ForEach
  <2> HIDE DEF P, a
  <2> QED
    <3>1. Len(a) \in Nat /\ DOMAIN a = 1 .. Len(a)
      BY <2>1
    <3>2. \A k \in DOMAIN a : a[k].op = "private" /\ a[k].path = j.private[k]
      BY <2>1 DEF Op
    <3> QED BY <2>1, <2>2, <3>1, <3>2
<1>3. b \in Seq(P) /\ NoPrivate(b) /\ OnlyMasks(b)
  <2>1. b \in Seq(P) /\ \A k \in DOMAIN b : b[k] = Op("blocked", j.blocked[k], Nowhere)
    BY JobFacts, ListPlanned
  <2> HIDE DEF P, b
  <2> QED BY <2>1 DEF Op, NoPrivate, OnlyMasks, Masking
<1>4. c \in Seq(P) /\ NoPrivate(c) /\ NoMasks(c)
  <2>1. c \in Seq(P) /\ \A k \in DOMAIN c : c[k] = Op("readonly", j.readonly[k], Nowhere)
    BY JobFacts, ListPlanned
  <2> HIDE DEF P, c
  <2> QED BY <2>1 DEF Op, NoPrivate, NoMasks, Masking
<1>5. d \in Seq(P) /\ NoPrivate(d) /\ NoMasks(d)
  <2>1. d \in Seq(PinOp(j))
    BY PinPlanPlanned
  <2>2. PinOp(j) \subseteq P /\ \A o \in PinOp(j) : o.op # "private" /\ o.op \notin Masking
    BY DEF PinOp, Masking
  <2> HIDE DEF P, d
  <2>3. d \in Seq(P) /\ \A k \in DOMAIN d : d[k] \in PinOp(j)
    BY <2>1, <2>2
  <2> QED BY <2>2, <2>3 DEF NoPrivate, NoMasks
<1>6. StartPlan(j) = (((<<first0>> \o a) \o b) \o c) \o d
  BY DEF StartPlan, SetupIsolation
<1>7. \A k \in DOMAIN j.private : \A i \in 1 .. k - 1 : ~Beneath(j.private[k], j.private[i])
  BY DEF Workable
<1> HIDE DEF P, first0, a, b, c, d
<1> DEFINE s1 == <<first0>> \o a
           s2 == s1 \o b
           s3 == s2 \o c
<1>8. \A s, t \in Seq(P) : s \o t \in Seq(P)
  OBVIOUS
<1>9. <<first0>> \in Seq(P) /\ s1 \in Seq(P)
  BY <1>1, <1>2, <1>8
<1>10. Sorted(s1)
  <2>1. /\ DOMAIN s1 = 1 .. Len(a) + 1 /\ s1[1] = first0
        /\ \A k \in 2 .. Len(a) + 1 : s1[k] = a[k - 1] /\ k - 1 \in DOMAIN a
    BY <1>1, <1>2
  <2> HIDE DEF s1
  <2> SUFFICES ASSUME NEW i \in DOMAIN s1, NEW k \in DOMAIN s1, i < k, s1[k].op = "private"
               PROVE  /\ s1[i].op \in {"private", "namespace"}
                      /\ s1[i].op = "private" => ~Beneath(s1[k].path, s1[i].path)
    BY DEF Sorted
  <2>2. k \in 2 .. Len(a) + 1 /\ i \in Nat /\ k \in Nat
    BY <1>2, <2>1
  <2>3. CASE i = 1
    BY <1>1, <2>1, <2>3
  <2>4. CASE i # 1
    <3>1. i \in 2 .. Len(a) + 1 /\ i - 1 \in 1 .. (k - 1) - 1
      BY <1>2, <2>1, <2>2, <2>4
    <3>2. s1[i] = a[i - 1] /\ s1[k] = a[k - 1] /\ i - 1 \in DOMAIN a /\ k - 1 \in DOMAIN a
      BY <2>1, <2>2, <3>1, SMTT(30)
    <3>3. ~Beneath(j.private[k - 1], j.private[i - 1])
      BY <1>2, <1>7, <3>1, <3>2
    <3> QED BY <1>2, <3>2, <3>3
  <2> QED BY <2>3, <2>4
<1> HIDE DEF s1
<1>14. OnlyMasks(s1)
  <2>1. OnlyMasks(<<first0>>) /\ OnlyMasks(a)
    BY <1>1, <1>2 DEF OnlyMasks, Masking
  <2>2. OnlyMasks(<<first0>> \o a)
    BY <1>2, <1>9, <2>1, MasksBefore
  <2> QED BY <2>2 DEF s1
<1>11. s2 \in Seq(P) /\ Sorted(s2)
  BY <1>3, <1>8, <1>9, <1>10, SortedBefore
<1>15. MasksFirst(s2)
  <2>1. OnlyMasks(s1 \o b)
    BY <1>3, <1>9, <1>14, MasksBefore
  <2> QED BY <1>11, <2>1, MasksBefore
<1> HIDE DEF s2
<1>12. s3 \in Seq(P) /\ Sorted(s3)
  BY <1>4, <1>8, <1>11, SortedBefore
<1>16. MasksFirst(s3)
  BY <1>4, <1>11, <1>15, MasksBefore
<1> HIDE DEF s3
<1>13. Sorted(s3 \o d) /\ MasksFirst(s3 \o d)
  BY <1>5, <1>12, <1>16, SortedBefore, MasksBefore
<1> QED BY <1>6, <1>13 DEF s1, s2, s3

\* A workable job starts so.
LEMMA SmoothInit == ASSUME Init, Workable(job) PROVE Smooth
<1>1. /\ entry = Disk /\ mounts = HostMounts /\ fresh = FirstNew /\ job \in Jobs
      /\ plan = StartPlan(job) /\ code = Program("namespace") /\ walk = StartWalk
  BY DEF Init, StartPlan
<1>2. Sorted(plan) /\ MasksFirst(plan)
  BY <1>1, StartSorted
<1>3. /\ \A e \in DOMAIN Disk : OnDisk(Disk[e]) /\ Disk[e].fs = "disk" /\ Disk[e].id < FirstNew
      /\ \A k \in DOMAIN HostMounts : /\ OnDisk(HostMounts[k].root)
                                      /\ HostMounts[k].root.fs = "disk" /\ HostMounts[k].root.id < FirstNew
                                      /\ HostMounts[k].root \in Inode
  BY DiskAssumption, HostAssumption DEF OnDisk
<1>4. EntryInv
  <2>1. FirstNew \in Nat /\ FirstNew >= FirstNew
    BY DEF FirstNew
  <2> QED BY <1>1, <1>3, <2>1 DEF EntryInv
<1>5. MadeInv
  <2> DEFINE L == {x \in HostLabels : x[1].id < FirstNew}
  <2>1. Labels(Disk, HostMounts, HostLabels)
    BY HostLabelled
  <2>2. Root.id < FirstNew
    BY DiskFacts
  <2>3. \A i, p : <<i, p>> \in L <=> <<i, p>> \in HostLabels /\ i.id < FirstNew
    OBVIOUS
  <2> HIDE DEF L
  <2>4. Labels(Disk, HostMounts, L)
    BY <1>3, <2>1, <2>2, <2>3 DEF Labels
  <2>5. \A i, p : <<i, p>> \in L => ~(i.id >= FirstNew)
    <3> SUFFICES ASSUME NEW i, NEW p, <<i, p>> \in L PROVE ~(i.id >= FirstNew)
      OBVIOUS
    <3>1. <<i, p>> \in HostLabels /\ i.id < FirstNew
      BY <2>3
    <3>2. i \in Inode
      BY <3>1 DEF HostLabels
    <3> QED BY <3>1, <3>2 DEF Inode, FirstNew
  <2> QED BY <1>1, <2>4, <2>5 DEF MadeInv
<1>6. RootInv(mounts)
  BY <1>1, <1>3 DEF RootInv, NewRoot, Inode, FirstNew
<1>7. \A u \in Paths : /\ ResolveIn(entry, mounts, u).ino = Original(u)
                       /\ ResolveIn(entry, mounts, u) # NoPlace <=> Original(u) # Nowhere
                       /\ Original(u) # Nowhere => Original(u).fs = "disk"
  <2> TAKE u \in Paths
  <2>1. u \in Seq(Names)
    BY PathFacts
  <2> QED BY <1>1, <2>1, OriginalFacts DEF Original, OnDisk
<1>8. AsBefore(mounts, plan) /\ HiddenBy(mounts, plan) /\ GoneBelow(mounts, plan)
  BY <1>7 DEF AsBefore, HiddenBy, GoneBelow, Before
<1>9. AgainInv
  BY <1>1 DEF AgainInv, StartWalk
<1>10. BoundInv
  <2>1. code \notin AfterBind
    BY <1>1, ProgramFacts DEF Ops
  <2> QED BY <2>1 DEF BoundInv
<1> QED BY <1>2, <1>4, <1>5, <1>6, <1>8, <1>9, <1>10 DEF Smooth, MountsInv

\* Nothing but a refused system call ends the setup of a workable job.
LEMMA SmoothNext ==
    ASSUME Sound, Smooth, Workable(job), Wrapper
    PROVE  Smooth' /\ (status' = "failed" => status = "failed" \/ refused')
<1>1. CASE OpenComponent
  BY <1>1, OpenGoesOn, SmoothOpen
<1>2. CASE MissComponent
  BY <1>2, MissGoesOn, SmoothMiss
<1>3. CASE MakeComponent
  <2>1. status' = status
    BY <1>3 DEF MakeComponent, Moving
  <2> QED BY <1>3, <2>1, SmoothMake
<1>4. CASE Opened
  <2>1. status' = status
    BY <1>4 DEF Opened, Moving
  <2> QED BY <1>4, <2>1, SmoothOpened
<1>5. CASE Rechecked
  BY <1>5, RecheckGoesOn, SmoothRechecked
<1>6. CASE Unshare \/ MakeRootPrivate
  <2>1. status' = status
    BY <1>6 DEF Unshare, MakeRootPrivate, Moving
  <2> QED BY <1>6, <2>1, SmoothNamespace
<1>7. CASE MountTmpfs
  <2>1. status' = status
    BY <1>7 DEF MountTmpfs, Mounted, Moving
  <2> QED BY <1>7, <2>1, SmoothTmpfs
<1>8. CASE MountNull
  <2>1. status' = status
    BY <1>8 DEF MountNull, Mounted, Moving
  <2> QED BY <1>8, <2>1, SmoothNull
<1>9. CASE Bind
  BY <1>9, BindGoesOn, SmoothBind
<1>10. CASE BindParent
  <2>1. status' = status
    BY <1>10 DEF BindParent, Mounted, Moving
  <2> QED BY <1>10, <2>1, SmoothParent
<1>11. CASE RemountReadOnly
  BY <1>11, RemountGoesOn, SmoothRemount
<1>12. CASE DropBounding \/ CapSet \/ Exec \/ Refuse
  <2>1. UNCHANGED <<file, job, plan, code, walk, first>>
    BY <1>12 DEF DropBounding, CapSet, Exec, Refuse, progress
  <2>2. status' = "failed" => status = "failed" \/ refused'
    BY <1>12 DEF DropBounding, CapSet, Exec, Refuse
  <2> QED BY <2>1, <2>2, SmoothStill
<1> QED
  BY <1>1, <1>2, <1>3, <1>4, <1>5, <1>6, <1>7, <1>8, <1>9, <1>10, <1>11, <1>12 DEF Wrapper, Progress

\* The invariant: as long as nobody interferes.
UndisturbedInv == Quiet /\ Workable(job) => Smooth /\ (status = "failed" => refused)

\* It holds at the start ...
LEMMA UndisturbedInit == Init => UndisturbedInv
<1> SUFFICES ASSUME Init, Workable(job) PROVE Smooth /\ (status = "failed" => refused)
  BY DEF UndisturbedInv
<1>1. status = "setup"
  BY DEF Init
<1> QED BY <1>1, SmoothInit

\* A refusal is remembered.
LEMMA RefusedStays == ASSUME Wrapper PROVE refused' = refused \/ refused' = TRUE
BY DEF Wrapper, Progress, OpenComponent, MissComponent, MakeComponent, Opened, Rechecked, Unshare,
       MakeRootPrivate, MountTmpfs, MountNull, Bind, BindParent, RemountReadOnly, DropBounding, CapSet,
       Exec, Refuse, Fail, Moving, Mounted

\* ... and every step keeps it.
LEMMA UndisturbedNext == SetupInv /\ UndisturbedInv /\ [Next]_vars => UndisturbedInv'
<1> SUFFICES ASSUME SetupInv, UndisturbedInv, [Next]_vars, Quiet', Workable(job)'
             PROVE  (Smooth /\ (status = "failed" => refused))'
  BY DEF UndisturbedInv
<1>1. CASE Wrapper
  <2>1. job' = job /\ swaps' = swaps
    BY <1>1, WrapperKeeps
  <2>2. Quiet /\ Workable(job)
    BY <2>1 DEF Quiet
  <2>3. Sound /\ Smooth /\ (status = "failed" => refused)
    BY <2>2 DEF SetupInv, UndisturbedInv
  <2>4. Smooth' /\ (status' = "failed" => status = "failed" \/ refused')
    BY <1>1, <2>2, <2>3, SmoothNext
  <2>5. refused => refused'
    BY <1>1, RefusedStays
  <2> QED BY <2>3, <2>4, <2>5
<1>2. ASSUME NEW slot, NEW i, Swap(slot, i) PROVE FALSE
  <2>1. swaps' = swaps + 1 /\ swaps \in Nat
    BY <1>2 DEF Swap, SetupInv
  <2> QED BY <2>1 DEF Quiet
<1>3. CASE UNCHANGED vars
  <2>1. /\ UNCHANGED <<file, job, plan, code, walk, first>>
        /\ swaps' = swaps /\ status' = status /\ refused' = refused /\ job' = job
    BY <1>3 DEF vars, progress, others
  <2>2. Quiet /\ Workable(job)
    BY <2>1 DEF Quiet
  <2>3. Smooth /\ (status = "failed" => refused)
    BY <2>2 DEF UndisturbedInv
  <2> QED BY <2>1, <2>3, SmoothStill
<1> QED BY <1>1, <1>2, <1>3 DEF Next

\* A job that does not contradict itself (Workable) and that nobody disturbs is
\* never given up by the wrapper, however its paths nest and repeat, unless the
\* kernel refuses a system call: no mask hides what a later operation opens, no
\* bind changes what a path leads to between open and recheck, and the mount a
\* read-only path leads to is the one that was bound.
THEOREM UndisturbedSetupSucceedsTheorem == Spec => []UndisturbedSetupSucceeds
<1>1. Init => UndisturbedInv
  BY UndisturbedInit
<1>2. SetupInv /\ UndisturbedInv /\ [Next]_vars => UndisturbedInv'
  BY UndisturbedNext
<1>3. Spec => []SetupInv
  BY SetupAlways
<1>4. SetupInv /\ UndisturbedInv => UndisturbedSetupSucceeds
  <2> SUFFICES ASSUME SetupInv, UndisturbedInv, status = "failed", ~(swaps > 0), Workable(job)
               PROVE  refused
    BY DEF UndisturbedSetupSucceeds
  <2>1. swaps = 0
    BY DEF SetupInv
  <2> QED BY <2>1 DEF UndisturbedInv, Quiet
<1> QED BY <1>1, <1>2, <1>3, <1>4, PTL DEF Spec
============================================================================
