---------------------------- MODULE MCIsolation ----------------------------
(* Isolation on the tree /a, /a/b, /a/b/c, /a/s, /d; /a/n and /m do not exist.
   The host has another file system at /e/h, with the file /e/h/f; the directory
   underneath has a file f too, and beside it is /e/s. *)
EXTENDS Isolation, TLC

MCNames == {"a", "b", "c", "d", "e", "f", "h", "m", "n", "s"}
D(k, i) == [fs |-> "disk", kind |-> k, id |-> i]
MCRoot == D("dir", 1)
A == D("dir", 2)
B == D("dir", 3)
C == D("file", 4)
S == D("file", 5)
DD == D("file", 11)
E == D("dir", 6)
H0 == D("dir", 7)
F0 == D("file", 8)
H == D("dir", 9)
F == D("file", 10)
ES == D("file", 17)
\* What other processes put in their places.
A2 == D("dir", 12)
B2 == D("dir", 13)
C2 == D("file", 14)
L == D("link", 15)
N == D("file", 16)

MCDisk == (<<MCRoot, "a">> :> A) @@ (<<A, "b">> :> B) @@ (<<B, "c">> :> C) @@ (<<A, "s">> :> S)
          @@ (<<MCRoot, "d">> :> DD)
          @@ (<<MCRoot, "e">> :> E) @@ (<<E, "s">> :> ES) @@ (<<E, "h">> :> H0)
          @@ (<<H0, "f">> :> F0) @@ (<<H, "f">> :> F)
          @@ (<<A2, "b">> :> B2) @@ (<<B2, "c">> :> C2)

MCHostMounts == << [mnt |-> 0, at |-> H0, root |-> H, ro |-> FALSE] >>

pa == <<"a">>
pb == <<"a", "b">>
pc == <<"a", "b", "c">>
ps == <<"a", "s">>
pd == <<"d">>
pe == <<"e">>
ph == <<"e", "h">>
pf == <<"e", "h", "f">>
pt == <<"e", "s">>
pn == <<"a", "n">>
pm == <<"m", "n">>

Pin(p) == [path |-> p, ino |-> Original(p)]
Job(pr, bl, ro, pi) == [private |-> pr, blocked |-> bl, readonly |-> ro, pins |-> pi]

Upto1(paths) == {<<>>} \cup {<<p>> : p \in paths}
Pairs(paths) == {<<p, q>> : p \in paths, q \in paths}

\* Sequences of policies: no other process interferes.
QuietJobs == {Job(pr, bl, ro, <<Pin(pd)>> \o pi) :
                  pr \in Upto1({pa, pb, pd}),
                  bl \in Upto1({pa, pb, ps, pn, pm}) \cup Pairs({pb, pn, pc}),
                  ro \in Upto1({pa, pb, pc, ps}) \cup {<<pb, pa>>, <<pa, pb>>, <<pa, pa>>},
                  pi \in {<<>>, <<Pin(pc)>>, <<Pin(pc), Pin(pb)>>, <<Pin(<<>>), Pin(pb)>>, <<Pin(ps), Pin(pc), Pin(ps)>>}}

\* The same around the host's mount.
HostJobs == {Job(pr, bl, ro, pi) :
                 pr \in Upto1({pe, ph}),
                 bl \in Upto1({ph, pf, pt}),
                 ro \in Upto1({pe, ph, pf}) \cup {<<ph, pe>>, <<pe, ph>>},
                 pi \in {<<>>, <<Pin(pf)>>, <<Pin(pf), Pin(ph)>>, <<Pin(pf), Pin(pe)>>, <<Pin(pt), Pin(pf), Pin(<<>>)>>}}

\* A few policies under interference.
BusyJobs == {Job(<<>>, <<pn>>, <<>>, <<Pin(pc)>>),
             Job(<<>>, <<>>, <<pb>>, <<Pin(pc)>>),
             Job(<<>>, <<>>, <<>>, <<Pin(pf)>>)}
BusyOthers == (<<MCRoot, "a">> :> {A, A2}) @@ (<<A, "b">> :> {B, B2, C}) @@ (<<B, "c">> :> {C, C2, Nowhere})
              @@ (<<A2, "b">> :> {B, B2}) @@ (<<B2, "c">> :> {C, C2})
              @@ (<<A, "n">> :> {L, N}) @@ (<<E, "h">> :> {B2, H0}) @@ (<<H, "f">> :> {F, C2})
AllJobs == QuietJobs \cup HostJobs \cup BusyJobs
NoJobs == {}
============================================================================
