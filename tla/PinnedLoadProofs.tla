-------------------------- MODULE PinnedLoadProofs --------------------------
(***************************************************************************)
(* Proofs about PinnedLoad: however the calls of                           *)
(* bpf_prog_load_xattr_maps in several processes interleave, whichever of  *)
(* their system calls fail, whoever is killed and whichever pins are       *)
(* removed, a map_fd that a call reports stands for the map its programs   *)
(* use and for the one that is pinned.                                     *)
(*                                                                         *)
(* The invariant follows each map from the file (its name is its symbol,   *)
(* it has no descriptor) over the pinned file (its name is the kernel's)   *)
(* and the load (the missing ones are created) to the pins.                *)
(***************************************************************************)
EXTENDS PinnedLoad, BpfObjectProofs

(***************************************************************************)
(* The invariant of a call, of process P with the numbers F in map_fd.     *)
(***************************************************************************)
\* Map i of the file still has the name of its symbol, or its pinned file has
\* been taken, which gave it the kernel's name.
Named(P, F, i) ==
    \/ P.obj.maps[i].name = P.obj.maps[i].sym
    \/ /\ P.obj.maps[i].sym \in Wanted /\ F[P.obj.maps[i].sym] # -1
       /\ P.obj.maps[i].name = KernelName[P.obj.maps[i].sym]
       /\ P.obj.maps[i].fd \in Fds

\* The descriptor of map i, if it has one, is that of a map of its name.
RightMap(P, i) ==
    P.obj.maps[i].fd \in Fds =>
        /\ P.fds[P.obj.maps[i].fd] # Nothing
        /\ P.fds[P.obj.maps[i].fd].name = KernelName[P.obj.maps[i].sym]

\* The maps of the object between the opening and the return.
MapsInv(P, F) ==
    /\ 1 \in DOMAIN P.obj.maps
    /\ \A i \in DOMAIN P.obj.maps : Named(P, F, i) /\ RightMap(P, i)
    /\ \A i, j \in DOMAIN P.obj.maps : P.obj.maps[i].sym = P.obj.maps[j].sym => i = j

\* The number fd stands for the map whose symbol is n.
Shares(P, fd, n) ==
    /\ fd \in Fds /\ P.fds[fd] # Nothing
    /\ \E i \in DOMAIN P.obj.maps :
          /\ P.obj.maps[i].sym = n /\ P.obj.maps[i].fd \in Fds
          /\ P.fds[P.obj.maps[i].fd] = P.fds[fd]

\* The maps from k on are as the file gives them.
Fresh(P, F, k) ==
    \A i \in DOMAIN P.obj.maps : i >= k =>
        /\ P.obj.maps[i].name = P.obj.maps[i].sym /\ P.obj.maps[i].fd = -1
        /\ P.obj.maps[i].sym \in Wanted => F[P.obj.maps[i].sym] = -1

Running == {"get", "load", "pin", "done"}

\* A call that is at `a`.
CallInv(P, F, a) ==
    /\ a.pc = "open" => P = NewProcess
    /\ a.pc \in Running => IsOpen(P) /\ MapsInv(P, F)
    /\ a.pc \in {"get", "pin"} => a.k \in DOMAIN P.obj.maps
    /\ a.pc = "get" => Fresh(P, F, a.k)

\* Every map_fd is shared, with the files `pn` in the file system, from which
\* the pins of the names `rm` have been removed.
Sharing(P, F, pn, rm) ==
    \A n \in Wanted : F[n] # -1 =>
        /\ Shares(P, F[n], n)
        /\ n \notin rm => pn[<<n>>] = P.fds[F[n]]

\* The same for a call in which no bpf_map__reuse_fd failed.
SharedInv(p, P, F, a, pn, rm, st) == p \notin st /\ a.pc \in Running => Sharing(P, F, pn, rm)

\* What is pinned under a name is a map of that name.
PinsNamed ==
    /\ DOMAIN pins = Paths
    /\ \A n \in Wanted : pins[<<n>>] # Nothing => pins[<<n>>].name = KernelName[n]

\* The invariant of all processes and of the file system.
PinnedInv ==
    /\ ObjectInv /\ PinsNamed
    /\ at \in [Procs -> Range(at)] /\ mapFd \in [Procs -> [Wanted -> Number]]
    /\ \A p \in Procs : /\ CallInv(proc[p], mapFd[p], at[p])
                        /\ SharedInv(p, proc[p], mapFd[p], at[p], pins, removed, strayed)

(***************************************************************************)
(* Steps of one call.                                                      *)
(***************************************************************************)
\* Every name of the list has a file of its own.
LEMMA WantedPaths == \A n \in Wanted : <<n>> \in Paths /\ \A m \in Wanted : <<n>> = <<m>> => n = m
<1>1. \A n \in Wanted : n \in MapNames
  BY PinnedAssumption
<1> QED
  BY <1>1 DEF Paths

\* A step of process p that leaves the pins there that are there preserves the
\* invariant if it does so for p.
LEMMA OneCall ==
    ASSUME PinnedInv, NEW p \in Procs, NEW Q, NEW F \in [Wanted -> Number], NEW a,
           proc' = [proc EXCEPT ![p] = Q], at' = [at EXCEPT ![p] = a],
           mapFd' = [mapFd EXCEPT ![p] = F], removed' = removed, strayed \subseteq strayed',
           PinsNamed', \A n \in Wanted : pins[<<n>>] # Nothing => pins'[<<n>>] = pins[<<n>>],
           ProcInv(Q), CallInv(Q, F, a),
           SharedInv(p, Q, F, a, pins', removed, strayed')
    PROVE  PinnedInv'
<1>0. /\ ObjectInv /\ PinsNamed
      /\ proc \in [Procs -> Range(proc)] /\ at \in [Procs -> Range(at)]
      /\ mapFd \in [Procs -> [Wanted -> Number]]
  BY DEF PinnedInv, ObjectInv
<1>1. /\ proc'[p] = Q /\ mapFd'[p] = F /\ at'[p] = a
      /\ \A q \in Procs : q # p => proc'[q] = proc[q] /\ mapFd'[q] = mapFd[q] /\ at'[q] = at[q]
  BY <1>0
<1>2. /\ proc' \in [Procs -> Range(proc')] /\ at' \in [Procs -> Range(at')]
      /\ mapFd' \in [Procs -> [Wanted -> Number]]
  BY <1>0, Zenon DEF Range
<1>3. ObjectInv'
  BY <1>0, <1>1, <1>2, Zenon DEF ObjectInv
<1>4. ASSUME NEW q \in Procs
      PROVE  /\ CallInv(proc'[q], mapFd'[q], at'[q])
             /\ SharedInv(q, proc'[q], mapFd'[q], at'[q], pins', removed', strayed')
  <2>1. CASE q = p
    BY <1>1, <2>1
  <2>2. CASE q # p
    <3>1. /\ CallInv(proc[q], mapFd[q], at[q])
          /\ SharedInv(q, proc[q], mapFd[q], at[q], pins, removed, strayed)
      BY Zenon DEF PinnedInv
    <3>2. ASSUME Sharing(proc[q], mapFd[q], pins, removed)
          PROVE  Sharing(proc[q], mapFd[q], pins', removed)
      BY <3>2, Zenon DEF Sharing, Shares
    <3>3. SharedInv(q, proc[q], mapFd[q], at[q], pins', removed, strayed')
      BY <3>1, <3>2 DEF SharedInv
    <3> QED
      BY <1>1, <2>2, <3>1, <3>3
  <2> QED
    BY <2>1, <2>2
<1> QED
  BY <1>2, <1>3, <1>4, Zenon DEF PinnedInv

\* A process of its own has not opened anything.
LEMMA NewProcessFree == TwoFree(NewProcess) /\ ~Full(NewProcess) /\ ~IsOpen(NewProcess)
<1>1. 1 \in Fds /\ 2 \in Fds
  BY PinnedAssumption, ObjectAssumption DEF Fds
<1>2. 1 \in Free(NewProcess) /\ 2 \in Free(NewProcess)
  BY <1>1 DEF Free, NewProcess
<1> QED
  BY <1>2, NewProcessInv DEF TwoFree, Full, IsOpen, NoObject

\* Opening the file.
LEMMA OpenStepInv == ASSUME PinnedInv, NEW p \in Procs, OpenStep(p) PROVE PinnedInv'
<1> DEFINE P == proc[p]
           F == [n \in Wanted |-> -1]
<1>1. P = NewProcess
  BY DEF PinnedInv, CallInv, OpenStep
<1>2. PICK f \in LoadFiles, btfLoads \in BOOLEAN, bad \in {"none", "elf_begin"} :
         LET A == OpenObject(P, f, btfLoads, bad)
         IN IF A.ret = "stray" THEN Becomes(p, NewProcess) /\ Moves(p, "killed", 0)
            ELSE /\ Becomes(p, A)
                 /\ IF A.ret = "ok" THEN Moves(p, "get", 1) ELSE Moves(p, "failed", 0)
  BY DEF OpenStep
<1> DEFINE A == OpenObject(P, f, btfLoads, bad)
           Q == IF A.ret = "stray" THEN NewProcess ELSE A
           a == IF A.ret = "stray" THEN At("killed", 0)
                ELSE IF A.ret = "ok" THEN At("get", 1) ELSE At("failed", 0)
           o == Opened[f][btfLoads]
<1>3. Becomes(p, Q) /\ at' = [at EXCEPT ![p] = a]
  BY <1>2 DEF Moves
<1>4. mapFd' = [mapFd EXCEPT ![p] = F] /\ UNCHANGED <<strayed, removed>>
  BY DEF OpenStep
<1>5. ProcInv(P) /\ TwoFree(P) /\ ~Full(P) /\ ~IsOpen(P)
  BY <1>1, NewProcessInv, NewProcessFree
<1>6. ProcInv(A) /\ (A.ret = "ok" => o.err = "none" /\ IsOpen(A) /\ A.obj.maps = o.maps)
  <2>1. CASE bad = "none"
    <3>1. f \in Files
      BY PinnedAssumption
    <3> HIDE DEF P
    <3> QED
      BY <1>5, <2>1, <3>1, OpenInv
  <2>2. CASE bad = "elf_begin"
    <3>1. A = Returns(NewFd(P, OwnFile), "failed") /\ A.ret = "failed"
      BY <2>2 DEF OpenObject, OpenAs, Returns
    <3> HIDE DEF P, A
    <3> QED
      BY <1>5, <3>1, StrayInv
  <2> QED
    BY <2>1, <2>2
<1> HIDE DEF P, A
<1>6a. ProcInv(Q) /\ (A.ret = "ok" => Q = A)
  BY <1>6, NewProcessInv
<1> HIDE DEF Q
<1>7. CallInv(Q, F, a)
  <2>1. CASE A.ret = "ok"
    <3>1. Q.obj.maps = o.maps /\ IsOpen(Q) /\ IsSequence(Q.obj.maps)
      BY <1>6, <1>6a, <2>1 DEF ProcInv, Core, Shape, ObjectShape
    <3>2. \A i \in DOMAIN o.maps : o.maps[i].fd = -1 /\ o.maps[i].name = o.maps[i].sym
      BY PinnedAssumption, OpenedShape DEF FoundShape
    <3>3. o.maps # <<>> /\ \A i, j \in DOMAIN o.maps : o.maps[i].sym = o.maps[j].sym => i = j
      BY <1>6, <2>1, PinnedAssumption
    <3> HIDE DEF o
    <3>4. 1 \in DOMAIN Q.obj.maps
      BY <3>1, <3>3 DEF IsSequence
    <3>5. MapsInv(Q, F)
      BY <3>1, <3>2, <3>3, <3>4, FdNumbers DEF MapsInv, Named, RightMap
    <3>6. Fresh(Q, F, 1)
      BY <3>1, <3>2 DEF Fresh
    <3>7. a.pc = "get" /\ a.k = 1
      BY <2>1 DEF At
    <3> QED
      BY <3>1, <3>4, <3>5, <3>6, <3>7 DEF CallInv
  <2>2. CASE A.ret # "ok"
    BY <2>2 DEF CallInv, At, Running
  <2> QED
    BY <2>1, <2>2
<1>8. SharedInv(p, Q, F, a, pins', removed, strayed')
  BY DEF SharedInv, Sharing
<1>9. F \in [Wanted -> Number]
  BY DEF Number
<1> HIDE DEF F, a
<1>10. proc' = [proc EXCEPT ![p] = Q] /\ pins' = pins
  BY <1>3 DEF Becomes
<1>11. PinsNamed'
  BY <1>10 DEF PinnedInv, PinsNamed
<1> QED
  BY <1>3, <1>4, <1>6a, <1>7, <1>8, <1>9, <1>10, <1>11, OneCall, Zenon

\* The maps are numbered from 1.
LEMMA NextMap ==
    ASSUME NEW P, ProcInv(P), NEW k \in DOMAIN P.obj.maps
    PROVE  /\ k \in Nat /\ Len(P.obj.maps) \in Nat /\ DOMAIN P.obj.maps = 1 .. Len(P.obj.maps)
           /\ k < Len(P.obj.maps) => k + 1 \in DOMAIN P.obj.maps
<1>1. PICK n \in Nat : DOMAIN P.obj.maps = 1 .. n
  BY Zenon DEF ProcInv, Core, Shape, ObjectShape, IsSequence
<1>2. Len(P.obj.maps) = n
  BY <1>1
<1> QED
  BY <1>1, <1>2

\* One round of the loop over the maps that looks for pinned files.
LEMMA AfterGet ==
    ASSUME NEW P, ProcInv(P), NEW k \in DOMAIN P.obj.maps, NEW Q, IsOpen(Q), NEW F,
           DOMAIN Q.obj.maps = DOMAIN P.obj.maps, MapsInv(Q, F), Fresh(Q, F, k + 1)
    PROVE  CallInv(Q, F, IF k < Len(P.obj.maps) THEN At("get", k + 1) ELSE At("load", 1))
  BY NextMap DEF CallInv, At, Running

\* The map is not in the list, or its file cannot be opened.
LEMMA NoPinInv == ASSUME PinnedInv, NEW p \in Procs, NoPin(p) PROVE PinnedInv'
<1> DEFINE P == proc[p]
           F == mapFd[p]
           k == at[p].k
           a == IF k < Len(P.obj.maps) THEN At("get", k + 1) ELSE At("load", 1)
<1>1. /\ ProcInv(P) /\ CallInv(P, F, at[p]) /\ F \in [Wanted -> Number]
      /\ SharedInv(p, P, F, at[p], pins, removed, strayed) /\ at[p].pc = "get"
      /\ proc \in [Procs -> Range(proc)] /\ mapFd \in [Procs -> [Wanted -> Number]] /\ PinsNamed
  BY Zenon DEF PinnedInv, ObjectInv, NoPin
<1>2. /\ proc' = proc /\ pins' = pins /\ mapFd' = mapFd /\ strayed' = strayed
      /\ removed' = removed
  BY DEF NoPin, ovars
<1>3. at' = [at EXCEPT ![p] = a]
  BY DEF NoPin, Onwards, Moves
<1>4. IsOpen(P) /\ MapsInv(P, F) /\ k \in DOMAIN P.obj.maps /\ Fresh(P, F, k)
  BY <1>1 DEF CallInv, Running
<1>5. proc' = [proc EXCEPT ![p] = P] /\ mapFd' = [mapFd EXCEPT ![p] = F]
  BY <1>1, <1>2
<1> HIDE DEF P, F, k
<1>6. Fresh(P, F, k + 1)
  BY <1>1, <1>4, NextMap DEF Fresh
<1>7. CallInv(P, F, a)
  BY <1>1, <1>4, <1>6, AfterGet
<1>8. SharedInv(p, P, F, a, pins', removed, strayed')
  BY <1>1, <1>2 DEF SharedInv, Running
<1> HIDE DEF a
<1>9. PinsNamed'
  BY <1>1, <1>2, Zenon DEF PinsNamed
<1> QED
  BY <1>1, <1>2, <1>3, <1>5, <1>7, <1>8, <1>9, OneCall, Zenon

\* Map i of the object gets a duplicate of the number n and that map's name, or
\* nothing changes that the object knows of.
Reused(P, Q, i, n) ==
    /\ ProcInv(Q) /\ Keeps(P, Q) /\ IsOpen(Q)
    /\ Q.ret # "ok" => Q.obj.maps = P.obj.maps
    /\ Q.ret = "ok" =>
         /\ DOMAIN Q.obj.maps = DOMAIN P.obj.maps
         /\ \A k \in DOMAIN P.obj.maps : k # i => Q.obj.maps[k] = P.obj.maps[k]
         /\ Q.obj.maps[i].sym = P.obj.maps[i].sym /\ Q.obj.maps[i].name = P.fds[n].name
         /\ Q.obj.maps[i].fd \in Fds /\ Q.fds[Q.obj.maps[i].fd] = P.fds[n]

\* This is what bpf_map__reuse_fd does to a map without a descriptor.
LEMMA ReusePinned ==
    ASSUME NEW P, ProcInv(P), IsOpen(P), NEW i \in DOMAIN P.obj.maps, P.obj.maps[i].fd = -1,
           NEW n \in Fds, NEW bad \in {"none", "dup3"}
    PROVE  Reused(P, ReuseFd(P, i, n, bad), i, n)
<1> DEFINE Q == ReuseFd(P, i, n, bad)
           m == Lowest(P)
           r == P.fds[n]
<1>0. /\ Shape(P) /\ DOMAIN P = {"fds", "user", "obj", "opens", "ret", "copied"}
      /\ DOMAIN P.obj = {"file", "loaded", "btf_fd", "maps", "inst", "prep", "prog_btf"}
      /\ DOMAIN P.fds = Fds /\ {"fd", "name", "sym"} \subseteq DOMAIN P.obj.maps[i] /\ -1 \notin Fds
  <2>1. Shape(P) /\ ObjectShape(P.obj)
    BY DEF ProcInv, Core, Shape
  <2>2. DOMAIN P.obj = {"file", "loaded", "btf_fd", "maps", "inst", "prep", "prog_btf"}
    BY <2>1 DEF ObjectShape, NoObject
  <2>3. {"fd", "name", "sym"} \subseteq DOMAIN P.obj.maps[i]
    BY <2>1 DEF ObjectShape
  <2> QED
    BY <2>1, <2>2, <2>3, FdNumbers DEF Shape
<1>1. CASE ~IsMap(r) \/ Full(P)
  <2>1. Q = Returns(P, "failed")
    BY <1>1, Zenon DEF ReuseFd
  <2> HIDE DEF Q
  <2>2. Alike(P, Q) /\ Q.ret = "failed"
    BY <1>0, <2>1, ReturnsAlike
  <2>3. ProcInv(Q)
    BY <2>2, AlikeInv
  <2> QED
    BY <1>0, <2>2, <2>3 DEF Alike, Keeps, IsOpen, Reused, Q
<1>2. CASE ~(~IsMap(r) \/ Full(P)) /\ bad = "dup3"
  <2>1. Q = Returns(NewFd(P, OwnFile), "failed")
    BY <1>2, Zenon DEF ReuseFd
  <2> HIDE DEF Q
  <2>2. ProcInv(Q) /\ Q.obj = P.obj /\ Keeps(P, Q) /\ Q.ret = "failed"
    BY <1>2, <2>1, StrayInv
  <2> QED
    BY <2>2 DEF IsOpen, Reused, Q
<1>3. CASE ~(~IsMap(r) \/ Full(P)) /\ bad = "none"
  <2> DEFINE N == NewFd(P, r)
             C == CloseFds(N, {P.obj.maps[i].fd})
  <2>1. Q = [C EXCEPT !.ret = "ok", !.obj.maps[i].fd = m, !.obj.maps[i].name = r.name]
    <3>1. ~(P.obj.maps[i].fd >= 0)
      OBVIOUS
    <3>2. bad # "dup3"
      BY <1>3
    <3> QED
      BY <1>3, <3>1, <3>2, Zenon DEF ReuseFd
  <2>2. m \in Fds /\ P.fds[m] = Nothing
    BY <1>0, <1>3, LowestFree
  <2>3. DOMAIN N = DOMAIN P /\ N.obj = P.obj /\ N.fds = [P.fds EXCEPT ![m] = r]
    <3> HIDE DEF r, Q
    <3> QED
      BY <1>0, NewFdFields, SMTT(20)
  <2> HIDE DEF N
  <2>4. /\ DOMAIN C = DOMAIN P /\ C.obj = P.obj
        /\ C.fds = [x \in Fds |-> IF x \in {-1} THEN Nothing ELSE N.fds[x]]
    <3> HIDE DEF m, r, Q
    <3> QED
      BY <1>0, <2>3, CloseFdsFields
  <2> HIDE DEF C, Q, m, r
  <2>5. /\ Q.ret = "ok" /\ Q.fds = C.fds
        /\ Q.obj = [[P.obj EXCEPT !.maps[i].fd = m] EXCEPT !.maps[i].name = r.name]
    BY <1>0, <2>1, <2>4, Zenon
  <2>6. /\ Q.obj.file = P.obj.file
        /\ Q.obj.maps = [[P.obj.maps EXCEPT ![i].fd = m] EXCEPT ![i].name = r.name]
    BY <1>0, <2>5
  <2>7. /\ DOMAIN Q.obj.maps = DOMAIN P.obj.maps
        /\ \A k \in DOMAIN P.obj.maps : k # i => Q.obj.maps[k] = P.obj.maps[k]
        /\ Q.obj.maps[i].sym = P.obj.maps[i].sym
        /\ Q.obj.maps[i].name = r.name /\ Q.obj.maps[i].fd = m
    BY <1>0, <2>6
  <2>8. Q.fds[m] = r /\ \A x \in Fds : x # m => Q.fds[x] = P.fds[x]
    BY <1>0, <2>2, <2>3, <2>4, <2>5
  <2>9. ProcInv(Q)
    BY <1>3, ReuseFdInv DEF Q
  <2> QED
    BY <2>2, <2>5, <2>6, <2>7, <2>8, <2>9 DEF Keeps, IsOpen, Reused, Q, r
<1> QED
  BY <1>1, <1>2, <1>3, Zenon

\* A map that has a pinned file: with the duplicate of its descriptor the map
\* is shared; without it, nothing is claimed of the call any more.
LEMMA GetPinInv == ASSUME PinnedInv, NEW p \in Procs, GetPin(p) PROVE PinnedInv'
<1> DEFINE P == proc[p]
           F == mapFd[p]
           k == at[p].k
           n == P.obj.maps[k].name
           r == pins[<<n>>]
           fd == Lowest(P)
           got == [NewFd(P, r) EXCEPT !.user[fd] = r]
           G == [F EXCEPT ![n] = fd]
           a == IF k < Len(P.obj.maps) THEN At("get", k + 1) ELSE At("load", 1)
<1>1. /\ ProcInv(P) /\ CallInv(P, F, at[p]) /\ F \in [Wanted -> Number]
      /\ SharedInv(p, P, F, at[p], pins, removed, strayed)
      /\ proc \in [Procs -> Range(proc)] /\ mapFd \in [Procs -> [Wanted -> Number]] /\ PinsNamed
  BY Zenon DEF PinnedInv, ObjectInv
<1>2. /\ at[p].pc = "get" /\ n \in Wanted /\ r # Nothing /\ ~Full(P) /\ removed' = removed
      /\ at' = [at EXCEPT ![p] = a] /\ mapFd' = [mapFd EXCEPT ![p] = G]
  BY Zenon DEF GetPin, MapAt, Onwards, Moves
<1>3. PICK bad \in {"none", "dup3"} :
         LET Q == ReuseFd(got, k, fd, bad)
         IN Becomes(p, Q) /\ strayed' = IF Q.ret = "ok" THEN strayed ELSE strayed \cup {p}
  BY Zenon DEF GetPin, MapAt
<1> DEFINE Q == ReuseFd(got, k, fd, bad)
<1>4. /\ proc' = [proc EXCEPT ![p] = Q] /\ pins' = pins
      /\ strayed' = IF Q.ret = "ok" THEN strayed ELSE strayed \cup {p}
      /\ bad \in {"none", "dup3"}
  BY <1>3, Zenon DEF Becomes
<1>5. IsOpen(P) /\ MapsInv(P, F) /\ k \in DOMAIN P.obj.maps /\ Fresh(P, F, k) /\ k \in Nat
  BY <1>1, <1>2, NextMap, Zenon DEF CallInv, Running
<1> HIDE DEF P, F, k
<1>6. /\ P.obj.maps[k].name = n /\ P.obj.maps[k].sym = n /\ P.obj.maps[k].fd = -1
      /\ r.name = KernelName[n]
  BY <1>1, <1>2, <1>5 DEF Fresh, PinsNamed
<1>7. fd \in Fds /\ P.fds[fd] = Nothing
  BY <1>1, <1>2, LowestFree DEF ProcInv, Core
<1>8. ProcInv(got) /\ got.obj = P.obj /\ got.fds = [P.fds EXCEPT ![fd] = r] /\ DOMAIN P.fds = Fds
  <2> HIDE DEF r
  <2>1. ProcInv(got)
    BY <1>1, <1>2, OwnInv
  <2>2. Shape(P) /\ DOMAIN P.fds = Fds
    BY <1>1 DEF ProcInv, Core, Shape
  <2>3. /\ NewFd(P, r).fds = [P.fds EXCEPT ![fd] = r] /\ NewFd(P, r).obj = P.obj
        /\ DOMAIN NewFd(P, r) = {"fds", "user", "obj", "opens", "ret", "copied"}
    BY <2>2, NewFdFields DEF Shape
  <2> QED
    BY <2>1, <2>2, <2>3
<1> HIDE DEF n, r, fd, got, Q
<1>9. Reused(got, Q, k, fd) /\ ProcInv(Q) /\ IsOpen(Q)
  <2>1. IsOpen(got) /\ k \in DOMAIN got.obj.maps /\ got.obj.maps[k].fd = -1
    BY <1>5, <1>6, <1>8 DEF IsOpen
  <2> QED
    <3>1. Reused(got, ReuseFd(got, k, fd, bad), k, fd)
      BY <1>4, <1>7, <1>8, <2>1, ReusePinned, Zenon
    <3>2. Reused(got, Q, k, fd)
      BY <3>1, Zenon DEF Q
    <3> QED
      BY <3>2, Zenon DEF Reused
<1>10. /\ Keeps(P, Q) /\ Q.fds[fd] = r
       /\ DOMAIN Q.obj.maps = DOMAIN P.obj.maps
       /\ \A i \in DOMAIN P.obj.maps : i # k => Q.obj.maps[i] = P.obj.maps[i]
       /\ Q.obj.maps[k].sym = n
       /\ Q.ret # "ok" => Q.obj.maps[k] = P.obj.maps[k]
       /\ Q.ret = "ok" => /\ Q.obj.maps[k].name = KernelName[n]
                          /\ Q.obj.maps[k].fd \in Fds /\ Q.fds[Q.obj.maps[k].fd] = r
  <2>1. got.fds[fd] = r /\ \A x \in Fds : P.fds[x] # Nothing => got.fds[x] = P.fds[x]
    BY <1>7, <1>8
  <2>2. Keeps(P, Q) /\ Q.fds[fd] = r
    BY <1>2, <1>7, <1>9, <2>1 DEF Keeps, Reused
  <2> QED
    BY <1>6, <1>8, <1>9, <2>1, <2>2 DEF Reused
<1>11. G \in [Wanted -> Number] /\ G[n] = fd /\ \A m \in Wanted : m # n => G[m] = F[m]
  BY <1>1, <1>2, <1>7 DEF Number
<1> HIDE DEF G
<1>12. \A i \in DOMAIN P.obj.maps : i # k => P.obj.maps[i].sym # n
  BY <1>5, <1>6 DEF MapsInv
<1>13. MapsInv(Q, G)
  <2>1. ASSUME NEW i \in DOMAIN P.obj.maps PROVE Named(Q, G, i) /\ RightMap(Q, i)
    <3>1. CASE i = k
      <4>1. CASE Q.ret = "ok"
        BY <1>2, <1>6, <1>7, <1>10, <1>11, <3>1, <4>1, FdNumbers, Zenon DEF Named, RightMap
      <4>2. CASE Q.ret # "ok"
        BY <1>6, <1>10, <3>1, <4>2, FdNumbers DEF Named, RightMap
      <4> QED
        BY <4>1, <4>2
    <3>2. CASE i # k
      <4>1. Named(P, F, i) /\ RightMap(P, i) /\ Q.obj.maps[i] = P.obj.maps[i]
        BY <1>5, <1>10, <3>2 DEF MapsInv
      <4>2. Named(Q, G, i)
        BY <1>11, <1>12, <3>2, <4>1 DEF Named
      <4>3. RightMap(Q, i)
        BY <1>10, <4>1, Zenon DEF RightMap, Keeps
      <4> QED
        BY <4>2, <4>3
    <3> QED
      BY <3>1, <3>2
  <2>2. \A i \in DOMAIN P.obj.maps : Q.obj.maps[i].sym = P.obj.maps[i].sym
    BY <1>6, <1>10
  <2> QED
    BY <1>5, <1>10, <2>1, <2>2 DEF MapsInv
<1>14. Fresh(Q, G, k + 1)
  <2> SUFFICES ASSUME NEW i \in DOMAIN P.obj.maps, i >= k + 1
               PROVE  /\ Q.obj.maps[i].name = Q.obj.maps[i].sym /\ Q.obj.maps[i].fd = -1
                      /\ Q.obj.maps[i].sym \in Wanted => G[Q.obj.maps[i].sym] = -1
    BY <1>10 DEF Fresh
  <2>1. i \in Nat
    BY <1>1, NextMap
  <2>2. i # k /\ i >= k
    BY <1>5, <2>1
  <2> QED
    BY <1>5, <1>10, <1>11, <1>12, <2>2 DEF Fresh
<1>15. CallInv(Q, G, a)
  BY <1>1, <1>5, <1>9, <1>10, <1>13, <1>14, AfterGet
<1>16. SharedInv(p, Q, G, a, pins', removed, strayed')
  <2> SUFFICES ASSUME p \notin strayed', NEW m \in Wanted, G[m] # -1
               PROVE  Shares(Q, G[m], m) /\ (m \notin removed => pins[<<m>>] = Q.fds[G[m]])
    BY <1>4 DEF SharedInv, Sharing
  <2>1. Q.ret = "ok" /\ p \notin strayed
    BY <1>4
  <2>2. CASE m = n
    BY <1>2, <1>5, <1>7, <1>10, <1>11, <2>1, <2>2 DEF Shares, r
  <2>3. CASE m # n
    <3>1. G[m] = F[m] /\ Shares(P, F[m], m) /\ (m \notin removed => pins[<<m>>] = P.fds[F[m]])
      BY <1>1, <1>2, <1>11, <2>1, <2>3 DEF SharedInv, Sharing, Running
    <3>2. F[m] \in Fds /\ Q.fds[F[m]] = P.fds[F[m]] /\ Q.fds[F[m]] # Nothing
      BY <1>10, <3>1 DEF Shares, Keeps
    <3>3. PICK i \in DOMAIN P.obj.maps :
             /\ P.obj.maps[i].sym = m /\ P.obj.maps[i].fd \in Fds
             /\ P.fds[P.obj.maps[i].fd] = P.fds[F[m]]
      BY <3>1 DEF Shares
    <3>4. Q.obj.maps[i] = P.obj.maps[i]
      BY <1>6, <1>10, <2>3, <3>3
    <3>5. Q.fds[P.obj.maps[i].fd] = P.fds[F[m]]
      BY <1>10, <3>2, <3>3 DEF Keeps
    <3>6. Shares(Q, F[m], m)
      BY <1>10, <3>2, <3>3, <3>4, <3>5 DEF Shares
    <3> QED
      BY <3>1, <3>2, <3>6
  <2> QED
    BY <2>2, <2>3
<1> HIDE DEF a
<1>17. PinsNamed' /\ strayed \subseteq strayed'
  BY <1>1, <1>4, Zenon DEF PinsNamed
<1> QED
  BY <1>2, <1>4, <1>9, <1>11, <1>15, <1>16, <1>17, OneCall, Zenon

\* bpf_object__load keeps what the maps have and creates the ones that have no
\* descriptor.
LEMMA LoadKeeps ==
    ASSUME NEW P, NEW Q, NEW F, Grew(P, Q)
    PROVE  /\ MapsInv(P, F) => MapsInv(Q, F)
           /\ \A fd, n : Shares(P, fd, n) => Shares(Q, fd, n) /\ Q.fds[fd] = P.fds[fd]
<1>1. /\ Keeps(P, Q) /\ DOMAIN Q.obj.maps = DOMAIN P.obj.maps
      /\ \A i \in DOMAIN P.obj.maps : MapGrew(P, Q, i)
  BY Zenon DEF Grew
<1>2. ASSUME NEW i \in DOMAIN P.obj.maps, Named(P, F, i), RightMap(P, i)
      PROVE  Named(Q, F, i) /\ RightMap(Q, i)
  <2>1. MapGrew(P, Q, i)
    BY <1>1
  <2>2. CASE Q.obj.maps[i].fd = P.obj.maps[i].fd
    <3>1. Q.obj.maps[i].sym = P.obj.maps[i].sym
      BY <2>1, Zenon DEF MapGrew
    <3>2. Named(Q, F, i)
      BY <1>2, <2>1, <2>2, Zenon DEF Named, MapGrew
    <3>3. RightMap(Q, i)
      BY <1>1, <1>2, <2>2, <3>1 DEF RightMap, Keeps
    <3> QED
      BY <3>2, <3>3
  <2>3. CASE Q.obj.maps[i].fd # P.obj.maps[i].fd
    BY <1>2, <2>1, <2>3, Zenon DEF Named, RightMap, MapGrew
  <2> QED
    BY <2>2, <2>3
<1>3. \A i \in DOMAIN P.obj.maps : Q.obj.maps[i].sym = P.obj.maps[i].sym
  BY <1>1 DEF MapGrew
<1>4. ASSUME MapsInv(P, F) PROVE MapsInv(Q, F)
  BY <1>1, <1>2, <1>3, <1>4, Zenon DEF MapsInv
<1>5. ASSUME NEW fd, NEW n, Shares(P, fd, n)
      PROVE  Shares(Q, fd, n) /\ Q.fds[fd] = P.fds[fd]
  <2>1. fd \in Fds /\ Q.fds[fd] = P.fds[fd] /\ Q.fds[fd] # Nothing
    BY <1>1, <1>5 DEF Shares, Keeps
  <2>2. PICK i \in DOMAIN P.obj.maps :
           /\ P.obj.maps[i].sym = n /\ P.obj.maps[i].fd \in Fds
           /\ P.fds[P.obj.maps[i].fd] = P.fds[fd]
    BY <1>5 DEF Shares
  <2>3. Q.obj.maps[i].sym = n /\ Q.obj.maps[i].fd = P.obj.maps[i].fd
    BY <1>1, <2>2 DEF MapGrew
  <2>4. Q.fds[P.obj.maps[i].fd] = P.fds[fd]
    BY <1>1, <2>1, <2>2 DEF Keeps
  <2> QED
    BY <1>1, <2>1, <2>2, <2>3, <2>4 DEF Shares
<1> QED
  BY <1>4, <1>5

\* bpf_object__load, and the closing of the object when it fails.
LEMMA LoadStepInv == ASSUME PinnedInv, NEW p \in Procs, LoadStep(p) PROVE PinnedInv'
<1> DEFINE P == proc[p]
           F == mapFd[p]
<1>1. /\ ProcInv(P) /\ CallInv(P, F, at[p]) /\ F \in [Wanted -> Number]
      /\ SharedInv(p, P, F, at[p], pins, removed, strayed)
      /\ mapFd \in [Procs -> [Wanted -> Number]] /\ PinsNamed
  BY Zenon DEF PinnedInv, ObjectInv
<1>2. PICK bad : LET L == IF NoProgram(P, Elf(P)) THEN Returns(P, "failed")
                          ELSE LoadObject(p, P, bad, {})
                 IN IF L.ret = "ok" THEN Becomes(p, L) /\ Moves(p, "pin", 1)
                    ELSE Becomes(p, CloseObject(L)) /\ Moves(p, "failed", 0)
  BY DEF LoadStep
<1>3. /\ at[p].pc = "load" /\ mapFd' = mapFd /\ strayed' = strayed /\ removed' = removed
  BY DEF LoadStep
<1>4. mapFd' = [mapFd EXCEPT ![p] = F]
  BY <1>1, <1>3
<1> DEFINE L == IF NoProgram(P, Elf(P)) THEN Returns(P, "failed") ELSE LoadObject(p, P, bad, {})
           Q == IF L.ret = "ok" THEN L ELSE CloseObject(L)
           a == IF L.ret = "ok" THEN At("pin", 1) ELSE At("failed", 0)
<1>5. at' = [at EXCEPT ![p] = a] /\ proc' = [proc EXCEPT ![p] = Q] /\ pins' = pins
  BY <1>2 DEF Becomes, Moves
<1> HIDE DEF P, F
<1>6. IsOpen(P) /\ MapsInv(P, F)
  BY <1>1, <1>3 DEF CallInv, Running
<1>7. ProcInv(L) /\ IsOpen(L) /\ (L.ret # "failed" => Grew(P, L))
  <2>1. CASE ~NoProgram(P, Elf(P))
    BY <1>1, <1>6, <2>1, LoadObjectInv, Zenon
  <2>2. CASE NoProgram(P, Elf(P))
    <3>1. L = Returns(P, "failed")
      BY <2>2
    <3> HIDE DEF L
    <3>2. Alike(P, L) /\ L.ret = "failed"
      BY <1>1, <3>1, ReturnsAlike DEF ProcInv, Core
    <3> QED
      BY <1>1, <1>6, <3>2, AlikeInv DEF Alike, IsOpen
  <2> QED
    BY <2>1, <2>2
<1> HIDE DEF L
<1>8. ProcInv(Q) /\ (L.ret = "ok" => Q = L /\ a = At("pin", 1)) /\ (L.ret # "ok" => a = At("failed", 0))
  <2>1. Core(L)
    BY <1>7 DEF ProcInv
  <2> QED
    BY <1>7, <2>1, CloseObjectInv
<1> HIDE DEF Q, a
<1>9. CallInv(Q, F, a) /\ SharedInv(p, Q, F, a, pins', removed, strayed')
  <2>1. CASE L.ret = "ok"
    <3>1. Q = L /\ a.pc = "pin" /\ a.k = 1 /\ Grew(P, L)
      BY <1>7, <1>8, <2>1 DEF At
    <3>2. MapsInv(Q, F) /\ 1 \in DOMAIN Q.obj.maps /\ IsOpen(Q)
      <4>1. MapsInv(Q, F)
        BY <1>6, <3>1, LoadKeeps, Zenon
      <4> QED
        BY <1>7, <3>1, <4>1 DEF MapsInv
    <3>3. CallInv(Q, F, a)
      BY <3>1, <3>2 DEF CallInv
    <3>4. ASSUME p \notin strayed', NEW n \in Wanted, F[n] # -1
          PROVE  Shares(Q, F[n], n) /\ (n \notin removed => pins'[<<n>>] = Q.fds[F[n]])
      <4>1. Shares(P, F[n], n) /\ (n \notin removed => pins[<<n>>] = P.fds[F[n]])
        BY <1>1, <1>3, <3>4 DEF SharedInv, Sharing, Running
      <4> QED
        BY <1>5, <3>1, <4>1, LoadKeeps, Zenon
    <3> QED
      BY <3>3, <3>4 DEF SharedInv, Sharing
  <2>2. CASE L.ret # "ok"
    <3>1. a.pc = "failed"
      BY <1>8, <2>2 DEF At
    <3> QED
      BY <3>1 DEF CallInv, SharedInv, Running
  <2> QED
    BY <2>1, <2>2
<1>10. PinsNamed'
  BY <1>1, <1>5, Zenon DEF PinsNamed
<1> QED
  BY <1>1, <1>3, <1>4, <1>5, <1>8, <1>9, <1>10, OneCall, Zenon

\* A killed process has no descriptors and no call.
LEMMA KillInv == ASSUME PinnedInv, NEW p \in Procs, Kill(p) PROVE PinnedInv'
<1> DEFINE F == mapFd[p]
           a == At("killed", 0)
<1>1. F \in [Wanted -> Number] /\ mapFd \in [Procs -> [Wanted -> Number]] /\ PinsNamed
  BY Zenon DEF PinnedInv
<1>2. /\ proc' = [proc EXCEPT ![p] = NewProcess] /\ pins' = pins /\ mapFd' = mapFd
      /\ at' = [at EXCEPT ![p] = a] /\ strayed' = strayed /\ removed' = removed
  BY DEF Kill, Becomes, Moves
<1>3. mapFd' = [mapFd EXCEPT ![p] = F]
  BY <1>1, <1>2
<1>4. CallInv(NewProcess, F, a) /\ SharedInv(p, NewProcess, F, a, pins', removed, strayed')
  BY DEF CallInv, SharedInv, Running, At
<1> HIDE DEF F, a
<1>5. PinsNamed'
  BY <1>1, <1>2, Zenon DEF PinsNamed
<1> QED
  BY <1>1, <1>2, <1>3, <1>4, <1>5, NewProcessInv, OneCall, Zenon

\* Pinning a map that had no pinned file: the name under which it is pinned is
\* its symbol, and nothing was pinned there.
LEMMA PinStepInv == ASSUME PinnedInv, NEW p \in Procs, PinStep(p) PROVE PinnedInv'
<1> DEFINE P == proc[p]
           F == mapFd[p]
           k == at[p].k
           n == P.obj.maps[k].name
           fd == P.obj.maps[k].fd
           a == IF k < Len(P.obj.maps) THEN At("pin", k + 1) ELSE At("done", 1)
<1>1. /\ ProcInv(P) /\ CallInv(P, F, at[p]) /\ F \in [Wanted -> Number]
      /\ SharedInv(p, P, F, at[p], pins, removed, strayed)
      /\ proc \in [Procs -> Range(proc)] /\ mapFd \in [Procs -> [Wanted -> Number]] /\ PinsNamed
  BY Zenon DEF PinnedInv, ObjectInv
<1>2. /\ at[p].pc = "pin" /\ proc' = proc /\ strayed' = strayed /\ removed' = removed
      /\ at' = [at EXCEPT ![p] = a]
  BY DEF PinStep, Onwards, Moves
<1>3. proc' = [proc EXCEPT ![p] = P]
  BY <1>1, <1>2
<1>4. IsOpen(P) /\ MapsInv(P, F) /\ k \in DOMAIN P.obj.maps
  BY <1>1, <1>2 DEF CallInv, Running
<1>5. \/ pins' = pins /\ mapFd' = mapFd
      \/ /\ n \in Wanted /\ F[n] = -1 /\ fd \in Fds /\ P.fds[fd].kind \in {"map", "prog"}
         /\ pins[<<n>>] = Nothing
         /\ pins' = [pins EXCEPT ![<<n>>] = P.fds[fd]]
         /\ mapFd' = [mapFd EXCEPT ![p] = [F EXCEPT ![n] = fd]]
  <2>1. CASE n \in Wanted /\ F[n] = -1
    <3>1. PICK refused \in BOOLEAN : PinOne(p, ~refused /\ CanPin(P, Fs, <<n>>, fd))
      BY <2>1, Zenon DEF PinStep, MapAt
    <3>2. CASE ~refused /\ CanPin(P, Fs, <<n>>, fd)
      <4>1. fd \in Fds /\ P.fds[fd].kind \in {"map", "prog"} /\ pins[<<n>>] = Nothing
        BY <3>2, Zenon DEF CanPin, Pinned, Fs
      <4>2. /\ pins' = [pins EXCEPT ![<<n>>] = P.fds[fd]]
            /\ mapFd' = [mapFd EXCEPT ![p] = [F EXCEPT ![n] = fd]]
        BY <3>1, <3>2, Zenon DEF PinOne, MapAt
      <4> QED
        BY <2>1, <4>1, <4>2, Zenon
    <3>3. CASE ~(~refused /\ CanPin(P, Fs, <<n>>, fd))
      BY <3>1, <3>3, Zenon DEF PinOne
    <3> QED
      BY <3>2, <3>3, Zenon
  <2>2. CASE ~(n \in Wanted /\ F[n] = -1)
    BY <2>2, Zenon DEF PinStep, MapAt
  <2> QED
    BY <2>1, <2>2, Zenon
<1>6. DOMAIN pins = Paths
  BY <1>1 DEF PinsNamed
<1> HIDE DEF P, F, k
<1>7. ASSUME NEW G, MapsInv(P, G) PROVE CallInv(P, G, a)
  BY <1>1, <1>4, <1>7, NextMap DEF CallInv, At, Running
<1>8. CASE pins' = pins /\ mapFd' = mapFd
  <2>1. mapFd' = [mapFd EXCEPT ![p] = F]
    BY <1>1, <1>8 DEF F
  <2>2. SharedInv(p, P, F, a, pins', removed, strayed')
    BY <1>1, <1>2, <1>8 DEF SharedInv, Running
  <2>3. CallInv(P, F, a)
    BY <1>4, <1>7
  <2> HIDE DEF a
  <2>4. PinsNamed'
    BY <1>1, <1>8, Zenon DEF PinsNamed
  <2> QED
    BY <1>1, <1>2, <1>3, <1>8, <2>1, <2>2, <2>3, <2>4, OneCall, Zenon
<1>9. CASE /\ n \in Wanted /\ F[n] = -1 /\ fd \in Fds /\ P.fds[fd].kind \in {"map", "prog"}
           /\ pins[<<n>>] = Nothing
           /\ pins' = [pins EXCEPT ![<<n>>] = P.fds[fd]]
           /\ mapFd' = [mapFd EXCEPT ![p] = [F EXCEPT ![n] = fd]]
  <2> DEFINE G == [F EXCEPT ![n] = fd]
  <2>1. P.obj.maps[k].sym = n
    <3>1. Named(P, F, k)
      BY <1>4 DEF MapsInv
    <3> QED
      BY <1>9, <3>1, PinnedAssumption, Zenon DEF Named
  <2>2. P.fds[fd] # Nothing /\ P.fds[fd].name = KernelName[n]
    BY <1>4, <1>9, <2>1, Zenon DEF MapsInv, RightMap
  <2> HIDE DEF n, fd
  <2>3. G \in [Wanted -> Number] /\ G[n] = fd /\ \A m \in Wanted : m # n => G[m] = F[m]
    BY <1>1, <1>9 DEF Number
  <2>4. pins'[<<n>>] = P.fds[fd] /\ \A m \in Wanted : m # n => pins'[<<m>>] = pins[<<m>>]
    BY <1>6, <1>9, WantedPaths
  <2>5. DOMAIN pins' = Paths
    BY <1>6, <1>9
  <2>6. mapFd' = [mapFd EXCEPT ![p] = G]
    BY <1>9
  <2> HIDE DEF G
  <2>7. PinsNamed'
    BY <1>1, <2>2, <2>4, <2>5 DEF PinsNamed
  <2>8. CallInv(P, G, a)
    <3>1. \A i \in DOMAIN P.obj.maps : Named(P, G, i)
      BY <1>4, <1>9, <2>3, FdNumbers DEF MapsInv, Named
    <3>2. MapsInv(P, G)
      BY <1>4, <3>1 DEF MapsInv
    <3> HIDE DEF a
    <3> QED
      BY <1>7, <3>2
  <2>9. SharedInv(p, P, G, a, pins', removed, strayed')
    <3> SUFFICES ASSUME p \notin strayed, NEW m \in Wanted, G[m] # -1
                 PROVE  Shares(P, G[m], m) /\ (m \notin removed => pins'[<<m>>] = P.fds[G[m]])
      BY <1>2 DEF SharedInv, Sharing
    <3>1. CASE m = n
      BY <1>4, <1>9, <2>1, <2>2, <2>3, <2>4, <3>1, Zenon DEF Shares, fd
    <3>2. CASE m # n
      BY <1>1, <1>2, <2>3, <2>4, <3>2 DEF SharedInv, Sharing, Running
    <3> QED
      BY <3>1, <3>2
  <2>10. \A m \in Wanted : pins[<<m>>] # Nothing => pins'[<<m>>] = pins[<<m>>]
    BY <1>9, <2>4
  <2> HIDE DEF a
  <2> QED
    BY <1>1, <1>2, <1>3, <2>3, <2>6, <2>7, <2>8, <2>9, <2>10, OneCall, Zenon
<1> QED
  BY <1>5, <1>8, <1>9, Zenon DEF P, F, k

\* Removing a pin.
LEMMA RemovePinInv == ASSUME PinnedInv, NEW n \in Wanted, RemovePin(n) PROVE PinnedInv'
<1>1. /\ pins' = [pins EXCEPT ![<<n>>] = Nothing] /\ removed' = removed \cup {n}
      /\ proc' = proc /\ at' = at /\ mapFd' = mapFd /\ strayed' = strayed
  BY DEF RemovePin
<1>2. DOMAIN pins = Paths
  BY DEF PinnedInv, PinsNamed
<1>3. /\ DOMAIN pins' = Paths /\ pins'[<<n>>] = Nothing
      /\ \A m \in Wanted : m # n => pins'[<<m>>] = pins[<<m>>]
  BY <1>1, <1>2, WantedPaths
<1>4. PinsNamed'
  BY <1>3 DEF PinnedInv, PinsNamed
<1>5. ASSUME NEW p \in Procs
      PROVE  SharedInv(p, proc[p], mapFd[p], at[p], pins', removed', strayed)
  <2>1. SharedInv(p, proc[p], mapFd[p], at[p], pins, removed, strayed)
    BY Zenon DEF PinnedInv
  <2> QED
    BY <1>1, <1>3, <2>1 DEF SharedInv, Sharing
<1>6. /\ ObjectInv /\ at \in [Procs -> Range(at)] /\ mapFd \in [Procs -> [Wanted -> Number]]
      /\ \A p \in Procs : CallInv(proc[p], mapFd[p], at[p])
  BY Zenon DEF PinnedInv
<1>7. ObjectInv'
  BY <1>1, <1>6 DEF ObjectInv
<1> QED
  BY <1>1, <1>4, <1>5, <1>6, <1>7, Zenon DEF PinnedInv

(***************************************************************************)
(* The theorems.                                                           *)
(***************************************************************************)
\* Nothing is open, and what is pinned has been pinned under its name.
LEMMA PinnedStart == PInit => PinnedInv
<1> SUFFICES ASSUME PInit PROVE PinnedInv
  OBVIOUS
<1>1. ObjectInv
  BY ObjectStart DEF PInit
<1>2. PinsNamed
  <2>1. PICK old : pins = [path \in Paths |-> IF path[1] \in old THEN Older(path[1]) ELSE Nothing]
    BY DEF PInit, OInit
  <2>2. \A m : Older(m).name = KernelName[m]
    BY DEF Older, Resource
  <2> QED
    BY <2>1, <2>2, WantedPaths DEF PinsNamed
<1>3. /\ at = [p \in Procs |-> At("open", 0)]
      /\ mapFd = [p \in Procs |-> [n \in Wanted |-> -1]]
      /\ proc = [p \in Procs |-> NewProcess]
  BY DEF PInit, OInit
<1>4. at \in [Procs -> Range(at)] /\ mapFd \in [Procs -> [Wanted -> Number]]
  BY <1>3 DEF Range, Number
<1>5. ASSUME NEW p \in Procs
      PROVE  /\ CallInv(proc[p], mapFd[p], at[p])
             /\ SharedInv(p, proc[p], mapFd[p], at[p], pins, removed, strayed)
  <2>1. at[p].pc = "open" /\ proc[p] = NewProcess
    BY <1>3 DEF At
  <2> QED
    BY <2>1 DEF CallInv, SharedInv, Running
<1> QED
  BY <1>1, <1>2, <1>4, <1>5, Zenon DEF PinnedInv

\* Every step of every call, and the removal of a pin.
LEMMA PinnedNext == PinnedInv /\ [PNext]_pvars => PinnedInv'
<1> SUFFICES ASSUME PinnedInv, [PNext]_pvars PROVE PinnedInv'
  OBVIOUS
<1>1. CASE UNCHANGED pvars
  BY <1>1, Zenon DEF PinnedInv, ObjectInv, PinsNamed, pvars
<1>2. CASE PNext
  BY <1>2, OpenStepInv, GetPinInv, NoPinInv, LoadStepInv, PinStepInv, KillInv, RemovePinInv, Zenon
     DEF PNext
<1> QED
  BY <1>1, <1>2

\* In every reachable state the maps of every call are the ones of the file,
\* with descriptors of maps of their names, and every map_fd is shared.
THEOREM PinnedSafe == PSpec => []PinnedInv
  BY PinnedStart, PinnedNext, PTL DEF PSpec

\* For any processes, files and lists of names, and whichever of the calls fail,
\* when bpf_prog_load_xattr_maps has returned, a map_fd stands for the map the
\* process's programs use and for the one pinned under that name, so that the
\* processes that have one share the map.
THEOREM MapFdShared == PSpec => []MapFdIsShared
<1>1. PinnedInv => MapFdIsShared
  <2> SUFFICES ASSUME PinnedInv, NEW p \in Procs \ strayed, at[p].pc = "done",
                      NEW n \in Wanted, mapFd[p][n] # -1
               PROVE  /\ UsedMap(proc[p], n) = {proc[p].fds[mapFd[p][n]]}
                      /\ n \notin removed => proc[p].fds[mapFd[p][n]] = pins[<<n>>]
    BY Zenon DEF MapFdIsShared
  <2>1. /\ CallInv(proc[p], mapFd[p], at[p])
        /\ SharedInv(p, proc[p], mapFd[p], at[p], pins, removed, strayed)
    BY Zenon DEF PinnedInv
  <2>2. /\ Shares(proc[p], mapFd[p][n], n)
        /\ n \notin removed => pins[<<n>>] = proc[p].fds[mapFd[p][n]]
    BY <2>1 DEF SharedInv, Sharing, Running
  <2>3. MapsInv(proc[p], mapFd[p])
    BY <2>1 DEF CallInv, Running
  <2>4. PICK i \in DOMAIN proc[p].obj.maps :
           /\ proc[p].obj.maps[i].sym = n
           /\ proc[p].fds[proc[p].obj.maps[i].fd] = proc[p].fds[mapFd[p][n]]
    BY <2>2, Zenon DEF Shares
  <2>5. \A j \in DOMAIN proc[p].obj.maps : proc[p].obj.maps[j].sym = n => j = i
    BY <2>3, <2>4 DEF MapsInv
  <2>6. UsedMap(proc[p], n) = {proc[p].fds[mapFd[p][n]]}
    BY <2>4, <2>5, Zenon DEF UsedMap
  <2> QED
    BY <2>2, <2>6
<1> QED
  BY <1>1, PinnedSafe, PTL

\* Although here elf_begin and dup3 may fail, and lose the number of a file of
\* their own, no call loses a map, program or BTF descriptor.
THEOREM PinnedNothingLost == PSpec => []NothingLost
<1>1. PinnedInv => NothingLost
  BY ObjectKnows DEF PinnedInv
<1> QED
  BY <1>1, PinnedSafe, PTL
=============================================================================
