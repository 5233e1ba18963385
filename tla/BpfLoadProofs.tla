--------------------------- MODULE BpfLoadProofs ---------------------------
(***************************************************************************)
(* The invariant of a process that uses an object of libbpf, and that      *)
(* loading, unloading and closing the object preserve it, whichever system *)
(* call of them the kernel refuses.                                        *)
(*                                                                         *)
(* The first part gives the rounds r[0], r[1], ..., r[n] of each loop of   *)
(* the code that an object goes through; the rest is the invariant, shown  *)
(* for the steps of these calls in turn.                                   *)
(***************************************************************************)
EXTENDS BpfObject, WellFoundedInduction, TLAPS

(***************************************************************************)
(* Induction, for sets.                                                    *)
(***************************************************************************)
\* A set of naturals that is not empty has a least element.
LEMMA LeastNat ==
    ASSUME NEW T \in SUBSET Nat, T # {}
    PROVE  \E x \in T : \A y \in T : x <= y
<1>1. PICK x \in T : \A y \in T : ~(<<y, x>> \in OpToRel(<, Nat))
  <2>1. T \subseteq Nat
    OBVIOUS
  <2> HIDE DEF OpToRel
  <2> QED
    BY <2>1, WFMin, NatLessThanWellFounded
<1>2. \A y \in T : ~(y < x)
  BY <1>1 DEF OpToRel
<1>3. x \in Nat /\ \A y \in T : y \in Nat
  OBVIOUS
<1>4. \A y \in T : x <= y
  BY <1>2, <1>3
<1> QED
  BY <1>4

\* A set with 0 and with every successor of a member has all naturals.
LEMMA NatSetInduction ==
    ASSUME NEW S, 0 \in S, \A n \in Nat : n \in S => n + 1 \in S
    PROVE  Nat \subseteq S
<1> SUFFICES ASSUME Nat \ S # {} PROVE FALSE
  OBVIOUS
<1>1. PICK x \in Nat \ S : \A y \in Nat \ S : x <= y
  BY LeastNat
<1>2. x # 0
  OBVIOUS
<1>3. x - 1 \in Nat /\ x - 1 \in S
  BY <1>1, <1>2
<1> QED
  BY <1>3

(***************************************************************************)
(* Rounds of the loops.  ForEach chooses a function that satisfies the     *)
(* loop's equation; that there is one is shown by induction over the       *)
(* number of rounds.                                                       *)
(***************************************************************************)
\* elf_collect goes through the sections from the first to the last.
LEMMA CollectSectionsRounds ==
    ASSUME NEW image, NEW btfLoads, NEW n \in Nat, DOMAIN image.secs = 1 .. n
    PROVE  \E r : /\ r[0] = Empty
                  /\ \A i \in 1 .. n : r[i] = CollectSection(image, btfLoads, r[i - 1], i)
                  /\ CollectSections(image, btfLoads) = r[n]
<1> DEFINE start == Empty
           Op(q, i) == CollectSection(image, btfLoads, q, i)
           F(g, k) == [i \in 0 .. k |-> IF i = 0 THEN start ELSE Op(g[i - 1], i)]
           loop == CHOOSE g : g = F(g, n)
           D == {k \in Nat : \E g : g = F(g, k)}
<1>0. Len(image.secs) = n
  OBVIOUS
<1>1. CollectSections(image, btfLoads) = loop[n]
  BY <1>0, Zenon DEF CollectSections, ForEach
<1> HIDE DEF start, Op
<1>2. 0 \in D
  <2>1. [i \in 0 .. 0 |-> start] = F([i \in 0 .. 0 |-> start], 0)
    OBVIOUS
  <2> HIDE DEF F
  <2> QED
    BY <2>1, Zenon
<1>3. ASSUME NEW k \in Nat, k \in D PROVE k + 1 \in D
  <2> PICK g : g = F(g, k)
    BY <1>3
  <2> DEFINE h == [i \in 0 .. k + 1 |-> IF i = k + 1 THEN Op(g[k], k + 1) ELSE g[i]]
  <2>1. ASSUME NEW i \in 0 .. k + 1
        PROVE  h[i] = IF i = 0 THEN start ELSE Op(h[i - 1], i)
    <3>1. CASE i = k + 1
      BY <3>1
    <3>2. CASE i # k + 1
      <4>1. i \in 0 .. k /\ (i # 0 => i - 1 \in 0 .. k + 1 /\ i - 1 # k + 1)
        BY <3>2
      <4>2. h[i] = g[i] /\ (i # 0 => h[i - 1] = g[i - 1])
        BY <4>1
      <4> HIDE DEF h
      <4> QED
        BY <4>1, <4>2
    <3> QED
      BY <3>1, <3>2
  <2>2. h = [i \in 0 .. k + 1 |-> h[i]]
    OBVIOUS
  <2> HIDE DEF h
  <2>3. h = F(h, k + 1)
    BY <2>1, <2>2, Zenon
  <2>4. k + 1 \in Nat
    OBVIOUS
  <2> HIDE DEF F
  <2> QED
    BY <2>3, <2>4, Zenon
<1>4. n \in D
  <2> HIDE DEF D
  <2> QED
    BY <1>2, <1>3, NatSetInduction
<1>5. loop = F(loop, n)
  <2> HIDE DEF F
  <2> QED
    BY <1>4
<1> HIDE DEF loop
<1>6. loop[0] = start
  BY <1>5
<1>7. ASSUME NEW i \in 1 .. n PROVE loop[i] = Op(loop[i - 1], i)
  BY <1>5
<1> HIDE DEF F
<1> QED
  BY <1>1, <1>6, <1>7 DEF start, Op

\* bpf_object__collect_reloc goes through the SHT_REL sections in order.
LEMMA CollectRelocsRounds ==
    ASSUME NEW image, NEW o, NEW n \in Nat, DOMAIN o.rels = 1 .. n
    PROVE  \E r : /\ r[0] = o
                  /\ \A i \in 1 .. n : r[i] = CollectReloc(image, r[i - 1], o.rels[i])
                  /\ CollectRelocs(image, o) = r[n]
<1> DEFINE start == o
           Op(q, i) == CollectReloc(image, q, o.rels[i])
           F(g, k) == [i \in 0 .. k |-> IF i = 0 THEN start ELSE Op(g[i - 1], i)]
           loop == CHOOSE g : g = F(g, n)
           D == {k \in Nat : \E g : g = F(g, k)}
<1>0. Len(o.rels) = n
  OBVIOUS
<1>1. CollectRelocs(image, o) = loop[n]
  BY <1>0, Zenon DEF CollectRelocs, ForEach
<1> HIDE DEF start, Op
<1>2. 0 \in D
  <2>1. [i \in 0 .. 0 |-> start] = F([i \in 0 .. 0 |-> start], 0)
    OBVIOUS
  <2> HIDE DEF F
  <2> QED
    BY <2>1, Zenon
<1>3. ASSUME NEW k \in Nat, k \in D PROVE k + 1 \in D
  <2> PICK g : g = F(g, k)
    BY <1>3
  <2> DEFINE h == [i \in 0 .. k + 1 |-> IF i = k + 1 THEN Op(g[k], k + 1) ELSE g[i]]
  <2>1. ASSUME NEW i \in 0 .. k + 1
        PROVE  h[i] = IF i = 0 THEN start ELSE Op(h[i - 1], i)
    <3>1. CASE i = k + 1
      BY <3>1
    <3>2. CASE i # k + 1
      <4>1. i \in 0 .. k /\ (i # 0 => i - 1 \in 0 .. k + 1 /\ i - 1 # k + 1)
        BY <3>2
      <4>2. h[i] = g[i] /\ (i # 0 => h[i - 1] = g[i - 1])
        BY <4>1
      <4> HIDE DEF h
      <4> QED
        BY <4>1, <4>2
    <3> QED
      BY <3>1, <3>2
  <2>2. h = [i \in 0 .. k + 1 |-> h[i]]
    OBVIOUS
  <2> HIDE DEF h
  <2>3. h = F(h, k + 1)
    BY <2>1, <2>2, Zenon
  <2>4. k + 1 \in Nat
    OBVIOUS
  <2> HIDE DEF F
  <2> QED
    BY <2>3, <2>4, Zenon
<1>4. n \in D
  <2> HIDE DEF D
  <2> QED
    BY <1>2, <1>3, NatSetInduction
<1>5. loop = F(loop, n)
  <2> HIDE DEF F
  <2> QED
    BY <1>4
<1> HIDE DEF loop
<1>6. loop[0] = start
  BY <1>5
<1>7. ASSUME NEW i \in 1 .. n PROVE loop[i] = Op(loop[i - 1], i)
  BY <1>5
<1> HIDE DEF F
<1> QED
  BY <1>1, <1>6, <1>7 DEF start, Op

\* bpf_object__create_maps goes through the maps in order.
LEMMA CreateMapsRounds ==
    ASSUME NEW p, NEW P, NEW bad, NEW n \in Nat, DOMAIN P.obj.maps = 1 .. n
    PROVE  \E r : /\ r[0] = P
                  /\ \A i \in 1 .. n : r[i] = CreateMap(p, bad, r[i - 1], i)
                  /\ CreateMaps(p, P, bad) = r[n]
<1> DEFINE start == P
           Op(q, i) == CreateMap(p, bad, q, i)
           F(g, k) == [i \in 0 .. k |-> IF i = 0 THEN start ELSE Op(g[i - 1], i)]
           loop == CHOOSE g : g = F(g, n)
           D == {k \in Nat : \E g : g = F(g, k)}
<1>0. Len(P.obj.maps) = n
  OBVIOUS
<1>1. CreateMaps(p, P, bad) = loop[n]
  BY <1>0, Zenon DEF CreateMaps, ForEach
<1> HIDE DEF start, Op
<1>2. 0 \in D
  <2>1. [i \in 0 .. 0 |-> start] = F([i \in 0 .. 0 |-> start], 0)
    OBVIOUS
  <2> HIDE DEF F
  <2> QED
    BY <2>1, Zenon
<1>3. ASSUME NEW k \in Nat, k \in D PROVE k + 1 \in D
  <2> PICK g : g = F(g, k)
    BY <1>3
  <2> DEFINE h == [i \in 0 .. k + 1 |-> IF i = k + 1 THEN Op(g[k], k + 1) ELSE g[i]]
  <2>1. ASSUME NEW i \in 0 .. k + 1
        PROVE  h[i] = IF i = 0 THEN start ELSE Op(h[i - 1], i)
    <3>1. CASE i = k + 1
      BY <3>1
    <3>2. CASE i # k + 1
      <4>1. i \in 0 .. k /\ (i # 0 => i - 1 \in 0 .. k + 1 /\ i - 1 # k + 1)
        BY <3>2
      <4>2. h[i] = g[i] /\ (i # 0 => h[i - 1] = g[i - 1])
        BY <4>1
      <4> HIDE DEF h
      <4> QED
        BY <4>1, <4>2
    <3> QED
      BY <3>1, <3>2
  <2>2. h = [i \in 0 .. k + 1 |-> h[i]]
    OBVIOUS
  <2> HIDE DEF h
  <2>3. h = F(h, k + 1)
    BY <2>1, <2>2, Zenon
  <2>4. k + 1 \in Nat
    OBVIOUS
  <2> HIDE DEF F
  <2> QED
    BY <2>3, <2>4, Zenon
<1>4. n \in D
  <2> HIDE DEF D
  <2> QED
    BY <1>2, <1>3, NatSetInduction
<1>5. loop = F(loop, n)
  <2> HIDE DEF F
  <2> QED
    BY <1>4
<1> HIDE DEF loop
<1>6. loop[0] = start
  BY <1>5
<1>7. ASSUME NEW i \in 1 .. n PROVE loop[i] = Op(loop[i - 1], i)
  BY <1>5
<1> HIDE DEF F
<1> QED
  BY <1>1, <1>6, <1>7 DEF start, Op

\* A program without instances gets one before bpf_program__load goes through
\* them.
FirstInst(P, i) == IF P.obj.inst[i] = <<>> THEN [P EXCEPT !.obj.inst[i] = <<-1>>] ELSE P

\* bpf_program__load goes through the instances in order.
LEMMA LoadInstancesRounds ==
    ASSUME NEW p, NEW elf, NEW bad, NEW skip, NEW P, NEW at, NEW n \in Nat,
           ~(P.ret = "failed" \/ IsFunctionStorage(elf, elf.progs[at])),
           ~(P.obj.inst[at] = <<>> /\ P.obj.prep[at]),
           DOMAIN FirstInst(P, at).obj.inst[at] = 1 .. n
    PROVE  \E r : /\ r[0] = FirstInst(P, at)
                  /\ \A j \in 1 .. n :
                        r[j] = LoadProgram(p, elf.progs[at].insns, at, bad, skip, r[j - 1], j)
                  /\ LoadInstances(p, elf, bad, skip, P, at) = r[n]
<1> DEFINE start == FirstInst(P, at)
           Op(q, i) == LoadProgram(p, elf.progs[at].insns, at, bad, skip, q, i)
           F(g, k) == [i \in 0 .. k |-> IF i = 0 THEN start ELSE Op(g[i - 1], i)]
           loop == CHOOSE g : g = F(g, n)
           D == {k \in Nat : \E g : g = F(g, k)}
<1>0. Len(FirstInst(P, at).obj.inst[at]) = n
  OBVIOUS
<1>1. LoadInstances(p, elf, bad, skip, P, at) = loop[n]
  BY <1>0, Zenon DEF LoadInstances, FirstInst, ForEach
<1> HIDE DEF start, Op
<1>2. 0 \in D
  <2>1. [i \in 0 .. 0 |-> start] = F([i \in 0 .. 0 |-> start], 0)
    OBVIOUS
  <2> HIDE DEF F
  <2> QED
    BY <2>1, Zenon
<1>3. ASSUME NEW k \in Nat, k \in D PROVE k + 1 \in D
  <2> PICK g : g = F(g, k)
    BY <1>3
  <2> DEFINE h == [i \in 0 .. k + 1 |-> IF i = k + 1 THEN Op(g[k], k + 1) ELSE g[i]]
  <2>1. ASSUME NEW i \in 0 .. k + 1
        PROVE  h[i] = IF i = 0 THEN start ELSE Op(h[i - 1], i)
    <3>1. CASE i = k + 1
      BY <3>1
    <3>2. CASE i # k + 1
      <4>1. i \in 0 .. k /\ (i # 0 => i - 1 \in 0 .. k + 1 /\ i - 1 # k + 1)
        BY <3>2
      <4>2. h[i] = g[i] /\ (i # 0 => h[i - 1] = g[i - 1])
        BY <4>1
      <4> HIDE DEF h
      <4> QED
        BY <4>1, <4>2
    <3> QED
      BY <3>1, <3>2
  <2>2. h = [i \in 0 .. k + 1 |-> h[i]]
    OBVIOUS
  <2> HIDE DEF h
  <2>3. h = F(h, k + 1)
    BY <2>1, <2>2, Zenon
  <2>4. k + 1 \in Nat
    OBVIOUS
  <2> HIDE DEF F
  <2> QED
    BY <2>3, <2>4, Zenon
<1>4. n \in D
  <2> HIDE DEF D
  <2> QED
    BY <1>2, <1>3, NatSetInduction
<1>5. loop = F(loop, n)
  <2> HIDE DEF F
  <2> QED
    BY <1>4
<1> HIDE DEF loop
<1>6. loop[0] = start
  BY <1>5
<1>7. ASSUME NEW i \in 1 .. n PROVE loop[i] = Op(loop[i - 1], i)
  BY <1>5
<1> HIDE DEF F
<1> QED
  BY <1>1, <1>6, <1>7 DEF start, Op

\* The process after bpf_object__relocate.
Told(P, elf) ==
    [P EXCEPT !.ret = IF elf.err = "none" THEN "ok" ELSE "failed",
              !.obj.prog_btf = [i \in DOMAIN @ |-> IF elf.progs[i].btf THEN P.obj.btf_fd ELSE @[i]],
              !.copied = @ \/ \E i \in DOMAIN P.obj.prog_btf : elf.progs[i].btf]

\* bpf_object__load_progs goes through the programs in order.
LEMMA LoadProgsRounds ==
    ASSUME NEW p, NEW elf, NEW bad, NEW skip, NEW P, NEW n \in Nat,
           P.ret # "failed", DOMAIN P.obj.inst = 1 .. n
    PROVE  \E r : /\ r[0] = Told(P, elf)
                  /\ \A i \in 1 .. n : r[i] = LoadInstances(p, elf, bad, skip, r[i - 1], i)
                  /\ LoadProgs(p, P, elf, bad, skip) = r[n]
<1> DEFINE start == Told(P, elf)
           Op(q, i) == LoadInstances(p, elf, bad, skip, q, i)
           F(g, k) == [i \in 0 .. k |-> IF i = 0 THEN start ELSE Op(g[i - 1], i)]
           loop == CHOOSE g : g = F(g, n)
           D == {k \in Nat : \E g : g = F(g, k)}
<1>0. Len(P.obj.inst) = n
  OBVIOUS
<1>1. LoadProgs(p, P, elf, bad, skip) = loop[n]
  BY <1>0, Zenon DEF LoadProgs, Told, ForEach
<1> HIDE DEF start, Op
<1>2. 0 \in D
  <2>1. [i \in 0 .. 0 |-> start] = F([i \in 0 .. 0 |-> start], 0)
    OBVIOUS
  <2> HIDE DEF F
  <2> QED
    BY <2>1, Zenon
<1>3. ASSUME NEW k \in Nat, k \in D PROVE k + 1 \in D
  <2> PICK g : g = F(g, k)
    BY <1>3
  <2> DEFINE h == [i \in 0 .. k + 1 |-> IF i = k + 1 THEN Op(g[k], k + 1) ELSE g[i]]
  <2>1. ASSUME NEW i \in 0 .. k + 1
        PROVE  h[i] = IF i = 0 THEN start ELSE Op(h[i - 1], i)
    <3>1. CASE i = k + 1
      BY <3>1
    <3>2. CASE i # k + 1
      <4>1. i \in 0 .. k /\ (i # 0 => i - 1 \in 0 .. k + 1 /\ i - 1 # k + 1)
        BY <3>2
      <4>2. h[i] = g[i] /\ (i # 0 => h[i - 1] = g[i - 1])
        BY <4>1
      <4> HIDE DEF h
      <4> QED
        BY <4>1, <4>2
    <3> QED
      BY <3>1, <3>2
  <2>2. h = [i \in 0 .. k + 1 |-> h[i]]
    OBVIOUS
  <2> HIDE DEF h
  <2>3. h = F(h, k + 1)
    BY <2>1, <2>2, Zenon
  <2>4. k + 1 \in Nat
    OBVIOUS
  <2> HIDE DEF F
  <2> QED
    BY <2>3, <2>4, Zenon
<1>4. n \in D
  <2> HIDE DEF D
  <2> QED
    BY <1>2, <1>3, NatSetInduction
<1>5. loop = F(loop, n)
  <2> HIDE DEF F
  <2> QED
    BY <1>4
<1> HIDE DEF loop
<1>6. loop[0] = start
  BY <1>5
<1>7. ASSUME NEW i \in 1 .. n PROVE loop[i] = Op(loop[i - 1], i)
  BY <1>5
<1> HIDE DEF F
<1> QED
  BY <1>1, <1>6, <1>7 DEF start, Op

(***************************************************************************)
(* The invariant of a process.                                             *)
(***************************************************************************)
\* A descriptor, or the -1 that stands for none.
Number == Fds \cup {-1}

\* An array of the code.
IsSequence(s) == \E n \in Nat : DOMAIN s = 1 .. n

\* The fields of struct bpf_object that the proofs look at.
ObjectShape(obj) ==
    /\ DOMAIN obj = DOMAIN NoObject
    /\ obj.btf_fd \in Number
    /\ IsSequence(obj.maps) /\ IsSequence(obj.inst)
    /\ \A i \in DOMAIN obj.maps :
          {"fd", "name", "sym"} \subseteq DOMAIN obj.maps[i] /\ obj.maps[i].fd \in Number
    /\ \A i \in DOMAIN obj.inst :
          IsSequence(obj.inst[i]) /\ \A j \in DOMAIN obj.inst[i] : obj.inst[i][j] \in Number

\* The type invariant of a process.
Shape(P) ==
    /\ DOMAIN P = {"fds", "user", "obj", "opens", "ret", "copied"}
    /\ DOMAIN P.fds = Fds /\ DOMAIN P.user = Fds
    /\ ObjectShape(P.obj)

\* The object has the number n for a map, for a program, for anything.
IsMapFd(obj, n)  == \E i \in DOMAIN obj.maps : obj.maps[i].fd = n

IsProgFd(obj, n) == \E i \in DOMAIN obj.inst : \E j \in DOMAIN obj.inst[i] : obj.inst[i][j] = n

Knows(obj, n) == IsMapFd(obj, n) \/ IsProgFd(obj, n) \/ obj.btf_fd = n

\* What the process holds is known to its object.
Known(P) == \A n \in Held(P) : Knows(P.obj, n)

\* No number stands for two things.
Apart(obj) ==
    /\ \A i, k \in DOMAIN obj.maps :
          obj.maps[i].fd = obj.maps[k].fd /\ obj.maps[i].fd \in Fds => i = k
    /\ \A n \in Fds : IsMapFd(obj, n) => ~IsProgFd(obj, n) /\ obj.btf_fd # n
    /\ \A n \in Fds : IsProgFd(obj, n) => obj.btf_fd # n

\* What holds until a program is given a copy of the BTF descriptor's number:
\* the application's descriptors and the object's are open and are different
\* ones.
Clean(P) ==
    /\ \A i \in DOMAIN P.obj.prog_btf : P.obj.prog_btf[i] = -1
    /\ \A n \in Fds : P.user[n] # Nothing => P.fds[n] = P.user[n]
    /\ \A n \in Fds : Knows(P.obj, n) => P.fds[n] # Nothing /\ P.user[n] = Nothing
    /\ Apart(P.obj)

\* What every step inside a call preserves, too.
Core(P) ==
    /\ Shape(P) /\ Known(P)
    /\ ~IsOpen(P) => P.obj = NoObject
    /\ ~P.copied => Clean(P)

\* No program of the object is loaded.
Blank(obj) == \A n \in Fds : ~IsProgFd(obj, n)

\* Only an object that is marked as loaded has programs loaded.
ProcInv(P) == Core(P) /\ (~P.obj.loaded => Blank(P.obj))

\* A load that fails leaves the process the BTF descriptor at most.
Released(P, Q) ==
    Q.obj.loaded /\ ~P.obj.loaded /\ Q.ret = "failed" => Held(Q) \subseteq {Q.obj.btf_fd}

\* Map i is the same in Q as in P, or has been created in between.
MapGrew(P, Q, i) ==
    /\ Q.obj.maps[i].sym = P.obj.maps[i].sym /\ Q.obj.maps[i].name = P.obj.maps[i].name
    /\ \/ Q.obj.maps[i].fd = P.obj.maps[i].fd
       \/ /\ P.obj.maps[i].fd \notin Fds /\ Q.obj.maps[i].fd \in Fds
          /\ Q.fds[Q.obj.maps[i].fd] # Nothing
          /\ Q.fds[Q.obj.maps[i].fd].name = KernelName[P.obj.maps[i].name]

\* What is open in P is open in Q, under the same number.
Keeps(P, Q) == \A n \in Fds : P.fds[n] # Nothing => Q.fds[n] = P.fds[n]

\* Q has what P has, and may have opened descriptors and created maps.
Grew(P, Q) ==
    /\ Keeps(P, Q)
    /\ DOMAIN Q.obj.maps = DOMAIN P.obj.maps
    /\ \A i \in DOMAIN P.obj.maps : MapGrew(P, Q, i)

\* The invariant of all processes.
ObjectInv == proc \in [Procs -> Range(proc)] /\ \A p \in Procs : ProcInv(proc[p])

(***************************************************************************)
(* Descriptors.                                                            *)
(***************************************************************************)
\* The kernel gives out a number that is free.
LEMMA LowestFree ==
    ASSUME NEW P, Shape(P), ~Full(P)
    PROVE  Lowest(P) \in Fds /\ P.fds[Lowest(P)] = Nothing
<1>1. Free(P) \in SUBSET Nat /\ Free(P) # {}
  BY ObjectAssumption DEF Free, Full, Fds
<1>2. \E n \in Free(P) : \A m \in Free(P) : n <= m
  BY <1>1, LeastNat
<1>3. Lowest(P) \in Free(P)
  BY <1>2 DEF Lowest
<1> QED
  BY <1>3 DEF Free

\* What the kernel's objects are is told apart.
LEMMA Kinds ==
    /\ Nothing.kind = "none" /\ OwnFile.kind = "file" /\ BtfData.kind = "btf"
    /\ OwnFile # Nothing /\ BtfData # Nothing
  BY Zenon DEF Nothing, OwnFile, BtfData, Resource

\* Descriptors are numbers from 0, so that -1 is none.
LEMMA FdNumbers == -1 \notin Fds /\ \A n \in Fds : n >= 0
  BY ObjectAssumption DEF Fds

\* What an object knows depends on its maps, instances and BTF only.
LEMMA SameFds ==
    ASSUME NEW a, NEW b, a.maps = b.maps, a.inst = b.inst, a.btf_fd = b.btf_fd
    PROVE  /\ Apart(a) <=> Apart(b)
           /\ Blank(a) <=> Blank(b)
           /\ \A n \in Fds : Knows(a, n) <=> Knows(b, n)
<1>1. \A n \in Fds : (IsMapFd(a, n) <=> IsMapFd(b, n)) /\ (IsProgFd(a, n) <=> IsProgFd(b, n))
  BY DEF IsMapFd, IsProgFd
<1>2. Apart(a) <=> Apart(b)
  BY <1>1 DEF Apart
<1> QED
  BY <1>1, <1>2 DEF Blank, Knows

\* Two processes with the same table and object.
Alike(P, Q) ==
    /\ DOMAIN Q = DOMAIN P
    /\ DOMAIN Q.fds = DOMAIN P.fds /\ \A n \in DOMAIN P.fds : Q.fds[n] = P.fds[n]
    /\ Q.user = P.user /\ Q.obj = P.obj /\ Q.copied = P.copied

\* The result of a call is not part of the invariant.
LEMMA AlikeCore ==
    ASSUME NEW P, NEW Q, Alike(P, Q), Core(P)
    PROVE  Core(Q)
  BY DEF Alike, Core, Shape, Known, Held, IsOpen, Clean

\* The same for the whole invariant.
LEMMA AlikeInv ==
    ASSUME NEW P, NEW Q, Alike(P, Q), ProcInv(P)
    PROVE  ProcInv(Q)
  BY AlikeCore DEF ProcInv, Alike

\* Returning changes the result only.
LEMMA ReturnsAlike ==
    ASSUME NEW P, Shape(P), NEW ret
    PROVE  Alike(P, Returns(P, ret)) /\ Returns(P, ret).ret = ret
  BY DEF Alike, Returns, Shape

\* Opening a descriptor changes the table at the lowest free number.
LEMMA NewFdFields ==
    ASSUME NEW P, NEW r, Shape(P)
    PROVE  /\ DOMAIN NewFd(P, r) = DOMAIN P
           /\ NewFd(P, r).fds = [P.fds EXCEPT ![Lowest(P)] = r]
           /\ NewFd(P, r).user = P.user /\ NewFd(P, r).obj = P.obj
           /\ NewFd(P, r).opens = P.opens /\ NewFd(P, r).ret = P.ret
           /\ NewFd(P, r).copied = P.copied
  BY DEF NewFd, Shape

\* Closing descriptors changes the table only.
LEMMA CloseFdsFields ==
    ASSUME NEW P, NEW S, DOMAIN P = {"fds", "user", "obj", "opens", "ret", "copied"}
    PROVE  /\ DOMAIN CloseFds(P, S) = DOMAIN P
           /\ CloseFds(P, S).fds = [n \in Fds |-> IF n \in S THEN Nothing ELSE P.fds[n]]
           /\ CloseFds(P, S).user = P.user /\ CloseFds(P, S).obj = P.obj
           /\ CloseFds(P, S).opens = P.opens /\ CloseFds(P, S).ret = P.ret
           /\ CloseFds(P, S).copied = P.copied
  BY DEF CloseFds

\* Growing is transitive,
LEMMA GrewTrans ==
    ASSUME NEW P, NEW Q, NEW R, Grew(P, Q), Grew(Q, R)
    PROVE  Grew(P, R)
<1>1. ASSUME NEW i \in DOMAIN P.obj.maps PROVE MapGrew(P, R, i)
  <2>1. Keeps(Q, R) /\ MapGrew(P, Q, i) /\ MapGrew(Q, R, i)
    BY <1>1 DEF Grew
  <2> QED
    BY <2>1, Zenon DEF Keeps, MapGrew
<1>2. Keeps(P, R)
  <2>1. Keeps(P, Q) /\ Keeps(Q, R)
    BY DEF Grew
  <2> QED
    BY <2>1 DEF Keeps
<1>3. DOMAIN R.obj.maps = DOMAIN P.obj.maps
  BY DEF Grew
<1> QED
  BY <1>1, <1>2, <1>3, Zenon DEF Grew

\* and opening something that is no map of the object is growing.
LEMMA GrewMore ==
    ASSUME NEW P, NEW Q, Q.obj.maps = P.obj.maps,
           \A n \in Fds : P.fds[n] # Nothing => Q.fds[n] = P.fds[n]
    PROVE  Grew(P, Q)
  BY DEF Grew, MapGrew, Keeps

(***************************************************************************)
(* Unloading and closing.                                                  *)
(***************************************************************************)
\* bpf_object__unload, field by field.
LEMMA UnloadFields ==
    ASSUME NEW P, Shape(P)
    PROVE  LET U == Unload(P) IN
           /\ DOMAIN U = DOMAIN P
           /\ U.fds = [n \in Fds |-> IF n \in MapFds(P) \cup ProgFds(P) \cup Range(P.obj.prog_btf)
                                     THEN Nothing ELSE P.fds[n]]
           /\ U.user = P.user /\ U.copied = P.copied
           /\ DOMAIN U.obj = DOMAIN P.obj
           /\ U.obj.file = P.obj.file /\ U.obj.loaded = P.obj.loaded
           /\ U.obj.btf_fd = P.obj.btf_fd /\ U.obj.prep = P.obj.prep
           /\ U.obj.maps = [i \in DOMAIN P.obj.maps |-> [P.obj.maps[i] EXCEPT !.fd = -1]]
           /\ U.obj.inst = [i \in DOMAIN P.obj.inst |-> <<>>]
           /\ U.obj.prog_btf = [i \in DOMAIN P.obj.prog_btf |-> -1]
<1> DEFINE C == CloseFds(P, MapFds(P) \cup ProgFds(P) \cup Range(P.obj.prog_btf))
<1>1. /\ DOMAIN C = DOMAIN P /\ C.user = P.user /\ C.copied = P.copied /\ C.obj = P.obj
      /\ C.fds = [n \in Fds |-> IF n \in MapFds(P) \cup ProgFds(P) \cup Range(P.obj.prog_btf)
                                     THEN Nothing ELSE P.fds[n]]
  BY CloseFdsFields DEF Shape
<1>2. DOMAIN C = {"fds", "user", "obj", "opens", "ret", "copied"} 
  BY <1>1 DEF Shape
<1>4. DOMAIN P.obj = {"file", "loaded", "btf_fd", "maps", "inst", "prep", "prog_btf"}
  BY DEF Shape, ObjectShape, NoObject
<1>3. Unload(P) = [C EXCEPT !.ret = "ok",
        !.obj.maps = [i \in DOMAIN @ |-> [@[i] EXCEPT !.fd = -1]],
        !.obj.inst = [i \in DOMAIN @ |-> <<>>],
        !.obj.prog_btf = [i \in DOMAIN @ |-> -1]]
  BY DEF Unload
<1> HIDE DEF C
<1> DEFINE u == [[[C.obj EXCEPT !.maps = [i \in DOMAIN @ |-> [@[i] EXCEPT !.fd = -1]]]
                         EXCEPT !.inst = [i \in DOMAIN @ |-> <<>>]]
                         EXCEPT !.prog_btf = [i \in DOMAIN @ |-> -1]]
<1>5. /\ DOMAIN Unload(P) = DOMAIN C /\ Unload(P).fds = C.fds /\ Unload(P).user = C.user
      /\ Unload(P).copied = C.copied /\ Unload(P).obj = u
  BY <1>2, <1>3
<1>6. /\ DOMAIN u = DOMAIN P.obj
      /\ u.file = P.obj.file /\ u.loaded = P.obj.loaded
      /\ u.btf_fd = P.obj.btf_fd /\ u.prep = P.obj.prep
      /\ u.maps = [i \in DOMAIN P.obj.maps |-> [P.obj.maps[i] EXCEPT !.fd = -1]]
      /\ u.inst = [i \in DOMAIN P.obj.inst |-> <<>>]
      /\ u.prog_btf = [i \in DOMAIN P.obj.prog_btf |-> -1]
  BY <1>1, <1>4
<1> HIDE DEF u
<1> QED
  BY <1>1, <1>5, <1>6

\* After bpf_object__unload only the BTF descriptor is left.
LEMMA UnloadKnows ==
    ASSUME NEW P, Shape(P)
    PROVE  /\ ObjectShape(Unload(P).obj)
           /\ \A n \in Fds : ~IsMapFd(Unload(P).obj, n) /\ ~IsProgFd(Unload(P).obj, n)
           /\ Unload(P).obj.btf_fd = P.obj.btf_fd
<1> DEFINE U == Unload(P)
<1>1. /\ DOMAIN U.obj = DOMAIN P.obj
      /\ U.obj.btf_fd = P.obj.btf_fd
      /\ U.obj.maps = [i \in DOMAIN P.obj.maps |-> [P.obj.maps[i] EXCEPT !.fd = -1]]
      /\ U.obj.inst = [i \in DOMAIN P.obj.inst |-> <<>>]
  BY UnloadFields, Zenon
<1> HIDE DEF U
<1>2. \A i \in DOMAIN U.obj.maps :
        U.obj.maps[i].fd = -1 /\ DOMAIN U.obj.maps[i] = DOMAIN P.obj.maps[i]
  BY <1>1 DEF Shape, ObjectShape
<1>3. \A i \in DOMAIN U.obj.inst : DOMAIN U.obj.inst[i] = 1 .. 0 /\ 1 .. 0 = {}
  BY <1>1
<1>4. DOMAIN U.obj.maps = DOMAIN P.obj.maps /\ DOMAIN U.obj.inst = DOMAIN P.obj.inst
  BY <1>1
<1>5. \A n \in Fds : n # -1
  BY ObjectAssumption DEF Fds
<1>6. ObjectShape(U.obj)
  <2>1. \A i \in DOMAIN U.obj.inst : IsSequence(U.obj.inst[i])
    BY <1>3, Zenon DEF IsSequence
  <2> QED
    BY <1>1, <1>2, <1>3, <1>4, <2>1 DEF Shape, ObjectShape, IsSequence, Number
<1>7. \A n \in Fds : ~IsMapFd(U.obj, n) /\ ~IsProgFd(U.obj, n)
  BY <1>2, <1>3, <1>5 DEF IsMapFd, IsProgFd
<1> QED
  BY <1>1, <1>6, <1>7 DEF U

\* The numbers that bpf_object__unload closes.
LEMMA UnloadCloses ==
    ASSUME NEW P, Shape(P), NEW n \in Fds
    PROVE  /\ IsMapFd(P.obj, n) <=> n \in MapFds(P)
           /\ IsProgFd(P.obj, n) <=> n \in ProgFds(P)
           /\ Clean(P) => n \notin Range(P.obj.prog_btf)
<1>1. IsMapFd(P.obj, n) <=> n \in MapFds(P)
  BY DEF IsMapFd, MapFds
<1>2. IsProgFd(P.obj, n) <=> n \in ProgFds(P)
  BY DEF IsProgFd, ProgFds, Range
<1>3. Clean(P) => n \notin Range(P.obj.prog_btf)
  BY ObjectAssumption DEF Clean, Range, Fds
<1> QED
  BY <1>1, <1>2, <1>3

\* bpf_object__unload keeps the invariant and at most the BTF descriptor.
LEMMA UnloadCore ==
    ASSUME NEW P, Core(P), IsOpen(P)
    PROVE  /\ Core(Unload(P)) /\ IsOpen(Unload(P)) /\ Blank(Unload(P).obj)
           /\ Held(Unload(P)) \subseteq {P.obj.btf_fd}
<1> DEFINE U == Unload(P)
           S == MapFds(P) \cup ProgFds(P) \cup Range(P.obj.prog_btf)
<1>0. Shape(P)
  BY DEF Core
<1>1. /\ DOMAIN U = DOMAIN P
      /\ U.fds = [n \in Fds |-> IF n \in S THEN Nothing ELSE P.fds[n]]
      /\ U.user = P.user /\ U.copied = P.copied
      /\ U.obj.file = P.obj.file
      /\ U.obj.prog_btf = [i \in DOMAIN P.obj.prog_btf |-> -1]
  BY <1>0, UnloadFields, Zenon
<1>2. /\ ObjectShape(U.obj)
      /\ \A n \in Fds : ~IsMapFd(U.obj, n) /\ ~IsProgFd(U.obj, n)
      /\ U.obj.btf_fd = P.obj.btf_fd
  BY <1>0, UnloadKnows
<1>3. \A n \in Fds : IsMapFd(P.obj, n) \/ IsProgFd(P.obj, n) => n \in S
  BY <1>0, UnloadCloses
<1>4. Clean(P) => \A n \in S : n \in Fds => IsMapFd(P.obj, n) \/ IsProgFd(P.obj, n)
  BY <1>0, UnloadCloses
<1>5. IsOpen(U)
  BY <1>1 DEF IsOpen
<1> HIDE DEF U, S
<1>6. Shape(U)
  BY <1>0, <1>1, <1>2 DEF Shape
<1>7. \A n \in Held(U) : n \in Held(P) /\ n \notin S
  BY <1>1, Kinds DEF Held
<1>8. \A n \in Held(U) : U.obj.btf_fd = n
  <2> TAKE n \in Held(U)
  <2>1. n \in Fds /\ Knows(P.obj, n) /\ n \notin S
    BY <1>7 DEF Core, Known, Held
  <2> QED
    BY <1>2, <1>3, <2>1 DEF Knows
<1>9. ASSUME ~U.copied PROVE Clean(U)
  <2>1. Clean(P)
    BY <1>1, <1>9 DEF Core
  <2>2. \A n \in Fds : n \in S => Knows(P.obj, n) /\ P.user[n] = Nothing
    BY <1>4, <2>1 DEF Clean, Knows
  <2>3. \A n \in Fds : U.user[n] # Nothing => U.fds[n] = U.user[n]
    BY <1>1, <2>1, <2>2 DEF Clean
  <2>4. \A n \in Fds : Knows(U.obj, n) => U.fds[n] # Nothing /\ U.user[n] = Nothing
    <3> SUFFICES ASSUME NEW n \in Fds, P.obj.btf_fd = n
                 PROVE  U.fds[n] # Nothing /\ U.user[n] = Nothing
      BY <1>2 DEF Knows
    <3>1. P.fds[n] # Nothing /\ P.user[n] = Nothing
      BY <2>1 DEF Clean, Knows
    <3>2. n \notin S
      BY <1>4, <2>1 DEF Clean, Apart
    <3> QED
      BY <1>1, <3>1, <3>2
  <2>5. Apart(U.obj)
    BY <1>2 DEF Apart, IsMapFd
  <2> QED
    BY <1>1, <2>3, <2>4, <2>5 DEF Clean
<1>10. Core(U)
  BY <1>5, <1>6, <1>8, <1>9 DEF Core, Known, Knows
<1>11. Blank(U.obj)
  BY <1>2 DEF Blank
<1>12. Held(U) \subseteq {P.obj.btf_fd}
  BY <1>2, <1>8
<1> QED
  BY <1>5, <1>10, <1>11, <1>12 DEF U

\* A process without an object.
LEMMA NoObjectFacts ==
    /\ ObjectShape(NoObject) /\ Blank(NoObject) /\ Apart(NoObject)
    /\ NoObject.file = "none" /\ NoObject.loaded = FALSE
    /\ \A n \in Fds : ~Knows(NoObject, n)
    /\ \A i \in DOMAIN NoObject.prog_btf : NoObject.prog_btf[i] = -1
<1>1. /\ DOMAIN NoObject.maps = 1 .. 0 /\ DOMAIN NoObject.inst = 1 .. 0
      /\ DOMAIN NoObject.prog_btf = 1 .. 0 /\ 1 .. 0 = {} /\ NoObject.btf_fd = -1
      /\ NoObject.file = "none" /\ NoObject.loaded = FALSE
  BY DEF NoObject
<1>2. \A n \in Fds : n # -1
  BY ObjectAssumption DEF Fds
<1>3. ObjectShape(NoObject)
  BY <1>1 DEF ObjectShape, IsSequence, Number
<1>4. \A n \in Fds : ~IsMapFd(NoObject, n) /\ ~IsProgFd(NoObject, n) /\ NoObject.btf_fd # n
  BY <1>1, <1>2 DEF IsMapFd, IsProgFd
<1>5. Apart(NoObject)
  BY <1>1, <1>4 DEF Apart
<1> QED
  BY <1>1, <1>3, <1>4, <1>5 DEF Blank, Knows

\* bpf_object__close leaves nothing.
LEMMA CloseObjectInv ==
    ASSUME NEW P, Core(P), IsOpen(P)
    PROVE  ProcInv(CloseObject(P)) /\ ~CloseObject(P).obj.loaded
<1> DEFINE U == Unload(P)
           b == U.obj.btf_fd
           C == CloseFds(U, {b})
           Q == CloseObject(P)
<1>1. Core(U) /\ Held(U) \subseteq {b}
  <2>1. U.obj.btf_fd = P.obj.btf_fd
    BY UnloadKnows DEF Core
  <2> QED
    BY <2>1, UnloadCore
<1> HIDE DEF U
<1>2. Shape(U)
  BY <1>1 DEF Core
<1>3. /\ DOMAIN C = DOMAIN U
      /\ C.fds = [n \in Fds |-> IF n \in {b} THEN Nothing ELSE U.fds[n]]
      /\ C.user = U.user /\ C.copied = U.copied
  BY <1>2, CloseFdsFields DEF Shape
<1>4. Q = [C EXCEPT !.obj = NoObject]
  BY DEF CloseObject, U
<1> HIDE DEF C, Q
<1>5. /\ DOMAIN Q = DOMAIN U
      /\ Q.fds = [n \in Fds |-> IF n = b THEN Nothing ELSE U.fds[n]]
      /\ Q.user = U.user /\ Q.copied = U.copied /\ Q.obj = NoObject
  BY <1>2, <1>3, <1>4 DEF Shape
<1>6. Shape(Q)
  BY <1>2, <1>5, NoObjectFacts DEF Shape
<1>7. Held(Q) = {}
  BY <1>1, <1>5, Kinds DEF Held
<1>8. ASSUME ~Q.copied PROVE Clean(Q)
  <2>1. Clean(U)
    BY <1>1, <1>5, <1>8 DEF Core
  <2>2. \A n \in Fds : Q.user[n] # Nothing => Q.fds[n] = Q.user[n]
    BY <1>5, <2>1 DEF Clean, Knows
  <2> QED
    BY <1>5, <2>2, NoObjectFacts DEF Clean
<1>9. Core(Q)
  BY <1>5, <1>6, <1>7, <1>8 DEF Core, Known
<1> QED
  BY <1>5, <1>9, NoObjectFacts DEF ProcInv, Q

(***************************************************************************)
(* Creating the maps.                                                      *)
(***************************************************************************)
\* Q is P with the maps `maps`.
NewMaps(P, Q, maps) ==
    /\ DOMAIN Q = DOMAIN P /\ Q.user = P.user /\ Q.copied = P.copied
    /\ DOMAIN Q.obj = DOMAIN P.obj /\ Q.obj.file = P.obj.file /\ Q.obj.loaded = P.obj.loaded
    /\ Q.obj.btf_fd = P.obj.btf_fd /\ Q.obj.inst = P.obj.inst /\ Q.obj.prog_btf = P.obj.prog_btf
    /\ Q.obj.maps = maps

\* The rest of the object is the same.
LEMMA NewMapsSame ==
    ASSUME NEW P, NEW Q, NEW maps, NewMaps(P, Q, maps)
    PROVE  /\ IsOpen(P) <=> IsOpen(Q)
           /\ Blank(P.obj) <=> Blank(Q.obj)
           /\ \A n \in Fds : IsProgFd(P.obj, n) <=> IsProgFd(Q.obj, n)
  BY DEF NewMaps, IsOpen, Blank, IsProgFd

\* Map i, and no other, gets the number m.
MapGets(maps, new, i, m) ==
    /\ DOMAIN new = DOMAIN maps /\ new[i].fd = m
    /\ \A k \in DOMAIN maps : k # i => new[k] = maps[k]
    /\ \A k \in DOMAIN maps : DOMAIN new[k] = DOMAIN maps[k]

\* Map i, which had no descriptor, gets the free number m for resource r.
LEMMA TakeMap ==
    ASSUME NEW P, Core(P), IsOpen(P), NEW Q, NEW i \in DOMAIN P.obj.maps, NEW m \in Fds, NEW r,
           P.fds[m] = Nothing, r # Nothing, P.obj.maps[i].fd \notin Fds,
           Q.fds = [P.fds EXCEPT ![m] = r], NEW new,
           NewMaps(P, Q, new), MapGets(P.obj.maps, new, i, m)
    PROVE  Core(Q)
<1>0. Shape(P) /\ ObjectShape(P.obj)
  BY DEF Core, Shape
<1>1. /\ DOMAIN Q.obj.maps = DOMAIN P.obj.maps
      /\ Q.obj.maps[i].fd = m
      /\ \A k \in DOMAIN P.obj.maps : k # i => Q.obj.maps[k] = P.obj.maps[k]
      /\ \A k \in DOMAIN P.obj.maps : DOMAIN Q.obj.maps[k] = DOMAIN P.obj.maps[k]
  BY <1>0 DEF NewMaps, MapGets
<1>2. \A n \in Fds : IsMapFd(Q.obj, n) <=> (IsMapFd(P.obj, n) \/ n = m)
  BY <1>1 DEF IsMapFd
<1>3. Shape(Q)
  <2>1. ObjectShape(Q.obj)
    <3>1. DOMAIN Q.obj = DOMAIN P.obj /\ Q.obj.btf_fd = P.obj.btf_fd /\ Q.obj.inst = P.obj.inst
      BY DEF NewMaps
    <3>2. \A k \in DOMAIN P.obj.maps :
             {"fd", "name", "sym"} \subseteq DOMAIN Q.obj.maps[k] /\ Q.obj.maps[k].fd \in Number
      BY <1>0, <1>1 DEF ObjectShape, Number
    <3>3. IsSequence(Q.obj.maps)
      BY <1>0, <1>1, Zenon DEF ObjectShape, IsSequence
    <3> QED
      BY <1>0, <1>1, <3>1, <3>2, <3>3 DEF ObjectShape
  <2> QED
    BY <1>0, <2>1 DEF Shape, NewMaps
<1>4. \A n \in Fds : IsProgFd(P.obj, n) <=> IsProgFd(Q.obj, n)
  BY NewMapsSame
<1>5. \A n \in Fds : Knows(Q.obj, n) <=> (Knows(P.obj, n) \/ n = m)
  BY <1>2, <1>4 DEF Knows, NewMaps
<1>6. Known(Q)
  <2> SUFFICES ASSUME NEW n \in Held(Q), n # m PROVE Knows(P.obj, n)
    BY <1>5 DEF Known, Held
  <2>1. n \in Held(P)
    BY <1>0 DEF Held, NewMaps, Shape
  <2> QED
    BY <2>1 DEF Core, Known
<1>7. ASSUME ~Q.copied PROVE Clean(Q)
  <2>1. Clean(P)
    BY <1>7 DEF Core, NewMaps
  <2>2. ~Knows(P.obj, m) /\ P.user[m] = Nothing
    BY <2>1 DEF Clean
  <2>3. \A n \in Fds : Q.user[n] # Nothing => Q.fds[n] = Q.user[n]
    BY <1>0, <2>1, <2>2 DEF Clean, NewMaps, Shape
  <2>4. \A n \in Fds : Knows(Q.obj, n) => Q.fds[n] # Nothing /\ Q.user[n] = Nothing
    BY <1>0, <1>5, <2>1, <2>2 DEF Clean, NewMaps, Shape
  <2>5. \A k, l \in DOMAIN Q.obj.maps :
           Q.obj.maps[k].fd = Q.obj.maps[l].fd /\ Q.obj.maps[k].fd \in Fds => k = l
    <3>1. \A k \in DOMAIN P.obj.maps : P.obj.maps[k].fd # m
      BY <2>2 DEF Knows, IsMapFd
    <3> QED
      <4>1. \A k, l \in DOMAIN P.obj.maps :
               P.obj.maps[k].fd = P.obj.maps[l].fd /\ P.obj.maps[k].fd \in Fds => k = l
        BY <2>1 DEF Clean, Apart
      <4> QED
        BY <1>1, <3>1, <4>1
  <2>6. Apart(Q.obj)
    BY <1>2, <1>4, <2>1, <2>2, <2>5 DEF Clean, Apart, Knows, NewMaps
  <2> QED
    BY <2>1, <2>3, <2>4, <2>6 DEF Clean, NewMaps
<1> QED
  BY <1>3, <1>6, <1>7, NewMapsSame DEF Core

\* The maps in K lose their descriptors, which are closed.
Drops(P, Q, K) ==
    /\ Q.fds = [n \in Fds |-> IF n \in {P.obj.maps[k].fd : k \in K} THEN Nothing ELSE P.fds[n]]
    /\ NewMaps(P, Q, [k \in DOMAIN P.obj.maps |->
                        IF k \in K THEN [P.obj.maps[k] EXCEPT !.fd = -1] ELSE P.obj.maps[k]])

LEMMA DropMaps ==
    ASSUME NEW P, Core(P), IsOpen(P), NEW Q, NEW K \in SUBSET DOMAIN P.obj.maps, Drops(P, Q, K)
    PROVE  Core(Q)
<1> USE DEF Drops
<1> DEFINE S == {P.obj.maps[k].fd : k \in K}
<1>0. Shape(P) /\ ObjectShape(P.obj)
  BY DEF Core, Shape
<1>1. /\ DOMAIN Q.obj.maps = DOMAIN P.obj.maps
      /\ \A k \in K : Q.obj.maps[k].fd = -1
      /\ \A k \in DOMAIN P.obj.maps : k \notin K => Q.obj.maps[k] = P.obj.maps[k]
      /\ \A k \in DOMAIN P.obj.maps : DOMAIN Q.obj.maps[k] = DOMAIN P.obj.maps[k]
  BY <1>0 DEF NewMaps, ObjectShape
<1>2. \A n \in Fds : n # -1
  BY ObjectAssumption DEF Fds
<1>3. \A n \in Fds : /\ IsMapFd(Q.obj, n) => IsMapFd(P.obj, n)
                     /\ IsMapFd(P.obj, n) /\ n \notin S => IsMapFd(Q.obj, n)
                     /\ n \in S => IsMapFd(P.obj, n)
  BY <1>1, <1>2 DEF IsMapFd
<1>4. Shape(Q)
  <2>1. ObjectShape(Q.obj)
    <3>1. DOMAIN Q.obj = DOMAIN P.obj /\ Q.obj.btf_fd = P.obj.btf_fd /\ Q.obj.inst = P.obj.inst
      BY DEF NewMaps
    <3>2. \A k \in DOMAIN P.obj.maps :
             {"fd", "name", "sym"} \subseteq DOMAIN Q.obj.maps[k] /\ Q.obj.maps[k].fd \in Number
      BY <1>0, <1>1 DEF ObjectShape, Number
    <3>3. IsSequence(Q.obj.maps)
      BY <1>0, <1>1, Zenon DEF ObjectShape, IsSequence
    <3> QED
      BY <1>0, <1>1, <3>1, <3>2, <3>3 DEF ObjectShape
  <2> QED
    BY <1>0, <2>1 DEF Shape, NewMaps
<1>5. \A n \in Fds : IsProgFd(P.obj, n) <=> IsProgFd(Q.obj, n)
  BY NewMapsSame
<1>6. \A n \in Fds : Q.fds[n] = IF n \in S THEN Nothing ELSE P.fds[n]
  OBVIOUS
<1>7. ASSUME Clean(P) PROVE \A n \in S : n \in Fds => ~IsMapFd(Q.obj, n)
  <2> SUFFICES ASSUME NEW k \in K, P.obj.maps[k].fd \in Fds, NEW l \in DOMAIN Q.obj.maps,
                      Q.obj.maps[l].fd = P.obj.maps[k].fd
               PROVE  FALSE
    BY DEF IsMapFd
  <2>1. l \notin K /\ P.obj.maps[l].fd = P.obj.maps[k].fd /\ l \in DOMAIN P.obj.maps
    BY <1>1, <1>2
  <2> QED
    BY <1>7, <2>1 DEF Clean, Apart
<1> HIDE DEF S
<1>8. Known(Q)
  <2> SUFFICES ASSUME NEW n \in Held(Q) PROVE Knows(Q.obj, n)
    BY DEF Known
  <2>1. n \in Held(P) /\ n \notin S /\ n \in Fds
    BY <1>6, Kinds DEF Held, NewMaps
  <2>2. Knows(P.obj, n)
    BY <2>1 DEF Core, Known
  <2> QED
    BY <1>3, <1>5, <2>1, <2>2 DEF Knows, NewMaps
<1>9. ASSUME ~Q.copied PROVE Clean(Q)
  <2>1. Clean(P)
    BY <1>9 DEF Core, NewMaps
  <2>2. \A n \in Fds : Q.user[n] # Nothing => Q.fds[n] = Q.user[n]
    BY <1>3, <1>6, <2>1 DEF Clean, NewMaps, Knows
  <2>3. \A n \in Fds : Knows(Q.obj, n) => Knows(P.obj, n) /\ n \notin S
    <3>1. \A n \in Fds : Knows(Q.obj, n) => Knows(P.obj, n)
      BY <1>3, <1>5 DEF Knows, NewMaps
    <3>2. \A n \in Fds : n \in S => ~Knows(Q.obj, n)
      BY <1>3, <1>5, <1>7, <2>1 DEF Clean, Apart, Knows, NewMaps
    <3> QED
      BY <3>1, <3>2
  <2>4. \A n \in Fds : Knows(Q.obj, n) => Q.fds[n] # Nothing /\ Q.user[n] = Nothing
    BY <1>6, <2>1, <2>3 DEF Clean, NewMaps
  <2>5. \A k, l \in DOMAIN Q.obj.maps :
           Q.obj.maps[k].fd = Q.obj.maps[l].fd /\ Q.obj.maps[k].fd \in Fds => k = l
    BY <1>1, <1>2, <2>1 DEF Clean, Apart
  <2>6. Apart(Q.obj)
    BY <1>3, <1>5, <2>1, <2>5, Zenon DEF Clean, Apart, NewMaps
  <2> QED
    BY <2>1, <2>2, <2>4, <2>6 DEF Clean, NewMaps
<1> QED
  BY <1>4, <1>8, <1>9, NewMapsSame DEF Core

\* What bpf_object__load keeps from one of its steps to the next.
Loading(P) == Core(P) /\ IsOpen(P) /\ P.obj.loaded

\* One round of bpf_object__create_maps.
LEMMA CreateMapStep ==
    ASSUME NEW p, NEW bad, NEW P, Loading(P), Blank(P.obj), NEW i \in DOMAIN P.obj.maps
    PROVE  /\ Loading(CreateMap(p, bad, P, i)) /\ Blank(CreateMap(p, bad, P, i).obj)
           /\ DOMAIN CreateMap(p, bad, P, i).obj.maps = DOMAIN P.obj.maps
           /\ CreateMap(p, bad, P, i).ret # "failed" =>
                 P.ret # "failed" /\ Grew(P, CreateMap(p, bad, P, i))
<1> DEFINE Q == CreateMap(p, bad, P, i)
           res == Resource("map", <<p, P.opens>>, KernelName[P.obj.maps[i].name], <<>>)
           before == {P.obj.maps[j].fd : j \in 1 .. i - 1}
           N == NewFd(P, res)
           C == CloseFds(P, before)
<1>0. /\ Core(P) /\ Shape(P) /\ ObjectShape(P.obj) /\ IsOpen(P)
      /\ DOMAIN P.obj = {"file", "loaded", "btf_fd", "maps", "inst", "prep", "prog_btf"}
  BY Zenon DEF Loading, Core, Shape, ObjectShape, NoObject
<1>1. CASE P.ret = "failed" \/ P.obj.maps[i].fd >= 0
  <2>1. Q = P
    BY <1>1, Zenon DEF CreateMap
  <2>2. Grew(P, P)
    BY GrewMore
  <2> QED
    BY <2>1, <2>2, Zenon
<1>2. CASE ~(P.ret = "failed" \/ P.obj.maps[i].fd >= 0) /\ (bad = <<"map", i>> \/ Full(P))
  <2> DEFINE K == {k \in DOMAIN P.obj.maps : k < i}
             maps == [k \in DOMAIN P.obj.maps |->
                        IF k < i THEN [P.obj.maps[k] EXCEPT !.fd = -1] ELSE P.obj.maps[k]]
  <2>1. Q = [C EXCEPT !.ret = "failed",
               !.obj.maps = [j \in DOMAIN @ |-> IF j < i THEN [@[j] EXCEPT !.fd = -1] ELSE @[j]]]
    BY <1>2, Zenon DEF CreateMap
  <2>2. before = {P.obj.maps[k].fd : k \in K}
    <3>1. PICK n \in Nat : DOMAIN P.obj.maps = 1 .. n
      BY <1>0, Zenon DEF ObjectShape, IsSequence
    <3>2. 1 .. i - 1 = K
      BY <3>1
    <3> QED
      BY <3>2
  <2>3. /\ DOMAIN C = {"fds", "user", "obj", "opens", "ret", "copied"}
        /\ C.user = P.user /\ C.copied = P.copied /\ C.obj = P.obj
        /\ C.fds = [n \in Fds |-> IF n \in before THEN Nothing ELSE P.fds[n]]
    BY <1>0, CloseFdsFields DEF Shape
  <2> HIDE DEF C, Q, before
  <2>4. /\ DOMAIN Q = DOMAIN C /\ Q.user = C.user /\ Q.copied = C.copied /\ Q.fds = C.fds
        /\ Q.ret = "failed"
        /\ Q.obj = [C.obj EXCEPT !.maps = [j \in DOMAIN @ |->
                        IF j < i THEN [@[j] EXCEPT !.fd = -1] ELSE @[j]]]
    BY <2>1, <2>3
  <2>5. NewMaps(P, Q, maps)
    BY <1>0, <2>3, <2>4 DEF NewMaps, Shape
  <2>6. maps = [k \in DOMAIN P.obj.maps |->
                  IF k \in K THEN [P.obj.maps[k] EXCEPT !.fd = -1] ELSE P.obj.maps[k]]
    OBVIOUS
  <2>7. Q.fds = [n \in Fds |-> IF n \in {P.obj.maps[k].fd : k \in K} THEN Nothing ELSE P.fds[n]]
    BY <2>2, <2>3, <2>4
  <2>8. Core(Q)
    <3>1. K \in SUBSET DOMAIN P.obj.maps
      OBVIOUS
    <3>2. Drops(P, Q, K)
      BY <2>5, <2>6, <2>7 DEF Drops
    <3> HIDE DEF K, maps
    <3> QED
      BY <1>0, <3>1, <3>2, DropMaps
  <2>9. DOMAIN Q.obj.maps = DOMAIN P.obj.maps
    BY <2>5 DEF NewMaps
  <2> QED
    BY <2>4, <2>5, <2>8, <2>9, NewMapsSame, Zenon DEF Loading, NewMaps, Q
<1>3. CASE ~(P.ret = "failed" \/ P.obj.maps[i].fd >= 0) /\ ~(bad = <<"map", i>> \/ Full(P))
  <2>1. Q = [N EXCEPT !.obj.maps[i].fd = Lowest(P)]
    BY <1>3 DEF CreateMap
  <2>2. Lowest(P) \in Fds /\ P.fds[Lowest(P)] = Nothing
    BY <1>0, <1>3, LowestFree
  <2>3. /\ DOMAIN N = {"fds", "user", "obj", "opens", "ret", "copied"}
        /\ N.user = P.user /\ N.copied = P.copied /\ N.obj = P.obj
        /\ N.fds = [P.fds EXCEPT ![Lowest(P)] = res]
    BY <1>0, NewFdFields, Zenon DEF Shape
  <2>4. res # Nothing
    BY Zenon DEF Resource, Nothing
  <2> HIDE DEF N, Q, res
  <2>5. /\ DOMAIN Q = DOMAIN N /\ Q.user = N.user /\ Q.copied = N.copied /\ Q.fds = N.fds
        /\ Q.obj = [N.obj EXCEPT !.maps[i].fd = Lowest(P)]
    BY <2>1, <2>3
  <2>6. NewMaps(P, Q, [P.obj.maps EXCEPT ![i].fd = Lowest(P)])
    BY <1>0, <2>3, <2>5 DEF NewMaps, Shape
  <2>7. P.obj.maps[i].fd \notin Fds
    BY <1>3, ObjectAssumption DEF Fds
  <2>8. Core(Q)
    <3>1. MapGets(P.obj.maps, [P.obj.maps EXCEPT ![i].fd = Lowest(P)], i, Lowest(P))
      BY <1>0 DEF MapGets, ObjectShape
    <3> QED
      BY <1>0, <2>2, <2>3, <2>4, <2>5, <2>6, <2>7, <3>1, TakeMap, Zenon
  <2>9. DOMAIN Q.obj.maps = DOMAIN P.obj.maps
    BY <2>6 DEF NewMaps
  <2>10. Grew(P, Q)
    <3>1. \A k \in DOMAIN P.obj.maps :
             /\ Q.obj.maps[k].sym = P.obj.maps[k].sym /\ Q.obj.maps[k].name = P.obj.maps[k].name
             /\ k # i => Q.obj.maps[k].fd = P.obj.maps[k].fd
      BY <1>0, <2>6 DEF NewMaps, ObjectShape
    <3>2. Q.obj.maps[i].fd = Lowest(P)
      BY <1>0, <2>6 DEF NewMaps, ObjectShape
    <3>3. \A n \in Fds : Q.fds[n] = IF n = Lowest(P) THEN res ELSE P.fds[n]
      BY <1>0, <2>3, <2>5 DEF Shape
    <3>4. res.name = KernelName[P.obj.maps[i].name]
      BY DEF res, Resource
    <3>5. Keeps(P, Q)
      BY <2>2, <3>3 DEF Keeps
    <3>6. MapGrew(P, Q, i)
      BY <2>2, <2>4, <2>7, <3>1, <3>2, <3>3, <3>4 DEF MapGrew
    <3>7. \A k \in DOMAIN P.obj.maps : k # i => MapGrew(P, Q, k)
      BY <3>1 DEF MapGrew
    <3> QED
      BY <2>9, <3>5, <3>6, <3>7 DEF Grew
  <2> QED
    BY <1>3, <2>6, <2>8, <2>9, <2>10, NewMapsSame, Zenon DEF Loading, NewMaps, Q
<1> QED
  BY <1>1, <1>2, <1>3

\* bpf_object__create_maps.
LEMMA CreateMapsStep ==
    ASSUME NEW p, NEW bad, NEW P, Loading(P), Blank(P.obj)
    PROVE  /\ Loading(CreateMaps(p, P, bad)) /\ Blank(CreateMaps(p, P, bad).obj)
           /\ CreateMaps(p, P, bad).ret # "failed" => Grew(P, CreateMaps(p, P, bad))
<1>1. PICK n \in Nat : DOMAIN P.obj.maps = 1 .. n
  BY DEF Loading, Core, Shape, ObjectShape, IsSequence
<1>2. PICK r : /\ r[0] = P
               /\ \A i \in 1 .. n : r[i] = CreateMap(p, bad, r[i - 1], i)
               /\ CreateMaps(p, P, bad) = r[n]
  BY <1>1, CreateMapsRounds
<1> DEFINE Good(k) == /\ Loading(r[k]) /\ Blank(r[k].obj) /\ DOMAIN r[k].obj.maps = 1 .. n
                      /\ r[k].ret # "failed" => Grew(P, r[k])
           D == {k \in Nat : k <= n => Good(k)}
<1>3. 0 \in D
  <2>1. Grew(P, P)
    BY GrewMore
  <2> QED
    BY <1>1, <1>2, <2>1
<1>4. ASSUME NEW k \in Nat, k \in D PROVE k + 1 \in D
  <2> SUFFICES ASSUME k + 1 <= n PROVE Good(k + 1)
    OBVIOUS
  <2> DEFINE R == r[k]
             T == r[k + 1]
  <2>1. Good(k) /\ k + 1 \in 1 .. n
    BY <1>4
  <2>2. T = CreateMap(p, bad, R, k + 1)
    BY <1>2, <2>1
  <2>3. /\ Loading(R) /\ Blank(R.obj) /\ DOMAIN R.obj.maps = 1 .. n
        /\ R.ret # "failed" => Grew(P, R)
    BY <2>1
  <2>4. /\ Loading(T) /\ Blank(T.obj) /\ DOMAIN T.obj.maps = 1 .. n
        /\ T.ret # "failed" => Grew(P, T)
    <3> HIDE DEF R, T
    <3>1. /\ Loading(T) /\ Blank(T.obj) /\ DOMAIN T.obj.maps = DOMAIN R.obj.maps
          /\ T.ret # "failed" => R.ret # "failed" /\ Grew(R, T)
      BY <2>1, <2>2, <2>3, CreateMapStep
    <3> QED
      BY <2>3, <3>1, GrewTrans
  <2> QED
    BY <2>4
<1>5. n \in D
  <2> HIDE DEF D
  <2> QED
    BY <1>3, <1>4, NatSetInduction
<1> QED
  BY <1>2, <1>5

(***************************************************************************)
(* Loading the programs.                                                   *)
(***************************************************************************)
\* Q is P with the instances `inst`.
NewInst(P, Q, inst) ==
    /\ DOMAIN Q = DOMAIN P /\ Q.user = P.user /\ Q.copied = P.copied
    /\ DOMAIN Q.obj = DOMAIN P.obj /\ Q.obj.file = P.obj.file /\ Q.obj.loaded = P.obj.loaded
    /\ Q.obj.btf_fd = P.obj.btf_fd /\ Q.obj.maps = P.obj.maps /\ Q.obj.prog_btf = P.obj.prog_btf
    /\ Q.obj.inst = inst

\* The rest of the object is the same.
LEMMA NewInstSame ==
    ASSUME NEW P, NEW Q, NEW inst, NewInst(P, Q, inst)
    PROVE  /\ IsOpen(P) <=> IsOpen(Q)
           /\ \A n \in Fds : IsMapFd(P.obj, n) <=> IsMapFd(Q.obj, n)
  BY DEF NewInst, IsOpen, IsMapFd

\* Instance j of program i, which had no descriptor, gets the free number m.
LEMMA TakeInst ==
    ASSUME NEW P, Core(P), IsOpen(P), NEW Q,
           NEW i \in DOMAIN P.obj.inst, NEW j \in DOMAIN P.obj.inst[i], NEW m \in Fds, NEW r,
           P.fds[m] = Nothing, r # Nothing, P.obj.inst[i][j] \notin Fds,
           Q.fds = [P.fds EXCEPT ![m] = r],
           NewInst(P, Q, [P.obj.inst EXCEPT ![i][j] = m])
    PROVE  Core(Q)
<1>0. Shape(P) /\ ObjectShape(P.obj)
  BY DEF Core, Shape
<1>1. /\ DOMAIN Q.obj.inst = DOMAIN P.obj.inst
      /\ \A k \in DOMAIN P.obj.inst : k # i => Q.obj.inst[k] = P.obj.inst[k]
      /\ DOMAIN Q.obj.inst[i] = DOMAIN P.obj.inst[i]
      /\ Q.obj.inst[i][j] = m
      /\ \A l \in DOMAIN P.obj.inst[i] : l # j => Q.obj.inst[i][l] = P.obj.inst[i][l]
  BY <1>0 DEF NewInst, ObjectShape
<1>2. \A n \in Fds : IsProgFd(Q.obj, n) <=> (IsProgFd(P.obj, n) \/ n = m)
  <2> TAKE n \in Fds
  <2>1. ASSUME IsProgFd(Q.obj, n), n # m PROVE IsProgFd(P.obj, n)
    <3>1. PICK k \in DOMAIN Q.obj.inst : \E l \in DOMAIN Q.obj.inst[k] : Q.obj.inst[k][l] = n
      BY <2>1 DEF IsProgFd
    <3> PICK l \in DOMAIN Q.obj.inst[k] : Q.obj.inst[k][l] = n
      BY <3>1
    <3>2. k \in DOMAIN P.obj.inst /\ l \in DOMAIN P.obj.inst[k] /\ P.obj.inst[k][l] = n
      BY <1>1, <2>1, <3>1
    <3> QED
      BY <3>2 DEF IsProgFd
  <2>2. ASSUME IsProgFd(P.obj, n) PROVE IsProgFd(Q.obj, n)
    <3>1. PICK k \in DOMAIN P.obj.inst : \E l \in DOMAIN P.obj.inst[k] : P.obj.inst[k][l] = n
      BY <2>2 DEF IsProgFd
    <3> PICK l \in DOMAIN P.obj.inst[k] : P.obj.inst[k][l] = n
      BY <3>1
    <3>2. k \in DOMAIN Q.obj.inst /\ l \in DOMAIN Q.obj.inst[k] /\ Q.obj.inst[k][l] = n
      BY <1>1, <3>1
    <3> QED
      BY <3>2 DEF IsProgFd
  <2>3. IsProgFd(Q.obj, m)
    BY <1>1 DEF IsProgFd
  <2> QED
    BY <2>1, <2>2, <2>3
<1>3. Shape(Q)
  <2>1. ASSUME NEW k \in DOMAIN Q.obj.inst
        PROVE  /\ IsSequence(Q.obj.inst[k])
               /\ \A l \in DOMAIN Q.obj.inst[k] : Q.obj.inst[k][l] \in Number
    <3>1. IsSequence(P.obj.inst[k]) /\ \A l \in DOMAIN P.obj.inst[k] : P.obj.inst[k][l] \in Number
      BY <1>0, <1>1 DEF ObjectShape
    <3>2. DOMAIN Q.obj.inst[k] = DOMAIN P.obj.inst[k]
      BY <1>1
    <3>3. \A l \in DOMAIN P.obj.inst[k] : Q.obj.inst[k][l] \in {P.obj.inst[k][l], m}
      BY <1>1
    <3> QED
      BY <3>1, <3>2, <3>3 DEF IsSequence, Number
  <2>2. IsSequence(Q.obj.inst)
    BY <1>0, <1>1 DEF ObjectShape, IsSequence
  <2>3. ObjectShape(Q.obj)
    BY <1>0, <2>1, <2>2, Zenon DEF NewInst, ObjectShape
  <2> QED
    BY <1>0, <2>3 DEF Shape, NewInst
<1>4. \A n \in Fds : IsMapFd(P.obj, n) <=> IsMapFd(Q.obj, n)
  BY NewInstSame
<1>5. \A n \in Fds : Knows(Q.obj, n) <=> (Knows(P.obj, n) \/ n = m)
  BY <1>2, <1>4 DEF Knows, NewInst
<1>6. Known(Q)
  <2> SUFFICES ASSUME NEW n \in Held(Q), n # m PROVE Knows(P.obj, n)
    BY <1>5 DEF Known, Held
  <2>1. n \in Held(P)
    BY <1>0 DEF Held, NewInst, Shape
  <2> QED
    BY <2>1 DEF Core, Known
<1>7. ASSUME ~Q.copied PROVE Clean(Q)
  <2>1. Clean(P)
    BY <1>7 DEF Core, NewInst
  <2>2. ~Knows(P.obj, m) /\ P.user[m] = Nothing
    BY <2>1 DEF Clean
  <2>3. \A n \in Fds : Q.user[n] # Nothing => Q.fds[n] = Q.user[n]
    BY <1>0, <2>1, <2>2 DEF Clean, NewInst, Shape
  <2>4. \A n \in Fds : Knows(Q.obj, n) => Q.fds[n] # Nothing /\ Q.user[n] = Nothing
    BY <1>0, <1>5, <2>1, <2>2 DEF Clean, NewInst, Shape
  <2>5. Apart(Q.obj)
    BY <1>2, <1>4, <2>1, <2>2 DEF Clean, Apart, Knows, NewInst
  <2> QED
    BY <2>1, <2>3, <2>4, <2>5 DEF Clean, NewInst
<1> QED
  BY <1>3, <1>6, <1>7, NewInstSame DEF Core

\* The instances of program i, none of them loaded, are replaced by others.
LEMMA ResetInst ==
    ASSUME NEW P, Core(P), IsOpen(P), NEW Q, NEW i, NEW s,
           IsSequence(s), \A j \in DOMAIN s : s[j] = -1,
           \A j \in DOMAIN P.obj.inst[i] : P.obj.inst[i][j] \notin Fds,
           Q.fds = P.fds, NewInst(P, Q, [P.obj.inst EXCEPT ![i] = s])
    PROVE  /\ Core(Q) /\ IsOpen(Q)
           /\ \A n \in Fds : IsProgFd(P.obj, n) <=> IsProgFd(Q.obj, n)
<1>0. Shape(P) /\ ObjectShape(P.obj) /\ \A n \in Fds : n # -1
  BY ObjectAssumption DEF Core, Shape, Fds
<1>1. /\ DOMAIN Q.obj.inst = DOMAIN P.obj.inst
      /\ i \in DOMAIN P.obj.inst => Q.obj.inst[i] = s
      /\ \A k \in DOMAIN P.obj.inst : k # i => Q.obj.inst[k] = P.obj.inst[k]
  BY <1>0 DEF NewInst, ObjectShape
<1>2. \A n \in Fds : IsProgFd(P.obj, n) <=> IsProgFd(Q.obj, n)
  <2> TAKE n \in Fds
  <2>1. ASSUME IsProgFd(Q.obj, n) PROVE IsProgFd(P.obj, n)
    <3>1. PICK k \in DOMAIN Q.obj.inst : \E l \in DOMAIN Q.obj.inst[k] : Q.obj.inst[k][l] = n
      BY <2>1 DEF IsProgFd
    <3> PICK l \in DOMAIN Q.obj.inst[k] : Q.obj.inst[k][l] = n
      BY <3>1
    <3>2. k \in DOMAIN P.obj.inst /\ l \in DOMAIN P.obj.inst[k] /\ P.obj.inst[k][l] = n
      BY <1>0, <1>1, <3>1
    <3> QED
      BY <3>2 DEF IsProgFd
  <2>2. ASSUME IsProgFd(P.obj, n) PROVE IsProgFd(Q.obj, n)
    <3>1. PICK k \in DOMAIN P.obj.inst : \E l \in DOMAIN P.obj.inst[k] : P.obj.inst[k][l] = n
      BY <2>2 DEF IsProgFd
    <3> PICK l \in DOMAIN P.obj.inst[k] : P.obj.inst[k][l] = n
      BY <3>1
    <3>2. k \in DOMAIN Q.obj.inst /\ l \in DOMAIN Q.obj.inst[k] /\ Q.obj.inst[k][l] = n
      BY <1>1, <3>1
    <3> QED
      BY <3>2 DEF IsProgFd
  <2> QED
    BY <2>1, <2>2
<1>3. Shape(Q)
  <2>1. ASSUME NEW k \in DOMAIN Q.obj.inst
        PROVE  /\ IsSequence(Q.obj.inst[k])
               /\ \A l \in DOMAIN Q.obj.inst[k] : Q.obj.inst[k][l] \in Number
    BY <1>0, <1>1 DEF ObjectShape, Number
  <2>2. ObjectShape(Q.obj)
    BY <1>0, <1>1, <2>1 DEF NewInst, ObjectShape, IsSequence
  <2> QED
    BY <1>0, <2>2 DEF Shape, NewInst
<1>4. \A n \in Fds : IsMapFd(P.obj, n) <=> IsMapFd(Q.obj, n)
  BY NewInstSame
<1>5. \A n \in Fds : Knows(Q.obj, n) <=> Knows(P.obj, n)
  BY <1>2, <1>4 DEF Knows, NewInst
<1>6. Known(Q)
  BY <1>5 DEF Core, Known, Held, NewInst
<1>7. ASSUME ~Q.copied PROVE Clean(Q)
  <2>1. Clean(P)
    BY <1>7 DEF Core, NewInst
  <2>2. Apart(Q.obj)
    BY <1>2, <1>4, <2>1 DEF Clean, Apart, NewInst
  <2> QED
    BY <1>5, <2>1, <2>2 DEF Clean, NewInst
<1> QED
  BY <1>2, <1>3, <1>6, <1>7, NewInstSame DEF Core

\* At most the number of instance j of program i differs.
OneInst(P, Q, i, j) ==
    /\ DOMAIN Q.obj.inst = DOMAIN P.obj.inst
    /\ \A k \in DOMAIN P.obj.inst : k # i => Q.obj.inst[k] = P.obj.inst[k]
    /\ DOMAIN Q.obj.inst[i] = DOMAIN P.obj.inst[i]
    /\ \A l \in DOMAIN P.obj.inst[i] : l # j => Q.obj.inst[i][l] = P.obj.inst[i][l]

\* load_program takes one number, for the instance it is called for.
LEMMA LoadProgramStep ==
    ASSUME NEW p, NEW insns, NEW bad, NEW skip, NEW P, Loading(P),
           NEW i \in DOMAIN P.obj.inst, NEW j \in DOMAIN P.obj.inst[i], P.obj.inst[i][j] \notin Fds
    PROVE  /\ Loading(LoadProgram(p, insns, i, bad, skip, P, j))
           /\ OneInst(P, LoadProgram(p, insns, i, bad, skip, P, j), i, j)
           /\ Grew(P, LoadProgram(p, insns, i, bad, skip, P, j))
<1> DEFINE Q == LoadProgram(p, insns, i, bad, skip, P, j)
           res == KernelProgram(p, P, i, j, insns)
           N == NewFd(P, res)
           idle == P.ret = "failed" \/ (P.obj.prep[i] /\ j \in skip)
           refused == bad = <<"prog", i, j>> \/ Full(P) \/ Refused(P, insns)
<1>0. /\ Core(P) /\ Shape(P) /\ ObjectShape(P.obj) /\ IsOpen(P)
      /\ DOMAIN P.obj = {"file", "loaded", "btf_fd", "maps", "inst", "prep", "prog_btf"}
  BY Zenon DEF Loading, Core, Shape, ObjectShape, NoObject
<1>1. CASE idle
  <2>1. Q = P
    BY <1>1 DEF LoadProgram
  <2> QED
    BY <2>1, GrewMore DEF OneInst
<1>2. CASE ~idle /\ refused
  <2>1. Q = Returns(P, "failed")
    BY <1>2 DEF LoadProgram
  <2>2. Alike(P, Q)
    BY <1>0, <2>1, ReturnsAlike
  <2>3. Core(Q) /\ Q.obj = P.obj
    BY <1>0, <2>2, AlikeCore DEF Alike
  <2> HIDE DEF Q
  <2>4. Loading(Q)
    BY <2>3 DEF Loading, IsOpen
  <2>5. Grew(P, Q)
    BY <1>0, <2>2, GrewMore DEF Alike, Shape
  <2> QED
    BY <2>3, <2>4, <2>5 DEF Q, OneInst
<1>3. CASE ~idle /\ ~refused
  <2>1. Q = [N EXCEPT !.obj.inst[i][j] = Lowest(P)]
    BY <1>3 DEF LoadProgram
  <2>2. Lowest(P) \in Fds /\ P.fds[Lowest(P)] = Nothing
    BY <1>0, <1>3, LowestFree
  <2>3. /\ DOMAIN N = {"fds", "user", "obj", "opens", "ret", "copied"}
        /\ N.user = P.user /\ N.copied = P.copied /\ N.obj = P.obj
        /\ N.fds = [P.fds EXCEPT ![Lowest(P)] = res]
    BY <1>0, NewFdFields, Zenon DEF Shape
  <2>4. res # Nothing
    BY Zenon DEF KernelProgram, Resource, Nothing
  <2> HIDE DEF N, Q, res
  <2>5. /\ DOMAIN Q = DOMAIN N /\ Q.user = N.user /\ Q.copied = N.copied /\ Q.fds = N.fds
        /\ Q.obj = [N.obj EXCEPT !.inst[i][j] = Lowest(P)]
    BY <2>1, <2>3
  <2>6. NewInst(P, Q, [P.obj.inst EXCEPT ![i][j] = Lowest(P)])
    BY <1>0, <2>3, <2>5 DEF NewInst, Shape
  <2>7. Core(Q)
    <3>1. Q.fds = [P.fds EXCEPT ![Lowest(P)] = res]
      BY <2>3, <2>5
    <3> QED
      BY <1>0, <2>2, <2>4, <2>6, <3>1, TakeInst, Zenon
  <2>8. Loading(Q)
    BY <2>6, <2>7, NewInstSame, Zenon DEF Loading, NewInst
  <2>9. Q.obj.inst = [P.obj.inst EXCEPT ![i][j] = Lowest(P)] /\ Q.obj.maps = P.obj.maps
    BY <2>6 DEF NewInst
  <2>10. OneInst(P, Q, i, j)
    BY <1>0, <2>9, Zenon DEF OneInst, ObjectShape
  <2>11. Grew(P, Q)
    <3>1. \A n \in Fds : P.fds[n] # Nothing => Q.fds[n] = P.fds[n]
      BY <1>0, <2>2, <2>3, <2>5 DEF Shape
    <3> QED
      BY <2>9, <3>1, GrewMore
  <2> QED
    BY <2>8, <2>10, <2>11 DEF Q
<1> HIDE DEF Q, idle, refused
<1> QED
  BY <1>1, <1>2, <1>3 DEF Q

\* bpf_program__load changes the instances of its program only.
LEMMA LoadInstancesStep ==
    ASSUME NEW p, NEW elf, NEW bad, NEW skip, NEW P, Loading(P), NEW i \in DOMAIN P.obj.inst,
           \A j \in DOMAIN P.obj.inst[i] : P.obj.inst[i][j] \notin Fds
    PROVE  LET Q == LoadInstances(p, elf, bad, skip, P, i) IN
           /\ Loading(Q)
           /\ DOMAIN Q.obj.inst = DOMAIN P.obj.inst
           /\ \A k \in DOMAIN P.obj.inst : k # i => Q.obj.inst[k] = P.obj.inst[k]
           /\ Grew(P, Q)
<1> DEFINE Q == LoadInstances(p, elf, bad, skip, P, i)
           idle == P.ret = "failed" \/ IsFunctionStorage(elf, elf.progs[i])
           gone == P.obj.inst[i] = <<>> /\ P.obj.prep[i]
           first == FirstInst(P, i)
<1>0. /\ Core(P) /\ Shape(P) /\ ObjectShape(P.obj) /\ IsOpen(P)
      /\ DOMAIN P.obj = {"file", "loaded", "btf_fd", "maps", "inst", "prep", "prog_btf"}
      /\ DOMAIN P = {"fds", "user", "obj", "opens", "ret", "copied"}
  BY Zenon DEF Loading, Core, Shape, ObjectShape, NoObject
<1>1. CASE idle
  <2>1. Q = P
    BY <1>1, Zenon DEF LoadInstances
  <2> QED
    BY <2>1, GrewMore
<1>2. CASE ~idle /\ gone
  <2>1. Q = Returns(P, "failed")
    BY <1>2 DEF LoadInstances
  <2>2. Alike(P, Q)
    BY <1>0, <2>1, ReturnsAlike
  <2>3. Core(Q) /\ Q.obj = P.obj
    BY <1>0, <2>2, AlikeCore DEF Alike
  <2> HIDE DEF Q
  <2>4. Loading(Q)
    BY <2>3 DEF Loading, IsOpen
  <2>5. Grew(P, Q)
    BY <1>0, <2>2, GrewMore DEF Alike, Shape
  <2> QED
    BY <2>3, <2>4, <2>5 DEF Q
<1>3. CASE ~idle /\ ~gone
  <2>1. /\ Loading(first) /\ DOMAIN first.obj.inst = DOMAIN P.obj.inst /\ Grew(P, first)
        /\ \A k \in DOMAIN P.obj.inst : k # i => first.obj.inst[k] = P.obj.inst[k]
        /\ \A j \in DOMAIN first.obj.inst[i] : first.obj.inst[i][j] \notin Fds
    <3>1. CASE P.obj.inst[i] # <<>>
      BY <3>1, GrewMore DEF FirstInst
    <3>2. CASE P.obj.inst[i] = <<>>
      <4> DEFINE s == <<-1>>
      <4>1. IsSequence(s) /\ \A j \in DOMAIN s : s[j] = -1
        <5>1. DOMAIN s = 1 .. 1 /\ s[1] = -1
          OBVIOUS
        <5> QED
          BY <5>1 DEF IsSequence
      <4>2. first = [P EXCEPT !.obj.inst[i] = s]
        BY <3>2 DEF FirstInst
      <4> HIDE DEF s, first
      <4>3. /\ DOMAIN first = DOMAIN P /\ first.user = P.user /\ first.copied = P.copied
            /\ first.fds = P.fds /\ first.obj = [P.obj EXCEPT !.inst[i] = s]
        BY <1>0, <4>2
      <4>4. NewInst(P, first, [P.obj.inst EXCEPT ![i] = s])
        BY <1>0, <4>3 DEF NewInst
      <4>5. Core(first) /\ IsOpen(first)
        BY <1>0, <4>1, <4>3, <4>4, ResetInst
      <4>6. Loading(first) /\ first.obj.inst = [P.obj.inst EXCEPT ![i] = s]
        BY <4>4, <4>5 DEF Loading, NewInst
      <4>7. -1 \notin Fds
        BY ObjectAssumption DEF Fds
      <4>8. Grew(P, first)
        BY <4>3, <4>4, GrewMore, Zenon DEF NewInst
      <4> QED
        BY <4>1, <4>6, <4>7, <4>8
    <3> QED
      BY <3>1, <3>2
  <2> HIDE DEF first
  <2>2. PICK n \in Nat : DOMAIN first.obj.inst[i] = 1 .. n
    BY <2>1 DEF Loading, Core, Shape, ObjectShape, IsSequence
  <2>3. PICK r : /\ r[0] = first
                 /\ \A j \in 1 .. n :
                       r[j] = LoadProgram(p, elf.progs[i].insns, i, bad, skip, r[j - 1], j)
                 /\ Q = r[n]
    <3>1. /\ ~(P.ret = "failed" \/ IsFunctionStorage(elf, elf.progs[i]))
          /\ ~(P.obj.inst[i] = <<>> /\ P.obj.prep[i])
          /\ DOMAIN FirstInst(P, i).obj.inst[i] = 1 .. n
      BY <1>3, <2>2 DEF first
    <3> QED
      BY <3>1, LoadInstancesRounds DEF first
  <2> DEFINE Good(k) == /\ Loading(r[k]) /\ DOMAIN r[k].obj.inst = DOMAIN P.obj.inst
                        /\ \A l \in DOMAIN P.obj.inst : l # i => r[k].obj.inst[l] = P.obj.inst[l]
                        /\ DOMAIN r[k].obj.inst[i] = 1 .. n
                        /\ \A j \in k + 1 .. n : r[k].obj.inst[i][j] \notin Fds
                        /\ Grew(P, r[k])
             D == {k \in Nat : k <= n => Good(k)}
  <2>4. 0 \in D
    <3>1. \A j \in 0 + 1 .. n : j \in 1 .. n
      OBVIOUS
    <3>2. /\ Loading(first) /\ DOMAIN first.obj.inst = DOMAIN P.obj.inst
          /\ \A l \in DOMAIN P.obj.inst : l # i => first.obj.inst[l] = P.obj.inst[l]
          /\ DOMAIN first.obj.inst[i] = 1 .. n
          /\ \A j \in 0 + 1 .. n : first.obj.inst[i][j] \notin Fds
          /\ Grew(P, first)
      BY <2>1, <2>2, <3>1
    <3>3. Good(0)
      BY <2>3, <3>2, Zenon
    <3> QED
      BY <3>3
  <2>5. ASSUME NEW k \in Nat, k \in D PROVE k + 1 \in D
    <3> SUFFICES ASSUME k + 1 <= n PROVE Good(k + 1)
      OBVIOUS
    <3> DEFINE R == r[k]
               T == r[k + 1]
    <3>1. Good(k) /\ k + 1 \in 1 .. n /\ k + 1 \in k + 1 .. n
      BY <2>5
    <3>2. T = LoadProgram(p, elf.progs[i].insns, i, bad, skip, R, k + 1)
      BY <2>3, <3>1
    <3>3. /\ Loading(T) /\ DOMAIN T.obj.inst = DOMAIN R.obj.inst
          /\ \A l \in DOMAIN R.obj.inst : l # i => T.obj.inst[l] = R.obj.inst[l]
          /\ DOMAIN T.obj.inst[i] = DOMAIN R.obj.inst[i]
          /\ \A j \in DOMAIN R.obj.inst[i] : j # k + 1 => T.obj.inst[i][j] = R.obj.inst[i][j]
          /\ Grew(P, T)
      <4> HIDE DEF R, T
      <4>1. /\ Loading(R) /\ i \in DOMAIN R.obj.inst /\ k + 1 \in DOMAIN R.obj.inst[i]
            /\ R.obj.inst[i][k + 1] \notin Fds /\ Grew(P, R)
        BY <3>1 DEF R
      <4>2. Loading(T) /\ OneInst(R, T, i, k + 1) /\ Grew(R, T)
        BY <3>2, <4>1, LoadProgramStep
      <4>3. Grew(P, T)
        BY <4>1, <4>2, GrewTrans
      <4> QED
        BY <4>2, <4>3 DEF OneInst
    <3>4. \A j \in (k + 1) + 1 .. n : j \in k + 1 .. n /\ j # k + 1 /\ j \in 1 .. n
      OBVIOUS
    <3> QED
      BY <3>1, <3>3, <3>4
  <2>6. n \in D
    <3> HIDE DEF D
    <3> QED
      BY <2>4, <2>5, NatSetInduction
  <2> HIDE DEF Q
  <2> QED
    BY <2>3, <2>6 DEF Q
<1> HIDE DEF Q, idle, gone
<1> QED
  BY <1>1, <1>2, <1>3 DEF Q

\* bpf_object__relocate opens and closes nothing.
LEMMA ToldStep ==
    ASSUME NEW P, NEW elf, Loading(P)
    PROVE  Loading(Told(P, elf)) /\ Told(P, elf).obj.inst = P.obj.inst /\ Grew(P, Told(P, elf))
<1> DEFINE T == Told(P, elf)
<1>0. /\ Core(P) /\ Shape(P) /\ ObjectShape(P.obj) /\ IsOpen(P) /\ P.obj.loaded
      /\ DOMAIN P.obj = {"file", "loaded", "btf_fd", "maps", "inst", "prep", "prog_btf"}
      /\ DOMAIN P = {"fds", "user", "obj", "opens", "ret", "copied"}
  BY Zenon DEF Loading, Core, Shape, ObjectShape, NoObject
<1>1. /\ DOMAIN T = DOMAIN P /\ T.user = P.user /\ T.fds = P.fds
      /\ T.copied = (P.copied \/ \E i \in DOMAIN P.obj.prog_btf : elf.progs[i].btf)
      /\ T.obj = [P.obj EXCEPT !.prog_btf =
                    [i \in DOMAIN @ |-> IF elf.progs[i].btf THEN P.obj.btf_fd ELSE @[i]]]
  BY <1>0 DEF Told
<1> HIDE DEF T
<1>2. /\ DOMAIN T.obj = DOMAIN P.obj /\ T.obj.file = P.obj.file /\ T.obj.loaded = P.obj.loaded
      /\ T.obj.btf_fd = P.obj.btf_fd /\ T.obj.maps = P.obj.maps /\ T.obj.inst = P.obj.inst
      /\ T.obj.prog_btf = [i \in DOMAIN P.obj.prog_btf |->
                             IF elf.progs[i].btf THEN P.obj.btf_fd ELSE P.obj.prog_btf[i]]
  BY <1>0, <1>1, Zenon
<1>3. Shape(T)
  BY <1>0, <1>1, <1>2 DEF Shape, ObjectShape
<1>4. Known(T)
  BY <1>0, <1>1, <1>2 DEF Core, Known, Held, Knows, IsMapFd, IsProgFd
<1>5. ASSUME ~T.copied PROVE Clean(T)
  <2>1. ~P.copied /\ \A i \in DOMAIN P.obj.prog_btf : ~elf.progs[i].btf
    BY <1>1, <1>5, Zenon
  <2>2. Clean(P)
    BY <1>0, <2>1 DEF Core
  <2>3. \A i \in DOMAIN T.obj.prog_btf : T.obj.prog_btf[i] = -1
    BY <1>2, <2>1, <2>2 DEF Clean
  <2>4. Apart(T.obj) /\ \A n \in Fds : Knows(T.obj, n) <=> Knows(P.obj, n)
    <3>1. Apart(P.obj)
      BY <2>2 DEF Clean
    <3> QED
      BY <1>2, <3>1, SameFds
  <2> QED
    BY <1>1, <2>2, <2>3, <2>4 DEF Clean
<1>6. IsOpen(T)
  BY <1>0, <1>2 DEF IsOpen
<1>7. Grew(P, T)
  BY <1>1, <1>2, GrewMore, Zenon
<1> QED
  BY <1>0, <1>2, <1>3, <1>4, <1>5, <1>6, <1>7 DEF Loading, Core, T

\* bpf_object__load_progs, of an object no program of which is loaded.
LEMMA LoadProgsStep ==
    ASSUME NEW p, NEW elf, NEW bad, NEW skip, NEW P, Loading(P), Blank(P.obj)
    PROVE  /\ Loading(LoadProgs(p, P, elf, bad, skip)) /\ Grew(P, LoadProgs(p, P, elf, bad, skip))
           /\ LoadProgs(p, P, elf, bad, skip).ret # "failed" => P.ret # "failed"
<1>1. CASE P.ret = "failed"
  BY <1>1, GrewMore DEF LoadProgs
<1>2. CASE P.ret # "failed"
  <2>1. PICK n \in Nat : DOMAIN P.obj.inst = 1 .. n
    BY DEF Loading, Core, Shape, ObjectShape, IsSequence
  <2>2. PICK r : /\ r[0] = Told(P, elf)
                 /\ \A i \in 1 .. n : r[i] = LoadInstances(p, elf, bad, skip, r[i - 1], i)
                 /\ LoadProgs(p, P, elf, bad, skip) = r[n]
    BY <1>2, <2>1, LoadProgsRounds
  <2> DEFINE Good(k) == /\ Loading(r[k]) /\ DOMAIN r[k].obj.inst = 1 .. n /\ Grew(P, r[k])
                        /\ \A i \in k + 1 .. n : \A j \in DOMAIN r[k].obj.inst[i] :
                              r[k].obj.inst[i][j] \notin Fds
             D == {k \in Nat : k <= n => Good(k)}
  <2>3. 0 \in D
    BY <2>1, <2>2, ToldStep DEF Blank, IsProgFd
  <2>4. ASSUME NEW k \in Nat, k \in D PROVE k + 1 \in D
    <3> SUFFICES ASSUME k + 1 <= n PROVE Good(k + 1)
      OBVIOUS
    <3> DEFINE R == r[k]
               T == r[k + 1]
    <3>1. Good(k) /\ k + 1 \in 1 .. n /\ k + 1 \in k + 1 .. n
      BY <2>4
    <3>2. T = LoadInstances(p, elf, bad, skip, R, k + 1)
      BY <2>2, <3>1
    <3>3. /\ Loading(T) /\ DOMAIN T.obj.inst = DOMAIN R.obj.inst /\ Grew(P, T)
          /\ \A l \in DOMAIN R.obj.inst : l # k + 1 => T.obj.inst[l] = R.obj.inst[l]
      <4> HIDE DEF R, T
      <4>1. /\ Loading(R) /\ k + 1 \in DOMAIN R.obj.inst /\ Grew(P, R)
            /\ \A j \in DOMAIN R.obj.inst[k + 1] : R.obj.inst[k + 1][j] \notin Fds
        BY <3>1 DEF R
      <4>2. /\ Loading(T) /\ DOMAIN T.obj.inst = DOMAIN R.obj.inst /\ Grew(R, T)
            /\ \A l \in DOMAIN R.obj.inst : l # k + 1 => T.obj.inst[l] = R.obj.inst[l]
        BY <3>2, <4>1, LoadInstancesStep
      <4> QED
        BY <4>1, <4>2, GrewTrans
    <3>4. \A j \in (k + 1) + 1 .. n : j \in k + 1 .. n /\ j # k + 1 /\ j \in 1 .. n
      OBVIOUS
    <3> QED
      BY <3>1, <3>3, <3>4
  <2>5. n \in D
    <3> HIDE DEF D
    <3> QED
      BY <2>3, <2>4, NatSetInduction
  <2> QED
    BY <1>2, <2>2, <2>5
<1> QED
  BY <1>1, <1>2

\* bpf_object__load.
LEMMA LoadObjectInv ==
    ASSUME NEW p, NEW bad, NEW skip, NEW P, ProcInv(P), IsOpen(P)
    PROVE  /\ ProcInv(LoadObject(p, P, bad, skip)) /\ IsOpen(LoadObject(p, P, bad, skip))
           /\ Released(P, LoadObject(p, P, bad, skip))
           /\ LoadObject(p, P, bad, skip).ret # "failed" => Grew(P, LoadObject(p, P, bad, skip))
<1> DEFINE Q == LoadObject(p, P, bad, skip)
           A == [P EXCEPT !.obj.loaded = TRUE, !.ret = "ok"]
           B == ProbeCaps(A, bad)
           C == CreateMaps(p, B, bad)
           L == LoadCreated(p, C, bad, skip)
<1>0. /\ Core(P) /\ Shape(P)
      /\ DOMAIN P.obj = {"file", "loaded", "btf_fd", "maps", "inst", "prep", "prog_btf"}
      /\ DOMAIN P = {"fds", "user", "obj", "opens", "ret", "copied"}
  BY Zenon DEF ProcInv, Core, Shape, ObjectShape, NoObject
<1>1. CASE P.obj.loaded
  <2>1. Q = Returns(P, "failed")
    BY <1>1 DEF LoadObject
  <2>2. Alike(P, Q) /\ Q.ret = "failed"
    BY <1>0, <2>1, ReturnsAlike
  <2> QED
    BY <1>1, <2>2, AlikeInv DEF Alike, IsOpen, Released
<1>2. CASE ~P.obj.loaded
  <2>1. Q = UnloadFailed(L)
    BY <1>2 DEF LoadObject
  <2>2. Loading(A) /\ Blank(A.obj) /\ Grew(P, A)
    <3>1. /\ DOMAIN A = DOMAIN P /\ A.user = P.user /\ A.fds = P.fds /\ A.copied = P.copied
          /\ DOMAIN A.obj = DOMAIN P.obj /\ A.obj.file = P.obj.file /\ A.obj.loaded = TRUE
          /\ A.obj.btf_fd = P.obj.btf_fd /\ A.obj.maps = P.obj.maps /\ A.obj.inst = P.obj.inst
          /\ A.obj.prog_btf = P.obj.prog_btf
      BY <1>0
    <3> HIDE DEF A
    <3>2. /\ Apart(A.obj) <=> Apart(P.obj)
          /\ \A n \in Fds : Knows(A.obj, n) <=> Knows(P.obj, n)
          /\ Blank(A.obj) <=> Blank(P.obj)
      BY <3>1, SameFds
    <3>3. Shape(A) /\ IsOpen(A)
      BY <1>0, <3>1 DEF Shape, ObjectShape, IsOpen
    <3>4. Known(A)
      BY <1>0, <3>1, <3>2 DEF Core, Known, Held
    <3>5. ASSUME ~A.copied PROVE Clean(A)
      <4>1. Clean(P)
        BY <1>0, <3>1, <3>5 DEF Core
      <4> QED
        BY <3>1, <3>2, <4>1 DEF Clean
    <3>6. Grew(P, A)
      BY <3>1, GrewMore
    <3> QED
      BY <1>2, <3>1, <3>2, <3>3, <3>4, <3>5, <3>6 DEF Loading, Core, ProcInv
  <2> HIDE DEF A
  <2>3. Loading(B) /\ Blank(B.obj) /\ Grew(P, B)
    <3>1. Alike(A, Returns(A, "failed"))
      BY <2>2, ReturnsAlike DEF Loading, Core
    <3>2. Loading(Returns(A, "failed")) /\ Blank(Returns(A, "failed").obj)
      BY <2>2, <3>1, AlikeCore DEF Loading, IsOpen, Alike
    <3>3. Grew(P, Returns(A, "failed"))
      <4>1. Grew(A, Returns(A, "failed"))
        BY <2>2, <3>1, GrewMore DEF Alike, Loading, Core, Shape
      <4> QED
        BY <2>2, <4>1, GrewTrans
    <3> QED
      BY <2>2, <3>2, <3>3 DEF ProbeCaps
  <2> HIDE DEF B
  <2>4. Loading(C) /\ Blank(C.obj) /\ (C.ret # "failed" => Grew(B, C))
    BY <2>3, CreateMapsStep
  <2> HIDE DEF C
  <2>5. Loading(L) /\ Grew(C, L) /\ (L.ret # "failed" => C.ret # "failed")
    <3>1. PICK elf : L = LoadProgs(p, C, elf, bad, skip)
      BY Zenon DEF LoadCreated
    <3> HIDE DEF L
    <3> QED
      BY <2>4, <3>1, LoadProgsStep
  <2> HIDE DEF L, Q
  <2>6. CASE L.ret = "failed"
    <3> DEFINE U == Unload(L)
    <3>1. Core(U) /\ IsOpen(U) /\ Blank(U.obj) /\ Held(U) \subseteq {U.obj.btf_fd}
      BY <2>5, UnloadCore, UnloadKnows DEF Loading, Core
    <3>2. Q = Returns(U, "failed")
      BY <2>1, <2>6 DEF UnloadFailed
    <3> HIDE DEF U
    <3>3. Alike(U, Q) /\ Q.ret = "failed"
      BY <3>1, <3>2, ReturnsAlike DEF Core
    <3>4. Core(Q) /\ Q.obj = U.obj
      BY <3>1, <3>3, AlikeCore DEF Alike
    <3>5. Held(Q) = Held(U)
      BY <3>1, <3>3 DEF Held, Alike, Core, Shape
    <3> QED
      BY <3>1, <3>3, <3>4, <3>5 DEF ProcInv, IsOpen, Released, Q
  <2>7. CASE L.ret # "failed"
    <3>1. Q = L
      BY <2>1, <2>7 DEF UnloadFailed
    <3>2. Grew(P, Q)
      BY <2>3, <2>4, <2>5, <2>7, <3>1, GrewTrans
    <3> QED
      BY <2>5, <2>7, <3>1, <3>2 DEF Loading, ProcInv, Released, Q
  <2> QED
    BY <2>6, <2>7
<1> QED
  BY <1>1, <1>2
=============================================================================
