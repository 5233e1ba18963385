-------------------------- MODULE BpfObjectProofs --------------------------
(***************************************************************************)
(* Proofs about BpfObject: whatever a process does with an object of       *)
(* libbpf, the library loses no descriptor it opened, a failed load leaves *)
(* nothing open but the object's BTF, and as long as no program has a copy *)
(* of the BTF descriptor's number, no descriptor of the application is     *)
(* closed.                                                                 *)
(***************************************************************************)
EXTENDS BpfLoadProofs

(***************************************************************************)
(* bpf_map__reuse_fd and bpf_program__set_prep.                            *)
(***************************************************************************)
\* The old descriptor of the map is closed as by DropMaps, the new one taken
\* as by TakeMap.
LEMMA ReuseFdInv ==
    ASSUME NEW P, ProcInv(P), IsOpen(P), NEW i \in DOMAIN P.obj.maps, NEW n \in Fds
    PROVE  ProcInv(ReuseFd(P, i, n, "none")) /\ Released(P, ReuseFd(P, i, n, "none"))
<1> DEFINE Q == ReuseFd(P, i, n, "none")
           old == P.obj.maps[i].fd
           m == Lowest(P)
           r == P.fds[n]
           none == [P.obj.maps EXCEPT ![i].fd = -1]
           dropped == [P EXCEPT !.fds = [x \in Fds |-> IF x = old THEN Nothing ELSE P.fds[x]],
                                !.obj.maps[i].fd = -1]
<1>0. /\ Core(P) /\ Shape(P) /\ ObjectShape(P.obj)
      /\ DOMAIN P.obj = {"file", "loaded", "btf_fd", "maps", "inst", "prep", "prog_btf"}
      /\ DOMAIN P = {"fds", "user", "obj", "opens", "ret", "copied"} /\ DOMAIN P.fds = Fds
      /\ {"fd", "name", "sym"} \subseteq DOMAIN P.obj.maps[i] /\ -1 \notin Fds
      /\ old \in Fds \cup {-1} /\ \A x \in Fds : x >= 0
  <2>1. Core(P) /\ Shape(P) /\ ObjectShape(P.obj)
    BY DEF ProcInv, Core, Shape
  <2>2. DOMAIN P.obj = {"file", "loaded", "btf_fd", "maps", "inst", "prep", "prog_btf"}
    BY <2>1 DEF ObjectShape, NoObject
  <2>3. {"fd", "name", "sym"} \subseteq DOMAIN P.obj.maps[i] /\ old \in Fds \cup {-1}
    BY <2>1 DEF ObjectShape, Number
  <2> QED
    BY <2>1, <2>2, <2>3, FdNumbers DEF Shape
<1>1. /\ DOMAIN dropped = DOMAIN P /\ dropped.user = P.user /\ dropped.copied = P.copied
      /\ dropped.fds = [x \in Fds |-> IF x = old THEN Nothing ELSE P.fds[x]]
      /\ dropped.obj = [P.obj EXCEPT !.maps[i].fd = -1]
  BY <1>0
<1> HIDE DEF dropped
<1>2. NewMaps(P, dropped, none)
  BY <1>0, <1>1 DEF NewMaps
<1>3. Core(dropped) /\ IsOpen(dropped)
  <2>1. none = [k \in DOMAIN P.obj.maps |->
                  IF k \in {i} THEN [P.obj.maps[k] EXCEPT !.fd = -1] ELSE P.obj.maps[k]]
    BY <1>0 DEF ObjectShape
  <2>2. {P.obj.maps[k].fd : k \in {i}} = {old}
    OBVIOUS
  <2>3. dropped.fds = [x \in Fds |-> IF x \in {P.obj.maps[k].fd : k \in {i}} THEN Nothing ELSE P.fds[x]]
    BY <1>1, <2>2
  <2>4. {i} \in SUBSET DOMAIN P.obj.maps
    OBVIOUS
  <2>5. Drops(P, dropped, {i})
    BY <1>2, <2>1, <2>3 DEF Drops
  <2> HIDE DEF none, old
  <2> QED
    BY <1>0, <1>2, <2>4, <2>5, DropMaps, NewMapsSame
<1>4. CASE ~IsMap(r) \/ Full(P)
  <2>1. Q = Returns(P, "failed")
    BY <1>4, Zenon DEF ReuseFd
  <2> HIDE DEF Q
  <2>2. Alike(P, Q)
    BY <1>0, <2>1, ReturnsAlike
  <2>3. ProcInv(Q) /\ Q.obj = P.obj
    BY <2>2, AlikeInv DEF Alike
  <2> QED
    BY <2>3 DEF Released, Q
<1>5. CASE ~(~IsMap(r) \/ Full(P)) /\ old >= 0 /\ P.fds[old] = Nothing
  <2>1. Q = Returns([P EXCEPT !.obj.maps[i].fd = -1], "failed")
    BY <1>5, Zenon DEF ReuseFd
  <2>2. /\ DOMAIN Q = DOMAIN P /\ Q.user = P.user /\ Q.copied = P.copied /\ Q.fds = P.fds
        /\ Q.obj = [P.obj EXCEPT !.maps[i].fd = -1]
    BY <1>0, <2>1, Zenon DEF Returns
  <2> HIDE DEF Q
  <2>3. DOMAIN dropped.fds = Fds /\ \A x \in Fds : dropped.fds[x] = P.fds[x]
    BY <1>1, <1>5
  <2>4. Alike(dropped, Q)
    BY <1>0, <1>1, <2>2, <2>3 DEF Alike
  <2>5. Core(Q) /\ Q.obj = dropped.obj
    BY <1>3, <2>4, AlikeCore DEF Alike
  <2>6. ~Q.obj.loaded => Blank(Q.obj)
    BY <1>2, <2>5, NewMapsSame DEF ProcInv, NewMaps
  <2> QED
    BY <1>2, <2>5, <2>6 DEF ProcInv, NewMaps, Released, Q
<1>6. CASE ~(~IsMap(r) \/ Full(P)) /\ ~(old >= 0 /\ P.fds[old] = Nothing)
  <2> DEFINE N == NewFd(P, r)
             C == CloseFds(N, {old})
             new == Q.obj.maps
  <2>1. Q = [C EXCEPT !.ret = "ok", !.obj.maps[i].fd = m, !.obj.maps[i].name = r.name]
    BY <1>6, Zenon DEF ReuseFd
  <2>2. m \in Fds /\ P.fds[m] = Nothing
    BY <1>0, <1>6, LowestFree
  <2>3. /\ DOMAIN N = DOMAIN P /\ N.user = P.user /\ N.copied = P.copied /\ N.obj = P.obj
        /\ N.fds = [P.fds EXCEPT ![m] = r]
    <3> HIDE DEF r, old, none, Q
    <3> QED
      BY <1>0, NewFdFields, SMTT(20)
  <2> HIDE DEF N
  <2>4. /\ DOMAIN C = DOMAIN P /\ C.user = P.user /\ C.copied = P.copied /\ C.obj = P.obj
        /\ C.fds = [x \in Fds |-> IF x \in {old} THEN Nothing ELSE N.fds[x]]
    <3> HIDE DEF m, r, old, none, Q
    <3> QED
      BY <1>0, <2>3, CloseFdsFields
  <2> HIDE DEF C, Q, m, r
  <2>5. /\ DOMAIN Q = DOMAIN P /\ Q.user = P.user /\ Q.copied = P.copied /\ Q.fds = C.fds
        /\ Q.obj = [[P.obj EXCEPT !.maps[i].fd = m] EXCEPT !.maps[i].name = r.name]
    BY <1>0, <2>1, <2>4, Zenon
  <2>6. NewMaps(P, Q, new) /\ new = [[P.obj.maps EXCEPT ![i].fd = m] EXCEPT ![i].name = r.name]
    BY <1>0, <2>5 DEF NewMaps
  <2>7. NewMaps(dropped, Q, new)
    BY <1>2, <2>6 DEF NewMaps
  <2>8. MapGets(dropped.obj.maps, new, i, m)
    <3>1. dropped.obj.maps = none
      BY <1>2 DEF NewMaps
    <3> QED
      BY <1>0, <2>6, <3>1 DEF MapGets, ObjectShape
  <2>9. dropped.fds[m] = Nothing /\ r # Nothing
    BY <1>1, <1>6, <2>2, Kinds DEF IsMap
  <2>10. Q.fds = [dropped.fds EXCEPT ![m] = r]
    <3>1. m # old
      BY <1>6, <1>0, <2>2
    <3>2. \A x \in Fds : Q.fds[x] = IF x = m THEN r ELSE dropped.fds[x]
      <4>1. \A x \in Fds : Q.fds[x] = IF x = old THEN Nothing ELSE N.fds[x]
        BY <2>4, <2>5
      <4>2. \A x \in Fds : N.fds[x] = IF x = m THEN r ELSE P.fds[x]
        BY <1>0, <2>3
      <4>3. \A x \in Fds : dropped.fds[x] = IF x = old THEN Nothing ELSE P.fds[x]
        BY <1>1
      <4> HIDE DEF old
      <4> QED
        BY <3>1, <4>1, <4>2, <4>3
    <3> HIDE DEF old
    <3> QED
      BY <1>1, <2>4, <2>5, <3>2
  <2>11. dropped.obj.maps[i].fd \notin Fds /\ i \in DOMAIN dropped.obj.maps
    BY <1>0, <1>2 DEF NewMaps, ObjectShape
  <2> HIDE DEF new
  <2>12. Core(Q)
    BY <1>3, <2>2, <2>7, <2>8, <2>9, <2>10, <2>11, TakeMap, Zenon
  <2>13. ~Q.obj.loaded => Blank(Q.obj)
    BY <2>6, NewMapsSame DEF ProcInv, NewMaps
  <2> QED
    BY <2>6, <2>12, <2>13 DEF ProcInv, NewMaps, Released, Q
<1> HIDE DEF Q, r, old
<1> QED
  BY <1>4, <1>5, <1>6 DEF Q

\* Instances are given only to a program that has none.
LEMMA SetPrepInv ==
    ASSUME NEW P, ProcInv(P), IsOpen(P), NEW i, NEW nr \in Nat
    PROVE  ProcInv(SetPrep(P, i, nr)) /\ Released(P, SetPrep(P, i, nr))
<1> DEFINE Q == SetPrep(P, i, nr)
           s == [j \in 1 .. nr |-> -1]
<1>0. /\ Core(P) /\ Shape(P)
      /\ DOMAIN P.obj = {"file", "loaded", "btf_fd", "maps", "inst", "prep", "prog_btf"}
      /\ DOMAIN P = {"fds", "user", "obj", "opens", "ret", "copied"}
  BY Zenon DEF ProcInv, Core, Shape, ObjectShape, NoObject
<1>1. CASE P.obj.inst[i] # <<>>
  BY <1>0, <1>1, ReturnsAlike, AlikeInv DEF SetPrep, Released, Alike
<1>2. CASE P.obj.inst[i] = <<>>
  <2>1. Q = [P EXCEPT !.ret = "ok", !.obj.prep[i] = TRUE, !.obj.inst[i] = s]
    BY <1>2 DEF SetPrep
  <2>2. IsSequence(s) /\ \A j \in DOMAIN s : s[j] = -1
    BY DEF IsSequence
  <2> HIDE DEF s, Q
  <2>3. /\ DOMAIN Q = DOMAIN P /\ Q.user = P.user /\ Q.copied = P.copied /\ Q.fds = P.fds
        /\ Q.obj = [[P.obj EXCEPT !.prep[i] = TRUE] EXCEPT !.inst[i] = s]
    BY <1>0, <2>1, Zenon
  <2>4. NewInst(P, Q, [P.obj.inst EXCEPT ![i] = s])
    BY <1>0, <2>3 DEF NewInst
  <2>5. /\ Core(Q)
        /\ \A n \in Fds : IsProgFd(P.obj, n) <=> IsProgFd(Q.obj, n)
    <3>1. \A j \in DOMAIN P.obj.inst[i] : P.obj.inst[i][j] \notin Fds
      <4>1. DOMAIN P.obj.inst[i] = {}
        BY <1>2
      <4> QED
        BY <4>1
    <3> QED
      BY <1>0, <2>2, <2>3, <2>4, <3>1, ResetInst, Zenon
  <2> QED
    BY <2>4, <2>5 DEF ProcInv, Blank, NewInst, Released, Q
<1> QED
  BY <1>1, <1>2

(***************************************************************************)
(* The application's own descriptors.                                      *)
(***************************************************************************)
\* The application opens a descriptor.
LEMMA OwnInv ==
    ASSUME NEW P, ProcInv(P), ~Full(P), NEW r, r # Nothing
    PROVE  /\ ProcInv([NewFd(P, r) EXCEPT !.user[Lowest(P)] = r])
           /\ Released(P, [NewFd(P, r) EXCEPT !.user[Lowest(P)] = r])
<1> DEFINE N == NewFd(P, r)
           Q == [N EXCEPT !.user[Lowest(P)] = r]
           m == Lowest(P)
<1>0. Core(P) /\ Shape(P) /\ DOMAIN P = {"fds", "user", "obj", "opens", "ret", "copied"}
  BY DEF ProcInv, Core, Shape
<1>1. m \in Fds /\ P.fds[m] = Nothing
  BY <1>0, LowestFree
<1>2. /\ DOMAIN N = DOMAIN P /\ N.user = P.user /\ N.copied = P.copied /\ N.obj = P.obj
      /\ N.fds = [P.fds EXCEPT ![m] = r]
  BY <1>0, NewFdFields
<1> HIDE DEF N, m
<1>3. /\ DOMAIN Q = DOMAIN P /\ Q.user = [P.user EXCEPT ![m] = r] /\ Q.copied = P.copied
      /\ Q.obj = P.obj /\ Q.fds = [P.fds EXCEPT ![m] = r]
  BY <1>0, <1>2 DEF m
<1> HIDE DEF Q
<1>4. Shape(Q)
  BY <1>0, <1>3 DEF Shape
<1>5. Known(Q)
  <2>1. \A n \in Held(Q) : n \in Held(P)
    BY <1>0, <1>3 DEF Held, Shape
  <2> QED
    BY <1>0, <1>3, <2>1 DEF Core, Known
<1>6. ASSUME ~Q.copied PROVE Clean(Q)
  BY <1>0, <1>1, <1>3, <1>6 DEF Core, Clean, Shape
<1>7. ~IsOpen(Q) => Q.obj = NoObject
  BY <1>0, <1>3 DEF Core, IsOpen
<1>8. Core(Q)
  BY <1>4, <1>5, <1>6, <1>7 DEF Core
<1> QED
  BY <1>3, <1>8 DEF ProcInv, Released, Q, N, m

\* A file that is left open (elf_begin, dup3) is none of the object's.
LEMMA StrayInv ==
    ASSUME NEW P, ProcInv(P), ~Full(P)
    PROVE  LET Q == Returns(NewFd(P, OwnFile), "failed") IN
           ProcInv(Q) /\ Q.obj = P.obj /\ Keeps(P, Q) /\ Q.ret = "failed"
<1> DEFINE N == NewFd(P, OwnFile)
           Q == Returns(N, "failed")
           m == Lowest(P)
<1>0. Core(P) /\ Shape(P) /\ DOMAIN P = {"fds", "user", "obj", "opens", "ret", "copied"}
  BY DEF ProcInv, Core, Shape
<1>1. m \in Fds /\ P.fds[m] = Nothing
  BY <1>0, LowestFree
<1>2. /\ DOMAIN N = DOMAIN P /\ N.user = P.user /\ N.copied = P.copied /\ N.obj = P.obj
      /\ N.fds = [P.fds EXCEPT ![m] = OwnFile]
  BY <1>0, NewFdFields
<1> HIDE DEF N, m
<1>3. Shape(N)
  BY <1>0, <1>2 DEF Shape
<1>4. Known(N)
  <2>1. \A n \in Held(N) : n \in Held(P)
    BY <1>0, <1>2, Kinds DEF Held, Shape
  <2> QED
    BY <1>0, <1>2, <2>1 DEF Core, Known
<1>5. ASSUME ~N.copied PROVE Clean(N)
  BY <1>0, <1>1, <1>2, <1>5, Kinds DEF Core, Clean, Shape
<1>6. ~IsOpen(N) => N.obj = NoObject
  BY <1>0, <1>2 DEF Core, IsOpen
<1>7. ProcInv(N)
  BY <1>2, <1>3, <1>4, <1>5, <1>6 DEF Core, ProcInv
<1>8. Alike(N, Q) /\ Q.ret = "failed"
  BY <1>3, ReturnsAlike
<1> HIDE DEF Q
<1>9. Keeps(P, Q)
  BY <1>0, <1>1, <1>2, <1>8 DEF Keeps, Alike, Shape
<1> QED
  BY <1>2, <1>7, <1>8, <1>9, AlikeInv DEF Alike, Q, N

\* The application closes a descriptor of its own.
LEMMA CloseOwnInv ==
    ASSUME NEW P, ProcInv(P), NEW m \in Fds, P.user[m] # Nothing
    PROVE  /\ ProcInv([CloseFds(P, {m}) EXCEPT !.user[m] = Nothing])
           /\ Released(P, [CloseFds(P, {m}) EXCEPT !.user[m] = Nothing])
<1> DEFINE C == CloseFds(P, {m})
           Q == [C EXCEPT !.user[m] = Nothing]
<1>0. Core(P) /\ Shape(P) /\ DOMAIN P = {"fds", "user", "obj", "opens", "ret", "copied"}
  BY DEF ProcInv, Core, Shape
<1>1. /\ DOMAIN C = DOMAIN P /\ C.user = P.user /\ C.copied = P.copied /\ C.obj = P.obj
      /\ C.fds = [n \in Fds |-> IF n \in {m} THEN Nothing ELSE P.fds[n]]
  BY <1>0, CloseFdsFields
<1> HIDE DEF C
<1>2. /\ DOMAIN Q = DOMAIN P /\ Q.user = [P.user EXCEPT ![m] = Nothing] /\ Q.copied = P.copied
      /\ Q.obj = P.obj /\ Q.fds = [n \in Fds |-> IF n = m THEN Nothing ELSE P.fds[n]]
  BY <1>0, <1>1
<1> HIDE DEF Q
<1>3. Shape(Q)
  BY <1>0, <1>2 DEF Shape
<1>4. Known(Q)
  <2>1. \A n \in Held(Q) : n \in Held(P)
    BY <1>0, <1>2, Kinds DEF Held, Shape
  <2> QED
    BY <1>0, <1>2, <2>1 DEF Core, Known
<1>5. ASSUME ~Q.copied PROVE Clean(Q)
  BY <1>0, <1>2, <1>5 DEF Core, Clean, Shape
<1>6. ~IsOpen(Q) => Q.obj = NoObject
  BY <1>0, <1>2 DEF Core, IsOpen
<1>7. Core(Q)
  BY <1>3, <1>4, <1>5, <1>6 DEF Core
<1> QED
  BY <1>2, <1>7 DEF ProcInv, Released, Q, C

(***************************************************************************)
(* What opening a file gives.                                              *)
(***************************************************************************)
\* The fields of what BpfElf reads.
Fields == {"err", "maps_shndx", "text_shndx", "strtab", "version", "btf", "ext", "pseudo",
           "progs", "rels", "maps"}

\* The programs a file may give.
AllPrograms(image) == {Program(image.secs[i], i) : i \in DOMAIN image.secs}

\* In the loop over the sections.
ReadShape(image, o) ==
    /\ DOMAIN o = Fields /\ o.maps = <<>>
    /\ o.progs \in Seq(AllPrograms(image)) /\ o.rels \in Seq(Range(image.secs))

\* After it.
FoundShape(o) ==
    /\ DOMAIN o = Fields
    /\ IsSequence(o.progs) /\ IsSequence(o.rels) /\ IsSequence(o.maps)
    /\ \A i \in DOMAIN o.maps :
          /\ {"fd", "name", "sym"} \subseteq DOMAIN o.maps[i]
          /\ o.maps[i].fd = -1 /\ o.maps[i].name = o.maps[i].sym

\* One round of elf_collect.
LEMMA CollectSectionShape ==
    ASSUME NEW image, NEW btfLoads, NEW o, ReadShape(image, o), NEW i \in DOMAIN image.secs
    PROVE  ReadShape(image, CollectSection(image, btfLoads, o, i))
<1> DEFINE sec == image.secs[i]
           Q == CollectSection(image, btfLoads, o, i)
<1>0. DOMAIN o = Fields /\ Program(sec, i) \in AllPrograms(image) /\ sec \in Range(image.secs)
  BY DEF ReadShape, AllPrograms, Range
<1>1. ASSUME NEW e PROVE ReadShape(image, Failed(o, e))
  BY <1>0 DEF ReadShape, Failed, Fields
<1>2. ReadShape(image, AddProgram(o, sec, i))
  <2> DEFINE A == [o EXCEPT !.progs = Append(@, Program(sec, i)),
                            !.text_shndx = IF sec.kind = ".text" THEN i ELSE @]
  <2>1. /\ DOMAIN A = Fields /\ A.maps = o.maps /\ A.rels = o.rels
        /\ A.progs = Append(o.progs, Program(sec, i))
    BY <1>0 DEF Fields
  <2> HIDE DEF A
  <2>2. A.progs \in Seq(AllPrograms(image))
    <3> DEFINE x == Program(sec, i)
    <3> HIDE DEF x, sec
    <3> QED
      BY <1>0, <2>1 DEF ReadShape, x
  <2>3. ReadShape(image, A)
    BY <2>1, <2>2 DEF ReadShape
  <2> QED
    BY <1>1, <2>3 DEF AddProgram, A
<1>3. ReadShape(image, [o EXCEPT !.rels = Append(@, sec)])
  <2> DEFINE A == [o EXCEPT !.rels = Append(@, sec)]
  <2>1. /\ DOMAIN A = Fields /\ A.maps = o.maps /\ A.progs = o.progs /\ A.rels = Append(o.rels, sec)
    BY <1>0 DEF Fields
  <2> HIDE DEF A
  <2>2. A.rels \in Seq(Range(image.secs))
    <3> HIDE DEF sec
    <3> QED
      BY <1>0, <2>1 DEF ReadShape
  <2> QED
    BY <2>1, <2>2 DEF ReadShape, A
<1>4. ASSUME NEW v
      PROVE  /\ ReadShape(image, [o EXCEPT !.version = v]) /\ ReadShape(image, [o EXCEPT !.maps_shndx = v])
             /\ ReadShape(image, [o EXCEPT !.btf = v]) /\ ReadShape(image, [o EXCEPT !.ext = v])
             /\ ReadShape(image, [o EXCEPT !.strtab = v])
  BY <1>0 DEF ReadShape, Fields
<1> HIDE DEF sec
<1>5. CASE o.err # "none"
  BY <1>5 DEF CollectSection
<1>6. CASE o.err = "none" /\ sec.kind = "version"
  BY <1>1, <1>4, <1>6, Zenon DEF CollectSection, Executable, sec
<1>7. CASE o.err = "none" /\ sec.kind = "maps"
  BY <1>4, <1>7, Zenon DEF CollectSection, Executable, sec
<1>8. CASE o.err = "none" /\ sec.kind = ".BTF"
  BY <1>4, <1>8, Zenon DEF CollectSection, Executable, sec
<1>9. CASE o.err = "none" /\ sec.kind = ".BTF.ext"
  BY <1>4, <1>9, Zenon DEF CollectSection, Executable, sec
<1>10. CASE o.err = "none" /\ sec.kind = "symtab"
  BY <1>1, <1>4, <1>10, Zenon DEF CollectSection, Executable, sec
<1>11. CASE o.err = "none" /\ sec.kind \in Executable
  BY <1>2, <1>11 DEF CollectSection, Executable, sec
<1>12. CASE o.err = "none" /\ sec.kind = "rel"
  BY <1>3, <1>12 DEF CollectSection, Executable, sec
<1>13. CASE /\ o.err = "none"
            /\ sec.kind \notin {"version", "maps", ".BTF", ".BTF.ext", "symtab", "rel"} \cup Executable
  BY <1>13 DEF CollectSection, Executable, sec
<1> QED
  BY <1>5, <1>6, <1>7, <1>8, <1>9, <1>10, <1>11, <1>12, <1>13

\* All rounds of elf_collect.
LEMMA CollectSectionsShape ==
    ASSUME NEW image, NEW btfLoads, image.secs \in Seq(Range(image.secs))
    PROVE  ReadShape(image, CollectSections(image, btfLoads))
<1> DEFINE n == Len(image.secs)
<1>1. n \in Nat /\ DOMAIN image.secs = 1 .. n
  OBVIOUS
<1> HIDE DEF n
<1>2. PICK r : /\ r[0] = Empty
               /\ \A i \in 1 .. n : r[i] = CollectSection(image, btfLoads, r[i - 1], i)
               /\ CollectSections(image, btfLoads) = r[n]
  BY <1>1, CollectSectionsRounds
<1> DEFINE D == {k \in Nat : k <= n => ReadShape(image, r[k])}
<1>3. 0 \in D
  <2>1. ReadShape(image, Empty)
    BY DEF ReadShape, Empty, Fields
  <2> QED
    BY <1>2, <2>1
<1>4. ASSUME NEW k \in Nat, k \in D PROVE k + 1 \in D
  <2> SUFFICES ASSUME k + 1 <= n PROVE ReadShape(image, r[k + 1])
    OBVIOUS
  <2>1. ReadShape(image, r[k]) /\ k + 1 \in 1 .. n
    BY <1>1, <1>4
  <2>2. r[k + 1] = CollectSection(image, btfLoads, r[k], k + 1)
    BY <1>2, <2>1
  <2> QED
    BY <1>1, <2>1, <2>2, CollectSectionShape
<1>5. n \in D
  <2> HIDE DEF D
  <2> QED
    BY <1>1, <1>3, <1>4, NatSetInduction
<1> QED
  BY <1>1, <1>2, <1>5

\* bpf_object__init_maps sets every descriptor to -1.
LEMMA InitMapsShape ==
    ASSUME NEW image, NEW strict, NEW o, ReadShape(image, o), image.syms \in Seq(Range(image.syms))
    PROVE  FoundShape(InitMaps(image, strict, o))
<1> DEFINE syms == SymbolsOf(image, o.maps_shndx)
           sorted == ByOffset(syms)
           Map(s) == [sym |-> s.name, offset |-> s.value, name |-> s.name, fd |-> -1]
           maps == [i \in DOMAIN sorted |-> Map(sorted[i])]
           Q == InitMaps(image, strict, o)
<1>1. FoundShape(o) /\ \A e : FoundShape(Failed(o, e))
  <2>1. IsSequence(o.progs) /\ IsSequence(o.rels) /\ IsSequence(o.maps) /\ DOMAIN o.maps = {}
    <3>1. Len(o.progs) \in Nat /\ DOMAIN o.progs = 1 .. Len(o.progs)
      BY DEF ReadShape
    <3>2. Len(o.rels) \in Nat /\ DOMAIN o.rels = 1 .. Len(o.rels)
      BY DEF ReadShape
    <3>3. DOMAIN o.maps = 1 .. 0 /\ DOMAIN o.maps = {}
      BY DEF ReadShape
    <3> QED
      BY <3>1, <3>2, <3>3 DEF IsSequence
  <2>2. DOMAIN o = Fields
    BY DEF ReadShape
  <2> QED
    BY <2>1, <2>2 DEF FoundShape, Failed, Fields
<1>2. Len(syms) \in Nat
  BY DEF SymbolsOf
<1>3. DOMAIN sorted = 1 .. Len(syms)
  BY DEF ByOffset
<1> HIDE DEF sorted, syms
<1>4. FoundShape([o EXCEPT !.maps = maps])
  <2> DEFINE A == [o EXCEPT !.maps = maps]
  <2>1. IsSequence(maps)
    BY <1>2, <1>3 DEF IsSequence
  <2>2. \A i \in DOMAIN maps :
           /\ {"fd", "name", "sym"} \subseteq DOMAIN maps[i]
           /\ maps[i].fd = -1 /\ maps[i].name = maps[i].sym
    OBVIOUS
  <2> HIDE DEF maps
  <2>3. DOMAIN A = Fields /\ A.maps = maps /\ A.progs = o.progs /\ A.rels = o.rels
    BY DEF ReadShape, Fields
  <2> HIDE DEF A
  <2> QED
    BY <1>1, <2>1, <2>2, <2>3 DEF FoundShape, A
<1>5. Q = o \/ (\E e : Q = Failed(o, e)) \/ Q = [o EXCEPT !.maps = maps]
  BY Zenon DEF InitMaps, sorted, syms
<1> HIDE DEF Q, maps
<1> QED
  BY <1>1, <1>4, <1>5 DEF Q

\* One round of bpf_object__collect_reloc.
LEMMA CollectRelocShape ==
    ASSUME NEW image, NEW o, FoundShape(o), NEW sec
    PROVE  FoundShape(CollectReloc(image, o, sec)) /\ CollectReloc(image, o, sec).rels = o.rels
<1> DEFINE Q == CollectReloc(image, o, sec)
           owner == {i \in DOMAIN o.progs : o.progs[i].idx = sec.link}
           pos   == CHOOSE i \in owner : TRUE
           descs == [r \in DOMAIN sec.rels |-> Relocation(image, o, o.progs[pos], sec.rels[r])]
           v     == o.pseudo \/ \E r \in DOMAIN descs : descs[r].type = "call"
           A     == [o EXCEPT !.progs[pos].rels = descs, !.pseudo = v]
<1>0. DOMAIN o = Fields
  BY DEF FoundShape
<1>1. \A e : FoundShape(Failed(o, e)) /\ Failed(o, e).rels = o.rels
  BY <1>0 DEF FoundShape, Failed, Fields
<1>2. Q = o \/ (\E e : Q = Failed(o, e)) \/ Q = A
  BY Zenon DEF CollectReloc
<1> HIDE DEF Q, owner, pos, descs, v
<1>3. FoundShape(A) /\ A.rels = o.rels
  <2>1. /\ DOMAIN A = Fields /\ A.maps = o.maps /\ A.rels = o.rels
        /\ A.progs = [o.progs EXCEPT ![pos].rels = descs]
    BY <1>0 DEF Fields
  <2> HIDE DEF A
  <2>2. DOMAIN A.progs = DOMAIN o.progs
    BY <2>1
  <2> QED
    BY <2>1, <2>2 DEF FoundShape, IsSequence
<1> HIDE DEF A
<1> QED
  BY <1>1, <1>2, <1>3 DEF Q

\* All rounds of bpf_object__collect_reloc.
LEMMA CollectRelocsShape ==
    ASSUME NEW image, NEW o, FoundShape(o)
    PROVE  FoundShape(CollectRelocs(image, o))
<1>1. PICK n \in Nat : DOMAIN o.rels = 1 .. n
  BY DEF FoundShape, IsSequence
<1>2. PICK r : /\ r[0] = o
               /\ \A i \in 1 .. n : r[i] = CollectReloc(image, r[i - 1], o.rels[i])
               /\ CollectRelocs(image, o) = r[n]
  BY <1>1, CollectRelocsRounds
<1> DEFINE D == {k \in Nat : k <= n => FoundShape(r[k])}
<1>3. 0 \in D
  BY <1>2
<1>4. ASSUME NEW k \in Nat, k \in D PROVE k + 1 \in D
  <2> SUFFICES ASSUME k + 1 <= n PROVE FoundShape(r[k + 1])
    OBVIOUS
  <2>1. FoundShape(r[k]) /\ k + 1 \in 1 .. n
    BY <1>4
  <2>2. r[k + 1] = CollectReloc(image, r[k], o.rels[k + 1])
    BY <1>2, <2>1
  <2> QED
    BY <2>1, <2>2, CollectRelocShape
<1>5. n \in D
  <2> HIDE DEF D
  <2> QED
    BY <1>3, <1>4, NatSetInduction
<1> QED
  BY <1>2, <1>5

\* __bpf_object__open gives sequences of maps without descriptors and programs.
LEMMA OpenedShape ==
    ASSUME NEW f \in Files, NEW btfLoads \in BOOLEAN
    PROVE  FoundShape(Opened[f][btfLoads])
<1> DEFINE image == ImageOf[f]
           A == CollectSections(image, btfLoads)
           B == CheckCollected(image, A)
           C == InitMaps(image, TRUE, B)
           E == InitProgNames(image, C)
           R == CollectRelocs(image, E)
<1>0. image.secs \in Seq(Range(image.secs)) /\ image.syms \in Seq(Range(image.syms))
  BY ObjectAssumption
<1>1. Opened[f][btfLoads] = OpenImage(image, FALSE, TRUE, btfLoads)
  BY DEF Opened
<1> HIDE DEF image
<1>2. ReadShape(image, A)
  BY <1>0, CollectSectionsShape
<1> HIDE DEF A
<1>3. ReadShape(image, B)
  <2>1. DOMAIN A = Fields
    BY <1>2 DEF ReadShape
  <2> QED
    BY <1>2, <2>1 DEF ReadShape, CheckCollected, Failed, Fields
<1> HIDE DEF B
<1>4. FoundShape(C)
  BY <1>0, <1>3, InitMapsShape, Zenon
<1> HIDE DEF C
<1>5. FoundShape(E)
  <2>1. DOMAIN C = Fields
    BY <1>4 DEF FoundShape
  <2>2. \A e : FoundShape(Failed(C, e))
    BY <1>4, <2>1 DEF FoundShape, Failed, Fields
  <2>3. ASSUME NEW names, DOMAIN names = DOMAIN C.progs
        PROVE  FoundShape([C EXCEPT !.progs = names])
    BY <1>4, <2>1, <2>3 DEF FoundShape, IsSequence, Fields
  <2>4. \/ E = C \/ (\E e : E = Failed(C, e))
        \/ \E names : DOMAIN names = DOMAIN C.progs /\ E = [C EXCEPT !.progs = names]
    BY Zenon DEF InitProgNames
  <2> HIDE DEF E
  <2> QED
    BY <1>4, <2>2, <2>3, <2>4
<1> HIDE DEF E
<1>6. FoundShape(R)
  BY <1>5, CollectRelocsShape
<1> HIDE DEF R
<1>7. FoundShape(Empty) /\ \A e : FoundShape(Failed(Empty, e))
  <2>1. DOMAIN Empty = Fields /\ Empty.progs = <<>> /\ Empty.rels = <<>> /\ Empty.maps = <<>>
    BY DEF Empty, Fields
  <2>2. IsSequence(<<>>) /\ DOMAIN <<>> = {}
    <3>1. DOMAIN <<>> = 1 .. 0 /\ 1 .. 0 = {}
      OBVIOUS
    <3> QED
      BY <3>1 DEF IsSequence
  <2> HIDE DEF Empty
  <2>3. FoundShape(Empty)
    BY <2>1, <2>2 DEF FoundShape
  <2> QED
    BY <2>1, <2>3 DEF FoundShape, Failed, Fields
<1>8. \A e : FoundShape(Failed(R, e))
  BY <1>6 DEF FoundShape, Failed, Fields
<1>9. FoundShape(Validate(R, FALSE))
  BY <1>6, <1>8 DEF Validate
<1>10. /\ FoundShape(ElfInit(image)) /\ FoundShape(CheckEndianness(image))
  BY <1>7 DEF ElfInit, CheckEndianness
<1>11. R = CollectRelocs(image, ElfCollect(image, TRUE, btfLoads))
  BY DEF R, E, C, B, A, ElfCollect
<1> QED
  BY <1>1, <1>9, <1>10, <1>11, Zenon DEF OpenImage

(***************************************************************************)
(* Opening.                                                                *)
(***************************************************************************)
\* There is a number for the file and another one for the type data.
LEMMA TwoFreeFacts ==
    ASSUME NEW P, Shape(P), TwoFree(P)
    PROVE  /\ ~Full(P)
           /\ ~Full(NewFd(P, OwnFile)) /\ Shape(NewFd(P, OwnFile))
           /\ Lowest(NewFd(P, OwnFile)) \in Free(P) \ {Lowest(P)}
<1> DEFINE e == NewFd(P, OwnFile)
           m == Lowest(P)
<1>1. Free(P) # {}
  BY DEF TwoFree
<1>2. ~Full(P) /\ m \in Fds /\ P.fds[m] = Nothing
  BY <1>1, LowestFree DEF Full
<1>3. e.fds = [P.fds EXCEPT ![m] = OwnFile] /\ Shape(e)
  BY NewFdFields DEF Shape
<1>4. PICK x \in Free(P) : x # m
  BY DEF TwoFree
<1> HIDE DEF e, m
<1>5. x \in Free(e)
  BY <1>3, <1>4 DEF Free, Shape
<1>6. Lowest(e) \in Fds /\ e.fds[Lowest(e)] = Nothing /\ ~Full(e)
  BY <1>3, <1>5, LowestFree, Zenon DEF Full
<1>7. Lowest(e) \in Free(P) \ {m}
  BY <1>2, <1>3, <1>6, Kinds DEF Free, Shape
<1> QED
  BY <1>2, <1>3, <1>6, <1>7 DEF e, m

\* bpf_object__open.
LEMMA OpenInv ==
    ASSUME NEW P, ProcInv(P), ~IsOpen(P), TwoFree(P),
           NEW f \in Files, NEW btfLoads \in BOOLEAN
    PROVE  LET Q == OpenObject(P, f, btfLoads, "none") IN
           /\ ProcInv(Q) /\ ~Q.obj.loaded
           /\ Q.ret \in {"ok", "failed", "stray"}
           /\ Q.ret = "ok" => Opened[f][btfLoads].err = "none"
           /\ Q.ret = "ok" => IsOpen(Q) /\ Q.obj.maps = Opened[f][btfLoads].maps
<1> DEFINE o == Opened[f][btfLoads]
           Q == OpenObject(P, f, btfLoads, "none")
           e == NewFd(P, OwnFile)
           b == IF o.btf THEN NewFd(e, BtfData) ELSE e
           C == CloseFds(b, {Lowest(P)})
           x == Lowest(e)
           obj == [file |-> f, loaded |-> FALSE, btf_fd |-> IF o.btf THEN x ELSE -1,
                   maps |-> o.maps, inst |-> [i \in DOMAIN o.progs |-> <<>>],
                   prep |-> [i \in DOMAIN o.progs |-> FALSE],
                   prog_btf |-> [i \in DOMAIN o.progs |-> -1]]
<1>0. /\ Core(P) /\ Shape(P) /\ P.obj = NoObject
      /\ DOMAIN P = {"fds", "user", "obj", "opens", "ret", "copied"} /\ -1 \notin Fds
  BY FdNumbers, Zenon DEF ProcInv, Core, Shape
<1>1. FoundShape(o)
  BY OpenedShape
<1> HIDE DEF o
<1>2. CASE o.err # "none"
  <2>1. PICK ret \in {"failed", "stray"} : Q = Returns(P, ret)
    BY <1>2 DEF OpenObject, OpenAs, o
  <2> HIDE DEF Q
  <2>2. ProcInv(Q) /\ Q.ret = ret /\ Q.obj = NoObject
    BY <1>0, <2>1, ReturnsAlike, AlikeInv DEF Alike
  <2> QED
    BY <2>2, NoObjectFacts DEF Q
<1>3. CASE o.err = "none"
  <2>1. Q = [C EXCEPT !.ret = "ok", !.opens = @ + 1, !.obj = obj]
    BY <1>3 DEF OpenObject, OpenAs, o
  <2>2. Lowest(P) \in Fds /\ P.fds[Lowest(P)] = Nothing
    BY <1>0, TwoFreeFacts, LowestFree
  <2>3. x \in Fds /\ P.fds[x] = Nothing /\ x # Lowest(P) /\ Shape(e)
    BY <1>0, TwoFreeFacts DEF Free
  <2>4. /\ DOMAIN e = DOMAIN P /\ e.user = P.user /\ e.copied = P.copied
        /\ e.fds = [P.fds EXCEPT ![Lowest(P)] = OwnFile]
    BY <1>0, NewFdFields
  <2>5. /\ DOMAIN NewFd(e, BtfData) = DOMAIN e /\ NewFd(e, BtfData).user = e.user
        /\ NewFd(e, BtfData).copied = e.copied
        /\ NewFd(e, BtfData).fds = [e.fds EXCEPT ![x] = BtfData]
    BY <2>3, NewFdFields
  <2> HIDE DEF e, x
  <2>6. /\ DOMAIN b = DOMAIN P /\ b.user = P.user /\ b.copied = P.copied
        /\ b.fds = IF o.btf THEN [e.fds EXCEPT ![x] = BtfData] ELSE e.fds
    BY <2>4, <2>5
  <2> HIDE DEF b
  <2>7. /\ DOMAIN C = DOMAIN P /\ C.user = P.user /\ C.copied = P.copied
        /\ C.fds = [n \in Fds |-> IF n \in {Lowest(P)} THEN Nothing ELSE b.fds[n]]
    <3>1. DOMAIN b = {"fds", "user", "obj", "opens", "ret", "copied"}
      BY <1>0, <2>6
    <3>2. /\ DOMAIN C = DOMAIN b /\ C.user = b.user /\ C.copied = b.copied
          /\ C.fds = [n \in Fds |-> IF n \in {Lowest(P)} THEN Nothing ELSE b.fds[n]]
      BY <3>1, CloseFdsFields
    <3> QED
      BY <2>6, <3>2
  <2> HIDE DEF C, Q, obj
  <2>8. /\ DOMAIN Q = DOMAIN P /\ Q.user = P.user /\ Q.copied = P.copied /\ Q.fds = C.fds
        /\ Q.obj = obj /\ Q.ret = "ok"
    BY <1>0, <2>1, <2>7
  <2>9. \A n \in Fds : Q.fds[n] = IF o.btf /\ n = x THEN BtfData ELSE P.fds[n]
    <3>1. \A n \in Fds : e.fds[n] = IF n = Lowest(P) THEN OwnFile ELSE P.fds[n]
      BY <1>0, <2>4 DEF Shape
    <3>2. \A n \in Fds : b.fds[n] = IF o.btf /\ n = x THEN BtfData ELSE e.fds[n]
      BY <1>0, <2>4, <2>6 DEF Shape
    <3>3. \A n \in Fds : Q.fds[n] = IF n = Lowest(P) THEN Nothing ELSE b.fds[n]
      BY <2>7, <2>8
    <3> QED
      BY <2>2, <2>3, <3>1, <3>2, <3>3
  <2>10. /\ ObjectShape(obj) /\ obj.file = f /\ obj.loaded = FALSE /\ obj.maps = o.maps
         /\ obj.btf_fd = IF o.btf THEN x ELSE -1
         /\ \A n \in Fds : ~IsMapFd(obj, n) /\ ~IsProgFd(obj, n)
         /\ \A i \in DOMAIN obj.prog_btf : obj.prog_btf[i] = -1
    <3>1. /\ DOMAIN obj = {"file", "loaded", "btf_fd", "maps", "inst", "prep", "prog_btf"}
          /\ obj.file = f /\ obj.loaded = FALSE /\ obj.btf_fd = IF o.btf THEN x ELSE -1
          /\ obj.maps = o.maps /\ obj.inst = [i \in DOMAIN o.progs |-> <<>>]
          /\ obj.prog_btf = [i \in DOMAIN o.progs |-> -1]
      BY DEF obj
    <3>2. \A i \in DOMAIN obj.inst : DOMAIN obj.inst[i] = 1 .. 0 /\ 1 .. 0 = {}
      BY <3>1
    <3>3. IsSequence(obj.maps) /\ IsSequence(obj.inst) /\ \A i \in DOMAIN obj.inst : IsSequence(obj.inst[i])
      <4>1. \A i \in DOMAIN obj.inst : IsSequence(obj.inst[i])
        BY <3>2, Zenon DEF IsSequence
      <4>2. DOMAIN obj.inst = DOMAIN o.progs
        BY <3>1
      <4> QED
        BY <1>1, <3>1, <4>1, <4>2 DEF FoundShape, IsSequence
    <3>4. \A i \in DOMAIN obj.maps : {"fd", "name", "sym"} \subseteq DOMAIN obj.maps[i] /\ obj.maps[i].fd = -1
      BY <1>1, <3>1 DEF FoundShape
    <3>5. ObjectShape(obj)
      BY <2>3, <3>1, <3>2, <3>3, <3>4 DEF ObjectShape, Number, NoObject
    <3>6. \A n \in Fds : ~IsMapFd(obj, n) /\ ~IsProgFd(obj, n)
      BY <1>0, <3>2, <3>4 DEF IsMapFd, IsProgFd
    <3> QED
      BY <3>1, <3>5, <3>6
  <2>11. Shape(Q)
    BY <1>0, <2>7, <2>8, <2>10 DEF Shape
  <2>12. IsOpen(Q)
    BY <2>8, <2>10, ObjectAssumption DEF IsOpen
  <2>13. Known(Q)
    <3>1. Held(P) = {}
      BY <1>0, NoObjectFacts DEF Core, Known, Held
    <3>2. \A n \in Held(Q) : o.btf /\ n = x
      BY <2>8, <2>9, <3>1 DEF Held
    <3> QED
      BY <2>8, <2>10, <3>2 DEF Known, Knows
  <2>14. ASSUME ~Q.copied PROVE Clean(Q)
    <3>1. Clean(P)
      BY <1>0, <2>8, <2>14 DEF Core
    <3>2. P.user[x] = Nothing
      BY <2>3, <3>1 DEF Clean
    <3>3. \A n \in Fds : Q.user[n] # Nothing => Q.fds[n] = Q.user[n]
      BY <2>8, <2>9, <3>1, <3>2 DEF Clean
    <3>4. \A n \in Fds : Knows(Q.obj, n) => o.btf /\ n = x
      BY <1>0, <2>8, <2>10 DEF Knows
    <3>5. Apart(Q.obj)
      BY <2>8, <2>10 DEF Apart, IsMapFd
    <3>6. \A n \in Fds : Knows(Q.obj, n) => Q.fds[n] # Nothing /\ Q.user[n] = Nothing
      BY <2>8, <2>9, <3>2, <3>4, Kinds
    <3> QED
      BY <2>8, <2>10, <3>3, <3>5, <3>6 DEF Clean
  <2>15. Blank(Q.obj)
    BY <2>8, <2>10 DEF Blank
  <2>16. ProcInv(Q)
    BY <2>11, <2>12, <2>13, <2>14, <2>15 DEF ProcInv, Core
  <2> QED
    BY <1>3, <2>8, <2>10, <2>12, <2>16 DEF Q, o
<1> QED
  BY <1>2, <1>3

\* A process starts without an object.
LEMMA NewProcessInv == ProcInv(NewProcess) /\ NewProcess.obj = NoObject
<1> DEFINE P == NewProcess
<1>1. /\ DOMAIN P = {"fds", "user", "obj", "opens", "ret", "copied"} /\ P.obj = NoObject
      /\ P.fds = [n \in Fds |-> IF n = 0 THEN OwnFile ELSE Nothing]
      /\ P.user = [n \in Fds |-> IF n = 0 THEN OwnFile ELSE Nothing]
  BY DEF NewProcess
<1> HIDE DEF P
<1>2. Shape(P) /\ Held(P) = {}
  BY <1>1, NoObjectFacts, Kinds DEF Shape, Held
<1>3. Clean(P)
  BY <1>1, NoObjectFacts DEF Clean
<1>4. ProcInv(P)
  BY <1>1, <1>2, <1>3, NoObjectFacts DEF ProcInv, Core, Known
<1> QED
  BY <1>1, <1>4 DEF P

\* A process that dies leaves nothing.
LEMMA DeadInv == ASSUME NEW P PROVE ProcInv(Dead(P)) /\ Dead(P).obj = NoObject
<1>1. Shape(NewProcess) /\ NewProcess.obj = NoObject
  BY NewProcessInv DEF ProcInv, Core
<1>2. Alike(NewProcess, Dead(P))
  BY <1>1 DEF Alike, Dead, Shape
<1> QED
  BY <1>1, <1>2, NewProcessInv, AlikeInv DEF Alike

\* bpf_prog_load_xattr.
LEMMA ProgLoadInv ==
    ASSUME NEW p, NEW P, ProcInv(P), ~IsOpen(P), TwoFree(P),
           NEW f \in Files, NEW btfLoads \in BOOLEAN, NEW bad
    PROVE  /\ ProcInv(ProgLoadXattr(p, P, f, btfLoads, bad))
           /\ Released(P, ProgLoadXattr(p, P, f, btfLoads, bad))
<1> DEFINE A == OpenObject(P, f, btfLoads, "none")
           B == IF bad = <<"type">> \/ NoProgram(A, Elf(A)) THEN Returns(A, "failed")
                ELSE LoadObject(p, A, bad, {})
           Q == ProgLoadXattr(p, P, f, btfLoads, bad)
<1>1. /\ ProcInv(A) /\ (A.ret = "ok" => IsOpen(A)) /\ ~A.obj.loaded
      /\ A.ret \in {"ok", "failed", "stray"}
  BY OpenInv, Zenon
<1>2. Q = IF A.ret = "failed" THEN A ELSE IF A.ret = "stray" THEN Dead(A) ELSE CloseFailed(B)
  BY DEF ProgLoadXattr, LoadOpened
<1> HIDE DEF A, Q
<1>3. CASE A.ret = "failed"
  BY <1>1, <1>2, <1>3 DEF Released, Q
<1>4. CASE A.ret = "ok"
  <2>1. ProcInv(Returns(A, "failed")) /\ IsOpen(Returns(A, "failed"))
    <3>1. Alike(A, Returns(A, "failed"))
      BY <1>1, ReturnsAlike DEF ProcInv, Core
    <3> QED
      BY <1>1, <1>4, <3>1, AlikeInv DEF Alike, IsOpen
  <2>2. ProcInv(LoadObject(p, A, bad, {})) /\ IsOpen(LoadObject(p, A, bad, {}))
    BY <1>1, <1>4, LoadObjectInv
  <2>3. ProcInv(B) /\ IsOpen(B)
    BY <2>1, <2>2
  <2> HIDE DEF B
  <2>4. ProcInv(CloseObject(B)) /\ ~CloseObject(B).obj.loaded
    BY <2>3, CloseObjectInv DEF ProcInv
  <2>5. ProcInv(Returns(CloseObject(B), "failed")) /\ ~Returns(CloseObject(B), "failed").obj.loaded
    BY <2>4, ReturnsAlike, AlikeInv, SMTT(20) DEF ProcInv, Core, Alike
  <2> QED
    BY <1>2, <1>4, <2>3, <2>5 DEF CloseFailed, Released, Q
<1>5. CASE A.ret = "stray"
  BY <1>2, <1>5, DeadInv, NoObjectFacts DEF Released, Q
<1> QED
  BY <1>1, <1>3, <1>4, <1>5

(***************************************************************************)
(* The theorems.                                                           *)
(***************************************************************************)
\* All processes start without an object.
LEMMA ObjectStart == OInit => ObjectInv
<1> SUFFICES ASSUME OInit, NEW p \in Procs PROVE ProcInv(proc[p])
  BY DEF OInit, ObjectInv, Range
<1> QED
  BY NewProcessInv DEF OInit

\* Every process's failed load releases what it opened.
AllReleased == \A p \in Procs : Released(proc[p], proc'[p])

\* Every call of every process.
LEMMA ObjectStep == ObjectInv /\ [ONext]_ovars => ObjectInv' /\ AllReleased
<1> SUFFICES ASSUME ObjectInv, [ONext]_ovars PROVE ObjectInv' /\ AllReleased
  OBVIOUS
<1>1. CASE UNCHANGED ovars
  BY <1>1 DEF ObjectInv, AllReleased, Released, ovars
<1>2. ASSUME NEW p \in Procs, Calls(p) PROVE ObjectInv' /\ AllReleased
  <2> DEFINE P == proc[p]
  <2>0. ProcInv(P) /\ Core(P) /\ Shape(P) /\ (~IsOpen(P) => P.obj = NoObject)
    BY DEF ObjectInv, ProcInv, Core
  <2>1. ASSUME NEW Q, Becomes(p, Q), ProcInv(Q), Released(P, Q)
        PROVE  ObjectInv' /\ AllReleased
    <3>1. proc' = [proc EXCEPT ![p] = Q]
      BY <2>1 DEF Becomes
    <3>2. proc'[p] = Q /\ \A q \in Procs : q # p => proc'[q] = proc[q]
      BY <3>1 DEF ObjectInv
    <3>3. ObjectInv'
      BY <2>1, <3>1, <3>2 DEF ObjectInv, Range
    <3>4. \A q \in Procs : Released(proc[q], proc'[q])
      BY <2>1, <3>2 DEF Released
    <3> QED
      BY <3>3, <3>4 DEF AllReleased
  <2>2. ASSUME NEW r, Returned(p, r) PROVE ObjectInv' /\ AllReleased
    <3> DEFINE Q == Returns(P, IF r.ok THEN "ok" ELSE "failed")
    <3>1. proc' = [proc EXCEPT ![p] = Q]
      BY <2>2 DEF Returned, ObjectInv
    <3>2. ProcInv(Q) /\ Q.obj = P.obj
      <4>1. Alike(P, Q)
        BY <2>0, ReturnsAlike
      <4> HIDE DEF Q, P
      <4> QED
        BY <2>0, <4>1, AlikeInv DEF Alike
    <3> HIDE DEF Q
    <3>3. proc'[p] = Q /\ \A q \in Procs : q # p => proc'[q] = proc[q]
      BY <3>1 DEF ObjectInv
    <3>4. ObjectInv'
      BY <3>1, <3>2, <3>3 DEF ObjectInv, Range
    <3>5. \A q \in Procs : Released(proc[q], proc'[q])
      BY <3>2, <3>3 DEF Released
    <3> QED
      BY <3>4, <3>5 DEF AllReleased
  <2>3. CASE Open(p)
    BY <2>0, <2>1, <2>3, OpenInv DEF Open, Released
  <2>4. CASE ProgLoad(p)
    BY <2>0, <2>1, <2>4, ProgLoadInv DEF ProgLoad
  <2>5. CASE Reuse(p)
    <3>1. PICK i \in DOMAIN P.obj.maps, n \in Fds : Becomes(p, ReuseFd(P, i, n, "none"))
      BY <2>5, Zenon DEF Reuse
    <3>2. IsOpen(P)
      <4>1. DOMAIN NoObject.maps = {}
        BY DEF NoObject
      <4> QED
        BY <2>0, <3>1, <4>1, Zenon
    <3>3. ProcInv(ReuseFd(P, i, n, "none")) /\ Released(P, ReuseFd(P, i, n, "none"))
      BY <2>0, <3>1, <3>2, ReuseFdInv
    <3> QED
      BY <2>1, <3>1, <3>3
  <2>6. CASE Prep(p)
    <3>1. PICK i \in Range(Programs(P)), nr \in Instances : Becomes(p, SetPrep(P, i, nr))
      BY <2>6 DEF Prep
    <3>2. IsOpen(P) /\ nr \in Nat
      BY <2>6, ObjectAssumption DEF Prep
    <3>3. ProcInv(SetPrep(P, i, nr)) /\ Released(P, SetPrep(P, i, nr))
      BY <2>0, <3>2, SetPrepInv
    <3> QED
      BY <2>1, <3>1, <3>3
  <2>7. CASE Load(p)
    <3>1. PICK bad, skip : Becomes(p, LoadObject(p, P, bad, skip))
      BY <2>7 DEF Load
    <3>2. IsOpen(P)
      BY <2>7 DEF Load
    <3> QED
      BY <2>0, <2>1, <3>1, <3>2, LoadObjectInv, Zenon
  <2>8. CASE UnloadCall(p)
    <3>1. Becomes(p, Unload(P)) /\ IsOpen(P)
      BY <2>8 DEF UnloadCall
    <3>2. ProcInv(Unload(P)) /\ Released(P, Unload(P))
      BY <2>0, <3>1, UnloadCore, UnloadFields, Zenon DEF ProcInv, Released
    <3> QED
      BY <2>1, <3>1, <3>2
  <2>9. CASE Close(p)
    <3>1. Becomes(p, CloseObject(P)) /\ IsOpen(P)
      BY <2>9 DEF Close
    <3> QED
      BY <2>0, <2>1, <3>1, CloseObjectInv DEF Released
  <2>10. CASE Pin(p)
    BY <2>2, <2>10 DEF Pin
  <2>11. CASE Unpin(p)
    BY <2>2, <2>11 DEF Unpin
  <2>12. ASSUME NEW r, r # Nothing, Own(p, r) PROVE ObjectInv' /\ AllReleased
    <3>1. ~Full(P) /\ Becomes(p, [NewFd(P, r) EXCEPT !.user[Lowest(P)] = r])
      BY <2>12 DEF Own
    <3>2. /\ ProcInv([NewFd(P, r) EXCEPT !.user[Lowest(P)] = r])
          /\ Released(P, [NewFd(P, r) EXCEPT !.user[Lowest(P)] = r])
      BY <2>0, <2>12, <3>1, OwnInv
    <3> QED
      BY <2>1, <3>1, <3>2
  <2>13. CASE OpenOwn(p)
    BY <2>12, <2>13, Kinds DEF OpenOwn
  <2>14. CASE GetPinned(p)
    BY <2>12, <2>14, Kinds DEF GetPinned, IsMap
  <2>15. CASE CloseOwn(p)
    <3>1. PICK n \in Fds : /\ P.user[n] # Nothing
                           /\ Becomes(p, [CloseFds(P, {n}) EXCEPT !.user[n] = Nothing])
      BY <2>15, Zenon DEF CloseOwn
    <3>2. /\ ProcInv([CloseFds(P, {n}) EXCEPT !.user[n] = Nothing])
          /\ Released(P, [CloseFds(P, {n}) EXCEPT !.user[n] = Nothing])
      BY <2>0, <3>1, CloseOwnInv
    <3> QED
      BY <2>1, <3>1, <3>2
  <2>16. CASE UseStray(p)
    BY <2>1, <2>16, DeadInv, NoObjectFacts DEF UseStray, Released
  <2> QED
    BY <1>2, <2>3, <2>4, <2>5, <2>6, <2>7, <2>8, <2>9, <2>10, <2>11, <2>13, <2>14, <2>15, <2>16
    DEF Calls
<1> QED
  BY <1>1, <1>2 DEF ONext

\* In every reachable state every process's table and object agree: what the
\* library opened is known to the object, and until a program is given a copy
\* of the BTF descriptor's number no number stands for two things.
THEOREM ObjectSafe == OSpec => []ObjectInv
<1>1. ObjectInv /\ [ONext]_ovars => ObjectInv'
  BY ObjectStep
<1> QED
  BY <1>1, ObjectStart, PTL DEF OSpec

\* What the object knows it knows by a map, a program or its BTF.
LEMMA ObjectKnows == ObjectInv => NothingLost
<1> SUFFICES ASSUME ObjectInv, NEW p \in Procs, NEW n \in Held(proc[p])
             PROVE  n \in MapFds(proc[p]) \cup ProgFds(proc[p]) \cup {proc[p].obj.btf_fd}
  BY DEF NothingLost
<1>1. Shape(proc[p]) /\ Knows(proc[p].obj, n) /\ n \in Fds
  BY DEF ObjectInv, ProcInv, Core, Known, Held
<1> QED
  BY <1>1, UnloadCloses DEF Knows

\* No failed load, replaced descriptor, unload or close loses a map, program or
\* BTF descriptor that the library opened, for any files, any limit on
\* descriptors and any order of the calls.
THEOREM NothingLostTheorem == OSpec => []NothingLost
  BY ObjectKnows, ObjectSafe, PTL

\* Without a copy of the BTF descriptor's number, no call of the library closes
\* a descriptor of the application.
THEOREM ForeignTheorem == OSpec => []ForeignUntouchedWithoutBtf
<1>1. ObjectInv => ForeignUntouchedWithoutBtf
  BY DEF ObjectInv, ProcInv, Core, Clean, ForeignUntouchedWithoutBtf
<1> QED
  BY <1>1, ObjectSafe, PTL

\* A bpf_object__load that fails, at whatever system call, leaves the process at
\* most the object's BTF descriptor: the failing half of LoadAllOrNothing.
THEOREM FailedLoadReleases == OSpec => [][AllReleased]_ovars
  BY ObjectSafe, ObjectStep, PTL DEF OSpec
=============================================================================
