------------------------------ MODULE BpfObject ------------------------------
(***************************************************************************)
(* A process that uses a bpf_object of libbpf: it opens an object file,    *)
(* may give some of its maps descriptors of its own or several instances   *)
(* to its programs, loads it, pins and unpins it, unloads and closes it,   *)
(* in any order, and opens and closes descriptors of its own in between.   *)
(*                                                                         *)
(* Descriptors are numbers, the kernel gives out the lowest free one, and  *)
(* closing a number closes whatever it stands for at that moment; this is  *)
(* what the -1 of the code is there for.  A call is one step; `bad` names  *)
(* the system call of it that the kernel refuses, if one is.               *)
(***************************************************************************)
EXTENDS BpfElf, FiniteSetsExt

CONSTANTS
    Procs,
    Files,          \* names of object files
    ImageOf,        \* what each of them contains
    KernelName,     \* a map's name as the kernel keeps it (15 characters)
    MaxFd,          \* RLIMIT_NOFILE, less one
    MaxOpens,       \* calls of bpf_object__open in one process
    MaxOwn,         \* descriptors the application opens itself
    Shared,         \* maps that another program may have pinned before
    Instances       \* what bpf_program__set_prep may ask for

\* "none" is the file of no object, the sections and symbols of a file are
\* numbered from 1.
ASSUME ObjectAssumption ==
    /\ MaxFd \in Nat /\ "none" \notin Files
    /\ \A f \in Files : ImageOf[f].secs \in Seq(Range(ImageOf[f].secs))
    /\ \A f \in Files : ImageOf[f].syms \in Seq(Range(ImageOf[f].syms))
    /\ Instances \subseteq Nat

VARIABLES
    proc,           \* proc[p]: descriptor table and object of process p
    pins,           \* the BPF file system: path -> what is pinned there
    dirs            \* its directories that hold a program's instances

ovars == <<proc, pins, dirs>>

Fds == 0 .. MaxFd

\* What a descriptor or a path stands for.
Resource(kind, id, name, uses) == [kind |-> kind, id |-> id, name |-> name, uses |-> uses]

Nothing  == Resource("none", <<>>, "", <<>>)
OwnFile  == Resource("file", <<>>, "", <<>>)
BtfData  == Resource("btf", <<>>, "", <<>>)

IsMap(r) == r.kind = "map"

NoObject == [file |-> "none", loaded |-> FALSE, btf_fd |-> -1, maps |-> <<>>,
             inst |-> <<>>, prep |-> <<>>, prog_btf |-> <<>>]

IsOpen(P) == P.obj.file # "none"

NewProcess ==
    [fds |-> [n \in Fds |-> IF n = 0 THEN OwnFile ELSE Nothing],
     user |-> [n \in Fds |-> IF n = 0 THEN OwnFile ELSE Nothing],
     obj |-> NoObject, opens |-> 0, ret |-> "ok", copied |-> FALSE]

\* A process that dies is replaced by one that has nothing open.
Dead(P) == [NewProcess EXCEPT !.opens = P.opens]

\* What libbpf reads from each file, with and without its types; opening does
\* not depend on anything that changes.
Opened == [f \in Files |-> [btfLoads \in BOOLEAN |-> OpenImage(ImageOf[f], FALSE, TRUE, btfLoads)]]

Elf(P) == Opened[P.obj.file][P.obj.btf_fd >= 0]

(***************************************************************************)
(* Descriptors.                                                            *)
(***************************************************************************)
Free(P) == {n \in Fds : P.fds[n] = Nothing}

Full(P) == Free(P) = {}

Lowest(P) == CHOOSE n \in Free(P) : \A m \in Free(P) : n <= m

NewFd(P, r) == [P EXCEPT !.fds[Lowest(P)] = r]

\* zclose and close, for a set of numbers.
CloseFds(P, S) == [P EXCEPT !.fds = [n \in Fds |-> IF n \in S THEN Nothing ELSE @[n]]]

Returns(P, ret) == [P EXCEPT !.ret = ret]

(***************************************************************************)
(* Opening, bpf_map__reuse_fd, bpf_program__set_prep.                      *)
(***************************************************************************)
\* A refused file leaves nothing behind, except when elf_begin fails: then
\* bpf_object__elf_finish returns before it closes the file.  The positive error
\* of a file without a string table becomes a pointer that IS_ERR does not take
\* for an error: the caller gets a stray pointer.
OpenAs(P, f, o, bad) ==
    LET e == NewFd(P, OwnFile)
        b == IF o.btf THEN NewFd(e, BtfData) ELSE e
    IN IF bad = "elf_begin" THEN Returns(e, "failed")
       ELSE IF o.err = "+FORMAT" THEN Returns(P, "stray")
       ELSE IF o.err # "none" THEN Returns(P, "failed")
       ELSE [CloseFds(b, {Lowest(P)}) EXCEPT
               !.ret = "ok",
               !.opens = @ + 1,
               !.obj = [file |-> f, loaded |-> FALSE,
                        btf_fd |-> IF o.btf THEN Lowest(e) ELSE -1,
                        maps |-> o.maps,
                        inst |-> [i \in DOMAIN o.progs |-> <<>>],
                        prep |-> [i \in DOMAIN o.progs |-> FALSE],
                        prog_btf |-> [i \in DOMAIN o.progs |-> -1]]]

OpenObject(P, f, btfLoads, bad) == OpenAs(P, f, Opened[f][btfLoads], bad)

\* The faulty form of ReuseFd below: the old descriptor of the map is kept.
ReuseFd_NoClose(P, i, n, bad) ==
    LET new == NewFd(P, P.fds[n])
    IN IF ~IsMap(P.fds[n]) \/ Full(P) THEN Returns(P, "failed")
       ELSE Returns([new EXCEPT !.obj.maps[i].fd = Lowest(P)], "ok")

\* bpf_map__reuse_fd.  A failing dup3 loses the descriptor it should replace:
\* the code overwrites its number with the result.
ReuseFd(P, i, n, bad) ==
    LET new == NewFd(P, P.fds[n])
        old == P.obj.maps[i].fd
    IN IF ~IsMap(P.fds[n]) \/ Full(P) THEN Returns(P, "failed")
       ELSE IF bad = "dup3" THEN Returns(NewFd(P, OwnFile), "failed")
       ELSE IF old >= 0 /\ P.fds[old] = Nothing
       THEN Returns([P EXCEPT !.obj.maps[i].fd = -1], "failed")
       ELSE [CloseFds(new, {old}) EXCEPT !.ret = "ok",
                                         !.obj.maps[i].fd = Lowest(P),
                                         !.obj.maps[i].name = P.fds[n].name]

\* bpf_program__set_prep.
SetPrep(P, i, nr) ==
    IF P.obj.inst[i] # <<>> THEN Returns(P, "failed")
    ELSE [P EXCEPT !.ret = "ok", !.obj.prep[i] = TRUE,
                   !.obj.inst[i] = [j \in 1 .. nr |-> -1]]

(***************************************************************************)
(* Unloading, loading, closing.                                            *)
(***************************************************************************)
MapFds(P)  == {P.obj.maps[i].fd : i \in DOMAIN P.obj.maps}

ProgFds(P) == UNION {Range(P.obj.inst[i]) : i \in DOMAIN P.obj.inst}

\* bpf_object__unload with bpf_program__unload, which also closes the copy each
\* program has of the number of the object's BTF descriptor.
Unload(P) ==
    [CloseFds(P, MapFds(P) \cup ProgFds(P) \cup Range(P.obj.prog_btf)) EXCEPT
        !.ret = "ok",
        !.obj.maps = [i \in DOMAIN @ |-> [@[i] EXCEPT !.fd = -1]],
        !.obj.inst = [i \in DOMAIN @ |-> <<>>],
        !.obj.prog_btf = [i \in DOMAIN @ |-> -1]]

\* One round of bpf_object__create_maps: a map that already has a descriptor
\* is left alone, a failure closes the maps before it.
CreateMap(p, bad, P, i) ==
    LET map == P.obj.maps[i]
        res == Resource("map", <<p, P.opens>>, KernelName[map.name], <<>>)
        before == {P.obj.maps[j].fd : j \in 1 .. i - 1}
    IN IF P.ret = "failed" \/ map.fd >= 0 THEN P
       ELSE IF bad = <<"map", i>> \/ Full(P)
       THEN [CloseFds(P, before) EXCEPT
               !.ret = "failed",
               !.obj.maps = [j \in DOMAIN @ |-> IF j < i THEN [@[j] EXCEPT !.fd = -1] ELSE @[j]]]
       ELSE [NewFd(P, res) EXCEPT !.obj.maps[i].fd = Lowest(P)]

CreateMaps(p, P, bad) ==
    ForEach(LAMBDA q, i : CreateMap(p, bad, q, i), P, Len(P.obj.maps))

\* What the kernel makes of a program's instructions: the map behind each
\* descriptor they name, the position (from 0) each call goes to.  It refuses
\* a number that is not a map.
Code(pos) == Resource("code", <<pos>>, "", <<>>)

Refused(P, insns) ==
    \E k \in DOMAIN insns : insns[k].src = "map_fd" /\ ~(insns[k].imm \in Fds /\ IsMap(P.fds[insns[k].imm]))

KernelProgram(p, P, i, j, insns) ==
    LET Means(k) == CASE insns[k].src = "map_fd" -> P.fds[insns[k].imm]
                      [] insns[k].src = "pseudo_call" -> Code(k + insns[k].imm)
                      [] OTHER -> Nothing
    IN Resource("prog", <<p, P.opens, i, j>>, "", [k \in DOMAIN insns |-> Means(k)])

\* load_program for instance j of program i.
LoadProgram(p, insns, i, bad, skip, P, j) ==
    IF P.ret = "failed" \/ (P.obj.prep[i] /\ j \in skip) THEN P
    ELSE IF bad = <<"prog", i, j>> \/ Full(P) \/ Refused(P, insns) THEN Returns(P, "failed")
    ELSE [NewFd(P, KernelProgram(p, P, i, j, insns)) EXCEPT !.obj.inst[i][j] = Lowest(P)]

\* bpf_program__load: one instance, or those the preprocessor gives
\* instructions for.  Instances unloaded before they were loaded are gone,
\* and their preprocessor cannot run.
LoadInstances(p, elf, bad, skip, P, i) ==
    LET first == IF P.obj.inst[i] = <<>> THEN [P EXCEPT !.obj.inst[i] = <<-1>>] ELSE P
    IN IF P.ret = "failed" \/ IsFunctionStorage(elf, elf.progs[i]) THEN P
       ELSE IF P.obj.inst[i] = <<>> /\ P.obj.prep[i] THEN Returns(P, "failed")
       ELSE ForEach(LAMBDA q, j : LoadProgram(p, elf.progs[i].insns, i, bad, skip, q, j),
                    first, Len(first.obj.inst[i]))

\* bpf_object__probe_caps: a small program is loaded and closed again, which
\* takes a free descriptor; without one, or refused by the kernel, it fails.
ProbeCaps(P, bad) == IF bad = <<"probe">> \/ Full(P) THEN Returns(P, "failed") ELSE P

\* bpf_object__relocate and bpf_object__load_progs, with the relocated
\* programs `elf`.
LoadProgs(p, P, elf, bad, skip) ==
    LET told == [P EXCEPT
                    !.ret = IF elf.err = "none" THEN "ok" ELSE "failed",
                    !.obj.prog_btf = [i \in DOMAIN @ |-> IF elf.progs[i].btf THEN P.obj.btf_fd ELSE @[i]],
                    !.copied = @ \/ \E i \in DOMAIN P.obj.prog_btf : elf.progs[i].btf]
    IN IF P.ret = "failed" THEN P
       ELSE ForEach(LAMBDA q, i : LoadInstances(p, elf, bad, skip, q, i), told, Len(P.obj.inst))

LoadCreated(p, P, bad, skip) ==
    LoadProgs(p, P,
              Relocate(ImageOf[P.obj.file], Elf(P), [i \in DOMAIN P.obj.maps |-> P.obj.maps[i].fd]),
              bad, skip)

\* The label `out` of bpf_object__load.
UnloadFailed(P) == IF P.ret = "failed" THEN Returns(Unload(P), "failed") ELSE P

\* bpf_object__load: probe_caps, create_maps, relocate, load_progs, each
\* unless one before it failed; after a failure everything is unloaded, and
\* the object stays marked as loaded.
LoadObject(p, P, bad, skip) ==
    IF P.obj.loaded THEN Returns(P, "failed")
    ELSE UnloadFailed(LoadCreated(p,
            CreateMaps(p, ProbeCaps([P EXCEPT !.obj.loaded = TRUE, !.ret = "ok"], bad), bad),
            bad, skip))

\* bpf_object__close: elf_finish, unload, btf__free, then the memory.
CloseObject(P) ==
    LET u == Unload(P)
    IN [CloseFds(u, {u.obj.btf_fd}) EXCEPT !.obj = NoObject]

CloseFailed(P) == IF P.ret = "failed" THEN Returns(CloseObject(P), "failed") ELSE P

NoProgram(P, elf) == \A i \in DOMAIN P.obj.inst : IsFunctionStorage(elf, elf.progs[i])

\* What bpf_prog_load_xattr does with an opened object: it gives every program
\* a type (which fails for a section of an unknown name when the caller gives
\* none) and loads it; whatever fails, the object is closed.  To use a stray
\* pointer ends the process.
LoadOpened(p, P, bad) ==
    IF P.ret = "failed" THEN P
    ELSE IF P.ret = "stray" THEN Dead(P)
    ELSE CloseFailed(IF bad = <<"type">> \/ NoProgram(P, Elf(P)) THEN Returns(P, "failed")
                     ELSE LoadObject(p, P, bad, {}))

\* bpf_prog_load_xattr.
ProgLoadXattr(p, P, f, btfLoads, bad) == LoadOpened(p, OpenObject(P, f, btfLoads, "none"), bad)

(***************************************************************************)
(* Pinning.  A file system is [pins, dirs]; a path is a sequence of names. *)
(***************************************************************************)
Pinned(fs, path) == fs.pins[path] # Nothing

\* bpf_obj_pin of descriptor n at `path`.
CanPin(P, fs, path, n) ==
    /\ n \in Fds /\ P.fds[n].kind \in {"map", "prog"}
    /\ ~Pinned(fs, path) /\ path \notin fs.dirs
    /\ Len(path) = 2 => <<path[1]>> \in fs.dirs

Link(P, fs, path, n) == [fs EXCEPT !.pins[path] = P.fds[n]]

Unlink(fs, path) == [fs EXCEPT !.pins[path] = Nothing]

\* The faulty form of PinAll below: the path that could not be pinned is
\* unlinked too.
PinAll_OneTooMany(P, fs, paths, fd, bad) ==
    LET good(k, q) == paths[k] # bad /\ CanPin(P, q, paths[k], fd[k])
        step(q, k) == IF ~q.ok THEN q
                      ELSE IF good(k, q.fs) THEN [q EXCEPT !.fs = Link(P, @, paths[k], fd[k])]
                      ELSE [ok |-> FALSE,
                            fs |-> ForEach(LAMBDA x, j : Unlink(x, paths[k - j + 1]), q.fs, k)]
    IN ForEach(step, [ok |-> TRUE, fs |-> fs], Len(paths))

\* Pin one after the other what `fd` gives for the paths; a failure, of the
\* path `bad` or any other, unpins the ones before it.
PinAll(P, fs, paths, fd, bad) ==
    LET good(k, q) == paths[k] # bad /\ CanPin(P, q, paths[k], fd[k])
        step(q, k) == IF ~q.ok THEN q
                      ELSE IF good(k, q.fs) THEN [q EXCEPT !.fs = Link(P, @, paths[k], fd[k])]
                      ELSE [ok |-> FALSE,
                            fs |-> ForEach(LAMBDA x, j : Unlink(x, paths[k - j]), q.fs, k - 1)]
    IN ForEach(step, [ok |-> TRUE, fs |-> fs], Len(paths))

MapPaths(P) == [i \in DOMAIN P.obj.maps |-> <<P.obj.maps[i].name>>]

\* bpf_object__pin_maps.
PinMaps(P, fs, bad) ==
    IF ~P.obj.loaded THEN [ok |-> FALSE, fs |-> fs]
    ELSE PinAll(P, fs, MapPaths(P), [i \in DOMAIN P.obj.maps |-> P.obj.maps[i].fd], bad)

\* Unlink one after the other, up to the first path that is not there.
UnpinAll(fs, paths) ==
    LET step(q, k) == IF q.ok /\ Pinned(q.fs, paths[k])
                      THEN [q EXCEPT !.fs = Unlink(@, paths[k])]
                      ELSE [q EXCEPT !.ok = FALSE]
    IN ForEach(step, [ok |-> TRUE, fs |-> fs], Len(paths))

\* bpf_object__unpin_maps.
UnpinMaps(P, fs) == UnpinAll(fs, MapPaths(P))

\* The programs bpf_object__for_each_program goes through, in order.
ProgramsOf(P, elf) ==
    SelectSeq([i \in DOMAIN P.obj.inst |-> i], LAMBDA i : ~IsFunctionStorage(elf, elf.progs[i]))

Programs(P) == ProgramsOf(P, Elf(P))

Title(P, i) == Elf(P).progs[i].title

InstanceName == <<"0", "1", "2", "3">>

InstancePaths(P, i, title) == [j \in DOMAIN P.obj.inst[i] |-> <<title, InstanceName[j]>>]

IsEmptyDir(fs, path) == \A q \in DOMAIN fs.pins : Len(q) = 2 /\ <<q[1]>> = path => ~Pinned(fs, q)

\* make_dir, which takes a directory as made when it already exists.
MakeDir(fs, path) == IF Pinned(fs, path) THEN fs ELSE [fs EXCEPT !.dirs = @ \cup {path}]

RmDir(fs, path) == IF IsEmptyDir(fs, path) THEN [fs EXCEPT !.dirs = @ \ {path}] ELSE fs

\* The rmdir at the end of bpf_program__pin, after a failure only, and of
\* bpf_program__unpin, where a directory that is not empty is an error.
RmDirIfFailed(r, path) == IF r.ok THEN r ELSE [r EXCEPT !.fs = RmDir(@, path)]

RmDirIfUnpinned(r, path) ==
    IF r.ok THEN [ok |-> IsEmptyDir(r.fs, path), fs |-> RmDir(r.fs, path)] ELSE r

\* bpf_program__pin of program i at <<title>>: a single instance at the path
\* itself, several in a directory there.
PinInstances(P, fs, i, title, bad) ==
    CASE Len(P.obj.inst[i]) = 0 -> [ok |-> FALSE, fs |-> fs]
      [] Len(P.obj.inst[i]) = 1 -> PinAll(P, fs, <<<<title>>>>, P.obj.inst[i], bad)
      [] OTHER -> RmDirIfFailed(PinAll(P, MakeDir(fs, <<title>>), InstancePaths(P, i, title),
                                       P.obj.inst[i], bad), <<title>>)

PinProgram(P, fs, i, bad) == PinInstances(P, fs, i, Title(P, i), bad)

\* bpf_program__unpin.
UnpinInstances(P, fs, i, title) ==
    CASE Len(P.obj.inst[i]) = 0 -> [ok |-> FALSE, fs |-> fs]
      [] Len(P.obj.inst[i]) = 1 -> UnpinAll(fs, <<<<title>>>>)
      [] OTHER -> RmDirIfUnpinned(UnpinAll(fs, InstancePaths(P, i, title)), <<title>>)

UnpinProgram(P, fs, i) == UnpinInstances(P, fs, i, Title(P, i))

\* The faulty form of PinPrograms below: the programs pinned before the one
\* that fails stay pinned.
PinPrograms_NoUndo(P, fs, bad) ==
    ForEach(LAMBDA q, k : IF q.ok THEN PinProgram(P, q.fs, Programs(P)[k], bad) ELSE q,
            [ok |-> P.obj.loaded, fs |-> fs], Len(Programs(P)))

\* What bpf_object__pin_programs does after pinning one: after a failure the
\* programs before it are unpinned, the last one first.
UnpinBefore(P, r, todo, k) ==
    IF r.ok THEN r
    ELSE [r EXCEPT !.fs = ForEach(LAMBDA q, j : UnpinProgram(P, q, todo[k - j]).fs, @, k - 1)]

PinEach(P, fs, todo, bad) ==
    ForEach(LAMBDA q, k : IF q.ok
                          THEN UnpinBefore(P, PinProgram(P, q.fs, todo[k], bad), todo, k)
                          ELSE q,
            [ok |-> P.obj.loaded, fs |-> fs], Len(todo))

\* bpf_object__pin_programs.
PinPrograms(P, fs, bad) == PinEach(P, fs, Programs(P), bad)

\* bpf_object__unpin_programs.
UnpinPrograms(P, fs) ==
    ForEach(LAMBDA q, k : IF q.ok THEN UnpinProgram(P, q.fs, Programs(P)[k]) ELSE q,
            [ok |-> TRUE, fs |-> fs], Len(Programs(P)))

\* bpf_object__pin, from what pin_maps returned.
UnpinMapsIfFailed(P, r) == IF r.ok THEN r ELSE [r EXCEPT !.fs = UnpinMaps(P, @).fs]

PinRest(P, maps, bad) ==
    IF maps.ok THEN UnpinMapsIfFailed(P, PinPrograms(P, maps.fs, bad)) ELSE maps

PinObject(P, fs, bad) == PinRest(P, PinMaps(P, fs, bad), bad)

(***************************************************************************)
(* The calls of a process.  elf_begin and dup3 do not fail here; they do   *)
(* in PinnedLoad, where losing a number shows nothing about other ones.    *)
(***************************************************************************)
Fs == [pins |-> pins, dirs |-> dirs]

MapNames == UNION {{s.name : s \in {t \in Range(ImageOf[f].syms) :
                       ImageOf[f].secs[t.sec].kind = "maps"}} : f \in Files}
Titles   == UNION {{s.title : s \in {t \in Range(ImageOf[f].secs) : t.kind \in Executable}} : f \in Files}

Paths == {<<n>> : n \in MapNames \cup {KernelName[n] : n \in MapNames} \cup Titles}
            \cup {<<t, InstanceName[j]>> : t \in Titles, j \in 1 .. Max({1} \cup Instances)}

Older(n) == Resource("map", <<"older">>, KernelName[n], <<>>)

OInit ==
    /\ proc = [p \in Procs |-> NewProcess]
    /\ \E old \in SUBSET Shared :
          pins = [path \in Paths |-> IF path[1] \in old THEN Older(path[1]) ELSE Nothing]
    /\ dirs = {}

Becomes(p, P) == proc' = [proc EXCEPT ![p] = P] /\ UNCHANGED <<pins, dirs>>

\* The call leaves the file system as in r.fs.
Returned(p, r) ==
    /\ pins' = r.fs.pins
    /\ dirs' = r.fs.dirs
    /\ proc' = [proc EXCEPT ![p] = Returns(@, IF r.ok THEN "ok" ELSE "failed")]

\* Opening needs a number for the file and one for its type data.
TwoFree(P) == \E n, m \in Free(P) : n # m

Open(p) ==
    /\ ~IsOpen(proc[p]) /\ proc[p].opens < MaxOpens
    /\ TwoFree(proc[p])
    /\ \E f \in Files, btfLoads \in BOOLEAN :
            Becomes(p, OpenObject(proc[p], f, btfLoads, "none"))

\* The application uses the stray pointer it was given for an object.
UseStray(p) == proc[p].ret = "stray" /\ Becomes(p, Dead(proc[p]))

\* The application gives a map its descriptor of a map of that name.
Reuse(p) ==
    \E i \in DOMAIN proc[p].obj.maps, n \in Fds :
        /\ IsMap(proc[p].user[n]) /\ proc[p].user[n].name = KernelName[proc[p].obj.maps[i].name]
        /\ Becomes(p, ReuseFd(proc[p], i, n, "none"))

Prep(p) ==
    /\ IsOpen(proc[p])
    /\ \E i \in Range(Programs(proc[p])), nr \in Instances : Becomes(p, SetPrep(proc[p], i, nr))

\* The system calls of bpf_object__load that may fail, and the instances the
\* application's preprocessor gives no instructions for.
Load(p) ==
    LET obj == proc[p].obj
        maps == {<<"map", i>> : i \in DOMAIN obj.maps}
        progs == {<<"prog", i, 1>> : i \in DOMAIN obj.inst}
    IN /\ IsOpen(proc[p])
       /\ \E bad \in {<<"none">>, <<"probe">>} \cup maps \cup progs, skip \in {{}, {2}} :
              /\ skip # {} => TRUE \in Range(obj.prep)
              /\ Becomes(p, LoadObject(p, proc[p], bad, skip))

ProgLoad(p) ==
    /\ ~IsOpen(proc[p]) /\ proc[p].opens < MaxOpens
    /\ TwoFree(proc[p])
    /\ \E f \in Files, btfLoads \in BOOLEAN,
         bad \in {<<"none">>, <<"type">>, <<"probe">>, <<"map", 1>>, <<"prog", 1, 1>>} :
            Becomes(p, ProgLoadXattr(p, proc[p], f, btfLoads, bad))

UnloadCall(p) == IsOpen(proc[p]) /\ Becomes(p, Unload(proc[p]))

Close(p) == IsOpen(proc[p]) /\ Becomes(p, CloseObject(proc[p]))

PathsOf(P) ==
    Range(MapPaths(P)) \cup UNION {{<<Title(P, i)>>} \cup Range(InstancePaths(P, i, Title(P, i))) : i \in Range(Programs(P))}

Pin(p) ==
    /\ IsOpen(proc[p])
    /\ \/ \E bad \in {<<>>} \cup PathsOf(proc[p]) : Returned(p, PinObject(proc[p], Fs, bad))
       \/ Returned(p, PinMaps(proc[p], Fs, <<>>))
       \/ Returned(p, PinPrograms(proc[p], Fs, <<>>))

Unpin(p) ==
    /\ IsOpen(proc[p])
    /\ \/ Returned(p, UnpinMaps(proc[p], Fs))
       \/ Returned(p, UnpinPrograms(proc[p], Fs))

\* The application opens a file of its own, gets a pinned map (bpf_obj_get),
\* or closes what it opened.
Own(p, r) ==
    /\ ~Full(proc[p])
    /\ Cardinality({n \in Fds : proc[p].user[n] # Nothing}) <= MaxOwn
    /\ Becomes(p, [NewFd(proc[p], r) EXCEPT !.user[Lowest(proc[p])] = r])

OpenOwn(p) == Own(p, OwnFile)

GetPinned(p) == \E path \in Paths : IsMap(pins[path]) /\ Own(p, pins[path])

CloseOwn(p) ==
    \E n \in Fds \ {0} :
        /\ proc[p].user[n] # Nothing
        /\ Becomes(p, [CloseFds(proc[p], {n}) EXCEPT !.user[n] = Nothing])

Calls(p) == \/ Open(p) \/ UseStray(p) \/ ProgLoad(p) \/ Reuse(p) \/ Prep(p) \/ Load(p) \/ UnloadCall(p) \/ Close(p)
            \/ Pin(p) \/ Unpin(p) \/ OpenOwn(p) \/ GetPinned(p) \/ CloseOwn(p)

ONext == \E p \in Procs : Calls(p)

OSpec == OInit /\ [][ONext]_ovars

(***************************************************************************)
(* Properties.                                                             *)
(***************************************************************************)
\* What the library opened: the descriptors that are not the application's.
Held(P) == {n \in Fds : P.fds[n].kind \in {"map", "prog", "btf"} /\ P.user[n] = Nothing}

\* No call of libbpf closes a descriptor of the application: what the
\* application opened and has not closed is still open (zclose and the -1 of
\* init_maps, libbpf.c:684).  This is so as long as no program has been given a
\* copy of the number of its object's BTF descriptor
\* (bpf_program_reloc_btf_ext), which is then closed once with each program and
\* once more with the object.
ForeignUntouchedWithoutBtf ==
    (\A p \in Procs : ~proc[p].copied) =>
        \A p \in Procs : \A n \in Fds :
            proc[p].user[n] # Nothing => proc[p].fds[n] = proc[p].user[n]

\* Every map, program and BTF descriptor the library opened in a process is
\* known to the process's object, so that closing the object releases it: no
\* failed load, replaced descriptor or unload loses one.
NothingLost ==
    \A p \in Procs :
        Held(proc[p]) \subseteq MapFds(proc[p]) \cup ProgFds(proc[p]) \cup {proc[p].obj.btf_fd}

\* What a loaded program of section idx must do at each relocated position,
\* from the file alone: name the map of the relocation's symbol, or call the
\* function it called in .text, which now follows the program's own code.
Text(image) == {s \in DOMAIN image.secs : image.secs[s].kind = ".text"}

RelsOf(image, idx) ==
    UNION {Range(image.secs[s].rels) : s \in {t \in DOMAIN image.secs :
              image.secs[t].kind = "rel" /\ image.secs[t].link = idx}}

MeansMap(P, r, name) ==
    \E i \in DOMAIN P.obj.maps :
        P.obj.maps[i].sym = name /\ P.obj.maps[i].fd >= 0 /\ IsMap(r) /\ r = P.fds[P.obj.maps[i].fd]

UsesItsMaps(P, image, idx, uses) ==
    LET own == image.secs[idx].insns
        Right(rel, base, code) ==
            IF code[rel.insn + 1].op = "call"
            THEN uses[base + rel.insn + 1] = Code(Len(own) + code[rel.insn + 1].imm + 1)
            ELSE MeansMap(P, uses[base + rel.insn + 1], image.syms[rel.sym].name)
        calls == \E rel \in RelsOf(image, idx) : own[rel.insn + 1].op = "call"
    IN /\ \A rel \in RelsOf(image, idx) : Right(rel, 0, own)
       /\ calls => \A t \in Text(image) : \A rel \in RelsOf(image, t) :
                        Right(rel, Len(own), image.secs[t].insns)

\* bpf_object__load is all or nothing: after a success every map is open and
\* every program loaded, if its instance was not skipped, uses exactly the maps
\* its source names and calls the functions it called; after a failure the
\* process holds nothing but the object's BTF descriptor.
LoadAllOrNothing ==
    [][\A p \in Procs :
         proc'[p].obj.loaded /\ ~proc[p].obj.loaded =>
            LET P == proc'[p]
                image == ImageOf[P.obj.file]
                elf == Elf(P)
            IN IF P.ret = "ok"
               THEN /\ \A i \in DOMAIN P.obj.maps : P.obj.maps[i].fd >= 0
                    /\ \A i \in DOMAIN P.obj.inst :
                          /\ P.obj.inst[i] = <<>> <=> IsFunctionStorage(elf, elf.progs[i])
                          /\ \A j \in DOMAIN P.obj.inst[i] : P.obj.inst[i][j] >= 0 =>
                                UsesItsMaps(P, image, elf.progs[i].idx, P.fds[P.obj.inst[i][j]].uses)
               ELSE Held(P) \subseteq {P.obj.btf_fd}]_ovars

\* The files of the object's maps, and those of its programs' instances.
OwnPaths(P) ==
    {Range(MapPaths(P)),
     UNION {IF Len(P.obj.inst[i]) = 1 THEN {<<Title(P, i)>>} ELSE Range(InstancePaths(P, i, Title(P, i))) :
               i \in Range(Programs(P))}}

\* From `old` to `new`, the files of these paths and no others appear.
Appear(old, new, paths) ==
    \A path \in Paths : IF path \in paths THEN old[path] = Nothing /\ new[path] # Nothing
                                        ELSE new[path] = old[path]

\* bpf_object__pin, pin_maps and pin_programs pin all the maps, all the programs
\* or both, and one that fails leaves the file system's pins exactly as they
\* were: it takes back what it pinned before the map, program or instance that
\* could not be pinned, and nothing that was there, which may be another
\* program's pin under the same name.  unpin_maps and unpin_programs may fail
\* half way, and then what is gone is theirs; when they succeed the object's
\* maps or its programs have no pin left and every other path is as before.
PinAllOrNothing ==
    [][\A p \in Procs : pins' # pins /\ IsOpen(proc[p]) =>
         LET own == OwnPaths(proc[p]) IN
         /\ Pin(p) => /\ proc'[p].ret = "ok"
                      /\ \E paths \in own \cup {UNION own} : Appear(pins, pins', paths)
         /\ Unpin(p) => \E paths \in own :
                IF proc'[p].ret = "ok" THEN Appear(pins', pins, paths)
                ELSE \E some \in SUBSET paths : Appear(pins', pins, some)]_ovars

=============================================================================
