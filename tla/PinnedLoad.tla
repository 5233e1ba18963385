------------------------------ MODULE PinnedLoad ------------------------------
(***************************************************************************)
(* Several processes that load object files with                           *)
(* bpf_prog_load_xattr_maps (common/common_libbpf.c): each map the caller  *)
(* names is taken from its pinned file when there is one, and pinned there *)
(* after the load when there was none.  Between the two another process    *)
(* may pin its own, a pin may be removed, and a process may be killed.     *)
(***************************************************************************)
EXTENDS BpfObject

CONSTANTS
    Wanted,         \* the names in attr->pinned_maps; the file of n is <<n>>
    LoadFiles       \* what attr->file may be

\* A process has a number for the file and one for its type data, a file that
\* can be opened has a map, its maps have different names, as the linker sees
\* to, and no name of a pinned map is the beginning the kernel keeps of another
\* one.
ASSUME PinnedAssumption ==
    /\ MaxFd >= 2 /\ LoadFiles \subseteq Files /\ Wanted \subseteq MapNames
    /\ \A n, m \in Wanted : KernelName[n] = m => n = m
    /\ \A f \in LoadFiles, btfLoads \in BOOLEAN :
          LET maps == Opened[f][btfLoads].maps
          IN Opened[f][btfLoads].err = "none" =>
                maps # <<>> /\ \A i, j \in DOMAIN maps : maps[i].sym = maps[j].sym => i = j

VARIABLES
    at,             \* at[p]: how far the call is, [pc, k]
    mapFd,          \* mapFd[p][n]: attr->pinned_maps[..].map_fd
    strayed,        \* the processes one of whose bpf_map__reuse_fd failed
    removed         \* the names whose pin somebody removed

pvars == <<proc, pins, dirs, at, mapFd, strayed, removed>>

At(pc, k) == [pc |-> pc, k |-> k]

PInit ==
    /\ OInit
    /\ at = [p \in Procs |-> At("open", 0)]
    /\ mapFd = [p \in Procs |-> [n \in Wanted |-> -1]]
    /\ strayed = {}
    /\ removed = {}

Moves(p, pc, k) == at' = [at EXCEPT ![p] = At(pc, k)]

\* bpf_object__open_xattr, the program types, and map_fd reset to -1.  A stray
\* pointer is used at once, which kills the process.
OpenStep(p) ==
    /\ at[p].pc = "open"
    /\ \E f \in LoadFiles, btfLoads \in BOOLEAN, bad \in {"none", "elf_begin"} :
          LET P == OpenObject(proc[p], f, btfLoads, bad)
          IN IF P.ret = "stray" THEN Becomes(p, NewProcess) /\ Moves(p, "killed", 0)
             ELSE /\ Becomes(p, P)
                  /\ IF P.ret = "ok" THEN Moves(p, "get", 1) ELSE Moves(p, "failed", 0)
    /\ mapFd' = [mapFd EXCEPT ![p] = [n \in Wanted |-> -1]]
    /\ UNCHANGED <<strayed, removed>>

MapAt(p) == proc[p].obj.maps[at[p].k]

\* The next map of the loop, or what follows it.
Onwards(p, pc, next) ==
    IF at[p].k < Len(proc[p].obj.maps) THEN Moves(p, pc, at[p].k + 1) ELSE Moves(p, next, 1)

\* The map has a pinned file: its descriptor replaces the map's, and is noted
\* whatever bpf_map__reuse_fd returns.
GetPin(p) ==
    LET n == MapAt(p).name
        r == pins[<<n>>]
        got == [NewFd(proc[p], r) EXCEPT !.user[Lowest(proc[p])] = r]
        fd == Lowest(proc[p])
    IN /\ at[p].pc = "get"
       /\ n \in Wanted /\ r # Nothing /\ ~Full(proc[p])
       /\ \E bad \in {"none", "dup3"} :
             LET P == ReuseFd(got, at[p].k, fd, bad)
             IN /\ Becomes(p, P)
                /\ strayed' = IF P.ret = "ok" THEN strayed ELSE strayed \cup {p}
       /\ mapFd' = [mapFd EXCEPT ![p][n] = fd]
       /\ Onwards(p, "get", "load")
       /\ UNCHANGED removed

\* The map is not in the caller's list, or its file cannot be opened.
NoPin(p) ==
    /\ at[p].pc = "get"
    /\ MapAt(p).name \in Wanted /\ pins[<<MapAt(p).name>>] # Nothing => Full(proc[p])
    /\ Onwards(p, "get", "load")
    /\ UNCHANGED <<ovars, mapFd, strayed, removed>>

\* bpf_object__load; after a failure, and when there is no program to load, the
\* object is closed.
LoadStep(p) ==
    /\ at[p].pc = "load"
    /\ \E bad \in {<<"none">>, <<"probe">>, <<"map", 1>>, <<"prog", 1, 1>>} :
          LET P == IF NoProgram(proc[p], Elf(proc[p])) THEN Returns(proc[p], "failed")
                   ELSE LoadObject(p, proc[p], bad, {})
          IN IF P.ret = "ok" THEN Becomes(p, P) /\ Moves(p, "pin", 1)
             ELSE Becomes(p, CloseObject(P)) /\ Moves(p, "failed", 0)
    /\ UNCHANGED <<mapFd, strayed, removed>>

\* The faulty form of PinOne below: map_fd is set although pinning failed.
PinOne_IgnoresError(p, ok) ==
    /\ IF ok THEN pins' = [pins EXCEPT ![<<MapAt(p).name>>] = proc[p].fds[MapAt(p).fd]]
             ELSE UNCHANGED pins
    /\ mapFd' = [mapFd EXCEPT ![p][MapAt(p).name] = MapAt(p).fd]

\* bpf_map__pin of the map, and map_fd if it succeeds.
PinOne(p, ok) ==
    IF ok
    THEN /\ pins' = [pins EXCEPT ![<<MapAt(p).name>>] = proc[p].fds[MapAt(p).fd]]
         /\ mapFd' = [mapFd EXCEPT ![p][MapAt(p).name] = MapAt(p).fd]
    ELSE UNCHANGED <<pins, mapFd>>

\* One map of the loop that pins the maps that had no pinned file.
PinStep(p) ==
    /\ at[p].pc = "pin"
    /\ IF MapAt(p).name \in Wanted /\ mapFd[p][MapAt(p).name] = -1
       THEN \E refused \in BOOLEAN :
              PinOne(p, ~refused /\ CanPin(proc[p], Fs, <<MapAt(p).name>>, MapAt(p).fd))
       ELSE UNCHANGED <<pins, mapFd>>
    /\ Onwards(p, "pin", "done")
    /\ UNCHANGED <<proc, dirs, strayed, removed>>

Kill(p) ==
    /\ at[p].pc \notin {"failed", "killed"}
    /\ Becomes(p, NewProcess)
    /\ Moves(p, "killed", 0)
    /\ UNCHANGED <<mapFd, strayed, removed>>

RemovePin(n) ==
    /\ n \notin removed /\ pins[<<n>>] # Nothing
    /\ pins' = [pins EXCEPT ![<<n>>] = Nothing]
    /\ removed' = removed \cup {n}
    /\ UNCHANGED <<proc, dirs, at, mapFd, strayed>>

PNext ==
    \/ \E p \in Procs : \/ OpenStep(p) \/ GetPin(p) \/ NoPin(p) \/ LoadStep(p)
                        \/ PinStep(p) \/ Kill(p)
    \/ \E n \in Wanted : RemovePin(n)

PSpec == PInit /\ [][PNext]_pvars

\* The map of the object whose symbol is n.
UsedMap(P, n) == {P.fds[P.obj.maps[i].fd] : i \in {j \in DOMAIN P.obj.maps : P.obj.maps[j].sym = n}}

\* "Reset attr->pinned_maps.map_fd to identify successful file load"
\* (common_libbpf.c:78): when the call has returned, a map_fd that is not -1
\* stands for the map the process's programs use, and for the one pinned under
\* that name unless the pin was removed, however the calls of the processes
\* interleave; so two processes with a map_fd share the map.  It takes that no
\* bpf_map__reuse_fd failed: the call does not look at its result.
MapFdIsShared ==
    \A p \in Procs \ strayed : at[p].pc = "done" =>
        \A n \in Wanted : mapFd[p][n] # -1 =>
            /\ UsedMap(proc[p], n) = {proc[p].fds[mapFd[p][n]]}
            /\ n \notin removed => proc[p].fds[mapFd[p][n]] = pins[<<n>>]

=============================================================================
