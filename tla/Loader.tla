------------------------------- MODULE Loader -------------------------------
(***************************************************************************)
(* xdp_loader: runs of src/loader/xdp_loader.c, with the functions of      *)
(* src/common/common_user_bpf_xdp.c it calls, on one network interface.    *)
(* Every run is a process that exits; runs may overlap and may be killed.  *)
(* What they share is in the kernel: the XDP hook of the interface and the *)
(* directory /sys/fs/bpf/<ifname> of pinned maps.  A step is at most one   *)
(* system call that reads or changes one of the two.                       *)
(***************************************************************************)
EXTENDS Naturals, Sequences

CONSTANTS
  Runs,      \* invocations of xdp_loader, each of which happens at most once
  None,
  Files,     \* BPF object files loaded on the interface
  Modes,     \* modes asked for: --skb-mode, --native-mode or --auto-mode
  Native,    \* the driver supports native XDP
  Overlap,   \* a run may start while another one is not finished
  Kills,     \* a run may be killed
  Faults     \* loading, attaching, detaching, pinning and unlinking may fail for
             \* reasons of their own (memory, driver, netlink, a missing bpffs)

\* The maps of an object, in the order of bpf_object__for_each_map.
MapsOf ==
  [file \in {"syncookie.o", "xdp_prog_kern.o"} |->
     IF file = "syncookie.o" THEN <<"xdp_stats_map", "connections_table">>
                             ELSE <<"xdp_stats_map">>]

Maps  == {"xdp_stats_map", "connections_table"}
Slots == {"skb", "drv"}

\* What parse_cmdline_args leaves in cfg.
Config == [unload : BOOLEAN, file : Files, mode : Modes, force : BOOLEAN]

Exits == {"EXIT_OK", "EXIT_FAIL_BPF", "EXIT_FAIL_XDP", "killed"}
Steps == {"load", "attach", "detach_opposite", "reattach", "access", "unpin",
          "pin", "rollback", "query", "detach"}

ASSUME LoaderAssumption ==
  /\ Files \subseteq {"syncookie.o", "xdp_prog_kern.o"}
  /\ Modes \subseteq {"skb", "drv", "auto"}
  /\ {Native, Overlap, Kills, Faults} \subseteq BOOLEAN
  /\ None \notin Runs \union Config /\ "disturbed" \notin Runs \union {None}

VARIABLES
  hook,   \* hook[s]: the run whose program is attached in mode s, or None
  pin,    \* pin[m]: the run whose map is pinned under name m, or None
  pc,     \* pc[r]: the next step of run r, or how it ended
  cfg,    \* cfg[r]: its configuration, once it has started
  idx,    \* idx[r]: the map its loop over the maps is at
  last,   \* history: the run that started last, or "disturbed" once two runs
          \* have overlapped, one was killed or an unlink failed
  stuck   \* history: the runs that could not unlink a map they had pinned

vars == <<hook, pin, pc, cfg, idx, last, stuck>>

Running(r) == pc[r] \in Steps
Quiet      == \A r \in Runs : ~Running(r)
Calm       == last # "disturbed"

Goto(r, step) == pc' = [pc EXCEPT ![r] = step]

(***************************************************************************)
(* The kernel's side of bpf_set_link_xdp_fd.  Native and generic mode      *)
(* exclude each other; XDP_FLAGS_UPDATE_IF_NOEXIST refuses to replace.     *)
(***************************************************************************)
Slot(mode) == IF mode = "skb" \/ (mode = "auto" /\ ~Native) THEN "skb" ELSE "drv"
OtherSlot(s) == IF s = "skb" THEN "drv" ELSE "skb"

Unsupported(mode) == mode = "drv" /\ ~Native

\* Faulty: does not look at the other mode.
AttachError_OneMode(c) ==
  IF Unsupported(c.mode) THEN "EOPNOTSUPP"
  ELSE IF ~c.force /\ hook[Slot(c.mode)] # None THEN "EBUSY"
  ELSE "none"

AttachError(c) ==
  IF Unsupported(c.mode) THEN "EOPNOTSUPP"
  ELSE IF hook[OtherSlot(Slot(c.mode))] # None THEN "EEXIST"
  ELSE IF ~c.force /\ hook[Slot(c.mode)] # None THEN "EBUSY"
  ELSE "none"

\* The mode xdp_link_attach detaches before it tries again.
Opposite(mode) == IF mode = "skb" THEN "drv" ELSE "skb"

Init ==
  /\ hook = [s \in Slots |-> None]
  /\ pin = [m \in Maps |-> None]
  /\ pc = [r \in Runs |-> "new"]
  /\ cfg = [r \in Runs |-> None]
  /\ idx = [r \in Runs |-> 1]
  /\ last = None
  /\ stuck = {}

\* main up to the branch on do_unload.
Start(r) ==
  /\ pc[r] = "new"
  /\ Overlap \/ Quiet
  /\ \E c \in Config :
       /\ cfg' = [cfg EXCEPT ![r] = c]
       /\ Goto(r, IF c.unload THEN "query" ELSE "load")
  /\ last' = IF Quiet /\ Calm THEN r ELSE "disturbed"
  /\ UNCHANGED <<hook, pin, idx, stuck>>

\* load_bpf_object_file: creates the maps and the programs.
Load(r) ==
  /\ pc[r] = "load"
  /\ Goto(r, "attach") \/ (Faults /\ Goto(r, "EXIT_FAIL_BPF"))
  /\ UNCHANGED <<hook, pin, cfg, idx, last, stuck>>

\* A successful attach, and the end of xdp_link_attach.
Attached(r) ==
  /\ hook' = [hook EXCEPT ![Slot(cfg[r].mode)] = r]
  /\ Goto(r, "access")

AttachFailed(r) == Goto(r, "EXIT_FAIL_XDP") /\ UNCHANGED hook

\* Faulty: tries again without --force too.
Attach_AlwaysRetries(r) ==
  /\ pc[r] = "attach"
  /\ LET err == AttachError(cfg[r])
     IN  \/ err = "none" /\ Attached(r)
         \/ err = "EEXIST" /\ Goto(r, "detach_opposite") /\ UNCHANGED hook
         \/ err \notin {"none", "EEXIST"} /\ AttachFailed(r)
  /\ UNCHANGED <<pin, cfg, idx, last, stuck>>

\* xdp_link_attach, first bpf_set_link_xdp_fd.
Attach(r) ==
  /\ pc[r] = "attach"
  /\ LET err == AttachError(cfg[r])
     IN  \/ err = "none" /\ Attached(r)
         \/ err = "EEXIST" /\ cfg[r].force /\ Goto(r, "detach_opposite") /\ UNCHANGED hook
         \/ err # "none" /\ ~(err = "EEXIST" /\ cfg[r].force) /\ AttachFailed(r)
         \/ err = "none" /\ Faults /\ AttachFailed(r)
  /\ UNCHANGED <<pin, cfg, idx, last, stuck>>

DetachOpposite(r) ==
  /\ pc[r] = "detach_opposite"
  /\ \/ /\ ~Unsupported(Opposite(cfg[r].mode))
        /\ hook' = [hook EXCEPT ![Slot(Opposite(cfg[r].mode))] = None]
        /\ Goto(r, "reattach")
     \/ (Unsupported(Opposite(cfg[r].mode)) \/ Faults) /\ AttachFailed(r)
  /\ UNCHANGED <<pin, cfg, idx, last, stuck>>

Reattach(r) ==
  /\ pc[r] = "reattach"
  /\ \/ AttachError(cfg[r]) = "none" /\ Attached(r)
     \/ (AttachError(cfg[r]) # "none" \/ Faults) /\ AttachFailed(r)
  /\ UNCHANGED <<pin, cfg, idx, last, stuck>>

\* Faulty: takes it that no earlier run has left pins.
Access_NoCleanup(r) ==
  /\ pc[r] = "access"
  /\ Goto(r, "pin")
  /\ UNCHANGED <<hook, pin, cfg, idx, last, stuck>>

\* pin_maps_in_bpf_object: access(2) looks for xdp_stats_map only.
Access(r) ==
  /\ pc[r] = "access"
  /\ Goto(r, IF pin["xdp_stats_map"] # None THEN "unpin" ELSE "pin")
  /\ UNCHANGED <<hook, pin, cfg, idx, last, stuck>>

Map(r) == MapsOf[cfg[r].file][idx[r]]

\* Faulty: leaves the loop over the maps one map early.
LastMap_Early(r) == idx[r] + 1 >= Len(MapsOf[cfg[r].file])

LastMap(r) == idx[r] = Len(MapsOf[cfg[r].file])

\* bpf_object__unpin_maps: stops at the first map that is not pinned.
Unpin(r) ==
  /\ pc[r] = "unpin"
  /\ pin' = [pin EXCEPT ![Map(r)] = None]
  /\ IF pin[Map(r)] = None
     THEN Goto(r, "EXIT_FAIL_BPF") /\ UNCHANGED idx
     ELSE /\ Goto(r, IF LastMap(r) THEN "pin" ELSE "unpin")
          /\ idx' = [idx EXCEPT ![r] = IF LastMap(r) THEN 1 ELSE @ + 1]
  /\ UNCHANGED <<hook, cfg, last, stuck>>

\* bpf_object__pin_maps.
Pin(r) ==
  /\ pc[r] = "pin"
  /\ \/ /\ pin[Map(r)] = None
        /\ pin' = [pin EXCEPT ![Map(r)] = r]
        /\ Goto(r, IF LastMap(r) THEN "EXIT_OK" ELSE "pin")
        /\ idx' = [idx EXCEPT ![r] = IF LastMap(r) THEN @ ELSE @ + 1]
     \/ /\ pin[Map(r)] # None \/ Faults
        /\ Goto(r, "rollback")
        /\ UNCHANGED <<pin, idx>>
  /\ UNCHANGED <<hook, cfg, last, stuck>>

\* Faulty: returns the error without unlinking anything.
Rollback_Missing(r) ==
  /\ pc[r] = "rollback"
  /\ Goto(r, "EXIT_FAIL_BPF")
  /\ UNCHANGED <<hook, pin, cfg, idx, last, stuck>>

\* Its err_unpin_maps: unlinks the names pinned so far, whoever pinned them.
Rollback(r) ==
  /\ pc[r] = "rollback"
  /\ IF idx[r] = 1
     THEN Goto(r, "EXIT_FAIL_BPF") /\ UNCHANGED <<pin, idx>>
     ELSE /\ idx' = [idx EXCEPT ![r] = @ - 1]
          /\ pin' = [pin EXCEPT ![MapsOf[cfg[r].file][idx[r] - 1]] = None]
          /\ UNCHANGED pc
  /\ UNCHANGED <<hook, cfg, last, stuck>>

\* unlink(2) fails although the name is there: bpf_object__unpin_maps returns the
\* error, the rollback ignores it and goes on with the map before.
UnlinkFails(r) ==
  /\ Faults
  /\ \/ /\ pc[r] = "unpin"
        /\ Goto(r, "EXIT_FAIL_BPF")
        /\ UNCHANGED <<idx, stuck>>
     \/ /\ pc[r] = "rollback" /\ idx[r] > 1
        /\ idx' = [idx EXCEPT ![r] = @ - 1]
        /\ stuck' = stuck \union {r}
        /\ UNCHANGED pc
  /\ last' = "disturbed"
  /\ UNCHANGED <<hook, pin, cfg>>

\* xdp_link_detach: bpf_get_link_xdp_id reports the one attached program,
\* whatever its mode.
Query(r) ==
  /\ pc[r] = "query"
  /\ \/ Goto(r, IF \E s \in Slots : hook[s] # None THEN "detach" ELSE "EXIT_OK")
     \/ Faults /\ Goto(r, "EXIT_FAIL_XDP")
  /\ UNCHANGED <<hook, pin, cfg, idx, last, stuck>>

Detach(r) ==
  /\ pc[r] = "detach"
  /\ \/ /\ ~Unsupported(cfg[r].mode)
        /\ hook' = [hook EXCEPT ![Slot(cfg[r].mode)] = None]
        /\ Goto(r, "EXIT_OK")
     \/ (Unsupported(cfg[r].mode) \/ Faults) /\ AttachFailed(r)
  /\ UNCHANGED <<pin, cfg, idx, last, stuck>>

\* SIGKILL or a power cut to user space: the kernel keeps hook and pins.
Kill(r) ==
  /\ Kills /\ Running(r)
  /\ Goto(r, "killed")
  /\ last' = "disturbed"
  /\ UNCHANGED <<hook, pin, cfg, idx, stuck>>

Step(r) ==
  \/ Load(r) \/ Attach(r) \/ DetachOpposite(r) \/ Reattach(r)
  \/ Access(r) \/ Unpin(r) \/ Pin(r) \/ Rollback(r)
  \/ Query(r) \/ Detach(r)

Next == \E r \in Runs : Start(r) \/ Step(r) \/ UnlinkFails(r) \/ Kill(r)

Spec == Init /\ [][Next]_vars

-----------------------------------------------------------------------------
\* Types of the state; native and generic mode are never attached together.
TypeOK ==
  /\ hook \in [Slots -> Runs \union {None}]
  /\ hook["skb"] = None \/ hook["drv"] = None
  /\ pin \in [Maps -> Runs \union {None}]
  /\ pc \in [Runs -> Steps \union Exits \union {"new"}]
  /\ cfg \in [Runs -> Config \union {None}]
  /\ idx \in [Runs -> 1 .. 2]
  /\ \A r \in Runs :
       /\ pc[r] = "new" => idx[r] = 1
       /\ Running(r) => cfg[r] \in Config /\ idx[r] <= Len(MapsOf[cfg[r].file])
  /\ last \in Runs \union {None, "disturbed"} /\ stuck \subseteq Runs

\* "Force install, replacing existing program on interface": an attached
\* program is replaced or removed only by a run that was told --force or
\* --unload, however the runs overlap, fail or are killed.
OnlyForceReplaces ==
  [][\A s \in Slots :
       hook[s] # None /\ hook'[s] # hook[s] =>
         \E r \in Runs : pc'[r] # pc[r] /\ (cfg[r].force \/ cfg[r].unload)]_vars

\* No run so far loads syncookie.o, which has both maps, and another one
\* xdp_prog_kern.o, which has one.
SameFile ==
  \A r, q \in Runs : cfg[r] # None /\ cfg[q] # None => cfg[r].file = cfg[q].file

\* A run that loads and exits with EXIT_OK has done all it is for: its program
\* is attached and all its maps are pinned, until another run starts.
LoadIsComplete ==
  Quiet /\ last \in Runs /\ pc[last] = "EXIT_OK" /\ ~cfg[last].unload =>
    /\ hook[Slot(cfg[last].mode)] = last
    /\ \A i \in DOMAIN MapsOf[cfg[last].file] : pin[MapsOf[cfg[last].file][i]] = last

\* After runs of one object one after the other, whatever failed in them but an
\* unlink, the maps pinned are all those of one run, or none: a pin that fails
\* half-way is
\* rolled back.
PinsAllOrNothing ==
  Quiet /\ Calm /\ SameFile =>
    \A r \in Runs : cfg[r] # None =>
      \A i, j \in DOMAIN MapsOf[cfg[r].file] :
        pin[MapsOf[cfg[r].file][i]] = pin[MapsOf[cfg[r].file][j]]

\* After runs one after the other xdp_stats, which opens the pinned map, does
\* not watch a map of a program other than the attached one, unless an unlink
\* failed.
PinnedIsAttached ==
  Quiet /\ Calm /\ pin["xdp_stats_map"] # None =>
    \A s \in Slots : hook[s] \in {None, pin["xdp_stats_map"]}

\* A run that exits with an error leaves nothing of its own pinned, unless an
\* unlink of its rollback failed, and one that could not attach is not attached,
\* although other runs unlink and pin the same names at the same time.
FailedLeavesNothing ==
  \A r \in Runs :
    /\ pc[r] \in {"EXIT_FAIL_BPF", "EXIT_FAIL_XDP"} /\ r \notin stuck =>
         \A m \in Maps : pin[m] # r
    /\ pc[r] = "EXIT_FAIL_XDP" => \A s \in Slots : hook[s] # r

\* "we also need to handle cleanup of previous XDP programs that not have
\* cleaned up their maps": whatever earlier runs left pinned, a name that a run
\* gets to unlink is there and a name that it gets to pin is free.
LeftoversHandled ==
  \A r \in Runs :
    /\ pc[r] = "unpin" => pin[Map(r)] # None
    /\ pc[r] = "pin" => pin[Map(r)] = None

\* "Unload XDP program instead of loading": after a run with --unload that
\* exits with EXIT_OK the interface has no program.
UnloadRemoves ==
  Quiet /\ last \in Runs /\ pc[last] = "EXIT_OK" /\ cfg[last].unload =>
    \A s \in Slots : hook[s] = None
=============================================================================
