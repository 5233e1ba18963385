---------------------------- MODULE LoaderProofs ----------------------------
(***************************************************************************)
(* Theorems about Loader, for any number of runs of xdp_loader, on any     *)
(* driver, with or without overlap, kills and faults.                      *)
(***************************************************************************)
EXTENDS Loader, TLAPS

\* The names an object pins, and the order it pins them in.
LEMMA MapsFacts ==
  ASSUME NEW f \in Files
  PROVE  /\ Len(MapsOf[f]) \in 1 .. 2
         /\ MapsOf[f][1] = "xdp_stats_map"
         /\ Len(MapsOf[f]) = 2 => MapsOf[f][2] = "connections_table"
<1>1. f \in {"syncookie.o", "xdp_prog_kern.o"}
  BY LoaderAssumption
<1>2. CASE f = "syncookie.o"
  <2>1. MapsOf[f] = <<"xdp_stats_map", "connections_table">>
    BY <1>2 DEF MapsOf
  <2> QED
    BY <2>1
<1>3. CASE f = "xdp_prog_kern.o"
  <2>1. MapsOf[f] = <<"xdp_stats_map">>
    BY <1>3 DEF MapsOf
  <2> QED
    BY <2>1
<1> QED
  BY <1>1, <1>2, <1>3

\* What TypeOK says of a run that is under way.
LEMMA RunningFacts ==
  ASSUME TypeOK, NEW r \in Runs, Running(r)
  PROVE  /\ cfg[r] \in Config
         /\ idx[r] \in 1 .. Len(MapsOf[cfg[r].file])
         /\ Len(MapsOf[cfg[r].file]) \in 1 .. 2
         /\ Map(r) \in Maps
<1>1. cfg[r] \in Config /\ cfg[r].file \in Files
  BY DEF TypeOK, Config
<1>2. Len(MapsOf[cfg[r].file]) \in 1 .. 2
  BY <1>1, MapsFacts
<1>3. idx[r] \in 1 .. Len(MapsOf[cfg[r].file])
  BY <1>2 DEF TypeOK
<1>4. Map(r) \in Maps
  BY <1>1, <1>2, <1>3, MapsFacts DEF Map, Maps
<1> QED
  BY <1>1, <1>2, <1>3, <1>4

\* The hook's slots.
LEMMA SlotFacts ==
  ASSUME NEW mode
  PROVE  /\ Slot(mode) \in Slots
         /\ OtherSlot(Slot(mode)) \in Slots
         /\ \A s \in Slots : s = Slot(mode) \/ s = OtherSlot(Slot(mode))
  BY DEF Slot, OtherSlot, Slots

\* An attach keeps the types of the hook and excludes the other mode.
LEMMA AttachedType ==
  ASSUME TypeOK, NEW r \in Runs, AttachError(cfg[r]) = "none", Attached(r)
  PROVE  /\ hook' \in [Slots -> Runs \union {None}]
         /\ hook'["skb"] = None \/ hook'["drv"] = None
<1>1. hook[OtherSlot(Slot(cfg[r].mode))] = None
  BY DEF AttachError
<1>2. hook \in [Slots -> Runs \union {None}]
  BY DEF TypeOK
<1> QED
  BY <1>1, <1>2 DEF Attached, Slot, OtherSlot, Slots

\* Detaching keeps them too.
LEMMA DetachedType ==
  ASSUME TypeOK, NEW mode, hook' = [hook EXCEPT ![Slot(mode)] = None]
  PROVE  /\ hook' \in [Slots -> Runs \union {None}]
         /\ hook'["skb"] = None \/ hook'["drv"] = None
  BY DEF TypeOK, Slot, Slots

\* A step of run r keeps the types when what it assigns has them.
LEMMA StepType ==
  ASSUME TypeOK, NEW r \in Runs,
         NEW step \in Steps \union Exits, pc' = [pc EXCEPT ![r] = step],
         NEW c \in Config, cfg' = [cfg EXCEPT ![r] = c],
         NEW i \in 1 .. Len(MapsOf[c.file]), idx' = [idx EXCEPT ![r] = i],
         hook' \in [Slots -> Runs \union {None}],
         hook'["skb"] = None \/ hook'["drv"] = None,
         pin' \in [Maps -> Runs \union {None}],
         last' \in Runs \union {None, "disturbed"}, stuck' \subseteq Runs
  PROVE  TypeOK'
<1>1. Len(MapsOf[c.file]) \in 1 .. 2 /\ i \in 1 .. 2
  <2>1. c.file \in Files
    BY DEF Config
  <2>2. Len(MapsOf[c.file]) \in 1 .. 2
    BY <2>1, MapsFacts
  <2>3. \A n \in 1 .. 2 : 1 .. n \subseteq 1 .. 2
    OBVIOUS
  <2> QED
    BY <2>2, <2>3, Zenon
<1>2. /\ pc' \in [Runs -> Steps \union Exits \union {"new"}]
      /\ cfg' \in [Runs -> Config \union {None}]
      /\ idx' \in [Runs -> 1 .. 2]
  BY <1>1 DEF TypeOK
<1>3. ASSUME NEW q \in Runs
      PROVE  /\ pc'[q] = "new" => idx'[q] = 1
             /\ pc'[q] \in Steps =>
                  cfg'[q] \in Config /\ idx'[q] <= Len(MapsOf[cfg'[q].file])
  <2>1. CASE q = r
    <3>1. pc'[q] = step /\ cfg'[q] = c /\ idx'[q] = i
      BY <2>1 DEF TypeOK
    <3> QED
      BY <1>1, <3>1 DEF Steps, Exits
  <2>2. CASE q # r
    <3>1. pc'[q] = pc[q] /\ cfg'[q] = cfg[q] /\ idx'[q] = idx[q]
      BY <2>2 DEF TypeOK
    <3> QED
      BY <3>1 DEF TypeOK, Running
  <2> QED
    BY <2>1, <2>2
<1> QED
  BY <1>2, <1>3 DEF TypeOK, Running

\* The same for a step of a run under way that leaves all but pc and hook.
LEMMA MoveType ==
  ASSUME TypeOK, NEW r \in Runs, Running(r),
         NEW step \in Steps \union Exits, Goto(r, step),
         hook' \in [Slots -> Runs \union {None}],
         hook'["skb"] = None \/ hook'["drv"] = None,
         last' \in {last, "disturbed"},
         UNCHANGED <<pin, cfg, idx, stuck>>
  PROVE  TypeOK'
<1>1. cfg' = [cfg EXCEPT ![r] = cfg[r]] /\ idx' = [idx EXCEPT ![r] = idx[r]]
  BY DEF TypeOK
<1>2. cfg[r] \in Config /\ idx[r] \in 1 .. Len(MapsOf[cfg[r].file])
  BY RunningFacts
<1>3. /\ pin' \in [Maps -> Runs \union {None}] /\ last' \in Runs \union {None, "disturbed"}
      /\ stuck' \subseteq Runs
  BY DEF TypeOK
<1> QED
  BY <1>1, <1>2, <1>3, StepType DEF Goto

\* The same for a step of the loops over the maps.
LEMMA LoopType ==
  ASSUME TypeOK, NEW r \in Runs, Running(r),
         NEW step \in Steps \union Exits, Goto(r, step),
         NEW i \in 1 .. Len(MapsOf[cfg[r].file]), idx' = [idx EXCEPT ![r] = i],
         pin' \in [Maps -> Runs \union {None}],
         UNCHANGED <<hook, cfg, last, stuck>>
  PROVE  TypeOK'
<1>1. cfg' = [cfg EXCEPT ![r] = cfg[r]]
  BY DEF TypeOK
<1>2. cfg[r] \in Config
  BY RunningFacts
<1>3. /\ hook' \in [Slots -> Runs \union {None}]
      /\ hook'["skb"] = None \/ hook'["drv"] = None
      /\ last' \in Runs \union {None, "disturbed"} /\ stuck' \subseteq Runs
  BY DEF TypeOK
<1> QED
  BY <1>1, <1>2, <1>3, StepType DEF Goto

\* The state keeps its types, and native and generic mode are never attached
\* together.
THEOREM LoaderTypeCorrect == Spec => []TypeOK
<1>1. Init => TypeOK
  BY DEF Init, TypeOK, Running, Steps, Slots, Maps
<1>2. TypeOK /\ [Next]_vars => TypeOK'
  <2> SUFFICES ASSUME TypeOK, [Next]_vars PROVE TypeOK'
    OBVIOUS
  <2>1. ASSUME NEW r \in Runs, Start(r) PROVE TypeOK'
    <3>1. PICK c \in Config :
            /\ cfg' = [cfg EXCEPT ![r] = c]
            /\ Goto(r, IF c.unload THEN "query" ELSE "load")
      BY <2>1 DEF Start
    <3>2. c.file \in Files
      BY DEF Config
    <3>3. 1 \in 1 .. Len(MapsOf[c.file])
      BY <3>2, MapsFacts
    <3>4. idx' = [idx EXCEPT ![r] = 1]
      BY <2>1 DEF Start, TypeOK
    <3>5. PICK step \in Steps : pc' = [pc EXCEPT ![r] = step]
      BY <3>1 DEF Goto, Steps
    <3>6. /\ hook' \in [Slots -> Runs \union {None}]
          /\ hook'["skb"] = None \/ hook'["drv"] = None
          /\ pin' \in [Maps -> Runs \union {None}]
          /\ last' \in Runs \union {None, "disturbed"} /\ stuck' \subseteq Runs
      BY <2>1 DEF Start, TypeOK
    <3> QED
      BY <3>1, <3>3, <3>4, <3>5, <3>6, StepType
  <2>2. ASSUME NEW r \in Runs, Load(r) \/ Access(r) \/ Query(r) PROVE TypeOK'
    <3>1. PICK step \in Steps \union Exits : Goto(r, step)
      BY <2>2 DEF Load, Access, Query, Steps, Exits
    <3>2. Running(r) /\ UNCHANGED <<hook, pin, cfg, idx, last, stuck>>
      BY <2>2 DEF Load, Access, Query, Running, Steps
    <3> QED
      BY <3>1, <3>2, MoveType DEF TypeOK
  <2>3. ASSUME NEW r \in Runs, Attach(r) \/ Reattach(r) PROVE TypeOK'
    <3>1. Running(r) /\ UNCHANGED <<pin, cfg, idx, last, stuck>>
      BY <2>3 DEF Attach, Reattach, Running, Steps
    <3>2. CASE AttachError(cfg[r]) = "none" /\ Attached(r)
      <4>1. Goto(r, "access") /\ "access" \in Steps
        BY <3>2 DEF Attached, Steps
      <4> QED
        BY <3>1, <3>2, <4>1, AttachedType, MoveType
    <3>3. CASE UNCHANGED hook
      <4>1. PICK step \in Steps \union Exits : Goto(r, step)
        BY <2>3 DEF Attach, Reattach, Attached, AttachFailed, Steps, Exits
      <4> QED
        BY <3>1, <3>3, <4>1, MoveType DEF TypeOK
    <3> QED
      BY <2>3, <3>2, <3>3 DEF Attach, Reattach, AttachFailed
  <2>4. ASSUME NEW r \in Runs, DetachOpposite(r) \/ Detach(r) PROVE TypeOK'
    <3>1. Running(r) /\ UNCHANGED <<pin, cfg, idx, last, stuck>>
      BY <2>4 DEF DetachOpposite, Detach, Running, Steps
    <3>2. PICK step \in Steps \union Exits : Goto(r, step)
      BY <2>4 DEF DetachOpposite, Detach, AttachFailed, Steps, Exits
    <3>3. \/ UNCHANGED hook
          \/ \E mode : hook' = [hook EXCEPT ![Slot(mode)] = None]
      BY <2>4 DEF DetachOpposite, Detach, AttachFailed
    <3>4. /\ hook' \in [Slots -> Runs \union {None}]
          /\ hook'["skb"] = None \/ hook'["drv"] = None
      BY <3>3, DetachedType DEF TypeOK
    <3> QED
      BY <3>1, <3>2, <3>4, MoveType
  <2>5. ASSUME NEW r \in Runs, Unpin(r) \/ Pin(r) \/ Rollback(r) PROVE TypeOK'
    <3>1. Running(r) /\ UNCHANGED <<hook, cfg, last, stuck>>
      BY <2>5 DEF Unpin, Pin, Rollback, Running, Steps
    <3>2. /\ idx[r] \in 1 .. Len(MapsOf[cfg[r].file])
          /\ Len(MapsOf[cfg[r].file]) \in 1 .. 2
      BY <3>1, RunningFacts
    <3>3. pin' \in [Maps -> Runs \union {None}]
      BY <2>5 DEF Unpin, Pin, Rollback, TypeOK
    <3>4. pc = [pc EXCEPT ![r] = pc[r]] /\ idx = [idx EXCEPT ![r] = idx[r]]
      BY DEF TypeOK
    <3>5. PICK step \in Steps \union Exits : Goto(r, step)
      BY <2>5, <3>1, <3>4 DEF Unpin, Pin, Rollback, Goto, Running, Steps, Exits
    <3>6. PICK i \in 1 .. Len(MapsOf[cfg[r].file]) : idx' = [idx EXCEPT ![r] = i]
      <4>1. CASE UNCHANGED idx
        BY <3>2, <3>4, <4>1
      <4>2. CASE idx' = [idx EXCEPT ![r] = 1]
        <5>1. 1 \in 1 .. Len(MapsOf[cfg[r].file])
          BY <3>2
        <5> QED
          BY <4>2, <5>1
      <4>3. CASE ~LastMap(r) /\ idx' = [idx EXCEPT ![r] = idx[r] + 1]
        <5>1. idx[r] + 1 \in 1 .. Len(MapsOf[cfg[r].file])
          BY <3>2, <4>3 DEF LastMap
        <5> QED
          BY <4>3, <5>1
      <4>4. CASE idx[r] # 1 /\ idx' = [idx EXCEPT ![r] = idx[r] - 1]
        <5>1. idx[r] - 1 \in 1 .. Len(MapsOf[cfg[r].file])
          BY <3>2, <4>4
        <5> QED
          BY <4>4, <5>1
      <4>5. CASE Unpin(r)
        <5>1. CASE LastMap(r)
          BY <4>5, <5>1, <4>1, <4>2 DEF Unpin
        <5>2. CASE ~LastMap(r)
          BY <4>5, <5>2, <4>1, <4>3 DEF Unpin
        <5> QED
          BY <5>1, <5>2
      <4>6. CASE Pin(r)
        <5>1. CASE LastMap(r)
          BY <4>6, <5>1, <3>4, <4>1 DEF Pin
        <5>2. CASE ~LastMap(r)
          BY <4>6, <5>2, <4>1, <4>3 DEF Pin
        <5> QED
          BY <5>1, <5>2
      <4>7. CASE Rollback(r)
        BY <4>7, <4>1, <4>4 DEF Rollback
      <4> QED
        BY <2>5, <4>5, <4>6, <4>7
    <3> QED
      BY <3>1, <3>3, <3>5, <3>6, LoopType
  <2>6. ASSUME NEW r \in Runs, Kill(r) PROVE TypeOK'
    <3>1. /\ Running(r) /\ Goto(r, "killed") /\ "killed" \in Steps \union Exits
          /\ last' = "disturbed"
          /\ UNCHANGED <<hook, pin, cfg, idx, stuck>>
      BY <2>6 DEF Kill, Exits
    <3>2. /\ hook' \in [Slots -> Runs \union {None}]
          /\ hook'["skb"] = None \/ hook'["drv"] = None
      BY <3>1 DEF TypeOK
    <3> QED
      BY <3>1, <3>2, MoveType
  <2>7. ASSUME NEW r \in Runs, UnlinkFails(r) PROVE TypeOK'
    <3>1. /\ Running(r) /\ cfg' = [cfg EXCEPT ![r] = cfg[r]] /\ last' = "disturbed"
          /\ UNCHANGED <<hook, pin>> /\ stuck' \subseteq Runs
      BY <2>7 DEF UnlinkFails, Running, Steps, TypeOK
    <3>2. /\ cfg[r] \in Config /\ idx[r] \in 1 .. Len(MapsOf[cfg[r].file])
          /\ Len(MapsOf[cfg[r].file]) \in 1 .. 2
      BY <3>1, RunningFacts
    <3>3. PICK step \in Steps \union Exits : pc' = [pc EXCEPT ![r] = step]
      <4>1. pc = [pc EXCEPT ![r] = pc[r]] /\ pc[r] \in Steps
        BY <3>1 DEF TypeOK, Running
      <4> QED
        BY <2>7, <4>1 DEF UnlinkFails, Goto, Exits
    <3>4. PICK i \in 1 .. Len(MapsOf[cfg[r].file]) : idx' = [idx EXCEPT ![r] = i]
      <4>1. idx = [idx EXCEPT ![r] = idx[r]]
        BY DEF TypeOK
      <4>2. idx[r] > 1 => idx[r] - 1 \in 1 .. Len(MapsOf[cfg[r].file])
        BY <3>2
      <4> QED
        BY <2>7, <3>2, <4>1, <4>2 DEF UnlinkFails
    <3>5. /\ hook' \in [Slots -> Runs \union {None}]
          /\ hook'["skb"] = None \/ hook'["drv"] = None
          /\ pin' \in [Maps -> Runs \union {None}]
      BY <3>1 DEF TypeOK
    <3> QED
      BY <3>1, <3>2, <3>3, <3>4, <3>5, StepType
  <2>8. CASE UNCHANGED vars
    BY <2>8 DEF TypeOK, vars, Running
  <2> QED
    BY <2>1, <2>2, <2>3, <2>4, <2>5, <2>6, <2>7, <2>8 DEF Next, Step
<1> QED
  BY <1>1, <1>2, PTL DEF Spec

(***************************************************************************)
(* --force and --unload.  A run detaches steps after it has looked at its  *)
(* flags; the invariant keeps what it has seen.                            *)
(***************************************************************************)
FlagInv ==
  \A r \in Runs :
    /\ pc[r] \in {"detach_opposite", "reattach"} => cfg[r].force
    /\ pc[r] \in {"query", "detach"} => cfg[r].unload

\* A run is at a step that detaches only with the flag for it.
LEMMA FlagsKept == Spec => []FlagInv
<1>1. Init => FlagInv
  BY DEF Init, FlagInv
<1>2. TypeOK /\ FlagInv /\ [Next]_vars => FlagInv'
  <2> SUFFICES ASSUME TypeOK, FlagInv, [Next]_vars, NEW q \in Runs
               PROVE  /\ pc'[q] \in {"detach_opposite", "reattach"} => cfg'[q].force
                      /\ pc'[q] \in {"query", "detach"} => cfg'[q].unload
    BY DEF FlagInv
  <2>1. ASSUME NEW r \in Runs, Start(r)
        PROVE  /\ pc'[q] \in {"detach_opposite", "reattach"} => cfg'[q].force
               /\ pc'[q] \in {"query", "detach"} => cfg'[q].unload
    BY <2>1 DEF Start, Goto, FlagInv, TypeOK
  <2>2. ASSUME NEW r \in Runs, Step(r)
        PROVE  /\ pc'[q] \in {"detach_opposite", "reattach"} => cfg'[q].force
               /\ pc'[q] \in {"query", "detach"} => cfg'[q].unload
    <3>1. UNCHANGED cfg
      BY <2>2 DEF Step, Load, Attach, DetachOpposite, Reattach, Access, Unpin, Pin,
                  Rollback, Query, Detach
    <3>2. \/ pc'[q] = pc[q]
          \/ q = r /\ pc'[r] \notin {"detach_opposite", "reattach", "query", "detach"}
          \/ q = r /\ pc[r] = "attach" /\ cfg[r].force /\ pc'[r] = "detach_opposite"
          \/ q = r /\ pc[r] = "detach_opposite" /\ pc'[r] = "reattach"
          \/ q = r /\ pc[r] = "query" /\ pc'[r] = "detach"
      BY <2>2 DEF Step, Load, Attach, Attached, AttachFailed, DetachOpposite, Reattach,
                  Access, Unpin, Pin, Rollback, Query, Detach, Goto, TypeOK
    <3> QED
      BY <3>1, <3>2 DEF FlagInv
  <2>3. ASSUME NEW r \in Runs, UnlinkFails(r) \/ Kill(r)
        PROVE  /\ pc'[q] \in {"detach_opposite", "reattach"} => cfg'[q].force
               /\ pc'[q] \in {"query", "detach"} => cfg'[q].unload
    BY <2>3 DEF UnlinkFails, Kill, Goto, FlagInv, TypeOK
  <2>4. CASE UNCHANGED vars
    BY <2>4 DEF vars, FlagInv
  <2> QED
    BY <2>1, <2>2, <2>3, <2>4 DEF Next
<1> QED
  BY <1>1, <1>2, LoaderTypeCorrect, PTL DEF Spec

\* An attached program is replaced or removed only by a run with --force or
\* --unload: see OnlyForceReplaces.
THEOREM ReplacedByForce == Spec => OnlyForceReplaces
<1>1. TypeOK /\ FlagInv /\ [Next]_vars =>
        \A s \in Slots :
          hook[s] # None /\ hook'[s] # hook[s] =>
            \E r \in Runs : pc'[r] # pc[r] /\ (cfg[r].force \/ cfg[r].unload)
  <2> SUFFICES ASSUME TypeOK, FlagInv, [Next]_vars,
                      NEW s \in Slots, hook[s] # None, hook'[s] # hook[s]
               PROVE  \E r \in Runs : pc'[r] # pc[r] /\ (cfg[r].force \/ cfg[r].unload)
    OBVIOUS
  <2>1. PICK r \in Runs : Attach(r) \/ DetachOpposite(r) \/ Reattach(r) \/ Detach(r)
    BY DEF Next, Start, Step, Load, Access, Unpin, Pin, Rollback, Query, UnlinkFails,
           Kill, vars
  <2>2. pc'[r] # pc[r]
    BY <2>1 DEF Attach, Attached, AttachFailed, DetachOpposite, Reattach, Detach, Goto, TypeOK
  <2>3. cfg[r].force \/ cfg[r].unload
    <3>1. CASE Attach(r)
      <4>1. AttachError(cfg[r]) = "none" /\ hook' = [hook EXCEPT ![Slot(cfg[r].mode)] = r]
        BY <3>1 DEF Attach, Attached, AttachFailed
      <4>2. s = Slot(cfg[r].mode)
        BY <4>1 DEF TypeOK
      <4> QED
        BY <4>1, <4>2 DEF AttachError
    <3>2. CASE DetachOpposite(r) \/ Reattach(r)
      BY <3>2 DEF DetachOpposite, Reattach, FlagInv
    <3>3. CASE Detach(r)
      BY <3>3 DEF Detach, FlagInv
    <3> QED
      BY <2>1, <3>1, <3>2, <3>3
  <2> QED
    BY <2>2, <2>3
<1> QED
  BY <1>1, LoaderTypeCorrect, FlagsKept, PTL DEF Spec, OnlyForceReplaces

(***************************************************************************)
(* Failure.  FailedLeavesNothing is not inductive: a run pins while it     *)
(* still may fail.  The invariant says which names it may have pinned by   *)
(* where its loop is.  A run that could not unlink a map may keep it.      *)
(***************************************************************************)
Position(m) == IF m = "xdp_stats_map" THEN 1 ELSE 2

OwnInv ==
  \A r \in Runs :
    /\ \A m \in Maps : pin[m] = r =>
         \/ pc[r] \in {"EXIT_OK", "killed"}
         \/ r \in stuck /\ pc[r] # "new"
         \/ pc[r] \in {"pin", "rollback"} /\ Position(m) < idx[r]
    /\ \A s \in Slots : hook[s] = r =>
         pc[r] \in {"access", "unpin", "pin", "rollback",
                   "EXIT_OK", "EXIT_FAIL_BPF", "killed"}

\* Maps are pinned in the order of their positions.
LEMMA PositionFacts ==
  ASSUME TypeOK, NEW r \in Runs, Running(r)
  PROVE  /\ Position(Map(r)) = idx[r]
         /\ idx[r] \in {1, 2}
         /\ idx[r] = 2 => MapsOf[cfg[r].file][idx[r] - 1] = "xdp_stats_map"
<1>1. /\ idx[r] \in 1 .. Len(MapsOf[cfg[r].file])
      /\ Len(MapsOf[cfg[r].file]) \in 1 .. 2
      /\ cfg[r].file \in Files
  BY RunningFacts DEF Config
<1>2. \A n \in 1 .. 2 : \A i \in 1 .. n : i = 1 \/ (i = 2 /\ n = 2)
  OBVIOUS
<1>3. idx[r] = 1 \/ (idx[r] = 2 /\ Len(MapsOf[cfg[r].file]) = 2)
  BY <1>1, <1>2, Zenon
<1>4. /\ MapsOf[cfg[r].file][1] = "xdp_stats_map"
      /\ Len(MapsOf[cfg[r].file]) = 2 => MapsOf[cfg[r].file][2] = "connections_table"
  BY <1>1, MapsFacts
<1> QED
  BY <1>3, <1>4 DEF Position, Map

\* Where a run stands whose map is pinned or whose program is attached.
LEMMA OwnKept == Spec => []OwnInv
<1>1. Init => OwnInv
  <2>1. None \notin Runs
    BY LoaderAssumption
  <2> QED
    BY <2>1 DEF Init, OwnInv, Slots, Maps
<1>2. TypeOK /\ OwnInv /\ [Next]_vars => OwnInv'
  <2> SUFFICES ASSUME TypeOK, OwnInv, [Next]_vars PROVE OwnInv'
    OBVIOUS
  <2>1. ASSUME NEW r \in Runs, Start(r) PROVE OwnInv'
    BY <2>1 DEF Start, Goto, OwnInv, TypeOK
  <2>2. ASSUME NEW r \in Runs, Load(r) \/ Access(r) \/ Query(r) \/ Kill(r) PROVE OwnInv'
    BY <2>2 DEF Load, Access, Query, Kill, Goto, OwnInv, TypeOK
  <2>3. ASSUME NEW r \in Runs, Attach(r) \/ Reattach(r) PROVE OwnInv'
    <3>1. /\ pc[r] \in {"attach", "reattach"} /\ UNCHANGED <<pin, idx, stuck>>
          /\ pc'[r] # "new"
          /\ \A q \in Runs : q # r => pc'[q] = pc[q]
      BY <2>3 DEF Attach, Reattach, Attached, AttachFailed, Goto, TypeOK
    <3>2. \/ pc'[r] = "access" /\ \A s \in Slots : hook'[s] \in {hook[s], r}
          \/ UNCHANGED hook
      BY <2>3 DEF Attach, Reattach, Attached, AttachFailed, Goto, TypeOK
    <3>3. (\A m \in Maps : pin[m] = r => r \in stuck) /\ (\A s \in Slots : hook[s] # r)
      BY <3>1 DEF OwnInv
    <3> QED
      BY <3>1, <3>2, <3>3 DEF OwnInv
  <2>4. ASSUME NEW r \in Runs, DetachOpposite(r) \/ Detach(r) PROVE OwnInv'
    BY <2>4, LoaderAssumption
       DEF DetachOpposite, Detach, AttachFailed, Goto, OwnInv, TypeOK
  <2>5. ASSUME NEW r \in Runs, Unpin(r) PROVE OwnInv'
    BY <2>5, LoaderAssumption DEF Unpin, Goto, OwnInv, TypeOK
  <2>6. ASSUME NEW r \in Runs, Pin(r) PROVE OwnInv'
    <3>1. Running(r)
      BY <2>6 DEF Pin, Running, Steps
    <3>2. Position(Map(r)) = idx[r] /\ idx[r] \in {1, 2} /\ Map(r) \in Maps
      BY <3>1, PositionFacts, RunningFacts
    <3>3. \A q \in Runs : q # r => pc'[q] = pc[q] /\ idx'[q] = idx[q]
      BY <2>6 DEF Pin, Goto, TypeOK
    <3>4. pc[r] = "pin" /\ UNCHANGED <<hook, stuck>>
      BY <2>6 DEF Pin
    <3>5. CASE pc'[r] = "rollback" /\ UNCHANGED <<pin, idx>>
      BY <3>3, <3>4, <3>5 DEF OwnInv
    <3>6. CASE /\ pin' = [pin EXCEPT ![Map(r)] = r]
               /\ pc'[r] = "EXIT_OK" \/ (pc'[r] = "pin" /\ idx'[r] = idx[r] + 1)
      BY <3>2, <3>3, <3>4, <3>6 DEF OwnInv, TypeOK, Position
    <3> QED
      BY <2>6, <3>5, <3>6 DEF Pin, Goto, TypeOK
  <2>7. ASSUME NEW r \in Runs, Rollback(r) PROVE OwnInv'
    <3>1. Running(r)
      BY <2>7 DEF Rollback, Running, Steps
    <3>2. /\ idx[r] \in {1, 2}
          /\ idx[r] = 2 => MapsOf[cfg[r].file][idx[r] - 1] = "xdp_stats_map"
      BY <3>1, PositionFacts
    <3>3. \A q \in Runs : q # r => pc'[q] = pc[q] /\ idx'[q] = idx[q]
      BY <2>7 DEF Rollback, Goto, TypeOK
    <3>4. pc[r] = "rollback" /\ UNCHANGED <<hook, stuck>>
      BY <2>7 DEF Rollback
    <3>5. CASE idx[r] = 1
      <4>1. pc'[r] = "EXIT_FAIL_BPF" /\ UNCHANGED <<pin, idx>>
        BY <2>7, <3>5 DEF Rollback, Goto, TypeOK
      <4>2. \A m \in Maps : pin[m] = r => r \in stuck
        BY <3>4, <3>5 DEF OwnInv, Position
      <4> QED
        BY <3>3, <3>4, <4>1, <4>2 DEF OwnInv
    <3>6. CASE idx[r] = 2
      <4>1. /\ pin' = [pin EXCEPT !["xdp_stats_map"] = None]
            /\ UNCHANGED pc
        BY <2>7, <3>2, <3>6 DEF Rollback
      <4>2. \A m \in Maps : pin'[m] = r => r \in stuck
        BY <3>4, <3>6, <4>1, LoaderAssumption DEF OwnInv, Position, Maps, TypeOK
      <4>3. \A m \in Maps : pin'[m] \in {pin[m], None}
        BY <4>1 DEF TypeOK
      <4> QED
        BY <3>3, <3>4, <4>1, <4>2, <4>3, LoaderAssumption DEF OwnInv
    <3> QED
      BY <3>2, <3>5, <3>6
  <2>8. ASSUME NEW r \in Runs, UnlinkFails(r) PROVE OwnInv'
    <3>1. /\ UNCHANGED <<hook, pin>> /\ stuck \subseteq stuck'
          /\ \A q \in Runs : q # r => pc'[q] = pc[q] /\ idx'[q] = idx[q]
          /\ pc[r] \in {"unpin", "rollback"} /\ pc'[r] \in {"rollback", "EXIT_FAIL_BPF"}
          /\ pc[r] = "rollback" => r \in stuck'
      BY <2>8 DEF UnlinkFails, Goto, TypeOK
    <3> QED
      BY <3>1 DEF OwnInv
  <2>9. CASE UNCHANGED vars
    BY <2>9 DEF vars, OwnInv
  <2> QED
    BY <2>1, <2>2, <2>3, <2>4, <2>5, <2>6, <2>7, <2>8, <2>9 DEF Next, Step
<1> QED
  BY <1>1, <1>2, LoaderTypeCorrect, PTL DEF Spec

\* A run that failed has no pin unless one of its unlinks failed, and one that
\* could not attach is not attached, with any runs at the same time: see
\* FailedLeavesNothing.
THEOREM FailureLeavesNothing == Spec => []FailedLeavesNothing
<1>1. OwnInv => FailedLeavesNothing
  BY DEF OwnInv, FailedLeavesNothing
<1> QED
  BY <1>1, OwnKept, PTL

(***************************************************************************)
(* Runs one after the other.  What the last run leaves depends on how far  *)
(* it got; the invariant follows it step by step, and the runs before it   *)
(* appear only through what they left attached and pinned.                 *)
(***************************************************************************)
Pinning == {"access", "unpin", "pin", "rollback"}

Loaded(r) == pc[r] = "EXIT_OK" /\ ~cfg[r].unload

\* xdp_stats_map and the hook, by the position of run r.
StatsInv(r) ==
  /\ pc[r] \in Pinning \/ Loaded(r) => hook[Slot(cfg[r].mode)] = r
  /\ pc[r] \in Steps \ {"unpin", "pin", "rollback"} => idx[r] = 1
  /\ pc[r] = "unpin" => (pin["xdp_stats_map"] # None <=> idx[r] = 1)
  /\ pc[r] \in {"pin", "rollback"} =>
       pin["xdp_stats_map"] = IF idx[r] = 1 THEN None ELSE r
  /\ Loaded(r) => \A i \in DOMAIN MapsOf[cfg[r].file] : pin[MapsOf[cfg[r].file][i]] = r
  /\ pc[r] \notin Pinning /\ pin["xdp_stats_map"] # None =>
       \A s \in Slots : hook[s] \in {None, pin["xdp_stats_map"]}

\* The two maps of syncookie.o.
PairInv(r) ==
  SameFile /\ cfg[r].file = "syncookie.o" =>
    /\ pc[r] = "unpin" /\ idx[r] = 2 => pin["connections_table"] # None
    /\ pc[r] \in {"pin", "rollback"} => pin["connections_table"] = None
    /\ ~(pc[r] = "unpin" /\ idx[r] = 2) /\ pc[r] \notin {"pin", "rollback"} =>
         pin["connections_table"] = pin["xdp_stats_map"]

CalmInv ==
  /\ \A r \in Runs : IF pc[r] = "new" THEN cfg[r] = None ELSE cfg[r] \in Config
  /\ Calm =>
       /\ \A r \in Runs : Running(r) => r = last
       /\ last = None =>
            /\ \A r \in Runs : pc[r] = "new"
            /\ \A m \in Maps : pin[m] = None
            /\ \A s \in Slots : hook[s] = None
       /\ last \in Runs => pc[last] # "new" /\ StatsInv(last) /\ PairInv(last)

\* The object with two maps is syncookie.o.
LEMMA TwoMaps ==
  ASSUME NEW f \in Files
  PROVE  /\ f = "syncookie.o" <=> Len(MapsOf[f]) = 2
         /\ DOMAIN MapsOf[f] = 1 .. Len(MapsOf[f])
<1>1. f \in {"syncookie.o", "xdp_prog_kern.o"}
  BY LoaderAssumption
<1>2. CASE f = "syncookie.o"
  <2>1. MapsOf[f] = <<"xdp_stats_map", "connections_table">>
    BY <1>2 DEF MapsOf
  <2> QED
    BY <1>2, <2>1
<1>3. CASE f = "xdp_prog_kern.o"
  <2>1. MapsOf[f] = <<"xdp_stats_map">>
    BY <1>3 DEF MapsOf
  <2> QED
    BY <1>3, <2>1
<1> QED
  BY <1>1, <1>2, <1>3

\* The map a run under way is at, by its position.
LEMMA MapByIndex ==
  ASSUME TypeOK, NEW r \in Runs, Running(r)
  PROVE  /\ idx[r] \in {1, 2}
         /\ idx[r] = 1 => Map(r) = "xdp_stats_map"
         /\ idx[r] = 2 => Map(r) = "connections_table" /\ LastMap(r)
         /\ ~LastMap(r) => idx[r] = 1 /\ cfg[r].file = "syncookie.o"
         /\ LastMap(r) /\ cfg[r].file = "syncookie.o" => idx[r] = 2
         /\ LastMap(r) /\ idx[r] = 1 => \A i \in DOMAIN MapsOf[cfg[r].file] : i = 1
         /\ \A i \in DOMAIN MapsOf[cfg[r].file] :
              MapsOf[cfg[r].file][i] = IF i = 1 THEN "xdp_stats_map" ELSE "connections_table"
<1> DEFINE f == cfg[r].file
           n == Len(MapsOf[f])
<1>1. f \in Files /\ n \in 1 .. 2 /\ idx[r] \in 1 .. n
  BY RunningFacts DEF Config
<1>2. /\ MapsOf[f][1] = "xdp_stats_map" /\ (n = 2 => MapsOf[f][2] = "connections_table")
      /\ (f = "syncookie.o" <=> n = 2) /\ DOMAIN MapsOf[f] = 1 .. n
  BY <1>1, MapsFacts, TwoMaps
<1>3. /\ Map(r) = MapsOf[f][idx[r]]
      /\ LastMap(r) <=> idx[r] = n
  BY DEF Map, LastMap
<1> HIDE DEF f, n
<1>4. n = 1 \/ n = 2
  BY <1>1
<1>5. /\ n = 1 => idx[r] = 1 /\ 1 .. n = {1}
      /\ n = 2 => idx[r] \in {1, 2} /\ 1 .. n = {1, 2}
  BY <1>1
<1>6. CASE n = 1
  BY <1>2, <1>3, <1>5, <1>6 DEF f
<1>7. CASE n = 2
  BY <1>2, <1>3, <1>5, <1>7 DEF f
<1> QED
  BY <1>4, <1>6, <1>7

\* The last run is followed step by step.
LEMMA CalmStep ==
  ASSUME TypeOK, CalmInv, NEW r \in Runs, Running(r),
         NEW step \in Steps \union Exits, pc' = [pc EXCEPT ![r] = step],
         cfg' = cfg, last' = last,
         Calm => StatsInv(r)' /\ PairInv(r)'
  PROVE  CalmInv'
<1>1. /\ pc'[r] # "new" /\ pc[r] # "new"
      /\ \A q \in Runs : q # r => pc'[q] = pc[q]
  BY DEF TypeOK, Steps, Exits, Running
<1>2. \A q \in Runs : IF pc'[q] = "new" THEN cfg'[q] = None ELSE cfg'[q] \in Config
  BY <1>1 DEF CalmInv
<1>3. CASE ~Calm
  BY <1>2, <1>3 DEF CalmInv, Calm
<1>4. CASE Calm
  <2>1. last = r
    BY <1>4 DEF CalmInv
  <2>2. \A q \in Runs : pc'[q] \in Steps => q = r
    BY <1>1, <1>4, <2>1 DEF CalmInv, Running
  <2>3. last # None
    BY <2>1, LoaderAssumption
  <2> QED
    BY <1>1, <1>2, <1>4, <2>1, <2>2, <2>3 DEF CalmInv, Calm, Running
<1> QED
  BY <1>3, <1>4

\* A run that starts alone finds what the run before it left.
LEMMA CalmStart ==
  ASSUME TypeOK, CalmInv, NEW r \in Runs, Start(r)
  PROVE  CalmInv'
<1>1. PICK c \in Config : /\ cfg' = [cfg EXCEPT ![r] = c]
                          /\ pc' = [pc EXCEPT ![r] = IF c.unload THEN "query" ELSE "load"]
  BY DEF Start, Goto
<1>2. /\ pc[r] = "new" /\ hook' = hook /\ pin' = pin /\ idx' = idx
      /\ last' = IF Quiet /\ Calm THEN r ELSE "disturbed"
  BY DEF Start
<1>3. /\ cfg'[r] = c /\ pc'[r] \in {"query", "load"} /\ idx[r] = 1
      /\ \A q \in Runs : q # r => cfg'[q] = cfg[q] /\ pc'[q] = pc[q]
  BY <1>1, <1>2 DEF TypeOK
<1>4. \A q \in Runs : IF pc'[q] = "new" THEN cfg'[q] = None ELSE cfg'[q] \in Config
  BY <1>3 DEF CalmInv
<1>5. CASE ~(Quiet /\ Calm)
  BY <1>2, <1>4, <1>5 DEF CalmInv, Calm
<1>6. CASE Quiet /\ Calm
  <2>1. last' = r /\ r # None
    BY <1>2, <1>6, LoaderAssumption
  <2>2. \A q \in Runs : pc'[q] \in Steps => q = r
    BY <1>3, <1>6 DEF Quiet, Running
  <2>3. CASE last = None
    <3>1. /\ \A m \in Maps : pin[m] = None
          /\ \A s \in Slots : hook[s] = None
      BY <1>6, <2>3 DEF CalmInv
    <3>2. StatsInv(r)' /\ PairInv(r)'
      BY <1>2, <1>3, <3>1 DEF StatsInv, PairInv, Pinning, Loaded, Maps
    <3> QED
      BY <1>3, <1>4, <2>1, <2>2, <3>2 DEF CalmInv, Running
  <2>4. CASE last \in Runs
    <3>1. last # r /\ pc[last] # "new" /\ StatsInv(last) /\ PairInv(last) /\ pc[last] \notin Steps
      BY <1>2, <1>6, <2>4 DEF CalmInv, Quiet, Running
    <3>2. pc[last] \notin Pinning /\ pc[last] # "unpin" /\ pc[last] \notin {"pin", "rollback"}
      BY <3>1 DEF Pinning, Steps
    <3>3. pin["xdp_stats_map"] # None => \A s \in Slots : hook[s] \in {None, pin["xdp_stats_map"]}
      BY <3>1, <3>2 DEF StatsInv
    <3>4. StatsInv(r)'
      BY <1>2, <1>3, <3>3 DEF StatsInv, Pinning, Loaded
    <3>5. PairInv(r)'
      <4> SUFFICES ASSUME SameFile', c.file = "syncookie.o"
                   PROVE  pin["connections_table"] = pin["xdp_stats_map"]
        BY <1>2, <1>3 DEF PairInv
      <4>1. cfg[last] # None /\ c # None /\ cfg'[last] = cfg[last]
        BY <1>3, <2>4, <3>1, LoaderAssumption DEF CalmInv
      <4>2. cfg[last].file = "syncookie.o"
        BY <1>3, <2>4, <4>1 DEF SameFile
      <4>3. SameFile
        <5>1. cfg[r] = None
          BY <1>2 DEF CalmInv
        <5> QED
          BY <1>3, <5>1 DEF SameFile
      <4> QED
        BY <3>1, <3>2, <4>2, <4>3 DEF PairInv
    <3> QED
      BY <1>3, <1>4, <2>1, <2>2, <3>4, <3>5 DEF CalmInv, Running
  <2> QED
    BY <1>6, <2>3, <2>4 DEF TypeOK, Calm
<1> QED
  BY <1>5, <1>6

\* The steps before the loops over the maps.
LEMMA CalmAttach ==
  ASSUME TypeOK, FlagInv, CalmInv, NEW r \in Runs,
         Load(r) \/ Attach(r) \/ DetachOpposite(r) \/ Reattach(r) \/ Access(r) \/ Query(r) \/ Detach(r)
  PROVE  CalmInv'
<1>1. /\ pc[r] \in {"load", "attach", "detach_opposite", "reattach", "access", "query", "detach"}
      /\ Running(r) /\ pin' = pin /\ cfg' = cfg /\ idx' = idx /\ last' = last
  BY DEF Load, Attach, DetachOpposite, Reattach, Access, Query, Detach, Running, Steps
<1>2. PICK step \in Steps \union Exits : pc' = [pc EXCEPT ![r] = step]
  <2>1. CASE Load(r) \/ Access(r) \/ Query(r)
    BY <2>1 DEF Load, Access, Query, Goto, Steps, Exits
  <2>2. CASE Attach(r) \/ Reattach(r)
    BY <2>2 DEF Attach, Reattach, Attached, AttachFailed, Goto, Steps, Exits
  <2>3. CASE DetachOpposite(r) \/ Detach(r)
    BY <2>3 DEF DetachOpposite, Detach, AttachFailed, Goto, Steps, Exits
  <2> QED
    BY <2>1, <2>2, <2>3
<1>3. pc'[r] = step
  BY <1>2 DEF TypeOK
<1>4. ASSUME Calm PROVE StatsInv(r)' /\ PairInv(r)'
  <2>1. StatsInv(r) /\ PairInv(r)
    BY <1>1, <1>4 DEF CalmInv
  <2>2. idx[r] = 1 /\ idx'[r] = 1
    BY <1>1, <2>1 DEF StatsInv, Steps
  <2>3. /\ pin["xdp_stats_map"] # None /\ pc[r] # "access" =>
             \A s \in Slots : hook[s] \in {None, pin["xdp_stats_map"]}
        /\ SameFile /\ cfg[r].file = "syncookie.o" => pin["connections_table"] = pin["xdp_stats_map"]
    BY <1>1, <2>1, <2>2 DEF StatsInv, PairInv, Pinning
  <2>4. SameFile' <=> SameFile
    BY <1>1 DEF SameFile
  <2>5. CASE Attached(r)
    <3>1. step = "access" /\ hook'[Slot(cfg[r].mode)] = r
      BY <1>2, <1>3, <2>5, SlotFacts DEF Attached, Goto, TypeOK
    <3>2. StatsInv(r)'
      BY <1>1, <1>3, <2>2, <3>1 DEF StatsInv, Pinning, Loaded
    <3>3. PairInv(r)'
      BY <1>1, <1>3, <2>3, <2>4, <3>1 DEF PairInv
    <3> QED
      BY <3>2, <3>3
  <2>6. CASE Access(r)
    <3>1. /\ step = IF pin["xdp_stats_map"] # None THEN "unpin" ELSE "pin"
          /\ hook' = hook /\ hook[Slot(cfg[r].mode)] = r
      BY <1>3, <2>1, <2>6 DEF Access, Goto, TypeOK, StatsInv, Pinning
    <3>2. StatsInv(r)'
      BY <1>1, <1>3, <2>2, <3>1 DEF StatsInv, Pinning, Loaded
    <3>3. PairInv(r)'
      BY <1>1, <1>3, <2>2, <2>3, <2>4, <3>1 DEF PairInv
    <3> QED
      BY <3>2, <3>3
  <2>7. CASE ~Attached(r) /\ ~Access(r)
    <3>1. /\ pc[r] # "access"
          /\ step \in {"attach", "detach_opposite", "reattach", "detach", "EXIT_FAIL_BPF", "EXIT_FAIL_XDP"}
             \/ (step = "EXIT_OK" /\ cfg[r].unload)
      BY <1>3, <2>7 DEF Load, Attach, DetachOpposite, Reattach, Query, Detach, AttachFailed, Goto, TypeOK, FlagInv
    <3>2. \A s \in Slots : hook'[s] \in {hook[s], None}
      BY <2>7 DEF Load, Attach, DetachOpposite, Reattach, Query, Detach, AttachFailed, TypeOK
    <3>3. StatsInv(r)'
      BY <1>1, <1>3, <2>2, <2>3, <3>1, <3>2 DEF StatsInv, Pinning, Loaded
    <3>4. PairInv(r)'
      BY <1>1, <1>3, <2>3, <2>4, <3>1 DEF PairInv
    <3> QED
      BY <3>3, <3>4
  <2> QED
    BY <2>5, <2>6, <2>7
<1> QED
  BY <1>1, <1>2, <1>4, CalmStep

\* The loops over the maps.
LEMMA CalmLoop ==
  ASSUME TypeOK, CalmInv, NEW r \in Runs, Unpin(r) \/ Pin(r) \/ Rollback(r)
  PROVE  CalmInv'
<1>1. /\ pc[r] \in {"unpin", "pin", "rollback"}
      /\ Running(r) /\ hook' = hook /\ cfg' = cfg /\ last' = last
  BY DEF Unpin, Pin, Rollback, Running, Steps
<1>2. PICK step \in Steps \union Exits : pc' = [pc EXCEPT ![r] = step]
  <2>1. pc = [pc EXCEPT ![r] = pc[r]] /\ pc[r] \in Steps
    BY <1>1 DEF TypeOK, Running
  <2> QED
    BY <2>1 DEF Unpin, Pin, Rollback, Goto, Steps, Exits
<1>3. pc'[r] = step
  BY <1>2 DEF TypeOK
<1>4. /\ idx[r] \in {1, 2}
      /\ idx[r] = 1 => Map(r) = "xdp_stats_map"
      /\ idx[r] = 2 => Map(r) = "connections_table" /\ LastMap(r)
      /\ ~LastMap(r) => idx[r] = 1 /\ cfg[r].file = "syncookie.o"
      /\ LastMap(r) /\ cfg[r].file = "syncookie.o" => idx[r] = 2
      /\ LastMap(r) /\ idx[r] = 1 => \A i \in DOMAIN MapsOf[cfg[r].file] : i = 1
      /\ \A i \in DOMAIN MapsOf[cfg[r].file] :
           MapsOf[cfg[r].file][i] = IF i = 1 THEN "xdp_stats_map" ELSE "connections_table"
  BY <1>1, MapByIndex
<1>5. /\ pin \in [Maps -> Runs \union {None}] /\ r # None /\ idx \in [Runs -> 1 .. 2]
      /\ "xdp_stats_map" \in Maps /\ "connections_table" \in Maps
  BY LoaderAssumption DEF TypeOK, Maps
<1>6. ASSUME Calm PROVE StatsInv(r)' /\ PairInv(r)'
  <2>1. StatsInv(r) /\ PairInv(r)
    BY <1>1, <1>6 DEF CalmInv
  <2>2. SameFile' <=> SameFile
    BY <1>1 DEF SameFile
  <2>3. hook'[Slot(cfg[r].mode)] = r
    BY <1>1, <2>1 DEF StatsInv, Pinning
  <2>4. hook'["skb"] \in {r, None} /\ hook'["drv"] \in {r, None}
    <3>1. Slot(cfg[r].mode) \in {"skb", "drv"}
      BY DEF Slot
    <3>2. hook'["skb"] = None \/ hook'["drv"] = None
      BY <1>1 DEF TypeOK
    <3> QED
      BY <1>5, <2>3, <3>1, <3>2
  <2>5. CASE Unpin(r)
    <3>1. pc[r] = "unpin" /\ pin' = [pin EXCEPT ![Map(r)] = None]
      BY <2>5 DEF Unpin
    <3>2. pin["xdp_stats_map"] # None <=> idx[r] = 1
      BY <2>1, <3>1 DEF StatsInv
    <3>3. pin'["xdp_stats_map"] = None
      BY <1>4, <1>5, <3>1, <3>2
    <3>4. CASE pin[Map(r)] = None
      <4>1. step = "EXIT_FAIL_BPF" /\ idx[r] = 2 /\ pin["connections_table"] = None
        BY <1>3, <1>4, <2>5, <3>2, <3>4 DEF Unpin, Goto, TypeOK
      <4>2. StatsInv(r)'
        BY <1>3, <3>3, <4>1 DEF StatsInv, Pinning, Loaded, Steps
      <4>3. PairInv(r)'
        BY <1>1, <2>1, <2>2, <3>1, <4>1 DEF PairInv
      <4> QED
        BY <4>2, <4>3
    <3>5. CASE pin[Map(r)] # None /\ LastMap(r)
      <4>1. step = "pin" /\ idx'[r] = 1
        BY <1>3, <1>5, <2>5, <3>5 DEF Unpin, Goto, TypeOK
      <4>2. StatsInv(r)'
        BY <1>1, <1>3, <2>3, <3>3, <4>1 DEF StatsInv, Pinning, Loaded
      <4>3. PairInv(r)'
        BY <1>1, <1>3, <1>4, <1>5, <2>2, <3>1, <3>5, <4>1 DEF PairInv
      <4> QED
        BY <4>2, <4>3
    <3>6. CASE pin[Map(r)] # None /\ ~LastMap(r)
      <4>1. step = "unpin" /\ idx[r] = 1 /\ idx'[r] = 2
        <5>1. Goto(r, "unpin") /\ idx' = [idx EXCEPT ![r] = idx[r] + 1]
          BY <2>5, <3>6 DEF Unpin
        <5>2. pc'[r] = "unpin"
          BY <5>1 DEF Goto, TypeOK
        <5>3. idx[r] = 1
          BY <1>4, <3>6
        <5>4. idx'[r] = idx[r] + 1
          BY <1>5, <5>1
        <5> QED
          BY <1>3, <5>2, <5>3, <5>4
      <4>2. StatsInv(r)'
        <5>1. pc'[r] = "unpin" /\ ~Loaded(r)' /\ idx'[r] # 1
          BY <1>3, <4>1 DEF Loaded
        <5> QED
          BY <1>1, <2>3, <3>3, <5>1 DEF StatsInv, Pinning
      <4>3. pin'["connections_table"] = pin["connections_table"]
        BY <1>4, <1>5, <3>1, <4>1
      <4>4. PairInv(r)'
        BY <1>1, <1>3, <2>1, <2>2, <3>1, <3>2, <4>1, <4>3 DEF PairInv
      <4> QED
        BY <4>2, <4>4
    <3> QED
      BY <3>4, <3>5, <3>6
  <2>6. CASE Pin(r)
    <3>1. /\ pc[r] = "pin"
          /\ pin["xdp_stats_map"] = IF idx[r] = 1 THEN None ELSE r
          /\ SameFile /\ cfg[r].file = "syncookie.o" => pin["connections_table"] = None
      BY <2>1, <2>6 DEF Pin, StatsInv, PairInv
    <3>2. CASE step = "rollback"
      <4>1. pin' = pin /\ idx' = idx
        BY <1>3, <2>6, <3>2 DEF Pin, Goto, TypeOK
      <4>2. StatsInv(r)'
        BY <1>1, <1>3, <2>3, <3>1, <3>2, <4>1 DEF StatsInv, Pinning, Loaded
      <4>3. PairInv(r)'
        BY <1>1, <1>3, <2>2, <3>1, <3>2, <4>1 DEF PairInv
      <4> QED
        BY <4>2, <4>3
    <3>3. CASE step # "rollback"
      <4>1. /\ pin' = [pin EXCEPT ![Map(r)] = r]
            /\ step = IF LastMap(r) THEN "EXIT_OK" ELSE "pin"
            /\ idx'[r] = IF LastMap(r) THEN idx[r] ELSE idx[r] + 1
        BY <1>3, <1>5, <2>6, <3>3 DEF Pin, Goto, TypeOK
      <4>2. pin'["xdp_stats_map"] = r
        BY <1>4, <1>5, <3>1, <4>1
      <4>3. CASE LastMap(r)
        <5>1. \A i \in DOMAIN MapsOf[cfg[r].file] : pin'[MapsOf[cfg[r].file][i]] = r
          <6>1. CASE idx[r] = 1
            BY <1>4, <4>2, <4>3, <6>1
          <6>2. CASE idx[r] = 2
            <7>1. pin'["connections_table"] = r
              BY <1>4, <1>5, <4>1, <6>2
            <7> QED
              BY <1>4, <4>2, <7>1
          <6> QED
            BY <1>4, <6>1, <6>2
        <5>2. StatsInv(r)'
          BY <1>1, <1>3, <2>3, <2>4, <4>1, <4>2, <4>3, <5>1 DEF StatsInv, Pinning, Loaded, Slots, Steps
        <5>3. PairInv(r)'
          BY <1>1, <1>3, <1>4, <1>5, <4>1, <4>2, <4>3 DEF PairInv
        <5> QED
          BY <5>2, <5>3
      <4>4. CASE ~LastMap(r)
        <5>1. step = "pin" /\ idx'[r] = 2 /\ pin'["connections_table"] = pin["connections_table"]
          <6>1. idx[r] = 1 /\ Map(r) = "xdp_stats_map"
            BY <1>4, <4>4
          <6>2. pin'["connections_table"] = pin["connections_table"]
            BY <1>5, <4>1, <6>1
          <6>3. step = "pin" /\ idx'[r] = idx[r] + 1
            BY <4>1, <4>4
          <6> QED
            BY <6>1, <6>2, <6>3
        <5>2. StatsInv(r)'
          <6>1. pc'[r] = "pin" /\ ~Loaded(r)' /\ idx'[r] # 1
            BY <1>3, <5>1 DEF Loaded
          <6> QED
            BY <1>1, <2>3, <4>2, <6>1 DEF StatsInv, Pinning
        <5>3. PairInv(r)'
          BY <1>1, <1>3, <2>2, <3>1, <5>1 DEF PairInv
        <5> QED
          BY <5>2, <5>3
      <4> QED
        BY <4>3, <4>4
    <3> QED
      BY <3>2, <3>3
  <2>7. CASE Rollback(r)
    <3>1. /\ pc[r] = "rollback"
          /\ pin["xdp_stats_map"] = IF idx[r] = 1 THEN None ELSE r
          /\ SameFile /\ cfg[r].file = "syncookie.o" => pin["connections_table"] = None
      BY <2>1, <2>7 DEF Rollback, StatsInv, PairInv
    <3>2. CASE idx[r] = 1
      <4>1. step = "EXIT_FAIL_BPF" /\ pin' = pin
        BY <1>3, <2>7, <3>2 DEF Rollback, Goto, TypeOK
      <4>2. StatsInv(r)'
        BY <1>3, <3>1, <3>2, <4>1 DEF StatsInv, Pinning, Loaded, Steps
      <4>3. PairInv(r)'
        BY <1>1, <1>3, <2>2, <3>1, <3>2, <4>1 DEF PairInv
      <4> QED
        BY <4>2, <4>3
    <3>3. CASE idx[r] = 2
      <4>1. MapsOf[cfg[r].file][idx[r] - 1] = "xdp_stats_map"
        BY <1>1, <3>3, PositionFacts
      <4>2. step = "rollback" /\ idx'[r] = 1 /\ pin' = [pin EXCEPT !["xdp_stats_map"] = None]
        BY <1>3, <1>5, <2>7, <3>1, <3>3, <4>1 DEF Rollback
      <4>3. pin'["xdp_stats_map"] = None /\ pin'["connections_table"] = pin["connections_table"]
        BY <1>5, <4>2
      <4>4. StatsInv(r)'
        BY <1>1, <1>3, <2>3, <4>2, <4>3 DEF StatsInv, Pinning, Loaded
      <4>5. PairInv(r)'
        BY <1>1, <1>3, <2>2, <3>1, <4>2, <4>3 DEF PairInv
      <4> QED
        BY <4>4, <4>5
    <3> QED
      BY <1>4, <3>2, <3>3
  <2> QED
    BY <2>5, <2>6, <2>7
<1> QED
  BY <1>1, <1>2, <1>6, CalmStep

\* What the last run left is what it was for, whatever the runs before it did.
LEMMA CalmKept == Spec => []CalmInv
<1>1. Init => CalmInv
  BY LoaderAssumption DEF Init, CalmInv, Running, Steps
<1>2. TypeOK /\ FlagInv /\ CalmInv /\ [Next]_vars => CalmInv'
  <2> SUFFICES ASSUME TypeOK, FlagInv, CalmInv, [Next]_vars PROVE CalmInv'
    OBVIOUS
  <2>1. ASSUME NEW r \in Runs, Start(r) PROVE CalmInv'
    BY <2>1, CalmStart
  <2>2. ASSUME NEW r \in Runs, Step(r) PROVE CalmInv'
    BY <2>2, CalmAttach, CalmLoop DEF Step
  <2>3. ASSUME NEW r \in Runs, UnlinkFails(r) \/ Kill(r) PROVE CalmInv'
    <3>1. pc[r] # "new" /\ pc'[r] # "new" /\ cfg' = cfg /\ ~Calm'
      BY <2>3 DEF UnlinkFails, Kill, Goto, Running, Steps, TypeOK, Calm
    <3>2. \A q \in Runs : q # r => pc'[q] = pc[q]
      BY <2>3 DEF UnlinkFails, Kill, Goto, TypeOK
    <3> QED
      BY <3>1, <3>2 DEF CalmInv
  <2>4. CASE UNCHANGED vars
    BY <2>4 DEF vars, CalmInv, StatsInv, PairInv, Calm, Running, Loaded, SameFile
  <2> QED
    BY <2>1, <2>2, <2>3, <2>4 DEF Next
<1> QED
  BY <1>1, <1>2, LoaderTypeCorrect, FlagsKept, PTL DEF Spec

\* A load that exits with EXIT_OK is complete, on any driver and after any
\* earlier runs: see LoadIsComplete.
THEOREM LoadCompletes == Spec => []LoadIsComplete
<1>1. CalmInv => LoadIsComplete
  BY LoaderAssumption DEF CalmInv, LoadIsComplete, Calm, StatsInv, Loaded
<1> QED
  BY <1>1, CalmKept, PTL

\* The pinned maps of syncookie.o are one run's or none: see PinsAllOrNothing.
THEOREM PinsTogether == Spec => []PinsAllOrNothing
<1>1. TypeOK /\ CalmInv => PinsAllOrNothing
  <2> SUFFICES ASSUME TypeOK, CalmInv, Quiet, Calm, SameFile, NEW r \in Runs, cfg[r] # None,
                      NEW i \in DOMAIN MapsOf[cfg[r].file], NEW j \in DOMAIN MapsOf[cfg[r].file]
               PROVE  pin[MapsOf[cfg[r].file][i]] = pin[MapsOf[cfg[r].file][j]]
    BY DEF PinsAllOrNothing
  <2> DEFINE f == cfg[r].file
  <2>1. f \in Files /\ pc[r] # "new"
    BY DEF CalmInv, Config
  <2>2. DOMAIN MapsOf[f] = 1 .. Len(MapsOf[f]) /\ Len(MapsOf[f]) \in 1 .. 2
    BY <2>1, TwoMaps, MapsFacts
  <2>3. CASE Len(MapsOf[f]) = 1
    <3>1. i = 1 /\ j = 1
      BY <2>2, <2>3
    <3> QED
      BY <3>1
  <2>4. CASE Len(MapsOf[f]) = 2
    <3>1. i \in {1, 2} /\ j \in {1, 2} /\ f = "syncookie.o"
      BY <2>1, <2>2, <2>4, TwoMaps
    <3>2. MapsOf[f][1] = "xdp_stats_map" /\ MapsOf[f][2] = "connections_table"
      BY <2>1, <2>4, MapsFacts
    <3>3. last \in Runs
      BY <2>1 DEF CalmInv, TypeOK, Calm
    <3>4. pc[last] # "new" /\ PairInv(last) /\ pc[last] \notin Steps
      BY <3>3 DEF CalmInv, Quiet, Running
    <3>5. cfg[last].file = "syncookie.o"
      BY <3>1, <3>3, <3>4, LoaderAssumption DEF CalmInv, SameFile
    <3>6. pin["connections_table"] = pin["xdp_stats_map"]
      BY <3>4, <3>5 DEF PairInv, Steps
    <3> QED
      BY <3>1, <3>2, <3>6
  <2>5. \A n \in 1 .. 2 : n = 1 \/ n = 2
    OBVIOUS
  <2> QED
    BY <2>2, <2>3, <2>4, <2>5, Zenon
<1> QED
  BY <1>1, LoaderTypeCorrect, CalmKept, PTL

\* The pinned xdp_stats_map is the attached program's: see PinnedIsAttached.
THEOREM PinnedMapIsAttached == Spec => []PinnedIsAttached
<1>1. TypeOK /\ CalmInv => PinnedIsAttached
  <2> SUFFICES ASSUME TypeOK, CalmInv, Quiet, Calm, pin["xdp_stats_map"] # None, NEW s \in Slots
               PROVE  hook[s] \in {None, pin["xdp_stats_map"]}
    BY DEF PinnedIsAttached
  <2>1. last \in Runs
    BY DEF CalmInv, TypeOK, Calm, Maps
  <2>2. StatsInv(last) /\ pc[last] \notin Pinning
    BY <2>1 DEF CalmInv, Quiet, Running, Steps, Pinning
  <2> QED
    BY <2>2 DEF StatsInv
<1> QED
  BY <1>1, LoaderTypeCorrect, CalmKept, PTL
=============================================================================
