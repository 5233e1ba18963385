------------------------------- MODULE Stats -------------------------------
(***************************************************************************)
(* xdp_stats (src/loader/xdp_stats.c) beside xdp_loader: the programs that *)
(* Loader attaches count packets in their per-CPU map                      *)
(* (xdp_stats_record_action), and a reader that opened the pinned map adds *)
(* up the counters of the CPUs while they change.  The map a reader opened *)
(* stays with it, whatever is pinned or attached later.                    *)
(*                                                                         *)
(* Only xdp_prog_kern.o counts: syncookie.o has the map and never calls    *)
(* xdp_stats_record_action.                                                *)
(***************************************************************************)
EXTENDS Loader

CONSTANTS
  NCpus,       \* possible CPUs
  ActionMax,   \* XDP_ACTION_MAX of xdp_stats: keys 0 .. ActionMax - 1
  Entries,     \* Entries[f]: max_entries of the statistics map of object f
  Sections,    \* actions of the sections loaded: xdp_pass, xdp_drop, xdp_abort
  Length,      \* bytes in a packet
  MaxPackets   \* bound: packets that arrive

Cpu == 1 .. NCpus
Act == 0 .. ActionMax - 1

ASSUME StatsAssumption ==
  /\ NCpus \in Nat \ {0} /\ ActionMax \in Nat \ {0}
  /\ Entries \in [Files -> Nat]
  /\ Sections \subseteq Act /\ Length \in Nat /\ MaxPackets \in Nat

VARIABLES
  count,    \* count[r][a][c]: struct datarec of CPU c for action a, map of run r
  busy,     \* busy[c]: the record CPU c has counted a packet in, not its bytes
  reader    \* the xdp_stats process

stats    == <<count, busy, reader>>
allvars  == <<hook, pin, pc, cfg, idx, last, stuck, count, busy, reader>>

Zero     == [rx_packets |-> 0, rx_bytes |-> 0]
NoRecord == [act \in Act |-> Zero]

\* fd is the map opened; record and prev are those of stats_poll; key, at and
\* sum are the loops of stats_collect and map_get_value_percpu_array, at
\* counting the words read.  Of a timestamp only this matters: moved[a], the
\* clock has moved since the last one of action a; period[a], it had moved at
\* the last but one.  (Only Sleep moves it; time that passes elsewhere makes
\* no period 0.)  shown is what the last stats_print printed, since the run of
\* xdp_loader that was the last one when the map was opened.
SInit ==
  /\ Init
  /\ count = [r \in Runs |-> [a \in Act |-> [c \in Cpu |-> Zero]]]
  /\ busy = [c \in Cpu |-> None]
  /\ reader = [st |-> "open", fd |-> None, since |-> None, record |-> NoRecord,
               prev |-> NoRecord, key |-> 0, at |-> 0, sum |-> Zero,
               moved |-> [a \in Act |-> TRUE], period |-> [a \in Act |-> FALSE],
               polls |-> FALSE, shown |-> Act]

\* A field of the records of an action, added up over the CPUs.
Total(r, a, field) ==
  LET sum[c \in 0 .. NCpus] == IF c = 0 THEN 0 ELSE sum[c - 1] + count[r][a][c][field]
  IN  sum[NCpus]

Packets ==
  LET sum[S \in SUBSET (Runs \X Act)] ==
        IF S = {} THEN 0
        ELSE LET x == CHOOSE x \in S : TRUE
             IN  Total(x[1], x[2], "rx_packets") + sum[S \ {x}]
  IN  sum[Runs \X Act]

\* xdp_stats_record_action on CPU c, up to rx_packets++.  The program is the
\* one that is attached when the packet arrives; the action is that of its
\* section.  An action the map has no entry for is not counted.
CountPacket(c) ==
  /\ busy[c] = None
  /\ Packets < MaxPackets
  /\ \E s \in Slots, a \in Sections :
       LET r == hook[s]
       IN  /\ r # None /\ cfg[r].file = "xdp_prog_kern.o" /\ a < Entries[cfg[r].file]
           /\ busy' = [busy EXCEPT ![c] = [run |-> r, act |-> a]]
           /\ count' = [count EXCEPT ![r][a][c].rx_packets = @ + 1]
  /\ UNCHANGED <<vars, reader>>

\* Its second update, rx_bytes += length.
CountBytes(c) ==
  /\ busy[c] # None
  /\ count' = [count EXCEPT ![busy[c].run][busy[c].act][c].rx_bytes = @ + Length]
  /\ busy' = [busy EXCEPT ![c] = None]
  /\ UNCHANGED <<vars, reader>>

-----------------------------------------------------------------------------
\* open_bpf_map_file.  Without a pinned map xdp_stats exits with EXIT_FAIL_BPF.
OpenMap ==
  /\ reader.st = "open"
  /\ reader' = IF pin["xdp_stats_map"] = None THEN [reader EXCEPT !.st = "EXIT_FAIL_BPF"]
               ELSE [reader EXCEPT !.st = "check", !.fd = pin["xdp_stats_map"],
                                   !.since = IF Quiet THEN last ELSE None]
  /\ UNCHANGED <<vars, count, busy>>

\* Faulty: does not compare max_entries.
CheckMap_AnySize ==
  /\ reader.st = "check"
  /\ reader' = [reader EXCEPT !.st = "collect"]
  /\ UNCHANGED <<vars, count, busy>>

\* check_map_fd_info: key_size and value_size are those of every map of this
\* name; max_entries is compared, the type is not (map_expect.type is 0).
CheckMap ==
  /\ reader.st = "check"
  /\ reader' = [reader EXCEPT !.st = IF Entries[cfg[reader.fd].file] = ActionMax THEN "collect"
                                     ELSE "EXIT_FAIL"]
  /\ UNCHANGED <<vars, count, busy>>

\* map_collect takes the time, then looks up the key; a key that the map does
\* not have leaves value unwritten.
GetTime ==
  /\ reader.st = "collect"
  /\ reader' = [reader EXCEPT
       !.st = IF reader.key < Entries[cfg[reader.fd].file] THEN "read" ELSE "uninitialized",
       !.period[reader.key] = reader.moved[reader.key],
       !.moved[reader.key] = FALSE]
  /\ UNCHANGED <<vars, count, busy>>

\* Faulty: leaves out the last CPU, as a count of the CPUs online would.
ReadWord_OneCpuLess ==
  /\ reader.st = "read" /\ reader.at < 2 * NCpus
  /\ LET c     == (reader.at \div 2) + 1
         field == IF reader.at % 2 = 0 THEN "rx_packets" ELSE "rx_bytes"
     IN  reader' = [reader EXCEPT !.at = @ + 1,
                                  !.sum[field] = IF c = NCpus THEN @ ELSE
                                    @ + count[reader.fd][reader.key][c][field]]
  /\ UNCHANGED <<vars, count, busy>>

\* bpf_map_lookup_elem copies the record of one CPU after the other, a word at
\* a time, while the CPUs count; the loop adds them up.
ReadWord ==
  /\ reader.st = "read" /\ reader.at < 2 * NCpus
  /\ LET c     == (reader.at \div 2) + 1
         field == IF reader.at % 2 = 0 THEN "rx_packets" ELSE "rx_bytes"
     IN  reader' = [reader EXCEPT !.at = @ + 1,
                                  !.sum[field] = @ + count[reader.fd][reader.key][c][field]]
  /\ UNCHANGED <<vars, count, busy>>

LastKey == reader.key = ActionMax - 1

\* The rest of map_collect, and of stats_collect.
Collected ==
  /\ reader.st = "read" /\ reader.at = 2 * NCpus
  /\ reader' = [reader EXCEPT !.record[reader.key] = reader.sum,
                              !.key = IF LastKey THEN 0 ELSE @ + 1,
                              !.at = 0, !.sum = Zero,
                              !.st = IF ~LastKey THEN "collect"
                                     ELSE IF reader.polls THEN "print" ELSE "sleep"]
  /\ UNCHANGED <<vars, count, busy>>

\* stats_print: returns at the first action whose period is 0.
StatsPrint ==
  /\ reader.st = "print"
  /\ reader' = [reader EXCEPT !.st = "sleep",
                              !.shown = {a \in Act : \A b \in 0 .. a : reader.period[b]}]
  /\ UNCHANGED <<vars, count, busy>>

\* Faulty: opens the pinned map afresh and takes differences between maps.
Sleep_Reopens ==
  /\ reader.st = "sleep"
  /\ reader' = [reader EXCEPT !.st = "collect", !.prev = reader.record, !.polls = TRUE,
                              !.moved = [a \in Act |-> TRUE],
                              !.fd = IF pin["xdp_stats_map"] = None THEN @
                                     ELSE pin["xdp_stats_map"]]
  /\ UNCHANGED <<vars, count, busy>>

\* usleep or sleep, and prev = record of the next round.
Sleep ==
  /\ reader.st = "sleep"
  /\ reader' = [reader EXCEPT !.st = "collect", !.prev = reader.record, !.polls = TRUE,
                              !.moved = [a \in Act |-> TRUE]]
  /\ UNCHANGED <<vars, count, busy>>

ReaderStep ==
  OpenMap \/ CheckMap \/ GetTime \/ ReadWord \/ Collected \/ StatsPrint \/ Sleep

SNext ==
  \/ Next /\ UNCHANGED stats
  \/ \E c \in Cpu : CountPacket(c) \/ CountBytes(c)
  \/ ReaderStep

\* The reader is an ordinary process; a program of the kernel finishes.
SSpec ==
  /\ SInit /\ [][SNext]_allvars
  /\ WF_allvars(ReaderStep)
  /\ \A c \in Cpu : WF_allvars(CountBytes(c))

-----------------------------------------------------------------------------
\* A reading lies between the last one and what has been counted: the
\* differences stats_print takes in __u64 do not wrap and nothing is invented,
\* although packets and bytes of all CPUs are read word by word while the
\* programs count and programs come and go.
ReadingsInOrder ==
  reader.st = "print" =>
    \A a \in Act, field \in {"rx_packets", "rx_bytes"} :
      /\ reader.prev[a][field] <= reader.record[a][field]
      /\ reader.record[a][field] <= Total(reader.fd, a, field)

\* map_collect never uses the value that a failed lookup leaves uninitialised:
\* check_map_fd_info has turned away every map in which a key of the loop is
\* missing.
ValueInitialized == reader.st # "uninitialized"

\* As long as xdp_loader has not been run again, and runs neither overlapped nor
\* were killed nor failed to unlink a name, the map being watched is that of the
\* attached program.
WatchesAttached ==
  Calm /\ Quiet /\ reader.since # None /\ reader.since = last =>
    \A s \in Slots : hook[s] \in {None, reader.fd}

\* Once packets stop arriving, what is shown becomes exact, packets and bytes
\* of every action, and stays so: the reader does not stop, misses no CPU, no
\* torn reading lasts, and stats_print gets to every action (a round sleeps
\* before it collects, so no period is 0).
ShownExactly ==
  <>[](reader.st \in {"collect", "read", "print", "sleep"} =>
         /\ reader.shown = Act
         /\ \A a \in Act, field \in {"rx_packets", "rx_bytes"} :
              reader.record[a][field] = Total(reader.fd, a, field))
=============================================================================
