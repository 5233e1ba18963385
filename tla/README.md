# syncookie-xdp in TLA+

TLA+ models of syncookie-xdp, an XDP program that answers TCP handshakes with
SYN cookies in front of a server, of the tools that load and watch it, and of
the parts of the vendored libbpf behind them. TLC checks small instances; TLAPS
proves the theorems for every value of the constants.
Paths below are relative to the root of the repository (`src/` in
`PROJECT.json` is that root, so the program's own directory is `src/src`).

## The system

* **The XDP program** (`src/syncookie.c`, `src/parser.h`, `src/headers.h`,
  `src/controller.c`). For every frame the interface receives, the kernel runs
  `syncookie_fn` on the CPU that got it. It parses Ethernet, IPv4 and TCP and
  passes everything else. `controller` looks the connection up in the BPF map
  `connections_table`: a hit is passed to the network stack. On a miss a SYN is
  turned into a SYN-ACK whose sequence number is a cookie computed from the
  addresses and ports (`handle_syn`), an ACK of that cookie is answered and the
  connection saved (`handle_ack`), and the rest is dropped.
* **The loader** (`loader/xdp_loader.c`, `common/common_user_bpf_xdp.c`) loads
  an object file, attaches its program in native, generic or automatic mode,
  and pins its maps under `/sys/fs/bpf/<ifname>`, or detaches the program.
* **The statistics tool** (`loader/xdp_stats.c`, `common/xdp_stats_kern.h`)
  opens the pinned map `xdp_stats_map` and prints differences between polls.
* **Libraries**: command line (`common/common_params.c`), loading with pinned
  maps (`common/common_libbpf.c`), packet helpers
  (`common/parsing_helpers.h`, `common/rewrite_helpers.h`).
* **libbpf** (`libbpf/src`): object files, BTF, netlink, AF_XDP sockets, the
  perf ring, line tables.

The parts meet in the kernel: the loader decides which program runs on the
hook; the program and `xdp_stats` share a map through its pinned name; several
processes meet in pinned files, in the attached program and in its maps.

## Modules

| Module | Models |
|---|---|
| `Wire` | 16- and 32-bit packet fields as bytes in wire order, and the C arithmetic on them in a given byte order |
| `SynCookie` | `src/`: the XDP program on several CPUs, and `connections_table` |
| `Handshake` | `SynCookie` between TCP clients, a network and the server's stack |
| `Loader` | `xdp_loader`: runs of it on one interface |
| `Stats` | `xdp_stats` and the counters in the kernel, composed with `Loader` |
| `BpfElf` | libbpf: what an object file is read into, and relocation |
| `BpfObject` | libbpf: the life of a `bpf_object` in a process, with descriptors and pins |
| `PinnedLoad` | `common_libbpf.c` in several processes, on top of `BpfObject` |
| `XskRing`, `XskQueues` | libbpf: AF_XDP rings, and the queues they implement |
| `XskSocket` | libbpf: umems, sockets and their XDP program in several processes |
| `PerfRing` | libbpf: the reader of a perf ring buffer against the kernel |
| `BtfParse`, `BtfTypes`, `BtfStrings`, `BtfDedup` | libbpf: `btf.c` |
| `Netlink`, `LoadRetry`, `ProgLinfo`, `SectionNames` | libbpf: `netlink.c` and `nlattr.c`, `bpf_load_program_xattr`, `bpf_prog_linfo.c`, section names |
| `Params`, `PacketHelpers` | `common/`: options, packet headers and VLAN tags |
| `MCSynCookie`, `MCHandshake`, `MCLoader`, `MCStats`, `MCObject`, `MCXsk`, `MCAlgorithms` | the checked instances |
| `SynCookieProofs`, `LoaderProofs`, `StatsProofs`, `RingProofs`, `XskSocketProofs`, `BpfLoadProofs`, `BpfObjectProofs`, `PinnedLoadProofs` | theorems about the modules they are named after (`SynCookieProofs`: also `Handshake`; `RingProofs`: `XskRing`, `XskQueues` and `PerfRing`; `BpfLoadProofs`: the invariant of `BpfObject`, unloading and loading, which `BpfObjectProofs` builds on) |

Definitions named `<name>_<Something>` and marked faulty are variants of the
definition `<name>` with a plausible mistake. No specification uses them; with
one in place of the original, TLC refutes the property it is kept for
(`mutants` in `PROJECT.json`).

### SynCookie

State: `table` is `connections_table`; `cpu[c]` holds the headers of the packet
CPU `c` works on once its lookup has missed; `out` is the last verdict with the
headers as they came and the frame as it leaves; `validated` is a history of
the headers `handle_ack` was called with.

A run of the program touches shared state at most twice, at the lookup in
`controller` and at the update in `handle_ack`. So a run is one step
(`PassUnparsed`, `KnownConnection`) or two: `UnknownConnection`, and then
`handle_syn`, `handle_ack`, `DropFlags` or `DropUnexpected`. The CPUs interleave
between the two.

Points where the model follows the code closely:

* *Byte order.* `-target bpf` in `common/common.mk` compiles for the byte order
  of the machine, and the program uses neither `bpf_ntohs` nor `bpf_ntohl`.
  `Endian` is a constant: fields are byte tuples, `Inc` and `Dec` carry in the
  direction of the build, the ethertype is compared as loaded, and the
  bit-fields of `struct tcp_t` are mirrored on a little-endian build.
* *The map.* `connections_table` is an LPM trie, whose key starts with a prefix
  length. In `struct connection_t` that is the source address. Lookup and
  update are the kernel's (marked external), as of the kernels of the time: a
  lookup does not check the prefix length, an update does.
* *The key of the update.* `handle_ack` passes `&connection` where `connection`
  is already a pointer, so the key is the bytes of a stack address and of what
  lies behind it. `StackKeys` is any set of keys.
* *Truncated TCP headers.* `syncookie_fn` ignores the result of
  `parse_tcphdr`; reads through the NULL pointer yield any of `Garbage`.
* *Abstracted.* Payloads, options, checksums, windows, TTLs. The parsers' byte
  counts become `fits`, the number of complete headers.

The model starts where the program is loaded. Two things outside it stand in
the way of that today and are not modelled: kernels create an LPM trie only
with `BPF_F_NO_PREALLOC`, which `connections_table` does not set, and the
vendored libbpf refuses the relocation of the global `insert`.

### Loader

State: `hook` (the run whose program is attached in each mode), `pin` (the run
whose map is pinned under each name), and for each run its next step, its
configuration and its loop index. Each step makes at most one system call that
reads or changes shared state: `Attach`, `DetachOpposite` and `Reattach` are
`xdp_link_attach`; `Access`, `Unpin`, `Pin` and `Rollback` are
`pin_maps_in_bpf_object` with libbpf's `bpf_object__unpin_maps` and
`bpf_object__pin_maps`; `Query` and `Detach` are `xdp_link_detach`; `Kill` may
strike before any step. `UnlinkFails` is an unlink that fails although the name
is there: unpinning ends with an error, the rollback of `bpf_object__pin_maps`
ignores it and leaves the pin, and the history `stuck` remembers the run.
`last` is the run that started last and "disturbed" once runs have overlapped,
one was killed or an unlink failed; after a failed unlink pins may be partial
and `xdp_stats` may open the map of a program that has been replaced.
`AttachError` and `Slot` are the kernel's side of
`bpf_set_link_xdp_fd` (external): native and generic mode exclude each other,
and `XDP_FLAGS_UPDATE_IF_NOEXIST` refuses to replace. Offload mode is not an
option of `xdp_loader`. `syncookie.o` has two maps and `xdp_prog_kern.o` one.

`Overlap`, `Kills` and `Faults` are constants that switch on concurrent runs,
kills, and failures of system calls for reasons of their own.

### Handshake

Clients, network and stack are not in the repository; they do what RFC 793
says. `wire` and `back` are the sets of packets sent: each is delivered any
number of times, in any order, or never, so loss, duplication and reordering
are one. A client repeats its SYN, answers what repeats the SYN-ACK or
acknowledges a byte never sent with an ACK, and accepts a reset. Packets carry
their TCP checksum, which the program leaves as it came; `Verify` says whether
clients look at it. The program's steps are those of `SynCookie`. No sender of
the model computes a cookie itself, so nothing is stated about who may open the
table: the cookie is the addresses and ports xored, without a key, and
`controller.c` says that "it is easy to bruteforce" (line 91).

### Stats

`CountPacket` and `CountBytes` are the two updates of
`xdp_stats_record_action` (the copy in `loader/xdp_prog_kern.c`, which is the
one that runs; `common/xdp_stats_kern.h` has the same text); the reader copies counters word by word in between.
`reader` holds the locals of `stats_poll` and of the functions it calls. The
map it opened is that of a run of the loader and stays with it.

### BpfElf, BpfObject, PinnedLoad

An object file is a sequence of sections, symbols and relocations. Opening,
loading, relocating, pinning and closing follow libbpf call by call. A
process's descriptors are numbers, the lowest free one is handed out, and
closing a number closes what it stands for at that moment, so that a stale or
unset number does damage. Each call of the interface is one step with at most
one refused system call in it (`bad`). In `PinnedLoad` the opens, the load and
the pins of a call are steps of their own, other processes move in between,
pins may be removed and processes killed. A loop of the code over maps,
programs, instances or paths is `ForEach`, which applies the body once for each
index; an error leaves the rounds after it without effect.

A file whose string table is its last section is refused with a positive error,
which `IS_ERR` does not take for one (`libbpf.c`, lines 902 and 2903): the
caller has a stray pointer for an object. `bpf_prog_load_xattr` and
`bpf_prog_load_xattr_maps` use it at once, another caller when it likes
(`UseStray`); the model ends the process there. A file without a program is an
error of both. The unlinks by which a failed pin is undone do not fail in
`BpfObject`; `Loader` has that case.

### XskRing, XskSocket, PerfRing

The rings have their four counters, modulo `Width` in place of 2^32, and the
kernel's side. `Queues` maps them to the two sequences of `XskQueues`.
Memory is sequentially consistent; barriers are not modelled. In `XskSocket`
a step is one system call of `xsk_socket__create`. `calm` is false once a
process was killed, the program detached by somebody else, or two sockets were
attaching at once; `SetEntryHasSocket` and `SocketIsServed` are about calm
histories, since two processes that both find no program leave one of them
with a program that is not attached. `PerfRing` has one reader and a kernel that drops what does
not fit.

### The algorithms

The functions of the remaining modules compute a result and keep nothing.
`MCAlgorithms` chooses an input and computes in one step; the properties
compare with definitions that do not follow the code: meaning of a type by its
unfolding, size by multiplication along the chain, the last attribute of each
type, the longest section name, the last option. What may go wrong in the code
is part of the input: how many reallocations of the type table succeed, which
system call and which allocation of `btf__get_from_id` fails (the bytes the
kernel fills are computed from the buffer it is given), attributes that a
policy refuses for their length or a missing end, datagrams that recv cuts at
the buffer of 4096 bytes, empty ones and failing ones, record sizes that are
not a multiple of four, cut packets.

## What is checked

Passing runs:

| Run | Shows |
|---|---|
| `syncookie_big` | On a big-endian build, two CPUs, any sequence of the frames: no TCP packet is passed before a cookie was echoed (`PassedOnlyAfterCookie`); the sender of a SYN accepts its answer, and its ACK passes the cookie check, wrap-around included (`AnsweredSynCanComplete`); both handlers, on any CPU, number a connection from one initial sequence number (`OneSequenceSpace`) |
| `handshake` | A client that repeats its SYN is answered in the end with a SYN-ACK it accepts, by the program or by the stack (`SynIsAnswered`); the ACK of an established client never reaches the branch that should never happen (`EstablishedAckAccepted`) |
| `loader_runs` | Runs that overlap, fail and are killed: only `--force` and `--unload` take an attached program away (`OnlyForceReplaces`); a run that failed leaves nothing of its own but what it could not unlink (`FailedLeavesNothing`). While they neither overlap nor are killed and no unlink fails: `EXIT_OK` means attached and pinned (`LoadIsComplete`); pins are all of one object or none (`PinsAllOrNothing`); the pinned statistics map is not that of a replaced program (`PinnedIsAttached`) |
| `stats` | A reading lies between the last one and what was counted (`ReadingsInOrder`); no uninitialised value is used (`ValueInitialized`); the map watched is the attached program's until the loader runs again (`WatchesAttached`); once packets stop, what is shown becomes exact for every action (`ShownExactly`) |
| `object` | Loading is all or nothing, and a loaded program uses the maps and functions its source names (`LoadAllOrNothing`); so is pinning, and a pin that fails takes back what it pinned and nothing that was there (`PinAllOrNothing`); no descriptor is lost (`NothingLost`) or, short of the case below, closed under the application (`ForeignUntouchedWithoutBtf`); a process that reports a pinned map uses that map (`MapFdIsShared`) |
| `xsk` | The rings implement the queues (`RingsAreQueues`) and frames come back (`FrameReturns`); reference counts are exact on every error path (`RefcountExact`); a queue entered has a socket and a live socket is served (`SetEntryHasSocket`, `SocketIsServed`); perf records arrive whole, in order, once, and all of them (`RecordsInOrder`, `AllDelivered`) |
| `algorithms` | `DedupExact`, `SizesExact`, `ExtRecordsExact`, `TypesEntered` for `btf.c`; `NetlinkExact`, `RetryCorrects`, `LinesFound`, `SectionsResolve`; `LastOptionDecides`, `HeadersAgree` |

Runs that refute what the repository says of itself (`findings` in
`PROJECT.json` quotes the lines):

| Run | The code |
|---|---|
| `little_endian_filters` (`PassedOnlyAfterCookie`) | on a little-endian build passes all IPv4 traffic unexamined |
| `connection_saved` (`ConnectionSaved`) | does not save the connection it validated |
| `handshake_checksum` (`SynIsAnswered`) | sends answers with the wrong TCP checksum, so that no client that verifies it ever connects |
| `killed_leftovers` (`LeftoversHandled`) | fails to load after a run was killed between two pins or two unlinks; for good, if `connections_table` is what was left |
| `unload_removes` (`UnloadRemoves`) | reports success for an unload in the wrong mode |

The counterexamples of the first three use `Garbage = {}`, so none depends on
reads through the NULL pointer.

Deadlock is checked for `SynCookie`, whose interface always may receive a
frame. In the other runs the system really may stop: every run of the loader
ends, clients are served, processes end, and a computed result is the end.

### Fairness

* `Handshake`: a run of an XDP program ends (weak, the verifier admits no
  other); a client repeats its SYN (weak); a SYN and a SYN-ACK that are sent
  again and again are delivered some day (strong).
* `Stats`: the reader is an ordinary process that is scheduled, and a program
  that has counted a packet counts its bytes (weak). The loader and the packets
  need never move.
* `XskRing`: the application's loop peeks, reads, releases and submits what it
  reserved, the kernel takes what it is given (weak) and gives back every frame
  it has room for again and again (strong). Nobody needs to reserve.
* `PerfRing`: the application calls the reader again and again (weak).

### Bounds

`MCSynCookie` has one bit per byte, so 32-bit fields have 16 values and a key
has 8 bits of data: the smallest size in which every byte of a carry, both
wrap-arounds (the cookie of host 1 is the largest word, and its SYN has the
largest sequence number) and prefixes shorter than, as long as and longer than
the data occur. There are two hosts, 14 frames (both handshakes, segments of
older connections, a reserved bit, a simultaneous open, other protocols, frames
cut in each header), five stack keys and two entries in the map, so that it
fills up. Two CPUs suffice because a step involves one CPU and the map. CPUs
are interchangeable, as are runs of the loader, hence the symmetry sets.

`loader_runs` has three runs loading either object: a chain needs one to leave
state, one to change it and one to meet it.

`handshake` has two clients, whose cookies and sequence numbers include the
wrap-around, a segment of an older connection, four stack keys (of no, one and
all connections) and two map entries. One CPU suffices: `syncookie_big` has
shown what two may do to each other. `stats` has two CPUs, two packets, two
actions, so that a reading may be torn between words, CPUs and actions, and two
runs of the loader. `object` has five files: one with two maps defined in
another order than declared, calls into `.text`, two programs, BTF; one with a
program and two maps; one that refers to data; one without a
program; one whose string table is its last section. Six descriptors are too few for
the largest load when the application holds one of its own, so that running out
happens; one preprocessor with two instances, one reused map, one descriptor of
the application. `xsk` has rings of two entries, counters modulo four, three
frames, batches of two, so that all counters wrap and a ring is full while a
frame is outside; two sockets, umems and queues; a perf ring of four words and
five records of up to three. In `algorithms` the constants of the code are cut
down so that they are met: chains of 3 types, sizes up to 15, tables of 5 types
that grow by 2, `BTF_MAX_STR_OFFSET` of 2, first buffers of 3, 2 VLAN tags.

## What is proved

The theorems hold for every value of the constants: any sets of CPUs, frames,
stack keys, clients, runs, sockets, umems and queues, any number of CPUs,
actions and packets that `xdp_stats` adds up, any ring size and counter width,
any object files, limit on descriptors and number of processes that use them.
They assume of the constants

* `Wire`: a byte has at least two values, xor of bytes is a byte
  (`BAssumption`, `XorAssumption`); `SynCookie`: their types
  (`FrameAssumption`); `Handshake`: what clients start with is a SYN and what
  older connections left are TCP segments (`HandshakeAssumption`);
* `Loader`: the two object files, the three modes, and that "no run" and
  "disturbed" are not runs (`LoaderAssumption`); `Stats`: at least one CPU and
  one action, a number of entries for each file, sections that count under an
  action `xdp_stats` knows (`StatsAssumption`);
* `XskRing`: the counters have a width that is a multiple of the ring's size
  and at least twice it, as 2^32 is for a power of two below it
  (`RingAssumption`); `PerfRing`: a record fits into the ring
  (`PerfAssumption`); `XskSocket`: "no socket" is no socket
  (`SocketAssumption`);
* `BpfElf`: the sizes of an instruction and of a map definition are positive
  (`SizesAssumption`); `BpfObject`: descriptors are naturals up to a limit, the
  sections and symbols of a file are numbered from 1, and "no file" is no file
  (`ObjectAssumption`). Nothing is assumed of what the sections hold;
* `PinnedLoad`: a process may have three descriptors at least, the file it loads
  has a map and its maps have different names, the names in the caller's list
  are names of maps, and none of them is what another becomes when the kernel
  cuts it to 15 characters (`PinnedAssumption`). The last is a condition on the
  caller: with such a pair, a map taken from its pinned file goes by the other
  map's name from then on, and the loop that pins takes it for that map.

Those marked *big* assume `Endian = "big"` in addition.

| Theorem | States | Argument |
|---|---|---|
| `TypeCorrect` | `TypeOK` of `SynCookie`, with the table's limit | inductive as it is; an update adds at most one entry below the limit |
| `Filters` (big) | `PassedOnlyAfterCookie` | by `FilterInv`: a non-empty table implies a validated ACK, and all validated ones carry their cookie. The property alone does not say where the entries come from |
| `SynAnswersComplete` (big) | `AnsweredSynCanComplete` | `DecInc`: subtracting one undoes adding one on every word; the rest from `SentInv`, which ties a sent frame to its handler |
| `SameSequenceSpace` (big) | `OneSequenceSpace` | from `SentInv` and the two handlers |
| `EstablishedClientsAccepted` (big) | `EstablishedAckAccepted` | an answer a client accepts came from the program, with the cookie, or from the stack, which only sees connections the table knows; the table only grows |
| `LoaderTypeCorrect` | `TypeOK` of `Loader`, with the exclusion of modes | inductive; one lemma for the shape of all steps of a run |
| `ReplacedByForce` | `OnlyForceReplaces` | by `FlagInv`: a run is at a detaching step only with the flag it looked at earlier |
| `FailureLeavesNothing` | `FailedLeavesNothing` | by `OwnInv`: what a run may have pinned, by where its loop is, and what it could not unlink (`stuck`) |
| `LoadCompletes`, `PinsTogether`, `PinnedMapIsAttached` | `LoadIsComplete`, `PinsAllOrNothing`, `PinnedIsAttached` | by `CalmInv`: while runs neither overlapped nor were killed nor failed to unlink, only the last one moves, and where it is determines what is attached (`StatsInv`) and which of the two names are pinned by whom (`PairInv`), half-way through its loops too |
| `ValuesInitialized`, `WatchedIsAttached` | `ValueInitialized`, `WatchesAttached` | `ReaderInv`: the map behind the descriptor is that of a run that has started, whose configuration stays, so what `check_map_fd_info` compared stays true; `WatchInv`: the run that was last at the opening is over and cannot move again. With the invariants of `Loader`, since `Stats` adds nothing to its steps |
| `ReadingsOrdered` | `ReadingsInOrder` | by `ReadingInv`: a reading is the sum of values that each CPU had, none of them below the one of the reading before or above the present one, and a reading under way is such a sum over the CPUs already read. The sums are compared by induction over the CPUs |
| `RecordsTheorem` | `RecordsInOrder` | by `PerfInv`: the reader stands at the start of a record, head and tail are positions modulo the size, and the words between tail and head are those written |
| `RingsImplementQueues` | `RingsAreQueues`: `XskRing` implements `XskQueues` | by `RingInv`: each counter is the consumer's plus a length, modulo the width, the cached ones lag behind by a length; the frames between two counters, the application's and the kernel's are all different. Each step of the rings is a step of the queues or none |
| `RefcountTheorem`, `EntryTheorem`, `ServedTheorem` | `RefcountExact`, `SetEntryHasSocket`, `SocketIsServed` | by `SocketInv`, which says for each step of `xsk_socket__create` what the socket holds and has entered by then |
| `NothingLostTheorem` | `NothingLost` | by `ObjectInv`: the object of each process knows every map, program and BTF descriptor the process holds and the application did not open, and only a loaded object has programs. `Core`, the part of it that holds between two system calls of a call too, goes through the loops over maps, programs and instances by induction over their rounds |
| `ForeignTheorem` | `ForeignUntouchedWithoutBtf` | by the same invariant: until a program is given a copy of the BTF descriptor's number (`Clean`), the application's numbers and those of the object's maps, programs and BTF are open and all different, so that closing one never hits another |
| `FailedLoadReleases` | a load that fails, at whichever system call, leaves at most the BTF descriptor (the failing half of `LoadAllOrNothing`) | what is still held is known to the object, and unloading has closed what it knows of maps and programs |
| `MapFdShared` | `MapFdIsShared` | by `PinnedInv`, which adds to `ObjectInv` what `common_libbpf.c` relies on: a map goes by its symbol until its pinned file is taken, then by the kernel's name (`Named`); a map's descriptor is that of a map of its name (`RightMap`), as is every pin (`PinsNamed`); each number in `map_fd` stands for its map and for the pin (`Sharing`). A load only adds to what is open (`Grew`), and a pin is only made where there is none, so that no process takes away what another one reports |
| `PinnedNothingLost` | `NothingLost`, for the calls of `PinnedLoad` | `PinnedInv` includes `ObjectInv` |

`NothingLostTheorem`, `ForeignTheorem` and `FailedLoadReleases` are about the
calls of `BpfObject`, in which `elf_begin` and `dup3` do not fail; in
`PinnedLoad`, the subject of the last two rows, they may.

`XdpStatsSafe`, `PerfSafe`, `RingSafe`, `SocketSafe`, `ObjectSafe` and
`PinnedSafe` state the inductive invariants themselves. TLC has checked each of them on the instance
of its run.

Only model-checked:

* liveness (`SynIsAnswered`, `ShownExactly`, `FrameReturns`, `AllDelivered`),
  which is out of the prover's reach, as is `ENABLED`;
* `PinAllOrNothing`, and the half of `LoadAllOrNothing` about loads that
  succeed. They say what nested loops have computed (paths pinned and unlinked
  again in reverse, instructions rewritten relocation by relocation, text
  appended once), each of which would take an induction of its own;
* the algorithms of the run `algorithms`: most are `RECURSIVE` operators, for
  which the provers are not available.

## Observations

What the models show or take from the code, beside the runs above:

* `controller.c`: `handle_syn` swaps the Ethernet addresses so that both become
  the peer's. A stored key with a short prefix lets connections through that
  nobody validated. `handle_ack` acknowledges one byte more than the client
  sent (line 74); the client answers with an ACK, the program answers that.
* `common_libbpf.c`: the result of `bpf_map__reuse_fd` is ignored (line 100);
  the rest of the list is then compared with the map's old name, which that
  call has freed (line 93; the model takes it to match no other entry);
  `attr` is read before it is compared with NULL (lines 28, 39); a failed load
  leaves the pinned descriptors open; a process whose pin came second returns 0
  with `map_fd` -1.
* `libbpf.c`: programs with BTF get the number of the object's BTF descriptor
  (line 1317), close it (line 262), and the object closes it again: this is the
  case `ForeignUntouchedWithoutBtf` excludes. `bpf_map__reuse_fd` cuts the name
  to 15 characters, so the map is not found under its name any more, and loses
  a descriptor when `dup3` fails. A string table that is the last section is
  refused, with a positive error that callers take for an object (line 902).
  Relocations against `.text` ignore
  the symbol's value.
* `xsk.c`: two processes may both find no program and attach (line 483); error
  paths unmap the address of a structure in place of the ring (lines 246, 649);
  a failed creation leaves the umem's descriptor bound. `xsk_ring_cons__release`
  has no barrier (`xsk.h`, line 147).
* `btf.c`: "all the strings referenced from .BTF.ext section are honored and
  updated" (lines 896-897), but `btf_for_each_str_off` does not visit the names of
  the sections with function information (lines 1346-1370): when a string
  moves, such a name becomes another one. `DedupExact` holds of names and line
  information, and of those section names only where the strings were sorted,
  different and all in use before. What `btf__name_by_offset` returns for a
  section name is used without a test (lines 818-819). The test behind "not aligned to 4 bytes" looks at one bit (line
  163), so odd offsets pass; the length of the string section is not compared
  with the data; a chain of exactly `MAX_RESOLVE_DEPTH` modifiers is an error.
* `netlink.c`: a datagram that does not fit the buffer is cut without notice and
  an empty one ends the answer (lines 85-92): `bpf_get_link_xdp_id` then returns
  0 and the id that it has seen so far, which may be none.
* `rewrite_helpers.h`: `vlan_tag_pop` "Returns the popped VLAN ID" (line 19) and
  returns the whole control word of the tag, priority included; the two are the
  same only for priority 0. `parsing_helpers.h` promises -1 where a header does
  not fit (lines 7-8), but for a packet that ends in a VLAN tag `parse_ethhdr`
  returns the type of the tag. `HeadersAgree` states what the code does.
* `xdp_stats.c`: a period of 0 would end `stats_print` at the first action (line
  64); `stats_poll` sleeps between two readings, so none is.
* `common_params.c`: the option table has no terminating entry (line 67); a
  file name or section name that fills its buffer is not terminated.

## Not modelled

* `libbpf_probes.c` (tries what the running kernel accepts), `libbpf_errno.c`,
  `str_error.c`: input, output and texts.
* `bpf.c` beyond `bpf_load_program_xattr`: wrappers of one system call.
* `libbpf.c`: private data and accessors, names of objects opened from memory,
  the list of program types that need a kernel version, the check of the
  file-system type of a pin path.
* `netlink.c`: the dumps of traffic-control objects, which go through the
  receive loop that is modelled and which nothing in the repository calls.
* `btf.c`: dumping raw data, `btf__load` and its log.
* `common/`: `usage`, the conversion of the option table, `parse_iphdr` and the
  ICMP parsers, whose bounds checks repeat those of the IPv6 ones.
* `headers/` and `libbpf/include`: declarations copied from the kernel
  (`jhash.h` is not used), some 8,500 lines; `loader/xdp_prog_kern.ll` is
  generated.
* What the tools print.
