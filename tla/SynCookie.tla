----------------------------- MODULE SynCookie -----------------------------
(***************************************************************************)
(* The XDP program of src/src: syncookie.c (entry point), parser.h (header *)
(* parsing) and controller.c (the SYN-cookie state machine), run by        *)
(* several CPUs on the frames a network interface receives.  The only      *)
(* state the CPUs share is the BPF map connections_table.  A run of the    *)
(* program touches the map at most twice (a lookup in controller, an       *)
(* update in handle_ack), so it is split into two steps at the lookup and  *)
(* the runs of different CPUs interleave there.                            *)
(***************************************************************************)
EXTENDS Wire, Sequences, FiniteSets

CONSTANTS
  W,           \* bits in a byte: 8 in the build
  Cpus,        \* CPUs that run the program
  Endian,      \* byte order of the build
  Macs,        \* Ethernet addresses
  Frames,      \* frames the interface may receive, any number of times
  Garbage,     \* bytes a read through a NULL tcp pointer may yield
  StackKeys,   \* what 12 bytes of stack may hold where handle_ack takes its key
  MaxEntries,  \* max_entries of connections_table
  Idle         \* a CPU that is not running the program

(***************************************************************************)
(* Frames.  fits is the number of complete headers in the frame; the TCP   *)
(* fields are the 20 bytes behind a 20-byte IP header, which is where the  *)
(* program looks for them.  Fields it neither reads nor writes are left    *)
(* out.                                                                    *)
(***************************************************************************)
EtherTypes == {"0800", "0008", "other"}   \* by their bytes on the wire
Flag       == {"cwr", "ece", "urg", "ack", "psh", "rst", "syn", "fin"}
Nibble     == 0 .. 15

Frame ==
  [fits : 0 .. 3, dmac : Macs, smac : Macs, etype : EtherTypes,
   proto : {"tcp", "other"}, saddr : U32, daddr : U32,
   sport : U16, dport : U16, seq : U32, ack : U32, doff : Nibble, rsv : Nibble,
   flags : SUBSET Flag]

TcpBytes ==
  [sport : U16, dport : U16, seq : U32, ack : U32, doff : Nibble, rsv : Nibble,
   flags : SUBSET Flag]

\* What the frame is to the rest of the network, whatever the build reads.
IsTcpIp(f) == f.fits >= 2 /\ f.etype = "0800" /\ f.proto = "tcp"

Key == [prefixlen : Nat, data : [1 .. 8 -> Byte]]

ASSUME FrameAssumption ==
  /\ W \in Nat \ {0} /\ B = 2^W
  /\ Endian \in ByteOrder
  /\ Frames \subseteq Frame
  /\ Garbage \subseteq TcpBytes
  /\ StackKeys \subseteq Key
  /\ MaxEntries \in Nat \ {0}

VARIABLES
  table,      \* connections_table: the prefixes stored
  cpu,        \* cpu[c]: headers whose lookup missed, or Idle
  out,        \* last verdict, with the frame as it came and as it leaves
  validated   \* history: headers handle_ack was called with

vars == <<table, cpu, out, validated>>

(***************************************************************************)
(* parser.h.  A parser that runs past data_end returns -1.  ether_type is  *)
(* compared as loaded, without bpf_ntohs.  syncookie_fn ignores what       *)
(* parse_tcphdr returns: on a truncated TCP header hdr.tcp stays NULL and  *)
(* the controller reads through it, which may yield anything.              *)
(***************************************************************************)
Swapped ==
  [t \in EtherTypes |-> CASE t = "0800" -> "0008"
                          [] t = "0008" -> "0800"
                          [] t = "other" -> "other"]

parse_ether(f) ==
  IF f.fits < 1 THEN "-1" ELSE IF Endian = "big" THEN f.etype ELSE Swapped[f.etype]

parse_ipv4(f) == IF f.fits < 2 THEN "-1" ELSE f.proto

WithTcp(f, g) ==
  [f EXCEPT !.sport = g.sport, !.dport = g.dport, !.seq = g.seq, !.ack = g.ack,
            !.doff = g.doff, !.rsv = g.rsv, !.flags = g.flags]

parse_tcphdr(f) ==
  IF f.fits = 3 THEN {f} ELSE {WithTcp(f, g) : g \in Garbage}

ReachesController(f) == parse_ether(f) = "0800" /\ parse_ipv4(f) = "tcp"

(***************************************************************************)
(* Bit-fields of headers.h.  The first declared one is the most            *)
(* significant bit on a big-endian build, the least significant on a       *)
(* little-endian one: there the flags are read mirrored and the member res *)
(* is the nibble that holds the data offset.                               *)
(***************************************************************************)
Mirror ==
  [cwr |-> "fin", ece |-> "syn", urg |-> "rst", ack |-> "psh",
   psh |-> "ack", rst |-> "urg", syn |-> "ece", fin |-> "cwr"]

Bit(m)     == IF Endian = "big" THEN m ELSE Mirror[m]
IsSet(h, m) == Bit(m) \in h.flags
Res(h)     == IF Endian = "big" THEN h.rsv ELSE h.doff

(***************************************************************************)
(* controller.c: pure parts.                                               *)
(***************************************************************************)
compute_connection(h) ==
  [src_addr |-> h.saddr, dst_addr |-> h.daddr,
   src_port |-> h.sport, dst_port |-> h.dport]

compute_cookie(h) ==
  Xor32(Xor32(Halves(Endian, h.sport, h.dport), h.saddr), h.daddr)

Rejected(h) ==
  \/ IsSet(h, "syn") /\ IsSet(h, "ack")
  \/ Res(h) = 1
  \/ \E m \in {"cwr", "ece", "urg", "psh", "rst", "fin"} : IsSet(h, m)

IsSyn(h) == ~Rejected(h) /\ IsSet(h, "syn")

\* Faulty: compares the acknowledgment number itself with the cookie.
IsCookieAck_NoMinusOne(h) ==
  /\ ~Rejected(h) /\ ~IsSet(h, "syn") /\ IsSet(h, "ack")
  /\ h.ack = compute_cookie(h)

IsCookieAck(h) ==
  /\ ~Rejected(h) /\ ~IsSet(h, "syn") /\ IsSet(h, "ack")
  /\ Dec(Endian, h.ack) = compute_cookie(h)

\* The three memcpy calls of both handlers: tmp := src, dst := src, tmp := dst.
MacRewrite(h) == [dmac |-> h.smac, smac |-> h.smac]

\* Faulty: acknowledges the SYN's number and not the one after it.
SynReply_NoIncrement(h) ==
  [h EXCEPT !.dmac = MacRewrite(h).dmac, !.smac = MacRewrite(h).smac,
            !.saddr = h.daddr, !.daddr = h.saddr,
            !.ack = h.seq, !.seq = compute_cookie(h),
            !.flags = h.flags \union {Bit("ack")},
            !.sport = h.dport, !.dport = h.sport]

SynReply(h) ==
  [h EXCEPT !.dmac = MacRewrite(h).dmac, !.smac = MacRewrite(h).smac,
            !.saddr = h.daddr, !.daddr = h.saddr,
            !.ack = Inc(Endian, h.seq), !.seq = compute_cookie(h),
            !.flags = h.flags \union {Bit("ack")},
            !.sport = h.dport, !.dport = h.sport]

\* Faulty: numbers the answer with the cookie, as the answer to a SYN is.
AckReply_SeqIsCookie(h) ==
  [h EXCEPT !.dmac = MacRewrite(h).dmac, !.smac = MacRewrite(h).smac,
            !.saddr = h.daddr, !.daddr = h.saddr,
            !.seq = compute_cookie(h), !.ack = Inc(Endian, h.seq),
            !.flags = (h.flags \union {Bit("ack")}) \ {Bit("syn")},
            !.sport = h.dport, !.dport = h.sport]

AckReply(h) ==
  [h EXCEPT !.dmac = MacRewrite(h).dmac, !.smac = MacRewrite(h).smac,
            !.saddr = h.daddr, !.daddr = h.saddr,
            !.seq = h.ack, !.ack = Inc(Endian, h.seq),
            !.flags = (h.flags \union {Bit("ack")}) \ {Bit("syn")},
            !.sport = h.dport, !.dport = h.sport]

(***************************************************************************)
(* connections_table, of type BPF_MAP_TYPE_LPM_TRIE.  The kernel reads a   *)
(* key of such a map as a struct bpf_lpm_trie_key: a __u32 prefix length   *)
(* followed by data.  In a struct connection_t the prefix length is        *)
(* src_addr.  A stored prefix matches a key that is at least as long and   *)
(* starts with it; an update fails when the prefix is longer than the data *)
(* or the map is full.                                                     *)
(***************************************************************************)
MaxPrefixlen == 8 * W

\* Bits are numbered from the most significant one of the first byte.
DataBit(data, i) ==
  (data[((i - 1) \div W) + 1] \div 2^(W - 1 - ((i - 1) % W))) % 2

\* The first n bits of data, as the set of those that are 1.
Ones(data, n) == {i \in 1 .. n : DataBit(data, i) = 1}

AsKey(conn) ==
  [prefixlen |-> Value(Endian, conn.src_addr),
   data      |-> conn.dst_addr \o conn.src_port \o conn.dst_port]

bpf_map_lookup_elem(conn) ==
  \E prefix \in table :
    /\ prefix.len <= AsKey(conn).prefixlen
    /\ prefix.ones = Ones(AsKey(conn).data, prefix.len)

Stored(key) == [len |-> key.prefixlen, ones |-> Ones(key.data, key.prefixlen)]

\* Faulty: room for one entry too many.
bpf_map_update_elem_OneMore(key) ==
  IF key.prefixlen > MaxPrefixlen \/ Cardinality(table) > MaxEntries
  THEN table
  ELSE table \union {Stored(key)}

bpf_map_update_elem(key) ==
  IF key.prefixlen > MaxPrefixlen \/ Cardinality(table) >= MaxEntries
  THEN table
  ELSE table \union {Stored(key)}

-----------------------------------------------------------------------------
NoOutput == [verdict |-> "none"]

\* A run of the program ends: it got headers h and leaves the frame as f.
Return(verdict, h, f) == [verdict |-> verdict, headers |-> h, frame |-> f]

Init ==
  /\ table = {}
  /\ cpu = [c \in Cpus |-> Idle]
  /\ out = NoOutput
  /\ validated = {}

\* syncookie_fn on a frame that is not TCP over IPv4 to the parsers.
PassUnparsed(c, f) ==
  /\ cpu[c] = Idle
  /\ ~ReachesController(f)
  /\ out' = Return("XDP_PASS", f, f)
  /\ UNCHANGED <<table, cpu, validated>>

\* controller up to and including the lookup, for headers h: a hit.
KnownConnection(c, h) ==
  /\ cpu[c] = Idle
  /\ bpf_map_lookup_elem(compute_connection(h))
  /\ out' = Return("XDP_PASS", h, h)
  /\ UNCHANGED <<table, cpu, validated>>

\* The same, a miss: the rest of controller is still to run.
UnknownConnection(c, h) ==
  /\ cpu[c] = Idle
  /\ ~bpf_map_lookup_elem(compute_connection(h))
  /\ cpu' = [cpu EXCEPT ![c] = h]
  /\ UNCHANGED <<table, out, validated>>

\* Faulty: saves the connection before the peer has echoed the cookie.
handle_syn_Saves(c) ==
  /\ cpu[c] # Idle
  /\ IsSyn(cpu[c])
  /\ table' = bpf_map_update_elem(AsKey(compute_connection(cpu[c])))
  /\ out' = Return("XDP_TX", cpu[c], SynReply(cpu[c]))
  /\ cpu' = [cpu EXCEPT ![c] = Idle]
  /\ UNCHANGED validated

handle_syn(c) ==
  /\ cpu[c] # Idle
  /\ IsSyn(cpu[c])
  /\ out' = Return("XDP_TX", cpu[c], SynReply(cpu[c]))
  /\ cpu' = [cpu EXCEPT ![c] = Idle]
  /\ UNCHANGED <<table, validated>>

\* The key is read at &connection, the address of the pointer parameter: it is
\* the bytes of that pointer and of the stack behind it, not the connection.
\* What bpf_map_update_elem returns is ignored.
handle_ack(c) ==
  /\ cpu[c] # Idle
  /\ IsCookieAck(cpu[c])
  /\ \E key \in StackKeys : table' = bpf_map_update_elem(key)
  /\ out' = Return("XDP_TX", cpu[c], AckReply(cpu[c]))
  /\ validated' = validated \union {cpu[c]}
  /\ cpu' = [cpu EXCEPT ![c] = Idle]

\* Flags no handshake packet carries.
DropFlags(c) ==
  /\ cpu[c] # Idle
  /\ Rejected(cpu[c])
  /\ out' = Return("XDP_DROP", cpu[c], cpu[c])
  /\ cpu' = [cpu EXCEPT ![c] = Idle]
  /\ UNCHANGED <<table, validated>>

\* The last branch of controller: neither a SYN nor an ACK of the cookie.
DropUnexpected(c) ==
  /\ cpu[c] # Idle
  /\ ~Rejected(cpu[c]) /\ ~IsSyn(cpu[c]) /\ ~IsCookieAck(cpu[c])
  /\ out' = Return("XDP_DROP", cpu[c], cpu[c])
  /\ cpu' = [cpu EXCEPT ![c] = Idle]
  /\ UNCHANGED <<table, validated>>

\* syncookie_fn: a run of the program on frame f starts.
Receive(c, f) ==
  \/ PassUnparsed(c, f)
  \/ /\ ReachesController(f)
     /\ \E h \in parse_tcphdr(f) : KnownConnection(c, h) \/ UnknownConnection(c, h)

\* controller after a lookup that missed.
Resume(c) == handle_syn(c) \/ handle_ack(c) \/ DropFlags(c) \/ DropUnexpected(c)

Next == \E c \in Cpus : Resume(c) \/ \E f \in Frames : Receive(c, f)

Spec == Init /\ [][Next]_vars

-----------------------------------------------------------------------------
Prefix == [len : 0 .. MaxPrefixlen, ones : SUBSET (1 .. MaxPrefixlen)]

Output == [verdict : {"XDP_PASS", "XDP_TX", "XDP_DROP"}, headers : Frame, frame : Frame]

\* Types of the state; connections_table never holds more than max_entries
\* prefixes, and a CPU in the middle of controller holds headers that the
\* parsers accepted.
TypeOK ==
  /\ table \subseteq Prefix /\ IsFiniteSet(table) /\ Cardinality(table) <= MaxEntries
  /\ cpu \in [Cpus -> {f \in Frame : ReachesController(f)} \union {Idle}]
  /\ out \in Output \union {NoOutput}
  /\ validated \subseteq Frame

Passed  == out.verdict = "XDP_PASS"
Sent    == out.verdict = "XDP_TX"
Dropped == out.verdict = "XDP_DROP"

\* The filter filters: controller lets a TCP packet through to the network
\* stack only once some peer has echoed the cookie of its own connection in an
\* ACK that handle_ack accepted; no SYN, however often it is repeated and on
\* whatever CPU, opens the table.
PassedOnlyAfterCookie ==
  Passed /\ IsTcpIp(out.headers) => \E v \in validated : IsCookieAck(v)

\* What a TCP peer that sent the SYN h does with an answer r.  Unlike the
\* program it computes in network byte order.
PeerAccepts(h, r) ==
  /\ r.saddr = h.daddr /\ r.daddr = h.saddr /\ r.sport = h.dport /\ r.dport = h.sport
  /\ r.flags = {"syn", "ack"}
  /\ r.ack = Inc("big", h.seq)

PeerAck(h, r) ==
  [h EXCEPT !.seq = r.ack, !.ack = Inc("big", r.seq), !.flags = {"ack"}, !.rsv = 0]

\* No SYN is answered in vain: the answer of handle_syn is a SYN-ACK its
\* sender accepts, and the ACK that it then sends passes the cookie check of
\* controller, at the wrap-around of both sequence numbers too.
AnsweredSynCanComplete ==
  Sent /\ "syn" \in out.headers.flags =>
    /\ PeerAccepts(out.headers, out.frame)
    /\ IsCookieAck(PeerAck(out.headers, out.frame))

\* The connection of r seen from the other side, and the number the sender of r
\* started from.
Reverse(r) ==
  [r EXCEPT !.saddr = r.daddr, !.daddr = r.saddr, !.sport = r.dport, !.dport = r.sport]

InitialSeq(r) == IF "syn" \in r.flags THEN r.seq ELSE Dec("big", r.seq)

\* handle_syn and handle_ack speak for the same server without sharing any
\* state: all packets they send for a connection, on any CPU and in any order,
\* are numbered from one initial sequence number, the cookie of the client's
\* side of the connection.
OneSequenceSpace ==
  Sent => InitialSeq(out.frame) = compute_cookie(Reverse(out.frame))

(***************************************************************************)
(* What a comment of controller.c says of it, and does not hold.           *)
(***************************************************************************)
\* handle_ack, "Save the connection in the bpf table": controller finds every
\* connection that was validated.
ConnectionSaved ==
  \A v \in validated : bpf_map_lookup_elem(compute_connection(v))
=============================================================================
