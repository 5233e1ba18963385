-------------------------- MODULE SynCookieProofs --------------------------
(***************************************************************************)
(* Theorems about SynCookie, for every number of CPUs, size of a byte, set *)
(* of frames, content of the stack and size of the table; and, from        *)
(* "Handshakes" on, about Handshake, for any clients and any network, on a *)
(* big-endian build.                                                       *)
(***************************************************************************)
EXTENDS Handshake, FiniteSetTheorems, TLAPS

(***************************************************************************)
(* Words.                                                                  *)
(***************************************************************************)
\* Adding and subtracting one stay within the type.
LEMMA WordType ==
  ASSUME NEW order \in ByteOrder, NEW w \in U32
  PROVE  Inc(order, w) \in U32 /\ Dec(order, w) \in U32
  BY BAssumption DEF U32, Byte, Inc, Dec

\* w + 1 - 1 is w for every word, the largest included: what controller takes
\* off the acknowledgment number is what a peer has added to the cookie.
LEMMA DecInc ==
  ASSUME NEW order \in ByteOrder, NEW w \in U32
  PROVE  Dec(order, Inc(order, w)) = w
<1>1. \A i \in 1 .. 4 : i = 1 \/ i = 2 \/ i = 3 \/ i = 4
  OBVIOUS
<1>2. 1 \in 1 .. 4 /\ 2 \in 1 .. 4 /\ 3 \in 1 .. 4 /\ 4 \in 1 .. 4
  OBVIOUS
<1>3. CASE order = "big"
  BY <1>1, <1>2, <1>3, BAssumption DEF U32, Byte, Inc, Dec, LessSignificant
<1>4. CASE order = "little"
  BY <1>1, <1>2, <1>4, BAssumption DEF U32, Byte, Inc, Dec, LessSignificant
<1> QED
  BY <1>3, <1>4 DEF ByteOrder

\* The cookie of any headers is a word.
LEMMA CookieType ==
  ASSUME NEW h \in Frame
  PROVE  compute_cookie(h) \in U32
<1>1. Halves(Endian, h.sport, h.dport) \in U32
  <2>1. h.sport \in U16 /\ h.dport \in U16
    BY DEF Frame
  <2>2. ASSUME NEW hi \in U16, NEW lo \in U16
        PROVE  [i \in 1 .. 4 |-> IF i <= 2 THEN hi[i] ELSE lo[i - 2]] \in U32
    BY DEF U16, U32
  <2> QED
    BY <2>1, <2>2 DEF Halves
<1>2. \A a, b \in U32 : Xor32(a, b) \in U32
  BY XorAssumption DEF U32, Xor32
<1>3. h.saddr \in U32 /\ h.daddr \in U32
  BY DEF Frame
<1> QED
  BY <1>1, <1>2, <1>3 DEF compute_cookie

\* The handlers turn frames into frames.
LEMMA ReplyType ==
  ASSUME NEW h \in Frame
  PROVE  SynReply(h) \in Frame /\ AckReply(h) \in Frame
<1>1. Endian \in ByteOrder
  BY FrameAssumption
<1>2. Bit("ack") \in Flag
  BY DEF Bit, Mirror, Flag
<1>3. /\ Inc(Endian, h.seq) \in U32
      /\ compute_cookie(h) \in U32
  BY <1>1, WordType, CookieType DEF Frame
<1> QED
  BY <1>2, <1>3 DEF Frame, SynReply, AckReply, MacRewrite

\* Whatever is read through the tcp pointer, the controller works on headers
\* that the Ethernet and IP parsers accepted.
LEMMA ParsedType ==
  ASSUME NEW f \in Frame, ReachesController(f), NEW h \in parse_tcphdr(f)
  PROVE  h \in Frame /\ ReachesController(h)
<1>1. CASE f.fits = 3
  BY <1>1 DEF parse_tcphdr
<1>2. CASE f.fits # 3
  <2>1. PICK g \in Garbage : h = WithTcp(f, g)
    BY <1>2 DEF parse_tcphdr
  <2>2. g \in TcpBytes
    BY FrameAssumption
  <2>3. h \in Frame
    BY <2>1, <2>2 DEF Frame, TcpBytes, WithTcp
  <2>4. h.fits = f.fits /\ h.etype = f.etype /\ h.proto = f.proto
    BY <2>1 DEF Frame, WithTcp
  <2> QED
    BY <2>3, <2>4 DEF ReachesController, parse_ether, parse_ipv4
<1> QED
  BY <1>1, <1>2

\* An update keeps the table within its type and size.
LEMMA UpdateType ==
  ASSUME table \subseteq Prefix, IsFiniteSet(table), Cardinality(table) <= MaxEntries,
         NEW key \in Key
  PROVE  /\ bpf_map_update_elem(key) \subseteq Prefix
         /\ IsFiniteSet(bpf_map_update_elem(key))
         /\ Cardinality(bpf_map_update_elem(key)) <= MaxEntries
<1>1. CASE key.prefixlen > MaxPrefixlen \/ Cardinality(table) >= MaxEntries
  BY <1>1 DEF bpf_map_update_elem
<1>2. CASE ~(key.prefixlen > MaxPrefixlen \/ Cardinality(table) >= MaxEntries)
  <2>1. bpf_map_update_elem(key) = table \union {Stored(key)}
    BY <1>2 DEF bpf_map_update_elem
  <2>2. key.prefixlen \in 0 .. MaxPrefixlen
    BY <1>2, FrameAssumption DEF Key, MaxPrefixlen
  <2>3. Stored(key) \in Prefix
    BY <2>2, FrameAssumption DEF Stored, Prefix, Ones, MaxPrefixlen
  <2>4. /\ IsFiniteSet(table \union {Stored(key)})
        /\ Cardinality(table \union {Stored(key)}) <= Cardinality(table) + 1
    <3>1. IsFiniteSet(table \union {Stored(key)})
      BY FS_AddElement
    <3>2. Cardinality(table) \in Nat
      BY FS_CardinalityType
    <3>3. \/ Cardinality(table \union {Stored(key)}) = Cardinality(table)
          \/ Cardinality(table \union {Stored(key)}) = Cardinality(table) + 1
      BY FS_AddElement
    <3> QED
      BY <3>1, <3>2, <3>3
  <2>5. Cardinality(table) + 1 <= MaxEntries
    BY <1>2, FS_CardinalityType, FrameAssumption
  <2>6. Cardinality(table \union {Stored(key)}) <= MaxEntries
    BY <2>4, <2>5, FS_CardinalityType, FrameAssumption
  <2> QED
    BY <2>1, <2>3, <2>4, <2>6
<1> QED
  BY <1>1, <1>2

(***************************************************************************)
(* Type correctness.  One step per way a run of the program can go on.     *)
(***************************************************************************)
\* The state keeps its types and the table its size in every behaviour.
THEOREM TypeCorrect == Spec => []TypeOK
<1>1. Init => TypeOK
  <2> SUFFICES ASSUME Init PROVE TypeOK
    OBVIOUS
  <2>1. IsFiniteSet({}) /\ Cardinality({}) = 0
    BY FS_EmptySet
  <2> QED
    BY <2>1, FrameAssumption DEF Init, TypeOK
<1>2. TypeOK /\ [Next]_vars => TypeOK'
  <2> SUFFICES ASSUME TypeOK, [Next]_vars PROVE TypeOK'
    OBVIOUS
  <2>1. ASSUME NEW c \in Cpus, NEW f \in Frames, PassUnparsed(c, f)
        PROVE  TypeOK'
    <3>1. f \in Frame
      BY FrameAssumption
    <3> QED
      BY <2>1, <3>1 DEF TypeOK, PassUnparsed, Return, Output
  <2>2. ASSUME NEW c \in Cpus, NEW f \in Frames, ReachesController(f),
               NEW h \in parse_tcphdr(f), KnownConnection(c, h)
        PROVE  TypeOK'
    <3>1. h \in Frame
      BY <2>2, ParsedType, FrameAssumption
    <3> QED
      BY <2>2, <3>1 DEF TypeOK, KnownConnection, Return, Output
  <2>3. ASSUME NEW c \in Cpus, NEW f \in Frames, ReachesController(f),
               NEW h \in parse_tcphdr(f), UnknownConnection(c, h)
        PROVE  TypeOK'
    <3>1. h \in Frame /\ ReachesController(h)
      BY <2>3, ParsedType, FrameAssumption
    <3> QED
      BY <2>3, <3>1 DEF TypeOK, UnknownConnection
  <2>4. ASSUME NEW c \in Cpus, Resume(c)
        PROVE  TypeOK'
    <3>1. cpu[c] # Idle
      BY <2>4 DEF Resume, handle_syn, handle_ack, DropFlags, DropUnexpected
    <3>2. /\ cpu[c] \in Frame
          /\ SynReply(cpu[c]) \in Frame
          /\ AckReply(cpu[c]) \in Frame
      BY <3>1, ReplyType DEF TypeOK
    <3>3. CASE handle_syn(c)
      BY <3>2, <3>3 DEF TypeOK, handle_syn, Return, Output
    <3>4. CASE handle_ack(c)
      <4>1. PICK key \in StackKeys : table' = bpf_map_update_elem(key)
        BY <3>4 DEF handle_ack
      <4>2. /\ table' \subseteq Prefix
            /\ IsFiniteSet(table')
            /\ Cardinality(table') <= MaxEntries
        BY <4>1, UpdateType, FrameAssumption DEF TypeOK
      <4> QED
        BY <3>2, <3>4, <4>2 DEF TypeOK, handle_ack, Return, Output
    <3>5. CASE DropFlags(c)
      BY <3>2, <3>5 DEF TypeOK, DropFlags, Return, Output
    <3>6. CASE DropUnexpected(c)
      BY <3>2, <3>6 DEF TypeOK, DropUnexpected, Return, Output
    <3> QED
      BY <2>4, <3>3, <3>4, <3>5, <3>6 DEF Resume
  <2>5. CASE UNCHANGED vars
    BY <2>5 DEF TypeOK, vars
  <2> QED
    BY <2>1, <2>2, <2>3, <2>4, <2>5 DEF Next, Receive
<1> QED
  BY <1>1, <1>2, PTL DEF Spec

(***************************************************************************)
(* The filter.  PassedOnlyAfterCookie is not inductive: a later step could *)
(* find a prefix in the table that nobody has paid for with a cookie.  The *)
(* invariant ties every prefix in the table to a validated ACK.            *)
(***************************************************************************)
FilterInv ==
  /\ table # {} => validated # {}
  /\ \A v \in validated : IsCookieAck(v)
  /\ PassedOnlyAfterCookie

\* On a big-endian build controller lets no TCP packet through before a peer
\* has echoed a cookie, whatever the CPUs do at the same time and whatever key
\* handle_ack finds on its stack.
THEOREM Filters ==
  ASSUME Endian = "big"
  PROVE  Spec => []PassedOnlyAfterCookie
<1>1. Init => FilterInv
  BY DEF Init, FilterInv, PassedOnlyAfterCookie, Passed, NoOutput
<1>2. FilterInv /\ [Next]_vars => FilterInv'
  <2> SUFFICES ASSUME FilterInv, [Next]_vars PROVE FilterInv'
    OBVIOUS
  <2>1. ASSUME NEW c \in Cpus, NEW f \in Frames, PassUnparsed(c, f)
        PROVE  FilterInv'
    <3>1. f \in Frame
      BY FrameAssumption
    <3>2. ~IsTcpIp(f)
      BY <2>1, <3>1, Endian = "big"
         DEF PassUnparsed, IsTcpIp, ReachesController, parse_ether, parse_ipv4, Frame
    <3> QED
      BY <2>1, <3>2 DEF FilterInv, PassUnparsed, PassedOnlyAfterCookie, Return, IsCookieAck
  <2>2. ASSUME NEW c \in Cpus, NEW h, KnownConnection(c, h)
        PROVE  FilterInv'
    <3>1. table # {}
      BY <2>2 DEF KnownConnection, bpf_map_lookup_elem
    <3> QED
      BY <2>2, <3>1 DEF FilterInv, KnownConnection, PassedOnlyAfterCookie
  <2>3. ASSUME NEW c \in Cpus, NEW h, UnknownConnection(c, h)
        PROVE  FilterInv'
    BY <2>3 DEF FilterInv, UnknownConnection, PassedOnlyAfterCookie, Passed
  <2>4. ASSUME NEW c \in Cpus, handle_syn(c)
        PROVE  FilterInv'
    BY <2>4 DEF FilterInv, handle_syn, PassedOnlyAfterCookie, Passed, Return
  <2>5. ASSUME NEW c \in Cpus, handle_ack(c)
        PROVE  FilterInv'
    BY <2>5 DEF FilterInv, handle_ack, PassedOnlyAfterCookie, Passed, Return
  <2>6. ASSUME NEW c \in Cpus, DropFlags(c) \/ DropUnexpected(c)
        PROVE  FilterInv'
    BY <2>6 DEF FilterInv, DropFlags, DropUnexpected, PassedOnlyAfterCookie, Passed, Return
  <2>7. CASE UNCHANGED vars
    BY <2>7 DEF FilterInv, vars, PassedOnlyAfterCookie, Passed
  <2> QED
    BY <2>1, <2>2, <2>3, <2>4, <2>5, <2>6, <2>7 DEF Next, Receive, Resume
<1>3. FilterInv => PassedOnlyAfterCookie
  BY DEF FilterInv
<1> QED
  BY <1>1, <1>2, <1>3, PTL DEF Spec

(***************************************************************************)
(* What is sent.  The headers in out remember which handler the frame came *)
(* from; the two properties then follow from the handlers alone.           *)
(***************************************************************************)
SentInv ==
  Sent => \/ IsSyn(out.headers) /\ out.frame = SynReply(out.headers)
          \/ IsCookieAck(out.headers) /\ out.frame = AckReply(out.headers)

\* Only the two handlers send, each on its own kind of packet.
LEMMA SentByHandlers == Spec => []SentInv
<1>1. Init => SentInv
  BY DEF Init, SentInv, Sent, NoOutput
<1>2. SentInv /\ [Next]_vars => SentInv'
  <2> SUFFICES ASSUME SentInv, [Next]_vars PROVE SentInv'
    OBVIOUS
  <2>1. ASSUME NEW c \in Cpus, NEW h, PassUnparsed(c, h) \/ KnownConnection(c, h)
        PROVE  SentInv'
    BY <2>1 DEF SentInv, Sent, PassUnparsed, KnownConnection, Return
  <2>2. ASSUME NEW c \in Cpus, NEW h, UnknownConnection(c, h)
        PROVE  SentInv'
    BY <2>2 DEF SentInv, Sent, UnknownConnection
  <2>3. ASSUME NEW c \in Cpus, handle_syn(c)
        PROVE  SentInv'
    BY <2>3 DEF SentInv, handle_syn, Return
  <2>4. ASSUME NEW c \in Cpus, handle_ack(c)
        PROVE  SentInv'
    BY <2>4 DEF SentInv, handle_ack, Return
  <2>5. ASSUME NEW c \in Cpus, DropFlags(c) \/ DropUnexpected(c)
        PROVE  SentInv'
    BY <2>5 DEF SentInv, Sent, DropFlags, DropUnexpected, Return
  <2>6. CASE UNCHANGED vars
    BY <2>6 DEF SentInv, Sent, vars
  <2> QED
    BY <2>1, <2>2, <2>3, <2>4, <2>5, <2>6 DEF Next, Receive, Resume
<1> QED
  BY <1>1, <1>2, PTL DEF Spec

\* The SYN's sender accepts the answer of handle_syn, and its ACK is accepted.
LEMMA SynReplyCompletes ==
  ASSUME Endian = "big", NEW h \in Frame, IsSyn(h)
  PROVE  PeerAccepts(h, SynReply(h)) /\ IsCookieAck(PeerAck(h, SynReply(h)))
<1> DEFINE a == PeerAck(h, SynReply(h))
<1>1. h.flags = {"syn"}
  BY Endian = "big" DEF IsSyn, Rejected, IsSet, Bit, Frame, Flag
<1>2. PeerAccepts(h, SynReply(h))
  BY <1>1, Endian = "big" DEF PeerAccepts, SynReply, Bit, Frame
<1>3. /\ a.flags = {"ack"} /\ a.rsv = 0
      /\ a.ack = Inc("big", compute_cookie(h))
      /\ a.sport = h.sport /\ a.dport = h.dport
      /\ a.saddr = h.saddr /\ a.daddr = h.daddr
  BY DEF PeerAck, SynReply, Frame
<1>4. compute_cookie(a) = compute_cookie(h)
  BY <1>3 DEF compute_cookie
<1>5. Dec(Endian, a.ack) = compute_cookie(h)
  BY <1>3, CookieType, DecInc, Endian = "big" DEF ByteOrder
<1>6. ~Rejected(a) /\ ~IsSet(a, "syn") /\ IsSet(a, "ack")
  BY <1>3, Endian = "big" DEF Rejected, IsSet, Bit, Res
<1> QED
  BY <1>2, <1>4, <1>5, <1>6 DEF IsCookieAck

\* On a big-endian build no SYN is answered in vain: see AnsweredSynCanComplete.
THEOREM SynAnswersComplete ==
  ASSUME Endian = "big"
  PROVE  Spec => []AnsweredSynCanComplete
<1>1. TypeOK /\ SentInv => AnsweredSynCanComplete
  <2> SUFFICES ASSUME TypeOK, SentInv, Sent, "syn" \in out.headers.flags
               PROVE  /\ PeerAccepts(out.headers, out.frame)
                      /\ IsCookieAck(PeerAck(out.headers, out.frame))
    BY DEF AnsweredSynCanComplete
  <2>1. out.headers \in Frame
    BY DEF TypeOK, Sent, NoOutput, Output
  <2>2. ~IsCookieAck(out.headers)
    BY Endian = "big" DEF IsCookieAck, IsSet, Bit
  <2> QED
    BY <2>1, <2>2, SynReplyCompletes, Endian = "big" DEF SentInv
<1> QED
  BY <1>1, TypeCorrect, SentByHandlers, PTL

\* On a big-endian build both handlers number the packets of a connection from
\* its cookie: see OneSequenceSpace.
THEOREM SameSequenceSpace ==
  ASSUME Endian = "big"
  PROVE  Spec => []OneSequenceSpace
<1>1. TypeOK /\ SentInv => OneSequenceSpace
  <2> SUFFICES ASSUME TypeOK, SentInv, Sent
               PROVE  InitialSeq(out.frame) = compute_cookie(Reverse(out.frame))
    BY DEF OneSequenceSpace
  <2> DEFINE h == out.headers
  <2>1. h \in Frame
    BY DEF TypeOK, Sent, NoOutput, Output
  <2>2. CASE IsSyn(h) /\ out.frame = SynReply(h)
    <3>1. compute_cookie(Reverse(SynReply(h))) = compute_cookie(h)
      BY <2>1 DEF compute_cookie, Reverse, SynReply, Frame
    <3>2. "syn" \in SynReply(h).flags /\ SynReply(h).seq = compute_cookie(h)
      BY <2>1, <2>2, Endian = "big" DEF SynReply, Frame, IsSyn, IsSet, Bit
    <3> QED
      BY <2>2, <3>1, <3>2 DEF InitialSeq
  <2>3. CASE IsCookieAck(h) /\ out.frame = AckReply(h)
    <3>1. compute_cookie(Reverse(AckReply(h))) = compute_cookie(h)
      BY <2>1 DEF compute_cookie, Reverse, AckReply, Frame
    <3>2. "syn" \notin AckReply(h).flags /\ AckReply(h).seq = h.ack
      BY <2>1, Endian = "big" DEF AckReply, Frame, Bit
    <3> QED
      BY <2>3, <3>1, <3>2, Endian = "big" DEF InitialSeq, IsCookieAck
  <2> QED
    BY <2>2, <2>3 DEF SentInv
<1> QED
  BY <1>1, TypeCorrect, SentByHandlers, PTL

(***************************************************************************)
(* Handshakes.                                                             *)
(***************************************************************************)
Known(f) == bpf_map_lookup_elem(compute_connection(f))

ClientState == {Closed, SynSent} \union {Established(rcv) : rcv \in U32}

\* Whatever reaches a CPU is a complete segment.
SegmentInv ==
  /\ client \in [Clients -> ClientState]
  /\ \A p \in wire : p.frame \in TcpSegments
  /\ \A p \in back : p.frame.seq \in U32
  /\ cpu \in [Cpus -> TcpSegments \union {Idle}]

\* A SYN-ACK carries the cookie of its connection, unless the table lets the
\* connection through to the stack; so does what a client took from it.
CookieInv ==
  /\ \A p \in back : p.frame.flags = {"syn", "ack"} =>
       p.frame.seq = compute_cookie(Reverse(p.frame)) \/ Known(Reverse(p.frame))
  /\ \A s \in Clients : client[s].st = "established" =>
       Dec("big", client[s].rcv) = compute_cookie(s) \/ Known(s)

(***************************************************************************)
(* Segments, cookies and the table.                                        *)
(***************************************************************************)
\* The cookie and the lookup depend on the connection only.
LEMMA ConnectionDecides ==
  ASSUME NEW f, NEW g, SameConnection(f, g)
  PROVE  compute_cookie(f) = compute_cookie(g) /\ (Known(f) <=> Known(g))
<1>1. f.saddr = g.saddr /\ f.daddr = g.daddr /\ f.sport = g.sport /\ f.dport = g.dport
  BY DEF SameConnection, compute_connection
<1> QED
  BY <1>1 DEF SameConnection, compute_cookie, Known

\* What an established client sends.
LEMMA AckOfFacts ==
  ASSUME NEW s \in Clients, NEW rcv \in U32
  PROVE  LET a == AckOf(s, rcv)
         IN  /\ a \in TcpSegments /\ SameConnection(a, s)
             /\ a.ack = rcv /\ a.flags = {"ack"} /\ a.rsv = 0
<1>1. s \in Frame /\ s.fits = 3 /\ IsTcpIp(s) /\ s.rsv = 0
  BY HandshakeAssumption DEF TcpSegments
<1>2. Inc("big", s.seq) \in U32
  BY <1>1, WordType DEF Frame, ByteOrder
<1>3. {"ack"} \in SUBSET Flag
  BY DEF Flag
<1>4. AckOf(s, rcv) \in Frame
  BY <1>1, <1>2, <1>3 DEF AckOf, Frame
<1>5. /\ AckOf(s, rcv).fits = s.fits /\ AckOf(s, rcv).etype = s.etype /\ AckOf(s, rcv).proto = s.proto
      /\ AckOf(s, rcv).saddr = s.saddr /\ AckOf(s, rcv).daddr = s.daddr
      /\ AckOf(s, rcv).sport = s.sport /\ AckOf(s, rcv).dport = s.dport
      /\ AckOf(s, rcv).ack = rcv /\ AckOf(s, rcv).flags = {"ack"} /\ AckOf(s, rcv).rsv = s.rsv
  BY <1>1 DEF AckOf, Frame
<1> QED
  BY <1>1, <1>4, <1>5 DEF TcpSegments, IsTcpIp, SameConnection, compute_connection

\* controller accepts it when the client has taken the cookie.
LEMMA AckOfAccepted ==
  ASSUME Endian = "big", NEW s \in Clients, NEW rcv \in U32, Dec("big", rcv) = compute_cookie(s)
  PROVE  IsCookieAck(AckOf(s, rcv))
<1> DEFINE a == AckOf(s, rcv)
<1>1. SameConnection(a, s) /\ a.ack = rcv /\ a.flags = {"ack"} /\ a.rsv = 0
  BY AckOfFacts
<1>2. compute_cookie(a) = compute_cookie(s)
  BY <1>1, ConnectionDecides
<1> HIDE DEF a
<1>3. ~Rejected(a) /\ ~IsSet(a, "syn") /\ IsSet(a, "ack")
  BY <1>1, Endian = "big" DEF Rejected, IsSet, Bit, Res
<1> QED
  BY <1>1, <1>2, <1>3, Endian = "big" DEF IsCookieAck, a

\* What the program and the stack send.
LEMMA SynReplyFacts ==
  ASSUME NEW h \in Frame
  PROVE  /\ SynReply(h).seq = compute_cookie(Reverse(SynReply(h)))
         /\ SynReply(h).seq \in U32
<1>1. /\ SynReply(h).saddr = h.daddr /\ SynReply(h).daddr = h.saddr
      /\ SynReply(h).sport = h.dport /\ SynReply(h).dport = h.sport
      /\ SynReply(h).seq = compute_cookie(h)
  BY DEF SynReply, Frame
<1>2. SynReply(h) \in Frame
  BY ReplyType
<1>3. /\ Reverse(SynReply(h)).saddr = h.saddr /\ Reverse(SynReply(h)).daddr = h.daddr
      /\ Reverse(SynReply(h)).sport = h.sport /\ Reverse(SynReply(h)).dport = h.dport
  BY <1>1, <1>2 DEF Reverse, Frame
<1>4. SameConnection(Reverse(SynReply(h)), h)
  BY <1>3 DEF SameConnection, compute_connection
<1> QED
  BY <1>1, <1>4, ConnectionDecides, CookieType

LEMMA AckReplyFacts ==
  ASSUME Endian = "big", NEW h \in Frame
  PROVE  AckReply(h).flags # {"syn", "ack"} /\ AckReply(h).seq \in U32
<1>1. AckReply(h).flags = (h.flags \union {Bit("ack")}) \ {Bit("syn")} /\ AckReply(h).seq = h.ack
  BY DEF AckReply, Frame
<1>2. Bit("syn") = "syn" /\ h.ack \in U32
  BY Endian = "big" DEF Bit, Frame
<1> QED
  BY <1>1, <1>2

LEMMA StackFacts ==
  ASSUME NEW f \in TcpSegments, NEW p \in StackAnswers(f)
  PROVE  /\ p.frame.seq \in U32
         /\ p.frame.flags = {"syn", "ack"} => SameConnection(Reverse(p.frame), f)
<1>1. f \in Frame /\ StackIsn \in U32 /\ f.ack \in U32
  BY HandshakeAssumption DEF TcpSegments, Frame
<1> DEFINE An(fl, seq, ack) ==
             [f EXCEPT !.saddr = f.daddr, !.daddr = f.saddr, !.sport = f.dport,
                       !.dport = f.sport, !.flags = fl, !.seq = seq, !.ack = ack]
<1>2. \E fl, seq, ack : p.frame = An(fl, seq, ack) /\ seq \in {StackIsn, f.ack}
  <2>1. ASSUME NEW fl, NEW seq, NEW ack, p \in Answer(f, fl, seq, ack)
        PROVE  p.frame = An(fl, seq, ack)
    BY <2>1 DEF Answer, Packets
  <2> HIDE DEF An
  <2>2. CASE "syn" \in f.flags
    <3>1. p \in Answer(f, {"syn", "ack"}, StackIsn, Inc("big", f.seq))
      BY <2>2 DEF StackAnswers
    <3> QED
      BY <2>1, <3>1
  <2>3. CASE "syn" \notin f.flags
    <3>1. p \in Answer(f, {"rst"}, f.ack, f.seq)
      BY <2>3 DEF StackAnswers
    <3> QED
      BY <2>1, <3>1
  <2> QED
    BY <2>2, <2>3
<1>3. PICK fl, seq, ack : p.frame = An(fl, seq, ack) /\ seq \in {StackIsn, f.ack}
  BY <1>2
<1>4. /\ p.frame.saddr = f.daddr /\ p.frame.daddr = f.saddr
      /\ p.frame.sport = f.dport /\ p.frame.dport = f.sport /\ p.frame.seq = seq
  BY <1>1, <1>3 DEF Frame
<1>5. /\ Reverse(p.frame).saddr = f.saddr /\ Reverse(p.frame).daddr = f.daddr
      /\ Reverse(p.frame).sport = f.sport /\ Reverse(p.frame).dport = f.dport
  BY <1>1, <1>3, <1>4 DEF Reverse, Frame
<1> QED
  BY <1>1, <1>3, <1>4, <1>5 DEF SameConnection, compute_connection

\* Nothing that has been sent or stored is taken back.
LEMMA KnownGrows ==
  ASSUME table \subseteq table', NEW f, Known(f)
  PROVE  Known(f)'
  BY DEF Known, bpf_map_lookup_elem, AsKey, compute_connection

(***************************************************************************)
(* The steps.  A client:                                                   *)
(***************************************************************************)
LEMMA TakesCookie ==
  ASSUME Endian = "big", SegmentInv, CookieInv, NEW s \in Clients, NEW p \in back,
         For(s, p.frame), PeerAccepts(s, p.frame)
  PROVE  /\ Inc("big", p.frame.seq) \in U32
         /\ Dec("big", Inc("big", p.frame.seq)) = compute_cookie(s) \/ Known(s)
<1>1. p.frame.seq \in U32 /\ p.frame.flags = {"syn", "ack"}
  BY DEF SegmentInv, PeerAccepts
<1>2. Inc("big", p.frame.seq) \in U32 /\ Dec("big", Inc("big", p.frame.seq)) = p.frame.seq
  BY <1>1, WordType, DecInc DEF ByteOrder
<1>3. p.frame.seq = compute_cookie(Reverse(p.frame)) \/ Known(Reverse(p.frame))
  BY <1>1 DEF CookieInv
<1>4. compute_cookie(s) = compute_cookie(Reverse(p.frame)) /\ (Known(s) <=> Known(Reverse(p.frame)))
  BY ConnectionDecides DEF For
<1> QED
  BY <1>2, <1>3, <1>4

\* The program, up to the lookup: a hit goes to the stack, a miss stays.
LEMMA DeliverFacts ==
  ASSUME Endian = "big", SegmentInv, NEW c \in Cpus, NEW p \in wire, Deliver(c, p)
  PROVE  /\ table' = table /\ validated' = validated
         /\ \/ cpu' = cpu /\ Known(p.frame) /\ back' = back \union StackAnswers(p.frame)
            \/ cpu' = [cpu EXCEPT ![c] = p.frame] /\ back' = back
<1> DEFINE f == p.frame
<1>1. f \in TcpSegments
  BY DEF SegmentInv
<1>2. ReachesController(f) /\ parse_tcphdr(f) = {f}
  BY <1>1, Endian = "big" DEF TcpSegments, IsTcpIp, ReachesController, parse_ether, parse_ipv4, parse_tcphdr
<1>3. KnownConnection(c, f) \/ UnknownConnection(c, f)
  BY <1>2 DEF Deliver, Receive, PassUnparsed
<1>4. f # Idle
  BY <1>1, HandshakeAssumption DEF TcpSegments
<1>5. CASE KnownConnection(c, f)
  BY <1>5 DEF KnownConnection, Known, Deliver
<1>6. CASE UnknownConnection(c, f)
  <2>1. cpu[c] = Idle /\ cpu' = [cpu EXCEPT ![c] = f] /\ table' = table /\ validated' = validated
    BY <1>6 DEF UnknownConnection
  <2>2. cpu' # cpu
    BY <1>4, <2>1 DEF SegmentInv
  <2> QED
    BY <2>1, <2>2 DEF Deliver
<1> QED
  BY <1>3, <1>5, <1>6

\* The rest of the program: it answers or drops.
LEMMA RunFacts ==
  ASSUME NEW c \in Cpus, Run(c)
  PROVE  /\ table \subseteq table' /\ cpu' = [cpu EXCEPT ![c] = Idle] /\ cpu[c] # Idle
         /\ back \subseteq back'
         /\ \A q \in back' : q \in back \/ q.frame = SynReply(cpu[c]) \/ q.frame = AckReply(cpu[c])
         /\ \A v \in validated' : v \in validated \/ (v = cpu[c] /\ IsCookieAck(cpu[c]))
<1>1. CASE handle_syn(c)
  <2>1. /\ table' = table /\ validated' = validated /\ cpu' = [cpu EXCEPT ![c] = Idle] /\ cpu[c] # Idle
        /\ out'.verdict = "XDP_TX" /\ out'.frame = SynReply(cpu[c])
    BY <1>1 DEF handle_syn, Return
  <2> QED
    BY <2>1 DEF Run
<1>2. CASE handle_ack(c)
  <2>1. /\ validated' = validated \union {cpu[c]} /\ cpu' = [cpu EXCEPT ![c] = Idle] /\ cpu[c] # Idle
        /\ IsCookieAck(cpu[c])
        /\ out'.verdict = "XDP_TX" /\ out'.frame = AckReply(cpu[c])
    BY <1>2 DEF handle_ack, Return
  <2>2. table \subseteq table'
    BY <1>2 DEF handle_ack, bpf_map_update_elem
  <2> QED
    BY <2>1, <2>2 DEF Run
<1>3. CASE DropFlags(c) \/ DropUnexpected(c)
  <2>1. /\ table' = table /\ validated' = validated /\ cpu' = [cpu EXCEPT ![c] = Idle] /\ cpu[c] # Idle
        /\ out'.verdict = "XDP_DROP"
    BY <1>3 DEF DropFlags, DropUnexpected, Return
  <2> QED
    BY <2>1 DEF Run
<1> QED
  BY <1>1, <1>2, <1>3 DEF Run, Resume

\* A step that changes neither the program nor what was sent to the clients,
\* and adds to the wire a segment of a client.
LEMMA ClientStep ==
  ASSUME SegmentInv, CookieInv, UNCHANGED <<vars, back>>,
         client' \in [Clients -> ClientState],
         NEW a \in TcpSegments, wire' \subseteq wire \union Packets({a}),
         \A s \in Clients : client'[s].st = "established" =>
           client'[s] = client[s] \/ Dec("big", client'[s].rcv) = compute_cookie(s) \/ Known(s)
  PROVE  SegmentInv' /\ CookieInv'
<1>1. table' = table /\ cpu' = cpu /\ back' = back
  BY DEF vars
<1>2. \A p \in wire' : p \in wire \/ p.frame = a
  BY DEF Packets
<1>3. SegmentInv'
  BY <1>1, <1>2 DEF SegmentInv
<1>4. \A f : Known(f) <=> Known(f)'
  BY <1>1 DEF Known, bpf_map_lookup_elem
<1>5. CookieInv'
  BY <1>1, <1>4 DEF CookieInv
<1> QED
  BY <1>3, <1>5

LEMMA SegmentsKept ==
  ASSUME Endian = "big", SegmentInv, CookieInv, HNext
  PROVE  SegmentInv' /\ CookieInv'
<1>1. ASSUME NEW s \in Clients, SendSyn(s) PROVE SegmentInv' /\ CookieInv'
  <2>1. client' \in [Clients -> ClientState] /\ client'[s].st # "established"
    BY <1>1 DEF SendSyn, SegmentInv, ClientState, SynSent
  <2>2. \A z \in Clients : z # s => client'[z] = client[z]
    BY <1>1 DEF SendSyn, SegmentInv
  <2>3. s \in TcpSegments
    BY HandshakeAssumption
  <2> QED
    BY <1>1, <2>1, <2>2, <2>3, ClientStep DEF SendSyn
<1>2. ASSUME SendOlder PROVE SegmentInv' /\ CookieInv'
  <2>1. PICK f \in Older : wire' = wire \union Packets({f})
    BY <1>2 DEF SendOlder
  <2>2. f \in TcpSegments /\ client' = client
    BY <1>2, HandshakeAssumption DEF SendOlder
  <2> QED
    BY <1>2, <2>1, <2>2, ClientStep DEF SendOlder, SegmentInv
<1>3. ASSUME NEW s \in Clients, HearsSynAck(s) PROVE SegmentInv' /\ CookieInv'
  <2>1. PICK p \in back :
          /\ For(s, p.frame) /\ PeerAccepts(s, p.frame)
          /\ client' = [client EXCEPT ![s] = Established(Inc("big", p.frame.seq))]
          /\ wire' = wire \union Packets({AckOf(s, Inc("big", p.frame.seq))})
    BY <1>3 DEF HearsSynAck
  <2> DEFINE rcv == Inc("big", p.frame.seq)
  <2>2. rcv \in U32 /\ (Dec("big", rcv) = compute_cookie(s) \/ Known(s))
    BY <2>1, TakesCookie
  <2>3. client' \in [Clients -> ClientState] /\ client'[s].rcv = rcv
    BY <2>1, <2>2 DEF SegmentInv, ClientState, Established
  <2>4. \A z \in Clients : z # s => client'[z] = client[z]
    BY <2>1 DEF SegmentInv
  <2>5. AckOf(s, rcv) \in TcpSegments
    BY <2>2, AckOfFacts
  <2>6. \A z \in Clients : client'[z].st = "established" =>
          client'[z] = client[z] \/ Dec("big", client'[z].rcv) = compute_cookie(z) \/ Known(z)
    BY <2>2, <2>3, <2>4
  <2> QED
    BY <1>3, <2>1, <2>3, <2>5, <2>6, ClientStep DEF HearsSynAck
<1>4. ASSUME NEW s \in Clients, HearsMore(s) PROVE SegmentInv' /\ CookieInv'
  <2>1. client[s].st = "established" /\ UNCHANGED <<vars, back>>
    BY <1>4 DEF HearsMore
  <2>2. client[s].rcv \in U32
    BY <2>1 DEF SegmentInv, ClientState, Closed, SynSent, Established
  <2>3. AckOf(s, client[s].rcv) \in TcpSegments
    BY <2>2, AckOfFacts
  <2>4. CASE client' = [client EXCEPT ![s] = Closed] /\ UNCHANGED wire
    <3>1. client' \in [Clients -> ClientState] /\ client'[s].st # "established"
      BY <2>4 DEF SegmentInv, ClientState, Closed
    <3>2. \A z \in Clients : z # s => client'[z] = client[z]
      BY <2>4 DEF SegmentInv
    <3> QED
      BY <2>1, <2>3, <2>4, <3>1, <3>2, ClientStep
  <2>5. CASE wire' = wire \union Packets({AckOf(s, client[s].rcv)}) /\ UNCHANGED client
    BY <2>1, <2>3, <2>5, ClientStep DEF SegmentInv
  <2> QED
    BY <1>4, <2>4, <2>5 DEF HearsMore
<1>5. ASSUME NEW c \in Cpus, NEW p \in wire, Deliver(c, p) PROVE SegmentInv' /\ CookieInv'
  <2> DEFINE f == p.frame
  <2>1. f \in TcpSegments /\ UNCHANGED <<client, wire>>
    BY <1>5 DEF SegmentInv, Deliver
  <2>2. /\ table' = table
        /\ \/ cpu' = cpu /\ Known(f) /\ back' = back \union StackAnswers(f)
           \/ cpu' = [cpu EXCEPT ![c] = f] /\ back' = back
    BY <1>5, <2>1, DeliverFacts
  <2>3. \A g : Known(g) <=> Known(g)'
    BY <2>2 DEF Known, bpf_map_lookup_elem
  <2>4. CASE cpu' = cpu /\ Known(f) /\ back' = back \union StackAnswers(f)
    <3>1. \A q \in StackAnswers(f) : /\ q.frame.seq \in U32
                                     /\ q.frame.flags = {"syn", "ack"} => SameConnection(Reverse(q.frame), f)
      BY <2>1, StackFacts
    <3>2. \A q \in StackAnswers(f) : q.frame.flags = {"syn", "ack"} => Known(Reverse(q.frame))
      BY <2>4, <3>1, ConnectionDecides
    <3>3. SegmentInv'
      BY <2>1, <2>4, <3>1 DEF SegmentInv
    <3>4. CookieInv'
      BY <2>1, <2>3, <2>4, <3>2 DEF CookieInv
    <3> QED
      BY <3>3, <3>4
  <2>5. CASE cpu' = [cpu EXCEPT ![c] = f] /\ back' = back
    <3>1. SegmentInv'
      BY <2>1, <2>5 DEF SegmentInv
    <3>2. CookieInv'
      BY <2>1, <2>3, <2>5 DEF CookieInv
    <3> QED
      BY <3>1, <3>2
  <2> QED
    BY <2>2, <2>4, <2>5
<1>6. ASSUME NEW c \in Cpus, Run(c) PROVE SegmentInv' /\ CookieInv'
  <2> DEFINE h == cpu[c]
  <2>1. h \in Frame /\ UNCHANGED <<client, wire>>
    BY <1>6 DEF Run, Resume, handle_syn, handle_ack, DropFlags, DropUnexpected, SegmentInv, TcpSegments
  <2>2. table \subseteq table' /\ cpu' = [cpu EXCEPT ![c] = Idle]
    BY <1>6, RunFacts
  <2>3. /\ back \subseteq back'
        /\ \A q \in back' : q \in back \/ q.frame = SynReply(h) \/ q.frame = AckReply(h)
    BY <1>6, RunFacts
  <2>4. SegmentInv'
    BY <2>1, <2>2, <2>3, SynReplyFacts, AckReplyFacts, Endian = "big" DEF SegmentInv
  <2>5. CookieInv'
    <3>1. \A q \in back' : q.frame.flags = {"syn", "ack"} =>
            (q.frame.seq = compute_cookie(Reverse(q.frame)) \/ Known(Reverse(q.frame))')
      BY <2>1, <2>2, <2>3, SynReplyFacts, AckReplyFacts, KnownGrows, Endian = "big" DEF CookieInv
    <3>2. \A s \in Clients : client[s].st = "established" =>
            Dec("big", client[s].rcv) = compute_cookie(s) \/ Known(s)'
      BY <2>2, KnownGrows DEF CookieInv
    <3> QED
      BY <2>1, <3>1, <3>2 DEF CookieInv
  <2> QED
    BY <2>4, <2>5
<1> QED
  BY <1>1, <1>2, <1>3, <1>4, <1>5, <1>6 DEF HNext

(***************************************************************************)
(* The theorems.                                                           *)
(***************************************************************************)
LEMMA HandshakeStarts == HInit => SegmentInv /\ CookieInv
<1> SUFFICES ASSUME HInit PROVE SegmentInv /\ CookieInv
  OBVIOUS
<1>1. /\ wire = {} /\ back = {} /\ validated = {} /\ cpu = [c \in Cpus |-> Idle]
      /\ client = [s \in Clients |-> Closed]
  BY DEF HInit, Init
<1>2. \A s \in Clients : client[s].st # "established"
  BY <1>1 DEF Closed
<1>3. SegmentInv
  BY <1>1 DEF SegmentInv, ClientState
<1> QED
  BY <1>1, <1>2, <1>3 DEF CookieInv

LEMMA Stutters ==
  ASSUME UNCHANGED allvars
  PROVE  (SegmentInv => SegmentInv') /\ (CookieInv => CookieInv')
<1>1. /\ client' = client /\ wire' = wire /\ back' = back
      /\ cpu' = cpu /\ table' = table /\ validated' = validated
  BY DEF allvars
<1> QED
  BY <1>1 DEF SegmentInv, CookieInv, Known, bpf_map_lookup_elem

\* controller never gets to "should never happens" with the ACK of an
\* established client, however the packets of any number of clients and CPUs
\* interleave, are lost, repeated or reordered: see EstablishedAckAccepted.
THEOREM EstablishedClientsAccepted ==
  ASSUME Endian = "big"
  PROVE  HSpec => []EstablishedAckAccepted
<1>1. HInit => SegmentInv /\ CookieInv
  BY HandshakeStarts
<1>2. SegmentInv /\ CookieInv /\ [HNext]_allvars => SegmentInv' /\ CookieInv'
  BY SegmentsKept, Stutters, Endian = "big"
<1>3. SegmentInv /\ CookieInv => EstablishedAckAccepted
  <2> SUFFICES ASSUME SegmentInv, CookieInv, NEW s \in Clients, client[s].st = "established"
               PROVE  LET a == AckOf(s, client[s].rcv)
                      IN  IsCookieAck(a) \/ bpf_map_lookup_elem(compute_connection(a))
    BY DEF EstablishedAckAccepted
  <2>1. client[s].rcv \in U32
    BY DEF SegmentInv, ClientState, Closed, SynSent, Established
  <2>2. CASE Dec("big", client[s].rcv) = compute_cookie(s)
    BY <2>1, <2>2, AckOfAccepted, Endian = "big"
  <2>3. CASE Known(s)
    <3>1. SameConnection(AckOf(s, client[s].rcv), s)
      BY <2>1, AckOfFacts
    <3> QED
      BY <2>3, <3>1, ConnectionDecides DEF Known
  <2> QED
    BY <2>2, <2>3 DEF CookieInv
<1> QED
  BY <1>1, <1>2, <1>3, PTL DEF HSpec
=============================================================================
