----------------------------- MODULE Handshake -----------------------------
(***************************************************************************)
(* The XDP program of SynCookie between TCP clients, a network that loses, *)
(* duplicates and reorders packets, and the TCP stack of the server behind *)
(* the program.  Clients, network and stack are not in the repository:     *)
(* they are what the program is written for, and do what RFC 793 says.  No *)
(* sender computes a cookie itself, which the comment at controller.c:90   *)
(* calls easy: nothing here says that only clients who heard an answer are *)
(* accepted.                                                               *)
(*                                                                         *)
(* A packet is a frame with its TCP checksum.  The program rewrites the    *)
(* frame and leaves the checksum as it came.                               *)
(***************************************************************************)
EXTENDS SynCookie

CONSTANTS
  Clients,    \* the SYNs that open the connections, one for each client
  Older,      \* segments of connections older than the program
  StackIsn,   \* initial sequence number of the server's own stack
  Verify      \* clients verify TCP checksums, as RFC 793 asks for

TcpSegments == {f \in Frame : f.fits = 3 /\ IsTcpIp(f)}

\* A SYN has no other flag set and, RFC 793 page 16, reserved bits of zero.
ASSUME HandshakeAssumption ==
  /\ \A s \in Clients : s \in TcpSegments /\ s.flags = {"syn"} /\ s.rsv = 0
  /\ \A f \in Older : f \in TcpSegments
  /\ StackIsn \in U32
  /\ Idle \notin Frame

VARIABLES
  client,   \* client[s]: the connection s opens, as its client sees it
  wire,     \* packets sent to the server; the network delivers each of them
            \* any number of times, at any time, or never
  back      \* packets sent to the clients, likewise

net     == <<client, wire, back>>
allvars == <<table, cpu, out, validated, client, wire, back>>

(***************************************************************************)
(* The one's complement sum of the 16-bit words a TCP checksum covers.     *)
(***************************************************************************)
Sum16(w) == w[1] * B + w[2]
Sum32(w) == (w[1] + w[3]) * B + w[2] + w[4]

FlagWeight ==
  [cwr |-> 128, ece |-> 64, urg |-> 32, ack |-> 16, psh |-> 8, rst |-> 4, syn |-> 2, fin |-> 1]

FlagSum(fl) ==
  LET w(m) == IF m \in fl THEN FlagWeight[m] ELSE 0
  IN  w("cwr") + w("ece") + w("urg") + w("ack") + w("psh") + w("rst") + w("syn") + w("fin")

Checksum(f) ==
  (Sum32(f.saddr) + Sum32(f.daddr) + Sum16(f.sport) + Sum16(f.dport) + Sum32(f.seq)
     + Sum32(f.ack) + 16 * f.doff + f.rsv + FlagSum(f.flags)) % (B * B - 1)

Packets(F) == {[frame |-> f, csum |-> Checksum(f)] : f \in F}

Intact(p) == Verify => p.csum = Checksum(p.frame)

-----------------------------------------------------------------------------
(***************************************************************************)
(* A client: closed, syn_sent or established; rcv is the number it expects *)
(* next from the server.                                                   *)
(***************************************************************************)
Closed == [st |-> "closed"]
SynSent == [st |-> "syn_sent"]
Established(rcv) == [st |-> "established", rcv |-> rcv]

SameConnection(f, g) == compute_connection(f) = compute_connection(g)
For(s, r) == SameConnection(s, Reverse(r))

\* What an established client sends when it has nothing to say.
AckOf(s, rcv) == [s EXCEPT !.seq = Inc("big", s.seq), !.ack = rcv, !.flags = {"ack"}]

HInit ==
  /\ Init
  /\ client = [s \in Clients |-> Closed]
  /\ wire = {} /\ back = {}

\* A client opens its connection, or sends its SYN again.
SendSyn(s) ==
  /\ client[s].st \in {"closed", "syn_sent"}
  /\ client' = [client EXCEPT ![s] = SynSent]
  /\ wire' = wire \union Packets({s})
  /\ UNCHANGED <<vars, back>>

\* A client of an older connection acknowledges what it got.
SendOlder ==
  /\ \E f \in Older : wire' = wire \union Packets({f})
  /\ UNCHANGED <<vars, client, back>>

\* The SYN-ACK that client s waits for reaches it, and it acknowledges it.
HearsSynAck(s) ==
  /\ client[s].st = "syn_sent"
  /\ \E p \in back :
       /\ For(s, p.frame) /\ Intact(p) /\ PeerAccepts(s, p.frame)
       /\ client' = [client EXCEPT ![s] = Established(Inc("big", p.frame.seq))]
       /\ wire' = wire \union Packets({AckOf(s, Inc("big", p.frame.seq))})
  /\ UNCHANGED <<vars, back>>

\* Another packet reaches the established client s: a reset with the number it
\* expects closes the connection; what repeats the SYN or acknowledges a byte
\* never sent is answered with an ACK.  Elsewhere a packet has no effect.
HearsMore(s) ==
  /\ client[s].st = "established"
  /\ \E p \in back :
       /\ For(s, p.frame) /\ Intact(p)
       /\ \/ /\ "rst" \in p.frame.flags /\ p.frame.seq = client[s].rcv
             /\ client' = [client EXCEPT ![s] = Closed]
             /\ UNCHANGED wire
          \/ /\ "rst" \notin p.frame.flags
             /\ wire' = wire \union Packets({AckOf(s, client[s].rcv)})
             /\ UNCHANGED client
  /\ UNCHANGED <<vars, back>>

(***************************************************************************)
(* The server's stack, on a packet with verdict XDP_PASS: a SYN is         *)
(* answered; an ACK in the numbering of the stack is part of a connection  *)
(* it has; any other ACK is answered with a reset, RFC 793 page 36.        *)
(***************************************************************************)
Answer(f, fl, seq, ack) ==
  Packets({[f EXCEPT !.saddr = f.daddr, !.daddr = f.saddr, !.sport = f.dport,
                     !.dport = f.sport, !.flags = fl, !.seq = seq, !.ack = ack]})

StackAnswers(f) ==
  IF "syn" \in f.flags THEN Answer(f, {"syn", "ack"}, StackIsn, Inc("big", f.seq))
  ELSE IF f.ack = Inc("big", StackIsn) THEN {}
  ELSE Answer(f, {"rst"}, f.ack, f.seq)

\* A packet reaches the interface and a CPU runs the program on it, up to the
\* lookup.
Deliver(c, p) ==
  /\ Receive(c, p.frame)
  /\ back' = IF cpu' = cpu THEN back \union StackAnswers(p.frame) ELSE back
  /\ UNCHANGED <<client, wire>>

\* The rest of the program; with XDP_TX the frame goes back with the checksum
\* field untouched.
Run(c) ==
  /\ Resume(c)
  /\ back' = IF out'.verdict = "XDP_TX"
             THEN back \union {[frame |-> out'.frame, csum |-> Checksum(out'.headers)]}
             ELSE back
  /\ UNCHANGED <<client, wire>>

HNext ==
  \/ \E s \in Clients : SendSyn(s) \/ HearsSynAck(s) \/ HearsMore(s)
  \/ \E c \in Cpus : Run(c) \/ \E p \in wire : Deliver(c, p)
  \/ SendOlder

(***************************************************************************)
(* A run of an XDP program ends: the verifier admits no other.  A client   *)
(* repeats its SYN, and the program its answer to it: the network does not *)
(* lose all copies of a packet that is sent again and again.               *)
(***************************************************************************)
DeliverSyn(s) == \E c \in Cpus, p \in wire : p.frame = s /\ Deliver(c, p)

Fairness ==
  /\ \A c \in Cpus : WF_allvars(Run(c))
  /\ \A s \in Clients :
       /\ WF_allvars(SendSyn(s))
       /\ SF_allvars(DeliverSyn(s))
       /\ SF_allvars(HearsSynAck(s))

HSpec == HInit /\ [][HNext]_allvars /\ Fairness

-----------------------------------------------------------------------------
\* A client that keeps sending its SYN is answered, by the program or, where a
\* stored prefix covers its connection, by the stack, with a SYN-ACK it
\* accepts, whatever the network loses and whatever other connections do.
SynIsAnswered ==
  \A s \in Clients : client[s].st = "syn_sent" ~> client[s].st = "established"

\* "should never happens" of controller, for connections opened while the
\* program runs: the ACK of an established client is always let through or
\* accepted by the cookie check, so it never gets to that branch.
EstablishedAckAccepted ==
  \A s \in Clients :
    client[s].st = "established" =>
      LET a == AckOf(s, client[s].rcv)
      IN  IsCookieAck(a) \/ bpf_map_lookup_elem(compute_connection(a))
=============================================================================
