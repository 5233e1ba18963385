---------------------------- MODULE MCSynCookie ----------------------------
(***************************************************************************)
(* A small instance of SynCookie: a byte is one bit, so an address and a   *)
(* sequence number have 16 values and a key of connections_table has a     *)
(* prefix of up to 8 bits.  Host 1 (address 0001) and host 2 (address      *)
(* 1001) talk to one server; the cookie of host 1 is 1111, so that its ACK *)
(* wraps around.                                                           *)
(***************************************************************************)
EXTENDS SynCookie, TLC

CONSTANTS gw, eth0   \* the two ends of the Ethernet segment

Symmetry == Permutations(Cpus)

MCMacs == {gw, eth0}
MCXor(a, b) == (a + b) % 2

Server == <<0, 1, 0, 1>>
Host1  == <<0, 0, 0, 1>>
Host2  == <<1, 0, 0, 1>>
Port1  == <<1, 0>>
Http   == <<1, 1>>
Zero   == <<0, 0, 0, 0>>
Top    == <<1, 1, 1, 1>>

\* A segment with no options, flags fl.
Segment(host, seq, ack, fl) ==
  [fits |-> 3, dmac |-> eth0, smac |-> gw, etype |-> "0800", proto |-> "tcp",
   saddr |-> host, daddr |-> Server, sport |-> Port1, dport |-> Http,
   seq |-> seq, ack |-> ack, doff |-> 5, rsv |-> 0, flags |-> fl]

Syn1    == Segment(Host1, Top, Zero, {"syn"})
Syn2    == Segment(Host2, Zero, Zero, {"syn"})
Ack1    == Segment(Host1, Zero, Zero, {"ack"})
Ack2    == Segment(Host2, <<0, 0, 0, 1>>, <<1, 0, 0, 0>>, {"ack"})
\* Segments of connections that are older than the program.
OldAck  == Segment(Host2, Top, Top, {"ack"})
Data    == Segment(Host1, Zero, Zero, {"ack", "psh"})
\* Rare but legal: a reserved bit, a simultaneous open.
SynRsv2 == [Syn2 EXCEPT !.rsv = 2]
SynAck  == Segment(Host1, Top, Zero, {"syn", "ack"})
\* Not for the controller, or not complete.
Udp     == [Syn1 EXCEPT !.proto = "other"]
Arp     == [Syn1 EXCEPT !.etype = "other"]
Runt    == [Syn1 EXCEPT !.fits = 0]
CutIp   == [Syn1 EXCEPT !.fits = 1]
CutTcp  == [Syn1 EXCEPT !.fits = 2]
\* The ethertype that is 0x0800 when read in the other byte order.
Other08 == [Syn1 EXCEPT !.etype = "0008"]

MCFrames ==
  {Syn1, Syn2, Ack1, Ack2, OldAck, Data, SynRsv2, SynAck,
   Udp, Arp, Runt, CutIp, CutTcp, Other08}

AsTcpBytes(f) ==
  [sport |-> f.sport, dport |-> f.dport, seq |-> f.seq, ack |-> f.ack,
   doff |-> f.doff, rsv |-> f.rsv, flags |-> f.flags]

MCGarbage == {AsTcpBytes(Data), AsTcpBytes(Syn2), AsTcpBytes(Ack1)}

\* Prefix lengths 0, within the data, of all the data and out of range.
MCStackKeys ==
  {[prefixlen |-> n, data |-> Server \o Port1 \o Http] : n \in {0, 5, 8, 15}}
    \union {[prefixlen |-> 8, data |-> Zero \o Zero]}
=============================================================================
