---------------------------- MODULE MCHandshake ----------------------------
(***************************************************************************)
(* Instances of Handshake: a byte is one bit, two clients on hosts 1 and *)
(* 2 open connections to one server, one connection is older than the      *)
(* program.                                                                *)
(***************************************************************************)
EXTENDS Handshake

CONSTANTS gw, eth0

MCMacs == {gw, eth0}

MCXor(a, b) == (a + b) % 2

Server == <<0, 1, 0, 1>>
Host1  == <<0, 0, 0, 1>>
Host2  == <<1, 0, 0, 1>>
Port1  == <<1, 0>>
Http   == <<1, 1>>

Segment(host, seq, ack, fl) ==
  [fits |-> 3, dmac |-> eth0, smac |-> gw, etype |-> "0800", proto |-> "tcp",
   saddr |-> host, daddr |-> Server, sport |-> Port1, dport |-> Http,
   seq |-> seq, ack |-> ack, doff |-> 5, rsv |-> 0, flags |-> fl]

Syn1   == Segment(Host1, <<1, 1, 1, 1>>, <<0, 0, 0, 0>>, {"syn"})
Syn2   == Segment(Host2, <<0, 1, 0, 0>>, <<0, 0, 0, 0>>, {"syn"})
OldAck == [Segment(Host2, <<0, 0, 1, 0>>, <<1, 0, 0, 0>>, {"ack"}) EXCEPT !.sport = <<0, 1>>]

MCClients  == {Syn1, Syn2}
MCOlder    == {OldAck}
MCStackIsn == <<0, 0, 1, 1>>
MCFrames   == {Syn1, Syn2, OldAck}

\* Stack bytes that happen to be the prefix of no, one or all connections.
MCStackKeys ==
  {[prefixlen |-> n, data |-> Server \o Port1 \o Http] : n \in {0, 8, 15}}
    \union {[prefixlen |-> 8, data |-> <<0, 0, 0, 0, 0, 0, 0, 0>>]}
=============================================================================
