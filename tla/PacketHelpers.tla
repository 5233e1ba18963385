---------------------------- MODULE PacketHelpers ----------------------------
(***************************************************************************)
(* common/parsing_helpers.h and common/rewrite_helpers.h: the headers of a *)
(* packet, and pushing and popping a VLAN tag.                             *)
(*                                                                         *)
(* A packet is [dst, src, proto, tags, len]: the Ethernet header, what     *)
(* four-byte groups [tci, proto] follow it as far as a reader of VLAN tags *)
(* may come, and the number of bytes behind the Ethernet header.  A        *)
(* position is counted from there too.                                     *)
(***************************************************************************)
EXTENDS Integers, SequencesExt

CONSTANT VlanMaxDepth   \* VLAN_MAX_DEPTH

TagSize == 4
VlanIds == 4096     \* the VLAN ID is the lower twelve bits of a tag's control word
Ip6Size == 40
Icmp6Size == 8

proto_is_vlan(h_proto) == h_proto \in {"8021Q", "8021AD"}

\* The loop over the tags: [proto, depth] where it stops, `cut` when a tag does
\* not fit any more.
RECURSIVE SkipTags(_, _, _)
SkipTags(p, h_proto, i) ==
    IF i = VlanMaxDepth \/ ~proto_is_vlan(h_proto) THEN [proto |-> h_proto, depth |-> i, cut |-> FALSE]
    ELSE IF TagSize * (i + 1) > p.len THEN [proto |-> h_proto, depth |-> i, cut |-> TRUE]
    ELSE SkipTags(p, p.tags[i + 1].proto, i + 1)

Fail == [ret |-> "-1", pos |-> 0]

\* parse_ethhdr: [ret, pos].
ParseEthhdr(p) ==
    LET t == SkipTags(p, p.proto, 0)
    IN IF p.len < 0 THEN Fail ELSE [ret |-> t.proto, pos |-> TagSize * t.depth]

\* parse_ip6hdr and parse_icmp6hdr at a position; what they return
\* is a field of the header there.
ParseIp6hdr(p, pos, nexthdr) ==
    IF pos + Ip6Size > p.len THEN Fail ELSE [ret |-> nexthdr, pos |-> pos + Ip6Size]
ParseIcmp6hdr(p, pos, type) ==
    IF pos + Icmp6Size > p.len THEN Fail ELSE [ret |-> type, pos |-> pos + Icmp6Size]

\* The faulty form of GetIp6hdr below: the tags need not fit.
GetIp6hdr_NoCheck(p) ==
    LET t == SkipTags(p, p.proto, 0)
    IN IF t.proto # "IPV6" \/ t.cut THEN -1 ELSE TagSize * t.depth + Ip6Size

\* get_ip6hdr after get_ethhdr: the position behind the header, or -1.
GetIp6hdr(p) ==
    LET t == SkipTags(p, p.proto, 0)
    IN IF p.len < 0 \/ t.cut \/ t.proto # "IPV6" \/ TagSize * t.depth + Ip6Size > p.len THEN -1
       ELSE TagSize * t.depth + Ip6Size

\* get_icmp6hdr
GetIcmp6hdr(p, pos, nexthdr) ==
    IF nexthdr # "ICMPV6" \/ pos + Icmp6Size > p.len THEN -1 ELSE pos + Icmp6Size

(***************************************************************************)
(* bpf_xdp_adjust_head is external and may fail; `room` says whether it    *)
(* does.  [ret, p].                                                        *)
(***************************************************************************)
\* vlan_tag_pop
VlanTagPop(p, room) ==
    IF ~proto_is_vlan(p.proto) \/ TagSize > p.len \/ ~room THEN [ret |-> -1, p |-> p]
    ELSE [ret |-> p.tags[1].tci,
          p |-> [p EXCEPT !.proto = p.tags[1].proto, !.tags = Tail(@), !.len = @ - TagSize]]

\* vlan_tag_push
VlanTagPush(p, room, vlid) ==
    IF ~room THEN [ret |-> -1, p |-> p]
    ELSE [ret |-> 0, p |-> [p EXCEPT !.proto = "8021Q",
                                     !.tags = <<[tci |-> vlid % 65536, proto |-> p.proto]>> \o @,
                                     !.len = @ + TagSize]]

\* swap_src_dst_mac
SwapSrcDstMac(p) == [p EXCEPT !.src = p.dst, !.dst = p.src]

(***************************************************************************)
(* References.                                                             *)
(***************************************************************************)
\* -1 stands for an Ethernet header that does not fit, and for nothing else.
\* Otherwise the type that is returned is that of what lies at the position left
\* behind, every one before it was a tag, and it is a tag itself only if the
\* packet ends in it or there are as many as the loop goes.  For a packet that
\* ends in a tag the header file promises -1 ("including doing bounds checking,
\* and returns the type of its contents if successful, and -1 otherwise"); the
\* code leaves the loop and returns the type of the tag.
EthExact(p, r) ==
    LET n == r.pos \div TagSize
        Proto(i) == IF i = 0 THEN p.proto ELSE p.tags[i].proto
    IN /\ r = Fail <=> p.len < 0
       /\ r # Fail => /\ r.pos \in 0 .. p.len
                      /\ r.ret = Proto(n)
                      /\ \A i \in 0 .. n - 1 : proto_is_vlan(Proto(i))
                      /\ proto_is_vlan(r.ret) => n = VlanMaxDepth \/ r.pos + TagSize > p.len

\* get_ip6hdr and get_icmp6hdr find a header where the parse functions, called
\* one after the other, find it, and nowhere else.
GetAgrees(p, nexthdr) ==
    LET eth == ParseEthhdr(p)
        ip6 == IF eth.ret = "IPV6" THEN ParseIp6hdr(p, eth.pos, nexthdr) ELSE Fail
        icmp == IF ip6.ret = "ICMPV6" THEN ParseIcmp6hdr(p, ip6.pos, "type") ELSE Fail
        got == GetIp6hdr(p)
    IN /\ got = IF ip6 = Fail THEN -1 ELSE ip6.pos
       /\ got >= 0 => GetIcmp6hdr(p, got, nexthdr) = IF icmp = Fail THEN -1 ELSE icmp.pos

\* A tag that was pushed is popped again with the packet as it was before; one
\* that was popped from an 802.1Q packet can be pushed again, with its priority;
\* and what fails changes nothing.  What vlan_tag_pop returns is the whole tag
\* control word: it is "the popped VLAN ID" of its comment, the lower twelve
\* bits, exactly when the tag has priority 0 and no drop-eligible bit.
TagsRoundTrip(p, vlid) ==
    LET pushed == VlanTagPush(p, TRUE, vlid)
        popped == VlanTagPop(p, TRUE)
        tci == p.tags[1].tci
    IN /\ VlanTagPop(pushed.p, TRUE) = [ret |-> vlid, p |-> p]
       /\ popped.ret >= 0 /\ p.proto = "8021Q" => VlanTagPush(popped.p, TRUE, popped.ret) = [ret |-> 0, p |-> p]
       /\ popped.ret >= 0 => (popped.ret = tci % VlanIds <=> tci \div VlanIds = 0)
       /\ popped.ret < 0 => popped.p = p
       /\ SwapSrcDstMac(SwapSrcDstMac(p)) = p

=============================================================================
