------------------------------- MODULE Netlink -------------------------------
(***************************************************************************)
(* Attributes (nlattr.c) and the dialogue with the kernel about the        *)
(* program of an interface (netlink.c).  An attribute is                   *)
(* [type, len, val, nul]: its length in bytes counts the header of four    *)
(* and not the padding, and nul says that its last byte is 0.              *)
(***************************************************************************)
EXTENDS Integers, FiniteSets, SequencesExt

NlaHdr == 4
NlaAlign(n) == 4 * ((n + 3) \div 4)

Nla(type, size, val) == [type |-> type, len |-> NlaHdr + size, val |-> val, nul |-> FALSE]
NoNla == Nla(0, 0, 0)

StreamLen(stream) == FoldLeft(LAMBDA n, nla : n + NlaAlign(nla.len), 0, stream)

\* nla_ok.  The first comparison is with a size_t: a negative rest counts as a
\* large one.
NlaOk(nla, remaining) ==
    /\ remaining < 0 \/ remaining >= NlaHdr
    /\ nla.len >= NlaHdr
    /\ nla.len <= remaining

\* nla_attr_minlen: the bytes a value of a policy's type has at least.
AttrMinLen == [unspec |-> 0, u8 |-> 1, u16 |-> 2, u32 |-> 4, u64 |-> 8, string |-> 1, flag |-> 0]

\* A policy for attributes of one type; a minlen or maxlen of 0 is none.
Policy(type, minlen, maxlen) == [type |-> type, minlen |-> minlen, maxlen |-> maxlen]

\* validate_nla of an attribute of a known type.
ValidateNla(nla, policy) ==
    LET pt == policy[nla.type]
        size == nla.len - NlaHdr
    IN /\ size >= IF pt.minlen # 0 THEN pt.minlen ELSE AttrMinLen[pt.type]
       /\ pt.maxlen # 0 => size <= pt.maxlen
       /\ pt.type = "string" => nla.nul

\* libbpf_nla_parse: [err, tb].  `stream` is what lies in memory, `len` the
\* length of the part to be parsed; a later attribute of a type replaces an
\* earlier one, and types above the largest one are left out.
RECURSIVE NlaParse(_, _, _, _)
NlaParse(tb, policy, stream, len) ==
    LET nla == Head(stream)
        rest == len - NlaAlign(nla.len)
    IN IF stream = <<>> THEN [err |-> FALSE, tb |-> tb]
       ELSE IF ~NlaOk(nla, len) THEN [err |-> FALSE, tb |-> tb]
       ELSE IF nla.type \notin DOMAIN tb THEN NlaParse(tb, policy, Tail(stream), rest)
       ELSE IF ~ValidateNla(nla, policy) THEN [err |-> TRUE, tb |-> tb]
       ELSE NlaParse([tb EXCEPT ![nla.type] = nla], policy, Tail(stream), rest)

EmptyTb(maxtype) == [t \in 0 .. maxtype |-> NoNla]

(***************************************************************************)
(* bpf_netlink_recv: datagrams [failed, messages, fits] of messages        *)
(* [pid, seq, multi, type, error, link], until one has no part of a longer *)
(* answer in it, or the answer ends.  `fits` is the number of messages     *)
(* that lie within the buffer: recv cuts the datagram there, and NLMSG_OK  *)
(* ends the loop at the first message that is not whole.                   *)
(***************************************************************************)
XdpFd == 1
XdpAttached == 2
XdpFlags == 3
XdpProgId == 4
XdpMax == 7
Modes == {"drv", "skb", "hw"}
ModeId == [drv |-> 5, skb |-> 6, hw |-> 7]
NoPolicy == [t \in 0 .. XdpMax |-> Policy("unspec", 0, 0)]

\* get_xdp_id_attr: which of the ids is asked for; 0 is IFLA_XDP_UNSPEC.
XdpIdAttr(mode, flags) ==
    IF mode # "multi" THEN XdpProgId
    ELSE IF "drv" \in flags THEN ModeId["drv"]
    ELSE IF "hw" \in flags THEN ModeId["hw"]
    ELSE IF "skb" \in flags THEN ModeId["skb"] ELSE 0

\* __dump_link_nlmsg and get_xdp_id: what one interface does to the cookie md.
\* A link without IFLA_XDP has an empty stream here.
GetXdpId(md, link) ==
    LET tb == NlaParse(EmptyTb(XdpMax), NoPolicy, link.xdp, StreamLen(link.xdp)).tb
        mode == tb[XdpAttached].val
        attr == XdpIdAttr(mode, md.flags)
    IN IF \/ md.ifindex # 0 /\ md.ifindex # link.ifindex
          \/ tb[XdpAttached] = NoNla
          \/ mode = "none"
          \/ attr = 0
          \/ tb[attr] = NoNla
       THEN md
       ELSE [md EXCEPT !.id = tb[attr].val]

\* One message of a datagram; s.over when the function returns.
OneMessage(pid, seq, s, m) ==
    IF s.over THEN s
    ELSE IF m.pid # pid THEN [s EXCEPT !.ret = "WRNGPID", !.over = TRUE]
    ELSE IF m.seq # seq THEN [s EXCEPT !.ret = "INVSEQ", !.over = TRUE]
    ELSE LET t == [s EXCEPT !.multi = @ \/ m.multi]
         IN CASE m.type = "error" -> IF m.error THEN [t EXCEPT !.ret = "ERROR", !.over = TRUE] ELSE t
              [] m.type = "done" -> [t EXCEPT !.over = TRUE]
              [] m.type = "link" -> [t EXCEPT !.md = GetXdpId(@, m.link)]

\* One round of the loop.  A datagram of no bytes leaves it as one without a
\* part of a longer answer does.
OneDatagram(d, pid, seq, md) ==
    LET s == [ret |-> "ok", md |-> md, multi |-> FALSE, over |-> FALSE]
    IN IF d.failed THEN [s EXCEPT !.ret = "errno", !.over = TRUE]
       ELSE FoldLeft(LAMBDA t, m : OneMessage(pid, seq, t, m), s, SubSeq(d.messages, 1, d.fits))

\* The faulty form of Recv below: one datagram is the whole answer.
Recv_OnePart(datagrams, pid, seq, md) == OneDatagram(Head(datagrams), pid, seq, md)

\* The loop; "blocked" when it waits for a datagram that will not come.
RECURSIVE Recv(_, _, _, _)
Recv(datagrams, pid, seq, md) ==
    LET s == OneDatagram(Head(datagrams), pid, seq, md)
    IN IF datagrams = <<>> THEN [ret |-> "blocked", md |-> md, multi |-> TRUE, over |-> FALSE]
       ELSE IF s.over \/ ~s.multi THEN s
       ELSE Recv(Tail(datagrams), pid, seq, s.md)

\* bpf_get_link_xdp_id and libbpf_nl_get_link: [ret, id]; at most one mode may
\* be asked for.
GetLinkXdpId(datagrams, pid, seq, ifindex, flags) ==
    LET r == Recv(datagrams, pid, seq, [ifindex |-> ifindex, flags |-> flags, id |-> 0])
    IN IF Cardinality(flags) > 1 THEN [ret |-> "EINVAL", id |-> 0]
       ELSE IF r.ret = "ok" THEN [ret |-> "ok", id |-> r.md.id] ELSE [ret |-> r.ret, id |-> 0]

\* The attribute bpf_set_link_xdp_fd nests the descriptor and the flags in, and
\* what it makes of the kernel's answer.
Request(fd, flags) ==
    <<Nla(XdpFd, 4, fd)>> \o (IF flags = 0 THEN <<>> ELSE <<Nla(XdpFlags, 4, flags)>>)
SetLinkXdpFd(datagrams, pid) == Recv(datagrams, pid, 1, <<>>).ret

(***************************************************************************)
(* External: what the kernel tells of an interface with these programs, a  *)
(* function from modes to ids, and the answer to a dump, cut into          *)
(* datagrams before the messages of `cuts`.                                *)
(***************************************************************************)
XdpFill(progs) ==
    LET mode == CASE DOMAIN progs = {} -> "none"
                  [] Cardinality(DOMAIN progs) = 1 -> CHOOSE m \in DOMAIN progs : TRUE
                  [] OTHER -> "multi"
        one(m) == IF m \in DOMAIN progs THEN <<Nla(ModeId[m], 4, progs[m])>> ELSE <<>>
    IN one("skb") \o one("drv") \o one("hw") \o <<Nla(XdpAttached, 1, mode)>>
       \o (IF mode \in Modes THEN <<Nla(XdpProgId, 4, progs[mode])>> ELSE <<>>)

Message(pid, seq, type, link) ==
    [pid |-> pid, seq |-> seq, multi |-> TRUE, type |-> type, error |-> FALSE, link |-> link]

Dump(links, pid, seq) ==
    [i \in 1 .. Len(links) + 1 |->
        IF i > Len(links) THEN Message(pid, seq, "done", [ifindex |-> 0, xdp |-> <<>>])
        ELSE Message(pid, seq, "link", [ifindex |-> links[i].ifindex, xdp |-> XdpFill(links[i].progs)])]

Datagrams(messages, cuts) ==
    LET Put(ds, i) == IF i \in cuts \/ ds = <<>>
                      THEN Append(ds, [failed |-> FALSE, messages |-> <<messages[i]>>, fits |-> 1])
                      ELSE [ds EXCEPT ![Len(ds)].messages = Append(@, messages[i]), ![Len(ds)].fits = @ + 1]
    IN FoldLeft(Put, <<>>, [i \in 1 .. Len(messages) |-> i])

(***************************************************************************)
(* References.                                                             *)
(***************************************************************************)
\* A parsed stream gives, for each type, the last of its attributes that lies
\* wholly within the length given, and nothing of what lies behind; it fails
\* exactly when one of them is too short or too long for its policy, or is a
\* string without an end.
ParseExact(stream, len, maxtype, policy, r) ==
    LET Starts(i) == StreamLen(SubSeq(stream, 1, i - 1))
        Inside(i) == stream[i].len >= NlaHdr /\ Starts(i) + stream[i].len <= len
        good == {i \in DOMAIN stream : \A j \in 1 .. i : Inside(j)}
        Of(t) == {i \in good : stream[i].type = t}
        Sizes(pt) == {n \in 0 .. len : /\ n >= IF pt.minlen = 0 THEN AttrMinLen[pt.type] ELSE pt.minlen
                                       /\ pt.maxlen = 0 \/ n <= pt.maxlen}
        Refused(i) == LET pt == policy[stream[i].type]
                      IN \/ stream[i].len - NlaHdr \notin Sizes(pt)
                         \/ pt.type = "string" /\ ~stream[i].nul
    IN /\ r.err = \E i \in good : stream[i].type <= maxtype /\ Refused(i)
       /\ ~r.err => \A t \in 0 .. maxtype : r.tb[t] = IF Of(t) = {} THEN NoNla ELSE stream[CHOOSE i \in Of(t) : \A j \in Of(t) : j <= i]

\* The kernel finds in a request what the caller gave, and the caller learns
\* whether it was done.
RequestExact(fd, flags, done, ret) ==
    LET r == NlaParse(EmptyTb(XdpMax), NoPolicy, Request(fd, flags), StreamLen(Request(fd, flags)))
    IN /\ r.tb[XdpFd].val = fd
       /\ r.tb[XdpFlags] = IF flags = 0 THEN NoNla ELSE Nla(XdpFlags, 4, flags)
       /\ (ret = "ok") = done

\* The answer is the program the interface has: the only one, or with programs
\* in several modes the one of the mode asked for.  An answer that is not ours
\* or reports an error gives no id.  An answer of which a part is missing,
\* because a datagram was empty or did not fit the buffer, never gives the id of
\* another interface or mode; but the code does not notice that it is
\* incomplete, and says 0, no program, when the part that told the id is lost.
IdExact(links, ifindex, flags, fault, r) ==
    LET progs == (CHOOSE l \in ToSet(links) : l.ifindex = ifindex).progs
        single == Cardinality(DOMAIN progs) = 1
        asked == IF single THEN DOMAIN progs ELSE DOMAIN progs \cap flags
        want == IF asked = {} THEN 0 ELSE progs[CHOOSE m \in asked : TRUE]
    IN IF Cardinality(flags) > 1 \/ fault \notin {"none", "empty", "cut"} THEN r.ret # "ok" /\ r.id = 0
       ELSE IF fault = "none" THEN r = [ret |-> "ok", id |-> want]
       ELSE r.id \in {0, want}

=============================================================================
