---------------------------- MODULE SectionNames ----------------------------
(***************************************************************************)
(* The type and the attach type of a program, from the name of its section *)
(* (libbpf.c): the first entry of a table whose name starts the section's. *)
(* A name is a sequence of pieces, cut where one name of the table could   *)
(* start another.                                                          *)
(***************************************************************************)
EXTENDS Integers, SequencesExt

None == "none"
Sec(sec, type, expected, attach) == [sec |-> sec, type |-> type, expected |-> expected, attach |-> attach]
Prog(sec, type) == Sec(sec, type, None, None)               \* BPF_PROG_SEC, BPF_APROG_COMPAT
Aprog(sec, type, attach) == Sec(sec, type, None, attach)    \* BPF_APROG_SEC
Eaprog(sec, type, attach) == Sec(sec, type, attach, attach) \* BPF_EAPROG_SEC

section_names == <<
    Prog(<<"socket">>, "SOCKET_FILTER"),
    Prog(<<"kprobe/">>, "KPROBE"),
    Prog(<<"kretprobe/">>, "KPROBE"),
    Prog(<<"classifier">>, "SCHED_CLS"),
    Prog(<<"action">>, "SCHED_ACT"),
    Prog(<<"tracepoint/">>, "TRACEPOINT"),
    Prog(<<"raw_tracepoint/">>, "RAW_TRACEPOINT"),
    Prog(<<"xdp">>, "XDP"),
    Prog(<<"perf_event">>, "PERF_EVENT"),
    Prog(<<"lwt_", "in">>, "LWT_IN"),
    Prog(<<"lwt_", "out">>, "LWT_OUT"),
    Prog(<<"lwt_", "xmit">>, "LWT_XMIT"),
    Prog(<<"lwt_", "seg6local">>, "LWT_SEG6LOCAL"),
    Aprog(<<"cgroup_skb/", "ingress">>, "CGROUP_SKB", "INET_INGRESS"),
    Aprog(<<"cgroup_skb/", "egress">>, "CGROUP_SKB", "INET_EGRESS"),
    Prog(<<"cgroup/", "skb">>, "CGROUP_SKB"),
    Aprog(<<"cgroup/", "sock">>, "CGROUP_SOCK", "INET_SOCK_CREATE"),
    Eaprog(<<"cgroup/", "post_bind", "4">>, "CGROUP_SOCK", "INET4_POST_BIND"),
    Eaprog(<<"cgroup/", "post_bind", "6">>, "CGROUP_SOCK", "INET6_POST_BIND"),
    Aprog(<<"cgroup/", "dev">>, "CGROUP_DEVICE", "DEVICE"),
    Aprog(<<"sockops">>, "SOCK_OPS", "SOCK_OPS"),
    Aprog(<<"sk_skb", "/stream_parser">>, "SK_SKB", "STREAM_PARSER"),
    Aprog(<<"sk_skb", "/stream_verdict">>, "SK_SKB", "STREAM_VERDICT"),
    Prog(<<"sk_skb">>, "SK_SKB"),
    Aprog(<<"sk_msg">>, "SK_MSG", "SK_MSG_VERDICT"),
    Aprog(<<"lirc_mode2">>, "LIRC_MODE2", "LIRC_MODE2"),
    Aprog(<<"flow_dissector">>, "FLOW_DISSECTOR", "FLOW_DISSECTOR"),
    Eaprog(<<"cgroup/", "bind", "4">>, "CGROUP_SOCK_ADDR", "INET4_BIND"),
    Eaprog(<<"cgroup/", "bind", "6">>, "CGROUP_SOCK_ADDR", "INET6_BIND"),
    Eaprog(<<"cgroup/", "connect", "4">>, "CGROUP_SOCK_ADDR", "INET4_CONNECT"),
    Eaprog(<<"cgroup/", "connect", "6">>, "CGROUP_SOCK_ADDR", "INET6_CONNECT"),
    Eaprog(<<"cgroup/", "sendmsg", "4">>, "CGROUP_SOCK_ADDR", "UDP4_SENDMSG"),
    Eaprog(<<"cgroup/", "sendmsg", "6">>, "CGROUP_SOCK_ADDR", "UDP6_SENDMSG") >>

\* The faulty form of Match below: the search does not stop at the first match.
Match_Last(name) == SelectLastInSeq(section_names, LAMBDA e : IsPrefix(e.sec, name))

\* The loop of both functions; 0 when no entry matches.
Match(name) == SelectInSeq(section_names, LAMBDA e : IsPrefix(e.sec, name))

\* libbpf_prog_type_by_name; <<>> is -EINVAL.
ProgTypeByName(name) ==
    LET i == Match(name)
    IN IF i = 0 THEN <<>> ELSE <<section_names[i].type, section_names[i].expected>>

\* libbpf_attach_type_by_name
AttachTypeByName(name) ==
    LET i == Match(name)
    IN IF i = 0 \/ (IF i = 0 THEN TRUE ELSE section_names[i].attach = None) THEN <<>>
       ELSE <<section_names[i].attach>>

(***************************************************************************)
(* Reference: the entry with the longest name that starts the section's.   *)
(***************************************************************************)
NameExact(name, prog, attach) ==
    LET fits == {i \in DOMAIN section_names : IsPrefix(section_names[i].sec, name)}
        best == CHOOSE i \in fits : \A j \in fits : Len(section_names[j].sec) <= Len(section_names[i].sec)
    IN IF fits = {} THEN prog = <<>> /\ attach = <<>>
       ELSE /\ prog = <<section_names[best].type, section_names[best].expected>>
            /\ attach = IF section_names[best].attach = None THEN <<>> ELSE <<section_names[best].attach>>

=============================================================================
