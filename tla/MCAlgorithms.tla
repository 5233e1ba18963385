---------------------------- MODULE MCAlgorithms ----------------------------
(***************************************************************************)
(* The functions of the project that compute a result from their arguments *)
(* and keep nothing, each over all inputs of a small family: an input is   *)
(* chosen at the start, and one step computes the result.                  *)
(***************************************************************************)
EXTENDS Integers, FiniteSets, SequencesExt

CONSTANTS
    MaxDepth,       \* MAX_RESOLVE_DEPTH of btf.c
    MaxU32,         \* UINT32_MAX
    MaxNrTypes,     \* BTF_MAX_NR_TYPES
    MaxStrOffset,   \* BTF_MAX_STR_OFFSET
    MinGrow,        \* least growth of the table of types
    FirstSize,      \* first buffer of btf__get_from_id
    VlanMaxDepth    \* VLAN_MAX_DEPTH of parsing_helpers.h

VARIABLES input, result

vars == <<input, result>>

B == INSTANCE BtfParse
S == INSTANCE BtfStrings
N == INSTANCE Netlink
R == INSTANCE LoadRetry
L == INSTANCE ProgLinfo
E == INSTANCE SectionNames
C == INSTANCE Params
P == INSTANCE PacketHelpers

SeqsUpTo(set, n) == UNION {[1 .. k -> set] : k \in 0 .. n}

(***************************************************************************)
(* Types.                                                                  *)
(***************************************************************************)
Type(kind, name, flag, size, refs, parts) ==
    [kind |-> kind, name |-> name, flag |-> flag, size |-> size, refs |-> refs, parts |-> parts]
IntType == Type("int", "i", FALSE, 4, <<>>, <<0>>)
Ptr(id) == Type("ptr", "", FALSE, 0, <<id>>, <<>>)
Const(id) == Type("const", "", FALSE, 0, <<id>>, <<>>)
Typedef(id) == Type("typedef", "td", FALSE, 0, <<id>>, <<>>)
Array(n, id) == Type("array", "", FALSE, 0, <<id, 1>>, <<n>>)
Proto(ret, arg) == Type("func_proto", "", FALSE, 0, <<ret, arg>>, <<"arg">>)
Struct(name, refs) == Type("struct", name, FALSE, 8, refs, [k \in DOMAIN refs |-> k])
Union(name, refs) == Type("union", name, FALSE, 8, refs, [k \in DOMAIN refs |-> k])
Fwd(name, isUnion) == Type("fwd", name, isUnion, 0, <<>>, <<>>)

\* What a compiler may leave of one source file: a struct S that refers to T,
\* declared or defined, through pointers, constants, arrays or functions.
Units == {<<IntType, Ptr(p), Struct("S", <<2, y>>), t, q>> :
              p \in {1, 3, 4}, y \in {1, 5},
              t \in {Struct("T", <<2>>), Union("T", <<2>>), Fwd("T", FALSE), Fwd("T", TRUE)},
              q \in {Ptr(4), Const(2), Array(2, 2), Proto(2, 1)}}

Shifted(unit, by) ==
    [i \in DOMAIN unit |->
        [unit[i] EXCEPT !.refs = [k \in DOMAIN unit[i].refs |->
                                     IF unit[i].refs[k] = 0 THEN 0 ELSE unit[i].refs[k] + by]]]

\* The two files of the comment in front of btf_dedup_struct_types.
Documented ==
    <<IntType, Struct("A", <<1, 3, 4>>), Ptr(2), Ptr(5), Struct("S", <<3, 6>>), Ptr(7), Fwd("B", FALSE)>>
Documented2 ==
    <<IntType, Struct("B", <<1, 3, 4>>), Ptr(2), Ptr(5), Struct("S", <<6, 3>>), Ptr(7), Fwd("A", FALSE)>>

DedupOpts == {[one |-> FALSE, dontResolve |-> FALSE], [one |-> TRUE, dontResolve |-> FALSE],
              [one |-> FALSE, dontResolve |-> TRUE]}

DedupInput(a, b, opts) == input = [alg |-> "dedup", types |-> a \o Shifted(b, Len(a)), opts |-> opts]

SizedTypes == {IntType, Ptr(0), Fwd("T", FALSE)} \cup {Typedef(id) : id \in 1 .. 3}
              \cup {Const(id) : id \in 1 .. 3} \cup {Array(n, id) : n \in 0 .. 3, id \in 1 .. 3}

Records(rec) == {[w \in 1 .. rec |-> IF w = 1 THEN 8 * k ELSE w] : k \in 0 .. 1}
InfoSections(rec) == [name : {101, 102}, recs : SeqsUpTo(Records(rec), 2)]

\* Types as a compiler writes them, with the bytes the format gives them.
Written == {[t |-> [kind |-> "int", vlen |-> 0], bytes |-> 16], [t |-> [kind |-> "ptr", vlen |-> 0], bytes |-> 12],
            [t |-> [kind |-> "struct", vlen |-> 2], bytes |-> 36], [t |-> [kind |-> "enum", vlen |-> 1], bytes |-> 20],
            [t |-> [kind |-> "var", vlen |-> 0], bytes |-> 16]}

HdrFaults == {"none", "magic", "version", "flags", "short", "offset", "misplaced"}

\* .BTF with these types behind `pad` bytes, the string section `cut` bytes
\* early, and perhaps something wrong with the header.
BtfData(ts, pad, cut, strs, fault) ==
    LET area == [i \in 1 .. pad \div 4 |-> [kind |-> "inside", vlen |-> 0]]
                \o FlattenSeq([i \in DOMAIN ts |-> B!Words(ts[i].t, ts[i].bytes)])
        off == 4 * Len(area) - cut
    IN [magic |-> fault # "magic", version |-> fault # "version", flags |-> fault = "flags",
        size |-> IF fault = "short" THEN 20 ELSE 24 + off + Len(strs),
        type_off |-> IF fault = "misplaced" THEN pad + 2 ELSE pad,
        str_off |-> IF fault = "offset" THEN off + Len(strs) + 1 ELSE off,
        area |-> area, strs |-> strs]

\* .BTF.ext with function records in front of line records of four words.
Both(funcs, lines, cut, fault) ==
    LET f == B!Encode(2, funcs)
        l == B!Encode(4, lines)
        hdr == 24
    IN [magic |-> fault # "magic", version |-> fault # "version", flags |-> fault = "flags", hdr_len |-> hdr,
        size |-> IF fault = "short" THEN 4 ELSE hdr + 4 * (Len(f) + Len(l)) - cut,
        func |-> [off |-> 0, len |-> 4 * Len(f)],
        line |-> [off |-> 4 * Len(f) + (IF fault = "misplaced" THEN 2 ELSE 0), len |-> 4 * Len(l)],
        area |-> f \o l]

(***************************************************************************)
(* The others.                                                             *)
(***************************************************************************)
\* extack_policy of nlattr.c, and one with bounds of its own.
Policies == {<<N!Policy("string", 0, 0), N!Policy("u32", 0, 0)>>, <<N!Policy("string", 2, 3), N!Policy("unspec", 1, 4)>>}
Attrs == {[N!Nla(t, size, size) EXCEPT !.nul = size > 0 /\ nul] : t \in 1 .. 3, size \in {-2, 0, 1, 3, 4, 5}, nul \in BOOLEAN}

Programs == {<<>>, [drv |-> 11], [skb |-> 12], [drv |-> 13, skb |-> 14]}
Faults == {[at |-> 0, kind |-> "none"]} \cup [at : 1 .. 3, kind : {"pid", "seq", "error"}]
          \cup [at : 1 .. 3, kind : {"failed", "empty", "cut"}]

\* The kernel's answer with one thing wrong in it.
Answer(i) ==
    LET messages == N!Dump(i.links, 7, 9)
        bad == [messages[IF i.fault.at = 0 THEN 1 ELSE i.fault.at] EXCEPT
                   !.pid = IF i.fault.kind = "pid" THEN 8 ELSE @,
                   !.seq = IF i.fault.kind = "seq" THEN 8 ELSE @,
                   !.type = IF i.fault.kind = "error" THEN "error" ELSE @,
                   !.error = i.fault.kind = "error"]
        sent == IF i.fault.at = 0 THEN messages ELSE [messages EXCEPT ![i.fault.at] = bad]
        ds == N!Datagrams(sent, i.cuts)
        d == IF i.fault.at \in DOMAIN ds THEN i.fault.at ELSE 1
    IN [ds EXCEPT ![d].failed = i.fault.kind = "failed",
                  ![d].fits = CASE i.fault.kind = "empty" -> 0 [] i.fault.kind = "cut" -> @ - 1 [] OTHER -> @]

Options == {[opt |-> o, arg |-> [name |-> "", len |-> 0]] :
                o \in {"A", "S", "N", "offload", "F", "U", "q", "h", "?"}}
           \cup {[opt |-> o, arg |-> a] : o \in {"d", "r"},
                    a \in {[name |-> "eth0", len |-> 4], [name |-> "eth1", len |-> 15], [name |-> "eth0", len |-> 16],
                           [name |-> "no such", len |-> 4]}}
           \cup {[opt |-> o, arg |-> [name |-> "text", len |-> 4]] : o \in {"filename", "progsec", "L", "R"}}

Protos == {"8021Q", "8021AD", "IPV6", "IP"}
Packet(proto, tags, rest) ==
    [dst |-> "d", src |-> "s", proto |-> proto, tags |-> tags, len |-> 4 * Len(tags) + rest]
\* All that a reader of tags may look at is in `tags`.
Readable(p) == p.len < 4 * (Len(p.tags) + 1) \/ Len(p.tags) > VlanMaxDepth
               \/ ~P!proto_is_vlan(IF p.tags = <<>> THEN p.proto ELSE p.tags[Len(p.tags)].proto)

NameEnds == {<<>>, <<"/stream_parser">>, <<"4">>, <<"x">>}

Init ==
    /\ result = <<>>
    /\ \/ \E a \in Units, b \in Units, opts \in DedupOpts : DedupInput(a, b, opts)
       \/ \E opts \in DedupOpts : DedupInput(Documented, Documented2, opts)
       \/ \E ts \in [1 .. 3 -> SizedTypes] :
             input = [alg |-> "types", types |-> Append(ts, Struct("map", <<1, 2>>))]
       \/ \E rec \in 2 .. 3 : \E secs \in SeqsUpTo(InfoSections(rec), 2), cut \in 0 .. 1, odd \in {0, 2}, name \in {101, 102} :
             input = [alg |-> "ext", rec |-> rec, secs |-> secs, cut |-> cut, odd |-> odd, name |-> name]
       \/ \E ts \in SeqsUpTo(Written, 5), pad \in {0, 4}, mem \in 0 .. 3 :
             input = [alg |-> "parse", ts |-> ts, pad |-> pad, cut |-> 0, strs |-> <<0>>, mem |-> mem, fault |-> "none"]
       \/ \E ts \in SeqsUpTo(Written, 2), cut \in {0, 4, 12}, fault \in HdrFaults,
             strs \in {<<>>, <<0>>, <<1>>, <<0, 1>>, <<1, 0>>, <<0, 1, 0>>, <<0, 1, 1, 0>>} :
             /\ cut > 0 => ts # <<>>
             /\ input = [alg |-> "parse", ts |-> ts, pad |-> 0, cut |-> cut, strs |-> strs, mem |-> 9, fault |-> fault]
       \/ \E size \in 0 .. 2 * FirstSize, exists \in BOOLEAN, mem \in 0 .. 2, fails \in 0 .. 2 :
             input = [alg |-> "fetch", k |-> [size |-> size, exists |-> exists, mem |-> mem, fails |-> fails]]
       \/ \E funcs \in SeqsUpTo(InfoSections(2), 1), lines \in SeqsUpTo(InfoSections(4), 1), cut \in {0, 4},
             fault \in HdrFaults \ {"offset"} :
             input = [alg |-> "ext_new", funcs |-> funcs, lines |-> lines, cut |-> cut, fault |-> fault]
       \/ \E rest \in SeqsUpTo(0 .. 3, 3) : \E a, b, c \in 0 .. S!Offset(<<0>> \o rest, Len(rest) + 2) :
             input = [alg |-> "strings", strs |-> <<0>> \o rest,
                      refs |-> [names |-> <<a>>, line |-> <<b>>, func |-> <<c>>]]
       \/ \E stream \in SeqsUpTo(Attrs, 2), policy \in Policies : \E len \in 0 .. N!StreamLen(stream) :
             input = [alg |-> "attributes", stream |-> stream, policy |-> policy, len |-> len]
       \/ \E fd \in {-1, 3}, flags \in {0, 2}, done \in BOOLEAN :
             input = [alg |-> "request", fd |-> fd, flags |-> flags, done |-> done]
       \/ \E p, q \in Programs, cuts \in SUBSET {2, 3}, fault \in Faults, flags \in SUBSET {"drv", "skb"} :
             input = [alg |-> "xdp_id", cuts |-> cuts, fault |-> fault, flags |-> flags,
                      links |-> <<[ifindex |-> 1, progs |-> p], [ifindex |-> 2, progs |-> q]>>]
       \/ \E k \in [func : 1 .. 2, line : 1 .. 2, verdict : {"fd", "EACCES", "E2BIG"}],
             load \in [func : 0 .. 2, funcZero : BOOLEAN, line : 0 .. 2, lineZero : BOOLEAN,
                       log : {0, 1, 3}, buf : BOOLEAN, mem : 0 .. 2] :
             input = [alg |-> "load", k |-> k, load |-> load]
       \/ \E jited \in SeqsUpTo(1 .. 5, 4), ksyms \in {<<>>, <<1>>, <<1, 4>>, <<4, 1>>, <<1, 3>>},
             lens \in [1 .. 2 -> 2 .. 3] :
             input = [alg |-> "lines", jited |-> jited, ksyms |-> ksyms, lens |-> lens]
       \/ \E i \in DOMAIN E!section_names, suffix \in NameEnds :
             input = [alg |-> "section", name |-> E!section_names[i].sec \o suffix]
       \/ \E name \in {<<>>, <<"cgroup/">>, <<"cgroup/", "bind">>, <<"syncookie_kern">>} :
             input = [alg |-> "section", name |-> name]
       \/ \E args \in SeqsUpTo(Options, 3) : input = [alg |-> "options", args |-> args]
       \/ \E proto \in Protos, tags \in SeqsUpTo([tci : {5, 8197}, proto : Protos], VlanMaxDepth + 1),
             rest \in {-1, 0, 3, 39, 40, 47, 48}, nexthdr \in {"ICMPV6", "TCP"} :
             /\ rest < 0 => tags = <<>>
             /\ Readable(Packet(proto, tags, rest))
             /\ input = [alg |-> "packet", p |-> Packet(proto, tags, rest), nexthdr |-> nexthdr]

Compute(alg, value) == result = <<>> /\ input.alg = alg /\ result' = value /\ UNCHANGED input

Dedup == Compute("dedup", B!Dedup(input.types, input.opts))
Types == Compute("types", [size |-> B!ResolveSize(input.types, 1), end |-> B!ResolveType(input.types, 1),
                           kv |-> B!GetMapKvTids(input.types, "map", 4, 8)])
Ext == LET words == [B!Encode(input.rec, input.secs) EXCEPT ![1] = @ + input.odd]
           part == SubSeq(words, 1, Len(words) - input.cut)
           accepted == B!SetupInfo(part, 2)
       IN Compute("ext", [accepted |-> accepted,
                          recs |-> IF accepted THEN B!RelocInfo(part, input.name, 3) ELSE <<>>])
Parse == Compute("parse", B!NewBtf(BtfData(input.ts, input.pad, input.cut, input.strs, input.fault), input.mem))
Fetch == Compute("fetch", B!GetFromId(input.k))
NewExt == LET d == Both(input.funcs, input.lines, input.cut, input.fault)
          IN Compute("ext_new", [accepted |-> B!ExtNew(d),
                                 func |-> B!InfoWords(d, d.func), line |-> B!InfoWords(d, d.line)])
Strings == Compute("strings", S!DedupStrings(input.strs, input.refs))
Attributes == Compute("attributes", N!NlaParse(N!EmptyTb(2), input.policy, input.stream, input.len))
Request == LET ack == [N!Message(7, 1, "error", <<>>) EXCEPT !.multi = FALSE, !.error = ~input.done]
           IN Compute("request", [ret |-> N!SetLinkXdpFd(N!Datagrams(<<ack>>, {}), 7)])
XdpId == Compute("xdp_id", N!GetLinkXdpId(Answer(input), 7, 9, 1, input.flags))
Load == Compute("load", R!LoadXattr(input.k, input.load))
Lines == Compute("lines", L!NewLinfo(input.jited, input.ksyms, input.lens))
Section == Compute("section", [prog |-> E!ProgTypeByName(input.name), attach |-> E!AttachTypeByName(input.name)])
ParseOptions == Compute("options", C!ParseCmdlineArgs(input.args))
PacketStep == Compute("packet", P!ParseEthhdr(input.p))

Next == Dedup \/ Types \/ Ext \/ Parse \/ Fetch \/ NewExt \/ Strings \/ Attributes \/ Request \/ XdpId \/ Load \/ Lines \/ Section
        \/ ParseOptions \/ PacketStep

Spec == Init /\ [][Next]_vars

(***************************************************************************)
(* Properties.                                                             *)
(***************************************************************************)
Done(alg) == result # <<>> /\ input.alg = alg

\* btf__dedup succeeds on what compilers leave, and every type keeps its
\* description and refers to the same types as before, however they are
\* declared in the two files, with a table of one bucket or of many.  No two
\* types are left that nothing tells apart, and in the example of btf.c the
\* declarations of A and B are gone.  Names and line information say what they
\* said before, in a section with each string once and none that is not
\* referred to.  The names of the sections with function information are left
\* out, as the code leaves them out, though the comment in front of btf__dedup
\* promises to update "all the strings referenced from .BTF.ext section": that
\* they survive is checked only where the strings do not move.
DedupExact ==
    /\ Done("dedup") =>
        /\ B!SameMeaning(input.types, result)
        /\ B!Twins(result.types) = {}
        /\ /\ input.types = Documented \o Shifted(Documented2, Len(Documented))
           /\ ~input.opts.dontResolve
           => Len(result.types) = 7 /\ \A i \in DOMAIN result.types : result.types[i].kind # "fwd"
    /\ Done("strings") => S!Kept(input.strs, input.refs, result)

\* btf__resolve_size gives the true size of an array or modified type, an error
\* if it does not fit 32 bits or the chain does not end; btf__resolve_type ends
\* behind the modifiers, and btf__get_map_kv_tids accepts a key and a value of
\* the sizes of the map's definition only.
SizesExact ==
    Done("types") => /\ B!SizeExact(input.types, 1, result.size)
                     /\ B!ResolvedExact(input.types, 1, result.end)
                     /\ B!KvExact(input.types, 1, 2, 4, 8, result.kv)

\* btf_ext__new takes .BTF.ext only if the header is right and both of its
\* parts are inside it and whole, and finds each where it was written; and
\* btf_ext_reloc_info hands out the records of the section asked for, at their
\* place in the program.
ExtRecordsExact ==
    /\ Done("ext") => B!ExtExact(input.rec, input.secs, input.cut, input.odd, input.name, 3, result.accepted, result.recs)
    /\ Done("ext_new") =>
        LET Whole(secs) == secs # <<>> /\ \A i \in DOMAIN secs : secs[i].recs # <<>>
        IN /\ result.accepted <=> /\ input.fault = "none" /\ input.cut = 0
                                  /\ Whole(input.funcs) /\ Whole(input.lines)
           /\ result.accepted => /\ result.func = B!Encode(2, input.funcs)
                                 /\ result.line = B!Encode(4, input.lines)

\* btf__new enters the types that begin before the strings, in order, in a
\* table that always has room for them and for void, at its limit, too, and
\* refuses nothing that is well formed unless memory runs out; btf__get_from_id
\* hands on a buffer with all of the kernel's data, whatever their size, or
\* reports that a call failed.
TypesEntered ==
    /\ Done("parse") =>
        B!NewExact([i \in DOMAIN input.ts |-> input.ts[i].t], [i \in DOMAIN input.ts |-> input.ts[i].bytes],
                   BtfData(input.ts, input.pad, input.cut, input.strs, input.fault),
                   input.mem, input.fault # "none" \/ input.strs \notin {<<0>>, <<0, 1, 0>>}, result)
    /\ Done("fetch") => B!FetchExact(input.k, result)

\* libbpf_nla_parse finds the last attribute of each type within the length it
\* is given, also where the rest it counts goes below zero, and refuses what
\* its policy excludes: too short, too long, a string without an end.  What
\* bpf_set_link_xdp_fd asks for is what the kernel reads, and its result is the
\* kernel's.  bpf_get_link_xdp_id gives the id of the program in the mode asked
\* for, however the kernel cuts its answer into datagrams, and none if a
\* message of the answer is wrong or recv fails.  When a datagram is empty or
\* does not fit the buffer the id is the right one or 0.
NetlinkExact ==
    /\ Done("attributes") => N!ParseExact(input.stream, input.len, 2, input.policy, result)
    /\ Done("request") => N!RequestExact(input.fd, input.flags, input.done, result.ret)
    /\ Done("xdp_id") => N!IdExact(input.links, 1, input.flags, input.fault.kind, result)

\* bpf_load_program_xattr corrects what an older kernel does not know, loads
\* what can be loaded, and makes at most four calls.
RetryCorrects == Done("load") => R!RetryExact(input.k, input.load, result)

\* bpf_prog_linfo__new accepts the kernel's tables and shares the records out
\* to the functions; the searches find the last record up to an address or an
\* instruction.
LinesFound ==
    Done("lines") =>
        /\ input.jited # <<>> /\ input.ksyms # <<>> =>
              L!LineExact(input.jited, input.ksyms, SubSeq(input.lens, 1, Len(input.ksyms)), result)
        /\ L!Shared(input.jited, result)
        /\ L!OffsetExact(input.jited)

\* No entry of section_names hides another: a section gets the type and the
\* attach type of the longest name that fits.
SectionsResolve == Done("section") => E!NameExact(input.name, result.prog, result.attach)

\* The last mode option decides, whatever stands between, what is not given
\* keeps its default (native mode, syncookie.o, the first program), and the
\* interface index is always that of the interface name.
LastOptionDecides == Done("options") => C!ParamsExact(input.args, result)

\* parse_ethhdr returns the type of what lies where it leaves the cursor, inside
\* the packet, and -1 only for a packet without a whole Ethernet header;
\* get_ip6hdr and get_icmp6hdr agree with the parse functions; vlan_tag_push and
\* vlan_tag_pop undo each other.  Two comments of the headers promise more than
\* this: -1 also for a packet cut in a tag, and a VLAN ID where the code returns
\* the tag with its priority (see EthExact and TagsRoundTrip).
HeadersAgree ==
    Done("packet") =>
        /\ P!EthExact(input.p, result) /\ P!GetAgrees(input.p, input.nexthdr)
        /\ input.p.len >= 0 => \A vlid \in {0, 7, 4095} : P!TagsRoundTrip(input.p, vlid)

=============================================================================
