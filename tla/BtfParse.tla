------------------------------ MODULE BtfParse ------------------------------
(***************************************************************************)
(* How btf.c takes .BTF and .BTF.ext in: btf__new checks the header and    *)
(* the strings and enters every type in a table that grows; btf_ext__new   *)
(* does the same for the function and line records; btf__get_from_id asks  *)
(* the kernel for type data of a size it does not know.                    *)
(*                                                                         *)
(* Data is a record of the header's fields, of which magic, version and    *)
(* flags are only right or wrong, and of `area`, the words of four bytes   *)
(* behind the header; the first word of a type stands for all of it.       *)
(* Offsets and sizes are in bytes.                                         *)
(***************************************************************************)
EXTENDS BtfTypes

CONSTANTS
    MaxNrTypes,     \* BTF_MAX_NR_TYPES
    MaxStrOffset,   \* BTF_MAX_STR_OFFSET
    MinGrow,        \* by how many entries the table grows at least, 16
    FirstSize       \* the size btf__get_from_id tries first, 4096

HdrSize    == 24    \* sizeof(struct btf_header)
ExtHdrLeast == 8    \* offsetof(struct btf_ext_header, func_info_off)

\* `mem` is the number of reallocations of the table that succeed.
NoTypes(mem) == [err |-> "none", types |-> <<>>, nr_types |-> 0, types_size |-> 0, mem |-> mem]

\* The faulty form of AddType below: the entry of void is not allowed for.
AddType_NoVoid(btf, t) ==
    LET full == btf.types_size - btf.nr_types < 1
        size == Min({MaxNrTypes, btf.types_size + Max({btf.types_size \div 4, MinGrow})})
    IN IF full /\ btf.types_size = MaxNrTypes THEN [btf EXCEPT !.err = "E2BIG"]
       ELSE IF full /\ btf.mem = 0 THEN [btf EXCEPT !.err = "ENOMEM"]
       ELSE [btf EXCEPT !.types = Append(@, t), !.nr_types = @ + 1,
                        !.types_size = IF full THEN size ELSE @, !.mem = IF full THEN @ - 1 ELSE @]

\* btf_add_type; entry 0 of the table is void.
AddType(btf, t) ==
    LET full == btf.types_size - btf.nr_types < 2
        size == Min({MaxNrTypes, btf.types_size + Max({btf.types_size \div 4, MinGrow})})
    IN IF full /\ btf.types_size = MaxNrTypes THEN [btf EXCEPT !.err = "E2BIG"]
       ELSE IF full /\ btf.mem = 0 THEN [btf EXCEPT !.err = "ENOMEM"]
       ELSE [btf EXCEPT !.types = Append(@, t), !.nr_types = @ + 1,
                        !.types_size = IF full THEN size ELSE @, !.mem = IF full THEN @ - 1 ELSE @]

\* btf_parse_hdr.  The last test lets odd offsets pass.
ParseHdr(d) ==
    LET left == d.size - HdrSize
    IN IF d.size < HdrSize \/ ~d.magic THEN "EINVAL"
       ELSE IF ~d.version \/ d.flags THEN "ENOTSUP"
       ELSE IF left = 0 \/ left < d.type_off \/ left < d.str_off THEN "EINVAL"
       ELSE IF d.type_off >= d.str_off \/ (d.type_off \div 2) % 2 = 1 THEN "EINVAL"
       ELSE "none"

\* btf_parse_str_sec, of the bytes of the section.
ParseStrSec(strs) ==
    IF Len(strs) - 1 \notin 0 .. MaxStrOffset THEN "EINVAL"
    ELSE IF strs[1] # 0 \/ strs[Len(strs)] # 0 THEN "EINVAL" ELSE "none"

\* btf_type_size.
TypeSize(t) ==
    CASE t.kind \in Modifier \cup {"fwd", "ptr", "func"} -> 12
      [] t.kind = "int" -> 12 + 4
      [] t.kind \in {"enum", "func_proto"} -> 12 + 8 * t.vlen
      [] t.kind \in {"array"} -> 12 + 12
      [] t.kind \in Composite -> 12 + 12 * t.vlen
      [] OTHER -> Invalid

\* The loop of btf_parse_type_sec, from byte pos.
RECURSIVE TypesFrom(_, _, _)
TypesFrom(d, pos, btf) ==
    LET t == d.area[(pos \div 4) + 1]
    IN IF pos >= d.str_off \/ btf.err # "none" THEN btf
       ELSE IF TypeSize(t) < 0 THEN [btf EXCEPT !.err = "EINVAL"]
       ELSE TypesFrom(d, pos + TypeSize(t), AddType(btf, t))

ParseTypeSec(d, mem) == TypesFrom(d, d.type_off, NoTypes(mem))

\* btf__new; an error frees everything.
NewBtf(d, mem) ==
    LET btf == ParseTypeSec(d, mem)
        Refused(err) == [NoTypes(mem) EXCEPT !.err = err]
    IN IF ParseHdr(d) # "none" THEN Refused(ParseHdr(d))
       ELSE IF ParseStrSec(d.strs) # "none" THEN Refused("EINVAL")
       ELSE IF btf.err # "none" THEN Refused(btf.err) ELSE btf

\* External: bpf_obj_get_info_by_fd tells the size of the data and copies as
\* much of them as the buffer takes.
GetInfo(k, room) == [btf_size |-> k.size, filled |-> Min({room, k.size})]

\* btf__get_from_id: the size it gives btf__new and the bytes of the buffer the
\* kernel filled.  An unknown id is no error.  k is the kernel and the
\* allocator: the size of the data, which of the two calls fails, how many
\* allocations succeed.
GetFromId(k) ==
    LET first == GetInfo(k, FirstSize)
        again == first.btf_size > FirstSize
        info  == IF again THEN GetInfo(k, first.btf_size) ELSE first
        last_size == IF again THEN first.btf_size ELSE FirstSize
        Nothing(err) == [err |-> err, size |-> 0, filled |-> 0]
    IN IF ~k.exists THEN Nothing(FALSE)
       ELSE IF k.mem = 0 \/ k.fails = 1 THEN Nothing(TRUE)
       ELSE IF again /\ (k.mem = 1 \/ k.fails = 2) THEN Nothing(TRUE)
       ELSE IF info.btf_size > last_size THEN Nothing(TRUE)
       ELSE [err |-> FALSE, size |-> info.btf_size, filled |-> info.filled]

(***************************************************************************)
(* .BTF.ext                                                                *)
(***************************************************************************)
\* btf_ext_parse_hdr.
ExtParseHdr(d) ==
    IF d.size < ExtHdrLeast \/ d.size < d.hdr_len \/ ~d.magic THEN "EINVAL"
    ELSE IF ~d.version \/ d.flags THEN "ENOTSUP"
    ELSE IF d.size = d.hdr_len THEN "EINVAL" ELSE "none"

\* The words of an info section [off, len], <<>> if it is not inside the data:
\* the tests of btf_ext_setup_info before it reads.
InfoWords(d, sec) ==
    IF sec.off % 4 # 0 \/ d.size < d.hdr_len + sec.off + sec.len THEN <<>>
    ELSE SubSeq(d.area, (sec.off \div 4) + 1, (sec.off + sec.len) \div 4)

\* btf_ext__new: are the data taken?
ExtNew(d) ==
    /\ ExtParseHdr(d) = "none"
    /\ SetupInfo(InfoWords(d, d.func), 2)
    /\ SetupInfo(InfoWords(d, d.line), 4)

(***************************************************************************)
(* References.                                                             *)
(***************************************************************************)
\* What a compiler writes: each type, and words that belong to it.
Words(t, bytes) == <<t>> \o [i \in 1 .. (bytes \div 4) - 1 |-> [kind |-> "inside", vlen |-> 0]]

\* `sizes[i]` is the number of bytes the format gives type i.  The types that
\* begin before the string section are entered, in order, as 1, 2, ...; the
\* table has an entry for each and for void; and data are refused only for a
\* wrong header or string section, an unknown kind, no type, too many, or if
\* there is no memory for the table (which grows by MinGrow while it is small).
NewExact(ts, sizes, d, mem, wrong, r) ==
    LET Start(i) == d.type_off + FoldLeft(LAMBDA a, b : a + b, 0, SubSeq(sizes, 1, i - 1))
        read == SelectSeq([i \in DOMAIN ts |-> i], LAMBDA i : Start(i) < d.str_off)
        known == \A i \in DOMAIN read : ts[read[i]].kind # "var"
    IN /\ (r.err = "none") <=> /\ ~wrong /\ read # <<>> /\ known /\ Len(read) < MaxNrTypes
                               /\ mem * MinGrow >= Len(read) + 1
       /\ r.err = "none" => /\ r.types = [i \in DOMAIN read |-> ts[read[i]]]
                            /\ r.nr_types = Len(read) /\ r.nr_types < r.types_size
                            /\ r.types_size <= MaxNrTypes

\* btf__new gets the size of the data and a buffer the kernel filled that far,
\* or there is an error, and an error only if a call failed.
FetchExact(k, r) ==
    /\ ~r.err => r.size = (IF k.exists THEN k.size ELSE 0) /\ r.filled = r.size
    /\ r.err => k.exists /\ (k.mem < 2 \/ k.fails # 0)

=============================================================================
