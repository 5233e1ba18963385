------------------------------ MODULE BtfTypes ------------------------------
(***************************************************************************)
(* btf.c beside btf__dedup: types are followed to their size or to what    *)
(* they abbreviate, and .BTF.ext is taken apart and relocated.  Types are  *)
(* those of BtfDedup; an info section is measured in words of four bytes.  *)
(***************************************************************************)
EXTENDS BtfDedup

CONSTANTS
    MaxDepth,       \* MAX_RESOLVE_DEPTH
    MaxU32          \* UINT32_MAX

Modifier == {"typedef", "volatile", "const", "restrict"}

(***************************************************************************)
(* Sizes and abbreviated types.                                            *)
(***************************************************************************)
\* btf__type_by_id, and btf_type_is_void_or_null of it.
TypeById(types, id) == IF id \in DOMAIN types THEN types[id] ELSE Void
VoidOrNull(t) == t.kind \in {"void", "fwd"}

Invalid == -22
TooBig == -7

\* The faulty form of Times below: the product is not tested.
Times_Wraps(n, size) == (n * size) % (MaxU32 + 1)

\* nelems * size, unless it is more than 32 bits hold.
Times(n, size) == IF n # 0 /\ size > MaxU32 \div n THEN TooBig ELSE n * size

\* The loop of btf__resolve_size, i types into the chain.
RECURSIVE ResolveFrom(_, _, _, _)
ResolveFrom(types, id, i, nelems) ==
    LET t == TypeById(types, id)
    IN IF i = MaxDepth \/ VoidOrNull(t) THEN Invalid
       ELSE IF t.kind \in {"int", "enum"} \cup Composite THEN Times(nelems, t.size)
       ELSE IF t.kind = "ptr" THEN Times(nelems, 8)
       ELSE IF t.kind \in Modifier THEN ResolveFrom(types, t.refs[1], i + 1, nelems)
       ELSE IF t.kind # "array" THEN Invalid
       ELSE IF Times(nelems, t.parts[1]) < 0 THEN TooBig
       ELSE ResolveFrom(types, t.refs[1], i + 1, Times(nelems, t.parts[1]))

ResolveSize(types, id) == ResolveFrom(types, id, 0, 1)

\* btf__resolve_type: past the modifiers.
RECURSIVE SkipModifiers(_, _, _)
SkipModifiers(types, id, depth) ==
    LET t == TypeById(types, id)
    IN IF depth < MaxDepth /\ ~VoidOrNull(t) /\ t.kind \in Modifier
       THEN SkipModifiers(types, t.refs[1], depth + 1)
       ELSE IF depth = MaxDepth \/ VoidOrNull(t) THEN Invalid ELSE id

ResolveType(types, id) == SkipModifiers(types, id, 0)

\* btf__find_by_name: the first of that name.
FindByName(types, name) == SelectInSeq(types, LAMBDA t : t.name = name)

\* btf__get_map_kv_tids: the key and value of a map in its container, a struct
\* found by its name, whose sizes must be those of the map's definition.
GetMapKvTids(types, name, keySize, valueSize) ==
    LET c   == FindByName(types, name)
        key == types[c].refs[1]
        value == types[c].refs[2]
    IN IF c = 0 \/ (IF c = 0 THEN TRUE ELSE types[c].kind # "struct" \/ Len(types[c].parts) < 2)
       THEN <<>>
       ELSE IF ResolveSize(types, key) # keySize \/ ResolveSize(types, value) # valueSize THEN <<>>
       ELSE <<key, value>>

(***************************************************************************)
(* .BTF.ext: a record size, then sections of a name, a count and records.  *)
(***************************************************************************)
\* btf_ext_setup_info, of the words of an info section; `min` is the least
\* number of words of a record, and the first word the size of one in bytes.
\* The sections must end where the words do.
RECURSIVE SectionsTile(_, _, _)
SectionsTile(words, pos, rec) ==
    LET left == Len(words) - pos + 1
    IN \/ left = 0
       \/ /\ left >= 2 /\ words[pos + 1] # 0
          /\ left >= 2 + words[pos + 1] * rec
          /\ SectionsTile(words, pos + 2 + words[pos + 1] * rec, rec)

SetupInfo(words, min) ==
    /\ Len(words) >= 1 /\ words[1] >= 4 * min /\ words[1] % 4 = 0
    /\ Len(words) > 1
    /\ SectionsTile(words, 2, words[1] \div 4)

\* btf_ext_reloc_info: the records of the first section of that name, their
\* instruction offsets counted from `insns`; <<>> is -ENOENT.  A name is one that
\* btf__name_by_offset finds: what it returns is not tested before the strcmp.
RECURSIVE RelocFrom(_, _, _, _)
RelocFrom(words, pos, name, insns) ==
    LET rec == words[1] \div 4
        num == words[pos + 1]
        Rec(i) == SubSeq(words, pos + 2 + (i - 1) * rec, pos + 1 + i * rec)
    IN IF pos > Len(words) THEN <<>>
       ELSE IF words[pos] # name THEN RelocFrom(words, pos + 2 + num * rec, name, insns)
       ELSE [i \in 1 .. num |-> [Rec(i) EXCEPT ![1] = (@ \div 8) + insns]]

\* The faulty form of RelocInfo below: the first section is taken for the one
\* looked for.
RelocInfo_First(words, name, insns) == RelocFrom(words, 2, words[2], insns)

RelocInfo(words, name, insns) == RelocFrom(words, 2, name, insns)

(***************************************************************************)
(* References.                                                             *)
(***************************************************************************)
\* The types of a chain of modifiers and arrays, from id on, as far as
\* MaxDepth.
RECURSIVE Chain(_, _, _)
Chain(types, id, n) ==
    LET t == TypeById(types, id)
    IN IF n = 0 \/ VoidOrNull(t) THEN <<>>
       ELSE IF t.kind \in Modifier \cup {"array"} THEN <<t>> \o Chain(types, t.refs[1], n - 1)
       ELSE <<t>>

\* The size it stands for: the product of the numbers of elements and the size
\* of the last type.
TrueSize(types, id) ==
    LET c    == Chain(types, id, MaxDepth)
        last == c[Len(c)]
        arrays == SelectSeq(c, LAMBDA t : t.kind = "array")
    IN FoldLeft(LAMBDA n, t : n * t.parts[1], IF last.kind = "ptr" THEN 8 ELSE last.size, arrays)

\* Does a chain end in a type that has a size?
HasSize(types, id) ==
    LET c == Chain(types, id, MaxDepth)
    IN c # <<>> /\ c[Len(c)].kind \in {"int", "enum", "ptr"} \cup Composite

\* A size that is returned is the true one, and there is one whenever every
\* product fits; without an end, or out of depth, it is an error.
SizeExact(types, id, size) ==
    /\ size >= 0 => HasSize(types, id) /\ size = TrueSize(types, id) /\ size <= MaxU32
    /\ size = Invalid => ~HasSize(types, id)
    /\ size = TooBig /\ HasSize(types, id) => TrueSize(types, id) \notin 1 .. MaxU32
    /\ size >= 0 \/ size \in {Invalid, TooBig}

\* The id that is left when the modifiers are skipped is at the end of them.
ResolvedExact(types, id, end) ==
    LET c == Chain(types, id, MaxDepth + 1)
        i == SelectInSeq(c, LAMBDA t : t.kind \notin Modifier)
    IN IF i \in 1 .. MaxDepth THEN end > 0 /\ types[end] = c[i] ELSE end = Invalid

\* The key and the value that are found have the sizes of the map's definition.
KvExact(types, key, value, keySize, valueSize, kv) ==
    LET Fits(id, size) == HasSize(types, id) /\ TrueSize(types, id) = size
    IN kv \in {<<>>, <<key, value>>} /\ (kv # <<>> => Fits(key, keySize) /\ Fits(value, valueSize))

\* What a compiler writes for a sequence of sections [name, recs].
Encode(rec, secs) == <<4 * rec>> \o FlattenSeq([i \in DOMAIN secs |->
    <<secs[i].name, Len(secs[i].recs)>> \o FlattenSeq(secs[i].recs)])

\* An info section is accepted exactly when it is whole and its record size is
\* one of words (`odd` is what it was changed by), and then the records of
\* a section come out as they were written, their offsets counted in
\* instructions from where the program's part starts.
ExtExact(rec, secs, cut, odd, name, insns, accepted, recs) ==
    LET i == SelectInSeq(secs, LAMBDA sec : sec.name = name)
        whole == cut = 0 /\ odd = 0 /\ secs # <<>> /\ \A k \in DOMAIN secs : secs[k].recs # <<>>
    IN /\ accepted = whole
       /\ accepted => recs = IF i = 0 THEN <<>>
                             ELSE [k \in DOMAIN secs[i].recs |->
                                     [secs[i].recs[k] EXCEPT ![1] = (@ \div 8) + insns]]

=============================================================================
