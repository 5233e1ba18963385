------------------------------ MODULE BtfDedup ------------------------------
(***************************************************************************)
(* btf__dedup (btf.c): types from several compilation units, in one        *)
(* sequence, become one with a single copy of each, and forward            *)
(* declarations are replaced by the structs and unions found for them.     *)
(*                                                                         *)
(* A type is a record: its kind, name, flag (kind_flag), size, the ids it  *)
(* refers to (`refs`: pointed-to type; element and index type; members;    *)
(* result and parameters) and the rest of its description (`parts`: names, *)
(* offsets, values, number of elements).  Id 0 is void.  Equality of       *)
(* records is btf_equal_common with the comparison of the kind's own part: *)
(* the kind and the number of parts are in t->info.                        *)
(***************************************************************************)
EXTENDS Integers, SequencesExt

Unprocessed == -1
InProgress == -2

Composite == {"struct", "union"}
Primitive == {"int", "enum", "fwd"}
Reference == {"ptr", "const", "volatile", "restrict", "typedef", "func"}

Void == [kind |-> "void", name |-> "", flag |-> FALSE, size |-> 0, refs |-> <<>>, parts |-> <<>>]

T(d, id) == IF id = 0 THEN Void ELSE d.types[id]

\* btf_shallow_equal_struct, btf_compat_array, btf_compat_fnproto: all but the
\* ids referred to.
SameButRefs(t, u) == [t EXCEPT !.refs = <<>>] = [u EXCEPT !.refs = <<>>]

\* The contents the btf_hash_ functions combine, and the btf_equal_ ones compare
\* one by one (here with =): those of a struct leave out the ids.
Signature(t) == IF t.kind \in Composite THEN [t EXCEPT !.refs = <<>>] ELSE t

\* btf_dedup_new: `one` is a table of a single bucket (dedup_table_size 1);
\* otherwise only equal signatures meet in a bucket.
New(types, opts) ==
    [types |-> types, opts |-> opts, table |-> <<>>, err |-> FALSE,
     map |-> [i \in 0 .. Len(types) |-> IF i = 0 THEN 0 ELSE Unprocessed],
     hypot |-> [i \in 0 .. Len(types) |-> Unprocessed], list |-> <<>>]

\* btf_dedup_table_add, and the candidates of a bucket, the last added first.
TableAdd(d, t, id) == [d EXCEPT !.table = <<[sig |-> Signature(t), id |-> id]>> \o @]

Candidates(d, t) ==
    LET bucket == SelectSeq(d.table, LAMBDA node : d.opts.one \/ node.sig = Signature(t))
    IN [i \in DOMAIN bucket |-> bucket[i].id]

IsTypeMapped(d, id) == d.map[id] >= 0

RECURSIVE ResolveTypeId(_, _)
ResolveTypeId(d, id) ==
    IF IsTypeMapped(d, id) /\ d.map[id] # id THEN ResolveTypeId(d, d.map[id]) ELSE id

\* resolve_fwd_id
ResolveFwdId(d, id) ==
    LET end == ResolveTypeId(d, id)
    IN IF T(d, id).kind = "fwd" /\ T(d, end).kind # "fwd" THEN end ELSE id

FwdKind(t) == IF t.flag THEN "union" ELSE "struct"

\* The first of the candidates that is the same, or the type itself, which then
\* becomes one (the end of prim_type and ref_type).
Settle(d, t, id) ==
    LET same  == SelectSeq(Candidates(d, t), LAMBDA c : T(d, c) = t)
        newId == IF same = <<>> THEN id ELSE Head(same)
        mapped == [d EXCEPT !.map[id] = newId]
    IN IF newId = id THEN TableAdd(mapped, t, id) ELSE mapped

(***************************************************************************)
(* Primitive types.                                                        *)
(***************************************************************************)
PrimType(d, id) ==
    IF T(d, id).kind \in Primitive THEN Settle(d, T(d, id), id) ELSE d

(***************************************************************************)
(* Structs and unions.                                                     *)
(***************************************************************************)
\* btf_dedup_hypot_map_add
HypotAdd(d, from, to) == [d EXCEPT !.hypot[from] = to, !.list = Append(@, from)]

\* btf_dedup_clear_hypot_map
HypotClear(d) ==
    [d EXCEPT !.hypot = [i \in DOMAIN @ |-> Unprocessed], !.list = <<>>]

\* The faulty form of FwdsMatch below: any struct or union will do.
FwdsMatch_AnyKind(cand, canon) == TRUE

\* A forward declaration against the kind it declares.
FwdsMatch(cand, canon) ==
    IF cand.kind = "fwd" THEN FwdKind(cand) = canon.kind ELSE FwdKind(canon) = cand.kind

\* btf_dedup_is_equiv: [d, eq].  The ids referred to are compared in order, as
\* far as the first that differs.
RECURSIVE IsEquiv(_, _, _), AllEquiv(_, _, _)
IsEquiv(d, candId, canonId) ==
    LET id    == ResolveFwdId(d, canonId)
        added == HypotAdd(d, id, candId)
        cand  == T(d, candId)
        canon == T(d, id)
        Is(b) == [d |-> added, eq |-> b]
    IN IF ResolveTypeId(d, candId) = ResolveTypeId(d, canonId) THEN [d |-> d, eq |-> TRUE]
       ELSE IF d.hypot[id] >= 0 THEN [d |-> d, eq |-> d.hypot[id] = candId]
       ELSE IF cand.name # canon.name THEN Is(FALSE)
       ELSE IF ~d.opts.dontResolve /\ cand.kind # canon.kind /\ "fwd" \in {cand.kind, canon.kind}
            THEN Is(FwdsMatch(cand, canon))
       ELSE IF cand.kind \in Primitive THEN Is(cand = canon)
       ELSE IF cand.kind # canon.kind \/ ~SameButRefs(cand, canon) \/ cand.kind = "void" THEN Is(FALSE)
       ELSE AllEquiv(added,
                     IF cand.kind = "array" THEN Reverse(cand.refs) ELSE cand.refs,
                     IF cand.kind = "array" THEN Reverse(canon.refs) ELSE canon.refs)

AllEquiv(d, cands, canons) ==
    IF cands = <<>> THEN [d |-> d, eq |-> TRUE]
    ELSE LET first == IsEquiv(d, Head(cands), Head(canons))
         IN IF first.eq THEN AllEquiv(first.d, Tail(cands), Tail(canons)) ELSE first

\* One entry of the hypothetical map in btf_dedup_merge_hypot_map.
MergeOne(d, from) ==
    LET t == ResolveTypeId(d, d.hypot[from])
        c == ResolveTypeId(d, from)
        tFwd == T(d, t).kind = "fwd"
        cFwd == T(d, c).kind = "fwd"
        e == IF ~tFwd /\ cFwd THEN [d EXCEPT !.map[c] = t]
             ELSE IF tFwd /\ ~cFwd THEN [d EXCEPT !.map[t] = c] ELSE d
    IN IF T(d, t).kind \in Composite /\ ~cFwd /\ IsTypeMapped(e, c) /\ ~IsTypeMapped(e, t)
       THEN [e EXCEPT !.map[t] = c] ELSE e

Merge(d) == FoldLeft(MergeOne, d, d.list)

\* The loop over the candidates in btf_dedup_struct_type.
RECURSIVE TryCandidates(_, _, _)
TryCandidates(d, id, cands) ==
    IF cands = <<>> THEN TableAdd([d EXCEPT !.map[id] = id], T(d, id), id)
    ELSE LET r == IsEquiv(HypotClear(d), id, Head(cands))
         IN IF ~SameButRefs(T(d, id), T(d, Head(cands))) THEN TryCandidates(d, id, Tail(cands))
            ELSE IF r.eq THEN [Merge(r.d) EXCEPT !.map[id] = Head(cands)]
            ELSE TryCandidates(r.d, id, Tail(cands))

StructType(d, id) ==
    IF IsTypeMapped(d, id) \/ T(d, id).kind \notin Composite THEN d
    ELSE TryCandidates(d, id, Candidates(d, T(d, id)))

(***************************************************************************)
(* Reference types: first what they refer to, then themselves.  A chain    *)
(* that returns to itself is -ELOOP.                                       *)
(***************************************************************************)
RECURSIVE RefType(_, _)
RefType(d, id) ==
    LET t == T(d, id)
        Ref(e, i) ==
            IF e.err THEN e
            ELSE LET r == RefType(e, t.refs[i])
                 IN IF r.err THEN r
                    ELSE [r EXCEPT !.types[id].refs[i] = ResolveTypeId(r, t.refs[i])]
        done == FoldLeft(Ref, [d EXCEPT !.map[id] = InProgress], [i \in DOMAIN t.refs |-> i])
    IN IF d.map[id] = InProgress THEN [d EXCEPT !.err = TRUE]
       ELSE IF IsTypeMapped(d, id) THEN d
       ELSE IF done.err THEN done
       ELSE Settle(done, T(done, id), id)

(***************************************************************************)
(* Compaction and remapping: the canonical types move together, and ids    *)
(* are replaced by the places of the canonical ones.                       *)
(***************************************************************************)
Ids(d) == [i \in DOMAIN d.types |-> i]

\* btf_dedup_compact_types, of the ids.
Canonical(d) == SelectSeq(Ids(d), LAMBDA i : d.map[i] = i)

\* btf_dedup_remap_type_id
RemapTypeId(d, id) ==
    LET end == ResolveTypeId(d, id)
    IN IF end = 0 THEN 0
       ELSE IF d.map[end] = end THEN SelectInSeq(Canonical(d), LAMBDA c : c = end) ELSE Unprocessed

\* btf_dedup_remap_types
Remap(d) ==
    LET Type(i) == LET t == T(d, Canonical(d)[i])
                   IN [t EXCEPT !.refs = [k \in DOMAIN @ |-> RemapTypeId(d, @[k])]]
    IN [i \in DOMAIN Canonical(d) |-> Type(i)]

\* The passes of btf__dedup after the strings.
Passes(types, opts) ==
    LET prim    == FoldLeft(PrimType, New(types, opts), [i \in DOMAIN types |-> i])
        structs == FoldLeft(StructType, prim, Ids(prim))
    IN FoldLeft(LAMBDA d, i : IF d.err THEN d ELSE RefType(d, i), structs, Ids(structs))

Dedup(types, opts) ==
    LET d == Passes(types, opts)
        to == [i \in 0 .. Len(types) |-> RemapTypeId(d, i)]
    IN IF d.err THEN [err |-> TRUE, types |-> <<>>, to |-> <<>>]
       ELSE [err |-> \E i \in DOMAIN types : to[i] = Unprocessed, types |-> Remap(d), to |-> to]

(***************************************************************************)
(* What is promised: "deduplicated types and strings without any loss of   *)
(* information", and that "each unique type is represented by single BTF   *)
(* type descriptor".                                                       *)
(***************************************************************************)
\* Every type is still there, and refers to what it referred to; in place of a
\* forward declaration there may be the struct or union it declares.
SameMeaning(types, r) ==
    /\ ~r.err
    /\ \A i \in DOMAIN types :
          LET t == types[i]
              o == r.types[r.to[i]]
          IN \/ /\ SameButRefs(t, o)
                /\ \A k \in DOMAIN t.refs : o.refs[k] = r.to[t.refs[k]]
             \/ t.kind = "fwd" /\ o.kind = FwdKind(t) /\ o.name = t.name

\* Pairs of types that nothing tells apart: pairs that differ, or refer to
\* different types, are taken out until none is left.
RECURSIVE Indistinct(_, _)
Indistinct(types, pairs) ==
    LET keep == {p \in pairs : \A k \in DOMAIN types[p[1]].refs :
                    LET a == types[p[1]].refs[k]
                        b == types[p[2]].refs[k]
                    IN a = b \/ <<a, b>> \in pairs \/ <<b, a>> \in pairs}
    IN IF keep = pairs THEN pairs ELSE Indistinct(types, keep)

Twins(types) ==
    Indistinct(types, {p \in (DOMAIN types) \X (DOMAIN types) :
                          p[1] < p[2] /\ SameButRefs(types[p[1]], types[p[2]])})

=============================================================================
