----------------------------- MODULE BtfStrings -----------------------------
(***************************************************************************)
(* btf_dedup_strings (btf.c).  The string section is a sequence of         *)
(* strings; a string is a number, its rank in the order of strcmp, and the *)
(* empty one is 0.  References are offsets in the section.                 *)
(***************************************************************************)
EXTENDS Integers, SequencesExt

\* strlen, for the few strings there are.
StrLen(str) == IF str = 0 THEN 0 ELSE 1 + (str % 2)

\* Where string i starts; at Len(strs) + 1, the length of the section.
Offset(strs, i) == FoldLeft(LAMBDA n, str : n + StrLen(str) + 1, 0, SubSeq(strs, 1, i - 1))

\* The places of the strings that start at an offset (one or none), the
\* bsearch of btf_str_mark_as_used and btf_str_remap_offset.
Lookup(strs, off) == {i \in DOMAIN strs : Offset(strs, i) = off}

\* btf_for_each_str_off: names in the types, and of .BTF.ext the names of the
\* sections with line information and the files and lines in it, not the names
\* of the sections with function information, refs.func.
Visited(refs) == refs.names \o refs.line

\* Strings to keep: the first one (the empty string) and those referred to.
Used(strs, offs) ==
    {strs[i] : i \in {j \in DOMAIN strs : \/ j = 1
                                          \/ \E k \in DOMAIN offs : offs[k] # 0 /\ offs[k] = Offset(strs, j)}}

\* One copy of each, in the order of strcmp; an offset that is not the start of
\* a string is -EINVAL.
DedupStrings(strs, refs) ==
    LET offs == Visited(refs)
        new  == SetToSortSeq(Used(strs, offs), LAMBDA a, b : a < b)
        Remap(off) == IF off = 0 THEN 0
                      ELSE LET str == strs[CHOOSE i \in Lookup(strs, off) : TRUE]
                           IN Offset(new, SelectInSeq(new, LAMBDA c : c = str))
        All(s) == [k \in DOMAIN s |-> Remap(s[k])]
    IN IF \E k \in DOMAIN offs : offs[k] # 0 /\ Lookup(strs, offs[k]) = {}
       THEN [err |-> TRUE, strs |-> strs, refs |-> refs]
       ELSE [err |-> FALSE, strs |-> new,
             refs |-> [refs EXCEPT !.names = All(refs.names), !.line = All(refs.line)]]

(***************************************************************************)
(* What is promised: "overwrites that memory in-place with deduplicated    *)
(* types and strings without any loss of information".                     *)
(***************************************************************************)
\* The string an offset stands for; -1 if it is none.
At(strs, off) == IF Lookup(strs, off) = {} THEN -1 ELSE strs[CHOOSE i \in Lookup(strs, off) : TRUE]

Same(strs, offs, newStrs, newOffs) ==
    \A k \in DOMAIN offs : At(newStrs, newOffs[k]) = At(strs, offs[k])

\* Are the strings in order, each once and each referred to from what is
\* visited?
Settled(strs, offs) ==
    /\ \A i \in 2 .. Len(strs) : strs[i - 1] < strs[i]
    /\ ToSet(strs) \ {0} \subseteq {At(strs, off) : off \in ToSet(offs)}

\* Names and line information say the same as before, each string is there
\* once, nothing is there that nothing refers to, and the section does not grow.
\* The names of the sections with function information are not followed, though
\* btf.c says "all the strings referenced from .BTF.ext section are honored and
\* updated": they say the same as before when the strings were settled already,
\* and in general they do not.
Kept(strs, refs, r) ==
    r.err \/ /\ Same(strs, refs.names, r.strs, r.refs.names)
             /\ Same(strs, refs.line, r.strs, r.refs.line)
             /\ Settled(strs, Visited(refs)) => Same(strs, refs.func, r.strs, r.refs.func)
             /\ IsInjective(r.strs)
             /\ ToSet(r.strs) \ {0} \subseteq {At(strs, off) : off \in ToSet(Visited(refs))}
             /\ Offset(r.strs, Len(r.strs) + 1) <= Offset(strs, Len(strs) + 1)

=============================================================================
