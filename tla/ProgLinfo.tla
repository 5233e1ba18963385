------------------------------ MODULE ProgLinfo ------------------------------
(***************************************************************************)
(* bpf_prog_linfo.c: which source line does an address of a compiled       *)
(* program belong to?  The line records of all functions are in one        *)
(* sequence; jited[i] is the address of record i, and a function starts    *)
(* with the record of its own address.                                     *)
(***************************************************************************)
EXTENDS Integers, SequencesExt

\* dissect_jited_func: the state of its loop is the function looked for, where
\* the last one starts, and the first record of each one found.
Dissected(jited, ksyms, lens) ==
    LET Step(s, i) ==
            IF s.err \/ s.f > Len(ksyms) THEN s
            ELSE IF ksyms[s.f] = jited[i]
                 THEN IF jited[i - 1] - ksyms[s.f - 1] + 1 > lens[s.f - 1] THEN [s EXCEPT !.err = TRUE]
                      ELSE [s EXCEPT !.f = @ + 1, !.idx = Append(@, i)]
            ELSE IF jited[i] <= jited[i - 1] THEN [s EXCEPT !.err = TRUE] ELSE s
    IN FoldLeft(Step, [err |-> ksyms[1] # jited[1], f |-> 2, idx |-> <<1>>], [i \in 1 .. Len(jited) - 1 |-> i + 1])

\* bpf_prog_linfo__new: the first record of each function and the number of
\* its records.  Without the addresses of the functions (no ksyms here) only
\* the search by instruction works.
NewLinfo(jited, ksyms, lens) ==
    LET s == Dissected(jited, ksyms, lens)
        End(f) == IF f = Len(s.idx) THEN Len(jited) + 1 ELSE s.idx[f + 1]
    IN IF jited = <<>> THEN [ok |-> FALSE, idx |-> <<>>, nr |-> <<>>]
       ELSE IF ksyms = <<>> THEN [ok |-> TRUE, idx |-> <<>>, nr |-> <<>>]
       ELSE IF s.err \/ s.f # Len(ksyms) + 1 THEN [ok |-> FALSE, idx |-> <<>>, nr |-> <<>>]
       ELSE [ok |-> TRUE, idx |-> s.idx, nr |-> [f \in DOMAIN s.idx |-> End(f) - s.idx[f]]]

\* The faulty form of LastUpTo below: the walk stops one record late.
LastUpTo_Late(at, start, n, addr) ==
    LET over == {i \in start .. start + n - 1 : addr < at[i]}
    IN IF over = {} THEN start + n - 1 ELSE CHOOSE i \in over : \A j \in over : i <= j

\* The loop of both searches: from record `start` on, n records, the one before
\* the first whose address is larger.
LastUpTo(at, start, n, addr) ==
    LET over == {i \in start .. start + n - 1 : addr < at[i]}
    IN IF over = {} THEN start + n - 1 ELSE (CHOOSE i \in over : \A j \in over : i <= j) - 1

\* bpf_prog_linfo__lfind_addr_func; 0 is NULL.  Functions are counted from 1.
LfindAddrFunc(l, jited, addr, f, skip) ==
    IF f > Len(l.idx) THEN 0
    ELSE IF skip >= l.nr[f] THEN 0
    ELSE IF addr < jited[l.idx[f] + skip] THEN 0
    ELSE LastUpTo(jited, l.idx[f] + skip, l.nr[f] - skip, addr)

\* bpf_prog_linfo__lfind, by the offset of an instruction.
Lfind(offs, insn, skip) ==
    IF skip >= Len(offs) THEN 0
    ELSE IF insn < offs[1 + skip] THEN 0
    ELSE LastUpTo(offs, 1 + skip, Len(offs) - skip, insn)

(***************************************************************************)
(* Reference.                                                              *)
(***************************************************************************)
\* What the kernel hands out: function after function, apart from each other,
\* each with a record of its own address first and then increasing ones within
\* its length.
Lawful(jited, ksyms, lens) ==
    /\ \A f, g \in DOMAIN ksyms : f # g => ksyms[g] \notin ksyms[f] .. ksyms[f] + lens[f] - 1
    /\ \E owner \in [DOMAIN jited -> DOMAIN ksyms] :
           /\ owner[1] = 1 /\ owner[Len(jited)] = Len(ksyms)
           /\ \A i \in DOMAIN jited : jited[i] \in ksyms[owner[i]] .. ksyms[owner[i]] + lens[owner[i]] - 1
           /\ \A i \in DOMAIN jited : i = 1 \/ owner[i] # owner[i - 1] => jited[i] = ksyms[owner[i]]
           /\ \A i \in 2 .. Len(jited) :
                 \/ owner[i] = owner[i - 1] /\ jited[i] > jited[i - 1]
                 \/ owner[i] = owner[i - 1] + 1

\* Such records are accepted, and the line of an address in function f is the
\* last record of f that does not lie behind it.
LineExact(jited, ksyms, lens, l) ==
    Lawful(jited, ksyms, lens) =>
        /\ l.ok
        /\ \A f \in DOMAIN ksyms : \A addr \in ksyms[f] .. ksyms[f] + lens[f] - 1 :
              LET mine == {i \in DOMAIN jited : jited[i] \in ksyms[f] .. addr}
                  line == LfindAddrFunc(l, jited, addr, f, 0)
              IN line \in mine /\ \A i \in mine : jited[i] <= jited[line]

\* By the offset of an instruction, among records in order: the last of those
\* not skipped that does not lie behind it.
OffsetExact(offs) ==
    (\A i \in 2 .. Len(offs) : offs[i] > offs[i - 1]) =>
        \A insn \in 0 .. 6, skip \in 0 .. Len(offs) :
            LET upTo == {i \in skip + 1 .. Len(offs) : offs[i] <= insn}
                line == Lfind(offs, insn, skip)
            IN IF upTo = {} THEN line = 0 ELSE line \in upTo /\ \A i \in upTo : i <= line

\* Whatever was accepted, the functions share out all the records.
Shared(jited, l) ==
    l.ok /\ l.idx # <<>> =>
        /\ l.idx[1] = 1
        /\ \A f \in DOMAIN l.idx :
              l.nr[f] > 0 /\ l.idx[f] + l.nr[f] = IF f = Len(l.idx) THEN Len(jited) + 1 ELSE l.idx[f + 1]

=============================================================================
