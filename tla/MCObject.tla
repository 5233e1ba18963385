------------------------------ MODULE MCObject ------------------------------
(***************************************************************************)
(* BpfObject with small object files: the filter's two maps declared in    *)
(* the other order than their definitions lie in the section, a program    *)
(* that calls into .text, a second program, BTF; and a file that refers to *)
(* data, which libbpf cannot load; one without a program, and one whose    *)
(* string table is its last section.  PinnedLoad has those without types.  *)
(***************************************************************************)
EXTENDS PinnedLoad

\* What the processes do: one makes any calls of libbpf, or several load the
\* file with pinned maps.
VARIABLE mode

CONSTANT Caller

Sec(kind, title, size, link) ==
    [kind |-> kind, title |-> title, size |-> size, link |-> link,
     insns |-> <<>>, rels |-> <<>>, set |-> {}]

Code8(kind, title, insns) == [Sec(kind, title, 8 * Len(insns), 0) EXCEPT !.insns = insns]

Rel(link, rels) == [Sec("rel", "rel", 0, link) EXCEPT !.rels = rels]

Ld64 == Insn("ld64", "none", 0)
Call(off) == Insn("call", "pseudo_call", off - 1)
Plain == Insn("other", "none", 0)

Reloc(insn, sym) == [insn |-> insn, sym |-> sym]

Sym(name, sec, value, global) == [name |-> name, sec |-> sec, value |-> value, global |-> global]

Filter ==
    [machine |-> "bpf", order |-> "host",
     secs |-> << Sec("skip", "strtab", 0, 0),
                 Code8(".text", ".text", <<Plain, Ld64, Plain>>),
                 Rel(2, <<Reloc(1, 2)>>),
                 Code8("exec", "xdp", <<Call(0), Ld64, Call(2), Ld64>>),
                 Rel(4, <<Reloc(0, 4), Reloc(1, 2), Reloc(2, 4), Reloc(3, 1)>>),
                 Code8("exec", "pass", <<Plain>>),
                 [Sec("maps", "maps", 6, 0) EXCEPT !.set = {0, 3}],
                 Sec("version", "version", 4, 0),
                 Sec("license", "license", 4, 0),
                 Sec(".BTF", "btf", 1, 0),
                 Sec(".BTF.ext", "ext", 1, 0),
                 Sec("symtab", "symtab", 0, 1) >>,
     syms |-> << Sym("xdp_stats_map", 7, 3, TRUE), Sym("connections_table", 7, 0, TRUE),
                 Sym("xdp_pass", 6, 0, TRUE), Sym("", 2, 0, FALSE),
                 Sym("filter", 4, 0, TRUE), Sym("license", 9, 0, TRUE) >>,
     ext |-> [func |-> {"xdp", ".text"}, line |-> {"xdp", ".text"}]]

\* One program, both maps, no types.
Small ==
    [machine |-> "bpf", order |-> "host",
     secs |-> << Sec("skip", "strtab", 0, 0),
                 Code8("exec", "xdp", <<Ld64, Ld64>>),
                 Rel(2, <<Reloc(0, 1), Reloc(1, 3)>>),
                 Sec("maps", "maps", 4, 0),
                 Sec("symtab", "symtab", 0, 1),
                 Sec("skip", "debug", 0, 0) >>,
     syms |-> << Sym("connections_table", 4, 0, TRUE), Sym("filter", 2, 0, TRUE),
                 Sym("xdp_stats_map", 4, 2, TRUE) >>,
     ext |-> [func |-> {}, line |-> {}]]

\* A load of a variable: its symbol lies in a data section, at offset 0 like
\* the first map of the file.
Data ==
    [Small EXCEPT !.secs[6].title = "data",
                  !.syms = Append(@, Sym("counter", 6, 0, TRUE)),
                  !.secs[3].rels = <<Reloc(0, 4)>>]

\* Maps and no program.
Bare == [Small EXCEPT !.secs[2] = Sec("skip", "note", 0, 0)]

\* The string table is the last section, as libbpf does not accept it.
Last == [Small EXCEPT !.secs[5].link = 6]

MCFiles == {"filter", "small", "data", "bare", "last"}

MCImageOf == [f \in MCFiles |-> CASE f = "filter" -> Filter [] f = "small" -> Small [] f = "data" -> Data
                                   [] f = "bare" -> Bare [] f = "last" -> Last]

MCKernelName ==
    LET names == UNION {{s.name : s \in Range(MCImageOf[f].syms)} : f \in MCFiles} \cup {"connections_tab"}
    IN [n \in names |-> IF n = "connections_table" THEN "connections_tab" ELSE n]

MCInit == PInit /\ mode \in {"calls", "pinned"}

MCNext ==
    /\ UNCHANGED mode
    /\ \/ mode = "calls" /\ Calls(Caller) /\ UNCHANGED <<at, mapFd, strayed, removed>>
       \/ mode = "pinned" /\ PNext

MCSpec == MCInit /\ [][MCNext]_<<pvars, mode>>
=============================================================================
