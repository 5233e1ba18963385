------------------------------- MODULE BpfElf -------------------------------
(***************************************************************************)
(* What libbpf reads from an ELF object file when it opens it              *)
(* (libbpf.c, __bpf_object__open) and what it turns the instructions into  *)
(* when it relocates them (bpf_object__relocate).                          *)
(*                                                                         *)
(* An image is                                                             *)
(*   machine  "bpf" or something else (e_machine, e_type)                  *)
(*   order    "host" or "other" (e_ident[EI_DATA])                         *)
(*   secs     the sections 1 .. n, as records with the fields              *)
(*            kind   the arm of elf_collect's dispatch the section takes   *)
(*            title  its name, size its bytes, link the section it names   *)
(*                   (sh_link of a symbol table, sh_info of a SHT_REL)     *)
(*            insns  the instructions of an executable section             *)
(*            rels   the relocations of a SHT_REL section                  *)
(*            set    the offsets of the non-zero bytes of "maps"           *)
(*   syms     the symbols: name, sec, value and global (STB_GLOBAL)        *)
(*   ext      the section titles .BTF.ext has func and line records for    *)
(* Instructions are [op, src, imm]; positions in them count from 0 as in   *)
(* the code.                                                               *)
(***************************************************************************)
EXTENDS Integers, Sequences, Functions

\* Bytes of one instruction, and of struct bpf_map_def.
CONSTANTS InsnSize, DefSize

ASSUME SizesAssumption == InsnSize \in Nat \ {0} /\ DefSize \in Nat \ {0}

NoSection == -1

\* A loop over an array of n elements: body(q, i) is what round i makes of q.
ForEach(body(_, _), start, n) ==
    LET q[i \in 0 .. n] == IF i = 0 THEN start ELSE body(q[i - 1], i)
    IN q[n]

Executable == {"exec", ".text"}

Insn(op, src, imm) == [op |-> op, src |-> src, imm |-> imm]

(***************************************************************************)
(* Opening.                                                                *)
(***************************************************************************)
Program(sec, idx) ==
    [idx |-> idx, title |-> sec.title, name |-> "", insns |-> sec.insns,
     main |-> 0, rels |-> <<>>, hasFunc |-> FALSE, hasLine |-> FALSE, btf |-> FALSE]

Empty ==
    [err |-> "none", maps_shndx |-> NoSection, text_shndx |-> 0, strtab |-> 0,
     version |-> FALSE, btf |-> FALSE, ext |-> FALSE, pseudo |-> FALSE,
     progs |-> <<>>, rels |-> <<>>, maps |-> <<>>]

Failed(o, err) == [o EXCEPT !.err = err]

\* bpf_object__add_program, with the size check of bpf_program__init.
AddProgram(o, sec, idx) ==
    IF sec.size < InsnSize
    THEN Failed(o, "EINVAL")
    ELSE [o EXCEPT !.progs = Append(@, Program(sec, idx)),
                   !.text_shndx = IF sec.kind = ".text" THEN idx ELSE @]

\* One round of elf_collect's loop: the section's arm of the dispatch.
\* `btfLoads` says whether the kernel takes the type data of ".BTF"; the code
\* carries on without it when it does not.
CollectSection(image, btfLoads, o, idx) ==
    LET sec == image.secs[idx] IN
    CASE o.err # "none" -> o
      [] o.err = "none" /\ sec.kind = "version" ->
            IF sec.size # 4 THEN Failed(o, "FORMAT") ELSE [o EXCEPT !.version = TRUE]
      [] o.err = "none" /\ sec.kind = "maps" -> [o EXCEPT !.maps_shndx = idx]
      [] o.err = "none" /\ sec.kind = ".BTF" -> [o EXCEPT !.btf = btfLoads]
      [] o.err = "none" /\ sec.kind = ".BTF.ext" -> [o EXCEPT !.ext = TRUE]
      [] o.err = "none" /\ sec.kind = "symtab" ->
            IF \E j \in 1 .. idx - 1 : image.secs[j].kind = "symtab"
            THEN Failed(o, "FORMAT") ELSE [o EXCEPT !.strtab = sec.link]
      [] o.err = "none" /\ sec.kind \in Executable ->
            IF sec.size = 0 THEN o ELSE AddProgram(o, sec, idx)
      [] o.err = "none" /\ sec.kind = "rel" ->
            IF image.secs[sec.link].kind \in Executable
            THEN [o EXCEPT !.rels = Append(@, sec)] ELSE o
      [] OTHER -> o

\* The symbols of a section, in the order of the symbol table.
SymbolsOf(image, idx) == SelectSeq(image.syms, LAMBDA s : s.sec = idx)

\* qsort with compare_bpf_map.
ByOffset(syms) ==
    LET order == CHOOSE f \in Bijection(1 .. Len(syms), 1 .. Len(syms)) :
                    \A i, j \in 1 .. Len(syms) : i < j => syms[f[i]].value <= syms[f[j]].value
    IN [i \in 1 .. Len(syms) |-> syms[order[i]]]

\* The faulty form of InitMaps below: the descriptors are left as calloc made
\* them, 0.
InitMaps_NoFill(image, strict, o) ==
    LET syms == SymbolsOf(image, o.maps_shndx)
        size == image.secs[o.maps_shndx].size
        def  == size \div Len(syms)
        Bad(s) == \/ s.value + def > size
                  \/ strict /\ \E b \in s.value + DefSize .. s.value + def - 1 :
                                    b \in image.secs[o.maps_shndx].set
        Map(s) == [sym |-> s.name, offset |-> s.value, name |-> s.name, fd |-> 0]
        sorted == ByOffset(syms)
    IN IF o.err # "none" \/ o.maps_shndx < 0 \/ syms = <<>> THEN o
       ELSE IF size = 0 \/ size % Len(syms) # 0 THEN Failed(o, "EINVAL")
       ELSE IF \E i \in DOMAIN syms : Bad(syms[i]) THEN Failed(o, "EINVAL")
       ELSE [o EXCEPT !.maps = [i \in DOMAIN sorted |-> Map(sorted[i])]]

\* bpf_object__init_maps: one map per symbol of the section, all definitions
\* taken to be of one size, sorted by offset at the end.
InitMaps(image, strict, o) ==
    LET syms == SymbolsOf(image, o.maps_shndx)
        size == image.secs[o.maps_shndx].size
        def  == size \div Len(syms)
        Bad(s) == \/ s.value + def > size
                  \/ strict /\ \E b \in s.value + DefSize .. s.value + def - 1 :
                                    b \in image.secs[o.maps_shndx].set
        Map(s) == [sym |-> s.name, offset |-> s.value, name |-> s.name, fd |-> -1]
        sorted == ByOffset(syms)
    IN IF o.err # "none" \/ o.maps_shndx < 0 \/ syms = <<>> THEN o
       ELSE IF size = 0 \/ size % Len(syms) # 0 THEN Failed(o, "EINVAL")
       ELSE IF \E i \in DOMAIN syms : Bad(syms[i]) THEN Failed(o, "EINVAL")
       ELSE [o EXCEPT !.maps = [i \in DOMAIN sorted |-> Map(sorted[i])]]

\* bpf_object__init_prog_names: the first global symbol of the program's
\* section; only .text may have none.
InitProgNames(image, o) ==
    LET Globals(p) == SelectSeq(SymbolsOf(image, p.idx), LAMBDA s : s.global)
        Name(p)    == IF Globals(p) # <<>> THEN Globals(p)[1].name ELSE ".text"
    IN IF o.err # "none" THEN o
       ELSE IF \E i \in DOMAIN o.progs :
             Globals(o.progs[i]) = <<>> /\ o.progs[i].idx # o.text_shndx
       THEN Failed(o, "EINVAL")
       ELSE [o EXCEPT !.progs = [i \in DOMAIN @ |-> [@[i] EXCEPT !.name = Name(o.progs[i])]]]

\* elf_collect's loop over the sections.
CollectSections(image, btfLoads) ==
    ForEach(LAMBDA o, idx : CollectSection(image, btfLoads, o, idx), Empty, Len(image.secs))

\* What follows the loop.  A symbol table whose string table is the last
\* section is refused like a missing one (>=), with a positive error; .BTF.ext
\* is not used without .BTF.
CheckCollected(image, o) ==
    IF o.err # "none" THEN o
    ELSE IF o.strtab = 0 \/ o.strtab >= Len(image.secs) THEN Failed(o, "+FORMAT")
    ELSE [o EXCEPT !.ext = @ /\ o.btf]

\* bpf_object__elf_collect; each part returns at once after an error.
ElfCollect(image, strict, btfLoads) ==
    InitProgNames(image, InitMaps(image, strict, CheckCollected(image, CollectSections(image, btfLoads))))

\* The faulty form of Relocation below: the symbol's section is not looked at.
Relocation_AnySection(image, o, p, rel) ==
    LET sym  == image.syms[rel.sym]
        hits == {i \in DOMAIN o.maps : o.maps[i].offset = sym.value}
        Desc(type, map, err) == [type |-> type, insn |-> rel.insn, map |-> map, err |-> err]
    IN IF p.insns[rel.insn + 1].op = "call" THEN Desc("call", 0, "none")
       ELSE IF hits = {} THEN Desc("none", 0, "RELOC")
       ELSE Desc("ld64", CHOOSE i \in hits : TRUE, "none")

\* One relocation of bpf_program__collect_reloc: its descriptor, or the
\* error it is refused with.
Relocation(image, o, p, rel) ==
    LET sym  == image.syms[rel.sym]
        insn == p.insns[rel.insn + 1]
        hits == {i \in DOMAIN o.maps : o.maps[i].offset = sym.value}
        Desc(type, map, err) == [type |-> type, insn |-> rel.insn, map |-> map, err |-> err]
    IN IF rel.sym \notin DOMAIN image.syms THEN Desc("none", 0, "FORMAT")
       ELSE IF sym.sec # o.maps_shndx /\ sym.sec # o.text_shndx THEN Desc("none", 0, "RELOC")
       ELSE IF insn.op = "call"
       THEN Desc("call", 0, IF insn.src = "pseudo_call" THEN "none" ELSE "RELOC")
       ELSE IF insn.op # "ld64" \/ hits = {} THEN Desc("none", 0, "RELOC")
       ELSE Desc("ld64", CHOOSE i \in hits : \A j \in hits : i <= j, "none")

\* One round of bpf_object__collect_reloc: a SHT_REL section.
CollectReloc(image, o, sec) ==
    LET owner == {i \in DOMAIN o.progs : o.progs[i].idx = sec.link}
        at    == CHOOSE i \in owner : TRUE
        descs == [r \in DOMAIN sec.rels |-> Relocation(image, o, o.progs[at], sec.rels[r])]
        bad   == {r \in DOMAIN descs : descs[r].err # "none"}
    IN IF o.err # "none" THEN o
       ELSE IF owner = {} THEN Failed(o, "RELOC")
       ELSE IF bad # {}
       THEN Failed(o, descs[CHOOSE r \in bad : \A q \in bad : r <= q].err)
       ELSE [o EXCEPT !.progs[at].rels = descs,
                      !.pseudo = @ \/ \E r \in DOMAIN descs : descs[r].type = "call"]

\* bpf_object__elf_init: what is not a BPF object file is refused.
ElfInit(image) == IF image.machine # "bpf" THEN Failed(Empty, "FORMAT") ELSE Empty

\* bpf_object__check_endianness.
CheckEndianness(image) == IF image.order # "host" THEN Failed(Empty, "ENDIAN") ELSE Empty

\* bpf_object__validate.
Validate(o, needsVersion) ==
    IF o.err = "none" /\ needsVersion /\ ~o.version THEN Failed(o, "KVERSION") ELSE o

\* bpf_object__collect_reloc, for all of them.
CollectRelocs(image, o) ==
    ForEach(LAMBDA q, i : CollectReloc(image, q, o.rels[i]), o, Len(o.rels))

\* __bpf_object__open.  `needsVersion` is bpf_prog_type__needs_kver of the
\* program type the caller gives.
OpenImage(image, needsVersion, strict, btfLoads) ==
    IF ElfInit(image).err # "none" THEN ElfInit(image)
    ELSE IF CheckEndianness(image).err # "none" THEN CheckEndianness(image)
    ELSE Validate(CollectRelocs(image, ElfCollect(image, strict, btfLoads)), needsVersion)

(***************************************************************************)
(* Relocating.  `fd` gives the descriptor of each map.                     *)
(***************************************************************************)
\* bpf_program_reloc_btf_ext with check_btf_ext_reloc_err: records the main
\* program lacks are left out, records only its functions lack are an error.
RelocBtfExt(image, o, p, title, sub) ==
    LET func == title \in image.ext.func
        line == title \in image.ext.line
    IN IF ~o.ext THEN [prog |-> p, err |-> "none"]
       ELSE IF sub
       THEN [prog |-> p,
             err |-> IF (p.hasFunc /\ ~func) \/ (p.hasLine /\ ~line) THEN "ENOENT" ELSE "none"]
       ELSE [prog |-> [p EXCEPT !.hasFunc = func, !.hasLine = func /\ line,
                                !.btf = func /\ line],
             err |-> "none"]

IndexOfText(o) == {i \in DOMAIN o.progs : o.progs[i].idx = o.text_shndx}

\* bpf_program__reloc_text: the first call appends .text to the program.
RelocText(image, o, p, desc) ==
    LET text == o.progs[CHOOSE i \in IndexOfText(o) : TRUE]
        info == RelocBtfExt(image, o, p, text.title, TRUE)
        long == IF p.main = 0
                THEN [p EXCEPT !.insns = @ \o text.insns, !.main = Len(p.insns)]
                ELSE p
    IN IF p.idx = o.text_shndx \/ IndexOfText(o) = {} THEN [prog |-> p, err |-> "RELOC"]
       ELSE IF p.main = 0 /\ info.err # "none" THEN info
       ELSE [prog |-> [long EXCEPT !.insns[desc.insn + 1].imm = @ + long.main - desc.insn],
             err |-> "none"]

\* bpf_program__relocate.
RelocateProgram(image, o, fd, p) ==
    LET step(q, r) ==
            LET desc == p.rels[r]
            IN IF q.err # "none" THEN q
               ELSE IF desc.type = "ld64"
               THEN [q EXCEPT !.prog.insns[desc.insn + 1] = Insn("ld64", "map_fd", fd[desc.map])]
               ELSE RelocText(image, o, q.prog, desc)
        done == ForEach(step, RelocBtfExt(image, o, p, p.title, FALSE), Len(p.rels))
    IN [done EXCEPT !.prog.rels = IF done.err = "none" THEN <<>> ELSE @]

\* bpf_object__relocate: in the order of the programs, which is the order of
\* their sections.
Relocate(image, o, fd) ==
    LET step(q, i) ==
            LET r == RelocateProgram(image, q, fd, q.progs[i])
            IN IF q.err # "none" THEN q
               ELSE [q EXCEPT !.progs[i] = r.prog, !.err = r.err]
    IN ForEach(step, o, Len(o.progs))

\* bpf_program__is_function_storage: .text is not loaded by itself once a
\* program calls into it.
IsFunctionStorage(o, p) == p.idx = o.text_shndx /\ o.pseudo

=============================================================================
