------------------------------- MODULE PerfRing -------------------------------
(***************************************************************************)
(* bpf_perf_event_read_simple (libbpf.c): the reader of a perf ring buffer *)
(* that the kernel writes records into.  Positions grow without bound and  *)
(* are taken modulo the size of the buffer; a record that runs over its    *)
(* end is put together in a buffer of the caller's, which may have to grow.*)
(* The kernel's side is external: it drops what does not fit.              *)
(***************************************************************************)
EXTENDS Integers, Sequences

CONSTANTS
    PerfSize,       \* words of the data area, a power of two
    Sizes,          \* words of a record, its header included
    MaxRecords,     \* records the kernel writes
    MaxFails        \* times malloc fails

ASSUME PerfAssumption ==
    /\ PerfSize \in Nat \ {0} /\ Sizes \subseteq 1 .. PerfSize
    /\ MaxRecords \in Nat /\ MaxFails \in Nat

VARIABLES
    page,           \* the control page: data_head and data_tail
    mem,            \* the data area
    written,        \* the records written, as their sizes
    reader,         \* the call: pc, its copies of head and tail, copy_size
    delivered,      \* what the callback was given, word by word
    fails

rvars == <<page, mem, written, reader, delivered, fails>>

\* Word k of record id; the first one is the header and holds the size.
Word(id, size, k) == [id |-> id, size |-> size, k |-> k]

RInit ==
    /\ page = [head |-> 0, tail |-> 0]
    /\ mem = [i \in 0 .. PerfSize - 1 |-> Word(0, 1, 0)]
    /\ written = <<>>
    /\ reader = [pc |-> "idle", head |-> 0, tail |-> 0, copy |-> 0]
    /\ delivered = <<>>
    /\ fails = 0

KernelWrites(size) ==
    LET id == Len(written) + 1
        Here(i) == {k \in 0 .. size - 1 : (page.head + k) % PerfSize = i}
    IN /\ Len(written) < MaxRecords
       /\ page.head + size - page.tail <= PerfSize
       /\ mem' = [i \in DOMAIN mem |->
                    IF Here(i) = {} THEN mem[i] ELSE Word(id, size, CHOOSE k \in Here(i) : TRUE)]
       /\ page' = [page EXCEPT !.head = @ + size]
       /\ written' = Append(written, size)
       /\ UNCHANGED <<reader, delivered, fails>>

\* The faulty form of Begin below: positions are compared modulo the size, so
\* that a full buffer looks empty.
Begin_Masked ==
    /\ reader.pc = "idle"
    /\ reader' = [reader EXCEPT !.pc = "loop", !.tail = page.tail,
                     !.head = IF (page.head - page.tail) % PerfSize = 0 THEN page.tail ELSE page.head]
    /\ UNCHANGED <<page, mem, written, delivered, fails>>

\* The call reads the head once; the tail is its own.
Begin ==
    /\ reader.pc = "idle"
    /\ reader' = [reader EXCEPT !.pc = "loop", !.head = page.head, !.tail = page.tail]
    /\ UNCHANGED <<page, mem, written, delivered, fails>>

AtTail == reader.tail % PerfSize

EhdrSize == mem[AtTail].size

\* The words the callback sees: from the area, or from its two ends.
Record == [k \in 1 .. EhdrSize |-> mem[(AtTail + k - 1) % PerfSize]]

Wraps == AtTail + EhdrSize > PerfSize

\* The faulty form of Callback below: a callback that stops the loop leaves
\* the position at the record it was given.
Callback_StopFirst(more, copy) ==
    /\ delivered' = Append(delivered, Record)
    /\ reader' = [reader EXCEPT !.copy = copy,
                                !.tail = IF more THEN @ + EhdrSize ELSE @,
                                !.pc = IF more THEN "loop" ELSE "end"]

\* fn(ehdr, private_data), and the loop goes on if it returns CONT.
Callback(more, copy) ==
    /\ delivered' = Append(delivered, Record)
    /\ reader' = [reader EXCEPT !.copy = copy,
                                !.tail = @ + EhdrSize,
                                !.pc = IF more THEN "loop" ELSE "end"]

Deliver ==
    /\ reader.pc = "loop" /\ reader.head # reader.tail
    /\ \E more \in BOOLEAN :
          Callback(more, IF Wraps /\ reader.copy < EhdrSize THEN EhdrSize ELSE reader.copy)
    /\ UNCHANGED <<page, mem, written, fails>>

\* malloc fails: the record stays where it is.
NoMemory ==
    /\ reader.pc = "loop" /\ reader.head # reader.tail
    /\ Wraps /\ reader.copy < EhdrSize /\ fails < MaxFails
    /\ reader' = [reader EXCEPT !.copy = 0, !.pc = "end"]
    /\ fails' = fails + 1
    /\ UNCHANGED <<page, mem, written, delivered>>

\* ring_buffer_write_tail gives the space back, once per call.
End ==
    /\ reader.pc = "end" \/ (reader.pc = "loop" /\ reader.head = reader.tail)
    /\ page' = [page EXCEPT !.tail = reader.tail]
    /\ reader' = [reader EXCEPT !.pc = "idle"]
    /\ UNCHANGED <<mem, written, delivered, fails>>

ReaderStep == Begin \/ Deliver \/ NoMemory \/ End

RNext == ReaderStep \/ \E size \in Sizes : KernelWrites(size)

\* The application calls the reader again and again.
RFairness == WF_rvars(ReaderStep)

RSpec == RInit /\ [][RNext]_rvars /\ RFairness

\* The callback sees the records in the order they were written, each once,
\* whole, and never one the kernel is writing over, whether it wraps, the
\* callback stops early or memory runs out.
RecordsInOrder ==
    /\ Len(delivered) <= Len(written)
    /\ \A i \in DOMAIN delivered :
          delivered[i] = [k \in 1 .. written[i] |-> Word(i, written[i], k - 1)]

\* Whatever is written is delivered in the end.
AllDelivered == <>[](Len(delivered) = Len(written))

=============================================================================
