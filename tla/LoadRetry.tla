------------------------------ MODULE LoadRetry ------------------------------
(***************************************************************************)
(* bpf_load_program_xattr (bpf.c): a load that the kernel refuses because  *)
(* it knows shorter function or line records is tried again with the rest  *)
(* of the records zeroed, and at last with a log.  The kernel is external: *)
(* it says E2BIG for records with something behind the part it knows, and  *)
(* leaves the size it knows in the attributes.                             *)
(***************************************************************************)
EXTENDS Integers, Sequences

\* What a call is given: the sizes of the records (0 for none), whether the
\* tails have been zeroed, and whether a log is asked for.
Attr(load) == [func |-> load.func, funcZero |-> load.funcZero,
               line |-> load.line, lineZero |-> load.lineZero, log |-> load.log > 0]

\* One call (external): [ret, attr].
Kernel(k, attr) ==
    IF attr.func > k.func /\ ~attr.funcZero THEN [ret |-> "E2BIG", attr |-> [attr EXCEPT !.func = k.func]]
    ELSE IF attr.line > k.line /\ ~attr.lineZero THEN [ret |-> "E2BIG", attr |-> [attr EXCEPT !.line = k.line]]
    ELSE [ret |-> k.verdict, attr |-> attr]

\* sys_bpf_prog_load: EAGAIN any number of times comes to one call.
Call(k, s, attr) ==
    LET r == Kernel(k, attr)
    IN [s EXCEPT !.ret = r.ret, !.attr = r.attr, !.seen = attr, !.calls = @ + 1]

\* alloc_zero_tailing_info for one kind of record, and the call after it; with
\* no memory left, nothing is tried any more.
ZeroFunc(k, load, s) ==
    IF s.mem = 0 THEN [s EXCEPT !.done = TRUE]
    ELSE Call(k, [s EXCEPT !.finfo = TRUE, !.mem = @ - 1],
              [s.attr EXCEPT !.func = load.func, !.funcZero = TRUE])
ZeroLine(k, load, s) ==
    IF s.mem = 0 THEN [s EXCEPT !.done = TRUE]
    ELSE Call(k, [s EXCEPT !.linfo = TRUE, !.mem = @ - 1],
              [s.attr EXCEPT !.line = load.line, !.lineZero = TRUE])

\* The faulty form of Correct below: one correction is all there is.
Correct_Once(k, load, s) ==
    IF s.ret # "E2BIG" THEN s
    ELSE IF s.attr.func < load.func THEN ZeroFunc(k, load, s)
    ELSE IF s.attr.line < load.line THEN ZeroLine(k, load, s) ELSE s

\* The loop: what the kernel shortened is corrected, each kind once.
RECURSIVE Correct(_, _, _)
Correct(k, load, s) ==
    IF s.done \/ s.ret # "E2BIG" THEN s
    ELSE IF ~s.finfo /\ s.attr.func < load.func THEN Correct(k, load, ZeroFunc(k, load, s))
    ELSE IF ~s.linfo /\ s.attr.line < load.line THEN Correct(k, load, ZeroLine(k, load, s))
    ELSE s

\* bpf_load_program_xattr, with a log buffer or without one, and memory for
\* load.mem allocations.
Asked(load) == load.log <= 2 /\ (load.log > 0 => load.buf)
LoadXattr(k, load) ==
    LET none == [ret |-> "EINVAL", attr |-> Attr(load), seen |-> Attr(load), calls |-> 0,
                 finfo |-> FALSE, linfo |-> FALSE, mem |-> load.mem, done |-> FALSE]
        s == Correct(k, load, Call(k, none, Attr(load)))
    IN IF ~Asked(load) THEN none
       ELSE IF s.done \/ s.ret = "fd" \/ load.log > 0 \/ ~load.buf THEN s
       ELSE Call(k, s, [s.attr EXCEPT !.log = TRUE])

(***************************************************************************)
(* Reference.                                                              *)
(***************************************************************************)
\* With memory for both corrections, a program the kernel would take but for
\* unknown parts of its records is loaded, with records of the size they were
\* given in; one that is not taken is tried last with a log, if there is a
\* buffer; and there are never more than four calls.
RetryExact(k, load, s) ==
    /\ Asked(load) /\ load.mem = 2 =>
          /\ (s.ret = "fd") = (k.verdict = "fd")
          /\ s.ret # "fd" => s.ret = k.verdict /\ s.seen.log = load.buf
    /\ s.ret = "fd" => s.seen.func = load.func /\ s.seen.line = load.line
    /\ s.calls <= 4

=============================================================================
