------------------------------ MODULE XskQueues ------------------------------
(***************************************************************************)
(* What the two rings of an AF_XDP path promise (fill and rx, or tx and    *)
(* completion): frames the application hands over reach the kernel in the  *)
(* order they were submitted, come back in the order the kernel returned   *)
(* them, each ring holds at most Size of them, and a frame is never in two *)
(* places.                                                                 *)
(***************************************************************************)
EXTENDS Naturals, Sequences

CONSTANTS Frames, Size

VARIABLES
    sent,       \* submitted and not yet taken by the kernel
    kernel,     \* what the kernel works on
    done        \* returned and not yet seen by the application

qvars == <<sent, kernel, done>>

Places(s) == {s[i] : i \in DOMAIN s}

Away == Places(sent) \cup kernel \cup Places(done)

QInit == sent = <<>> /\ kernel = {} /\ done = <<>>

Submit ==
    \E n \in 1 .. Size - Len(sent) : \E batch \in [1 .. n -> Frames \ Away] :
        /\ \A i, j \in 1 .. n : batch[i] = batch[j] => i = j
        /\ sent' = sent \o batch
        /\ UNCHANGED <<kernel, done>>

Take ==
    /\ sent # <<>>
    /\ kernel' = kernel \cup {Head(sent)}
    /\ sent' = Tail(sent)
    /\ UNCHANGED done

Give ==
    /\ Len(done) < Size
    /\ \E f \in kernel : done' = Append(done, f) /\ kernel' = kernel \ {f}
    /\ UNCHANGED sent

See == done # <<>> /\ done' = Tail(done) /\ UNCHANGED <<sent, kernel>>

QNext == Submit \/ Take \/ Give \/ See

QSpec == QInit /\ [][QNext]_qvars

=============================================================================
