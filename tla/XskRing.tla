------------------------------- MODULE XskRing -------------------------------
(***************************************************************************)
(* The inline functions of xsk.h on a ring the application produces into   *)
(* (fill, tx) and the ring the kernel answers on (rx, completion), with    *)
(* the kernel moving frames from the first to the second.  The counters    *)
(* are 32 bits wide in the code and wrap; here they count modulo Width.    *)
(* The kernel's side is external.                                          *)
(***************************************************************************)
EXTENDS Integers, Sequences, FiniteSets

CONSTANTS
    Frames,         \* frame addresses of the umem
    Size,           \* entries of a ring, a power of two
    Width,          \* 2^32 in the code: a multiple of Size
    MaxBatch        \* the largest nb of a reserve or a peek

ASSUME RingAssumption ==
    /\ Size \in Nat \ {0} /\ Width \in Nat /\ MaxBatch \in Nat \ {0}
    /\ Width >= 2 * Size /\ Width % Size = 0

VARIABLES
    prod,           \* the ring the application produces into
    cons,           \* the ring it consumes from
    mine,           \* frames the application owns
    reserved,       \* its reservation: first index, length, entries written
    peeked,         \* its peek: first index, length, entries read
    kernel          \* frames the kernel owns

xvars == <<prod, cons, mine, reserved, peeked, kernel>>

\* __u32 arithmetic.
Plus(a, b) == (a + b) % Width

Minus(a, b) == (a - b) % Width

\* The entry idx & mask.
Slot(idx) == idx % Size

Nowhere == [idx |-> 0, n |-> 0, done |-> 0]

\* The rings as the kernel maps them, all zero, and the application's copies:
\* xsk_umem__create and xsk_socket__create set cached_cons of a ring to produce
\* into, and leave the rest as the caller zeroed it.
XInit ==
    /\ \E zero \in Frames :
          LET ring == [i \in 0 .. Size - 1 |-> zero]
          IN /\ prod = [producer |-> 0, consumer |-> 0, ring |-> ring,
                        cached_prod |-> 0, cached_cons |-> Size]
             /\ cons = [producer |-> 0, consumer |-> 0, ring |-> ring,
                        cached_prod |-> 0, cached_cons |-> 0]
    /\ mine = Frames
    /\ reserved = Nowhere
    /\ peeked = Nowhere
    /\ kernel = {}

\* The faulty form of NbFree below: the refreshed pointer is one entry more
\* than the size ahead.
NbFree_OneMore(r, nb) ==
    LET free == Minus(r.cached_cons, r.cached_prod)
        fresh == Plus(r.consumer, Size + 1)
    IN IF free >= nb THEN [ring |-> r, n |-> free]
       ELSE [ring |-> [r EXCEPT !.cached_cons = fresh], n |-> Minus(fresh, r.cached_prod)]

\* xsk_prod_nb_free: cached_cons runs Size ahead of the consumer, and is read
\* again only when it does not leave room enough.
NbFree(r, nb) ==
    LET free == Minus(r.cached_cons, r.cached_prod)
        fresh == Plus(r.consumer, Size)
    IN IF free >= nb THEN [ring |-> r, n |-> free]
       ELSE [ring |-> [r EXCEPT !.cached_cons = fresh], n |-> Minus(fresh, r.cached_prod)]

\* The faulty form of NbAvail below: the producer is never read again.
NbAvail_Never(r, nb) ==
    LET n == Minus(r.cached_prod, r.cached_cons)
    IN [ring |-> r, n |-> IF n > nb THEN nb ELSE n]

\* xsk_cons_nb_avail: the producer is read again only when nothing is left.
NbAvail(r, nb) ==
    LET fresh == IF r.cached_prod = r.cached_cons THEN r.producer ELSE r.cached_prod
        n == Minus(fresh, r.cached_cons)
    IN [ring |-> [r EXCEPT !.cached_prod = fresh], n |-> IF n > nb THEN nb ELSE n]

(***************************************************************************)
(* The application.                                                        *)
(***************************************************************************)
\* xsk_ring_prod__reserve: all of nb or nothing.
Reserve(nb) ==
    LET r == NbFree(prod, nb)
    IN /\ reserved.n = 0 /\ nb <= Cardinality(mine)
       /\ IF r.n < nb
          THEN prod' = r.ring /\ UNCHANGED reserved
          ELSE /\ reserved' = [idx |-> prod.cached_prod, n |-> nb, done |-> 0]
               /\ prod' = [r.ring EXCEPT !.cached_prod = Plus(@, nb)]
       /\ UNCHANGED <<cons, mine, peeked, kernel>>

\* The application fills one reserved entry (xsk_ring_prod__fill_addr,
\* xsk_ring_prod__tx_desc).
Write(f) ==
    /\ reserved.done < reserved.n /\ f \in mine
    /\ prod' = [prod EXCEPT !.ring[Slot(Plus(reserved.idx, reserved.done))] = f]
    /\ reserved' = [reserved EXCEPT !.done = @ + 1]
    /\ mine' = mine \ {f}
    /\ UNCHANGED <<cons, peeked, kernel>>

\* xsk_ring_prod__submit, after the barrier: every entry has been written.
Submit ==
    /\ reserved.n > 0 /\ reserved.done = reserved.n
    /\ prod' = [prod EXCEPT !.producer = Plus(@, reserved.n)]
    /\ reserved' = Nowhere
    /\ UNCHANGED <<cons, mine, peeked, kernel>>

\* xsk_ring_cons__peek: at most nb.
Peek(nb) ==
    LET r == NbAvail(cons, nb)
    IN /\ peeked.n = 0
       /\ IF r.n = 0
          THEN cons' = r.ring /\ UNCHANGED peeked
          ELSE /\ peeked' = [idx |-> cons.cached_cons, n |-> r.n, done |-> 0]
               /\ cons' = [r.ring EXCEPT !.cached_cons = Plus(@, r.n)]
       /\ UNCHANGED <<prod, mine, reserved, kernel>>

\* The application reads one entry (xsk_ring_cons__comp_addr,
\* xsk_ring_cons__rx_desc).
Read ==
    /\ peeked.done < peeked.n
    /\ mine' = mine \cup {cons.ring[Slot(Plus(peeked.idx, peeked.done))]}
    /\ peeked' = [peeked EXCEPT !.done = @ + 1]
    /\ UNCHANGED <<prod, cons, reserved, kernel>>

\* xsk_ring_cons__release of what was peeked and read.
Release ==
    /\ peeked.n > 0 /\ peeked.done = peeked.n
    /\ cons' = [cons EXCEPT !.consumer = Plus(@, peeked.n)]
    /\ peeked' = Nowhere
    /\ UNCHANGED <<prod, mine, reserved, kernel>>

(***************************************************************************)
(* The kernel.                                                             *)
(***************************************************************************)
KernelTake ==
    /\ prod.producer # prod.consumer
    /\ kernel' = kernel \cup {prod.ring[Slot(prod.consumer)]}
    /\ prod' = [prod EXCEPT !.consumer = Plus(@, 1)]
    /\ UNCHANGED <<cons, mine, reserved, peeked>>

KernelGive(f) ==
    /\ f \in kernel /\ Minus(cons.producer, cons.consumer) < Size
    /\ kernel' = kernel \ {f}
    /\ cons' = [cons EXCEPT !.ring[Slot(cons.producer)] = f, !.producer = Plus(@, 1)]
    /\ UNCHANGED <<prod, mine, reserved, peeked>>

AppStep == \/ \E nb \in 1 .. MaxBatch : Reserve(nb) \/ Peek(nb)
           \/ \E f \in Frames : Write(f)
           \/ Submit \/ Read \/ Release

XNext == AppStep \/ KernelTake \/ \E f \in Frames : KernelGive(f)

\* The kernel goes on with what it was given, and the application's loop peeks,
\* reads and releases, and submits what it reserved.
XFairness ==
    /\ WF_xvars(KernelTake)
    /\ \A f \in Frames : SF_xvars(KernelGive(f))
    /\ WF_xvars(\E nb \in 1 .. MaxBatch : Peek(nb))
    /\ WF_xvars(Read) /\ WF_xvars(Release) /\ WF_xvars(Submit)

XSpec == XInit /\ [][XNext]_xvars /\ XFairness

(***************************************************************************)
(* Properties.                                                             *)
(***************************************************************************)
\* The entries of a ring from one index up to another, in order.
Between(ring, from, to) == [i \in 1 .. Minus(to, from) |-> ring[Slot(Plus(from, i - 1))]]

Sent == Between(prod.ring, prod.consumer, prod.producer)

Unread == Between(cons.ring, IF peeked.n = 0 THEN cons.cached_cons ELSE Plus(peeked.idx, peeked.done),
                  cons.producer)

\* The two rings with their cached and wrapping counters are the two bounded
\* queues of XskQueues: frames in order, none lost, none twice.
Queues == INSTANCE XskQueues WITH sent <- Sent, done <- Unread

RingsAreQueues == Queues!QSpec

\* A frame that was submitted comes back to the application.
FrameReturns ==
    \A f \in Frames : (\E i \in DOMAIN Sent : Sent[i] = f) ~> f \in mine

=============================================================================
