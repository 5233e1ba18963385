------------------------------ MODULE XskSocket ------------------------------
(***************************************************************************)
(* AF_XDP sockets and their umems (xsk.c): several processes create a      *)
(* socket each, for queues of one interface, and delete it again.  The     *)
(* first one attaches an XDP program with two maps, the others find it and *)
(* enter their queue in its maps.  What happens between the look for an    *)
(* attached program and the attaching, and between the updates of the two  *)
(* maps, is not protected against the other processes.                     *)
(***************************************************************************)
EXTENDS Integers, FiniteSets

CONSTANTS
    Sockets,        \* each is created and deleted at most once
    Umems,
    NicQueues,      \* queues of the interface
    None            \* no socket, no queue, no program

ASSUME SocketAssumption ==
    /\ None \notin Sockets \cup NicQueues \cup {"other"}
    /\ "other" \notin Sockets

VARIABLES
    umem,           \* umem[u]: live, refcount, the queue its descriptor is bound to
    sock,           \* sock[s]: progress of xsk_socket__create, and its fields
    link,           \* the socket that loaded the attached program, None, "other"
    prog,           \* prog[s]: qidconf_map and xsks_map of the program s loaded
    calm            \* nobody was killed, detached a program or looked at the
                    \* interface while another was about to attach

kvars == <<umem, sock, link, prog, calm>>

NoSock == [pc |-> "new", umem |-> None, queue |-> None, prog |-> None]

SInit ==
    /\ umem = [u \in Umems |-> [live |-> FALSE, used |-> FALSE, refcount |-> 0, queue |-> None]]
    /\ sock = [s \in Sockets |-> NoSock]
    /\ link \in {None, "other"}
    /\ prog = [s \in Sockets |-> [qidconf |-> [q \in NicQueues |-> FALSE],
                                  xsks |-> [q \in NicQueues |-> None]]]
    /\ calm = TRUE

\* xsk_umem__create; an error on the way leaves nothing.
UmemCreate(u) ==
    /\ ~umem[u].live
    /\ umem' = [umem EXCEPT ![u] = [live |-> TRUE, used |-> FALSE, refcount |-> 0, queue |-> None]]
    /\ UNCHANGED <<sock, link, prog, calm>>

\* xsk_umem__delete: -EBUSY while it is in use.
UmemDelete(u) ==
    /\ umem[u].live /\ umem[u].refcount = 0
    /\ umem' = [umem EXCEPT ![u].live = FALSE, ![u].queue = None]
    /\ UNCHANGED <<sock, link, prog, calm>>

(***************************************************************************)
(* xsk_socket__create.                                                     *)
(***************************************************************************)
\* Taking the umem: shared ones are not supported.
Start(s, u, q) ==
    /\ sock[s].pc = "new" /\ umem[u].live /\ umem[u].refcount = 0
    /\ umem' = [umem EXCEPT ![u].refcount = @ + 1]
    /\ sock' = [sock EXCEPT ![s] = [pc |-> "bind", umem |-> u, queue |-> q, prog |-> None]]
    /\ UNCHANGED <<link, prog, calm>>

\* The faulty form of Fail below: the reference to the umem is kept.
Fail_KeepsUmem(s) ==
    /\ sock' = [sock EXCEPT ![s].pc = "failed"]
    /\ UNCHANGED umem

\* The error path: the socket's descriptor is the umem's, and stays open.
Fail(s) ==
    /\ sock' = [sock EXCEPT ![s].pc = "failed"]
    /\ umem' = [umem EXCEPT ![sock[s].umem].refcount = @ - 1]

\* The rings and bind.  The umem's descriptor takes rings once, and a queue
\* takes one socket; the kernel refuses the rest.  `inhibit` is
\* XSK_LIBBPF_FLAGS__INHIBIT_PROG_LOAD.
Bind(s) ==
    LET u == sock[s].umem
        taken == umem[u].used \/ \E v \in Umems : umem[v].queue = sock[s].queue
    IN /\ sock[s].pc = "bind"
       /\ \/ /\ ~taken
             /\ umem' = [umem EXCEPT ![u].used = TRUE, ![u].queue = sock[s].queue]
             /\ \E inhibit \in BOOLEAN :
                   sock' = [sock EXCEPT ![s].pc = IF inhibit THEN "live" ELSE "lookup"]
          \/ Fail(s)
       /\ UNCHANGED <<link, prog, calm>>

Attaching == {s \in Sockets : sock[s].pc = "load"}

\* The faulty form of Lookup below: the program that is there is not used.
Lookup_AlwaysLoads(s) ==
    /\ sock[s].pc = "lookup"
    /\ sock' = [sock EXCEPT ![s].pc = "load"]
    /\ calm' = (calm /\ Attaching = {})
    /\ UNCHANGED <<umem, link, prog>>

\* xsk_setup_xdp_prog: is there a program on the interface?
Lookup(s) ==
    /\ sock[s].pc = "lookup"
    /\ \/ /\ sock' = [sock EXCEPT ![s].pc = IF link = None THEN "load" ELSE "qidconf",
                                  ![s].prog = link]
          /\ UNCHANGED umem
       \/ Fail(s)
    /\ calm' = (calm /\ Attaching = {})
    /\ UNCHANGED <<link, prog>>

\* xsk_create_bpf_maps and xsk_load_xdp_prog: new maps, and the new program
\* replaces whatever is attached by now.
LoadProg(s) ==
    /\ sock[s].pc = "load"
    /\ \/ /\ link' = s
          /\ prog' = [prog EXCEPT ![s] = [qidconf |-> [q \in NicQueues |-> FALSE],
                                          xsks |-> [q \in NicQueues |-> None]]]
          /\ sock' = [sock EXCEPT ![s].pc = "qidconf", ![s].prog = s]
          /\ UNCHANGED umem
       \/ Fail(s) /\ UNCHANGED <<link, prog>>
    /\ UNCHANGED calm

\* xsk_update_bpf_maps, the first map: a program without the two maps is an
\* error, and the program stays attached in any case.
SetQidconf(s) ==
    /\ sock[s].pc = "qidconf"
    /\ \/ /\ sock[s].prog \in Sockets
          /\ prog' = [prog EXCEPT ![sock[s].prog].qidconf[sock[s].queue] = TRUE]
          /\ sock' = [sock EXCEPT ![s].pc = "xsks"]
          /\ UNCHANGED umem
       \/ Fail(s) /\ UNCHANGED prog
    /\ UNCHANGED <<link, calm>>

\* The second map; an error resets the first.
SetXsks(s) ==
    /\ sock[s].pc = "xsks"
    /\ \/ /\ prog' = [prog EXCEPT ![sock[s].prog].xsks[sock[s].queue] = s]
          /\ sock' = [sock EXCEPT ![s].pc = "live"]
          /\ UNCHANGED umem
       \/ /\ prog' = [prog EXCEPT ![sock[s].prog].qidconf[sock[s].queue] = FALSE]
          /\ Fail(s)
    /\ UNCHANGED <<link, calm>>

\* The faulty form of ClearEntry below: the queue stays entered.
ClearEntry_Not(s) == UNCHANGED prog

\* xsk_update_bpf_maps(xsk, 0, 0): the kernel takes no descriptor 0 for the
\* second map, which leaves that entry and resets the first again.
ClearEntry(s) ==
    IF sock[s].prog \in Sockets
    THEN prog' = [prog EXCEPT ![sock[s].prog].qidconf[sock[s].queue] = FALSE]
    ELSE UNCHANGED prog

\* xsk_socket__delete; the descriptor is the umem's and is not closed.
Delete(s) ==
    /\ sock[s].pc = "live"
    /\ ClearEntry(s)
    /\ umem' = [umem EXCEPT ![sock[s].umem].refcount = @ - 1]
    /\ sock' = [sock EXCEPT ![s].pc = "deleted"]
    /\ UNCHANGED <<link, calm>>

(***************************************************************************)
(* The process of a socket and its umem is killed; a program is detached.  *)
(***************************************************************************)
Kill(s) ==
    /\ sock[s].pc \notin {"new", "deleted", "failed"}
    /\ sock' = [sock EXCEPT ![s].pc = "deleted"]
    /\ umem' = [umem EXCEPT ![sock[s].umem] =
                   [live |-> FALSE, used |-> FALSE, refcount |-> 0, queue |-> None]]
    /\ calm' = FALSE
    /\ UNCHANGED <<link, prog>>

Detach ==
    /\ link # None
    /\ link' = None
    /\ calm' = FALSE
    /\ UNCHANGED <<umem, sock, prog>>

SNext ==
    \/ \E u \in Umems : UmemCreate(u) \/ UmemDelete(u)
    \/ \E s \in Sockets, u \in Umems, q \in NicQueues : Start(s, u, q)
    \/ \E s \in Sockets : \/ Bind(s) \/ Lookup(s) \/ LoadProg(s) \/ SetQidconf(s)
                          \/ SetXsks(s) \/ Delete(s) \/ Kill(s)
    \/ Detach

SSpec == SInit /\ [][SNext]_kvars

(***************************************************************************)
(* Properties.                                                             *)
(***************************************************************************)
Using(u) == {s \in Sockets : sock[s].umem = u /\ sock[s].pc \notin {"new", "failed", "deleted"}}

\* The count of a umem is the number of sockets that use it, one at most
\* ("shared umems not supported by libbpf"), on every path of
\* xsk_socket__create and xsk_socket__delete, so that xsk_umem__delete neither
\* takes it away from a socket nor refuses for ever.
RefcountExact ==
    \A u \in Umems :
        /\ umem[u].refcount = Cardinality(Using(u)) /\ Cardinality(Using(u)) <= 1
        /\ Using(u) # {} => umem[u].live

\* "A set entry here means that the correspnding queue_id has an active AF_XDP
\* socket bound to it" (xsk.c:265), for the attached program, under the same
\* premise as SocketIsServed below: no packet is redirected to a queue without
\* socket.
SetEntryHasSocket ==
    calm /\ link \in Sockets =>
        \A q \in NicQueues : prog[link].qidconf[q] =>
            \E s \in Sockets : /\ sock[s].queue = q /\ sock[s].prog = link
                               /\ sock[s].pc \in {"xsks", "live"}
                               /\ umem[sock[s].umem].queue = q

\* A socket whose creation returned, with its program set up, gets the packets
\* of its queue: the attached program has both its entries.  The premise calm
\* leaves out a process that was killed, a program somebody else detached, and
\* two sockets that look for a program and attach at the same time: both may
\* find none, and the second program replaces the first with its maps (xsk.c:483).
SocketIsServed ==
    calm => \A s \in Sockets : sock[s].pc = "live" /\ sock[s].prog # None =>
        /\ link = sock[s].prog
        /\ prog[link].qidconf[sock[s].queue]
        /\ prog[link].xsks[sock[s].queue] = s

=============================================================================
