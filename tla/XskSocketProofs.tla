-------------------------- MODULE XskSocketProofs --------------------------
(***************************************************************************)
(* Theorems about XskSocket, for any number of sockets, umems and queues.  *)
(***************************************************************************)
EXTENDS XskSocket, FiniteSetTheorems, TLAPS

Ended == {"new", "failed", "deleted"}

Active(s) == sock[s].pc \notin Ended

\* The sockets whose bind succeeded.
Bound(s) == sock[s].pc \in {"lookup", "load", "qidconf", "xsks", "live"}

\* The sockets that know the program that serves them.
Joined(s) == sock[s].pc \in {"qidconf", "xsks", "live"} /\ sock[s].prog # None

PcSet == {"bind", "lookup", "load", "qidconf", "xsks", "live"} \cup Ended

UmemRecord == [live : BOOLEAN, used : BOOLEAN, refcount : {0, 1}, queue : NicQueues \cup {None}]

SockRecord == [pc : PcSet, umem : Umems \cup {None}, queue : NicQueues \cup {None},
               prog : Sockets \cup {None, "other"}]

ProgRecord == [qidconf : [NicQueues -> BOOLEAN], xsks : [NicQueues -> Sockets \cup {None}]]

TypeInv ==
    /\ umem \in [Umems -> UmemRecord]
    /\ sock \in [Sockets -> SockRecord]
    /\ link \in Sockets \cup {None, "other"}
    /\ prog \in [Sockets -> ProgRecord]
    /\ calm \in BOOLEAN

\* A socket under way holds the one reference to its umem.
HoldsUmem ==
    /\ \A s \in Sockets : Active(s) =>
          /\ sock[s].umem \in Umems /\ sock[s].queue \in NicQueues
          /\ umem[sock[s].umem].live /\ umem[sock[s].umem].refcount = 1
    /\ \A s, t \in Sockets : Active(s) /\ Active(t) /\ sock[s].umem = sock[t].umem => s = t
    /\ \A u \in Umems : umem[u].refcount = 1 => \E s \in Sockets : Active(s) /\ sock[s].umem = u

\* A bound socket is alone on its queue.
HoldsQueue ==
    /\ \A s \in Sockets : Bound(s) => umem[sock[s].umem].queue = sock[s].queue
    /\ \A u, v \in Umems : umem[u].queue = umem[v].queue /\ umem[u].queue # None => u = v

\* What is known of a socket's program.
KnowsProg ==
    \A s \in Sockets :
        /\ sock[s].pc \in {"bind", "lookup", "load"} => sock[s].prog = None
        /\ sock[s].pc = "qidconf" => sock[s].prog # None
        /\ sock[s].pc = "xsks" => sock[s].prog \in Sockets
        /\ sock[s].pc = "live" => sock[s].prog \in Sockets \cup {None}

\* While calm, one socket at a time attaches, to an interface without program,
\* and the sockets that know a program know the attached one.
OneProgram ==
    calm =>
        /\ \A s, t \in Sockets : sock[s].pc = "load" /\ sock[t].pc = "load" => s = t
        /\ \A s \in Sockets : sock[s].pc = "load" => link = None
        /\ \A s \in Sockets : Joined(s) => sock[s].prog = link

\* While calm, what a socket has entered stays entered.
Entered ==
    calm => \A s \in Sockets :
        /\ sock[s].pc = "xsks" \/ (sock[s].pc = "live" /\ sock[s].prog # None) =>
              prog[link].qidconf[sock[s].queue]
        /\ sock[s].pc = "live" /\ sock[s].prog # None => prog[link].xsks[sock[s].queue] = s

SocketInv ==
    /\ TypeInv /\ HoldsUmem /\ HoldsQueue /\ KnowsProg
    /\ OneProgram /\ Entered /\ SetEntryHasSocket

(***************************************************************************)
(* What the invariant says.                                                *)
(***************************************************************************)
LEMMA InvRefcount ==
    ASSUME SocketInv
    PROVE  RefcountExact
<1> SUFFICES ASSUME NEW u \in Umems
             PROVE  /\ umem[u].refcount = Cardinality(Using(u)) /\ Cardinality(Using(u)) <= 1
                    /\ Using(u) # {} => umem[u].live
  BY DEF RefcountExact
<1>1. umem[u].refcount \in {0, 1}
  BY DEF SocketInv, TypeInv, UmemRecord
<1>2. \A s \in Sockets : s \in Using(u) <=> Active(s) /\ sock[s].umem = u
  BY DEF Using, Active, Ended
<1>3. Using(u) \subseteq Sockets
  BY DEF Using
<1>4. \A s, t \in Using(u) : s = t
  BY <1>2, <1>3 DEF SocketInv, HoldsUmem
<1>5. \A s \in Using(u) : umem[u].live /\ umem[u].refcount = 1
  BY <1>2, <1>3 DEF SocketInv, HoldsUmem
<1>6. CASE Using(u) = {}
  <2>1. umem[u].refcount = 0
    BY <1>1, <1>2, <1>6 DEF SocketInv, HoldsUmem
  <2> QED
    BY <1>6, <2>1, FS_EmptySet
<1>7. CASE Using(u) # {}
  <2>1. PICK s : s \in Using(u)
    BY <1>7
  <2>2. Using(u) = {s}
    BY <1>4, <2>1
  <2>3. Cardinality({s}) = 1
    BY FS_Singleton
  <2> QED
    BY <1>5, <2>1, <2>2, <2>3
<1> QED
  BY <1>6, <1>7

LEMMA InvServed ==
    ASSUME SocketInv
    PROVE  SocketIsServed
  BY DEF SocketInv, SocketIsServed, OneProgram, Entered, Joined

(***************************************************************************)
(* The steps.                                                              *)
(***************************************************************************)
LEMMA InitInv == SInit => SocketInv
<1> SUFFICES ASSUME SInit PROVE SocketInv
  OBVIOUS
<1>1. TypeInv
  BY DEF SInit, TypeInv, UmemRecord, SockRecord, ProgRecord, NoSock, PcSet, Ended
<1>2. \A s \in Sockets : sock[s].pc = "new" /\ ~Active(s) /\ ~Bound(s) /\ ~Joined(s)
  BY DEF SInit, NoSock, Active, Bound, Joined, Ended
<1>3. \A u \in Umems : umem[u].refcount = 0 /\ umem[u].queue = None
  BY DEF SInit
<1>4. link \notin Sockets
  BY SocketAssumption DEF SInit
<1> QED
  BY <1>1, <1>2, <1>3, <1>4
     DEF SocketInv, HoldsUmem, HoldsQueue, KnowsProg, OneProgram, Entered, SetEntryHasSocket

\* A step that gives up a socket: the error paths of xsk_socket__create, and
\* xsk_socket__delete.  Its entry, if it has one, is cleared.
LEMMA ReleaseInv ==
    ASSUME SocketInv, NEW s \in Sockets, Active(s), NEW end \in {"failed", "deleted"},
           sock' = [sock EXCEPT ![s].pc = end],
           umem' = [umem EXCEPT ![sock[s].umem].refcount = @ - 1],
           link' = link,
           calm' \in BOOLEAN, calm' => calm,
           \/ /\ prog' = prog
              /\ sock[s].pc \in {"xsks", "live"} => sock[s].prog \notin Sockets
           \/ /\ sock[s].prog \in Sockets /\ sock[s].pc \in {"xsks", "live"}
              /\ prog' = [prog EXCEPT ![sock[s].prog].qidconf[sock[s].queue] = FALSE]
    PROVE  SocketInv'
<1> DEFINE u == sock[s].umem
           q == sock[s].queue
<1>1. /\ u \in Umems /\ q \in NicQueues /\ umem[u].refcount = 1
      /\ \A t \in Sockets : t # s /\ Active(t) => sock[t].umem # u
  BY DEF SocketInv, HoldsUmem
<1>2. /\ sock'[s].pc = end /\ ~Active(s)' /\ ~Bound(s)' /\ ~Joined(s)'
      /\ \A t \in Sockets : t # s => sock'[t] = sock[t]
  BY DEF SocketInv, TypeInv, SockRecord, Active, Bound, Joined, Ended
<1>3. /\ \A t \in Sockets : t # s =>
            (Active(t)' <=> Active(t)) /\ (Bound(t)' <=> Bound(t)) /\ (Joined(t)' <=> Joined(t))
      /\ \A t \in Sockets : sock'[t].umem = sock[t].umem
  BY <1>2 DEF SocketInv, TypeInv, SockRecord, Active, Bound, Joined
<1>4. /\ umem'[u].refcount = 0
      /\ \A v \in Umems : v # u => umem'[v] = umem[v]
      /\ \A v \in Umems : umem'[v].queue = umem[v].queue /\ umem'[v].live = umem[v].live
  BY <1>1 DEF SocketInv, TypeInv, UmemRecord
<1>5. /\ prog' \in [Sockets -> ProgRecord]
      /\ \A p \in Sockets : prog'[p].xsks = prog[p].xsks
      /\ \A p \in Sockets, r \in NicQueues :
            \/ prog'[p].qidconf[r] = prog[p].qidconf[r]
            \/ p = sock[s].prog /\ r = q /\ sock[s].pc \in {"xsks", "live"} /\ ~prog'[p].qidconf[r]
      /\ sock[s].prog \in Sockets /\ sock[s].pc \in {"xsks", "live"} => ~prog'[sock[s].prog].qidconf[q]
  <2>1. prog \in [Sockets -> ProgRecord]
    BY DEF SocketInv, TypeInv
  <2>2. CASE /\ prog' = prog
             /\ sock[s].pc \in {"xsks", "live"} => sock[s].prog \notin Sockets
    BY <2>1, <2>2
  <2>3. CASE /\ sock[s].prog \in Sockets /\ sock[s].pc \in {"xsks", "live"}
             /\ prog' = [prog EXCEPT ![sock[s].prog].qidconf[q] = FALSE]
    <3>1. \A p \in Sockets : p # sock[s].prog => prog'[p] = prog[p]
      BY <2>1, <2>3
    <3> DEFINE P == prog[sock[s].prog]
               P1 == prog'[sock[s].prog]
    <3>2. P.qidconf \in [NicQueues -> BOOLEAN] /\ P.xsks \in [NicQueues -> Sockets \cup {None}]
      BY <2>1, <2>3 DEF ProgRecord
    <3>3. P1 = [qidconf |-> [P.qidconf EXCEPT ![q] = FALSE], xsks |-> P.xsks]
      BY <2>1, <2>3 DEF ProgRecord
    <3>4. /\ P1 \in ProgRecord /\ P1.xsks = P.xsks /\ P1.qidconf[q] = FALSE
          /\ \A r \in NicQueues : r # q => P1.qidconf[r] = P.qidconf[r]
      <4> HIDE DEF P, P1, q
      <4>1. [P.qidconf EXCEPT ![q] = FALSE] \in [NicQueues -> BOOLEAN]
        BY <3>2
      <4> QED
        BY <1>1, <3>2, <3>3, <4>1 DEF ProgRecord
    <3>5. prog' \in [Sockets -> ProgRecord]
      BY <2>1, <2>3, <3>4
    <3> QED
      BY <2>1, <2>3, <3>1, <3>4, <3>5
  <2> QED
    BY <2>2, <2>3
<1>6. TypeInv'
  <2>1. umem' \in [Umems -> UmemRecord]
    BY <1>1 DEF SocketInv, TypeInv, UmemRecord
  <2>2. sock' \in [Sockets -> SockRecord]
    BY DEF SocketInv, TypeInv, SockRecord, PcSet, Ended
  <2> QED
    BY <1>5, <2>1, <2>2 DEF SocketInv, TypeInv
<1>7. HoldsUmem'
  <2>1. \A t \in Sockets : Active(t)' => t # s /\ Active(t) /\ sock'[t] = sock[t] /\ sock[t].umem # u
    BY <1>1, <1>2, <1>3
  <2>2. \A v \in Umems : umem'[v].refcount = 1 => v # u /\ umem[v].refcount = 1
    BY <1>4
  <2>3. \A v \in Umems : umem'[v].refcount = 1 =>
           \E t \in Sockets : t # s /\ Active(t) /\ sock[t].umem = v
    BY <2>2 DEF SocketInv, HoldsUmem
  <2>4. \A t \in Sockets : Active(t)' =>
           /\ sock'[t].umem \in Umems /\ sock'[t].queue \in NicQueues
           /\ umem'[sock'[t].umem].live /\ umem'[sock'[t].umem].refcount = 1
    BY <1>4, <2>1 DEF SocketInv, HoldsUmem
  <2>5. \A t, z \in Sockets : Active(t)' /\ Active(z)' /\ sock'[t].umem = sock'[z].umem => t = z
    BY <2>1 DEF SocketInv, HoldsUmem
  <2>6. \A v \in Umems : umem'[v].refcount = 1 => \E t \in Sockets : Active(t)' /\ sock'[t].umem = v
    BY <1>3, <2>3
  <2> QED
    BY <2>4, <2>5, <2>6 DEF HoldsUmem
<1>8. HoldsQueue'
  <2>1. \A t \in Sockets : Bound(t)' => t # s /\ Bound(t) /\ Active(t) /\ sock'[t] = sock[t]
    BY <1>2, <1>3 DEF Bound, Active, Ended
  <2> QED
    BY <1>4, <2>1 DEF SocketInv, HoldsQueue, HoldsUmem
<1>9. KnowsProg'
  BY <1>2 DEF SocketInv, KnowsProg
<1>10. OneProgram'
  BY <1>2, <1>3 DEF SocketInv, OneProgram
<1>11. ASSUME NEW t \in Sockets, t # s, Bound(t), Bound(s)
       PROVE  sock[t].queue # q
  <2>1. Active(t) /\ Active(s)
    BY <1>11 DEF Bound, Active, Ended
  <2>2. sock[t].umem \in Umems /\ sock[t].umem # u
    BY <1>1, <1>11, <2>1 DEF SocketInv, HoldsUmem
  <2>3. umem[u].queue = q /\ umem[sock[t].umem].queue = sock[t].queue /\ q # None
    BY <1>1, <1>11, SocketAssumption DEF SocketInv, HoldsQueue
  <2> QED
    BY <1>1, <2>2, <2>3 DEF SocketInv, HoldsQueue
<1>12. Entered'
  <2> SUFFICES ASSUME calm', NEW t \in Sockets, sock'[t].pc = "xsks" \/ (sock'[t].pc = "live" /\ sock'[t].prog # None)
               PROVE  /\ prog'[link'].qidconf[sock'[t].queue]
                      /\ sock'[t].pc = "live" => prog'[link'].xsks[sock'[t].queue] = t
    BY DEF Entered
  <2>1. calm /\ t # s /\ sock'[t] = sock[t] /\ Bound(t) /\ Joined(t) /\ Active(t)
    BY <1>2, SocketAssumption DEF Bound, Joined, Active, Ended, SocketInv, KnowsProg
  <2>2. link = sock[t].prog /\ link \in Sockets /\ sock[t].queue \in NicQueues
    BY <2>1 DEF SocketInv, OneProgram, KnowsProg, Joined, HoldsUmem
  <2>3. prog[link].qidconf[sock[t].queue] /\ (sock[t].pc = "live" => prog[link].xsks[sock[t].queue] = t)
    BY <2>1 DEF SocketInv, Entered
  <2>4. prog'[link].qidconf[sock[t].queue]
    <3>1. CASE sock[s].pc \in {"xsks", "live"}
      <4>1. sock[t].queue # q
        BY <1>11, <2>1, <3>1 DEF Bound
      <4> QED
        BY <1>5, <2>2, <2>3, <4>1
    <3>2. CASE sock[s].pc \notin {"xsks", "live"}
      BY <1>5, <2>2, <2>3, <3>2
    <3> QED
      BY <3>1, <3>2
  <2> QED
    BY <1>5, <2>1, <2>2, <2>3, <2>4
<1>13. SetEntryHasSocket'
  <2> SUFFICES ASSUME calm', link' \in Sockets, NEW r \in NicQueues, prog'[link'].qidconf[r]
               PROVE  \E t \in Sockets : /\ sock'[t].queue = r /\ sock'[t].prog = link'
                                         /\ sock'[t].pc \in {"xsks", "live"}
                                         /\ umem'[sock'[t].umem].queue = r
    BY DEF SetEntryHasSocket
  <2>1. prog[link].qidconf[r]
    BY <1>5
  <2>2. PICK t \in Sockets : /\ sock[t].queue = r /\ sock[t].prog = link
                             /\ sock[t].pc \in {"xsks", "live"}
                             /\ umem[sock[t].umem].queue = r
    BY <2>1 DEF SocketInv, SetEntryHasSocket
  <2>3. t # s
    BY <1>5, <2>2
  <2>4. sock[t].umem \in Umems
    BY <2>2 DEF SocketInv, HoldsUmem, Active, Ended
  <2> QED
    BY <1>2, <1>4, <2>2, <2>3, <2>4
<1> QED
  BY <1>6, <1>7, <1>8, <1>9, <1>10, <1>12, <1>13 DEF SocketInv

LEMMA UmemInv ==
    ASSUME SocketInv, NEW u \in Umems, UmemCreate(u) \/ UmemDelete(u)
    PROVE  SocketInv'
<1>1. /\ umem[u].refcount = 0
      /\ \A s \in Sockets : Active(s) => sock[s].umem # u
  BY DEF SocketInv, TypeInv, HoldsUmem, UmemRecord, UmemCreate, UmemDelete
<1>2. /\ umem' \in [Umems -> UmemRecord]
      /\ umem'[u].refcount = 0 /\ umem'[u].queue = None
      /\ \A v \in Umems : v # u => umem'[v] = umem[v]
  <2>1. umem \in [Umems -> UmemRecord]
    BY DEF SocketInv, TypeInv
  <2>2. CASE UmemCreate(u)
    BY <2>1, <2>2 DEF UmemRecord, UmemCreate
  <2>3. CASE UmemDelete(u)
    BY <1>1, <2>1, <2>3 DEF UmemRecord, UmemDelete
  <2> QED
    BY <2>2, <2>3
<1>3. sock' = sock /\ link' = link /\ prog' = prog /\ calm' = calm
  BY DEF UmemCreate, UmemDelete
<1>4. \A s \in Sockets : Active(s)' = Active(s) /\ Bound(s)' = Bound(s) /\ Joined(s)' = Joined(s)
  BY <1>3 DEF Active, Bound, Joined
<1>5. \A s \in Sockets :
         /\ Active(s) => sock[s].umem \in Umems /\ umem'[sock[s].umem] = umem[sock[s].umem]
         /\ Bound(s) => Active(s)
         /\ sock[s].pc \in {"xsks", "live"} => Active(s)
  BY <1>1, <1>2 DEF SocketInv, HoldsUmem, Active, Bound, Ended
<1>6. TypeInv'
  BY <1>2, <1>3 DEF SocketInv, TypeInv
<1>7. HoldsUmem'
  <2>1. \A v \in Umems : umem'[v].refcount = 1 => umem[v].refcount = 1
    BY <1>2
  <2> QED
    BY <1>3, <1>4, <1>5, <2>1 DEF SocketInv, HoldsUmem
<1>8. HoldsQueue'
  <2>1. \A v \in Umems : umem'[v].queue # None => umem'[v].queue = umem[v].queue
    BY <1>2
  <2> QED
    BY <1>3, <1>4, <1>5, <2>1 DEF SocketInv, HoldsQueue
<1>9. KnowsProg'
  BY <1>3 DEF SocketInv, KnowsProg
<1>10. OneProgram'
  BY <1>3, <1>4 DEF SocketInv, OneProgram
<1>11. Entered'
  BY <1>3 DEF SocketInv, Entered
<1>12. SetEntryHasSocket'
  <2> SUFFICES ASSUME calm, link \in Sockets, NEW q \in NicQueues, prog[link].qidconf[q]
               PROVE  \E s \in Sockets : /\ sock[s].queue = q /\ sock[s].prog = link
                                         /\ sock[s].pc \in {"xsks", "live"}
                                         /\ umem'[sock[s].umem].queue = q
    BY <1>3 DEF SetEntryHasSocket
  <2> QED
    BY <1>5 DEF SocketInv, SetEntryHasSocket
<1> QED
  BY <1>6, <1>7, <1>8, <1>9, <1>10, <1>11, <1>12 DEF SocketInv

LEMMA StartInv ==
    ASSUME SocketInv, NEW s \in Sockets, NEW u \in Umems, NEW q \in NicQueues, Start(s, u, q)
    PROVE  SocketInv'
<1>1. /\ sock[s].pc = "new" /\ umem[u].live /\ umem[u].refcount = 0
      /\ link' = link /\ prog' = prog /\ calm' = calm
      /\ \A t \in Sockets : Active(t) => t # s /\ sock[t].umem # u
  BY DEF SocketInv, HoldsUmem, Start, Active, Ended
<1>2. /\ sock' \in [Sockets -> SockRecord]
      /\ sock'[s].pc = "bind" /\ sock'[s].umem = u /\ sock'[s].queue = q /\ sock'[s].prog = None
      /\ \A t \in Sockets : t # s => sock'[t] = sock[t]
  BY DEF SocketInv, TypeInv, SockRecord, Start, PcSet, Ended
<1>3. /\ umem' \in [Umems -> UmemRecord]
      /\ umem'[u].live /\ umem'[u].refcount = 1
      /\ \A v \in Umems : umem'[v].queue = umem[v].queue
      /\ \A v \in Umems : v # u => umem'[v] = umem[v]
  BY <1>1 DEF SocketInv, TypeInv, UmemRecord, Start
<1>4. /\ Active(s)' /\ ~Bound(s)' /\ ~Joined(s)'
      /\ \A t \in Sockets : t # s =>
            (Active(t)' <=> Active(t)) /\ (Bound(t)' <=> Bound(t)) /\ (Joined(t)' <=> Joined(t))
      /\ \A t \in Sockets : Bound(t) \/ Joined(t) \/ sock[t].pc \in {"xsks", "live"} => Active(t)
  BY <1>2 DEF Active, Bound, Joined, Ended
<1>5. TypeInv'
  BY <1>1, <1>2, <1>3 DEF SocketInv, TypeInv
<1>6. HoldsUmem'
  <2>1. \A v \in Umems : v # u /\ umem[v].refcount = 1 =>
           \E t \in Sockets : t # s /\ Active(t)' /\ sock'[t].umem = v
    BY <1>1, <1>2, <1>4 DEF SocketInv, HoldsUmem
  <2>2. \A t \in Sockets : Active(t)' => \/ t = s
                                         \/ t # s /\ Active(t) /\ sock'[t] = sock[t] /\ sock[t].umem # u
    BY <1>1, <1>2, <1>4
  <2> QED
    BY <1>2, <1>3, <1>4, <2>1, <2>2 DEF SocketInv, HoldsUmem
<1>7. HoldsQueue'
  BY <1>1, <1>2, <1>3, <1>4 DEF SocketInv, HoldsQueue, HoldsUmem
<1>8. KnowsProg' /\ OneProgram' /\ Entered'
  BY <1>1, <1>2, <1>4 DEF SocketInv, KnowsProg, OneProgram, Entered
<1>9. SetEntryHasSocket'
  <2>1. \A t \in Sockets : sock[t].pc \in {"xsks", "live"} => t # s /\ sock'[t] = sock[t] /\ sock[t].umem \in Umems
    BY <1>1, <1>2, <1>4 DEF SocketInv, HoldsUmem
  <2> QED
    BY <1>1, <1>3, <2>1 DEF SocketInv, SetEntryHasSocket
<1> QED
  BY <1>5, <1>6, <1>7, <1>8, <1>9 DEF SocketInv

LEMMA BindInv ==
    ASSUME SocketInv, NEW s \in Sockets, Bind(s)
    PROVE  SocketInv'
<1>1. sock[s].pc = "bind" /\ Active(s) /\ link' = link /\ prog' = prog /\ calm' = calm
  BY DEF Bind, Active, Ended
<1>2. CASE Fail(s)
  <2>1. calm' \in BOOLEAN
    BY <1>1 DEF SocketInv, TypeInv
  <2> QED
    BY <1>1, <1>2, <2>1, ReleaseInv DEF Fail
<1>3. CASE ~Fail(s)
  <2> DEFINE u == sock[s].umem
             q == sock[s].queue
  <2>1. u \in Umems /\ q \in NicQueues /\ \A t \in Sockets : t # s /\ Active(t) => sock[t].umem # u
    BY <1>1 DEF SocketInv, HoldsUmem
  <2>2. /\ \A v \in Umems : umem[v].queue # q
        /\ umem' = [umem EXCEPT ![u].used = TRUE, ![u].queue = q]
        /\ \E b \in BOOLEAN : sock' = [sock EXCEPT ![s].pc = IF b THEN "live" ELSE "lookup"]
    BY <1>3 DEF Bind
  <2>3. /\ umem' \in [Umems -> UmemRecord]
        /\ umem'[u].queue = q
        /\ \A v \in Umems : umem'[v].live = umem[v].live /\ umem'[v].refcount = umem[v].refcount
        /\ \A v \in Umems : v # u => umem'[v] = umem[v]
    BY <2>1, <2>2 DEF SocketInv, TypeInv, UmemRecord
  <2>4. /\ sock' \in [Sockets -> SockRecord]
        /\ sock'[s].pc \in {"live", "lookup"}
        /\ \A t \in Sockets : sock'[t].umem = sock[t].umem /\ sock'[t].queue = sock[t].queue
                               /\ sock'[t].prog = sock[t].prog
        /\ \A t \in Sockets : t # s => sock'[t] = sock[t]
    BY <2>2 DEF SocketInv, TypeInv, SockRecord, PcSet, Ended
  <2>5. sock[s].prog = None
    BY <1>1 DEF SocketInv, KnowsProg
  <2>6. /\ \A t \in Sockets : (Active(t)' <=> Active(t)) /\ (Joined(t)' <=> Joined(t))
        /\ \A t \in Sockets : t # s => (Bound(t)' <=> Bound(t))
        /\ \A t \in Sockets : Bound(t) => Active(t)
    BY <1>1, <2>4, <2>5 DEF Active, Bound, Joined, Ended
  <2>7. TypeInv'
    BY <1>1, <2>3, <2>4 DEF SocketInv, TypeInv
  <2>8. HoldsUmem'
    BY <2>3, <2>4, <2>6 DEF SocketInv, HoldsUmem
  <2>9. HoldsQueue'
    <3>1. \A t \in Sockets : Bound(t)' => umem'[sock'[t].umem].queue = sock'[t].queue
      BY <2>1, <2>3, <2>4, <2>6 DEF SocketInv, HoldsQueue, HoldsUmem
    <3>2. \A v, w \in Umems : umem'[v].queue = umem'[w].queue /\ umem'[v].queue # None => v = w
      <4>1. \A v \in Umems : v # u => umem'[v].queue = umem[v].queue /\ umem'[v].queue # q
        BY <2>2, <2>3
      <4>2. \A v, w \in Umems : v # u /\ w # u /\ umem'[v].queue = umem'[w].queue /\ umem'[v].queue # None => v = w
        BY <4>1 DEF SocketInv, HoldsQueue
      <4> QED
        BY <2>3, <4>1, <4>2
    <3> QED
      BY <3>1, <3>2 DEF HoldsQueue
  <2>10. KnowsProg' /\ OneProgram' /\ Entered'
    BY <1>1, <2>4, <2>5, <2>6 DEF SocketInv, KnowsProg, OneProgram, Entered
  <2>11. SetEntryHasSocket'
    <3>1. \A t \in Sockets : sock[t].pc \in {"xsks", "live"} =>
             t # s /\ sock'[t] = sock[t] /\ sock[t].umem \in Umems /\ sock[t].umem # u
      BY <1>1, <2>1, <2>4 DEF SocketInv, HoldsUmem, Active, Ended
    <3> QED
      BY <1>1, <2>3, <3>1 DEF SocketInv, SetEntryHasSocket
  <2> QED
    BY <2>7, <2>8, <2>9, <2>10, <2>11 DEF SocketInv
<1> QED
  BY <1>2, <1>3

LEMMA LookupInv ==
    ASSUME SocketInv, NEW s \in Sockets, Lookup(s)
    PROVE  SocketInv'
<1>1. /\ sock[s].pc = "lookup" /\ Active(s) /\ link' = link /\ prog' = prog
      /\ calm' \in BOOLEAN /\ (calm' => calm /\ Attaching = {})
  BY DEF Lookup, Active, Ended
<1>2. CASE Fail(s)
  BY <1>1, <1>2, ReleaseInv DEF Fail
<1>3. CASE ~Fail(s)
  <2>1. /\ umem' = umem
        /\ sock' = [sock EXCEPT ![s].pc = IF link = None THEN "load" ELSE "qidconf", ![s].prog = link]
    BY <1>3 DEF Lookup
  <2>2. /\ sock' \in [Sockets -> SockRecord]
        /\ sock'[s].pc = (IF link = None THEN "load" ELSE "qidconf") /\ sock'[s].prog = link
        /\ \A t \in Sockets : sock'[t].umem = sock[t].umem /\ sock'[t].queue = sock[t].queue
        /\ \A t \in Sockets : t # s => sock'[t] = sock[t]
    BY <2>1 DEF SocketInv, TypeInv, SockRecord, PcSet, Ended
  <2>3. /\ \A t \in Sockets : (Active(t)' <=> Active(t)) /\ (Bound(t)' <=> Bound(t))
        /\ \A t \in Sockets : t # s => (Joined(t)' <=> Joined(t))
    BY <1>1, <2>2 DEF Active, Bound, Joined, Ended
  <2>4. TypeInv'
    BY <1>1, <2>1, <2>2 DEF SocketInv, TypeInv
  <2>5. HoldsUmem'
    BY <2>1, <2>2, <2>3 DEF SocketInv, HoldsUmem
  <2>6. HoldsQueue'
    BY <2>1, <2>2, <2>3 DEF SocketInv, HoldsQueue
  <2>7. KnowsProg'
    BY <2>2 DEF SocketInv, KnowsProg
  <2>8. OneProgram'
    <3>1. calm' => \A t \in Sockets : sock[t].pc # "load"
      BY <1>1 DEF Attaching
    <3> QED
      BY <1>1, <2>2, <2>3, <3>1 DEF SocketInv, OneProgram
  <2>9. Entered'
    BY <1>1, <2>2 DEF SocketInv, Entered
  <2>10. SetEntryHasSocket'
    <3>1. \A t \in Sockets : sock[t].pc \in {"xsks", "live"} => sock'[t] = sock[t]
      BY <1>1, <2>2
    <3>2. (calm' => calm) /\ link' = link /\ prog' = prog /\ umem' = umem
      BY <1>1, <2>1
    <3> SUFFICES ASSUME calm, link \in Sockets, NEW q \in NicQueues, prog[link].qidconf[q]
                 PROVE  \E t \in Sockets : /\ sock'[t].queue = q /\ sock'[t].prog = link
                                           /\ sock'[t].pc \in {"xsks", "live"}
                                           /\ umem[sock'[t].umem].queue = q
      BY <3>2 DEF SetEntryHasSocket
    <3> QED
      BY <3>1 DEF SocketInv, SetEntryHasSocket
  <2> QED
    BY <2>4, <2>5, <2>6, <2>7, <2>8, <2>9, <2>10 DEF SocketInv
<1> QED
  BY <1>2, <1>3

LEMMA LoadInv ==
    ASSUME SocketInv, NEW s \in Sockets, LoadProg(s)
    PROVE  SocketInv'
<1>1. sock[s].pc = "load" /\ Active(s) /\ calm' = calm /\ calm \in BOOLEAN
  BY DEF LoadProg, Active, Ended, SocketInv, TypeInv
<1>2. CASE Fail(s) /\ UNCHANGED <<link, prog>>
  BY <1>1, <1>2, ReleaseInv DEF Fail
<1>3. CASE ~(Fail(s) /\ UNCHANGED <<link, prog>>)
  <2>1. /\ umem' = umem /\ link' = s
        /\ prog' = [prog EXCEPT ![s] = [qidconf |-> [q \in NicQueues |-> FALSE],
                                         xsks |-> [q \in NicQueues |-> None]]]
        /\ sock' = [sock EXCEPT ![s].pc = "qidconf", ![s].prog = s]
    BY <1>3 DEF LoadProg
  <2>2. /\ sock' \in [Sockets -> SockRecord]
        /\ sock'[s].pc = "qidconf" /\ sock'[s].prog = s
        /\ \A t \in Sockets : sock'[t].umem = sock[t].umem /\ sock'[t].queue = sock[t].queue
        /\ \A t \in Sockets : t # s => sock'[t] = sock[t]
    <3>1. sock \in [Sockets -> SockRecord]
      BY DEF SocketInv, TypeInv
    <3>2. sock' \in [Sockets -> SockRecord]
      <4>1. [sock[s] EXCEPT !.pc = "qidconf", !.prog = s] \in SockRecord
        BY <3>1 DEF SockRecord, PcSet
      <4>2. sock' = [sock EXCEPT ![s] = [sock[s] EXCEPT !.pc = "qidconf", !.prog = s]]
        BY <2>1, <3>1
      <4> QED
        BY <3>1, <4>1, <4>2
    <3> QED
      BY <2>1, <3>1, <3>2 DEF SockRecord
  <2>3. /\ prog' \in [Sockets -> ProgRecord]
        /\ \A q \in NicQueues : ~prog'[s].qidconf[q]
    BY <2>1 DEF SocketInv, TypeInv, ProgRecord
  <2>4. /\ \A t \in Sockets : (Active(t)' <=> Active(t)) /\ (Bound(t)' <=> Bound(t))
        /\ \A t \in Sockets : t # s => (Joined(t)' <=> Joined(t))
    BY <1>1, <2>2 DEF Active, Bound, Joined, Ended
  <2>5. calm => \A t \in Sockets : ~Joined(t) /\ (t # s => sock[t].pc # "load")
    <3>1. calm => link = None
      BY <1>1 DEF SocketInv, OneProgram
    <3>2. calm => \A t \in Sockets : Joined(t) => sock[t].prog = None
      BY <3>1 DEF SocketInv, OneProgram
    <3> QED
      BY <1>1, <3>2 DEF SocketInv, OneProgram, Joined
  <2>6. TypeInv'
    BY <1>1, <2>1, <2>2, <2>3 DEF SocketInv, TypeInv
  <2>7. HoldsUmem'
    BY <2>1, <2>2, <2>4 DEF SocketInv, HoldsUmem
  <2>8. HoldsQueue'
    BY <2>1, <2>2, <2>4 DEF SocketInv, HoldsQueue
  <2>9. KnowsProg'
    BY <2>2, SocketAssumption DEF SocketInv, KnowsProg
  <2>10. OneProgram'
    BY <1>1, <2>1, <2>2, <2>4, <2>5 DEF OneProgram
  <2>11. Entered'
    <3>1. calm => \A t \in Sockets : ~(sock'[t].pc = "xsks" \/ (sock'[t].pc = "live" /\ sock'[t].prog # None))
      BY <2>2, <2>5, SocketAssumption DEF Joined, SocketInv, KnowsProg
    <3> QED
      BY <1>1, <3>1 DEF Entered
  <2>12. SetEntryHasSocket'
    BY <2>1, <2>3 DEF SetEntryHasSocket
  <2> QED
    BY <2>6, <2>7, <2>8, <2>9, <2>10, <2>11, <2>12 DEF SocketInv
<1> QED
  BY <1>2, <1>3

\* A step that sets one entry of the program it knows, and goes on.
LEMMA EnterInv ==
    ASSUME SocketInv, NEW s \in Sockets,
           sock[s].prog \in Sockets, umem' = umem, link' = link, calm' = calm,
           \/ /\ sock[s].pc = "qidconf"
              /\ sock' = [sock EXCEPT ![s].pc = "xsks"]
              /\ prog' = [prog EXCEPT ![sock[s].prog].qidconf[sock[s].queue] = TRUE]
           \/ /\ sock[s].pc = "xsks"
              /\ sock' = [sock EXCEPT ![s].pc = "live"]
              /\ prog' = [prog EXCEPT ![sock[s].prog].xsks[sock[s].queue] = s]
    PROVE  SocketInv'
<1> DEFINE p == sock[s].prog
           q == sock[s].queue
<1>1. Active(s) /\ Bound(s) /\ Joined(s) /\ q \in NicQueues /\ p \in Sockets
  BY SocketAssumption DEF Active, Bound, Joined, Ended, SocketInv, HoldsUmem
<1>2. /\ sock' \in [Sockets -> SockRecord]
      /\ \/ sock[s].pc = "qidconf" /\ sock'[s].pc = "xsks"
         \/ sock[s].pc = "xsks" /\ sock'[s].pc = "live"
      /\ \A t \in Sockets : sock'[t].umem = sock[t].umem /\ sock'[t].queue = sock[t].queue
                             /\ sock'[t].prog = sock[t].prog
      /\ \A t \in Sockets : t # s => sock'[t] = sock[t]
  BY DEF SocketInv, TypeInv, SockRecord, PcSet, Ended
<1>3. /\ prog' \in [Sockets -> ProgRecord]
      /\ \A r \in NicQueues : r # q => /\ prog'[p].qidconf[r] = prog[p].qidconf[r]
                                        /\ prog'[p].xsks[r] = prog[p].xsks[r]
      /\ sock[s].pc = "qidconf" => prog'[p].qidconf[q]
      /\ sock[s].pc = "xsks" => prog'[p].qidconf[q] = prog[p].qidconf[q] /\ prog'[p].xsks[q] = s
  <2>1. prog \in [Sockets -> ProgRecord] /\ prog[p] \in ProgRecord
    BY <1>1 DEF SocketInv, TypeInv
  <2>2. CASE sock[s].pc = "qidconf"
    <3> DEFINE P == prog[p]
               P1 == prog'[p]
    <3>1. P.qidconf \in [NicQueues -> BOOLEAN] /\ P.xsks \in [NicQueues -> Sockets \cup {None}]
      BY <2>1 DEF ProgRecord
    <3>2. /\ P1 = [qidconf |-> [P.qidconf EXCEPT ![q] = TRUE], xsks |-> P.xsks]
          /\ prog' = [prog EXCEPT ![p] = P1]
      <4>1. prog' = [prog EXCEPT ![p].qidconf[q] = TRUE]
        BY <2>2
      <4>2. P1 = [qidconf |-> [P.qidconf EXCEPT ![q] = TRUE], xsks |-> P.xsks]
        BY <1>1, <2>1, <4>1 DEF ProgRecord
      <4>3. prog' = [prog EXCEPT ![p] = P1]
        BY <1>1, <2>1, <4>1
      <4> QED
        BY <4>2, <4>3
    <3>3. /\ P1 \in ProgRecord /\ P1.xsks = P.xsks /\ P1.qidconf[q] = TRUE
          /\ \A r \in NicQueues : r # q => P1.qidconf[r] = P.qidconf[r]
      <4> HIDE DEF P, P1, p, q
      <4>1. [P.qidconf EXCEPT ![q] = TRUE] \in [NicQueues -> BOOLEAN]
        BY <3>1
      <4> QED
        BY <1>1, <3>1, <3>2, <4>1 DEF ProgRecord
    <3> QED
      BY <2>1, <2>2, <3>2, <3>3
  <2>3. CASE sock[s].pc = "xsks"
    <3>1. prog'[p] = [prog[p] EXCEPT !.xsks[q] = s] /\ prog' = [prog EXCEPT ![p] = prog'[p]]
      BY <1>1, <2>1, <2>3
    <3> HIDE DEF p, q
    <3>2. /\ prog'[p] \in ProgRecord /\ prog'[p].qidconf = prog[p].qidconf /\ prog'[p].xsks[q] = s
          /\ \A r \in NicQueues : r # q => prog'[p].xsks[r] = prog[p].xsks[r]
      BY <1>1, <2>1, <3>1 DEF ProgRecord
    <3> QED
      BY <2>1, <2>3, <3>1, <3>2
  <2> QED
    BY <1>2, <2>2, <2>3
<1>4. \A t \in Sockets : (Active(t)' <=> Active(t)) /\ (Bound(t)' <=> Bound(t)) /\ (Joined(t)' <=> Joined(t))
  BY <1>2 DEF Active, Bound, Joined, Ended
<1>5. calm => link = p
  BY <1>1 DEF SocketInv, OneProgram
<1>6. TypeInv'
  BY <1>2, <1>3 DEF SocketInv, TypeInv
<1>7. HoldsUmem' /\ HoldsQueue'
  <2>1. HoldsUmem'
    BY <1>2, <1>4 DEF SocketInv, HoldsUmem
  <2>2. HoldsQueue'
    BY <1>2, <1>4 DEF SocketInv, HoldsQueue
  <2> QED
    BY <2>1, <2>2
<1>8. KnowsProg'
  BY <1>1, <1>2 DEF SocketInv, KnowsProg
<1>9. OneProgram'
  BY <1>2, <1>4 DEF SocketInv, OneProgram
<1>10. Entered'
  <2> SUFFICES ASSUME calm, NEW t \in Sockets,
                      sock'[t].pc = "xsks" \/ (sock'[t].pc = "live" /\ sock'[t].prog # None)
               PROVE  /\ prog'[p].qidconf[sock'[t].queue]
                      /\ sock'[t].pc = "live" => prog'[p].xsks[sock'[t].queue] = t
    BY <1>5 DEF Entered
  <2>1. CASE t = s
    <3>1. sock[s].pc = "xsks" => prog[p].qidconf[q]
      BY <1>5 DEF SocketInv, Entered
    <3> QED
      BY <1>2, <1>3, <2>1, <3>1
  <2>2. CASE t # s
    <3>1. sock'[t] = sock[t] /\ Bound(t) /\ Active(t)
      BY <1>2, <2>2 DEF Bound, Active, Ended
    <3>2. sock[t].queue \in NicQueues /\ sock[t].queue # q
      BY <1>1, <2>2, <3>1, SocketAssumption DEF SocketInv, HoldsQueue, HoldsUmem
    <3>3. prog[p].qidconf[sock[t].queue] /\ (sock[t].pc = "live" => prog[p].xsks[sock[t].queue] = t)
      BY <1>5, <3>1 DEF SocketInv, Entered
    <3>4. /\ prog'[p].qidconf[sock[t].queue] = prog[p].qidconf[sock[t].queue]
          /\ prog'[p].xsks[sock[t].queue] = prog[p].xsks[sock[t].queue]
      BY <1>3, <3>2
    <3> QED
      BY <3>1, <3>3, <3>4
  <2> QED
    BY <2>1, <2>2
<1>11. SetEntryHasSocket'
  <2> SUFFICES ASSUME calm, NEW r \in NicQueues, prog'[p].qidconf[r], link = p
               PROVE  \E t \in Sockets : /\ sock'[t].queue = r /\ sock'[t].prog = p
                                         /\ sock'[t].pc \in {"xsks", "live"}
                                         /\ umem[sock'[t].umem].queue = r
    BY <1>5 DEF SetEntryHasSocket
  <2>1. CASE r = q
    BY <1>1, <1>2, <2>1 DEF SocketInv, HoldsQueue
  <2>2. CASE r # q
    <3>1. prog[p].qidconf[r]
      BY <1>3, <2>2
    <3>2. PICK t \in Sockets : /\ sock[t].queue = r /\ sock[t].prog = p
                               /\ sock[t].pc \in {"xsks", "live"}
                               /\ umem[sock[t].umem].queue = r
      BY <1>1, <3>1 DEF SocketInv, SetEntryHasSocket
    <3> QED
      BY <1>2, <2>2, <3>2
  <2> QED
    BY <2>1, <2>2
<1> QED
  BY <1>6, <1>7, <1>8, <1>9, <1>10, <1>11 DEF SocketInv

LEMMA KillInv ==
    ASSUME SocketInv, NEW s \in Sockets, Kill(s)
    PROVE  SocketInv'
<1> DEFINE u == sock[s].umem
<1>1. Active(s) /\ u \in Umems /\ ~calm' /\ calm' \in BOOLEAN /\ link' = link /\ prog' = prog
  BY DEF Kill, Active, Ended, SocketInv, HoldsUmem
<1>2. /\ sock' \in [Sockets -> SockRecord] /\ ~Active(s)' /\ ~Bound(s)'
      /\ sock'[s].pc = "deleted"
      /\ \A t \in Sockets : t # s => sock'[t] = sock[t]
  BY DEF Kill, SocketInv, TypeInv, SockRecord, PcSet, Active, Bound, Ended
<1>3. /\ umem' \in [Umems -> UmemRecord]
      /\ umem'[u].refcount = 0 /\ umem'[u].queue = None
      /\ \A v \in Umems : v # u => umem'[v] = umem[v]
  BY <1>1 DEF Kill, SocketInv, TypeInv, UmemRecord
<1>4. \A t \in Sockets : t # s => (Active(t)' <=> Active(t)) /\ (Bound(t)' <=> Bound(t)) /\ (Bound(t) => Active(t))
  BY <1>2 DEF Active, Bound, Ended
<1>5. \A t \in Sockets : t # s /\ Active(t) => sock[t].umem \in Umems /\ sock[t].umem # u
  BY <1>1 DEF SocketInv, HoldsUmem
<1>6. TypeInv'
  BY <1>1, <1>2, <1>3 DEF SocketInv, TypeInv
<1>7. HoldsUmem'
  <2>1. \A v \in Umems : umem'[v].refcount = 1 =>
           \E t \in Sockets : t # s /\ Active(t) /\ sock[t].umem = v
    BY <1>3 DEF SocketInv, HoldsUmem
  <2> QED
    BY <1>2, <1>3, <1>4, <1>5, <2>1 DEF SocketInv, HoldsUmem
<1>8. HoldsQueue'
  BY <1>2, <1>3, <1>4, <1>5 DEF SocketInv, HoldsQueue
<1>9. KnowsProg'
  BY <1>2 DEF SocketInv, KnowsProg
<1>10. OneProgram' /\ Entered' /\ SetEntryHasSocket'
  BY <1>1 DEF OneProgram, Entered, SetEntryHasSocket
<1> QED
  BY <1>6, <1>7, <1>8, <1>9, <1>10 DEF SocketInv

LEMMA DetachInv ==
    ASSUME SocketInv, Detach
    PROVE  SocketInv'
<1>1. umem' = umem /\ sock' = sock /\ prog' = prog /\ link' = None /\ ~calm' /\ calm' \in BOOLEAN
  BY DEF Detach
<1>2. \A s \in Sockets : Active(s)' = Active(s) /\ Bound(s)' = Bound(s)
  BY <1>1 DEF Active, Bound
<1>3. TypeInv' /\ KnowsProg'
  BY <1>1 DEF SocketInv, TypeInv, KnowsProg
<1>4. HoldsUmem' /\ HoldsQueue'
  BY <1>1, <1>2 DEF SocketInv, HoldsUmem, HoldsQueue
<1>5. OneProgram' /\ Entered' /\ SetEntryHasSocket'
  BY <1>1 DEF OneProgram, Entered, SetEntryHasSocket
<1> QED
  BY <1>3, <1>4, <1>5 DEF SocketInv

\* The inductive step: one case per action.
LEMMA StepInv == SocketInv /\ [SNext]_kvars => SocketInv'
<1> SUFFICES ASSUME SocketInv, [SNext]_kvars
             PROVE  SocketInv'
  OBVIOUS
<1>1. ASSUME NEW u \in Umems, UmemCreate(u) \/ UmemDelete(u) PROVE SocketInv'
  BY <1>1, UmemInv
<1>2. ASSUME NEW s \in Sockets, NEW u \in Umems, NEW q \in NicQueues, Start(s, u, q) PROVE SocketInv'
  BY <1>2, StartInv
<1>3. ASSUME NEW s \in Sockets, Bind(s) PROVE SocketInv'
  BY <1>3, BindInv
<1>4. ASSUME NEW s \in Sockets, Lookup(s) PROVE SocketInv'
  BY <1>4, LookupInv
<1>5. ASSUME NEW s \in Sockets, LoadProg(s) PROVE SocketInv'
  BY <1>5, LoadInv
<1>6. ASSUME NEW s \in Sockets, SetQidconf(s) PROVE SocketInv'
  <2>1. sock[s].pc = "qidconf" /\ Active(s) /\ link' = link /\ calm' = calm /\ calm \in BOOLEAN
    BY <1>6 DEF SetQidconf, Active, Ended, SocketInv, TypeInv
  <2>2. CASE Fail(s) /\ UNCHANGED prog
    BY <2>1, <2>2, ReleaseInv DEF Fail
  <2>3. CASE ~(Fail(s) /\ UNCHANGED prog)
    BY <1>6, <2>1, <2>3, EnterInv DEF SetQidconf
  <2> QED
    BY <2>2, <2>3
<1>7. ASSUME NEW s \in Sockets, SetXsks(s) PROVE SocketInv'
  <2>1. /\ sock[s].pc = "xsks" /\ Active(s) /\ link' = link /\ calm' = calm /\ calm \in BOOLEAN
        /\ sock[s].prog \in Sockets
    BY <1>7 DEF SetXsks, Active, Ended, SocketInv, TypeInv, KnowsProg
  <2>2. CASE Fail(s) /\ prog' = [prog EXCEPT ![sock[s].prog].qidconf[sock[s].queue] = FALSE]
    BY <2>1, <2>2, ReleaseInv DEF Fail
  <2>3. CASE ~(Fail(s) /\ prog' = [prog EXCEPT ![sock[s].prog].qidconf[sock[s].queue] = FALSE])
    BY <1>7, <2>1, <2>3, EnterInv DEF SetXsks
  <2> QED
    BY <2>2, <2>3
<1>8. ASSUME NEW s \in Sockets, Delete(s) PROVE SocketInv'
  <2>1. sock[s].pc = "live" /\ Active(s) /\ link' = link /\ calm' = calm /\ calm \in BOOLEAN
    BY <1>8 DEF Delete, Active, Ended, SocketInv, TypeInv
  <2>2. /\ sock' = [sock EXCEPT ![s].pc = "deleted"]
        /\ umem' = [umem EXCEPT ![sock[s].umem].refcount = @ - 1]
    BY <1>8 DEF Delete
  <2>3. CASE sock[s].prog \in Sockets
    <3>1. prog' = [prog EXCEPT ![sock[s].prog].qidconf[sock[s].queue] = FALSE]
      BY <1>8, <2>3 DEF Delete, ClearEntry
    <3> QED
      BY <2>1, <2>2, <2>3, <3>1, ReleaseInv
  <2>4. CASE sock[s].prog \notin Sockets
    <3>1. prog' = prog
      BY <1>8, <2>4 DEF Delete, ClearEntry
    <3> QED
      BY <2>1, <2>2, <2>4, <3>1, ReleaseInv
  <2> QED
    BY <2>3, <2>4
<1>9. ASSUME NEW s \in Sockets, Kill(s) PROVE SocketInv'
  BY <1>9, KillInv
<1>10. CASE Detach
  BY <1>10, DetachInv
<1>11. CASE UNCHANGED kvars
  <2>1. umem' = umem /\ sock' = sock /\ prog' = prog /\ link' = link /\ calm' = calm
    BY <1>11 DEF kvars
  <2>2. TypeInv' /\ KnowsProg' /\ Entered' /\ SetEntryHasSocket'
    BY <2>1 DEF SocketInv, TypeInv, KnowsProg, Entered, SetEntryHasSocket
  <2>3. HoldsUmem' /\ HoldsQueue'
    BY <2>1 DEF SocketInv, HoldsUmem, HoldsQueue, Active, Bound
  <2>4. OneProgram'
    BY <2>1 DEF SocketInv, OneProgram, Joined
  <2> QED
    BY <2>2, <2>3, <2>4 DEF SocketInv
<1> QED
  BY <1>1, <1>2, <1>3, <1>4, <1>5, <1>6, <1>7, <1>8, <1>9, <1>10, <1>11 DEF SNext

(***************************************************************************)
(* The theorems.                                                           *)
(***************************************************************************)
\* The inductive invariant of the sockets holds throughout: every socket under
\* way holds the one reference to its umem, a bound one is alone on its queue,
\* and, while nobody was killed or raced for the attaching, the sockets agree
\* on the attached program (xsk_socket__create, xsk_socket__delete).
THEOREM SocketSafe == SSpec => []SocketInv
  BY InitInv, StepInv, PTL DEF SSpec

\* RefcountExact for any number of sockets and umems: no path of
\* xsk_socket__create or xsk_socket__delete loses or doubles a reference.
THEOREM RefcountTheorem == SSpec => []RefcountExact
  BY SocketSafe, InvRefcount, PTL

\* SetEntryHasSocket for any number of sockets and queues: the qidconf_map of
\* the attached program names bound sockets only (xsk.c:265).
THEOREM EntryTheorem == SSpec => []SetEntryHasSocket
<1>1. SocketInv => SetEntryHasSocket
  BY DEF SocketInv
<1> QED
  BY <1>1, SocketSafe, PTL

\* SocketIsServed for any number of sockets and queues: a socket whose creation
\* returned keeps both its entries in the attached program
\* (xsk_update_bpf_maps), whatever the other sockets do.
THEOREM ServedTheorem == SSpec => []SocketIsServed
  BY SocketSafe, InvServed, PTL

=============================================================================
