---------------------------- MODULE StatsProofs ----------------------------
(***************************************************************************)
(* Theorems about Stats: xdp_stats beside any runs of xdp_loader, for any  *)
(* number of CPUs, of actions and of packets, and any build of the object  *)
(* that is loaded.                                                         *)
(***************************************************************************)
EXTENDS Stats, LoaderProofs, WellFoundedInduction

(***************************************************************************)
(* Induction, for sets.                                                    *)
(***************************************************************************)
\* A set of naturals that is not empty has a least element.
LEMMA LeastNat ==
    ASSUME NEW T \in SUBSET Nat, T # {}
    PROVE  \E x \in T : \A y \in T : x <= y
<1>1. PICK x \in T : \A y \in T : ~(<<y, x>> \in OpToRel(<, Nat))
  <2>1. T \subseteq Nat
    OBVIOUS
  <2> HIDE DEF OpToRel
  <2> QED
    BY <2>1, WFMin, NatLessThanWellFounded
<1>2. \A y \in T : ~(y < x)
  BY <1>1 DEF OpToRel
<1>3. x \in Nat /\ \A y \in T : y \in Nat
  OBVIOUS
<1>4. \A y \in T : x <= y
  BY <1>2, <1>3
<1> QED
  BY <1>4

\* A set with 0 and with every successor of a member has all naturals.
LEMMA NatSetInduction ==
    ASSUME NEW S, 0 \in S, \A n \in Nat : n \in S => n + 1 \in S
    PROVE  Nat \subseteq S
<1> SUFFICES ASSUME Nat \ S # {} PROVE FALSE
  OBVIOUS
<1>1. PICK x \in Nat \ S : \A y \in Nat \ S : x <= y
  BY LeastNat
<1>2. x # 0
  OBVIOUS
<1>3. x - 1 \in Nat /\ x - 1 \in S
  BY <1>1, <1>2
<1> QED
  BY <1>3

(***************************************************************************)
(* Sums over the CPUs.  g is the function of the partial sums of x.        *)
(***************************************************************************)
IsSum(g, x) ==
  /\ g \in [0 .. NCpus -> Nat] /\ g[0] = 0
  /\ \A n \in 1 .. NCpus : g[n] = g[n - 1] + x[n]

\* Every function has its partial sums.
LEMMA SumExists ==
  ASSUME NEW x \in [Cpu -> Nat]
  PROVE  \E g : IsSum(g, x)
<1> DEFINE Upto(n) == \E g \in [0 .. n -> Nat] :
                        g[0] = 0 /\ \A i \in 1 .. n : g[i] = g[i - 1] + x[i]
           S == {n \in Nat : n <= NCpus => Upto(n)}
<1>0. NCpus \in Nat
  BY StatsAssumption
<1>1. 0 \in S
  <2> DEFINE g == [i \in 0 .. 0 |-> 0]
  <2>1. g \in [0 .. 0 -> Nat] /\ g[0] = 0 /\ \A i \in 1 .. 0 : g[i] = g[i - 1] + x[i]
    OBVIOUS
  <2> HIDE DEF g
  <2>2. Upto(0)
    BY <2>1
  <2> HIDE DEF Upto
  <2> QED
    BY <2>2
<1>2. ASSUME NEW n \in Nat, n \in S
      PROVE  n + 1 \in S
  <2> SUFFICES ASSUME n + 1 <= NCpus PROVE Upto(n + 1)
    <3> HIDE DEF Upto
    <3> QED
      OBVIOUS
  <2>1. n <= NCpus /\ n + 1 \in Cpu
    BY <1>0 DEF Cpu
  <2>2. PICK g \in [0 .. n -> Nat] : g[0] = 0 /\ \A i \in 1 .. n : g[i] = g[i - 1] + x[i]
    BY <1>2, <2>1
  <2> DEFINE h == [i \in 0 .. n + 1 |-> IF i = n + 1 THEN g[n] + x[n + 1] ELSE g[i]]
  <2>3. g[n] \in Nat /\ x[n + 1] \in Nat
    BY <2>1
  <2>4. h \in [0 .. n + 1 -> Nat]
    BY <2>3
  <2>5. h[0] = 0 /\ h[n + 1] = g[n] + x[n + 1] /\ \A i \in 0 .. n : h[i] = g[i]
    BY <2>2
  <2> HIDE DEF h
  <2>6. ASSUME NEW i \in 1 .. n + 1
        PROVE  h[i] = h[i - 1] + x[i]
    <3>1. CASE i = n + 1
      <4>1. i - 1 = n /\ n \in 0 .. n
        BY <3>1
      <4> QED
        BY <3>1, <4>1, <2>5
    <3>2. CASE i \in 1 .. n
      <4>1. i \in 0 .. n /\ i - 1 \in 0 .. n
        BY <3>2
      <4> QED
        BY <3>2, <4>1, <2>2, <2>5
    <3>3. i = n + 1 \/ i \in 1 .. n
      OBVIOUS
    <3> QED
      BY <3>1, <3>2, <3>3
  <2> QED
    BY <2>4, <2>5, <2>6
<1>3. NCpus \in S
  <2> HIDE DEF S
  <2>1. Nat \subseteq S
    BY <1>1, <1>2, NatSetInduction
  <2> QED
    BY <1>0, <2>1
<1>4. Upto(NCpus)
  <2> HIDE DEF Upto
  <2> QED
    BY <1>0, <1>3
<1> QED
  BY <1>4 DEF IsSum

\* A field of the records of an action, CPU by CPU.
Column(r, a, field) == [c \in Cpu |-> count[r][a][c][field]]

\* What Total is: its sum is defined by recursion, and the equation has a
\* solution.
LEMMA TotalIsSum ==
  ASSUME NEW r, NEW a, NEW field, Column(r, a, field) \in [Cpu -> Nat]
  PROVE  \E g : IsSum(g, Column(r, a, field)) /\ Total(r, a, field) = g[NCpus]
<1> DEFINE x == [c \in Cpu |-> count[r][a][c][field]]
           F(f) == [c \in 0 .. NCpus |-> IF c = 0 THEN 0 ELSE f[c - 1] + count[r][a][c][field]]
           sum == CHOOSE f : f = F(f)
<1>0. NCpus \in Nat
  BY StatsAssumption
<1>1. x \in [Cpu -> Nat]
  BY DEF Column
<1>2. PICK g : IsSum(g, x)
  <2> HIDE DEF x
  <2> QED
    BY <1>1, SumExists
<1>3. g = F(g)
  BY <1>0, <1>2 DEF IsSum, Cpu
<1>4. sum = F(sum)
  <2> HIDE DEF F
  <2> QED
    BY <1>3
<1>5. Total(r, a, field) = sum[NCpus]
  BY DEF Total
<1>6. DOMAIN sum = 0 .. NCpus
  BY <1>4
<1> HIDE DEF sum
<1>7. sum[0] = 0
  BY <1>0, <1>4
<1>8. ASSUME NEW n \in 1 .. NCpus
      PROVE  n \in Cpu /\ n - 1 \in 0 .. NCpus /\ sum[n] = sum[n - 1] + x[n]
  <2>1. n \in Cpu /\ n \in 0 .. NCpus /\ n - 1 \in 0 .. NCpus /\ n # 0
    BY <1>0 DEF Cpu
  <2> QED
    BY <2>1, <1>4
<1>9. \A n \in 0 .. NCpus : sum[n] \in Nat
  <2> DEFINE S == {n \in Nat : n <= NCpus => sum[n] \in Nat}
  <2>1. 0 \in S
    BY <1>7
  <2>2. ASSUME NEW n \in Nat, n \in S
        PROVE  n + 1 \in S
    <3> SUFFICES ASSUME n + 1 <= NCpus PROVE sum[n + 1] \in Nat
      OBVIOUS
    <3>1. n + 1 \in 1 .. NCpus /\ (n + 1) - 1 = n /\ n <= NCpus
      BY <1>0
    <3>2. sum[n] \in Nat
      BY <2>2, <3>1
    <3>3. sum[n + 1] = sum[n] + x[n + 1] /\ x[n + 1] \in Nat
      <4> HIDE DEF x
      <4> QED
        BY <3>1, <1>1, <1>8
    <3> HIDE DEF x
    <3> QED
      BY <3>2, <3>3
  <2> HIDE DEF S
  <2>3. Nat \subseteq S
    BY <2>1, <2>2, NatSetInduction
  <2> QED
    BY <2>3, <1>0 DEF S
<1>10. sum \in [0 .. NCpus -> Nat]
  <2>1. sum = [n \in 0 .. NCpus |-> sum[n]]
    <3> DEFINE e(n) == IF n = 0 THEN 0 ELSE sum[n - 1] + count[r][a][n][field]
    <3>1. sum = [n \in 0 .. NCpus |-> e(n)]
      BY <1>4
    <3> HIDE DEF e
    <3> QED
      BY <3>1
  <2> QED
    BY <2>1, <1>9
<1>11. IsSum(sum, x)
  <2> HIDE DEF x
  <2> QED
    BY <1>7, <1>8, <1>10 DEF IsSum
<1> QED
  BY <1>5, <1>11 DEF Column

\* Partial sums grow with what is added up.
LEMMA SumMono ==
  ASSUME NEW g, NEW x, IsSum(g, x), x \in [Cpu -> Nat],
         NEW h, NEW y, IsSum(h, y), y \in [Cpu -> Nat],
         NEW m \in 0 .. NCpus, \A c \in 1 .. m : x[c] <= y[c]
  PROVE  g[m] <= h[m]
<1> DEFINE S == {n \in Nat : n <= m => g[n] <= h[n]}
<1>0. NCpus \in Nat /\ m \in Nat /\ m <= NCpus
  BY StatsAssumption
<1>1. 0 \in S
  BY DEF IsSum
<1>2. ASSUME NEW n \in Nat, n \in S
      PROVE  n + 1 \in S
  <2> SUFFICES ASSUME n + 1 <= m PROVE g[n + 1] <= h[n + 1]
    OBVIOUS
  <2>1. /\ n + 1 \in 1 .. NCpus /\ n + 1 \in 1 .. m /\ (n + 1) - 1 = n /\ n <= m
        /\ n \in 0 .. NCpus /\ n + 1 \in Cpu
    BY <1>0 DEF Cpu
  <2>2. g[n + 1] = g[n] + x[n + 1] /\ h[n + 1] = h[n] + y[n + 1]
    BY <2>1 DEF IsSum
  <2>3. g[n] <= h[n] /\ x[n + 1] <= y[n + 1]
    BY <1>2, <2>1
  <2>4. g[n] \in Nat /\ h[n] \in Nat /\ x[n + 1] \in Nat /\ y[n + 1] \in Nat
    BY <2>1 DEF IsSum
  <2> QED
    BY <2>2, <2>3, <2>4
<1> HIDE DEF S
<1>3. Nat \subseteq S
  BY <1>1, <1>2, NatSetInduction
<1> QED
  BY <1>0, <1>3 DEF S

(***************************************************************************)
(* A reading.  rec is a sum of values x that the CPUs had when they were   *)
(* read, and part the sum of what the next reading y has got from the      *)
(* first n of them; v are the values now.                                  *)
(***************************************************************************)
Explained(rec, part, v, n) ==
  \E x, y \in [Cpu -> Nat] :
    /\ \A c \in Cpu : x[c] <= y[c] /\ y[c] <= v[c]
    /\ \E g, h : /\ IsSum(g, x) /\ rec = g[NCpus]
                 /\ IsSum(h, y) /\ part = h[n]

\* Before anything is read.
LEMMA ExplainedStart ==
  ASSUME NEW v \in [Cpu -> Nat]
  PROVE  Explained(0, 0, v, 0)
<1> DEFINE x == [c \in Cpu |-> 0]
           g == [n \in 0 .. NCpus |-> 0]
<1>0. NCpus \in Nat
  BY StatsAssumption
<1>1. x \in [Cpu -> Nat] /\ \A c \in Cpu : x[c] <= x[c] /\ x[c] <= v[c]
  OBVIOUS
<1>2. IsSum(g, x) /\ g[NCpus] = 0 /\ g[0] = 0
  BY <1>0 DEF IsSum, Cpu
<1> HIDE DEF x, g
<1> QED
  BY <1>1, <1>2 DEF Explained

\* The CPUs count on.
LEMMA ExplainedMore ==
  ASSUME NEW rec, NEW part, NEW n, NEW v \in [Cpu -> Nat], NEW w \in [Cpu -> Nat],
         \A c \in Cpu : v[c] <= w[c], Explained(rec, part, v, n)
  PROVE  Explained(rec, part, w, n)
<1>1. PICK x \in [Cpu -> Nat], y \in [Cpu -> Nat] :
         /\ \A c \in Cpu : x[c] <= y[c] /\ y[c] <= v[c]
         /\ \E g, h : IsSum(g, x) /\ rec = g[NCpus] /\ IsSum(h, y) /\ part = h[n]
  BY DEF Explained
<1>2. \A c \in Cpu : y[c] <= w[c]
  <2> TAKE c \in Cpu
  <2>1. y[c] \in Nat /\ v[c] \in Nat /\ w[c] \in Nat
    OBVIOUS
  <2> QED
    BY <2>1, <1>1
<1> QED
  BY <1>1, <1>2 DEF Explained

\* The value of one more CPU is added.
LEMMA ExplainedRead ==
  ASSUME NEW rec, NEW part, NEW v \in [Cpu -> Nat], NEW c \in Cpu,
         Explained(rec, part, v, c - 1)
  PROVE  Explained(rec, part + v[c], v, c)
<1>0. NCpus \in Nat /\ c \in 1 .. NCpus /\ c - 1 \in 0 .. NCpus
  BY StatsAssumption DEF Cpu
<1>1. PICK x \in [Cpu -> Nat], y \in [Cpu -> Nat] :
         /\ \A d \in Cpu : x[d] <= y[d] /\ y[d] <= v[d]
         /\ \E g, h : IsSum(g, x) /\ rec = g[NCpus] /\ IsSum(h, y) /\ part = h[c - 1]
  BY DEF Explained
<1>2. PICK g, h : IsSum(g, x) /\ rec = g[NCpus] /\ IsSum(h, y) /\ part = h[c - 1]
  BY <1>1
<1> DEFINE z == [y EXCEPT ![c] = v[c]]
<1>3. z \in [Cpu -> Nat] /\ z[c] = v[c] /\ \A d \in Cpu : d # c => z[d] = y[d]
  OBVIOUS
<1> HIDE DEF z
<1>4. \A d \in Cpu : x[d] <= z[d] /\ z[d] <= v[d]
  <2> TAKE d \in Cpu
  <2>1. x[d] \in Nat /\ y[d] \in Nat /\ v[d] \in Nat /\ x[d] <= y[d] /\ y[d] <= v[d]
    BY <1>1
  <2> QED
    BY <2>1, <1>3
<1>5. PICK k : IsSum(k, z)
  BY <1>3, SumExists
<1>6. k[c - 1] = h[c - 1]
  <2> DEFINE m == c - 1
  <2>1. \A d \in 1 .. m : z[d] = y[d] /\ z[d] \in Nat
    BY <1>0, <1>3 DEF Cpu
  <2>2. \A d \in 1 .. m : z[d] <= y[d] /\ y[d] <= z[d]
    BY <2>1
  <2>3. m \in 0 .. NCpus
    BY <1>0
  <2> HIDE DEF m
  <2>4. k[m] <= h[m] /\ h[m] <= k[m]
    BY <2>2, <2>3, <1>2, <1>3, <1>5, SumMono
  <2>5. k[m] \in Nat /\ h[m] \in Nat
    BY <2>3, <1>2, <1>5 DEF IsSum
  <2>6. k[m] = h[m]
    BY <2>4, <2>5
  <2> QED
    BY <2>6 DEF m
<1>7. k[c] = part + v[c]
  BY <1>0, <1>2, <1>3, <1>5, <1>6 DEF IsSum
<1> QED
  BY <1>2, <1>3, <1>4, <1>5, <1>7 DEF Explained

\* All CPUs have been read: the reading replaces the last one.
LEMMA ExplainedTake ==
  ASSUME NEW rec, NEW part, NEW v \in [Cpu -> Nat], Explained(rec, part, v, NCpus)
  PROVE  Explained(part, 0, v, 0) /\ rec <= part
<1>0. NCpus \in Nat /\ NCpus \in 0 .. NCpus
  BY StatsAssumption
<1>1. PICK x \in [Cpu -> Nat], y \in [Cpu -> Nat] :
         /\ \A d \in Cpu : x[d] <= y[d] /\ y[d] <= v[d]
         /\ \E g, h : IsSum(g, x) /\ rec = g[NCpus] /\ IsSum(h, y) /\ part = h[NCpus]
  BY DEF Explained
<1>2. PICK g, h : IsSum(g, x) /\ rec = g[NCpus] /\ IsSum(h, y) /\ part = h[NCpus]
  BY <1>1
<1>3. g[NCpus] <= h[NCpus]
  BY <1>0, <1>1, <1>2, SumMono DEF Cpu
<1>4. h[0] = 0 /\ \A d \in Cpu : y[d] <= y[d]
  BY <1>2 DEF IsSum
<1> QED
  BY <1>1, <1>2, <1>3, <1>4 DEF Explained

\* A reading is not more than what was counted.
LEMMA ExplainedBound ==
  ASSUME NEW rec, NEW part, NEW n, NEW v \in [Cpu -> Nat], Explained(rec, part, v, n),
         NEW k, IsSum(k, v)
  PROVE  rec <= k[NCpus]
<1>0. NCpus \in Nat /\ NCpus \in 0 .. NCpus
  BY StatsAssumption
<1>1. PICK x \in [Cpu -> Nat], y \in [Cpu -> Nat] :
         /\ \A d \in Cpu : x[d] <= y[d] /\ y[d] <= v[d]
         /\ \E g, h : IsSum(g, x) /\ rec = g[NCpus] /\ IsSum(h, y) /\ part = h[n]
  BY DEF Explained
<1>2. PICK g : IsSum(g, x) /\ rec = g[NCpus]
  BY <1>1
<1>3. \A d \in Cpu : x[d] <= v[d]
  <2> TAKE d \in Cpu
  <2>1. x[d] \in Nat /\ y[d] \in Nat /\ v[d] \in Nat
    OBVIOUS
  <2> QED
    BY <2>1, <1>1
<1> QED
  BY <1>0, <1>2, <1>3, SumMono DEF Cpu

(***************************************************************************)
(* The invariant.  xdp_stats keeps the map it opened: that of a run that   *)
(* has started, whose configuration does not change any more.              *)
(***************************************************************************)
Fields == {"rx_packets", "rx_bytes"}

Datarec == [rx_packets : Nat, rx_bytes : Nat]

CountType ==
  /\ count \in [Runs -> [Act -> [Cpu -> Datarec]]]
  /\ busy \in [Cpu -> [run : Runs, act : Act] \union {None}]

Polling == {"collect", "read", "print", "sleep"}

ReaderInv ==
  /\ DOMAIN reader = {"st", "fd", "since", "record", "prev", "key", "at", "sum",
                      "moved", "period", "polls", "shown"}
  /\ reader.st \in Polling \union {"open", "check", "EXIT_FAIL_BPF", "EXIT_FAIL"}
  /\ reader.fd \in Runs \union {None}
  /\ reader.record \in [Act -> Datarec] /\ reader.prev \in [Act -> Datarec]
  /\ reader.key \in Act /\ reader.at \in 0 .. 2 * NCpus /\ reader.sum \in Datarec
  /\ reader.st # "read" => reader.at = 0 /\ reader.sum = Zero
  /\ reader.st = "open" => reader.record = NoRecord /\ reader.prev = NoRecord
  /\ reader.st \in Polling \union {"check"} => reader.fd \in Runs
  /\ reader.fd \in Runs => pc[reader.fd] # "new"
  /\ reader.st \in Polling => Entries[cfg[reader.fd].file] = ActionMax

\* The map that is watched was that of the last run, which has finished.
WatchInv ==
  Calm /\ reader.since # None =>
    /\ reader.since \in Runs /\ pc[reader.since] # "new" /\ ~Running(reader.since)
    /\ reader.since = last => \A s \in Slots : hook[s] \in {None, reader.fd}

\* CPUs whose field has been added up when `at` words have been read.
Done(at, field) == IF field = "rx_packets" THEN (at + 1) \div 2 ELSE at \div 2

ValueInv(a, field) ==
  LET now == a = reader.key
  IN  /\ reader.prev[a][field] <= reader.record[a][field]
      /\ Explained(reader.record[a][field], IF now THEN reader.sum[field] ELSE 0,
                   Column(reader.fd, a, field), IF now THEN Done(reader.at, field) ELSE 0)

ReadingInv == reader.fd \in Runs => \A a \in Act, field \in Fields : ValueInv(a, field)

(***************************************************************************)
(* Steps of xdp_loader.                                                    *)
(***************************************************************************)
\* Stats adds nothing to what xdp_loader does.
LEMMA LoaderGoesOn == SSpec => Spec
<1>1. SInit => Init
  BY DEF SInit
<1>2. [SNext]_allvars => [Next]_vars
  BY DEF SNext, allvars, stats, vars, CountPacket, CountBytes, ReaderStep, OpenMap, CheckMap,
         GetTime, ReadWord, Collected, StatsPrint, Sleep
<1> QED
  BY <1>1, <1>2, PTL DEF SSpec, Spec

LoaderInv == TypeOK /\ CalmInv /\ OwnInv /\ PinnedIsAttached

LEMMA LoaderKept == SSpec => []LoaderInv
  BY LoaderGoesOn, LoaderTypeCorrect, CalmKept, OwnKept, PinnedMapIsAttached, PTL DEF LoaderInv

\* A step of a run under way moves no other run.
LEMMA StepMoves ==
  ASSUME TypeOK, NEW r \in Runs, Step(r)
  PROVE  /\ Running(r) /\ last' = last /\ cfg' = cfg /\ pc'[r] # "new"
         /\ \A q \in Runs : q # r => pc'[q] = pc[q]
<1>1. pc \in [Runs -> Steps \union Exits \union {"new"}]
  BY DEF TypeOK
<1>2. CASE Load(r)
  BY <1>1, <1>2 DEF Load, Goto, Running, Steps
<1>3. CASE Attach(r)
  BY <1>1, <1>3 DEF Attach, Attached, AttachFailed, Goto, Running, Steps
<1>4. CASE DetachOpposite(r)
  BY <1>1, <1>4 DEF DetachOpposite, AttachFailed, Goto, Running, Steps
<1>5. CASE Reattach(r)
  BY <1>1, <1>5 DEF Reattach, Attached, AttachFailed, Goto, Running, Steps
<1>6. CASE Access(r)
  BY <1>1, <1>6 DEF Access, Goto, Running, Steps
<1>7. CASE Unpin(r)
  BY <1>1, <1>7 DEF Unpin, Goto, Running, Steps
<1>8. CASE Pin(r)
  BY <1>1, <1>8 DEF Pin, Goto, Running, Steps
<1>9. CASE Rollback(r)
  BY <1>1, <1>9 DEF Rollback, Goto, Running, Steps
<1>10. CASE Query(r)
  BY <1>1, <1>10 DEF Query, Goto, Running, Steps
<1>11. CASE Detach(r)
  BY <1>1, <1>11 DEF Detach, AttachFailed, Goto, Running, Steps
<1> QED
  BY <1>2, <1>3, <1>4, <1>5, <1>6, <1>7, <1>8, <1>9, <1>10, <1>11 DEF Step

\* A run starts once, and its configuration stays.
LEMMA StartedStays ==
  ASSUME TypeOK, [Next]_vars, NEW q \in Runs, pc[q] # "new"
  PROVE  pc'[q] # "new" /\ cfg'[q] = cfg[q]
<1>1. ASSUME NEW r \in Runs, Start(r)
      PROVE  pc'[q] # "new" /\ cfg'[q] = cfg[q]
  <2>1. q # r /\ pc \in [Runs -> Steps \union Exits \union {"new"}]
    BY <1>1 DEF Start, TypeOK
  <2>2. pc'[q] = pc[q]
    BY <2>1, <1>1 DEF Start, Goto
  <2>3. cfg'[q] = cfg[q]
    BY <2>1, <1>1 DEF Start, TypeOK
  <2> QED
    BY <2>2, <2>3
<1>2. ASSUME NEW r \in Runs, Step(r)
      PROVE  pc'[q] # "new" /\ cfg'[q] = cfg[q]
  BY <1>2, StepMoves
<1>3. ASSUME NEW r \in Runs, UnlinkFails(r) \/ Kill(r)
      PROVE  pc'[q] # "new" /\ cfg'[q] = cfg[q]
  BY <1>3 DEF UnlinkFails, Kill, Goto, TypeOK
<1>4. CASE UNCHANGED vars
  BY <1>4 DEF vars
<1> QED
  BY <1>1, <1>2, <1>3, <1>4 DEF Next

LEMMA LoaderWatch ==
  ASSUME LoaderInv, WatchInv, [Next]_vars, reader' = reader
  PROVE  WatchInv'
<1> SUFFICES ASSUME Calm', reader.since # None
             PROVE  /\ reader.since \in Runs /\ pc'[reader.since] # "new"
                    /\ pc'[reader.since] \notin Steps
                    /\ reader.since = last' => \A s \in Slots : hook'[s] \in {None, reader.fd}
  BY DEF WatchInv, Running, Calm
<1> DEFINE q == reader.since
<1>1. ASSUME NEW r \in Runs, Start(r)
      PROVE  /\ q \in Runs /\ pc'[q] # "new" /\ pc'[q] \notin Steps
             /\ q = last' => \A s \in Slots : hook'[s] \in {None, reader.fd}
  <2>1. last' = r /\ Calm /\ pc[r] = "new"
    BY <1>1 DEF Start, Calm
  <2>2. q \in Runs /\ pc[q] # "new" /\ pc[q] \notin Steps
    BY <2>1 DEF WatchInv, Running
  <2>3. pc'[q] = pc[q] /\ q # r
    BY <1>1, <2>1, <2>2 DEF Start, Goto, LoaderInv, TypeOK
  <2> QED
    BY <2>1, <2>2, <2>3
<1>2. ASSUME NEW r \in Runs, Step(r)
      PROVE  /\ q \in Runs /\ pc'[q] # "new" /\ pc'[q] \notin Steps
             /\ q = last' => \A s \in Slots : hook'[s] \in {None, reader.fd}
  <2>1. /\ Running(r) /\ last' = last
        /\ \A p \in Runs : p # r => pc'[p] = pc[p]
    BY <1>2, StepMoves DEF LoaderInv
  <2>2. Calm /\ r = last
    BY <2>1 DEF Calm, LoaderInv, CalmInv
  <2>3. q \in Runs /\ pc[q] # "new" /\ ~Running(q)
    BY <2>2 DEF WatchInv
  <2>4. q # r /\ pc'[q] = pc[q]
    BY <2>1, <2>3
  <2> QED
    BY <2>1, <2>2, <2>3, <2>4 DEF Running
<1>3. ASSUME NEW r \in Runs, UnlinkFails(r) \/ Kill(r) PROVE FALSE
  BY <1>3 DEF UnlinkFails, Kill, Calm
<1>4. CASE UNCHANGED vars
  BY <1>4 DEF vars, WatchInv, Running, Calm
<1> QED
  BY <1>1, <1>2, <1>3, <1>4 DEF Next

LEMMA LoaderReader ==
  ASSUME LoaderInv, ReaderInv, [Next]_vars, reader' = reader
  PROVE  ReaderInv'
<1>1. reader.fd \in Runs => pc'[reader.fd] # "new" /\ cfg'[reader.fd] = cfg[reader.fd]
  BY StartedStays DEF ReaderInv, LoaderInv
<1> QED
  BY <1>1 DEF ReaderInv, Polling

(***************************************************************************)
(* Steps of the CPUs: the counters grow.                                   *)
(***************************************************************************)
LEMMA ColumnType ==
  ASSUME CountType, NEW r \in Runs, NEW a \in Act, NEW field \in Fields
  PROVE  Column(r, a, field) \in [Cpu -> Nat]
<1>1. \A c \in Cpu : count[r][a][c] \in Datarec
  BY DEF CountType
<1>2. \A c \in Cpu : count[r][a][c][field] \in Nat
  BY <1>1 DEF Datarec, Fields
<1> QED
  BY <1>2 DEF Column

LEMMA CountPacketGrows ==
  ASSUME LoaderInv, CountType, NEW c \in Cpu, CountPacket(c)
  PROVE  /\ CountType'
         /\ \A q \in Runs, b \in Act, d \in Cpu, field \in Fields :
              count[q][b][d][field] <= count'[q][b][d][field]
<1>1. PICK s \in Slots, a \in Sections :
        /\ hook[s] # None
        /\ busy' = [busy EXCEPT ![c] = [run |-> hook[s], act |-> a]]
        /\ count' = [count EXCEPT ![hook[s]][a][c].rx_packets = @ + 1]
  BY DEF CountPacket
<1> DEFINE r == hook[s]
<1>2. r \in Runs /\ a \in Act
  BY <1>1, StatsAssumption DEF LoaderInv, TypeOK
<1> HIDE DEF r
<1>3. busy' = [busy EXCEPT ![c] = [run |-> r, act |-> a]]
  BY <1>1 DEF r
<1>4. count' = [count EXCEPT ![r][a][c].rx_packets = @ + 1]
  BY <1>1 DEF r
<1>5. busy' \in [Cpu -> [run : Runs, act : Act] \union {None}]
  BY <1>2, <1>3 DEF CountType
<1>6. count[r][a][c] \in Datarec /\ count[r][a][c].rx_packets \in Nat
  BY <1>2 DEF CountType, Datarec
<1> DEFINE new == [count[r][a][c] EXCEPT !.rx_packets = @ + 1]
<1>7. new \in Datarec /\ \A field \in Fields : count[r][a][c][field] <= new[field]
  BY <1>6 DEF Datarec, Fields
<1>8. count' = [count EXCEPT ![r][a][c] = new]
  BY <1>4
<1> HIDE DEF new
<1>9. count' \in [Runs -> [Act -> [Cpu -> Datarec]]]
  BY <1>2, <1>7, <1>8 DEF CountType
<1>10. ASSUME NEW q \in Runs, NEW b \in Act, NEW d \in Cpu, NEW field \in Fields
       PROVE  count[q][b][d][field] <= count'[q][b][d][field]
  <2>1. count'[q][b][d] = IF q = r /\ b = a /\ d = c THEN new ELSE count[q][b][d]
    BY <1>2, <1>8 DEF CountType
  <2>2. count[q][b][d][field] \in Nat
    <3>1. count[q][b][d] \in Datarec
      BY DEF CountType
    <3> QED
      BY <3>1 DEF Datarec, Fields
  <2> QED
    BY <2>1, <2>2, <1>7
<1> QED
  BY <1>5, <1>9, <1>10 DEF CountType

LEMMA CountBytesGrows ==
  ASSUME CountType, NEW c \in Cpu, CountBytes(c)
  PROVE  /\ CountType'
         /\ \A q \in Runs, b \in Act, d \in Cpu, field \in Fields :
              count[q][b][d][field] <= count'[q][b][d][field]
<1> DEFINE r == busy[c].run
           a == busy[c].act
<1>2. r \in Runs /\ a \in Act
  BY DEF CountBytes, CountType
<1>3. busy' = [busy EXCEPT ![c] = None]
  BY DEF CountBytes
<1>4. count' = [count EXCEPT ![r][a][c].rx_bytes = @ + Length]
  BY DEF CountBytes
<1> HIDE DEF r, a
<1>5. busy' \in [Cpu -> [run : Runs, act : Act] \union {None}]
  BY <1>2, <1>3 DEF CountType
<1>6. count[r][a][c] \in Datarec /\ count[r][a][c].rx_bytes \in Nat /\ Length \in Nat
  BY <1>2, StatsAssumption DEF CountType, Datarec
<1> DEFINE new == [count[r][a][c] EXCEPT !.rx_bytes = @ + Length]
<1>7. new \in Datarec /\ \A field \in Fields : count[r][a][c][field] <= new[field]
  BY <1>6 DEF Datarec, Fields
<1>8. count' = [count EXCEPT ![r][a][c] = new]
  BY <1>4
<1> HIDE DEF new
<1>9. count' \in [Runs -> [Act -> [Cpu -> Datarec]]]
  BY <1>2, <1>7, <1>8 DEF CountType
<1>10. ASSUME NEW q \in Runs, NEW b \in Act, NEW d \in Cpu, NEW field \in Fields
       PROVE  count[q][b][d][field] <= count'[q][b][d][field]
  <2>1. count'[q][b][d] = IF q = r /\ b = a /\ d = c THEN new ELSE count[q][b][d]
    BY <1>2, <1>8 DEF CountType
  <2>2. count[q][b][d][field] \in Nat
    <3>1. count[q][b][d] \in Datarec
      BY DEF CountType
    <3> QED
      BY <3>1 DEF Datarec, Fields
  <2> QED
    BY <2>1, <2>2, <1>7
<1> QED
  BY <1>5, <1>9, <1>10 DEF CountType

\* What was read stays explained.
LEMMA GrowingKeepsReadings ==
  ASSUME CountType, CountType', ReadingInv, reader' = reader,
         \A q \in Runs, b \in Act, d \in Cpu, field \in Fields :
           count[q][b][d][field] <= count'[q][b][d][field]
  PROVE  ReadingInv'
<1> SUFFICES ASSUME reader.fd \in Runs, NEW a \in Act, NEW field \in Fields
             PROVE  ValueInv(a, field)'
  BY DEF ReadingInv
<1> DEFINE rec == reader.record[a][field]
           part == IF a = reader.key THEN reader.sum[field] ELSE 0
           n == IF a = reader.key THEN Done(reader.at, field) ELSE 0
           v == Column(reader.fd, a, field)
           w == [c \in Cpu |-> count'[reader.fd][a][c][field]]
<1>1. reader.prev[a][field] <= rec /\ Explained(rec, part, v, n)
  BY DEF ReadingInv, ValueInv
<1>2. v \in [Cpu -> Nat]
  BY ColumnType
<1>3. w \in [Cpu -> Nat]
  <2>1. \A c \in Cpu : count'[reader.fd][a][c] \in Datarec
    BY DEF CountType
  <2>2. \A c \in Cpu : count'[reader.fd][a][c][field] \in Nat
    BY <2>1 DEF Datarec, Fields
  <2> QED
    BY <2>2
<1>4. \A c \in Cpu : v[c] <= w[c]
  BY DEF Column
<1> HIDE DEF v, w, rec, part, n
<1>5. Explained(rec, part, w, n)
  BY <1>1, <1>2, <1>3, <1>4, ExplainedMore
<1> QED
  BY <1>1, <1>5 DEF ValueInv, Column, Done, v, w, rec, part, n

(***************************************************************************)
(* Steps of xdp_stats.                                                     *)
(***************************************************************************)
XdpStatsInv == LoaderInv /\ CountType /\ ReaderInv /\ WatchInv /\ ReadingInv

\* A step that keeps the map, as all but the first do.
LEMMA SameMap ==
  ASSUME WatchInv, UNCHANGED vars, reader'.fd = reader.fd, reader'.since = reader.since
  PROVE  WatchInv'
BY DEF WatchInv, vars, Running, Calm

\* A step that reads nothing.
LEMMA SameReadings ==
  ASSUME ReadingInv, count' = count,
         \A f \in {"fd", "record", "prev", "key", "at", "sum"} : reader'[f] = reader[f]
  PROVE  ReadingInv'
<1>1. /\ reader'.fd = reader.fd /\ reader'.record = reader.record /\ reader'.prev = reader.prev
      /\ reader'.key = reader.key /\ reader'.at = reader.at /\ reader'.sum = reader.sum
  OBVIOUS
<1> QED
  BY <1>1 DEF ReadingInv, ValueInv, Column, Done

\* open_bpf_map_file: the map pinned is that of a run that has started; nothing
\* has been read.
LEMMA OpenMapKept ==
  ASSUME XdpStatsInv, OpenMap
  PROVE  ReaderInv' /\ WatchInv' /\ ReadingInv'
<1>1. CASE pin["xdp_stats_map"] = None
  <2>1. reader' = [reader EXCEPT !.st = "EXIT_FAIL_BPF"] /\ UNCHANGED vars /\ count' = count
    BY <1>1 DEF OpenMap
  <2>2. /\ DOMAIN reader' = DOMAIN reader /\ reader'.st = "EXIT_FAIL_BPF"
        /\ \A f \in DOMAIN reader : f # "st" => reader'[f] = reader[f]
    BY <2>1 DEF XdpStatsInv, ReaderInv
  <2>3. /\ \A f \in {"fd", "record", "prev", "key", "at", "sum"} : reader'[f] = reader[f]
        /\ reader'.since = reader.since
    BY <2>2 DEF XdpStatsInv, ReaderInv
  <2>4. ReaderInv'
    BY <2>1, <2>2, <2>3 DEF XdpStatsInv, ReaderInv, Polling, OpenMap, vars
  <2> QED
    BY <2>1, <2>3, <2>4, SameMap, SameReadings DEF XdpStatsInv
<1>2. CASE pin["xdp_stats_map"] # None
  <2> DEFINE r == pin["xdp_stats_map"]
  <2>1. /\ reader' = [reader EXCEPT !.st = "check", !.fd = r,
                                    !.since = IF Quiet THEN last ELSE None]
        /\ UNCHANGED vars /\ count' = count /\ reader.st = "open"
    BY <1>2 DEF OpenMap
  <2>2. /\ DOMAIN reader' = DOMAIN reader /\ reader'.st = "check" /\ reader'.fd = r
        /\ reader'.since = (IF Quiet THEN last ELSE None)
        /\ \A f \in {"record", "prev", "key", "at", "sum"} : reader'[f] = reader[f]
    BY <2>1 DEF XdpStatsInv, ReaderInv
  <2>3. r \in Runs /\ pc[r] # "new"
    <3>1. "xdp_stats_map" \in Maps
      BY DEF Maps
    <3>2. r \in Runs
      BY <1>2, <3>1 DEF XdpStatsInv, LoaderInv, TypeOK
    <3> QED
      BY <3>1, <3>2 DEF XdpStatsInv, LoaderInv, OwnInv
  <2>4. ReaderInv'
    BY <2>1, <2>2, <2>3 DEF XdpStatsInv, ReaderInv, Polling, vars
  <2>5. WatchInv'
    <3> SUFFICES ASSUME Calm, Quiet, last # None
                 PROVE  /\ last \in Runs /\ pc[last] # "new" /\ ~Running(last)
                        /\ \A s \in Slots : hook[s] \in {None, r}
      BY <2>1, <2>2 DEF WatchInv, vars, Running, Calm
    <3>1. last \in Runs
      BY DEF XdpStatsInv, LoaderInv, TypeOK, Calm
    <3>2. pc[last] # "new"
      BY <3>1 DEF XdpStatsInv, LoaderInv, CalmInv
    <3>3. \A s \in Slots : hook[s] \in {None, r}
      BY <1>2 DEF XdpStatsInv, LoaderInv, PinnedIsAttached
    <3> QED
      BY <3>1, <3>2, <3>3 DEF Quiet
  <2>6. ReadingInv'
    <3> SUFFICES ASSUME NEW a \in Act, NEW field \in Fields
                 PROVE  ValueInv(a, field)'
      BY DEF ReadingInv
    <3>1. /\ reader.record = NoRecord /\ reader.prev = NoRecord
          /\ reader.at = 0 /\ reader.sum = Zero
      BY <2>1 DEF XdpStatsInv, ReaderInv
    <3>2. /\ reader'.prev[a][field] = 0 /\ reader'.record[a][field] = 0
          /\ reader'.sum[field] = 0 /\ reader'.at = 0
      BY <2>2, <3>1 DEF NoRecord, Zero, Fields
    <3>3. Done(0, field) = 0
      BY DEF Done
    <3> DEFINE v == Column(r, a, field)
    <3>4. v \in [Cpu -> Nat]
      BY <2>3, ColumnType DEF XdpStatsInv
    <3>5. Explained(0, 0, v, 0)
      <4> HIDE DEF v
      <4> QED
        BY <3>4, ExplainedStart
    <3>6. Column(reader.fd, a, field)' = v
      BY <2>1, <2>2 DEF Column
    <3> HIDE DEF v
    <3> QED
      BY <3>2, <3>3, <3>5, <3>6 DEF ValueInv, Done
  <2> QED
    BY <2>4, <2>5, <2>6
<1> QED
  BY <1>1, <1>2

\* check_map_fd_info lets only maps with an entry for every key through.
LEMMA CheckMapKept ==
  ASSUME XdpStatsInv, CheckMap
  PROVE  ReaderInv' /\ WatchInv' /\ ReadingInv'
<1> DEFINE ok == Entries[cfg[reader.fd].file] = ActionMax
<1>1. /\ reader' = [reader EXCEPT !.st = IF ok THEN "collect" ELSE "EXIT_FAIL"]
      /\ UNCHANGED vars /\ count' = count /\ reader.st = "check"
  BY DEF CheckMap
<1>2. /\ DOMAIN reader' = DOMAIN reader
      /\ reader'.st = (IF ok THEN "collect" ELSE "EXIT_FAIL")
      /\ \A f \in DOMAIN reader : f # "st" => reader'[f] = reader[f]
  BY <1>1 DEF XdpStatsInv, ReaderInv
<1>3. /\ \A f \in {"fd", "record", "prev", "key", "at", "sum"} : reader'[f] = reader[f]
      /\ reader'.since = reader.since
  BY <1>2 DEF XdpStatsInv, ReaderInv
<1>4. ReaderInv'
  BY <1>1, <1>2, <1>3 DEF XdpStatsInv, ReaderInv, Polling, vars
<1> QED
  BY <1>1, <1>3, <1>4, SameMap, SameReadings DEF XdpStatsInv

\* map_collect finds every key.
LEMMA GetTimeKept ==
  ASSUME XdpStatsInv, GetTime
  PROVE  ReaderInv' /\ WatchInv' /\ ReadingInv'
<1>1. UNCHANGED vars /\ count' = count /\ reader.st = "collect"
  BY DEF GetTime
<1>2. reader.key < Entries[cfg[reader.fd].file]
  BY <1>1, StatsAssumption DEF XdpStatsInv, ReaderInv, Polling, Act
<1>3. /\ DOMAIN reader' = DOMAIN reader /\ reader'.st = "read"
      /\ \A f \in {"fd", "since", "record", "prev", "key", "at", "sum"} : reader'[f] = reader[f]
  BY <1>2 DEF GetTime, XdpStatsInv, ReaderInv
<1>4. /\ \A f \in {"fd", "record", "prev", "key", "at", "sum"} : reader'[f] = reader[f]
      /\ reader'.since = reader.since
  BY <1>3
<1>5. ReaderInv'
  BY <1>1, <1>3, <1>4 DEF XdpStatsInv, ReaderInv, Polling, vars
<1> QED
  BY <1>1, <1>4, <1>5, SameMap, SameReadings DEF XdpStatsInv

LEMMA StatsPrintKept ==
  ASSUME XdpStatsInv, StatsPrint
  PROVE  ReaderInv' /\ WatchInv' /\ ReadingInv'
<1>1. UNCHANGED vars /\ count' = count /\ reader.st = "print"
  BY DEF StatsPrint
<1>2. /\ DOMAIN reader' = DOMAIN reader /\ reader'.st = "sleep"
      /\ \A f \in {"fd", "since", "record", "prev", "key", "at", "sum"} : reader'[f] = reader[f]
  BY DEF StatsPrint, XdpStatsInv, ReaderInv
<1>3. /\ \A f \in {"fd", "record", "prev", "key", "at", "sum"} : reader'[f] = reader[f]
      /\ reader'.since = reader.since
  BY <1>2
<1>4. ReaderInv'
  BY <1>1, <1>2, <1>3 DEF XdpStatsInv, ReaderInv, Polling, vars
<1> QED
  BY <1>1, <1>3, <1>4, SameMap, SameReadings DEF XdpStatsInv

\* prev = record.
LEMMA SleepKept ==
  ASSUME XdpStatsInv, Sleep
  PROVE  ReaderInv' /\ WatchInv' /\ ReadingInv'
<1>1. UNCHANGED vars /\ count' = count /\ reader.st = "sleep"
  BY DEF Sleep
<1>2. /\ DOMAIN reader' = DOMAIN reader /\ reader'.st = "collect" /\ reader'.prev = reader.record
      /\ \A f \in {"fd", "since", "record", "key", "at", "sum"} : reader'[f] = reader[f]
  BY DEF Sleep, XdpStatsInv, ReaderInv
<1>3. /\ reader'.fd = reader.fd /\ reader'.since = reader.since /\ reader'.record = reader.record
      /\ reader'.key = reader.key /\ reader'.at = reader.at /\ reader'.sum = reader.sum
  BY <1>2
<1>4. ReaderInv'
  BY <1>1, <1>2, <1>3 DEF XdpStatsInv, ReaderInv, Polling, vars
<1>5. ReadingInv'
  <2> SUFFICES ASSUME reader.fd \in Runs, NEW a \in Act, NEW field \in Fields
               PROVE  ValueInv(a, field)'
    BY <1>3 DEF ReadingInv
  <2>1. ValueInv(a, field)
    BY DEF XdpStatsInv, ReadingInv
  <2>2. reader.record[a][field] \in Nat
    <3>1. reader.record[a] \in Datarec
      BY DEF XdpStatsInv, ReaderInv
    <3> QED
      BY <3>1 DEF Datarec, Fields
  <2>3. reader'.prev[a][field] <= reader'.record[a][field]
    BY <1>2, <1>3, <2>2
  <2> QED
    BY <1>1, <1>3, <2>1, <2>3 DEF ValueInv, Column, Done
<1> QED
  BY <1>1, <1>3, <1>4, <1>5, SameMap DEF XdpStatsInv

\* A reading is complete and replaces the last one.
LEMMA CollectedKept ==
  ASSUME XdpStatsInv, Collected
  PROVE  ReaderInv' /\ WatchInv' /\ ReadingInv'
<1>1. /\ UNCHANGED vars /\ count' = count /\ reader.st = "read" /\ reader.at = 2 * NCpus
  BY DEF Collected
<1> DEFINE k == reader.key
<1>2. /\ DOMAIN reader' = DOMAIN reader
      /\ reader'.record = [reader.record EXCEPT ![k] = reader.sum]
      /\ reader'.key = (IF LastKey THEN 0 ELSE k + 1)
      /\ reader'.at = 0 /\ reader'.sum = Zero
      /\ reader'.fd = reader.fd /\ reader'.since = reader.since /\ reader'.prev = reader.prev
  BY DEF Collected, XdpStatsInv, ReaderInv
<1>3. reader'.st \in {"collect", "print", "sleep"}
  BY DEF Collected, XdpStatsInv, ReaderInv
<1>4. reader.fd \in Runs /\ k \in Act /\ reader.sum \in Datarec /\ reader.record \in [Act -> Datarec]
  BY <1>1 DEF XdpStatsInv, ReaderInv, Polling
<1>5. reader'.key \in Act
  BY <1>2, <1>4, StatsAssumption DEF LastKey, Act
<1>6. reader'.record \in [Act -> Datarec] /\ Zero \in Datarec /\ 0 \in 0 .. 2 * NCpus
  BY <1>2, <1>4, StatsAssumption DEF Zero, Datarec
<1>7. ReaderInv'
  BY <1>1, <1>2, <1>3, <1>4, <1>5, <1>6 DEF XdpStatsInv, ReaderInv, Polling, vars
<1>8. ReadingInv'
  <2> SUFFICES ASSUME NEW a \in Act, NEW field \in Fields
               PROVE  ValueInv(a, field)'
    BY DEF ReadingInv
  <2> DEFINE v == Column(reader.fd, a, field)
             n == IF a = k THEN Done(reader.at, field) ELSE 0
             part == IF a = k THEN reader.sum[field] ELSE 0
             rec == reader.record[a][field]
             prev == reader.prev[a][field]
  <2>1. v \in [Cpu -> Nat]
    BY <1>4, ColumnType DEF XdpStatsInv
  <2>2. prev <= rec /\ Explained(rec, part, v, n)
    BY <1>4 DEF XdpStatsInv, ReadingInv, ValueInv
  <2>3. prev \in Nat /\ rec \in Nat /\ reader.sum[field] \in Nat
    <3>1. reader.prev[a] \in Datarec /\ reader.record[a] \in Datarec /\ reader.sum \in Datarec
      BY DEF XdpStatsInv, ReaderInv
    <3> QED
      BY <3>1 DEF Datarec, Fields
  <2>4. /\ Column(reader.fd, a, field)' = v /\ Zero[field] = 0 /\ Done(0, field) = 0
    BY <1>1, <1>2 DEF Column, Zero, Fields, Done
  <2> SUFFICES /\ prev <= reader'.record[a][field]
               /\ Explained(reader'.record[a][field], 0, v, 0)
    <3> HIDE DEF v, prev
    <3>1. /\ reader'.prev[a][field] = prev /\ reader'.sum[field] = 0
          /\ Done(reader'.at, field) = 0
      BY <1>2, <2>4 DEF prev, Done
    <3> QED
      BY <3>1, <2>4 DEF ValueInv, Done
  <2>5. CASE a = k
    <3>1. n = NCpus
      BY <1>1, <2>5, StatsAssumption DEF Done
    <3>2. part = reader.sum[field] /\ reader'.record[a][field] = reader.sum[field]
      BY <1>2, <1>4, <2>5
    <3>3. Explained(part, 0, v, 0) /\ rec <= part
      <4> HIDE DEF v, rec, part, n
      <4> QED
        BY <2>1, <2>2, <3>1, ExplainedTake
    <3>4. prev <= part
      <4>1. part \in Nat
        BY <2>3, <3>2
      <4> HIDE DEF prev, rec, part
      <4> QED
        BY <2>2, <2>3, <3>3, <4>1
    <3> QED
      BY <3>2, <3>3, <3>4
  <2>6. CASE a # k
    BY <1>2, <1>4, <2>2, <2>6
  <2> QED
    BY <2>5, <2>6
<1> QED
  BY <1>1, <1>2, <1>7, <1>8, SameMap DEF XdpStatsInv

\* Which CPUs a word belongs to.
LEMMA WordOfCpu ==
  ASSUME NEW at \in Nat, at < 2 * NCpus, NEW field \in Fields,
         NEW f, f = IF at % 2 = 0 THEN "rx_packets" ELSE "rx_bytes"
  PROVE  /\ (at \div 2) + 1 \in Cpu /\ at + 1 \in 0 .. 2 * NCpus
         /\ Done(at, f) = at \div 2 /\ Done(at + 1, f) = (at \div 2) + 1
         /\ field # f => Done(at + 1, field) = Done(at, field)
<1>1. NCpus \in Nat
  BY StatsAssumption
<1>2. (at \div 2) + 1 \in Cpu /\ at + 1 \in 0 .. 2 * NCpus
  BY <1>1 DEF Cpu
<1>3. CASE at % 2 = 0
  <2>1. (at + 1) \div 2 = at \div 2 /\ ((at + 1) + 1) \div 2 = (at \div 2) + 1
    BY <1>3
  <2> QED
    BY <1>2, <1>3, <2>1 DEF Done, Fields
<1>4. CASE at % 2 # 0
  <2>1. (at + 1) \div 2 = (at \div 2) + 1 /\ ((at + 1) + 1) \div 2 = (at + 1) \div 2
    BY <1>4
  <2> QED
    BY <1>2, <1>4, <2>1 DEF Done, Fields
<1> QED
  BY <1>3, <1>4

\* One more word is added up.
LEMMA ReadWordKept ==
  ASSUME XdpStatsInv, ReadWord
  PROVE  ReaderInv' /\ WatchInv' /\ ReadingInv'
<1> DEFINE at == reader.at
           k == reader.key
           c == (at \div 2) + 1
           f == IF at % 2 = 0 THEN "rx_packets" ELSE "rx_bytes"
           word == count[reader.fd][k][c][f]
<1>1. UNCHANGED vars /\ count' = count /\ reader.st = "read" /\ at < 2 * NCpus
  BY DEF ReadWord
<1>2. /\ reader.fd \in Runs /\ k \in Act /\ at \in Nat /\ f \in Fields
      /\ reader.sum \in Datarec
  BY <1>1, StatsAssumption DEF XdpStatsInv, ReaderInv, Polling, Fields
<1>3. /\ c \in Cpu /\ at + 1 \in 0 .. 2 * NCpus
      /\ Done(at, f) = c - 1 /\ Done(at + 1, f) = c
      /\ \A g \in Fields : g # f => Done(at + 1, g) = Done(at, g)
  <2>1. c - 1 = at \div 2
    BY <1>2
  <2>2. f = IF at % 2 = 0 THEN "rx_packets" ELSE "rx_bytes"
    OBVIOUS
  <2> HIDE DEF at, f
  <2> QED
    BY <1>1, <1>2, <2>1, <2>2, WordOfCpu
<1>4. word \in Nat
  <2>1. count[reader.fd][k][c] \in Datarec
    <3> HIDE DEF c, k
    <3> QED
      BY <1>2, <1>3 DEF XdpStatsInv, CountType
  <2> HIDE DEF c, k, f
  <2> QED
    BY <1>2, <2>1 DEF Datarec, Fields
<1>5. /\ DOMAIN reader' = DOMAIN reader /\ reader'.at = at + 1
      /\ reader'.sum = [reader.sum EXCEPT ![f] = @ + word]
      /\ \A g \in {"st", "fd", "since", "record", "prev", "key"} : reader'[g] = reader[g]
  <2>1. reader' = [reader EXCEPT !.at = @ + 1, !.sum[f] = @ + word]
    BY DEF ReadWord
  <2> HIDE DEF f, word, c, k
  <2> QED
    BY <2>1 DEF XdpStatsInv, ReaderInv
<1>6. /\ reader'.fd = reader.fd /\ reader'.since = reader.since /\ reader'.st = reader.st
      /\ reader'.record = reader.record /\ reader'.prev = reader.prev /\ reader'.key = k
  BY <1>5
<1>7. /\ reader'.sum \in Datarec /\ reader'.sum[f] = reader.sum[f] + word
      /\ \A g \in Fields : g # f => reader'.sum[g] = reader.sum[g]
  <2> HIDE DEF word, f
  <2> QED
    BY <1>2, <1>4, <1>5 DEF Datarec, Fields
<1>8. ReaderInv'
  <2>1. reader'.at \in 0 .. 2 * NCpus /\ reader'.sum \in Datarec /\ reader'.st = "read"
    BY <1>1, <1>3, <1>5, <1>6, <1>7
  <2>2. DOMAIN reader' = DOMAIN reader /\ pc' = pc /\ cfg' = cfg
    BY <1>1, <1>5 DEF vars
  <2> QED
    BY <1>6, <2>1, <2>2 DEF XdpStatsInv, ReaderInv, Polling
<1>9. ReadingInv'
  <2> SUFFICES ASSUME NEW a \in Act, NEW field \in Fields
               PROVE  ValueInv(a, field)'
    BY DEF ReadingInv
  <2> DEFINE v == Column(reader.fd, a, field)
             n == IF a = k THEN Done(at, field) ELSE 0
             part == IF a = k THEN reader.sum[field] ELSE 0
             rec == reader.record[a][field]
             m == IF a = k THEN Done(at + 1, field) ELSE 0
             more == IF a = k THEN reader'.sum[field] ELSE 0
  <2>1. v \in [Cpu -> Nat]
    BY <1>2, ColumnType DEF XdpStatsInv
  <2>2. reader.prev[a][field] <= rec /\ Explained(rec, part, v, n)
    BY <1>2 DEF XdpStatsInv, ReadingInv, ValueInv
  <2>3. Column(reader.fd, a, field)' = v
    BY <1>1, <1>6 DEF Column
  <2> SUFFICES Explained(rec, more, v, m)
    <3> HIDE DEF v
    <3> QED
      BY <1>5, <1>6, <2>2, <2>3 DEF ValueInv, Done
  <2>4. CASE a = k /\ field = f
    <3>1. n = c - 1 /\ m = c /\ part = reader.sum[f] /\ more = part + word
      BY <2>4, <1>3, <1>7
    <3>2. v[c] = word
      <4> HIDE DEF c
      <4> QED
        BY <2>4, <1>3 DEF Column
    <3> HIDE DEF v, n, m, part, more, rec, c, word
    <3>3. Explained(rec, part, v, c - 1)
      BY <2>2, <3>1
    <3>4. Explained(rec, part + v[c], v, c)
      BY <3>3, <2>1, <1>3, ExplainedRead
    <3> QED
      BY <3>1, <3>2, <3>4
  <2>5. CASE ~(a = k /\ field = f)
    <3>1. n = m /\ part = more
      <4> HIDE DEF f, at, word, c
      <4> QED
        BY <2>5, <1>3, <1>7
    <3> HIDE DEF v, n, m, part, more, rec
    <3> QED
      BY <2>2, <3>1
  <2> QED
    BY <2>4, <2>5
<1> QED
  BY <1>1, <1>6, <1>8, <1>9, SameMap DEF XdpStatsInv

(***************************************************************************)
(* The theorems.                                                           *)
(***************************************************************************)
\* The invariant holds initially: nothing is counted, opened or read.
LEMMA XdpStatsStart ==
  ASSUME SInit
  PROVE  CountType /\ ReaderInv /\ WatchInv /\ ReadingInv
<1>1. Zero \in Datarec /\ None \notin Runs
  BY LoaderAssumption DEF Zero, Datarec
<1>2. CountType
  BY <1>1 DEF SInit, CountType
<1>3. /\ reader = [st |-> "open", fd |-> None, since |-> None, record |-> NoRecord,
                   prev |-> NoRecord, key |-> 0, at |-> 0, sum |-> Zero,
                   moved |-> [a \in Act |-> TRUE], period |-> [a \in Act |-> FALSE],
                   polls |-> FALSE, shown |-> Act]
      /\ NoRecord \in [Act -> Datarec] /\ 0 \in Act /\ 0 \in 0 .. 2 * NCpus
  BY <1>1, StatsAssumption DEF SInit, NoRecord, Act
<1>4. ReaderInv
  BY <1>1, <1>3 DEF ReaderInv, Polling
<1> QED
  BY <1>1, <1>2, <1>3, <1>4 DEF WatchInv, ReadingInv

\* The inductive step: LoaderInv is kept by xdp_loader alone.
LEMMA XdpStatsStep ==
  ASSUME XdpStatsInv, [SNext]_allvars
  PROVE  (CountType /\ ReaderInv /\ WatchInv /\ ReadingInv)'
<1>1. CASE Next /\ UNCHANGED stats
  <2>1. reader' = reader /\ count' = count /\ busy' = busy
    BY <1>1 DEF stats
  <2>2. CountType'
    BY <2>1 DEF CountType, XdpStatsInv
  <2>3. ReadingInv'
    BY <2>1, SameReadings DEF XdpStatsInv
  <2> QED
    BY <1>1, <2>1, <2>2, <2>3, LoaderReader, LoaderWatch DEF XdpStatsInv
<1>2. ASSUME NEW c \in Cpu, CountPacket(c) \/ CountBytes(c)
      PROVE  (CountType /\ ReaderInv /\ WatchInv /\ ReadingInv)'
  <2>1. reader' = reader /\ UNCHANGED vars
    BY <1>2 DEF CountPacket, CountBytes
  <2>2. /\ CountType'
        /\ \A q \in Runs, b \in Act, d \in Cpu, field \in Fields :
             count[q][b][d][field] <= count'[q][b][d][field]
    BY <1>2, CountPacketGrows, CountBytesGrows DEF XdpStatsInv
  <2>3. ReadingInv'
    BY <2>1, <2>2, GrowingKeepsReadings DEF XdpStatsInv
  <2> QED
    BY <2>1, <2>2, <2>3, LoaderReader, LoaderWatch DEF XdpStatsInv
<1>3. CASE ReaderStep
  <2>1. CountType'
    BY <1>3 DEF ReaderStep, OpenMap, CheckMap, GetTime, ReadWord, Collected, StatsPrint, Sleep,
                XdpStatsInv, CountType
  <2> QED
    BY <1>3, <2>1, OpenMapKept, CheckMapKept, GetTimeKept, ReadWordKept, CollectedKept,
       StatsPrintKept, SleepKept DEF ReaderStep
<1>4. CASE UNCHANGED allvars
  <2>1. reader' = reader /\ count' = count /\ busy' = busy /\ UNCHANGED vars
    BY <1>4 DEF allvars, vars
  <2>2. CountType'
    BY <2>1 DEF CountType, XdpStatsInv
  <2>3. ReadingInv'
    BY <2>1, SameReadings DEF XdpStatsInv
  <2> QED
    BY <2>1, <2>2, <2>3, LoaderReader, LoaderWatch DEF XdpStatsInv
<1> QED
  BY <1>1, <1>2, <1>3, <1>4 DEF SNext

\* The inductive invariant of xdp_stats, the CPUs that count and any runs of
\* xdp_loader, whatever their order and whichever are killed.
THEOREM XdpStatsSafe == SSpec => []XdpStatsInv
<1> DEFINE I == CountType /\ ReaderInv /\ WatchInv /\ ReadingInv
<1>1. SInit => I
  BY XdpStatsStart
<1>2. LoaderInv /\ I /\ [SNext]_allvars => I'
  BY XdpStatsStep DEF XdpStatsInv
<1>3. LoaderInv /\ I => XdpStatsInv
  BY DEF XdpStatsInv
<1> QED
  BY <1>1, <1>2, <1>3, LoaderKept, PTL DEF SSpec

\* map_collect never uses the value of a failed lookup: check_map_fd_info has
\* compared max_entries, and the map behind a descriptor does not change.
THEOREM ValuesInitialized == SSpec => []ValueInitialized
<1>1. XdpStatsInv => ValueInitialized
  BY DEF XdpStatsInv, ReaderInv, Polling, ValueInitialized
<1> QED
  BY <1>1, XdpStatsSafe, PTL

\* A map opened while no run was under way stays that of the attached program
\* until xdp_loader is run again.
THEOREM WatchedIsAttached == SSpec => []WatchesAttached
<1>1. XdpStatsInv => WatchesAttached
  BY DEF XdpStatsInv, WatchInv, WatchesAttached
<1> QED
  BY <1>1, XdpStatsSafe, PTL

\* stats_print never takes a difference below 0 nor shows more than was counted,
\* on any number of CPUs, although they count while they are read.
THEOREM ReadingsOrdered == SSpec => []ReadingsInOrder
<1>1. ASSUME XdpStatsInv PROVE ReadingsInOrder
  <2> SUFFICES ASSUME reader.st = "print", NEW a \in Act, NEW field \in Fields
               PROVE  /\ reader.prev[a][field] <= reader.record[a][field]
                      /\ reader.record[a][field] <= Total(reader.fd, a, field)
    BY DEF ReadingsInOrder, Fields
  <2>1. reader.fd \in Runs /\ ValueInv(a, field)
    BY <1>1 DEF XdpStatsInv, ReaderInv, ReadingInv, Polling
  <2> DEFINE v == Column(reader.fd, a, field)
             rec == reader.record[a][field]
             total == Total(reader.fd, a, field)
  <2>2. v \in [Cpu -> Nat]
    BY <1>1, <2>1, ColumnType DEF XdpStatsInv
  <2>4. \E g : IsSum(g, v) /\ total = g[NCpus]
    BY <2>2, TotalIsSum
  <2>3. PICK part, n : Explained(rec, part, v, n)
    BY <2>1 DEF ValueInv
  <2>5. rec <= total
    <3> HIDE DEF v, rec, total
    <3> QED
      BY <2>2, <2>3, <2>4, ExplainedBound
  <2> QED
    BY <2>1, <2>5 DEF ValueInv
<1> QED
  BY <1>1, XdpStatsSafe, PTL

=============================================================================
