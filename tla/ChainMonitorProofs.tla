------------------------- MODULE ChainMonitorProofs -------------------------
(***************************************************************************)
(* Theorems about ChainMonitor, for any validators, chains, epochs and     *)
(* months, a window of any number of blocks that one page holds, and an    *)
(* indexer that lags by any number of blocks, wherever calls fail and the  *)
(* dashboard dies.                                                         *)
(***************************************************************************)
EXTENDS ChainMonitor, FiniteSetTheorems, WellFoundedInduction, TLAPS

-----------------------------------------------------------------------------
(* Chains *)

\* Induction over the numbers, by the least one outside a set.
LEMMA FromZero ==
  ASSUME NEW S, 0 \in S, \A n \in Nat : n \in S => n + 1 \in S
  PROVE  Nat \subseteq S
<1> DEFINE T == Nat \ S
<1> SUFFICES ASSUME T # {} PROVE FALSE
  OBVIOUS
<1>1. PICK x \in T : \A y \in T : ~ (<<y, x>> \in OpToRel(<, Nat))
  <2>1. T \subseteq Nat
    OBVIOUS
  <2> HIDE DEF T
  <2>2. QED
    BY <2>1, NatLessThanWellFounded, WFMin
<1>2. x \in Nat /\ x # 0
  OBVIOUS
<1>3. x - 1 \in Nat /\ x = (x - 1) + 1
  BY <1>2
<1>4. PICK y \in Nat : y = x - 1
  BY <1>3
<1>5. y \in T
  BY <1>3, <1>4
<1>6. <<y, x>> \in OpToRel(<, Nat)
  <2>1. <<y, x>> \in Nat \X Nat /\ <<y, x>>[1] < <<y, x>>[2]
    BY <1>2, <1>4
  <2>2. QED
    BY <2>1, Zenon DEF OpToRel
<1>7. QED
  BY <1>1, <1>5, <1>6

\* A chain is a sequence of blocks.
LEMMA ChainShape ==
  ASSUME NEW c \in Chains
  PROVE  /\ Len(c) \in Nat \ {0} /\ DOMAIN c = 1 .. Len(c)
         /\ \A i \in 1 .. Len(c) : /\ c[i] \in Block /\ c[i].nonce >= i
                                   /\ c[i].signers \subseteq Elected[c[i].epoch]
                                   /\ i > 1 => c[i - 1].nonce < c[i].nonce
<1>1. c \in Seq(Block) /\ c # <<>>
  BY ChainAssumption
<1>2. Len(c) \in Nat \ {0} /\ DOMAIN c = 1 .. Len(c) /\ \A i \in 1 .. Len(c) : c[i] \in Block
  BY <1>1
<1>3. QED
  BY <1>2, ChainAssumption

\* The numbers of its blocks grow at least as fast as their places.
LEMMA Gap ==
  ASSUME NEW c \in Chains, NEW j \in DOMAIN c, NEW i \in DOMAIN c, j <= i
  PROVE  c[i].nonce - c[j].nonce >= i - j
<1>1. /\ Len(c) \in Nat /\ i \in 1 .. Len(c) /\ j \in 1 .. Len(c)
      /\ \A k \in 1 .. Len(c) : c[k].nonce \in Nat /\ (k > 1 => c[k - 1].nonce < c[k].nonce)
  BY ChainShape DEF Block
<1> DEFINE S == {n \in Nat : j + n <= Len(c) => c[j + n].nonce - c[j].nonce >= n}
<1>2. 0 \in S
  BY <1>1
<1>3. ASSUME NEW n \in Nat, n \in S PROVE n + 1 \in S
  <2> SUFFICES ASSUME j + (n + 1) <= Len(c) PROVE c[j + (n + 1)].nonce - c[j].nonce >= n + 1
    OBVIOUS
  <2>1. PICK k \in 1 .. Len(c) : k = j + (n + 1)
    BY <1>1
  <2>2. k > 1 /\ k - 1 = j + n /\ k - 1 \in 1 .. Len(c)
    BY <1>1, <2>1
  <2>3. c[k - 1].nonce < c[k].nonce /\ c[k - 1].nonce - c[j].nonce >= n
    BY SMTT(60), <1>1, <1>3, <2>1, <2>2
  <2>4. c[k].nonce \in Nat /\ c[k - 1].nonce \in Nat /\ c[j].nonce \in Nat
    BY <1>1, <2>1, <2>2
  <2>5. PICK x \in Nat, y \in Nat, z \in Nat : x = c[k].nonce /\ y = c[k - 1].nonce /\ z = c[j].nonce
    BY <2>4
  <2> HIDE DEF S
  <2>6. y < x /\ y - z >= n
    BY <2>3, <2>5
  <2>8. x - z >= n + 1
    BY ONLY <2>6, x \in Nat, y \in Nat, z \in Nat, n \in Nat
  <2>7. QED
    BY <2>1, <2>5, <2>8
<1> HIDE DEF S
<1>4. Nat \subseteq S
  BY <1>2, <1>3, FromZero
<1>5. PICK n \in Nat : n = i - j
  BY <1>1
<1>6. j + n = i /\ n \in S
  BY <1>1, <1>4, <1>5
<1>7. QED
  BY <1>1, <1>5, <1>6 DEF S

\* No two blocks have a number in common.
LEMMA OneBlock ==
  ASSUME NEW c \in Chains, NEW a \in BlocksOf(c), NEW b \in BlocksOf(c), a.nonce = b.nonce
  PROVE  a = b
<1>1. PICK i \in DOMAIN c, j \in DOMAIN c : a = c[i] /\ b = c[j]
  BY DEF BlocksOf
<1>2. i \in Nat /\ j \in Nat /\ c[i].nonce \in Nat /\ c[j].nonce \in Nat
  BY <1>1, ChainShape DEF Block
<1>3. CASE i <= j
  BY <1>1, <1>2, <1>3, Gap
<1>4. CASE j <= i
  BY <1>1, <1>2, <1>4, Gap
<1>5. QED
  BY <1>2, <1>3, <1>4

\* A chain is finite.
LEMMA FiniteChain == ASSUME NEW c \in Chains PROVE IsFiniteSet(BlocksOf(c))
<1>1. IsFiniteSet(DOMAIN c)
  BY ChainShape, FS_Interval
<1> DEFINE f == [i \in DOMAIN c |-> c[i]]
<1>2. f \in Surjection(DOMAIN c, BlocksOf(c))
  BY DEF Surjection, BlocksOf
<1> HIDE DEF f
<1>3. QED
  BY <1>1, <1>2, FS_Surjection

-----------------------------------------------------------------------------
(* Sums over the months *)

\* What Total adds up, to month n.
Sums(h, v, n, sum) ==
  sum = [m \in 0 .. n |-> IF m = 0 THEN 0 ELSE sum[m - 1] + h.history[m][v]]

\* The recursive function in Total exists.
LEMMA SumExists == ASSUME NEW h, NEW v, NEW n \in Nat PROVE \E sum : Sums(h, v, n, sum)
<1> DEFINE S == {m \in Nat : \E sum : Sums(h, v, m, sum)}
<1>1. 0 \in S
  <2>1. Sums(h, v, 0, [m \in 0 .. 0 |-> 0])
    BY DEF Sums
  <2>2. QED
    BY <2>1
<1>2. ASSUME NEW m \in Nat, m \in S PROVE m + 1 \in S
  <2>1. PICK sum : Sums(h, v, m, sum)
    BY <1>2
  <2> DEFINE more == [i \in 0 .. (m + 1) |-> IF i <= m THEN sum[i] ELSE sum[m] + h.history[i][v]]
  <2>2. \A i \in 0 .. (m + 1) : more[i] = IF i = 0 THEN 0 ELSE more[i - 1] + h.history[i][v]
    <3> SUFFICES ASSUME NEW i \in 0 .. (m + 1)
                 PROVE  more[i] = IF i = 0 THEN 0 ELSE more[i - 1] + h.history[i][v]
      OBVIOUS
    <3>1. CASE i = 0
      BY <2>1, <3>1 DEF Sums
    <3>2. CASE i \in 1 .. m
      <4>1. i \in 0 .. m /\ i - 1 \in 0 .. (m + 1) /\ i - 1 <= m /\ i # 0 /\ i <= m
        BY <3>2
      <4>2. sum[i] = sum[i - 1] + h.history[i][v]
        BY <2>1, <4>1 DEF Sums
      <4>3. more[i] = sum[i] /\ more[i - 1] = sum[i - 1]
        BY <4>1
      <4> HIDE DEF more
      <4>4. QED
        BY <4>1, <4>2, <4>3
    <3>3. CASE i = m + 1
      <4>1. i - 1 = m /\ ~(i <= m) /\ i # 0 /\ m \in 0 .. (m + 1) /\ m <= m
        BY <3>3
      <4>2. more[i] = sum[m] + h.history[i][v] /\ more[m] = sum[m]
        BY <4>1
      <4> HIDE DEF more
      <4>3. QED
        BY <4>1, <4>2
    <3>4. QED
      BY <3>1, <3>2, <3>3
  <2>3. Sums(h, v, m + 1, more)
    <3>1. more = [i \in 0 .. (m + 1) |-> more[i]]
      OBVIOUS
    <3> HIDE DEF more
    <3>2. QED
      BY <2>2, <3>1, Zenon DEF Sums
  <2>4. QED
    BY <2>3
<1> HIDE DEF S
<1>3. Nat \subseteq S
  BY <1>1, <1>2, FromZero
<1>4. QED
  BY <1>3 DEF S

\* Total is such a sum over all months.
LEMMA TotalIsSum ==
  ASSUME NEW h, NEW v
  PROVE  \E sum : Sums(h, v, Cardinality(Months), sum) /\ Total(h, v) = sum[Cardinality(Months)]
<1>1. Cardinality(Months) \in Nat
  BY CalendarAssumption, FS_CardinalityType
<1>2. \E sum : Sums(h, v, Cardinality(Months), sum)
  BY <1>1, SumExists
<1>3. QED
  BY <1>2, Zenon DEF Total, Sums

\* A sum of numbers is one, and grows by what one of them does.
LEMMA TotalGrows ==
  ASSUME NEW h, NEW g, NEW v, NEW k \in Months, NEW d \in Nat,
         \A m \in Months : h.history[m][v] \in Nat,
         \A m \in Months : g.history[m][v] = h.history[m][v] + (IF m = k THEN d ELSE 0)
  PROVE  Total(h, v) \in Nat /\ Total(g, v) = Total(h, v) + d
<1> DEFINE N == Cardinality(Months)
<1>1. N \in Nat /\ Months = 1 .. N
  BY CalendarAssumption, FS_CardinalityType
<1>2. PICK a : Sums(h, v, N, a) /\ Total(h, v) = a[N]
  BY TotalIsSum
<1>3. PICK b : Sums(g, v, N, b) /\ Total(g, v) = b[N]
  BY TotalIsSum
<1> DEFINE S == {m \in Nat : m <= N => a[m] \in Nat /\ b[m] = a[m] + (IF m >= k THEN d ELSE 0)}
<1> HIDE DEF N
<1>4. 0 \in S
  <2>1. 0 \in 0 .. N /\ ~(0 >= k)
    BY <1>1
  <2>2. a[0] = 0 /\ b[0] = 0
    BY <1>2, <1>3, <2>1 DEF Sums
  <2>3. QED
    BY <2>1, <2>2
<1>5. ASSUME NEW m \in Nat, m \in S PROVE m + 1 \in S
  <2> SUFFICES ASSUME m + 1 <= N
               PROVE  a[m + 1] \in Nat /\ b[m + 1] = a[m + 1] + (IF m + 1 >= k THEN d ELSE 0)
    OBVIOUS
  <2>1. m + 1 \in 0 .. N /\ m + 1 \in Months /\ m + 1 # 0 /\ (m + 1) - 1 = m /\ m <= N
    BY <1>1
  <2>2. a[m + 1] = a[m] + h.history[m + 1][v] /\ b[m + 1] = b[m] + g.history[m + 1][v]
    BY <1>2, <1>3, <2>1 DEF Sums
  <2>3. /\ h.history[m + 1][v] \in Nat
        /\ g.history[m + 1][v] = h.history[m + 1][v] + (IF m + 1 = k THEN d ELSE 0)
    BY <2>1
  <2>4. a[m] \in Nat /\ b[m] = a[m] + (IF m >= k THEN d ELSE 0)
    BY <1>5, <2>1
  <2>5. k \in Nat
    BY <1>1
  <2> HIDE DEF S
  <2>6. QED
    BY <2>2, <2>3, <2>4, <2>5
<1> HIDE DEF S
<1>6. Nat \subseteq S
  BY <1>4, <1>5, FromZero
<1>7. N \in S /\ N >= k
  BY <1>1, <1>6
<1>8. QED
  BY <1>1, <1>2, <1>3, <1>7 DEF S

\* Total of a history without elections.
LEMMA TotalZero ==
  ASSUME NEW h, NEW v, \A m \in Months : h.history[m][v] = 0
  PROVE  Total(h, v) = 0
<1> DEFINE N == Cardinality(Months)
<1>1. N \in Nat /\ Months = 1 .. N
  BY CalendarAssumption, FS_CardinalityType
<1>2. PICK a : Sums(h, v, N, a) /\ Total(h, v) = a[N]
  BY TotalIsSum
<1> DEFINE S == {m \in Nat : m <= N => a[m] = 0}
<1> HIDE DEF N
<1>3. 0 \in S
  BY <1>1, <1>2 DEF Sums
<1>4. ASSUME NEW m \in Nat, m \in S PROVE m + 1 \in S
  <2> SUFFICES ASSUME m + 1 <= N PROVE a[m + 1] = 0
    OBVIOUS
  <2>1. m + 1 \in 0 .. N /\ m + 1 \in Months /\ m + 1 # 0 /\ (m + 1) - 1 = m /\ m <= N
    BY <1>1
  <2>2. a[m + 1] = a[m] + h.history[m + 1][v]
    BY <1>2, <2>1 DEF Sums
  <2>3. a[m] = 0
    BY <1>4, <2>1
  <2>4. h.history[m + 1][v] = 0
    BY <2>1
  <2> QED
    BY <2>2, <2>3, <2>4
<1> HIDE DEF S
<1>5. N \in S
  BY <1>1, <1>3, <1>4, FromZero
<1> QED
  BY <1>1, <1>2, <1>5 DEF S

-----------------------------------------------------------------------------
(* The inductive invariant *)

\* The blocks the network has produced, and those of the window at a head.
Known == {chain[i] : i \in 1 .. tip}
WindowOf(head) == {b \in BlocksOf(chain) : InWindow(b, head)}

\* The world, and the parts of the monitor that have only a type.
World ==
  /\ chain \in Chains /\ tip \in DOMAIN chain /\ month \in Months
  /\ pc \in {"idle", "polled", "storing"}
  /\ list \in (SUBSET Managed) \cup {NoList}
  /\ epoch \in {0} \cup Epochs /\ ticks \in 0 .. StatsEvery - 1
  /\ HistoryOK(elect) /\ HistoryOK(stored)
  /\ loaded \in BOOLEAN /\ (loaded = FALSE => elect = NoHistory)

\* A tick between its halves holds the page of an indexer, and its window has
\* every block there is of it.
Windows ==
  /\ have \subseteq Known
  /\ \E head \in Nat : \A b \in have : InWindow(b, head)
  /\ pc = "polled" => loaded
  /\ pc = "polled" => \E i \in 1 .. tip : /\ page = PageAt(i)
                                          /\ have = WindowOf(chain[i].nonce)

\* What v missed of the blocks with these numbers of an epoch: the count of
\* its misses is no more than that of the blocks scored.
Scorable(v, e, nonces) ==
  {b \in BlocksOf(chain) : /\ b.epoch = e /\ b.signers # {}
                           /\ v \notin b.signers /\ b.nonce \in nonces}

Missing ==
  /\ seen \subseteq {b.nonce : b \in {c \in BlocksOf(chain) : c.epoch = missEpoch}}
  /\ misses \in [Managed -> Nat]
  /\ \A v \in Managed : misses[v] <= Cardinality(Scorable(v, missEpoch, seen))

\* What is shown was true when it was rendered, and a chain does not change.
Shown ==
  /\ latest = [epoch |-> latest.epoch, head |-> latest.head,
               error |-> latest.error, rows |-> latest.rows]
  /\ SnapshotTruth

\* A history has counted nothing of the epochs that it says are still to be.
Until(v, last) == {e \in EpochsElected(v) : e <= last}
CountedTo(h) == \A v \in Managed : Total(h, v) <= Cardinality(Until(v, h.last))
Elections == CountedTo(elect) /\ CountedTo(stored)

IInv == World /\ Windows /\ Missing /\ Shown /\ Elections

-----------------------------------------------------------------------------
(* What a tick reads *)

\* The places of a chain that has got to tip.
LEMMA Places ==
  ASSUME chain \in Chains, tip \in DOMAIN chain
  PROVE  /\ tip \in Nat \ {0} /\ Known \subseteq BlocksOf(chain)
         /\ \A i \in 1 .. tip : i \in DOMAIN chain /\ i \in Nat /\ chain[i] \in Block
                                /\ chain[i] \in Known /\ chain[i].nonce \in Nat
                                /\ chain[i].epoch \in Epochs /\ chain[i].epoch \in Nat \ {0}
<1>1. /\ Len(chain) \in Nat \ {0} /\ DOMAIN chain = 1 .. Len(chain)
      /\ \A i \in 1 .. Len(chain) : chain[i] \in Block
  BY ChainShape
<1>2. tip \in Nat \ {0} /\ \A i \in 1 .. tip : i \in DOMAIN chain /\ i \in Nat
  BY <1>1
<1>3. Known \subseteq BlocksOf(chain)
  BY <1>2 DEF Known, BlocksOf
<1>4. \A b \in Block : b.nonce \in Nat /\ b.epoch \in Epochs
  BY DEF Block
<1>5. \A i \in 1 .. tip : chain[i] \in Block /\ chain[i] \in Known
  BY <1>1, <1>2 DEF Known
<1> QED
  BY <1>2, <1>3, <1>4, <1>5, ChainAssumption

\* The newest block of a page is that of the place the indexer has got to.
LEMMA NewestOfPage ==
  ASSUME chain \in Chains, tip \in DOMAIN chain, NEW i \in 1 .. tip
  PROVE  /\ HeadOf(PageAt(i)) = chain[i] /\ chain[i] \in PageAt(i)
         /\ PageAt(i) \subseteq Known
<1>1. i \in DOMAIN chain /\ i \in Nat /\ tip \in Nat /\ 1 <= i /\ i <= tip
  BY Places
<1>2. PageAt(i) \subseteq Known
  BY <1>1 DEF PageAt, Known
<1>3. chain[i] \in PageAt(i)
  <2>1. i \in 1 .. i /\ i > i - Chunk
    BY <1>1, WindowAssumption
  <2> QED
    BY <2>1 DEF PageAt
<1>4. ASSUME NEW k \in 1 .. i PROVE chain[k].nonce <= chain[i].nonce
  <2>1. k \in 1 .. tip /\ k <= i
    BY <1>1
  <2>2. chain[i].nonce - chain[k].nonce >= i - k /\ i - k >= 0 /\ i - k \in Int
    BY <1>1, <2>1, Places, Gap
  <2>3. PICK x \in Nat, y \in Nat : x = chain[i].nonce /\ y = chain[k].nonce
    BY <2>1, Places
  <2> QED
    BY <2>2, <2>3
<1>5. \A c \in PageAt(i) : c.nonce <= chain[i].nonce
  BY <1>4 DEF PageAt
<1>6. ASSUME NEW b \in PageAt(i), \A c \in PageAt(i) : c.nonce <= b.nonce
      PROVE  b = chain[i]
  <2>1. b.nonce <= chain[i].nonce /\ chain[i].nonce <= b.nonce
    BY <1>3, <1>5, <1>6
  <2>2. b \in BlocksOf(chain) /\ chain[i] \in BlocksOf(chain)
    BY <1>2, <1>3, Places
  <2>3. b.nonce \in Nat /\ chain[i].nonce \in Nat
    BY <1>2, Places DEF Known
  <2>4. b.nonce = chain[i].nonce
    BY <2>1, <2>3
  <2> QED
    BY <2>2, <2>4, OneBlock
<1>7. HeadOf(PageAt(i)) = chain[i]
  BY <1>3, <1>5, <1>6 DEF HeadOf
<1> QED
  BY <1>2, <1>3, <1>7

\* A window ends with its head, and is no longer than a page.
LEMMA WindowLength ==
  ASSUME NEW head \in Nat
  PROVE  /\ WindowStart(head) \in Nat /\ head - WindowStart(head) < Window
         /\ WindowStart(head) <= head
  BY WindowAssumption DEF WindowStart

\* Every block of the window there is has come: none is older than the page.
LEMMA WindowInPage ==
  ASSUME chain \in Chains, tip \in DOMAIN chain, NEW i \in 1 .. tip
  PROVE  WindowOf(chain[i].nonce) \subseteq PageAt(i)
<1> SUFFICES ASSUME NEW k \in DOMAIN chain, InWindow(chain[k], chain[i].nonce)
             PROVE  chain[k] \in PageAt(i)
  BY DEF WindowOf, BlocksOf
<1>1. i \in DOMAIN chain /\ i \in Nat /\ k \in Nat /\ 1 <= k /\ chain[k].nonce \in Nat
      /\ chain[i].nonce \in Nat
  BY Places, ChainShape DEF Block
<1>2. PICK x \in Nat, y \in Nat : x = chain[i].nonce /\ y = chain[k].nonce
  BY <1>1
<1>3. y <= x /\ x - y < Window
  <2>1. WindowStart(x) \in Nat /\ x - WindowStart(x) < Window /\ y \in WindowStart(x) .. x
    BY <1>2, WindowLength DEF InWindow
  <2> QED
    BY <2>1, WindowAssumption
<1>4. k <= i
  <2> SUFFICES ASSUME k > i PROVE FALSE
    BY <1>1
  <2>1. y - x >= k - i
    BY <1>1, <1>2, Gap
  <2> QED
    BY <1>1, <1>3, <2>1
<1>5. x - y >= i - k
  BY <1>1, <1>2, <1>4, Gap
<1>6. k \in 1 .. i /\ k > i - Chunk
  BY <1>1, <1>3, <1>4, <1>5, WindowAssumption
<1> QED
  BY <1>6 DEF PageAt

\* A window merged from a page and what was there is the window at its head.
LEMMA MergedWindow ==
  ASSUME World, Windows, NEW i \in 1 .. tip
  PROVE  Merge(PageAt(i), chain[i].nonce) = WindowOf(chain[i].nonce)
<1>1. chain \in Chains /\ tip \in DOMAIN chain
  BY DEF World
<1>2. have \subseteq BlocksOf(chain) /\ PageAt(i) \subseteq BlocksOf(chain)
  BY <1>1, Places, NewestOfPage DEF Windows
<1>3. WindowOf(chain[i].nonce) \subseteq PageAt(i)
  BY <1>1, WindowInPage
<1> QED
  BY <1>2, <1>3 DEF Merge, WindowOf

-----------------------------------------------------------------------------
(* Each part of the invariant is kept *)

\* The epochs a validator was elected in are numbers, and finitely many.
EpochsOf(c, n, v) == {e \in {c[i].epoch : i \in 1 .. n} : v \in Elected[e]}

LEMMA FiniteEpochs ==
  ASSUME NEW c \in Chains, NEW n \in DOMAIN c, NEW v
  PROVE  /\ IsFiniteSet(EpochsOf(c, n, v)) /\ EpochsOf(c, n, v) \subseteq Nat \ {0}
<1> DEFINE All == {c[i].epoch : i \in 1 .. n}
           f == [i \in 1 .. n |-> c[i].epoch]
<1>1. n \in Nat /\ \A i \in 1 .. n : c[i] \in Block
  BY ChainShape
<1>2. All \subseteq Nat \ {0}
  BY <1>1, ChainAssumption DEF Block
<1>3. f \in Surjection(1 .. n, All)
  BY DEF Surjection
<1>4. IsFiniteSet(1 .. n)
  BY <1>1, FS_Interval
<1>5. EpochsOf(c, n, v) \subseteq All
  BY DEF EpochsOf
<1> HIDE DEF f, All
<1>6. IsFiniteSet(All)
  BY <1>3, <1>4, FS_Surjection
<1> QED
  BY <1>2, <1>5, <1>6, FS_Subset

\* So are those up to an epoch, of which there are no more.
LEMMA FiniteUntil ==
  ASSUME World, NEW v, NEW last
  PROVE  /\ IsFiniteSet(Until(v, last)) /\ Until(v, last) \subseteq Nat \ {0}
         /\ Cardinality(Until(v, last)) \in Nat /\ Cardinality(EpochsElected(v)) \in Nat
         /\ Cardinality(Until(v, last)) <= Cardinality(EpochsElected(v))
<1>1. EpochsElected(v) = EpochsOf(chain, tip, v)
  BY DEF EpochsElected, EpochsOf
<1>2. IsFiniteSet(EpochsElected(v)) /\ EpochsElected(v) \subseteq Nat \ {0}
  BY <1>1, FiniteEpochs DEF World
<1>3. Until(v, last) \subseteq EpochsElected(v)
  BY DEF Until
<1> QED
  BY <1>2, <1>3, FS_Subset, FS_CardinalityType

\* A history without elections is one.
LEMMA NoHistoryOK ==
  ASSUME World
  PROVE  HistoryOK(NoHistory) /\ CountedTo(NoHistory)
<1>1. HistoryOK(NoHistory)
  BY DEF HistoryOK, NoHistory, None
<1>2. ASSUME NEW v \in Managed
      PROVE  Total(NoHistory, v) = 0 /\ Cardinality(Until(v, NoHistory.last)) \in Nat
  BY TotalZero, FiniteUntil DEF NoHistory, None
<1> QED
  BY <1>1, <1>2 DEF CountedTo

\* What is counted in a tick is typed.
LEMMA CreditOK ==
  ASSUME World, NEW e \in Epochs, NEW group, NEW managed
  PROVE  HistoryOK(Credit(e, group, managed))
<1> DEFINE more == [v \in Managed |->
                      elect.history[month][v] +
                        IF Counts(e, group) /\ v \in managed \cap group THEN 1 ELSE 0]
           new == Credit(e, group, managed)
<1>1. month \in Months /\ elect.history \in [Months -> [Managed -> Nat]]
      /\ elect.last \in {0} \cup Epochs
  BY DEF World, HistoryOK
<1>2. more \in [Managed -> Nat]
  BY <1>1
<1>3. new.month = month /\ new.history = [elect.history EXCEPT ![month] = more]
      /\ new.last = IF Counts(e, group) THEN e ELSE elect.last
  BY DEF Credit
<1> HIDE DEF more, new
<1>4. new.history \in [Months -> [Managed -> Nat]]
  BY <1>1, <1>2, <1>3
<1>5. new.last \in {0} \cup Epochs
  BY <1>1, <1>3
<1>6. HistoryOK(new)
  BY <1>1, <1>3, <1>4, <1>5 DEF HistoryOK
<1> QED
  BY <1>6 DEF new

\* The second half of a tick is of the epoch of the block at the place the
\* indexer had got to, and of the window that ends there.
LEMMA Halfway ==
  ASSUME World, Windows, pc = "polled"
  PROVE  \E i \in 1 .. tip : /\ HeadOf(page) = chain[i] /\ page = PageAt(i)
                             /\ have = WindowOf(chain[i].nonce)
                             /\ page \subseteq BlocksOf(chain)
                             /\ page # {}
                             /\ HeadOf(page).epoch \in Epochs
                             /\ HeadOf(page).nonce \in Nat
<1>1. chain \in Chains /\ tip \in DOMAIN chain
  BY DEF World
<1>2. PICK i \in 1 .. tip : page = PageAt(i) /\ have = WindowOf(chain[i].nonce)
  BY DEF Windows
<1> QED
  BY <1>1, <1>2, NewestOfPage, Places

LEMMA WorldStep == ASSUME World, Windows, [Next]_vars PROVE World'
<1> USE DEF World
<1>1. CASE Grow
  BY <1>1, ChainShape DEF Grow, monitorVars, HistoryOK
<1>2. CASE NextMonth
  BY <1>2 DEF NextMonth, monitorVars, HistoryOK
<1>3. CASE PollFails
  BY <1>3 DEF PollFails, worldVars, HistoryOK
<1>4. ASSUME NEW i \in Served, Poll(i) PROVE World'
  <2>1. elect' \in {elect, stored, NoHistory} /\ loaded' = TRUE
    BY <1>4 DEF Poll, Histories
  <2>2. HistoryOK(elect')
    BY <2>1, NoHistoryOK
  <2>3. HistoryOK(elect)'
    BY <2>2 DEF HistoryOK
  <2> QED
    BY <1>4, <2>1, <2>3 DEF Poll, worldVars, HistoryOK
<1>5. ASSUME NEW new \in ListsNow, NEW managed \in NodeTables, Apply(new, managed) PROVE World'
  <2>1. PICK e, group : e \in Epochs /\ e = HeadOf(page).epoch /\ group = Groups(have, e)
    BY <1>5, Halfway DEF Apply
  <2>2. elect' = Credit(e, group, managed) /\ epoch' = e /\ list' = new
        /\ ticks' = (ticks + 1) % StatsEvery /\ pc' \in {"idle", "storing"}
        /\ UNCHANGED <<worldVars, loaded, stored>> /\ pc = "polled"
    BY <1>5, <2>1 DEF Apply
  <2>3. HistoryOK(elect') /\ loaded = TRUE
    BY <2>1, <2>2, CreditOK DEF Windows
  <2>4. HistoryOK(elect)'
    BY <2>3 DEF HistoryOK
  <2>5. new \in (SUBSET Managed) \cup {NoList}
    BY DEF ListsNow, Lists
  <2>6. ticks' \in 0 .. StatsEvery - 1
    BY <2>2, CalendarAssumption
  <2> QED
    BY <2>1, <2>2, <2>3, <2>4, <2>5, <2>6 DEF worldVars, HistoryOK
<1>6. CASE Store
  BY <1>6 DEF Store, worldVars, monitorVars, HistoryOK
<1>7. CASE StoreFails
  BY <1>7 DEF StoreFails, worldVars, monitorVars, HistoryOK
<1>8. CASE Crash
  <2>1. HistoryOK(elect')
    BY <1>8, NoHistoryOK DEF Crash
  <2>2. HistoryOK(elect)'
    BY <2>1 DEF HistoryOK
  <2>3. HistoryOK(stored)'
    BY <1>8 DEF Crash, HistoryOK
  <2>4. ticks' \in 0 .. StatsEvery - 1
    BY <1>8, CalendarAssumption DEF Crash
  <2> QED
    BY <1>8, <2>2, <2>3, <2>4 DEF Crash, worldVars
<1>9. CASE UNCHANGED vars
  BY <1>9 DEF vars, worldVars, monitorVars, HistoryOK
<1> QED
  BY <1>1, <1>2, <1>3, <1>4, <1>5, <1>6, <1>7, <1>8, <1>9 DEF Next, Applies

\* What has been produced stays, and the pages of the past do.
LEMMA WindowsStep == ASSUME World, Windows, [Next]_vars PROVE Windows'
<1>0. chain \in Chains /\ tip \in DOMAIN chain /\ tip \in Nat
  BY Places DEF World
<1>1. CASE Grow
  <2>1. chain' = chain /\ have' = have /\ page' = page /\ pc' = pc /\ loaded' = loaded
        /\ tip' = tip + 1
    BY <1>1 DEF Grow, monitorVars
  <2>2. 1 .. tip \subseteq 1 .. tip'
    BY <1>0, <2>1
  <2>3. have' \subseteq Known'
    BY <2>1, <2>2 DEF Windows, Known
  <2>4. ASSUME NEW i \in 1 .. tip, page = PageAt(i), have = WindowOf(chain[i].nonce)
        PROVE  page' = PageAt(i)' /\ have' = WindowOf(chain[i].nonce)'
    BY <2>1, <2>4 DEF PageAt, WindowOf, BlocksOf
  <2>5. pc' = "polled" => \E i \in 1 .. tip : page' = PageAt(i)' /\ have' = WindowOf(chain[i].nonce)'
    BY <2>1, <2>4 DEF Windows
  <2> QED
    BY <2>1, <2>2, <2>3, <2>5 DEF Windows
<1>2. ASSUME UNCHANGED <<chain, tip, have, page, pc, loaded>> PROVE Windows'
  BY <1>2 DEF Windows, Known, PageAt, WindowOf, BlocksOf
<1>3. ASSUME UNCHANGED <<chain, tip, have>>, pc' # "polled" PROVE Windows'
  BY <1>3 DEF Windows, Known
<1>4. ASSUME NEW i \in Served, Poll(i) PROVE Windows'
  <2>1. i \in 1 .. tip
    BY DEF Served
  <2>2. chain' = chain /\ tip' = tip /\ page' = PageAt(i) /\ loaded' = TRUE
        /\ have' = WindowOf(chain[i].nonce)
    BY <1>4, <2>1, MergedWindow DEF Poll, worldVars
  <2>3. WindowOf(chain[i].nonce) \subseteq Known
    BY <1>0, <2>1, WindowInPage, NewestOfPage
  <2>4. have' \subseteq Known'
    BY <2>2, <2>3 DEF Known
  <2>5. chain[i].nonce \in Nat /\ \A b \in have' : InWindow(b, chain[i].nonce)
    BY <1>0, <2>1, <2>2, Places DEF WindowOf
  <2>6. page' = PageAt(i)' /\ have' = WindowOf(chain[i].nonce)'
    BY <2>2 DEF PageAt, WindowOf, BlocksOf
  <2> QED
    BY <2>1, <2>2, <2>4, <2>5, <2>6 DEF Windows
<1>5. CASE Crash
  <2>1. have' = {} /\ pc' = "idle"
    BY <1>5 DEF Crash
  <2>2. \E head \in Nat : TRUE
    BY <1>0
  <2> QED
    BY <2>1, <2>2 DEF Windows
<1>6. ASSUME NEW new \in ListsNow, NEW managed \in NodeTables, Apply(new, managed)
      PROVE  UNCHANGED <<chain, tip, have>> /\ pc' # "polled"
  BY <1>6 DEF Apply, worldVars
<1>7. CASE Store \/ StoreFails
  BY <1>3, <1>7 DEF Store, StoreFails, worldVars, monitorVars
<1>8. CASE PollFails
  BY <1>2, <1>8 DEF PollFails, worldVars
<1>9. CASE NextMonth
  BY <1>2, <1>9 DEF NextMonth, monitorVars
<1>10. CASE UNCHANGED vars
  BY <1>2, <1>10 DEF vars, worldVars, monitorVars
<1> QED
  BY <1>1, <1>3, <1>4, <1>5, <1>6, <1>7, <1>8, <1>9, <1>10 DEF Next, Applies

\* No block is counted twice: what a tick scores it has not scored before.
LEMMA ScoresOnce ==
  ASSUME World, NEW v, NEW e, NEW old, NEW scored,
         scored \subseteq BlocksOf(chain),
         \A b \in scored : b.epoch = e /\ b.signers # {} /\ b.nonce \notin old
  PROVE  /\ Cardinality(MissedBy(v, scored)) \in Nat
         /\ Cardinality(Scorable(v, e, old)) \in Nat
         /\ Cardinality(Scorable(v, e, old \cup Nonces(scored))) \in Nat
         /\ Cardinality(Scorable(v, e, old)) + Cardinality(MissedBy(v, scored))
              <= Cardinality(Scorable(v, e, old \cup Nonces(scored)))
<1> DEFINE A == Scorable(v, e, old)
           B == MissedBy(v, scored)
           C == Scorable(v, e, old \cup Nonces(scored))
<1>1. IsFiniteSet(BlocksOf(chain))
  BY FiniteChain DEF World
<1>2. A \subseteq C /\ B \subseteq C /\ C \subseteq BlocksOf(chain) /\ A \cap B = {}
  BY DEF Scorable, MissedBy, Nonces
<1> HIDE DEF A, B, C
<1>3. IsFiniteSet(C) /\ IsFiniteSet(A) /\ IsFiniteSet(B)
  BY <1>1, <1>2, FS_Subset
<1>4. A \cup B \subseteq C
  BY <1>2
<1>5. Cardinality(A \cup B) = Cardinality(A) + Cardinality(B) - Cardinality(A \cap B)
  BY <1>3, FS_Union
<1>6. Cardinality(A \cap B) = 0
  BY <1>2, FS_EmptySet
<1>7. Cardinality(A \cup B) <= Cardinality(C)
  BY <1>3, <1>4, FS_Subset
<1>8. Cardinality(A) \in Nat /\ Cardinality(B) \in Nat /\ Cardinality(C) \in Nat
  BY <1>3, FS_CardinalityType
<1>9. Cardinality(A) + Cardinality(B) <= Cardinality(C)
  BY <1>5, <1>6, <1>7, <1>8
<1> QED
  BY <1>8, <1>9 DEF A, B, C

\* The misses stay no more than the blocks there were to miss.
LEMMA MissingStep == ASSUME World, Windows, Missing, [Next]_vars PROVE Missing'
<1>1. ASSUME chain' = chain, UNCHANGED <<missEpoch, misses, seen>> PROVE Missing'
  BY <1>1 DEF Missing, Scorable, BlocksOf
<1>2. ASSUME NEW new \in ListsNow, NEW managed \in NodeTables, Apply(new, managed)
      PROVE  Missing'
  <2> DEFINE e == HeadOf(page).epoch
             old == IF e = missEpoch THEN seen ELSE {}
             count == IF e = missEpoch THEN misses ELSE None
             scored == Scored(e, old)
             elected == IF new = NoList THEN {} ELSE new
  <2>1. /\ chain' = chain /\ missEpoch' = e /\ seen' = old \cup Nonces(scored)
        /\ misses' = [v \in Managed |->
                        count[v] + IF v \in managed \cap elected
                                   THEN Cardinality(MissedBy(v, scored)) ELSE 0]
    BY <1>2 DEF Apply, worldVars
  <2>2. scored \subseteq BlocksOf(chain)
        /\ \A b \in scored : b.epoch = e /\ b.signers # {} /\ b.nonce \notin old
    BY <1>2, Halfway DEF Scored, Apply
  <2>3. old \subseteq {b.nonce : b \in {c \in BlocksOf(chain) : c.epoch = e}}
    BY DEF Missing
  <2>4. Nonces(scored) \subseteq {b.nonce : b \in {c \in BlocksOf(chain) : c.epoch = e}}
    <3> HIDE DEF scored, e
    <3> QED
      BY <2>2 DEF Nonces
  <2>5. count \in [Managed -> Nat]
    BY DEF Missing, None
  <2> HIDE DEF scored, elected
  <2>6. ASSUME NEW v \in Managed
        PROVE  misses'[v] \in Nat /\ misses'[v] <= Cardinality(Scorable(v, e, old \cup Nonces(scored)))
    <3>1. /\ Cardinality(MissedBy(v, scored)) \in Nat
          /\ Cardinality(Scorable(v, e, old)) \in Nat
          /\ Cardinality(Scorable(v, e, old \cup Nonces(scored))) \in Nat
          /\ Cardinality(Scorable(v, e, old)) + Cardinality(MissedBy(v, scored))
               <= Cardinality(Scorable(v, e, old \cup Nonces(scored)))
      <4> HIDE DEF e, old
      <4> QED
        BY <2>2, ScoresOnce
    <3>2. count[v] <= Cardinality(Scorable(v, e, old)) /\ count[v] \in Nat
      <4>1. CASE e = missEpoch
        BY <4>1, <2>5 DEF Missing
      <4>2. CASE e # missEpoch
        <5>1. count[v] = 0
          BY <4>2 DEF None
        <5> HIDE DEF count, e, old
        <5> QED
          BY <5>1, <3>1
      <4> QED
        BY <4>1, <4>2
    <3>3. misses'[v] = count[v] + IF v \in managed \cap elected
                                  THEN Cardinality(MissedBy(v, scored)) ELSE 0
      BY <2>1
    <3> HIDE DEF count, old, e
    <3> QED
      BY <3>1, <3>2, <3>3
  <2> HIDE DEF e, old, count
  <2>7. misses' \in [Managed -> Nat]
    BY <2>1, <2>6
  <2>8. ASSUME NEW v \in Managed
        PROVE  Scorable(v, e, old \cup Nonces(scored)) = Scorable(v, missEpoch, seen)'
    BY <2>1 DEF Scorable, BlocksOf
  <2>9. seen' \subseteq {b.nonce : b \in {c \in BlocksOf(chain) : c.epoch = e}}
    BY <2>1, <2>3, <2>4
  <2>10. (seen \subseteq {b.nonce : b \in {c \in BlocksOf(chain) : c.epoch = missEpoch}})'
    BY <2>1, <2>9 DEF BlocksOf
  <2>11. (\A v \in Managed : misses[v] <= Cardinality(Scorable(v, missEpoch, seen)))'
    BY <2>6, <2>8
  <2> QED
    BY <2>7, <2>10, <2>11 DEF Missing
<1>3. CASE Crash
  <2>1. misses' = None /\ seen' = {} /\ missEpoch' = 0 /\ chain' = chain
    BY <1>3 DEF Crash, worldVars
  <2>2. IsFiniteSet(BlocksOf(chain))
    BY FiniteChain DEF World
  <2>3. ASSUME NEW v PROVE Cardinality(Scorable(v, missEpoch, seen)') \in Nat
    <3>1. Scorable(v, missEpoch, seen)' \subseteq BlocksOf(chain)
      BY <2>1 DEF Scorable, BlocksOf
    <3> QED
      BY <2>2, <3>1, FS_Subset, FS_CardinalityType
  <2>4. (\A v \in Managed : misses[v] <= Cardinality(Scorable(v, missEpoch, seen)))'
    BY <2>1, <2>3 DEF None
  <2> QED
    BY <2>1, <2>4 DEF Missing, None
<1>4. CASE Grow \/ NextMonth \/ PollFails \/ Store \/ StoreFails \/ UNCHANGED vars
  BY <1>1, <1>4 DEF Grow, NextMonth, PollFails, Store, StoreFails, vars, worldVars,
                    monitorVars, missVars
<1>5. ASSUME NEW i \in Served, Poll(i) PROVE Missing'
  BY <1>1, <1>5 DEF Poll, worldVars, missVars
<1> QED
  BY <1>2, <1>3, <1>4, <1>5 DEF Next, Applies

\* The total of a history is a number.
LEMMA TotalIsNat ==
  ASSUME NEW h, HistoryOK(h), NEW v \in Managed
  PROVE  Total(h, v) \in Nat
<1>1. \A m \in Months : h.history[m][v] \in Nat
  BY DEF HistoryOK
<1>2. \A m \in Months : h.history[m][v] = h.history[m][v] + 0
  BY <1>1
<1>3. PICK k \in Months : TRUE
  BY CalendarAssumption
<1>4. \A m \in Months : h.history[m][v] = h.history[m][v] + (IF m = k THEN 0 ELSE 0)
  BY <1>2
<1> QED
  BY <1>1, <1>4, TotalGrows

\* What is counted stays counted when the chain grows.
LEMMA CountedStays ==
  ASSUME World, World', NEW CONSTANT h, HistoryOK(h), CountedTo(h), chain' = chain,
         1 .. tip \subseteq 1 .. tip'
  PROVE  CountedTo(h)'
<1>1. ASSUME NEW v \in Managed PROVE Total(h, v) <= Cardinality(Until(v, h.last)')
  <2>1. Until(v, h.last) \subseteq Until(v, h.last)'
    BY DEF Until, EpochsElected
  <2>2. IsFiniteSet(Until(v, h.last)')
    <3>1. (chain \in Chains /\ tip \in DOMAIN chain)'
      BY DEF World
    <3>2. IsFiniteSet(EpochsOf(chain', tip', v))
      BY <3>1, FiniteEpochs
    <3>3. Until(v, h.last)' \subseteq EpochsOf(chain', tip', v)
      BY DEF Until, EpochsElected, EpochsOf
    <3> QED
      BY <3>2, <3>3, FS_Subset
  <2>3. PICK x \in Nat, y \in Nat : /\ x = Cardinality(Until(v, h.last))
                                    /\ y = Cardinality(Until(v, h.last)') /\ x <= y
    BY <2>1, <2>2, FS_Subset, FS_CardinalityType
  <2>4. Total(h, v) <= Cardinality(Until(v, h.last)) /\ Total(h, v) \in Nat
    BY TotalIsNat DEF CountedTo
  <2> QED
    BY <2>3, <2>4
<1> QED
  BY <1>1 DEF CountedTo

\* An epoch is credited once, and to validators that were elected in it.
LEMMA Credited ==
  ASSUME World, Windows, CountedTo(elect), NEW e \in Epochs, NEW managed
  PROVE  CountedTo(Credit(e, Groups(have, e), managed))
<1> DEFINE group == Groups(have, e)
           new == Credit(e, group, managed)
<1>1. month \in Months /\ elect.history \in [Months -> [Managed -> Nat]]
      /\ elect.last \in {0} \cup Epochs
  BY DEF World, HistoryOK
<1>2. new.last = (IF Counts(e, group) THEN e ELSE elect.last)
      /\ new.history = [elect.history EXCEPT ![month] =
           [v \in Managed |-> elect.history[month][v] +
              IF Counts(e, group) /\ v \in managed \cap group THEN 1 ELSE 0]]
  BY DEF Credit
<1>3. Counts(e, group) => e > elect.last
  BY DEF Counts
<1>4. \A v \in group : e \in EpochsElected(v)
  <2> SUFFICES ASSUME NEW b \in have, b.epoch = e, NEW v \in b.signers
               PROVE  e \in EpochsElected(v)
    BY DEF Groups
  <2>1. PICK i \in 1 .. tip : b = chain[i]
    BY DEF Windows, Known
  <2>2. i \in DOMAIN chain /\ v \in Elected[chain[i].epoch]
    BY <2>1, Places, ChainAssumption DEF World
  <2> QED
    BY <2>1, <2>2 DEF EpochsElected
<1> HIDE DEF group, new
<1>5. ASSUME NEW v \in Managed PROVE Total(new, v) <= Cardinality(Until(v, new.last))
  <2> DEFINE d == IF Counts(e, group) /\ v \in managed \cap group THEN 1 ELSE 0
  <2>1. \A m \in Months : elect.history[m][v] \in Nat
    BY <1>1
  <2>2. \A m \in Months : new.history[m][v] = elect.history[m][v] + (IF m = month THEN d ELSE 0)
    BY <1>1, <1>2, <2>1
  <2>3. d \in Nat
    OBVIOUS
  <2>4. Total(elect, v) \in Nat /\ Total(new, v) = Total(elect, v) + d
    <3> HIDE DEF d
    <3>1. PICK h, g, k, x : h = elect /\ g = new /\ k \in Months /\ k = month /\ x \in Nat /\ x = d
      BY <1>1, <2>3
    <3>2. /\ \A m \in Months : h.history[m][v] \in Nat
          /\ \A m \in Months : g.history[m][v] = h.history[m][v] + (IF m = k THEN x ELSE 0)
      BY <2>1, <2>2, <3>1
    <3>3. k \in Months /\ x \in Nat
      BY <3>1
    <3>4. Total(h, v) \in Nat /\ Total(g, v) = Total(h, v) + x
      BY ONLY <3>2, <3>3, TotalGrows
    <3> QED
      BY <3>1, <3>4
  <2>5. Total(elect, v) <= Cardinality(Until(v, elect.last))
    BY DEF CountedTo
  <2>6. /\ Cardinality(Until(v, elect.last)) \in Nat /\ IsFiniteSet(Until(v, elect.last))
        /\ Cardinality(Until(v, new.last)) \in Nat /\ IsFiniteSet(Until(v, new.last))
        /\ EpochsElected(v) \subseteq Nat
    BY FiniteUntil, FiniteEpochs DEF World, EpochsElected, EpochsOf
  <2>7. e \in Nat /\ elect.last \in Nat
    <3>1. 0 \in Nat /\ Epochs \subseteq Nat
      BY ChainAssumption
    <3> QED
      BY <1>1, <3>1, Zenon
  <2>8. Until(v, elect.last) \subseteq Until(v, new.last)
    BY <1>2, <1>3, <2>6, <2>7 DEF Until
  <2>9. CASE d = 0
    <3>1. Cardinality(Until(v, elect.last)) <= Cardinality(Until(v, new.last))
      BY <2>6, <2>8, FS_Subset
    <3> QED
      BY <2>4, <2>5, <2>6, <2>9, <3>1
  <2>10. CASE d # 0
    <3>1. d = 1 /\ Counts(e, group) /\ v \in group /\ new.last = e
      BY <1>2, <2>10
    <3>2. e \in Until(v, new.last) /\ e \notin Until(v, elect.last)
      BY <1>3, <1>4, <2>7, <3>1 DEF Until
    <3>3. Until(v, elect.last) \cup {e} \subseteq Until(v, new.last)
      BY <2>8, <3>2
    <3>4. Cardinality(Until(v, elect.last) \cup {e}) = Cardinality(Until(v, elect.last)) + 1
      BY <2>6, <3>2, FS_AddElement
    <3>5. Cardinality(Until(v, elect.last)) + 1 <= Cardinality(Until(v, new.last))
      BY <2>6, <3>3, <3>4, FS_Subset
    <3> QED
      BY <2>4, <2>5, <2>6, <3>1, <3>5
  <2> QED
    BY <2>9, <2>10
<1>6. CountedTo(new)
  BY <1>5 DEF CountedTo
<1> QED
  BY <1>6 DEF group, new

\* Neither history ever credits more than there was.
LEMMA ElectionsStep == ASSUME World, World', Windows, Elections, [Next]_vars PROVE Elections'
<1> USE DEF Elections
<1>0. HistoryOK(elect) /\ HistoryOK(stored)
  BY DEF World
<1>1. PICK old, saved : old = elect /\ saved = stored
  OBVIOUS
<1>2. HistoryOK(old) /\ HistoryOK(saved) /\ CountedTo(old) /\ CountedTo(saved)
  BY <1>0, <1>1
<1>3. chain' = chain /\ 1 .. tip \subseteq 1 .. tip'
  <2>1. CASE Grow
    <3>1. chain' = chain /\ tip' = tip + 1 /\ tip \in Nat
      BY <2>1, Places DEF Grow, World
    <3> QED
      BY <3>1
  <2>2. CASE ~ Grow
    BY <2>2 DEF Next, vars, worldVars, NextMonth, PollFails, Poll, Applies, Apply, Store,
                StoreFails, Crash
  <2> QED
    BY <2>1, <2>2
<1>4. CountedTo(old)' /\ CountedTo(saved)' /\ CountedTo(NoHistory)'
  BY <1>2, <1>3, NoHistoryOK, CountedStays
<1>5. ASSUME NEW h, CountedTo(h)', elect' = h PROVE CountedTo(elect)'
  BY <1>5 DEF CountedTo, Until, EpochsElected
<1>6. ASSUME NEW h, CountedTo(h)', stored' = h PROVE CountedTo(stored)'
  BY <1>6 DEF CountedTo, Until, EpochsElected
<1>7. ASSUME elect' \in {elect, stored, NoHistory}, stored' \in {elect, stored} PROVE Elections'
  BY <1>1, <1>4, <1>5, <1>6, <1>7
<1>8. CASE Grow \/ NextMonth \/ PollFails \/ Store \/ StoreFails \/ Crash \/ UNCHANGED vars
  BY <1>7, <1>8 DEF Grow, NextMonth, PollFails, Store, StoreFails, Crash, vars, monitorVars
<1>9. ASSUME NEW i \in Served, Poll(i) PROVE Elections'
  BY <1>7, <1>9 DEF Poll, Histories
<1>10. ASSUME NEW new \in ListsNow, NEW managed \in NodeTables, Apply(new, managed)
       PROVE  Elections'
  <2>1. PICK e \in Epochs : e = HeadOf(page).epoch
    BY <1>10, Halfway DEF Apply
  <2>2. PICK h : h = Credit(e, Groups(have, e), managed)
    OBVIOUS
  <2>3. elect' = h /\ stored' = saved
    BY <1>1, <1>10, <2>1, <2>2 DEF Apply
  <2>4. CountedTo(h) /\ HistoryOK(h)
    BY <2>2, Credited, CreditOK
  <2>5. CountedTo(h)'
    BY <1>3, <2>4, CountedStays
  <2> QED
    BY <1>4, <1>5, <1>6, <2>3, <2>5
<1> QED
  BY <1>8, <1>9, <1>10 DEF Next, Applies

\* A cell of the window is true when the window is all there is of the chain.
LEMMA TrueCell ==
  ASSUME World, NEW head \in Nat, have = WindowOf(head), NEW n \in WindowStart(head) .. head,
         NEW v, NEW e, NEW elected
  PROVE  CellIsTrue(v, n, Cell(v, n, have, e, elected), e)
<1> DEFINE at == {b \in BlocksOf(chain) : b.nonce = n}
           cell == Cell(v, n, have, e, elected)
<1>1. {b \in have : b.nonce = n} = at
  BY DEF WindowOf, InWindow
<1>2. CellIsTrue(v, n, cell, e) <=>
        IF cell = "skipped" THEN at = {}
        ELSE IF cell = "produced" THEN \E b \in at : b.producer = v
        ELSE at # {} /\ (cell = "missed" => at \subseteq Unsigned(v, e))
  BY DEF CellIsTrue
<1>3. cell = IF at = {} THEN "skipped"
             ELSE IF \E b \in at : b.producer = v THEN "produced"
             ELSE IF v \in elected /\ \E b \in at : b.signers # {} /\ b.epoch = e /\ v \notin b.signers
                  THEN "missed"
             ELSE "idle"
  BY <1>1 DEF Cell
<1>4. ASSUME NEW b \in at, b.signers # {}, b.epoch = e, v \notin b.signers
      PROVE  at \subseteq Unsigned(v, e)
  <2>1. ASSUME NEW c \in at PROVE c = b
    BY OneBlock DEF World
  <2> QED
    BY <1>4, <2>1 DEF Unsigned, MissedBy
<1> HIDE DEF at, cell
<1>5. CellIsTrue(v, n, cell, e)
  BY <1>2, <1>3, <1>4
<1> QED
  BY <1>5 DEF cell

\* The rows of a snapshot of an epoch are true.
TrueRows(rows, e) ==
  \A v \in DOMAIN rows :
    /\ rows[v].missed <= Cardinality(Unsigned(v, e))
    /\ \A n \in DOMAIN rows[v].timeline : CellIsTrue(v, n, rows[v].timeline[n], e)

\* A truth about blocks stays one, for they do not change.
LEMMA TruthStays ==
  ASSUME chain' = chain, NEW CONSTANT rows, NEW CONSTANT e, TrueRows(rows, e)
  PROVE  TrueRows(rows, e)'
<1>1. ASSUME NEW v PROVE Unsigned(v, e)' = Unsigned(v, e)
  BY DEF Unsigned, BlocksOf, MissedBy
<1>2. ASSUME NEW v, NEW n, NEW status, CellIsTrue(v, n, status, e)
      PROVE  CellIsTrue(v, n, status, e)'
  BY <1>1, <1>2 DEF CellIsTrue, BlocksOf
<1>3. ASSUME NEW v \in DOMAIN rows PROVE rows[v].missed <= Cardinality(Unsigned(v, e))'
  BY <1>1 DEF TrueRows
<1>4. ASSUME NEW v \in DOMAIN rows, NEW n \in DOMAIN rows[v].timeline
      PROVE  CellIsTrue(v, n, rows[v].timeline[n], e)'
  BY <1>2 DEF TrueRows
<1> QED
  BY <1>3, <1>4 DEF TrueRows

\* A snapshot that is rendered is true, and it stays so when it is marked.
LEMMA ShownStep ==
  ASSUME World, Windows, Missing', Shown, [Next]_vars
  PROVE  Shown'
<1>0. chain' = chain
  BY DEF Next, vars, worldVars, Grow, NextMonth, PollFails, Poll, Applies, Apply, Store,
         StoreFails, Crash
<1> DEFINE Kept(e, rows) == /\ latest' = [epoch |-> latest'.epoch, head |-> latest'.head,
                                          error |-> latest'.error, rows |-> latest'.rows]
                           /\ latest'.rows = rows /\ latest'.epoch = e
<1>1. ASSUME NEW e, NEW rows, TrueRows(rows, e), Kept(e, rows) PROVE Shown'
  <2>1. TrueRows(rows, e)'
    BY <1>0, <1>1, TruthStays
  <2>2. SnapshotTruth'
    BY <1>1, <2>1 DEF SnapshotTruth, TrueRows, CellIsTrue, Unsigned
  <2> QED
    BY <1>1, <2>2 DEF Shown
<1>2. PICK e0, rows0 : e0 = latest.epoch /\ rows0 = latest.rows
  OBVIOUS
<1>3. TrueRows(rows0, e0)
  BY <1>2 DEF Shown, SnapshotTruth, TrueRows
<1>4. ASSUME latest' = latest PROVE Shown'
  <2>1. Kept(e0, rows0)
    BY <1>4, <1>2 DEF Shown
  <2> HIDE DEF Kept
  <2> QED
    BY <1>1, <1>3, <2>1
<1>5. CASE PollFails
  <2>1. latest' = [latest EXCEPT !.error = latest.head # 0]
    BY <1>5 DEF PollFails, Marked
  <2>2. /\ latest' = [epoch |-> latest'.epoch, head |-> latest'.head,
                      error |-> latest'.error, rows |-> latest'.rows]
        /\ latest'.rows = latest.rows /\ latest'.epoch = latest.epoch
    BY <2>1 DEF Shown
  <2>3. Kept(e0, rows0)
    BY <1>2, <2>2
  <2> HIDE DEF Kept
  <2> QED
    BY <1>1, <1>3, <2>3
<1>6. CASE Crash
  <2>1. latest' = [epoch |-> 0, head |-> 0, error |-> FALSE, rows |-> <<>>]
    BY <1>6 DEF Crash, NoSnapshot
  <2>2. latest'.rows = <<>> /\ DOMAIN latest'.rows = {}
    BY <2>1
  <2> QED
    BY <2>1, <2>2 DEF Shown, SnapshotTruth
<1>7. ASSUME NEW new \in ListsNow, NEW managed \in NodeTables, Apply(new, managed) PROVE Shown'
  <2>1. PICK i \in 1 .. tip, e \in Epochs, head \in Nat :
          e = HeadOf(page).epoch /\ head = HeadOf(page).nonce /\ have = WindowOf(head)
    BY <1>7, Halfway DEF Apply
  <2>2. PICK elected : elected = IF new = NoList THEN {} ELSE new
    OBVIOUS
  <2>3. latest' = Snapshot(head, managed, e, elected, misses', elect') /\ missEpoch' = e
    BY <1>7, <2>1, <2>2 DEF Apply
  <2>4. PICK counted, history : counted = misses' /\ history = elect'
    OBVIOUS
  <2>5. latest' = [epoch |-> e, head |-> head, error |-> FALSE,
                   rows |-> [v \in managed |->
                               Row(v, head, have, e, elected, counted, history)]]
    BY <2>3, <2>4 DEF Snapshot
  <2> DEFINE rows == [v \in managed |-> Row(v, head, have, e, elected, counted, history)]
  <2>6. Kept(e, rows)
    BY <2>5
  <2>7. ASSUME NEW v \in managed
        PROVE  LET row == Row(v, head, have, e, elected, counted, history) IN
               /\ row.missed <= Cardinality(Unsigned(v, e))
               /\ \A n \in DOMAIN row.timeline : CellIsTrue(v, n, row.timeline[n], e)
    <3> DEFINE row == Row(v, head, have, e, elected, counted, history)
               shown == {k \in WindowStart(head) .. head : k >= 1}
    <3>1. row.missed = counted[v] /\ row.timeline = [n \in shown |-> Cell(v, n, have, e, elected)]
      BY DEF Row
    <3>2. v \in Managed
      BY DEF NodeTables
    <3>3. counted[v] <= Cardinality(Unsigned(v, e))
      <4>1. PICK nonces : nonces = seen'
        OBVIOUS
      <4>2. Scorable(v, missEpoch, seen)' = Scorable(v, e, nonces)
        BY <1>0, <2>3, <4>1 DEF Scorable, BlocksOf
      <4>3. counted[v] \in Nat /\ counted[v] <= Cardinality(Scorable(v, e, nonces))
        BY <2>4, <3>2, <4>2 DEF Missing
      <4>4. Scorable(v, e, nonces) \subseteq Unsigned(v, e) /\ Unsigned(v, e) \subseteq BlocksOf(chain)
        BY DEF Scorable, Unsigned, MissedBy
      <4>5. IsFiniteSet(BlocksOf(chain))
        BY FiniteChain DEF World
      <4>6. IsFiniteSet(Unsigned(v, e))
        BY <4>4, <4>5, FS_Subset
      <4>7. PICK x \in Nat, y \in Nat : /\ x = Cardinality(Scorable(v, e, nonces))
                                        /\ y = Cardinality(Unsigned(v, e)) /\ x <= y
        BY <4>4, <4>6, FS_Subset, FS_CardinalityType
      <4> QED
        BY <4>3, <4>7
    <3>4. ASSUME NEW n \in shown PROVE CellIsTrue(v, n, Cell(v, n, have, e, elected), e)
      BY <2>1, TrueCell
    <3> HIDE DEF row, shown
    <3>5. row.missed <= Cardinality(Unsigned(v, e))
          /\ \A n \in DOMAIN row.timeline : CellIsTrue(v, n, row.timeline[n], e)
      BY <3>1, <3>3, <3>4
    <3> QED
      BY <3>5 DEF row
  <2>8. TrueRows(rows, e)
    BY <2>7 DEF TrueRows
  <2> HIDE DEF rows, Kept
  <2> QED
    BY <1>1, <2>6, <2>8
<1>8. CASE Grow \/ NextMonth \/ Store \/ StoreFails \/ UNCHANGED vars
  BY <1>4, <1>8 DEF Grow, NextMonth, Store, StoreFails, vars, monitorVars
<1>9. ASSUME NEW i \in Served, Poll(i) PROVE Shown'
  BY <1>4, <1>9 DEF Poll
<1> QED
  BY <1>5, <1>6, <1>7, <1>8, <1>9 DEF Next, Applies

-----------------------------------------------------------------------------
(* The theorems *)

\* It holds to begin with.
LEMMA Start == Init => IInv
<1> SUFFICES ASSUME Init PROVE IInv
  OBVIOUS
<1>1. chain \in Chains /\ tip = 1 /\ tip \in DOMAIN chain
  BY ChainShape DEF Init
<1>2. World
  <2>1. HistoryOK(NoHistory)
    BY DEF HistoryOK, NoHistory, None
  <2>2. 1 \in Months /\ 0 \in 0 .. StatsEvery - 1
    <3>1. Cardinality(Months) \in Nat
      BY CalendarAssumption, FS_CardinalityType
    <3> QED
      BY <3>1, CalendarAssumption
  <2>3. HistoryOK(elect) /\ HistoryOK(stored)
    BY <2>1 DEF Init, Fresh
  <2> QED
    BY <1>1, <2>2, <2>3 DEF World, Init, Fresh
<1>3. Windows
  BY DEF Windows, Init, Fresh
<1>4. Missing
  <2>1. ASSUME NEW v PROVE Cardinality(Scorable(v, missEpoch, seen)) \in Nat
    <3>1. Scorable(v, missEpoch, seen) \subseteq BlocksOf(chain) /\ IsFiniteSet(BlocksOf(chain))
      BY <1>1, FiniteChain DEF Scorable
    <3> QED
      BY <3>1, FS_Subset, FS_CardinalityType
  <2> QED
    BY <2>1 DEF Missing, Init, Fresh, None
<1>5. Shown
  <2>1. latest = [epoch |-> 0, head |-> 0, error |-> FALSE, rows |-> <<>>]
    BY DEF Init, Fresh, NoSnapshot
  <2>2. DOMAIN latest.rows = {}
    BY <2>1
  <2> QED
    BY <2>1, <2>2 DEF Shown, SnapshotTruth
<1>6. Elections
  <2>1. elect = NoHistory /\ stored = NoHistory
    BY DEF Init, Fresh
  <2> QED
    BY <1>2, <2>1, NoHistoryOK DEF Elections
<1> QED
  BY <1>2, <1>3, <1>4, <1>5, <1>6 DEF IInv

\* Every step keeps it.
LEMMA Kept == IInv /\ [Next]_vars => IInv'
<1> SUFFICES ASSUME IInv, [Next]_vars PROVE IInv'
  OBVIOUS
<1>1. World'
  BY WorldStep DEF IInv
<1>2. Windows'
  BY WindowsStep DEF IInv
<1>3. Missing'
  BY MissingStep DEF IInv
<1>4. Shown'
  BY <1>3, ShownStep DEF IInv
<1>5. Elections'
  BY <1>1, ElectionsStep DEF IInv
<1> QED
  BY <1>1, <1>2, <1>3, <1>4, <1>5 DEF IInv

\* The inductive invariant of the monitor.
THEOREM Invariant == Spec => []IInv
  BY Start, Kept, PTL DEF Spec

\* Every variable has its type; the window holds blocks of no more than Window
\* numbers (pruneLocked), and what is scored is of the epoch that the misses
\* are counted for (trackEpochMissesLocked).
THEOREM Typing == Spec => []TypeOK
<1>1. IInv => TypeOK
  <2> SUFFICES ASSUME IInv PROVE TypeOK
    OBVIOUS
  <2>1. World /\ Windows /\ Missing
    BY DEF IInv
  <2>2. chain \in Chains /\ tip \in DOMAIN chain
    BY <2>1 DEF World
  <2>3. ASSUME NEW b \in have, NEW c \in have PROVE b.nonce - c.nonce < Window
    <3>1. PICK head \in Nat : InWindow(b, head) /\ InWindow(c, head)
      BY <2>1 DEF Windows
    <3>2. /\ WindowStart(head) \in Nat /\ head - WindowStart(head) < Window
          /\ b.nonce \in WindowStart(head) .. head /\ c.nonce \in WindowStart(head) .. head
      BY <3>1, WindowLength DEF InWindow
    <3> QED
      BY <3>2, WindowAssumption
  <2>4. pc = "polled" => page # {} /\ page \subseteq BlocksOf(chain)
    BY <2>1, Halfway
  <2> QED
    BY <2>1, <2>3, <2>4 DEF TypeOK, World, Missing
<1> QED
  BY <1>1, Invariant, PTL

\* A history, in memory or stored, credits no validator with more epochs than
\* it was elected in: LastEpoch keeps a restart from counting an epoch again
\* (updateElectionsLocked), whatever of the histories was lost in between.
THEOREM Counted == Spec => []CountedOnce
<1>1. IInv => CountedOnce
  <2> SUFFICES ASSUME IInv, NEW v \in Managed, NEW h \in {elect, stored}
               PROVE  Total(h, v) <= Cardinality(EpochsElected(v))
    BY DEF CountedOnce
  <2>1. World /\ CountedTo(h) /\ HistoryOK(h)
    BY DEF IInv, Elections, World
  <2>2. PICK x \in Nat, y \in Nat : /\ x = Cardinality(Until(v, h.last))
                                    /\ y = Cardinality(EpochsElected(v)) /\ x <= y
    BY <2>1, FiniteUntil
  <2>3. Total(h, v) <= Cardinality(Until(v, h.last)) /\ Total(h, v) \in Nat
    BY <2>1, TotalIsNat DEF CountedTo
  <2> QED
    BY <2>2, <2>3
<1> QED
  BY <1>1, Invariant, PTL

\* The snapshot tells the truth: what it shows as skipped, produced or missed
\* is (buildLocked), and no block is counted as missed twice
\* (trackEpochMissesLocked).
THEOREM Truth == Spec => []SnapshotTruth
<1>1. IInv => SnapshotTruth
  BY DEF IInv, Shown
<1> QED
  BY <1>1, Invariant, PTL
=============================================================================
