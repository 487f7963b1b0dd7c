---------------------------- MODULE ChainMonitor ----------------------------
(***************************************************************************)
(* The validator monitor of the dashboard (klever/monitor.go and its       *)
(* client): every few seconds a tick reads the newest blocks from an       *)
(* indexer, now and then the list of validators, keeps a window of blocks, *)
(* counts what its validators missed in the epoch and the epochs they were *)
(* elected in, renders a snapshot and stores the count of elections.       *)
(*                                                                         *)
(* The indexer may fail, may be behind the chain, may be another one than  *)
(* a moment ago, and may still list the validators of the epoch before;    *)
(* the settings and the node table may refuse; the dashboard may die.      *)
(*                                                                         *)
(* One tick is three steps, for the calls it makes outside its lock: Poll  *)
(* (the blocks, and the first locked section), Apply (the validator list,  *)
(* the node table, and the second locked section) and Store.               *)
(***************************************************************************)
EXTENDS Integers, Sequences, FiniteSets

CONSTANTS Managed,     \* the validators this dashboard manages
          Chains,      \* the chains the network may produce
          Elected,     \* Elected[e]: the validators elected in epoch e
          Months,      \* calendar months, 1..n
          Window,      \* blocks the timeline shows
          Chunk,       \* blocks of a page of the indexer
          StatsEvery,  \* the validator list is read every so many ticks
          Lag,         \* blocks an indexer may be behind the chain
          MaxCrashes,
          NoList       \* no validator list

Epochs == DOMAIN Elected

\* A block: its number, its epoch, its producer and the validators that signed.
Validators == UNION {Elected[e] : e \in Epochs}
Block == [nonce : Nat, epoch : Epochs, producer : Validators, signers : SUBSET Validators]
BlocksOf(c) == {c[i] : i \in DOMAIN c}

\* main.go asks for a window of one page, so that no older page is ever read.
ASSUME WindowAssumption == Chunk \in Nat /\ Window \in 1 .. Chunk

ASSUME CalendarAssumption ==
  /\ IsFiniteSet(Months) /\ Months # {} /\ Months = 1 .. Cardinality(Months)
  /\ StatsEvery \in Nat \ {0}

ASSUME ChainAssumption ==
  /\ Epochs \subseteq Nat \ {0}
  /\ \A c \in Chains :
       /\ c \in Seq(Block) /\ c # <<>>
       /\ \A i \in DOMAIN c :
            /\ c[i].nonce >= i
            /\ c[i].signers \subseteq Elected[c[i].epoch]
            /\ i > 1 => /\ c[i - 1].nonce < c[i].nonce
                        /\ c[i].epoch - c[i - 1].epoch \in {0, 1}

VARIABLES
  chain, tip,   \* the chain, and how far it has got
  month,
  pc,           \* "idle", "polled", "storing"
  page,         \* the blocks this tick has read
  refresh,      \* this tick reads the validator list
  have,         \* the window of blocks
  list,         \* the managed validators listed as elected, or NoList
  epoch, ticks, again,      \* epoch, ticks, nextTickStatRefresh
  missEpoch, misses, seen,  \* the misses of an epoch, and the blocks scored
  elect, loaded,            \* the election history in memory
  latest,       \* the snapshot that is served
  stored,       \* the election history in the settings
  crashes

worldVars == <<chain, tip, month>>
missVars == <<missEpoch, misses, seen>>
monitorVars == <<page, refresh, have, list, epoch, ticks, again, missVars,
                 elect, loaded, latest>>
vars == <<worldVars, pc, monitorVars, stored, crashes>>

None == [v \in Managed |-> 0]
NoHistory == [month |-> 0, last |-> 0, history |-> [m \in Months |-> None]]
NoSnapshot == [epoch |-> 0, head |-> 0, error |-> FALSE, rows |-> <<>>]

-----------------------------------------------------------------------------
(* What the indexer answers.                                               *)

\* Where the indexer asked may have got to: the URL may be swapped between
\* two ticks.
Served == {i \in 1 .. tip : tip - i <= Lag}

\* RecentBlocks: the newest page of an indexer that has i blocks.
PageAt(i) == {chain[j] : j \in {k \in 1 .. i : k > i - Chunk}}

\* Validators: what the list says of the managed ones, perhaps an epoch late.
Lists == {Managed \cap Elected[e] :
            e \in {chain[tip].epoch, chain[tip].epoch - 1} \cap Epochs}

-----------------------------------------------------------------------------
(* The parts of a tick.                                                    *)

Nonces(blocks) == {b.nonce : b \in blocks}
HeadOf(blocks) == CHOOSE b \in blocks : \A c \in blocks : c.nonce <= b.nonce

WindowStart(head) == IF head >= Window THEN head - Window + 1 ELSE 0

InWindow(b, head) == b.nonce \in WindowStart(head) .. head

\* Bug for TypeOK: blocks that have left the window stay.
Merge_NoPrune(blocks, head) ==
  have \cup {b \in blocks : InWindow(b, head)}

\* mergeBlocks and pruneLocked.
Merge(blocks, head) == {b \in have \cup blocks : InWindow(b, head)}

\* ensureElectionsLoaded: on the first tick that gets blocks, and once; a read
\* that fails is an empty history.
Histories == IF loaded THEN {elect} ELSE {stored, NoHistory}

\* Bug for Settles: the list is read when it can have changed, and only then.
Refreshes_OnChange(new, history) ==
  list = NoList \/ new # epoch \/ again

\* The validator list is due: from time to time, when there is none, in a new
\* epoch, until that epoch has been counted, and once more after that.
Refreshes(new, history) ==
  \/ ticks = 0
  \/ list = NoList
  \/ new # epoch
  \/ new > history.last
  \/ again

\* Bug for SnapshotTruth: a block is scored by every tick that reads it.
Scored_Again(new, old) == {b \in page : b.epoch = new /\ b.signers # {}}

\* trackEpochMissesLocked: the blocks to score, those of the epoch that have
\* not been, and the misses they add for the validators listed as elected.
Scored(new, old) ==
  {b \in page : b.epoch = new /\ b.nonce \notin old /\ b.signers # {}}

MissedBy(v, blocks) == {b \in blocks : v \notin b.signers}

\* The consensus groups of the blocks of an epoch in the window.
Groups(blocks, e) == UNION {b.signers : b \in {c \in blocks : c.epoch = e}}

\* Bug for CountedOnce: an epoch is new when it is not the last one counted.
Counts_Other(new, group) == new # elect.last /\ group # {}

\* updateElectionsLocked: an epoch later than the last one counted is, as soon
\* as a block of it has a consensus group.
Counts(new, group) == new > elect.last /\ group # {}

Credit(new, group, managed) ==
  [month |-> month,
   last |-> IF Counts(new, group) THEN new ELSE elect.last,
   history |->
     [elect.history EXCEPT ![month] =
        [v \in Managed |->
           @[v] + IF Counts(new, group) /\ v \in managed \cap group
                  THEN 1 ELSE 0]]]

-----------------------------------------------------------------------------
(* The snapshot: one row for each managed validator.                       *)

\* A cell of a timeline: block n as seen by validator v.
Cell(v, n, window, new, elected) ==
  LET at == {b \in window : b.nonce = n} IN
  IF at = {} THEN "skipped"
  ELSE IF \E b \in at : b.producer = v THEN "produced"
  ELSE IF v \in elected /\ \E b \in at : /\ b.signers # {}
                                         /\ b.epoch = new
                                         /\ v \notin b.signers THEN "missed"
  ELSE "idle"

Row(v, head, window, new, elected, counted, history) ==
  [elected |-> v \in elected,
   electionsMonth |-> history.history[history.month][v],
   missed |-> counted[v],
   timeline |->
     [n \in {k \in WindowStart(head) .. head : k >= 1} |->
        Cell(v, n, window, new, elected)]]

Snapshot(head, managed, new, elected, counted, history) ==
  [epoch |-> new, head |-> head, error |-> FALSE,
   rows |-> [v \in managed |->
               Row(v, head, have, new, elected, counted, history)]]

-----------------------------------------------------------------------------
\* NewMonitor: what a process starts with.
Fresh ==
  /\ pc = "idle" /\ page = {} /\ refresh = FALSE /\ have = {}
  /\ list = NoList /\ epoch = 0 /\ ticks = 0 /\ again = FALSE
  /\ missEpoch = 0 /\ misses = None /\ seen = {}
  /\ elect = NoHistory /\ loaded = FALSE /\ latest = NoSnapshot

Init ==
  /\ chain \in Chains /\ tip = 1 /\ month = 1
  /\ Fresh
  /\ stored = NoHistory /\ crashes = 0

\* The network produces a block; the month ends.
Grow ==
  /\ tip < Len(chain)
  /\ tip' = tip + 1
  /\ UNCHANGED <<chain, month, pc, monitorVars, stored, crashes>>

NextMonth ==
  /\ month + 1 \in Months
  /\ month' = month + 1
  /\ UNCHANGED <<chain, tip, pc, monitorVars, stored, crashes>>

\* recordError: the last snapshot, if there is one, is served on, marked.
Marked == [latest EXCEPT !.error = latest.head # 0]

\* The request for the blocks fails, its retries included.
PollFails ==
  /\ pc = "idle"
  /\ latest' = Marked
  /\ UNCHANGED <<worldVars, pc, page, refresh, have, list, epoch, ticks, again,
                 missVars, elect, loaded, stored, crashes>>

\* The first half of a tick, from an indexer that has i blocks.
Poll(i) ==
  /\ pc = "idle"
  /\ pc' = "polled"
  /\ page' = PageAt(i)
  /\ have' = Merge(PageAt(i), chain[i].nonce)
  /\ elect' \in Histories
  /\ loaded' = TRUE
  /\ refresh' = Refreshes(chain[i].epoch, elect')
  /\ again' = FALSE
  /\ UNCHANGED <<worldVars, list, epoch, ticks, missVars, latest, stored,
                 crashes>>

\* The second half: the list, or what is left of it when it was not asked for
\* or did not come, and the node table, which is empty when it cannot be read.
Apply(new, managed) ==
  LET head == HeadOf(page)
      e == head.epoch
      elected == IF new = NoList THEN {} ELSE new
      old == IF e = missEpoch THEN seen ELSE {}
      count == IF e = missEpoch THEN misses ELSE None
      scored == Scored(e, old)
      group == Groups(have, e)
  IN
  /\ pc = "polled"
  /\ list' = new
  /\ epoch' = e
  /\ ticks' = (ticks + 1) % StatsEvery
  /\ missEpoch' = e
  /\ seen' = old \cup Nonces(scored)
  /\ misses' = [v \in Managed |->
                  count[v] + IF v \in managed \cap elected
                             THEN Cardinality(MissedBy(v, scored)) ELSE 0]
  /\ elect' = Credit(e, group, managed)
  /\ again' = Counts(e, group)
  /\ latest' = Snapshot(head.nonce, managed, e, elected, misses', elect')
  /\ pc' = IF elect' # elect THEN "storing" ELSE "idle"
  /\ page' = {}
  /\ refresh' = FALSE
  /\ UNCHANGED <<worldVars, have, loaded, stored, crashes>>

\* What the monitor is told of the node table: nothing, when it fails.
NodeTables == {Managed, {}}

\* The list this tick goes on with.
ListsNow == {list} \cup IF refresh THEN Lists ELSE {}

Store ==
  /\ pc = "storing"
  /\ pc' = "idle"
  /\ stored' = elect
  /\ UNCHANGED <<worldVars, monitorVars, crashes>>

\* Not tried again before the history changes.
StoreFails ==
  /\ pc = "storing"
  /\ pc' = "idle"
  /\ UNCHANGED <<worldVars, monitorVars, stored, crashes>>

\* The dashboard dies and is started again.
Crash ==
  /\ crashes < MaxCrashes
  /\ crashes' = crashes + 1
  /\ pc' = "idle" /\ page' = {} /\ refresh' = FALSE /\ have' = {}
  /\ list' = NoList /\ epoch' = 0 /\ ticks' = 0 /\ again' = FALSE
  /\ missEpoch' = 0 /\ misses' = None /\ seen' = {}
  /\ elect' = NoHistory /\ loaded' = FALSE /\ latest' = NoSnapshot
  /\ UNCHANGED <<worldVars, stored>>

Applies == \E new \in ListsNow, managed \in NodeTables : Apply(new, managed)

Next ==
  \/ Grow
  \/ NextMonth
  \/ PollFails
  \/ \E i \in Served : Poll(i)
  \/ Applies
  \/ Store
  \/ StoreFails
  \/ Crash

Spec == Init /\ [][Next]_vars

\* Ticks go on, and an indexer that is asked again and again answers now and
\* then with the newest block, and with the list of its epoch. The list of the
\* nodes can be read then.
ApplyCurrent ==
  /\ refresh
  /\ Apply(Managed \cap Elected[chain[tip].epoch], Managed)

FairSpec ==
  /\ Spec
  /\ SF_vars(Poll(tip)) /\ SF_vars(ApplyCurrent)
  /\ WF_vars(Applies) /\ WF_vars(Store \/ StoreFails)

-----------------------------------------------------------------------------
(* Properties.                                                             *)

HistoryOK(h) ==
  /\ h.month \in {0} \cup Months
  /\ h.last \in {0} \cup Epochs
  /\ h.history \in [Months -> [Managed -> Nat]]

\* Types; a window holds no more than its blocks, of as many numbers, the
\* blocks scored are blocks of the epoch the misses are counted for, and what
\* is still to be stored is new.
TypeOK ==
  /\ tip \in DOMAIN chain
  /\ month \in Months
  /\ pc \in {"idle", "polled", "storing"}
  /\ \A b \in have, c \in have : b.nonce - c.nonce < Window
  /\ list \in (SUBSET Managed) \cup {NoList}
  /\ epoch \in {0} \cup Epochs
  /\ ticks \in 0 .. StatsEvery - 1
  /\ seen \subseteq {b.nonce : b \in {c \in BlocksOf(chain) :
                                        c.epoch = missEpoch}}
  /\ misses \in [Managed -> Nat]
  /\ HistoryOK(elect) /\ HistoryOK(stored)
  /\ loaded = FALSE => elect = NoHistory
  /\ pc = "polled" => page # {} /\ page \subseteq BlocksOf(chain)

EpochsElected(v) ==
  {e \in {chain[i].epoch : i \in 1 .. tip} : v \in Elected[e]}

Total(h, v) ==
  LET sum[m \in 0 .. Cardinality(Months)] ==
        IF m = 0 THEN 0 ELSE sum[m - 1] + h.history[m][v]
  IN  sum[Cardinality(Months)]

\* LastEpoch is there "so a restart mid-month doesn't double-count the current
\* epoch" (snapshot.go:65): over all its months a history, in memory or
\* stored, credits a validator with no more epochs than it was elected in,
\* whatever the indexers answered, however often the dashboard died and
\* whatever could not be stored or read.
CountedOnce ==
  \A v \in Managed, h \in {elect, stored} :
    Total(h, v) <= Cardinality(EpochsElected(v))

\* The blocks of an epoch that bear signatures, without v's.
Unsigned(v, e) ==
  MissedBy(v, {b \in BlocksOf(chain) : b.epoch = e /\ b.signers # {}})

CellIsTrue(v, n, status, e) ==
  LET at == {b \in BlocksOf(chain) : b.nonce = n} IN
  IF status = "skipped" THEN at = {}
  ELSE IF status = "produced" THEN \E b \in at : b.producer = v
  ELSE at # {} /\ (status = "missed" => at \subseteq Unsigned(v, e))

\* The snapshot tells the truth about blocks, across ticks, lagging indexers
\* and epoch boundaries: a block shown as skipped does not exist, one shown as
\* produced is the validator's, one shown as missed is of the epoch and has
\* not its signature; and no block is counted as missed twice.
SnapshotTruth ==
  \A v \in DOMAIN latest.rows :
    LET row == latest.rows[v] IN
    /\ row.missed <= Cardinality(Unsigned(v, latest.epoch))
    /\ \A n \in DOMAIN row.timeline :
         CellIsTrue(v, n, row.timeline[n], latest.epoch)

\* Blocks of the current epoch with a consensus group are in the window.
Countable ==
  \E b \in PageAt(tip) :
    /\ b.epoch = chain[tip].epoch
    /\ b.signers # {}
    /\ InWindow(b, chain[tip].nonce)

\* The current epoch is counted in the end, however late its consensus data
\* comes and although calls fail and the dashboard restarts; and the list of
\* the epoch before does not stay.
Settles ==
  /\ <>[](Countable => elect.last = chain[tip].epoch)
  /\ []<>(list = Managed \cap Elected[chain[tip].epoch])

\* "counts one election per elected managed validator when a new epoch is
\* observed" (monitor.go:192). It does not when the node table cannot be read
\* at that moment: the epoch is counted, for nobody.
CreditsElected ==
  [][elect'.last > elect.last /\ loaded =>
       \A v \in Managed \cap Groups(have, elect'.last) :
         Total(elect', v) = Total(elect, v) + 1]_vars

\* "missed signings since epoch start" (snapshot.go:29): what is counted as
\* missed is a block the validator was to sign. It is not while the list is
\* that of the epoch before.
MissesWereDue ==
  \A v \in DOMAIN latest.rows :
    latest.rows[v].missed > 0 => v \in Elected[latest.epoch]
=============================================================================
