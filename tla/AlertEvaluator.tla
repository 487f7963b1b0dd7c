--------------------------- MODULE AlertEvaluator ---------------------------
(***************************************************************************)
(* The alert evaluator (internal/dashboard/alerting/evaluator.go) on top   *)
(* of the alerts table (internal/store/alert_store.go), with the operator  *)
(* who acknowledges alerts, a database that may refuse a write, and a      *)
(* dashboard that may die between any two of its steps.                    *)
(*                                                                         *)
(* A key is a rule applied to a node or a server, the evaluator's map key. *)
(* One tick is the evaluator's interval (15 seconds), which is also the    *)
(* interval at which agents poll their nodes; every duration is in ticks,  *)
(* and every time stamp is kept as an age that stops at the largest value  *)
(* some test of the code tells apart.                                      *)
(***************************************************************************)
EXTENDS Naturals, FiniteSets

CONSTANTS
  Keys,        \* rule and subject
  Ids,         \* identities of rows of the alerts table
  NoId,        \* no alert record
  Duration,    \* rule.DurationSec
  Cooldown,    \* rule.CooldownMin
  StaleAfter,  \* the five minutes of resolveStaleAlerts
  Threshold,   \* rule.Threshold of a stall rule
  Lookback,    \* stallLookback
  Faults       \* the database operations that may fail: "create", "update"

ASSUME AlertAssumption ==
  /\ Keys # {}
  /\ NoId \notin Ids
  /\ Duration \in Nat /\ Cooldown \in Nat \ {0} /\ StaleAfter \in Nat \ {0}
  /\ Threshold \in Nat /\ Lookback \in Nat /\ Threshold <= Lookback
  /\ Faults \subseteq {"create", "update"}

VARIABLES
  cond,     \* what evaluating a key's rule finds, or "stall": see its points
  points,   \* the metric points of its node, by age
  pc,       \* the evaluator: "down", "idle", "pass" or what it does inside one
  todo,     \* the keys this pass has yet to evaluate
  cur,      \* the key and the record of the step inside a pass
  mem,      \* Evaluator.states, and the record each state points to
  alerts,   \* the alerts table
  \* history, for the properties
  sent,     \* age of the last notification of an alert
  announced,\* the alerts an operator has been notified of
  unsaved,  \* the alerts whose last notification the table does not show
  stuck,    \* the rows whose resolution the database refused
  calm,     \* ticks since an evaluation last found a key normal
  heard     \* the keys polled, or whose rule was edited, since they fired

worldVars   == <<cond, points>>
historyVars == <<sent, announced, unsaved, stuck, calm, heard>>
vars == <<worldVars, pc, todo, cur, mem, alerts, historyVars>>

Cap(n, max) == IF n >= max THEN max ELSE n + 1

Absent == [st |-> "normal", first |-> 0, last |-> 0, notified |-> 0,
           rec |-> NoId, acked |-> FALSE]
NoRow  == [state |-> "none", key |-> CHOOSE k \in Keys : TRUE,
           notified |-> 0, acked |-> FALSE]
Nothing == [key |-> CHOOSE k \in Keys : TRUE, id |-> NoId]

Init ==
  /\ cond = [k \in Keys |-> "normal"]
  /\ points = [k \in Keys |-> [a \in 0..Lookback |-> "none"]]
  /\ pc = "down"
  /\ todo = {}
  /\ cur = Nothing
  /\ mem = [k \in Keys |-> Absent]
  /\ alerts = [i \in Ids |-> NoRow]
  /\ sent = [i \in Ids |-> Cooldown]
  /\ announced = {}
  /\ unsaved = {}
  /\ stuck = {}
  /\ calm = [k \in Keys |-> Duration]
  /\ heard = {}

-----------------------------------------------------------------------------
(* The world the rules look at *)

\* A metric crosses its threshold or comes back, a heartbeat grows stale or
\* returns, a node stops or starts; the rule is disabled or deleted, its
\* subject is deleted or put into maintenance, and passes skip it; or the rule
\* is edited and has the condition "stall", whose finding comes from the
\* points.  A pass evaluates a key once, so that a change during a pass is one
\* before or after it.
Conditions == {"normal", "breached", "skipped", "stall"}
Change(k) ==
  /\ pc \in {"idle", "down"}
  /\ \E c \in Conditions : cond' = [cond EXCEPT ![k] = c]
  /\ heard' = heard \cup {k}
  /\ UNCHANGED <<points, pc, todo, cur, mem, alerts, sent, announced, unsaved,
                 stuck, calm>>

\* The agent polls a node: a point is stored, of the same value as the one
\* before it or of another.  A poll that fails stores nothing.
Poll(k) ==
  /\ pc \in {"idle", "down"}
  /\ points[k][0] = "none"
  /\ \E p \in {"same", "new"} : points' = [points EXCEPT ![k][0] = p]
  /\ heard' = heard \cup {k}
  /\ UNCHANGED <<cond, pc, todo, cur, mem, alerts, sent, announced, unsaved,
                 stuck, calm>>

-----------------------------------------------------------------------------
(* Rules *)

\* Points of the last value: a point is one of them when every point after it
\* repeats the value of the one before.
LastRun(pts) ==
  {a \in 0..Lookback : /\ pts[a] # "none"
                       /\ \A b \in 0..Lookback : b < a => pts[b] # "new"}

\* evaluateStall: no point counts as a stall and a single one does not; else
\* the first point of the last value is old enough.
Stalled(pts) ==
  LET n == Cardinality({a \in 0..Lookback : pts[a] # "none"})
  IN CASE n = 0 -> Threshold > 0
       [] n = 1 -> FALSE
       [] OTHER -> \E a \in LastRun(pts) : a >= Threshold

\* What an evaluation of the rule finds now.  "normal" stands for a result
\* that is not breached and for markNormal, which have the same effect.
Finding(k) ==
  IF cond[k] # "stall" THEN cond[k]
  ELSE IF Stalled(points[k]) THEN "breached" ELSE "normal"

-----------------------------------------------------------------------------
(* The alerts table *)

Ok(op) == IF op \in Faults THEN BOOLEAN ELSE {TRUE}

Active(k) == {i \in Ids : alerts[i].state = "firing" /\ alerts[i].key = k}

\* A resolved row is read by nobody but the history page: its identity is
\* used again for a later alert.
Unused == {i \in Ids : /\ alerts[i].state # "firing"
                       /\ \A k \in Keys : mem[k].rec # i
                       /\ cur.id # i}

\* UpdateAlert: the whole record in memory replaces the row, which is not
\* there if its creation failed.
Written(state, s) ==
  [alerts EXCEPT ![s.rec] =
     IF @.state = "none" THEN @
     ELSE [@ EXCEPT !.state = state, !.notified = s.notified, !.acked = s.acked]]

\* The operator acknowledges an active alert.
Acknowledge(i) ==
  /\ alerts[i].state = "firing"
  /\ alerts' = [alerts EXCEPT ![i].acked = TRUE]
  /\ UNCHANGED <<worldVars, pc, todo, cur, mem, historyVars>>

-----------------------------------------------------------------------------
(* The evaluator *)

\* Time passes: one tick for everything that has an age.
Age ==
  /\ points' = [k \in Keys |->
                  [a \in 0..Lookback |-> IF a = 0 THEN "none" ELSE points[k][a - 1]]]
  /\ mem' = [k \in Keys |->
               [mem[k] EXCEPT !.first = Cap(@, Duration),
                              !.last = Cap(@, StaleAfter + 1),
                              !.notified = Cap(@, Cooldown)]]
  /\ alerts' = [i \in Ids |-> [alerts[i] EXCEPT !.notified = Cap(@, Cooldown)]]
  /\ sent' = [i \in Ids |-> Cap(sent[i], Cooldown)]
  /\ calm' = [k \in Keys |-> Cap(calm[k], Duration)]

\* Bug for CooldownRespected: NotifiedAt is not read back.
Hydrated_NeverNotified(k, last) ==
  IF Active(k) = {} THEN Absent
  ELSE LET i == CHOOSE i \in Active(k) : TRUE
       IN [st |-> "firing", first |-> Duration, last |-> last,
           notified |-> Cooldown, rec |-> i, acked |-> alerts[i].acked]

\* The state hydrateFromDB makes of an active alert: last seen when the row
\* was created, at any time before.
Hydrated(k, last) ==
  IF Active(k) = {} THEN Absent
  ELSE LET i == CHOOSE i \in Active(k) : TRUE
       IN [st |-> "firing", first |-> Duration, last |-> last,
           notified |-> alerts[i].notified, rec |-> i, acked |-> alerts[i].acked]

\* Bug for ActiveAlertTracked: nothing is taken up.
Start_NoHydrate ==
  /\ pc = "down"
  /\ pc' = "idle"
  /\ calm' = [k \in Keys |-> 0]
  /\ stuck' = {}
  /\ UNCHANGED <<worldVars, todo, cur, mem, alerts, sent, announced, unsaved,
                 heard>>

\* The dashboard starts: hydrateFromDB takes up the active alerts.
Start ==
  /\ pc = "down"
  /\ pc' = "idle"
  /\ \E last \in {0, StaleAfter + 1} :
       mem' = [k \in Keys |-> Hydrated(k, last)]
  /\ calm' = [k \in Keys |-> 0]
  /\ stuck' = {}
  /\ UNCHANGED <<worldVars, todo, cur, alerts, sent, announced, unsaved, heard>>

\* It dies, wherever the evaluator is, and everything in memory with it.
Die ==
  /\ pc # "down"
  /\ pc' = "down"
  /\ todo' = {}
  /\ cur' = Nothing
  /\ mem' = [k \in Keys |-> Absent]
  /\ UNCHANGED <<worldVars, alerts, historyVars>>

\* Time passes while it is down, or over a pass that gives up at once: the
\* rules, the nodes or the servers cannot be listed, or no rule is enabled.
Elapse ==
  /\ pc \in {"down", "idle"}
  /\ Age
  /\ UNCHANGED <<cond, pc, todo, cur, announced, unsaved, stuck, heard>>

\* A tick of the evaluation loop.
StartPass ==
  /\ pc = "idle"
  /\ pc' = "pass"
  /\ todo' = Keys
  /\ Age
  /\ UNCHANGED <<cond, cur, announced, unsaved, stuck, heard>>

\* A key this pass does not evaluate: its state is left alone.
Skip(k) ==
  /\ pc = "pass" /\ k \in todo
  /\ Finding(k) = "skipped"
  /\ todo' = todo \ {k}
  /\ UNCHANGED <<worldVars, pc, cur, mem, alerts, historyVars>>

\* Bug for FiresAfterSustainedBreach: only an alert that fired is dropped.
Normal_KeepsPending(k) ==
  /\ pc = "pass" /\ k \in todo
  /\ Finding(k) = "normal"
  /\ mem[k].rec = NoId
  /\ todo' = todo \ {k}
  /\ calm' = [calm EXCEPT ![k] = 0]
  /\ UNCHANGED <<worldVars, pc, cur, mem, alerts, sent, announced, unsaved,
                 stuck, heard>>

\* processResult, not breached: the state goes, and an alert that fired is
\* resolved in the table; the operator is told next.
Normal(k) ==
  /\ pc = "pass" /\ k \in todo
  /\ Finding(k) = "normal"
  /\ todo' = todo \ {k}
  /\ mem' = [mem EXCEPT ![k] = Absent]
  /\ calm' = [calm EXCEPT ![k] = 0]
  /\ \/ /\ mem[k].rec = NoId
        /\ UNCHANGED <<pc, cur, alerts, stuck>>
     \/ /\ mem[k].rec # NoId
        /\ pc' = "resolving"
        /\ cur' = [key |-> k, id |-> mem[k].rec]
        /\ \E ok \in Ok("update") :
             /\ alerts' = IF ok THEN Written("resolved", mem[k]) ELSE alerts
             /\ stuck' = IF ok THEN stuck ELSE stuck \cup {mem[k].rec}
  /\ UNCHANGED <<worldVars, sent, announced, unsaved, heard>>

\* Bug for AlertsSettle: it is NotifiedAt that each breach refreshes.
Seen_Notified(k) ==
  IF mem[k].st = "normal" THEN [Absent EXCEPT !.st = "pending"]
                          ELSE [mem[k] EXCEPT !.last = 0, !.notified = 0]

\* The state processResult works on: a new one is pending from now on.
Seen(k) == IF mem[k].st = "normal" THEN [Absent EXCEPT !.st = "pending"]
                                   ELSE [mem[k] EXCEPT !.last = 0]

\* Breached, but not for long enough, or notified of not long ago.
Wait(k) ==
  /\ pc = "pass" /\ k \in todo
  /\ Finding(k) = "breached"
  /\ \/ Seen(k).st = "pending" /\ Seen(k).first < Duration
     \/ Seen(k).st = "firing"  /\ Seen(k).notified < Cooldown
  /\ todo' = todo \ {k}
  /\ mem' = [mem EXCEPT ![k] = Seen(k)]
  /\ UNCHANGED <<worldVars, pc, cur, alerts, historyVars>>

\* Breached for long enough.
Fires(k) ==
  /\ pc = "pass" /\ k \in todo
  /\ Finding(k) = "breached"
  /\ Seen(k).st = "pending" /\ Seen(k).first >= Duration

\* Bug for TypeOK: the existing record is not attached to the state.
Reattach_NoRecord(k) ==
  /\ Fires(k)
  /\ todo' = todo \ {k}
  /\ Active(k) # {}
  /\ mem' = [mem EXCEPT ![k] = [Seen(k) EXCEPT !.st = "firing"]]
  /\ UNCHANGED <<worldVars, pc, cur, alerts, historyVars>>

\* fireAlert finds an active alert of the key and takes it up.
Reattach(k) ==
  /\ Fires(k)
  /\ todo' = todo \ {k}
  /\ \E i \in Active(k) :
       /\ mem' = [mem EXCEPT ![k] = [Seen(k) EXCEPT
                    !.st = "firing", !.rec = i, !.acked = alerts[i].acked,
                    !.notified = alerts[i].notified]]
       /\ stuck' = stuck \ {i}
  /\ UNCHANGED <<worldVars, pc, cur, alerts, sent, announced, unsaved, calm,
                 heard>>

\* Bug for ActiveAlertTracked: no test for an active alert of the key.
Fire_NoDedup(k) ==
  /\ Fires(k)
  /\ todo' = todo \ {k}
  /\ \E i \in Unused :
       /\ mem' = [mem EXCEPT ![k] = [Seen(k) EXCEPT
                    !.st = "firing", !.rec = i, !.acked = FALSE, !.notified = 0]]
       /\ alerts' = [alerts EXCEPT ![i] = [state |-> "firing", key |-> k,
                                           notified |-> 0, acked |-> FALSE]]
       /\ cur' = [key |-> k, id |-> i]
       /\ sent' = [sent EXCEPT ![i] = Cooldown]
       /\ announced' = announced \ {i}
  /\ pc' = "announcing"
  /\ UNCHANGED <<worldVars, unsaved, stuck, calm, heard>>

\* Or it creates one, in memory whether or not the database takes it, and
\* marks it as notified; the operator is told next.
Fire(k) ==
  /\ Fires(k)
  /\ Active(k) = {}
  /\ todo' = todo \ {k}
  /\ \E i \in Unused, ok \in Ok("create") :
       /\ mem' = [mem EXCEPT ![k] = [Seen(k) EXCEPT
                    !.st = "firing", !.rec = i, !.acked = FALSE, !.notified = 0]]
       /\ alerts' = [alerts EXCEPT ![i] =
                       IF ok THEN [state |-> "firing", key |-> k,
                                   notified |-> 0, acked |-> FALSE]
                             ELSE NoRow]
       /\ cur' = [key |-> k, id |-> i]
       /\ sent' = [sent EXCEPT ![i] = Cooldown]
       /\ announced' = announced \ {i}
       /\ unsaved' = unsaved \ {i}
       /\ stuck' = stuck \ {i}
  /\ pc' = "announcing"
  /\ heard' = heard \ {k}
  /\ UNCHANGED <<worldVars, calm>>

\* The notification of a new alert.
Announce ==
  /\ pc = "announcing"
  /\ pc' = "pass"
  /\ cur' = Nothing
  /\ sent' = [sent EXCEPT ![cur.id] = 0]
  /\ announced' = announced \cup {cur.id}
  /\ UNCHANGED <<worldVars, todo, mem, alerts, unsaved, stuck, calm, heard>>

\* Still breached, and the cooldown is over: the operator is told again ...
Renotify(k) ==
  /\ pc = "pass" /\ k \in todo
  /\ Finding(k) = "breached"
  /\ Seen(k).st = "firing" /\ Seen(k).notified >= Cooldown
  /\ todo' = todo \ {k}
  /\ mem' = [mem EXCEPT ![k] = [Seen(k) EXCEPT !.notified = 0]]
  /\ sent' = [sent EXCEPT ![mem[k].rec] = 0]
  /\ announced' = announced \cup {mem[k].rec}
  /\ unsaved' = unsaved \cup {mem[k].rec}
  /\ pc' = "saving"
  /\ cur' = [key |-> k, id |-> mem[k].rec]
  /\ UNCHANGED <<worldVars, alerts, stuck, calm, heard>>

\* ... and the record is saved, an error ignored.
Save ==
  /\ pc = "saving"
  /\ pc' = "pass"
  /\ cur' = Nothing
  /\ \E ok \in Ok("update") :
       /\ alerts' = IF ok THEN Written("firing", mem[cur.key]) ELSE alerts
       /\ unsaved' = IF ok THEN unsaved \ {cur.id} ELSE unsaved
  /\ UNCHANGED <<worldVars, todo, mem, sent, announced, stuck, calm, heard>>

\* The notification of a recovery.
Recover ==
  /\ pc = "resolving"
  /\ pc' = "pass"
  /\ cur' = Nothing
  /\ UNCHANGED <<worldVars, todo, mem, alerts, historyVars>>

Stale(k) == mem[k].st # "normal" /\ mem[k].last > StaleAfter

\* Bug for AlertsSettle: the state goes, the row stays.
ResolveStale_KeepsRow(k) ==
  /\ pc = "pass" /\ todo = {}
  /\ Stale(k)
  /\ mem' = [mem EXCEPT ![k] = Absent]
  /\ UNCHANGED <<worldVars, pc, todo, cur, alerts, historyVars>>

\* resolveStaleAlerts, at the end of a pass: the states no pass has seen
\* breached for five minutes.  Nobody is told.
ResolveStale(k) ==
  /\ pc = "pass" /\ todo = {}
  /\ Stale(k)
  /\ mem' = [mem EXCEPT ![k] = Absent]
  /\ \/ /\ mem[k].rec = NoId
        /\ UNCHANGED <<alerts, stuck>>
     \/ /\ mem[k].rec # NoId
        /\ \E ok \in Ok("update") :
             /\ alerts' = IF ok THEN Written("resolved", mem[k]) ELSE alerts
             /\ stuck' = IF ok THEN stuck ELSE stuck \cup {mem[k].rec}
  /\ UNCHANGED <<worldVars, pc, todo, cur, sent, announced, unsaved, calm, heard>>

EndPass ==
  /\ pc = "pass" /\ todo = {}
  /\ \A k \in Keys : ~Stale(k)
  /\ pc' = "idle"
  /\ UNCHANGED <<worldVars, todo, cur, mem, alerts, historyVars>>

-----------------------------------------------------------------------------
EvaluateKey(k) == \/ Skip(k) \/ Normal(k) \/ Wait(k) \/ Reattach(k)
                  \/ Fire(k) \/ Renotify(k) \/ ResolveStale(k)

Step == \/ StartPass \/ EndPass
        \/ Announce \/ Save \/ Recover
        \/ \E k \in Keys : EvaluateKey(k)

Next == \/ Step
        \/ Start \/ Die \/ Elapse
        \/ \E k \in Keys : Change(k) \/ Poll(k)
        \/ \E i \in Ids : Acknowledge(i)

Spec == Init /\ [][Next]_vars

\* The evaluation loop runs; a dashboard that is down is started again.
FairSpec == Spec /\ WF_vars(Step) /\ WF_vars(Start)

-----------------------------------------------------------------------------
(* Properties *)

MemOf == [st : {"normal", "pending", "firing"}, first : 0..Duration,
          last : 0..(StaleAfter + 1), notified : 0..Cooldown,
          rec : Ids \cup {NoId}, acked : BOOLEAN]
RowOf == [state : {"none", "firing", "resolved"}, key : Keys,
          notified : 0..Cooldown, acked : BOOLEAN]

\* The types; a state has a record exactly when it is firing, and no two
\* states share one.
TypeOK ==
  /\ cond \in [Keys -> Conditions]
  /\ points \in [Keys -> [0..Lookback -> {"none", "same", "new"}]]
  /\ pc \in {"down", "idle", "pass", "announcing", "saving", "resolving"}
  /\ todo \subseteq Keys
  /\ cur \in [key : Keys, id : Ids \cup {NoId}]
  /\ mem \in [Keys -> MemOf]
  /\ alerts \in [Ids -> RowOf]
  /\ sent \in [Ids -> 0..Cooldown]
  /\ announced \subseteq Ids /\ unsaved \subseteq Ids /\ stuck \subseteq Ids
  /\ calm \in [Keys -> 0..Duration]
  /\ heard \subseteq Keys
  /\ \A k \in Keys : mem[k].rec # NoId <=> mem[k].st = "firing"
  /\ \A k, l \in Keys : mem[k].rec = mem[l].rec /\ k # l => mem[k].rec = NoId

\* However often the dashboard restarts and the database refuses a write, a
\* rule has at most one active alert for a node or server ("Fix: Duplicate
\* alerts on restart", CHANGELOG.md:244). And it is the one the running
\* evaluator works on, and so can resolve; only a row whose resolution the
\* database refused is not, until the rule fires again or the dashboard
\* restarts.
ActiveAlertTracked ==
  /\ \A k \in Keys : \A i, j \in Active(k) : i = j
  /\ pc # "down" =>
       \A i \in Ids : alerts[i].state = "firing" =>
         mem[alerts[i].key].rec = i \/ i \in stuck

\* "Cooldown period prevents notification spam" (CHANGELOG.md:346): an alert
\* is not notified of twice within its cooldown, not even across a restart,
\* unless the table does not know of the last time.
CooldownRespected ==
  [][\A i \in Ids :
       sent'[i] = 0 /\ sent[i] # 0 => sent[i] = Cooldown \/ i \in unsaved]_vars

\* An alert fires only when its rule has not been found normal, by this
\* process, for the duration of the rule.
FiresAfterSustainedBreach ==
  [][\A k \in Keys :
       mem[k].st # "firing" /\ mem'[k].st = "firing" /\ pc # "down" =>
         calm[k] = Duration]_vars

Up == <>[](pc # "down")

\* An operator hears of every alert that stays: even one whose row was
\* written by a dashboard that died before it sent the notification. And when a
\* rule is found normal from now on, or is not evaluated any more, no alert of
\* it stays active, unless the database refuses to resolve it.
AlertsSettle ==
  \A k \in Keys :
    /\ Up /\ <>[](cond[k] = "breached") =>
         []<>(mem[k].st = "firing" /\ mem[k].rec \in announced)
    /\ Up /\ <>[](cond[k] \in {"normal", "skipped"}) =>
         <>[](Active(k) \subseteq stuck)

\* "This does not resolve the alert — it just marks it as seen"
\* (tutorial.md:614): an acknowledged alert stays acknowledged.
AckSticks ==
  [][\A i \in Ids : alerts[i].state = "firing" /\ alerts[i].acked =>
                      alerts'[i].acked]_vars

\* "No data at all ... treat as stalled (no metrics arriving)"
\* (evaluator.go:413): a node is not reported as recovered from a stall while
\* nothing is heard of it.
RecoveredNodeWasHeard ==
  pc = "resolving" /\ cond[cur.key] = "stall" => cur.key \in heard
=============================================================================
