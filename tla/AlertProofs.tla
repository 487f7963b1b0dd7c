---------------------------- MODULE AlertProofs ----------------------------
(***************************************************************************)
(* Theorems about AlertEvaluator, for any number of rules, nodes and rows  *)
(* of the alerts table, any durations, and every write the database may    *)
(* refuse.  Four of the properties follow from one inductive invariant.    *)
(***************************************************************************)
EXTENDS AlertEvaluator, TLAPS

\* What a state in memory points to is an active alert of its key, or a record
\* that never reached the table.
Attached ==
  \A k \in Keys : mem[k].rec # NoId =>
    \/ alerts[mem[k].rec].state = "none"
    \/ alerts[mem[k].rec].state = "firing" /\ alerts[mem[k].rec].key = k

\* Memory and table know of the last notification, or of a later one, unless
\* it could not be saved.
Dated ==
  /\ \A k \in Keys : mem[k].rec # NoId =>
       mem[k].rec \in unsaved \/ mem[k].notified <= sent[mem[k].rec]
  /\ \A i \in Ids : alerts[i].state = "firing" =>
       i \in unsaved \/ alerts[i].notified <= sent[i]

\* The step inside a pass is at the record its key points to.
AtRecord ==
  /\ pc \in {"announcing", "saving"} => cur.id \in Ids /\ mem[cur.key].rec = cur.id
  /\ pc = "announcing" => /\ sent[cur.id] = Cooldown
                          /\ mem[cur.key].notified = 0 /\ alerts[cur.id].notified = 0
  /\ pc = "saving" => mem[cur.key].notified <= sent[cur.id]

\* What is pending has not been found normal since.
PendingSince == \A k \in Keys : mem[k].st = "pending" => mem[k].first <= calm[k]

IInv == TypeOK /\ ActiveAlertTracked /\ Attached /\ Dated /\ AtRecord /\ PendingSince

USE AlertAssumption DEF vars, worldVars, historyVars

\* A state has a record exactly when it is firing, and no two share one.
Paired(m) ==
  /\ m \in [Keys -> MemOf]
  /\ \A k \in Keys : m[k].rec # NoId <=> m[k].st = "firing"
  /\ \A k, l \in Keys : m[k].rec = m[l].rec /\ k # l => m[k].rec = NoId

\* Every step of the evaluator, the operator and the world keeps the types; that
\* no two keys share a record rests on what the records point to.
LEMMA TypeStep == ASSUME TypeOK, Attached, AtRecord, [Next]_vars PROVE TypeOK'
<1>1. /\ Absent \in MemOf /\ Absent.rec = NoId /\ Absent.st = "normal"
      /\ NoRow \in RowOf /\ Nothing \in [key : Keys, id : Ids \cup {NoId}]
  BY DEF Absent, MemOf, NoRow, RowOf, Nothing
<1>2. Paired(mem) /\ mem \in [Keys -> MemOf] /\ alerts \in [Ids -> RowOf]
  BY DEF TypeOK, Paired
<1>3. ASSUME NEW k \in Keys, NEW s \in MemOf, s.rec # NoId <=> s.st = "firing",
             s.rec # NoId => \A l \in Keys \ {k} : mem[l].rec # s.rec
      PROVE  Paired([mem EXCEPT ![k] = s])
  BY <1>2, <1>3 DEF Paired
<1>4. \A k \in Keys : Paired([mem EXCEPT ![k] = Absent])
  BY <1>1, <1>3
<1>5. ASSUME NEW k \in Keys
      PROVE  /\ Seen(k) \in MemOf
             /\ mem[k].st # "normal" => Seen(k).rec = mem[k].rec /\ Seen(k).st = mem[k].st
             /\ mem[k].st = "normal" => Seen(k).rec = NoId /\ Seen(k).st = "pending"
             /\ Seen(k).rec = mem[k].rec
  <2>1. mem[k] \in MemOf /\ (mem[k].st = "normal" => mem[k].rec = NoId)
    BY <1>2, <1>5 DEF Paired
  <2>2. CASE mem[k].st = "normal"
    BY <1>1, <2>1, <2>2 DEF Seen, MemOf
  <2>3. CASE mem[k].st # "normal"
    BY <2>1, <2>3 DEF Seen, MemOf
  <2>4. QED
    BY <2>2, <2>3
<1>6. ASSUME NEW state \in {"firing", "resolved"}, NEW k \in Keys
      PROVE  Written(state, mem[k]) \in [Ids -> RowOf]
  <2>1. mem[k].notified \in 0..Cooldown /\ mem[k].acked \in BOOLEAN
    BY <1>2, <1>6 DEF MemOf
  <2>2. ASSUME NEW i \in Ids
        PROVE  [alerts[i] EXCEPT !.state = state, !.notified = mem[k].notified,
                                 !.acked = mem[k].acked] \in RowOf
    BY <1>2, <2>1, <2>2 DEF RowOf
  <2>3. QED
    BY <1>2, <2>2 DEF Written
<1>7. ASSUME Age
      PROVE  /\ points' \in [Keys -> [0..Lookback -> {"none", "same", "new"}]]
             /\ Paired(mem') /\ alerts' \in [Ids -> RowOf]
             /\ sent' \in [Ids -> 0..Cooldown] /\ calm' \in [Keys -> 0..Duration]
  <2>1. \A n \in 0..Duration : Cap(n, Duration) \in 0..Duration
    BY DEF Cap
  <2>2. \A n \in 0..Cooldown : Cap(n, Cooldown) \in 0..Cooldown
    BY DEF Cap
  <2>3. \A n \in 0..(StaleAfter + 1) : Cap(n, StaleAfter + 1) \in 0..(StaleAfter + 1)
    BY DEF Cap
  <2>4. points' \in [Keys -> [0..Lookback -> {"none", "same", "new"}]]
    <3>1. ASSUME NEW k \in Keys, NEW a \in 0..Lookback, a # 0
          PROVE  points[k][a - 1] \in {"none", "same", "new"}
      <4>1. a - 1 \in 0..Lookback
        BY <3>1
      <4>2. QED
        BY <4>1 DEF TypeOK
    <3>2. QED
      BY <1>7, <3>1 DEF Age
  <2>5. mem' \in [Keys -> MemOf] /\ \A k \in Keys : mem'[k].rec = mem[k].rec /\ mem'[k].st = mem[k].st
    <3>1. ASSUME NEW k \in Keys
          PROVE  mem'[k] \in MemOf /\ mem'[k].rec = mem[k].rec /\ mem'[k].st = mem[k].st
      <4>1. mem[k] \in MemOf
        BY <1>2
      <4>2. mem'[k] = [mem[k] EXCEPT !.first = Cap(mem[k].first, Duration),
                                     !.last = Cap(mem[k].last, StaleAfter + 1),
                                     !.notified = Cap(mem[k].notified, Cooldown)]
        BY <1>7 DEF Age
      <4>3. /\ Cap(mem[k].first, Duration) \in 0..Duration
            /\ Cap(mem[k].last, StaleAfter + 1) \in 0..(StaleAfter + 1)
            /\ Cap(mem[k].notified, Cooldown) \in 0..Cooldown
        BY <2>1, <2>2, <2>3, <4>1 DEF MemOf
      <4> QED
        BY <4>1, <4>2, <4>3 DEF MemOf
    <3>2. mem' = [k \in Keys |-> mem'[k]]
      BY <1>7 DEF Age
    <3> QED
      BY <3>1, <3>2
  <2>6. alerts' \in [Ids -> RowOf]
    BY <1>2, <1>7, <2>2 DEF Age, RowOf
  <2>7. sent' \in [Ids -> 0..Cooldown] /\ calm' \in [Keys -> 0..Duration]
    BY <1>7, <2>1, <2>2 DEF Age, TypeOK
  <2>8. Paired(mem')
    BY <1>2, <2>5 DEF Paired
  <2>9. QED
    BY <2>4, <2>6, <2>7, <2>8 DEF Paired
<1>10. ASSUME NEW k \in Keys, Change(k) PROVE TypeOK'
  BY <1>10 DEF TypeOK, Change
<1>11. ASSUME NEW k \in Keys, Poll(k) PROVE TypeOK'
  BY <1>11 DEF TypeOK, Poll
<1>12. ASSUME NEW i \in Ids, Acknowledge(i) PROVE TypeOK'
  <2>1. alerts' \in [Ids -> RowOf]
    BY <1>2, <1>12 DEF Acknowledge, RowOf
  <2>2. QED
    BY <1>12, <2>1 DEF TypeOK, Acknowledge
<1>13. ASSUME Start PROVE TypeOK'
  <2>1. PICK last \in {0, StaleAfter + 1} : mem' = [k \in Keys |-> Hydrated(k, last)]
    BY <1>13 DEF Start
  <2>2. \A k \in Keys :
          \/ mem'[k] = Absent
          \/ /\ mem'[k] \in MemOf /\ mem'[k].st = "firing" /\ mem'[k].rec \in Active(k)
    <3> SUFFICES ASSUME NEW k \in Keys
                 PROVE  \/ mem'[k] = Absent
                        \/ /\ mem'[k] \in MemOf /\ mem'[k].st = "firing"
                           /\ mem'[k].rec \in Active(k)
      OBVIOUS
    <3>1. mem'[k] = Hydrated(k, last)
      BY <2>1
    <3>2. CASE Active(k) = {}
      BY <3>1, <3>2 DEF Hydrated
    <3>3. CASE Active(k) # {}
      <4>1. PICK i \in Active(k) : i = (CHOOSE a \in Active(k) : TRUE)
        BY <3>3
      <4>2. i \in Ids /\ alerts[i].notified \in 0..Cooldown /\ alerts[i].acked \in BOOLEAN
        BY <1>2, <4>1 DEF Active, RowOf
      <4>3. mem'[k] = [st |-> "firing", first |-> Duration, last |-> last,
                       notified |-> alerts[i].notified, rec |-> i, acked |-> alerts[i].acked]
        BY <3>1, <3>3, <4>1 DEF Hydrated
      <4>4. Duration \in 0..Duration /\ last \in 0..(StaleAfter + 1)
        BY AlertAssumption
      <4>5. mem'[k] \in MemOf
        BY <4>2, <4>3, <4>4 DEF MemOf
      <4> QED
        BY <4>1, <4>3, <4>5
    <3> QED
      BY <3>2, <3>3
  <2>3. Paired(mem')
    BY <1>1, <2>1, <2>2 DEF Paired, Active
  <2>4. QED
    BY <1>13, <2>3 DEF TypeOK, Start, Paired
<1>14. ASSUME Die PROVE TypeOK'
  <2>1. Paired(mem')
    BY <1>1, <1>14 DEF Die, Paired
  <2>2. QED
    BY <1>1, <1>14, <2>1 DEF TypeOK, Die, Paired
<1>15. ASSUME Elapse PROVE TypeOK'
  BY <1>7, <1>15 DEF TypeOK, Elapse, Paired
<1>16. ASSUME StartPass PROVE TypeOK'
  BY <1>7, <1>16 DEF TypeOK, StartPass, Paired
<1>17. ASSUME NEW k \in Keys, Skip(k) PROVE TypeOK'
  BY <1>17 DEF TypeOK, Skip
<1>18. ASSUME NEW k \in Keys, Normal(k) PROVE TypeOK'
  <2>1. Paired(mem') /\ mem[k].rec \in Ids \cup {NoId}
    BY <1>2, <1>4, <1>18 DEF Normal, MemOf
  <2>2. alerts' \in [Ids -> RowOf] /\ stuck' \subseteq Ids
    BY <1>2, <1>6, <1>18, <2>1 DEF Normal, TypeOK
  <2>3. pc' \in {"pass", "resolving"} /\ cur' \in [key : Keys, id : Ids \cup {NoId}]
    BY <1>18, <2>1 DEF Normal, TypeOK
  <2>4. calm' \in [Keys -> 0..Duration] /\ todo' \subseteq Keys
    BY <1>18 DEF Normal, TypeOK
  <2>5. QED
    BY <1>18, <2>1, <2>2, <2>3, <2>4 DEF TypeOK, Normal, Paired
<1>19. ASSUME NEW k \in Keys, Wait(k) PROVE TypeOK'
  <2>1. Paired(mem')
    BY <1>2, <1>3, <1>5, <1>19 DEF Wait, Paired
  <2>2. QED
    BY <1>19, <2>1 DEF TypeOK, Wait, Paired
<1>20. ASSUME NEW k \in Keys, NEW i \in Ids, \A l \in Keys \ {k} : mem[l].rec # i,
              NEW n \in 0..Cooldown, NEW b \in BOOLEAN
       PROVE  Paired([mem EXCEPT ![k] = [Seen(k) EXCEPT !.st = "firing", !.rec = i,
                                                       !.acked = b, !.notified = n]])
  <2> DEFINE s == [Seen(k) EXCEPT !.st = "firing", !.rec = i, !.acked = b, !.notified = n]
  <2>1. s \in MemOf /\ s.st = "firing" /\ s.rec = i
    BY <1>5 DEF MemOf
  <2> HIDE DEF s
  <2>2. QED
    BY <1>3, <1>20, <2>1 DEF s
<1>21. ASSUME NEW k \in Keys, Reattach(k) PROVE TypeOK'
  <2>1. PICK i \in Active(k) :
          /\ mem' = [mem EXCEPT ![k] = [Seen(k) EXCEPT !.st = "firing", !.rec = i,
                       !.acked = alerts[i].acked, !.notified = alerts[i].notified]]
          /\ stuck' = stuck \ {i}
    BY <1>21 DEF Reattach
  <2>2. /\ i \in Ids /\ alerts[i].key = k /\ alerts[i].state = "firing"
        /\ alerts[i].acked \in BOOLEAN /\ alerts[i].notified \in 0..Cooldown
    BY <1>2 DEF Active, RowOf
  <2>3. \A l \in Keys \ {k} : mem[l].rec # i
    BY <2>2 DEF Attached
  <2>4. Paired(mem')
    BY <1>20, <2>1, <2>2, <2>3
  <2>5. QED
    BY <1>21, <2>1, <2>4 DEF TypeOK, Reattach, Fires, Paired
<1>22. ASSUME NEW k \in Keys, Fire(k) PROVE TypeOK'
  <2>1. PICK i \in Unused, ok \in Ok("create") :
          /\ mem' = [mem EXCEPT ![k] = [Seen(k) EXCEPT
                       !.st = "firing", !.rec = i, !.acked = FALSE, !.notified = 0]]
          /\ alerts' = [alerts EXCEPT ![i] =
                          IF ok THEN [state |-> "firing", key |-> k,
                                      notified |-> 0, acked |-> FALSE]
                                ELSE NoRow]
          /\ cur' = [key |-> k, id |-> i]
          /\ sent' = [sent EXCEPT ![i] = Cooldown]
          /\ announced' = announced \ {i}
          /\ unsaved' = unsaved \ {i}
          /\ stuck' = stuck \ {i}
    BY <1>22 DEF Fire
  <2>2. i \in Ids /\ \A l \in Keys : mem[l].rec # i
    BY DEF Unused
  <2>3. Paired([mem EXCEPT ![k] = [Seen(k) EXCEPT
                       !.st = "firing", !.rec = i, !.acked = FALSE, !.notified = 0]])
    <3>1. 0 \in 0..Cooldown /\ FALSE \in BOOLEAN /\ \A l \in Keys \ {k} : mem[l].rec # i
      BY <2>2
    <3>2. QED
      BY <1>20, <2>2, <3>1
  <2>4. [state |-> "firing", key |-> k, notified |-> 0, acked |-> FALSE] \in RowOf
    BY DEF RowOf
  <2>5. alerts' \in [Ids -> RowOf] /\ sent' \in [Ids -> 0..Cooldown]
    BY <1>1, <1>2, <2>1, <2>2, <2>4 DEF TypeOK
  <2>6. QED
    BY <1>22, <2>1, <2>2, <2>3, <2>5 DEF TypeOK, Fire, Fires, Paired
<1>23. ASSUME Announce PROVE TypeOK'
  BY <1>1, <1>23 DEF TypeOK, AtRecord, Announce
<1>24. ASSUME NEW k \in Keys, Renotify(k) PROVE TypeOK'
  <2> DEFINE s == [Seen(k) EXCEPT !.notified = 0]
  <2>1. s \in MemOf /\ s.st = "firing" /\ s.rec = mem[k].rec /\ mem[k].rec \in Ids
    BY <1>2, <1>5, <1>24 DEF Renotify, MemOf, Paired
  <2> HIDE DEF s
  <2>2. Paired([mem EXCEPT ![k] = s])
    BY <1>2, <1>3, <2>1 DEF Paired
  <2>3. sent' \in [Ids -> 0..Cooldown] /\ cur' \in [key : Keys, id : Ids \cup {NoId}]
    BY <1>24, <2>1 DEF TypeOK, Renotify
  <2>4. QED
    BY <1>24, <2>1, <2>2, <2>3 DEF TypeOK, Renotify, Paired, s
<1>25. ASSUME Save PROVE TypeOK'
  <2>1. cur.key \in Keys
    BY DEF TypeOK
  <2>2. alerts' \in [Ids -> RowOf] /\ unsaved' \subseteq Ids
    BY <1>2, <1>6, <1>25, <2>1 DEF TypeOK, Save
  <2>3. QED
    BY <1>1, <1>25, <2>2 DEF TypeOK, Save
<1>26. ASSUME Recover PROVE TypeOK'
  BY <1>1, <1>26 DEF TypeOK, Recover
<1>27. ASSUME NEW k \in Keys, ResolveStale(k) PROVE TypeOK'
  <2>1. Paired(mem') /\ mem[k].rec \in Ids \cup {NoId}
    BY <1>2, <1>4, <1>27 DEF ResolveStale, MemOf
  <2>2. alerts' \in [Ids -> RowOf] /\ stuck' \subseteq Ids
    BY <1>2, <1>6, <1>27, <2>1 DEF ResolveStale, TypeOK
  <2>3. QED
    BY <1>27, <2>1, <2>2 DEF TypeOK, ResolveStale, Paired
<1>28. ASSUME EndPass PROVE TypeOK'
  BY <1>28 DEF TypeOK, EndPass
<1>29. CASE UNCHANGED vars
  BY <1>29 DEF TypeOK
<1>30. QED
  BY <1>10, <1>11, <1>12, <1>13, <1>14, <1>15, <1>16, <1>17, <1>18, <1>19, <1>21, <1>22,
     <1>23, <1>24, <1>25, <1>26, <1>27, <1>28, <1>29 DEF Next, Step, EvaluateKey

\* Every step keeps the invariant, a refused write and a death of the dashboard
\* at any point included.
LEMMA InvariantStep == ASSUME IInv, [Next]_vars PROVE IInv'
<1> DEFINE Rest == ActiveAlertTracked /\ Attached /\ Dated /\ AtRecord /\ PendingSince
<1> USE DEF IInv
<1>1. /\ TypeOK'
      /\ mem \in [Keys -> MemOf] /\ mem' \in [Keys -> MemOf]
      /\ alerts \in [Ids -> RowOf] /\ alerts' \in [Ids -> RowOf]
      /\ sent \in [Ids -> 0..Cooldown] /\ cur.key \in Keys
      /\ \A k \in Keys : mem[k].rec # NoId <=> mem[k].st = "firing"
      /\ \A k, l \in Keys : mem[k].rec = mem[l].rec /\ k # l => mem[k].rec = NoId
  BY TypeStep DEF TypeOK
<1>2. /\ \A k \in Keys : /\ mem[k].rec \in Ids \cup {NoId} /\ mem[k].first \in Nat
                         /\ mem[k].notified \in 0..Cooldown
      /\ \A i \in Ids : alerts[i].notified \in 0..Cooldown /\ sent[i] \in 0..Cooldown
  BY <1>1 DEF MemOf, RowOf
<1>3. Absent.rec = NoId /\ Absent.st = "normal" /\ NoRow.state = "none" /\ NoRow.notified = 0
  BY DEF Absent, NoRow
\* What an evaluation sees keeps its record.
<1>4. ASSUME NEW k \in Keys
      PROVE  /\ Seen(k).rec = mem[k].rec
             /\ mem[k].rec # NoId => Seen(k).notified = mem[k].notified /\ Seen(k).st = "firing"
             /\ mem[k].st = "normal" => Seen(k).first = 0 /\ Seen(k).st = "pending"
             /\ mem[k].st # "normal" => Seen(k).first = mem[k].first /\ Seen(k).st = mem[k].st
             /\ DOMAIN Seen(k) = {"st", "first", "last", "notified", "rec", "acked"}
  <2>1. mem[k] \in MemOf
    BY <1>1
  <2>2. CASE mem[k].st = "normal"
    BY <1>1, <2>2 DEF Seen, Absent
  <2>3. CASE mem[k].st # "normal"
    <3>1. Seen(k) = [mem[k] EXCEPT !.last = 0]
      BY <2>3 DEF Seen
    <3>2. DOMAIN mem[k] = {"st", "first", "last", "notified", "rec", "acked"}
      BY <2>1 DEF MemOf
    <3>3. QED
      BY <1>1, <2>3, <3>1, <3>2
  <2>4. QED
    BY <1>1, <2>2, <2>3
\* Steps that leave records and rows as they are.
<1>5. ASSUME pc' # "down" => pc # "down", stuck \subseteq stuck',
             \A k \in Keys : mem'[k].rec = mem[k].rec,
             \A i \in Ids : alerts'[i].state = alerts[i].state /\ alerts'[i].key = alerts[i].key
      PROVE  ActiveAlertTracked' /\ Attached'
  <2>1. Attached'
    BY <1>2, <1>5 DEF Attached
  <2>2. \A k \in Keys : Active(k)' = Active(k)
    BY <1>5 DEF Active
  <2>3. \A i \in Ids : alerts[i].key \in Keys
    BY <1>1 DEF RowOf
  <2>4. QED
    BY <1>5, <2>1, <2>2, <2>3 DEF ActiveAlertTracked
<1>6. ASSUME unsaved \subseteq unsaved',
             \A k \in Keys : mem'[k].rec = mem[k].rec,
             \A k \in Keys : mem[k].rec # NoId /\ mem[k].notified <= sent[mem[k].rec] =>
                               mem'[k].notified <= sent'[mem[k].rec],
             \A i \in Ids : alerts'[i].state = alerts[i].state,
             \A i \in Ids : alerts[i].state = "firing" /\ alerts[i].notified <= sent[i] =>
                              alerts'[i].notified <= sent'[i]
      PROVE  Dated'
  BY <1>2, <1>6 DEF Dated
\* Steps that drop a state.
<1>7. ASSUME NEW k \in Keys, mem' = [mem EXCEPT ![k] = Absent],
             pc = "pass", pc' \notin {"announcing", "saving"}, unsaved' = unsaved, sent' = sent,
             \/ mem[k].rec = NoId /\ UNCHANGED <<alerts, stuck>>
             \/ /\ mem[k].rec # NoId
                /\ \E ok \in Ok("update") :
                     /\ alerts' = IF ok THEN Written("resolved", mem[k]) ELSE alerts
                     /\ stuck' = IF ok THEN stuck ELSE stuck \cup {mem[k].rec}
      PROVE  ActiveAlertTracked' /\ Attached' /\ Dated' /\ AtRecord'
  <2>1. /\ mem'[k].rec = NoId /\ mem'[k].st = "normal"
        /\ \A l \in Keys \ {k} : mem'[l] = mem[l]
    BY <1>1, <1>3, <1>7
  <2>2. /\ \A i \in Ids : i # mem[k].rec => alerts'[i] = alerts[i]
        /\ \/ alerts' = alerts /\ (mem[k].rec # NoId => mem[k].rec \in stuck')
           \/ mem[k].rec \in Ids /\ alerts'[mem[k].rec].state \in {"none", "resolved"}
        /\ stuck \subseteq stuck'
    <3>1. CASE mem[k].rec = NoId
      BY <1>7, <3>1
    <3>2. CASE mem[k].rec # NoId
      <4>1. PICK ok \in Ok("update") :
              /\ alerts' = IF ok THEN Written("resolved", mem[k]) ELSE alerts
              /\ stuck' = IF ok THEN stuck ELSE stuck \cup {mem[k].rec}
        BY <1>7, <3>2
      <4>2. mem[k].rec \in Ids /\ alerts[mem[k].rec] \in RowOf
        BY <1>1, <1>2, <3>2
      <4>3. CASE ok
        BY <1>1, <4>1, <4>2, <4>3 DEF Written, RowOf
      <4>4. CASE ~ok
        BY <4>1, <4>4
      <4>5. QED
        BY <4>3, <4>4
    <3>3. QED
      BY <3>1, <3>2
  <2>3. \A l \in Keys \ {k} : mem[l].rec # NoId => mem[l].rec # mem[k].rec
    BY <1>1
  <2>4. Attached' /\ Dated' /\ AtRecord'
    BY <1>2, <1>7, <2>1, <2>2, <2>3 DEF Attached, Dated, AtRecord
  <2>5. \A l \in Keys : Active(l)' \subseteq Active(l)
    BY <2>2, <1>2 DEF Active
  <2>6. \A i \in Ids : alerts'[i].state = "firing" => alerts'[i] = alerts[i]
    BY <2>2
  <2>7. \A i \in Ids : alerts'[i].state = "firing" =>
          mem'[alerts'[i].key].rec = i \/ i \in stuck'
    BY <1>1, <1>2, <1>7, <2>1, <2>2, <2>3, <2>6 DEF ActiveAlertTracked, RowOf
  <2>8. QED
    BY <2>4, <2>5, <2>7 DEF ActiveAlertTracked
<1>8. ASSUME Age, UNCHANGED unsaved, UNCHANGED stuck, pc' # "down" => pc # "down",
             pc \in {"down", "idle"}, pc' \notin {"announcing", "saving"}
      PROVE  Rest'
  <2>1. /\ \A k \in Keys : /\ mem'[k].rec = mem[k].rec /\ mem'[k].st = mem[k].st
                           /\ mem'[k].first = Cap(mem[k].first, Duration)
                           /\ mem'[k].notified = Cap(mem[k].notified, Cooldown)
                           /\ calm'[k] = Cap(calm[k], Duration)
        /\ \A i \in Ids : /\ alerts'[i].state = alerts[i].state /\ alerts'[i].key = alerts[i].key
                          /\ alerts'[i].notified = Cap(alerts[i].notified, Cooldown)
                          /\ sent'[i] = Cap(sent[i], Cooldown)
    <3>1. \A k \in Keys : /\ mem'[k].rec = mem[k].rec /\ mem'[k].st = mem[k].st
                           /\ mem'[k].first = Cap(mem[k].first, Duration)
                           /\ mem'[k].notified = Cap(mem[k].notified, Cooldown)
      <4> SUFFICES ASSUME NEW k \in Keys
                   PROVE  /\ mem'[k].rec = mem[k].rec /\ mem'[k].st = mem[k].st
                          /\ mem'[k].first = Cap(mem[k].first, Duration)
                          /\ mem'[k].notified = Cap(mem[k].notified, Cooldown)
        OBVIOUS
      <4>1. mem'[k] = [mem[k] EXCEPT !.first = Cap(@, Duration), !.last = Cap(@, StaleAfter + 1),
                                     !.notified = Cap(@, Cooldown)]
        BY <1>8 DEF Age
      <4>2. mem[k] \in MemOf
        BY <1>1
      <4>3. QED
        BY <4>1, <4>2 DEF MemOf
    <3>2. \A i \in Ids : /\ alerts'[i].state = alerts[i].state /\ alerts'[i].key = alerts[i].key
                          /\ alerts'[i].notified = Cap(alerts[i].notified, Cooldown)
      <4> SUFFICES ASSUME NEW i \in Ids
                   PROVE  /\ alerts'[i].state = alerts[i].state /\ alerts'[i].key = alerts[i].key
                          /\ alerts'[i].notified = Cap(alerts[i].notified, Cooldown)
        OBVIOUS
      <4>1. alerts'[i] = [alerts[i] EXCEPT !.notified = Cap(@, Cooldown)] /\ alerts[i] \in RowOf
        BY <1>1, <1>8 DEF Age
      <4>2. QED
        BY <4>1 DEF RowOf
    <3>3. /\ \A k \in Keys : calm'[k] = Cap(calm[k], Duration)
          /\ \A i \in Ids : sent'[i] = Cap(sent[i], Cooldown)
      BY <1>8 DEF Age
    <3>4. QED
      BY <3>1, <3>2, <3>3
  <2>2. \A max \in Nat : \A m, n \in 0..max : m <= n => Cap(m, max) <= Cap(n, max)
    BY DEF Cap
  <2>3. ActiveAlertTracked' /\ Attached'
    BY <1>5, <1>8, <2>1
  <2>4. Dated'
    BY <1>2, <1>6, <1>8, <2>1, <2>2
  <2>5. PendingSince'
    <3>1. \A k \in Keys : mem[k].first \in 0..Duration /\ calm[k] \in 0..Duration
      BY <1>1 DEF TypeOK, MemOf
    <3>2. QED
      BY <2>1, <2>2, <3>1 DEF PendingSince
  <2>6. QED
    BY <1>8, <2>3, <2>4, <2>5 DEF AtRecord
<1>10. ASSUME NEW k \in Keys, Change(k) PROVE Rest'
  <2>1. UNCHANGED <<mem, alerts, pc, cur, sent, unsaved, stuck, calm>>
    BY <1>10 DEF Change
  <2>2. QED
    BY <1>5, <2>1 DEF Dated, AtRecord, PendingSince
<1>11. ASSUME NEW k \in Keys, Poll(k) PROVE Rest'
  <2>1. UNCHANGED <<mem, alerts, pc, cur, sent, unsaved, stuck, calm>>
    BY <1>11 DEF Poll
  <2>2. QED
    BY <1>5, <2>1 DEF Dated, AtRecord, PendingSince
<1>12. ASSUME NEW i \in Ids, Acknowledge(i) PROVE Rest'
  <2>1. /\ \A a \in Ids : /\ alerts'[a].state = alerts[a].state /\ alerts'[a].key = alerts[a].key
                          /\ alerts'[a].notified = alerts[a].notified
        /\ UNCHANGED <<mem, pc, cur, sent, unsaved, stuck, calm>>
    BY <1>1, <1>12 DEF Acknowledge, RowOf
  <2>2. QED
    BY <1>5, <2>1 DEF Dated, AtRecord, PendingSince
<1>13. ASSUME Start PROVE Rest'
  <2>1. PICK last \in {0, StaleAfter + 1} : mem' = [k \in Keys |-> Hydrated(k, last)]
    BY <1>13 DEF Start
  <2>2. UNCHANGED <<alerts, sent, unsaved>> /\ pc' = "idle"
    BY <1>13 DEF Start
  <2>3. \A k \in Keys :
          \/ mem'[k].rec = NoId /\ mem'[k].st = "normal" /\ Active(k) = {}
          \/ /\ mem'[k].rec \in Active(k) /\ mem'[k].st = "firing"
             /\ mem'[k].notified = alerts[mem'[k].rec].notified
    BY <1>3, <2>1 DEF Hydrated
  <2>4. Attached' /\ Dated' /\ AtRecord' /\ PendingSince'
    BY <2>2, <2>3 DEF Attached, Dated, AtRecord, PendingSince, Active
  <2>5. \A i \in Ids : alerts[i].state = "firing" => i \in Active(alerts[i].key) /\ alerts[i].key \in Keys
    BY <1>1 DEF Active, RowOf
  <2>6. ActiveAlertTracked'
    BY <2>2, <2>3, <2>5 DEF ActiveAlertTracked, Active
  <2>7. QED
    BY <2>4, <2>6
<1>14. ASSUME Die PROVE Rest'
  <2>1. UNCHANGED <<alerts, sent, unsaved>> /\ pc' = "down" /\ \A k \in Keys : mem'[k] = Absent
    BY <1>14 DEF Die
  <2>2. QED
    BY <1>3, <2>1 DEF ActiveAlertTracked, Active, Attached, Dated, AtRecord, PendingSince
<1>15. ASSUME Elapse PROVE Rest'
  BY <1>8, <1>15 DEF Elapse
<1>16. ASSUME StartPass PROVE Rest'
  BY <1>8, <1>16 DEF StartPass
<1>17. ASSUME NEW k \in Keys, Skip(k) PROVE Rest'
  <2>1. UNCHANGED <<mem, alerts, pc, cur, sent, unsaved, stuck, calm>>
    BY <1>17 DEF Skip
  <2>2. QED
    BY <1>5, <2>1 DEF Dated, AtRecord, PendingSince
<1>18. ASSUME NEW k \in Keys, Normal(k) PROVE Rest'
  <2>1. ActiveAlertTracked' /\ Attached' /\ Dated' /\ AtRecord'
    BY <1>7, <1>18 DEF Normal
  <2>2. mem' = [mem EXCEPT ![k] = Absent] /\ calm' = [calm EXCEPT ![k] = 0]
    BY <1>18 DEF Normal
  <2>3. QED
    BY <1>1, <1>3, <2>1, <2>2 DEF PendingSince, TypeOK
<1>19. ASSUME NEW k \in Keys, Wait(k) PROVE Rest'
  <2>1. UNCHANGED <<alerts, pc, cur, sent, unsaved, stuck, calm>> /\ mem' = [mem EXCEPT ![k] = Seen(k)]
    BY <1>19 DEF Wait
  <2>2. /\ \A l \in Keys : mem'[l].rec = mem[l].rec
        /\ \A l \in Keys : mem[l].rec # NoId => mem'[l].notified = mem[l].notified
    BY <1>1, <1>4, <2>1
  <2>3. ActiveAlertTracked' /\ Attached' /\ Dated'
    BY <1>5, <1>6, <2>1, <2>2
  <2>4. AtRecord'
    BY <1>19, <2>1 DEF AtRecord, Wait
  <2>5. calm[k] \in Nat
    BY <1>1 DEF TypeOK
  <2>6. PendingSince'
    BY <1>1, <1>4, <2>1, <2>5 DEF PendingSince
  <2>7. QED
    BY <2>3, <2>4, <2>6
<1>20. ASSUME NEW k \in Keys, Reattach(k) PROVE Rest'
  <2>1. PICK i \in Active(k) :
          /\ mem' = [mem EXCEPT ![k] = [Seen(k) EXCEPT !.st = "firing", !.rec = i,
                       !.acked = alerts[i].acked, !.notified = alerts[i].notified]]
          /\ stuck' = stuck \ {i}
    BY <1>20 DEF Reattach
  <2>2. UNCHANGED <<alerts, pc, cur, sent, unsaved, calm>> /\ pc = "pass" /\ mem[k].rec = NoId
    BY <1>1, <1>4, <1>20 DEF Reattach, Fires
  <2>3. /\ mem'[k].st = "firing" /\ mem'[k].rec = i /\ mem'[k].notified = alerts[i].notified
        /\ \A l \in Keys \ {k} : mem'[l] = mem[l]
    BY <1>1, <1>4, <2>1
  <2>4. i \in Ids /\ alerts[i].state = "firing" /\ alerts[i].key = k /\ i # NoId
    BY DEF Active
  <2>5. Attached' /\ Dated' /\ AtRecord' /\ PendingSince'
    BY <2>2, <2>3, <2>4 DEF Attached, Dated, AtRecord, PendingSince
  <2>6. \A j \in Ids : alerts[j].state = "firing" /\ alerts[j].key = k => j = i
    BY <2>4 DEF ActiveAlertTracked, Active
  <2>7. \A j \in Ids : alerts[j].state = "firing" => mem'[alerts[j].key].rec = j \/ j \in stuck'
    <3> SUFFICES ASSUME NEW j \in Ids, alerts[j].state = "firing"
                 PROVE  mem'[alerts[j].key].rec = j \/ j \in stuck'
      OBVIOUS
    <3>1. CASE alerts[j].key = k
      BY <2>3, <2>6, <3>1
    <3>2. CASE alerts[j].key # k
      <4>1. alerts[j].key \in Keys /\ j # i
        BY <1>1, <2>4, <3>2 DEF RowOf
      <4>2. QED
        BY <2>1, <2>2, <2>3, <3>2, <4>1 DEF ActiveAlertTracked
    <3>3. QED
      BY <3>1, <3>2
  <2>8. QED
    BY <2>2, <2>5, <2>7 DEF ActiveAlertTracked, Active
<1>21. ASSUME NEW k \in Keys, Fire(k) PROVE Rest'
  <2>1. PICK i \in Unused, ok \in Ok("create") :
          /\ mem' = [mem EXCEPT ![k] = [Seen(k) EXCEPT
                       !.st = "firing", !.rec = i, !.acked = FALSE, !.notified = 0]]
          /\ alerts' = [alerts EXCEPT ![i] =
                          IF ok THEN [state |-> "firing", key |-> k,
                                      notified |-> 0, acked |-> FALSE]
                                ELSE NoRow]
          /\ cur' = [key |-> k, id |-> i]
          /\ sent' = [sent EXCEPT ![i] = Cooldown]
          /\ unsaved' = unsaved \ {i}
          /\ stuck' = stuck \ {i}
    BY <1>21 DEF Fire
  <2>2. pc = "pass" /\ pc' = "announcing" /\ calm' = calm /\ Active(k) = {} /\ mem[k].rec = NoId
    BY <1>1, <1>4, <1>21 DEF Fire, Fires
  <2>3. /\ mem'[k].st = "firing" /\ mem'[k].rec = i /\ mem'[k].notified = 0
        /\ \A l \in Keys \ {k} : mem'[l] = mem[l]
    BY <1>1, <1>4, <2>1
  <2>4. i \in Ids /\ i # NoId /\ alerts[i].state # "firing" /\ \A l \in Keys : mem[l].rec # i
    BY DEF Unused
  <2>5. /\ sent'[i] = Cooldown /\ cur'.key = k /\ cur'.id = i
        /\ \A j \in Ids \ {i} : alerts'[j] = alerts[j] /\ sent'[j] = sent[j]
        /\ alerts'[i].notified = 0
        /\ alerts'[i].state = "none" \/ (alerts'[i].state = "firing" /\ alerts'[i].key = k)
    <3>1. /\ sent'[i] = Cooldown /\ cur'.key = k /\ cur'.id = i
          /\ \A j \in Ids \ {i} : alerts'[j] = alerts[j] /\ sent'[j] = sent[j]
      BY <1>1, <2>1, <2>4
    <3>2. alerts'[i] = IF ok THEN [state |-> "firing", key |-> k, notified |-> 0, acked |-> FALSE]
                             ELSE NoRow
      BY <1>1, <2>1, <2>4
    <3>3. QED
      <4>1. CASE ok
        BY <3>1, <3>2, <4>1
      <4>2. CASE ~ok
        <5>1. alerts'[i] = NoRow
          BY <3>2, <4>2
        <5>2. QED
          BY <1>3, <3>1, <5>1
      <4>3. QED
        BY <4>1, <4>2
  <2>6. Attached' /\ AtRecord' /\ PendingSince'
    BY <1>2, <2>2, <2>3, <2>4, <2>5 DEF Attached, AtRecord, PendingSince
  <2>7. Dated'
    BY <1>2, <2>1, <2>3, <2>4, <2>5 DEF Dated
  <2>8. /\ \A l \in Keys \ {k} : Active(l)' = Active(l)
        /\ Active(k)' \subseteq {i}
    BY <2>2, <2>4, <2>5 DEF Active
  <2>9. \A j \in Ids : alerts'[j].state = "firing" => mem'[alerts'[j].key].rec = j \/ j \in stuck'
    <3> SUFFICES ASSUME NEW j \in Ids, alerts'[j].state = "firing"
                 PROVE  mem'[alerts'[j].key].rec = j \/ j \in stuck'
      OBVIOUS
    <3>1. CASE j = i
      BY <2>3, <2>5, <3>1
    <3>2. CASE j # i
      <4>1. alerts[j].key # k /\ alerts[j].key \in Keys /\ alerts'[j] = alerts[j]
        BY <1>1, <2>2, <2>5, <3>2 DEF Active, RowOf
      <4>2. QED
        BY <2>1, <2>2, <2>3, <3>2, <4>1 DEF ActiveAlertTracked
    <3>3. QED
      BY <3>1, <3>2
  <2>10. \A l \in Keys : \A a, b \in Active(l)' : a = b
    BY <2>8 DEF ActiveAlertTracked
  <2>11. QED
    BY <2>6, <2>7, <2>9, <2>10 DEF ActiveAlertTracked
<1>22. ASSUME Announce PROVE Rest'
  <2>1. /\ UNCHANGED <<mem, alerts, unsaved, stuck, calm>> /\ pc = "announcing" /\ pc' = "pass"
        /\ sent' = [sent EXCEPT ![cur.id] = 0]
    BY <1>22 DEF Announce
  <2>2. cur.id \in Ids /\ mem[cur.key].rec = cur.id /\ mem[cur.key].notified = 0
        /\ alerts[cur.id].notified = 0
    BY <2>1 DEF AtRecord
  <2>3. sent'[cur.id] = 0 /\ \A i \in Ids \ {cur.id} : sent'[i] = sent[i]
    BY <1>1, <2>1, <2>2
  <2>4. \A k \in Keys : mem[k].rec = cur.id => mem[k].notified = 0
    BY <1>1, <2>2
  <2>5. Dated'
    BY <1>2, <1>6, <2>1, <2>2, <2>3, <2>4
  <2>6. QED
    BY <1>5, <2>1, <2>5 DEF AtRecord, PendingSince
<1>23. ASSUME NEW k \in Keys, Renotify(k) PROVE Rest'
  <2>1. /\ mem' = [mem EXCEPT ![k] = [Seen(k) EXCEPT !.notified = 0]]
        /\ sent' = [sent EXCEPT ![mem[k].rec] = 0]
        /\ unsaved' = unsaved \cup {mem[k].rec}
        /\ cur' = [key |-> k, id |-> mem[k].rec]
        /\ pc = "pass" /\ pc' = "saving" /\ UNCHANGED <<alerts, stuck, calm>>
    BY <1>23 DEF Renotify
  <2>2. mem[k].rec \in Ids /\ mem[k].rec # NoId
    BY <1>1, <1>2, <1>4, <1>23 DEF Renotify
  <2>3. /\ mem'[k].rec = mem[k].rec /\ mem'[k].notified = 0 /\ mem'[k].st = "firing"
        /\ \A l \in Keys \ {k} : mem'[l] = mem[l]
    BY <1>1, <1>4, <2>1, <2>2
  <2>4. /\ sent'[mem[k].rec] = 0
        /\ \A i \in Ids \ {mem[k].rec} : sent'[i] = sent[i]
    BY <1>1, <2>1, <2>2
  <2>5. ActiveAlertTracked' /\ Attached'
    BY <1>5, <2>1, <2>3
  <2>6. Dated'
    BY <1>2, <2>1, <2>3, <2>4 DEF Dated
  <2>7. AtRecord' /\ PendingSince'
    BY <1>2, <2>1, <2>2, <2>3, <2>4 DEF AtRecord, PendingSince
  <2>8. QED
    BY <2>5, <2>6, <2>7
<1>24. ASSUME Save PROVE Rest'
  <2>1. PICK ok \in Ok("update") :
          /\ alerts' = IF ok THEN Written("firing", mem[cur.key]) ELSE alerts
          /\ unsaved' = IF ok THEN unsaved \ {cur.id} ELSE unsaved
    BY <1>24 DEF Save
  <2>2. pc = "saving" /\ pc' = "pass" /\ UNCHANGED <<mem, sent, stuck, calm>>
    BY <1>24 DEF Save
  <2>3. /\ cur.id \in Ids /\ mem[cur.key].rec = cur.id /\ cur.id # NoId
        /\ mem[cur.key].notified <= sent[cur.id]
        /\ alerts[cur.id].state \in {"none", "firing"}
    BY <1>1, <2>2 DEF AtRecord, Attached
  <2>4. /\ \A i \in Ids : alerts'[i].state = alerts[i].state /\ alerts'[i].key = alerts[i].key
        /\ \A i \in Ids \ {cur.id} : alerts'[i] = alerts[i]
        /\ \/ alerts' = alerts /\ unsaved' = unsaved
           \/ /\ unsaved' = unsaved \ {cur.id}
              /\ alerts[cur.id].state = "firing" => alerts'[cur.id].notified = mem[cur.key].notified
    BY <1>1, <2>1, <2>3 DEF Written, RowOf
  <2>5. \A k \in Keys : mem[k].rec = cur.id => k = cur.key
    BY <1>1, <2>3
  <2>6. Dated'
    BY <2>2, <2>3, <2>4, <2>5 DEF Dated
  <2>7. QED
    BY <1>5, <2>2, <2>4, <2>6 DEF AtRecord, PendingSince
<1>25. ASSUME Recover PROVE Rest'
  <2>1. UNCHANGED <<mem, alerts, sent, unsaved, stuck, calm>> /\ pc = "resolving" /\ pc' = "pass"
    BY <1>25 DEF Recover
  <2>2. QED
    BY <1>5, <2>1 DEF Dated, AtRecord, PendingSince
<1>26. ASSUME NEW k \in Keys, ResolveStale(k) PROVE Rest'
  <2>1. ActiveAlertTracked' /\ Attached' /\ Dated' /\ AtRecord'
    BY <1>7, <1>26 DEF ResolveStale
  <2>2. mem' = [mem EXCEPT ![k] = Absent] /\ calm' = calm
    BY <1>26 DEF ResolveStale
  <2>3. QED
    BY <1>1, <1>3, <2>1, <2>2 DEF PendingSince
<1>27. ASSUME EndPass PROVE Rest'
  <2>1. UNCHANGED <<mem, alerts, cur, sent, unsaved, stuck, calm>> /\ pc = "pass" /\ pc' = "idle"
    BY <1>27 DEF EndPass
  <2>2. QED
    BY <1>5, <2>1 DEF Dated, AtRecord, PendingSince
<1>28. ASSUME UNCHANGED vars PROVE Rest'
  <2>1. UNCHANGED <<mem, alerts, pc, cur, sent, unsaved, stuck, calm>>
    BY <1>28
  <2>2. QED
    BY <1>5, <2>1 DEF Dated, AtRecord, PendingSince
<1>29. Rest'
  BY <1>10, <1>11, <1>12, <1>13, <1>14, <1>15, <1>16, <1>17, <1>18, <1>19, <1>20, <1>21, <1>22,
     <1>23, <1>24, <1>25, <1>26, <1>27, <1>28 DEF Next, Step, EvaluateKey
<1>30. QED
  BY <1>1, <1>29

\* The types of the evaluator's state and its table, that a state has a record
\* exactly when it is firing and no two states share one; and the invariant the
\* theorems below rest on.
THEOREM AlertTyping == Spec => [](TypeOK /\ IInv)
<1>1. Init => IInv
  <2>1. /\ Absent \in MemOf /\ Absent.rec = NoId /\ Absent.st = "normal"
        /\ NoRow \in RowOf /\ NoRow.state = "none" /\ Nothing \in [key : Keys, id : Ids \cup {NoId}]
    BY DEF Absent, MemOf, NoRow, RowOf, Nothing
  <2>2. Init => TypeOK
    BY <2>1 DEF Init, TypeOK, Conditions
  <2>3. Init => ActiveAlertTracked /\ Attached /\ Dated /\ AtRecord /\ PendingSince
    BY <2>1 DEF Init, ActiveAlertTracked, Active, Attached, Dated, AtRecord, PendingSince
  <2>4. QED
    BY <2>2, <2>3 DEF IInv
<1>2. IInv /\ [Next]_vars => IInv'
  BY InvariantStep
<1>3. IInv => TypeOK
  BY DEF IInv
<1>4. QED
  BY <1>1, <1>2, <1>3, PTL DEF Spec

\* However often the dashboard restarts and the database refuses a write, a
\* rule has at most one active alert for a node or server, and the running
\* evaluator works on it.
THEOREM AlertsTracked == Spec => []ActiveAlertTracked
<1>1. IInv => ActiveAlertTracked
  BY DEF IInv
<1>2. QED
  BY <1>1, AlertTyping, PTL

\* No two notifications of an alert within its cooldown, restarts included: the
\* date in memory and the one in the table are never later than the last
\* notification, unless it could not be saved.
THEOREM Cooldowns == Spec => CooldownRespected
<1>1. ASSUME IInv, [Next]_vars, NEW i \in Ids, sent'[i] = 0, sent[i] # 0
      PROVE  sent[i] = Cooldown \/ i \in unsaved
  <2>1. /\ sent \in [Ids -> 0..Cooldown] /\ mem \in [Keys -> MemOf]
        /\ \A k \in Keys : mem[k].rec # NoId <=> mem[k].st = "firing"
    BY <1>1 DEF IInv, TypeOK
  <2>2. CASE Age
    <3>1. sent'[i] = Cap(sent[i], Cooldown) /\ sent[i] \in 0..Cooldown
      BY <2>1, <2>2 DEF Age
    <3>2. QED
      BY <1>1, <3>1 DEF Cap
  <2>3. CASE \E k \in Keys : Fire(k)
    BY <1>1, <2>1, <2>3 DEF Fire
  <2>4. CASE Announce
    BY <1>1, <2>1, <2>4 DEF Announce, IInv, AtRecord
  <2>5. ASSUME NEW k \in Keys, Renotify(k)
        PROVE  sent[i] = Cooldown \/ i \in unsaved
    <3>1. /\ sent' = [sent EXCEPT ![mem[k].rec] = 0]
          /\ Seen(k).st = "firing" /\ Seen(k).notified >= Cooldown
      BY <2>5 DEF Renotify
    <3>2. mem[k].st # "normal"
      BY <3>1 DEF Seen, Absent
    <3>3. mem[k].notified >= Cooldown /\ mem[k].st = "firing" /\ mem[k].notified \in 0..Cooldown
      BY <2>1, <3>1, <3>2 DEF Seen, MemOf
    <3>4. mem[k].rec = i /\ mem[k].rec # NoId
      BY <1>1, <2>1, <3>1, <3>3
    <3>5. i \in unsaved \/ mem[k].notified <= sent[i]
      BY <1>1, <3>4 DEF IInv, Dated
    <3>6. QED
      BY <2>1, <3>3, <3>5
  <2>6. CASE UNCHANGED sent
    BY <1>1, <2>6
  <2>7. \/ Age \/ (\E k \in Keys : Fire(k)) \/ Announce \/ (\E k \in Keys : Renotify(k))
        \/ UNCHANGED sent
    BY <1>1 DEF Next, Step, EvaluateKey, StartPass, EndPass, Save, Recover, Start, Die, Elapse,
       Change, Poll, Acknowledge, Skip, Normal, Wait, Reattach, ResolveStale
  <2>8. QED
    BY <2>2, <2>3, <2>4, <2>5, <2>6, <2>7
<1>2. IInv /\ [Next]_vars =>
        [\A i \in Ids : sent'[i] = 0 /\ sent[i] # 0 => sent[i] = Cooldown \/ i \in unsaved]_vars
  BY <1>1
<1>3. QED
  BY <1>2, AlertTyping, PTL DEF Spec, CooldownRespected

\* An alert fires only when its rule has not been found normal for as long as
\* it says, whatever the pass is interrupted by: what is pending is dropped by
\* the first evaluation that finds it normal, and by a restart.
THEOREM SustainedBreaches == Spec => FiresAfterSustainedBreach
<1>1. ASSUME IInv, [Next]_vars, NEW k \in Keys,
             mem[k].st # "firing", mem'[k].st = "firing", pc # "down"
      PROVE  calm[k] = Duration
  <2>1. /\ mem \in [Keys -> MemOf] /\ calm \in [Keys -> 0..Duration]
        /\ \A l \in Keys : mem[l].st \in {"normal", "pending", "firing"} /\ mem[l].first \in 0..Duration
    BY <1>1 DEF IInv, TypeOK, MemOf
  <2>2. Fires(k)
    <3>1. CASE Age
      <4>1. mem'[k] = [mem[k] EXCEPT !.first = Cap(@, Duration), !.last = Cap(@, StaleAfter + 1),
                                     !.notified = Cap(@, Cooldown)]
        BY <3>1 DEF Age
      <4>2. mem[k] \in MemOf
        BY <2>1
      <4>3. mem'[k].st = mem[k].st
        BY <4>1, <4>2 DEF MemOf
      <4>4. QED
        BY <1>1, <4>3
    <3>2. ASSUME NEW l \in Keys, Fire(l) \/ Reattach(l)
          PROVE  Fires(k)
      <4>1. \A m \in Keys : m # l => mem'[m] = mem[m]
        BY <2>1, <3>2 DEF Fire, Reattach
      <4>2. Fires(l)
        BY <3>2 DEF Fire, Reattach
      <4>3. QED
        BY <1>1, <4>1, <4>2
    <3>3. ASSUME NEW l \in Keys, mem' = [mem EXCEPT ![l] = Absent]
          PROVE  FALSE
      BY <1>1, <2>1, <3>3 DEF Absent
    <3>4. ASSUME NEW l \in Keys, mem' = [mem EXCEPT ![l] = Seen(l)]
          PROVE  FALSE
      <4>1. Seen(l).st = "firing" => mem[l].st = "firing"
        <5>1. CASE mem[l].st = "normal"
          BY <5>1 DEF Seen, Absent
        <5>2. CASE mem[l].st # "normal"
          BY <2>1, <5>2 DEF Seen, MemOf
        <5>3. QED
          BY <5>1, <5>2
      <4>2. QED
        BY <1>1, <2>1, <3>4, <4>1
    <3>5. ASSUME NEW l \in Keys, Renotify(l)
          PROVE  FALSE
      <4>1. mem' = [mem EXCEPT ![l] = [Seen(l) EXCEPT !.notified = 0]] /\ Seen(l).st = "firing"
        BY <3>5 DEF Renotify
      <4>2. mem[l].st = "firing"
        <5>1. mem[l].st # "normal"
          BY <4>1 DEF Seen, Absent
        <5>2. QED
          BY <2>1, <4>1, <5>1 DEF Seen, MemOf
      <4>3. QED
        BY <1>1, <2>1, <4>1, <4>2
    <3>6. \/ Age \/ (\E l \in Keys : Fire(l) \/ Reattach(l))
          \/ (\E l \in Keys : mem' = [mem EXCEPT ![l] = Absent] \/ mem' = [mem EXCEPT ![l] = Seen(l)])
          \/ (\E l \in Keys : Renotify(l))
          \/ UNCHANGED mem \/ (\A l \in Keys : mem'[l] = Absent)
      BY <1>1 DEF Next, Step, EvaluateKey, StartPass, EndPass, Announce, Save, Recover, Start, Die,
         Elapse, Change, Poll, Acknowledge, Skip, Normal, Wait, ResolveStale
    <3>7. (\A l \in Keys : mem'[l] = Absent) => FALSE
      BY <1>1 DEF Absent
    <3>8. QED
      BY <1>1, <3>1, <3>2, <3>3, <3>4, <3>5, <3>6, <3>7
  <2>3. CASE mem[k].st = "normal"
    <3>1. Seen(k).first = 0 /\ Seen(k).first >= Duration
      BY <2>2, <2>3 DEF Fires, Seen, Absent
    <3>2. QED
      BY <2>1, <3>1
  <2>4. CASE mem[k].st = "pending"
    <3>1. mem[k] \in MemOf
      BY <2>1
    <3>2. mem[k].first >= Duration
      BY <2>2, <2>4, <3>1 DEF Fires, Seen, MemOf
    <3>3. mem[k].first <= calm[k]
      BY <1>1, <2>4 DEF IInv, PendingSince
    <3>4. QED
      BY <2>1, <3>2, <3>3
  <2>5. QED
    BY <1>1, <2>1, <2>3, <2>4
<1>2. IInv /\ [Next]_vars =>
        [\A k \in Keys : mem[k].st # "firing" /\ mem'[k].st = "firing" /\ pc # "down" =>
                            calm[k] = Duration]_vars
  BY <1>1
<1>3. QED
  BY <1>2, AlertTyping, PTL DEF Spec, FiresAfterSustainedBreach
=============================================================================
