----------------------------- MODULE FleetProofs -----------------------------
(***************************************************************************)
(* Theorems about Fleet, for any number of containers, rows, requests and  *)
(* sessions, any order of their reads and writes, and connections that     *)
(* break and containers that start and stop wherever they like.            *)
(***************************************************************************)
EXTENDS Fleet, TLAPS, FiniteSetTheorems, SequenceTheorems

\* A copy of row i is one of a row that was given out, and is about the same
\* container as long as the row is there.
Same(i, row) == i \notin unused /\ (Exists(i) => rows[i].c = row.c)

\* Where a request can be with what it holds, and what it holds is of the
\* node it is at.
Shape(q) ==
  /\ Len(q.todo) <= 2
  /\ q.pc \in {"idle", "end"} <=> q.todo = <<>>
  /\ q.pc \in {"idle", "end"} => q.copy = NoRow
  /\ q.pc = "wait" => q.kind \in Sends \ NotAwaited
  /\ q.pc \in {"status", "maint"} => q.kind \in {"start", "stop", "restart"}
  /\ q.pc = "write" \/ (q.pc = "wait" /\ q.kind = "upgrade") => q.copy.c # None
  /\ q.pc = "write" /\ q.kind = "stop" => q.copy.maint
Requests == \A r \in Reqs :
  /\ Shape(req[r])
  /\ \A x \in DOMAIN req[r].todo : req[r].todo[x] \notin unused
  /\ req[r].copy.c # None => Same(Cur(r), req[r].copy)

\* A command was sent for a node its request has left, or is at.
Follows(k) ==
  /\ req[k.req].pc # "idle" /\ Len(req[k.req].todo) <= k.n
  /\ Len(req[k.req].todo) = k.n =>
       /\ req[k.req].pc # "look" /\ req[k.req].kind = k.kind
       /\ Exists(Cur(k.req)) => rows[Cur(k.req)].c = k.c
Commands == \A k \in cmds : Follows(k)

\* So is what a session's handler and the metrics worker have read.
Reads ==
  /\ \A s \in Sessions :
       /\ sess[s].at = "none" => sess[s] = NoReport
       /\ sess[s].at = "busy" => \A c \in sess[s].todo : sess[s].saw[c].here
       /\ \A i \in Ids : sess[s].copy[i].c # None => Same(i, sess[s].copy[i])
  /\ poll # NoPoll => poll.id \in Ids /\ poll.copy.c # None /\ Same(poll.id, poll.copy)

\* Only one handler makes rows, and it knows every row of the containers it has
\* still to do.
OneRow == ~overlap =>
  /\ \A i, j \in Ids : Exists(i) /\ Exists(j) /\ rows[i].c = rows[j].c => i = j
  /\ \A s, o \in Sessions : sess[s].at = "busy" /\ sess[o].at = "busy" => s = o
  /\ \A s \in Sessions : sess[s].at = "busy" =>
       \A c \in sess[s].todo : RowsOf(c) \subseteq Known(s, c)

\* As long as a promise of maintenance is kept, the container is down and nobody
\* has in hand what would undo it: a copy without the mark, a report that saw it
\* up, or a start that has been executed.
Calm(i) == \A r \in Reqs : Active(r) /\ Cur(r) = i =>
  /\ req[r].copy.c # None => req[r].copy.maint
  /\ req[r].kind \in {"start", "restart"} => req[r].pc \in {"look", "wait"}
Unstarted(c) == \A k \in cmds : k.c = c /\ k.kind \in {"start", "restart"} => k.st \in {"sent", "failed"}
Unread(i, c) == \A s \in Sessions : /\ sess[s].saw[c].here => ~sess[s].saw[c].up
                                    /\ sess[s].copy[i].c # None => sess[s].copy[i].maint
Promise(i) ==
  /\ Exists(i) /\ rows[i].maint /\ cont[rows[i].c].here /\ ~cont[rows[i].c].up
  /\ Calm(i) /\ Unstarted(rows[i].c) /\ Unread(i, rows[i].c)
  /\ poll.id = i => poll.copy.maint
Promises == \A i \in owed : Promise(i)

IInv == TypeOK /\ Requests /\ Commands /\ Reads /\ OneRow /\ Promises

USE FleetAssumption DEF vars

ReqOf == [kind : AllKinds \cup {"none"}, todo : Seq(Ids), tag : Tags, copy : Row,
          pc : {"idle", "look", "wait", "status", "maint", "write", "erase", "end"}]
CmdOf == [req : Reqs, n : 1..2, c : Containers, kind : Sends, tag : Tags,
          st : {"sent", "down", "ok", "failed", "running", "stopped"}, mute : BOOLEAN]
SessOf == [at : {"none", "way", "busy"}, saw : [Containers -> Cont],
           copy : [Ids -> Row], todo : SUBSET Containers]

-----------------------------------------------------------------------------
\* The records that stand for nothing are of the types, and differ from others.
LEMMA Nothings ==
  /\ Gone \in Cont /\ NoRow \in Row /\ NoRow.c = None /\ ~Gone.here /\ ~Gone.up
  /\ Idle \in ReqOf /\ Idle.todo = <<>> /\ Idle.copy = NoRow /\ Idle.pc = "idle"
  /\ NoReport \in SessOf /\ NoReport.at = "none" /\ NoReport.todo = {}
  /\ \A c \in Containers : NoReport.saw[c] = Gone
  /\ \A i \in Ids : NoReport.copy[i] = NoRow
  /\ NoPoll \in [id : Ids \cup {None}, copy : Row] /\ NoPoll.id = None
<1>1. (CHOOSE t \in Tags : TRUE) \in Tags
  OBVIOUS
<1> DEFINE t0 == CHOOSE t \in Tags : TRUE
<1> HIDE DEF t0
<1>2. Gone = [here |-> FALSE, up |-> FALSE, tag |-> t0] /\ t0 \in Tags
  BY <1>1 DEF Gone, t0
<1>3. NoRow = [c |-> None, status |-> "unknown", tag |-> t0, maint |-> FALSE, named |-> FALSE]
  BY DEF NoRow, t0
<1>4. NoRow \in Row /\ NoRow.c = None
  BY <1>2, <1>3 DEF Row
<1>5. Gone \in Cont /\ ~Gone.here /\ ~Gone.up
  BY <1>2 DEF Cont
<1>6. Idle = [kind |-> "none", todo |-> <<>>, tag |-> t0, pc |-> "idle", copy |-> NoRow]
  BY DEF Idle, t0
<1>7. Idle \in ReqOf /\ Idle.todo = <<>> /\ Idle.copy = NoRow /\ Idle.pc = "idle"
  BY <1>2, <1>4, <1>6 DEF ReqOf
<1>8. QED
  BY <1>4, <1>5, <1>7 DEF NoReport, SessOf, NoPoll

\* Short sequences of rows, and what is left of them.
LEMMA Todo ==
  ASSUME NEW s \in Seq(Ids)
  PROVE  /\ s # <<>> <=> Len(s) > 0
         /\ s # <<>> => Head(s) = s[1] /\ s[1] \in Ids /\ 1 \in DOMAIN s
         /\ s # <<>> /\ Len(s) <= 2 => Len(s) = 1 \/ Len(s) = 2
         /\ Len(s) = 2 => /\ Tail(s) \in Seq(Ids) /\ Len(Tail(s)) = 1
                          /\ DOMAIN Tail(s) = {1} /\ Tail(s)[1] = s[2] /\ 2 \in DOMAIN s
<1>1. Len(s) \in Nat /\ DOMAIN s = 1..Len(s) /\ (s # <<>> <=> Len(s) # 0)
  BY EmptySeq, LenProperties
<1>2. s # <<>> <=> Len(s) > 0
  BY <1>1
<1>3. ASSUME s # <<>> PROVE Head(s) = s[1] /\ s[1] \in Ids /\ 1 \in DOMAIN s
  BY <1>1, <1>3, ElementOfSeq
<1>4. ASSUME Len(s) = 2
      PROVE  /\ Tail(s) \in Seq(Ids) /\ Len(Tail(s)) = 1
             /\ \A i \in 1..Len(Tail(s)) : Tail(s)[i] = s[i + 1]
  BY <1>2, <1>4, HeadTailProperties
<1>5. ASSUME Len(s) = 2
      PROVE  DOMAIN Tail(s) = {1} /\ Tail(s)[1] = s[2] /\ 2 \in DOMAIN s
  <2>1. PICK t : t = Tail(s)
    OBVIOUS
  <2>2. t \in Seq(Ids) /\ Len(t) = 1 /\ \A i \in 1..Len(t) : t[i] = s[i + 1]
    BY <1>4, <1>5, <2>1
  <2>3. DOMAIN t = 1..1
    BY <2>2, LenProperties
  <2>4. DOMAIN t = {1} /\ t[1] = s[2]
    BY <2>2, <2>3
  <2>5. QED
    BY <1>1, <1>5, <2>1, <2>4
<1>6. ASSUME s # <<>>, Len(s) <= 2 PROVE Len(s) = 1 \/ Len(s) = 2
  <2>1. PICK n \in Nat : n = Len(s)
    BY <1>1
  <2>2. n > 0 /\ n <= 2
    BY <1>2, <1>6, <2>1
  <2>3. QED
    BY <2>1, <2>2
<1>7. QED
  BY <1>2, <1>3, <1>4, <1>5, <1>6

-----------------------------------------------------------------------------
(* What a request is after a step of it *)

\* What a request may hold, as the rows are.
Sound(q) ==
  /\ q \in ReqOf /\ Shape(q)
  /\ \A x \in DOMAIN q.todo : q.todo[x] \notin unused
  /\ q.copy.c # None => q.todo # <<>> /\ Same(Head(q.todo), q.copy)

\* It begins, goes on to its next node, or works on at the one it is at.
Begins(r, q) == req[r].pc = "idle" /\ q.pc = "look" /\ q.copy = NoRow
Leaves(r, q) == Active(r) /\ Len(q.todo) = Len(req[r].todo) - 1 /\ q.copy = NoRow
                /\ q.pc \in {"look", "end"}
Stays(r, q) ==  Active(r) /\ q.todo = req[r].todo /\ q.kind = req[r].kind
                /\ q.pc \notin {"idle", "look", "end"}

\* After its last node a request has ended; otherwise it looks at the next.
LEMMA Advances ==
  ASSUME TypeOK, Requests, NEW r \in Reqs, Active(r)
  PROVE  Sound(Advance(r)) /\ Leaves(r, Advance(r))
<1> DEFINE q == req[r]
<1>0. /\ q \in ReqOf /\ Shape(q) /\ q.todo \in Seq(Ids) /\ Len(q.todo) <= 2 /\ q.todo # <<>>
      /\ \A x \in DOMAIN q.todo : q.todo[x] \notin unused
  BY DEF TypeOK, ReqOf, Requests, Shape, Active
<1>2. CASE Len(q.todo) = 1
  <2>1. Advance(r) = [Idle EXCEPT !.pc = "end"]
    BY <1>2 DEF Advance
  <2>2. /\ Advance(r) \in ReqOf /\ Advance(r).todo = <<>> /\ Advance(r).pc = "end"
        /\ Advance(r).copy = NoRow
    BY <2>1, Nothings DEF ReqOf
  <2>3. QED
    BY <1>2, <2>2, Nothings DEF Sound, Shape, Leaves
<1>3. CASE Len(q.todo) = 2
  <2>1. Advance(r) = [q EXCEPT !.todo = Tail(@), !.copy = NoRow, !.pc = "look"]
    BY <1>3 DEF Advance
  <2>2. /\ Tail(q.todo) \in Seq(Ids) /\ Len(Tail(q.todo)) = 1 /\ Tail(q.todo) # <<>>
        /\ DOMAIN Tail(q.todo) = {1} /\ Tail(q.todo)[1] = q.todo[2]
        /\ 2 \in DOMAIN q.todo
    BY <1>0, <1>3, Todo
  <2>3. /\ Advance(r) \in ReqOf /\ Advance(r).todo = Tail(q.todo) /\ Advance(r).pc = "look"
        /\ Advance(r).copy = NoRow
    BY <1>0, <2>1, <2>2, Nothings DEF ReqOf
  <2>4. QED
    BY <1>0, <1>3, <2>2, <2>3, Nothings DEF Sound, Shape, Leaves
<1>4. Len(q.todo) = 1 \/ Len(q.todo) = 2
  BY <1>0, Todo
<1>5. QED
  BY <1>2, <1>3, <1>4

\* A request that works on at its node.
LEMMA Staying ==
  ASSUME TypeOK, Requests, NEW r \in Reqs, Active(r),
         NEW q \in ReqOf, q.todo = req[r].todo, q.kind = req[r].kind,
         q.pc \in {"wait", "status", "maint", "write", "erase"},
         q.pc = "wait" => q.kind \in Sends \ NotAwaited,
         q.pc \in {"status", "maint"} => q.kind \in {"start", "stop", "restart"},
         q.pc = "write" \/ (q.pc = "wait" /\ q.kind = "upgrade") => q.copy.c # None,
         q.pc = "write" /\ q.kind = "stop" => q.copy.maint,
         q.copy.c # None => Same(Cur(r), q.copy)
  PROVE  Sound(q) /\ Stays(r, q)
BY DEF Sound, Stays, Shape, Requests, Active, Cur

\* The node a request is at.
LEMMA AtNode ==
  ASSUME TypeOK, Requests, NEW r \in Reqs, Active(r)
  PROVE  /\ req[r] \in ReqOf /\ req[r].todo # <<>> /\ Cur(r) \in Ids /\ Cur(r) \notin unused
         /\ rows[Cur(r)] \in Row /\ (Exists(Cur(r)) => rows[Cur(r)].c \in Containers)
         /\ (Exists(Cur(r)) => Same(Cur(r), rows[Cur(r)]))
<1>1. req[r] \in ReqOf /\ req[r].todo \in Seq(Ids) /\ req[r].todo # <<>>
  BY DEF TypeOK, ReqOf, Requests, Shape, Active
<1>2. Cur(r) \in Ids /\ 1 \in DOMAIN req[r].todo /\ Cur(r) = req[r].todo[1]
  BY <1>1, Todo DEF Cur
<1>3. QED
  BY <1>1, <1>2 DEF Requests, TypeOK, Same

-----------------------------------------------------------------------------
\* A request that begins has the rows it was given before it.
LEMMA Beginnings ==
  ASSUME TypeOK, Requests, NEW r \in Reqs, Begin(r)
  PROVE  \E q : Sound(q) /\ req' = [req EXCEPT ![r] = q] /\ Begins(r, q)
<1>0. PICK k \in Kinds, t \in Tags : \E b \in Batches(k) :
        /\ \A x \in DOMAIN b : Exists(b[x])
        /\ req' = [req EXCEPT ![r] = [Idle EXCEPT !.kind = k, !.todo = b, !.tag = t,
                                                  !.pc = "look"]]
  BY DEF Begin
<1>1. PICK b \in Batches(k) :
        /\ \A x \in DOMAIN b : Exists(b[x])
        /\ req' = [req EXCEPT ![r] = [Idle EXCEPT !.kind = k, !.todo = b, !.tag = t,
                                                  !.pc = "look"]]
  BY <1>0
<1> DEFINE q == [Idle EXCEPT !.kind = k, !.todo = b, !.tag = t, !.pc = "look"]
<1>2. b \in Seq(Ids) /\ b # <<>> /\ Len(b) <= 2
  <2>1. CASE b \in {<<i>> : i \in Ids}
    <3>1. PICK i \in Ids : b = <<i>>
      BY <2>1
    <3>2. QED
      BY <3>1
  <2>2. CASE b \in {<<i, j>> : i, j \in Ids}
    <3>1. PICK i \in Ids, j \in Ids : b = <<i, j>>
      BY <2>2
    <3>2. QED
      BY <3>1
  <2>3. QED
    BY <2>1, <2>2 DEF Batches
<1>3. /\ q \in ReqOf /\ q.todo = b /\ q.pc = "look" /\ q.copy = NoRow
  BY <1>2, Nothings DEF ReqOf
<1>4. \A x \in DOMAIN b : b[x] \in Ids
  BY <1>2, ElementOfSeq, LenProperties
<1>5. \A x \in DOMAIN b : b[x] \notin unused
  BY <1>1, <1>4 DEF TypeOK
<1> HIDE DEF q
<1>6. Sound(q)
  BY <1>2, <1>3, <1>5, Nothings DEF Sound, Shape
<1>7. req[r].pc = "idle"
  BY DEF Begin
<1>8. req' = [req EXCEPT ![r] = q]
  BY <1>1 DEF q
<1>9. QED
  BY <1>3, <1>6, <1>7, <1>8 DEF Begins

\* Whatever a request does next, it is left in a state that is sound as far as
\* the rows before the step go.
Turned(r) == \E q : Sound(q) /\ req' = [req EXCEPT ![r] = q] /\ (Leaves(r, q) \/ Stays(r, q))
LEMMA Turns ==
  ASSUME TypeOK, Requests, NEW r \in Reqs, ReqStep(r)
  PROVE  Turned(r)
<1> DEFINE o == req[r]
<1>1. Active(r)
  BY DEF ReqStep, Send, Refuse, Look, Answer, Timeout, StoreStatus, ReadMaint, Write,
     Delete, Active
<1>2. ASSUME req' = [req EXCEPT ![r] = Advance(r)] PROVE Turned(r)
  BY <1>1, <1>2, Advances DEF Turned
<1>3. /\ o \in ReqOf /\ Cur(r) \in Ids /\ rows[Cur(r)] \in Row
      /\ Exists(Cur(r)) => Same(Cur(r), rows[Cur(r)]) /\ rows[Cur(r)].c # None
  BY <1>1, AtNode
<1>4. ASSUME NEW q \in ReqOf, q.todo = req[r].todo, q.kind = req[r].kind,
             q.pc \in {"wait", "status", "maint", "write", "erase"},
             q.pc = "wait" => q.kind \in Sends \ NotAwaited,
             q.pc \in {"status", "maint"} => q.kind \in {"start", "stop", "restart"},
             q.pc = "write" \/ (q.pc = "wait" /\ q.kind = "upgrade") => q.copy.c # None,
             q.pc = "write" /\ q.kind = "stop" => q.copy.maint,
             q.copy.c # None => Same(Cur(r), q.copy),
             req' = [req EXCEPT ![r] = q]
      PROVE  Turned(r)
  <2>1. Sound(q) /\ Stays(r, q)
    BY <1>1, <1>4, Staying
  <2>2. QED
    BY <1>4, <2>1 DEF Turned
<1>5. /\ Shape(o) /\ o.copy \in Row /\ (o.copy.c # None => Same(Cur(r), o.copy))
  BY <1>3 DEF ReqOf, Requests
<1>6. ASSUME NEW pc \in {"wait", "status", "maint", "write", "erase"}
      PROVE  /\ AtPc(r, pc) \in ReqOf /\ AtPc(r, pc).todo = o.todo /\ AtPc(r, pc).kind = o.kind
             /\ AtPc(r, pc).pc = pc /\ AtPc(r, pc).copy = o.copy
  BY <1>3 DEF AtPc, ReqOf
<1>7. CASE Send(r)
  <2>1. CASE o.kind \in NotAwaited
    BY <1>2, <1>7, <2>1 DEF Send
  <2>2. CASE o.kind \notin NotAwaited
    <3> DEFINE copy == IF o.kind = "upgrade" THEN rows[Cur(r)] ELSE NoRow
               q == [o EXCEPT !.copy = copy, !.pc = "wait"]
    <3>1. /\ req' = [req EXCEPT ![r] = q]
          /\ Exists(Cur(r)) /\ o.kind \in Sends \ NotAwaited
      BY <1>7, <2>2 DEF Send
    <3>2. /\ copy \in Row /\ (copy.c # None => Same(Cur(r), copy))
          /\ o.kind = "upgrade" => copy.c # None
      BY <1>3, <3>1, Nothings
    <3> HIDE DEF copy
    <3>3. /\ q \in ReqOf /\ q.todo = o.todo /\ q.kind = o.kind /\ q.pc = "wait" /\ q.copy = copy
      BY <1>3, <3>2 DEF ReqOf
    <3> HIDE DEF q
    <3>4. QED
      BY <1>4, <3>1, <3>2, <3>3
  <2>3. QED
    BY <2>1, <2>2
<1>8. CASE Refuse(r)
  <2>1. CASE req' = [req EXCEPT ![r] = AtPc(r, "erase")]
    BY <1>4, <1>5, <1>6, <2>1
  <2>2. CASE req' = [req EXCEPT ![r] = Advance(r)]
    BY <1>2, <2>2
  <2>3. QED
    BY <1>8, <2>1, <2>2 DEF Refuse
<1>9. CASE Look(r)
  <2>1. CASE ~Exists(Cur(r))
    BY <1>2, <1>9, <2>1 DEF Look
  <2>2. CASE Exists(Cur(r)) /\ o.kind = "delete"
    <3>1. req' = [req EXCEPT ![r] = AtPc(r, "erase")]
      BY <1>9, <2>2 DEF Look
    <3>2. QED
      BY <1>4, <1>5, <1>6, <3>1
  <2>3. CASE Exists(Cur(r)) /\ o.kind # "delete"
    <3> DEFINE copy == [rows[Cur(r)] EXCEPT !.named = TRUE]
               q == [o EXCEPT !.copy = copy, !.pc = "write"]
    <3>1. req' = [req EXCEPT ![r] = q] /\ o.kind # "stop"
      BY <1>9, <2>3 DEF Look
    <3>2. copy \in Row /\ copy.c = rows[Cur(r)].c
      BY <1>3 DEF Row
    <3>3. copy.c # None /\ Same(Cur(r), copy)
      BY <1>3, <2>3, <3>2 DEF Same
    <3> HIDE DEF copy
    <3>4. /\ q \in ReqOf /\ q.todo = o.todo /\ q.kind = o.kind /\ q.pc = "write" /\ q.copy = copy
      BY <1>3, <3>2 DEF ReqOf
    <3> HIDE DEF q
    <3>5. QED
      BY <1>4, <3>1, <3>3, <3>4
  <2>4. QED
    BY <2>1, <2>2, <2>3
<1>10. CASE Answer(r)
  <2>1. PICK k \in Answers(r) :
          req' = [req EXCEPT ![r] =
            IF k.st = "failed" THEN Advance(r)
            ELSE IF req[r].kind = "upgrade" THEN [@ EXCEPT !.copy.tag = req[r].tag, !.pc = "write"]
            ELSE IF req[r].kind = "remove" THEN AtPc(r, "erase")
            ELSE IF k.st = "ok" THEN AtPc(r, "maint")
            ELSE [AtPc(r, "status") EXCEPT !.copy.status = k.st]]
    BY <1>10 DEF Answer
  <2>2. /\ o.pc = "wait" /\ o.kind \in {"start", "stop", "restart", "remove", "upgrade"}
        /\ k.st \in {"ok", "failed", "running", "stopped"}
    <3>1. k.st \in {"sent", "down", "ok", "failed", "running", "stopped"} \ {"sent", "down"}
      BY <2>1 DEF Answers, TypeOK
    <3>2. o.pc = "wait"
      BY <1>10 DEF Answer
    <3>3. QED
      BY <1>5, <3>1, <3>2 DEF Shape, Sends, NotAwaited
  <2>3. CASE k.st = "failed"
    BY <1>2, <2>1, <2>3
  <2>4. CASE k.st # "failed" /\ o.kind = "upgrade"
    <3> DEFINE copy == [o.copy EXCEPT !.tag = o.tag]
               q == [o EXCEPT !.copy.tag = o.tag, !.pc = "write"]
    <3>1. req' = [req EXCEPT ![r] = q]
      BY <2>1, <2>4
    <3>2. o.tag \in Tags /\ copy \in Row /\ copy.c = o.copy.c
      BY <1>3, <1>5 DEF ReqOf, Row
    <3>3. /\ q \in ReqOf /\ q.todo = o.todo /\ q.kind = o.kind /\ q.pc = "write" /\ q.copy = copy
      BY <1>3, <3>2 DEF ReqOf
    <3> HIDE DEF q, copy
    <3>4. copy.c # None /\ Same(Cur(r), copy)
      BY <1>5, <2>2, <2>4, <3>2 DEF Shape, Same
    <3>5. QED
      BY <1>4, <2>4, <3>1, <3>3, <3>4
  <2>5. CASE k.st # "failed" /\ o.kind = "remove"
    <3>1. req' = [req EXCEPT ![r] = AtPc(r, "erase")]
      BY <2>1, <2>5
    <3>2. QED
      BY <1>4, <1>5, <1>6, <3>1
  <2>6. CASE k.st = "ok" /\ o.kind \in {"start", "stop", "restart"}
    <3>1. req' = [req EXCEPT ![r] = AtPc(r, "maint")]
      BY <2>1, <2>6
    <3>2. QED
      BY <1>4, <1>5, <1>6, <2>6, <3>1
  <2>7. CASE k.st \in {"running", "stopped"} /\ o.kind \in {"start", "stop", "restart"}
    <3> DEFINE copy == [o.copy EXCEPT !.status = k.st]
               q == [AtPc(r, "status") EXCEPT !.copy.status = k.st]
    <3>1. req' = [req EXCEPT ![r] = q]
      BY <2>1, <2>7
    <3>2. copy \in Row /\ copy.c = o.copy.c
      BY <1>5, <2>7 DEF Row
    <3>3. /\ q \in ReqOf /\ q.todo = o.todo /\ q.kind = o.kind /\ q.pc = "status" /\ q.copy = copy
      BY <1>3, <3>2 DEF ReqOf, AtPc
    <3> HIDE DEF q, copy
    <3>4. copy.c # None => Same(Cur(r), copy)
      BY <1>5, <3>2 DEF Same
    <3>5. QED
      BY <1>4, <2>7, <3>1, <3>3, <3>4
  <2>8. QED
    BY <2>2, <2>3, <2>4, <2>5, <2>6, <2>7
<1>11. CASE Timeout(r)
  BY <1>2, <1>11 DEF Timeout
<1>12. CASE StoreStatus(r)
  <2> DEFINE q == [AtPc(r, "maint") EXCEPT !.copy = NoRow]
  <2>1. req' = [req EXCEPT ![r] = q] /\ o.pc = "status"
    BY <1>12 DEF StoreStatus
  <2>2. /\ q \in ReqOf /\ q.todo = o.todo /\ q.kind = o.kind /\ q.pc = "maint" /\ q.copy = NoRow
    BY <1>3, Nothings DEF ReqOf, AtPc
  <2> HIDE DEF q
  <2>3. QED
    BY <1>4, <1>5, <2>1, <2>2, Nothings DEF Shape
<1>13. CASE ReadMaint(r)
  <2>1. CASE ~Exists(Cur(r))
    BY <1>2, <1>13, <2>1 DEF ReadMaint
  <2>2. CASE Exists(Cur(r))
    <3> DEFINE copy == [rows[Cur(r)] EXCEPT !.maint = o.kind = "stop"]
               q == [o EXCEPT !.copy = copy, !.pc = "write"]
    <3>1. req' = [req EXCEPT ![r] = q]
      BY <1>13, <2>2 DEF ReadMaint
    <3>2. copy \in Row /\ copy.c = rows[Cur(r)].c /\ (o.kind = "stop" => copy.maint)
      BY <1>3 DEF Row
    <3>3. copy.c # None /\ Same(Cur(r), copy)
      BY <1>3, <2>2, <3>2 DEF Same
    <3> HIDE DEF copy
    <3>4. /\ q \in ReqOf /\ q.todo = o.todo /\ q.kind = o.kind /\ q.pc = "write" /\ q.copy = copy
      BY <1>3, <3>2 DEF ReqOf
    <3> HIDE DEF q
    <3>5. QED
      BY <1>4, <3>1, <3>2, <3>3, <3>4
  <2>3. QED
    BY <2>1, <2>2
<1>14. CASE Write(r)
  BY <1>2, <1>14 DEF Write
<1>15. CASE Delete(r)
  BY <1>2, <1>15 DEF Delete
<1>16. QED
  BY <1>7, <1>8, <1>9, <1>10, <1>11, <1>12, <1>13, <1>14, <1>15 DEF ReqStep

-----------------------------------------------------------------------------
(* The table *)

\* A row ID that was given out is not given out again, and while its row is
\* there it is of one container.
Steady ==
  /\ rows' \in [Ids -> Row] /\ \A i \in Ids : Exists(i)' => rows'[i].c \in Containers
  /\ unused' \in SUBSET {i \in Ids : ~Exists(i)'}
  /\ unused' \subseteq unused
  /\ \A i \in Ids : i \notin unused /\ Exists(i)' => Exists(i) /\ rows'[i].c = rows[i].c

\* What a row is written from is a copy of it, of the same container.
LEMMA Putting ==
  ASSUME TypeOK, NEW i \in Ids, NEW row \in Row, row.c # None, Same(i, row), Put(i, row),
         unused' = unused
  PROVE  Steady
<1>1. rows \in [Ids -> Row] /\ row.c \in Containers /\ row # NoRow
  BY Nothings DEF TypeOK, Row
<1>2. CASE Exists(i)
  <2>1. rows' = [rows EXCEPT ![i] = row] /\ i \notin unused /\ rows[i].c = row.c
    BY <1>2 DEF Put, Same
  <2>2. QED
    BY <1>1, <1>2, <2>1 DEF Steady, TypeOK, Exists
<1>3. CASE ~Exists(i)
  BY <1>3 DEF Steady, TypeOK, Exists, Put
<1>4. QED
  BY <1>2, <1>3

\* What a report writes: of a container it has seen, the row it was known by,
\* or else a new one.
LEMMA Merging ==
  ASSUME TypeOK, Reads, NEW s \in Sessions, Merge(s)
  PROVE  \E c \in sess[s].todo, i \in Ids, row \in Row :
           /\ row.c = c /\ sess' = Reported(s, c)
           /\ row.maint => ~sess[s].saw[c].up
           /\ unused' = unused \ {i}
           /\ version' \in [Ids -> Tags \cup {None}]
           /\ \/ /\ sess[s].copy[i].c = c /\ Same(i, row) /\ Put(i, row) /\ i \notin unused
                 /\ sess[s].copy[i].maint /\ ~sess[s].saw[c].up => row.maint
              \/ /\ Known(s, c) = {} /\ i \in unused /\ rows' = [rows EXCEPT ![i] = row]
<1>1. PICK c \in sess[s].todo : \E i \in IF Known(s, c) # {} THEN Known(s, c) ELSE unused :
        /\ RecordVersion(i, sess[s].saw[c].tag)
        /\ IF i \notin unused
           THEN Put(i, Seen(sess[s].copy[i], sess[s].saw[c]))
           ELSE rows' = [rows EXCEPT ![i] = Seen([NoRow EXCEPT !.c = c], sess[s].saw[c])]
        /\ unused' = unused \ {i}
        /\ sess' = Reported(s, c)
  BY DEF Merge
<1>2. PICK i \in IF Known(s, c) # {} THEN Known(s, c) ELSE unused :
        /\ RecordVersion(i, sess[s].saw[c].tag)
        /\ IF i \notin unused
           THEN Put(i, Seen(sess[s].copy[i], sess[s].saw[c]))
           ELSE rows' = [rows EXCEPT ![i] = Seen([NoRow EXCEPT !.c = c], sess[s].saw[c])]
        /\ unused' = unused \ {i}
        /\ sess' = Reported(s, c)
  BY <1>1
<1>3. /\ c \in Containers /\ c # None /\ sess[s].saw[c] \in Cont
      /\ sess[s].copy \in [Ids -> Row] /\ unused \subseteq Ids
  BY DEF TypeOK
<1>4. i \in Ids
  BY <1>2, <1>3 DEF Known
<1>5. version' \in [Ids -> Tags \cup {None}]
  BY <1>2, <1>3, <1>4 DEF RecordVersion, TypeOK, Cont
<1>6. ASSUME NEW row \in Row
      PROVE  LET new == Seen(row, sess[s].saw[c]) IN
             /\ new \in Row /\ new.c = row.c /\ (new.maint => ~sess[s].saw[c].up)
             /\ row.maint /\ ~sess[s].saw[c].up => new.maint
  BY <1>3 DEF Seen, Row, Cont, Status
<1>7. CASE Known(s, c) # {}
  <2>1. sess[s].copy[i].c = c /\ sess[s].copy[i] \in Row
    BY <1>2, <1>3, <1>4, <1>7 DEF Known
  <2>2. Same(i, sess[s].copy[i]) /\ i \notin unused
    BY <1>3, <1>4, <2>1 DEF Reads, Same
  <2> DEFINE row == Seen(sess[s].copy[i], sess[s].saw[c])
  <2>3. /\ row \in Row /\ row.c = c /\ (row.maint => ~sess[s].saw[c].up)
        /\ sess[s].copy[i].maint /\ ~sess[s].saw[c].up => row.maint
    BY <1>6, <2>1
  <2>4. Put(i, row)
    BY <1>2, <2>2
  <2> HIDE DEF row
  <2>5. Same(i, row)
    BY <2>1, <2>2, <2>3 DEF Same
  <2>6. QED
    BY <1>2, <1>4, <1>5, <2>1, <2>2, <2>3, <2>4, <2>5
<1>8. CASE Known(s, c) = {}
  <2>1. i \in unused
    BY <1>2, <1>8
  <2>2. [NoRow EXCEPT !.c = c] \in Row /\ [NoRow EXCEPT !.c = c].c = c
    BY <1>3, Nothings DEF Row
  <2> DEFINE row == Seen([NoRow EXCEPT !.c = c], sess[s].saw[c])
  <2>3. /\ row \in Row /\ row.c = c /\ (row.maint => ~sess[s].saw[c].up)
    BY <1>6, <2>2
  <2>4. rows' = [rows EXCEPT ![i] = row]
    BY <1>2, <2>1
  <2> HIDE DEF row
  <2>5. QED
    BY <1>2, <1>4, <1>5, <1>8, <2>1, <2>3, <2>4
<1>9. QED
  BY <1>7, <1>8

\* So the table moves steadily, whoever writes there.
LEMMA Steadily ==
  ASSUME TypeOK, Requests, Reads, Next
  PROVE  Steady
<1>0. rows \in [Ids -> Row] /\ NoRow \in Row
  BY Nothings DEF TypeOK
<1>1. ASSUME UNCHANGED <<rows, unused>> PROVE Steady
  BY <1>1 DEF Steady, TypeOK, Exists
<1>2. ASSUME NEW r \in Reqs, StoreStatus(r) PROVE Steady
  <2>1. Active(r) /\ unused' = unused /\ PutStatus(Cur(r), req[r].copy.status)
    BY <1>2 DEF StoreStatus, Active
  <2>2. Cur(r) \in Ids /\ Cur(r) \notin unused /\ rows[Cur(r)] \in Row
        /\ req[r].copy \in Row /\ (Exists(Cur(r)) => rows[Cur(r)].c \in Containers)
    BY <2>1, AtNode DEF ReqOf
  <2> DEFINE row == [rows[Cur(r)] EXCEPT !.status = req[r].copy.status]
  <2>3. row \in Row /\ row.c = rows[Cur(r)].c
    BY <2>2 DEF Row
  <2> HIDE DEF row
  <2>4. CASE Exists(Cur(r))
    <3>1. rows' = [rows EXCEPT ![Cur(r)] = row]
      BY <1>0, <2>1, <2>2, <2>4 DEF PutStatus, row
    <3>2. Put(Cur(r), row)
      BY <2>4, <3>1 DEF Put
    <3>3. row.c # None /\ Same(Cur(r), row)
      BY <2>2, <2>3, <2>4 DEF Same
    <3>4. QED
      BY <2>1, <2>2, <2>3, <3>2, <3>3, Putting
  <2>5. CASE ~Exists(Cur(r))
    BY <1>1, <2>1, <2>5 DEF PutStatus
  <2>6. QED
    BY <2>4, <2>5
<1>3. ASSUME NEW r \in Reqs, Write(r) PROVE Steady
  <2>1. Active(r) /\ unused' = unused /\ Put(Cur(r), req[r].copy) /\ req[r].pc = "write"
    BY <1>3 DEF Write, Active
  <2>2. Cur(r) \in Ids /\ req[r].copy \in Row
    BY <2>1, AtNode DEF ReqOf
  <2>3. req[r].copy.c # None /\ Same(Cur(r), req[r].copy)
    BY <2>1 DEF Requests, Shape
  <2>4. QED
    BY <2>1, <2>2, <2>3, Putting
<1>4. ASSUME NEW r \in Reqs, Delete(r) PROVE Steady
  <2>1. Active(r) /\ unused' = unused /\ rows' = [rows EXCEPT ![Cur(r)] = NoRow]
    BY <1>4 DEF Delete, Active, Erase
  <2>2. QED
    BY <1>0, <2>1 DEF Steady, TypeOK, Exists
<1>5. ASSUME NEW s \in Sessions, Merge(s) PROVE Steady
  <2>1. PICK c \in sess[s].todo, i \in Ids, row \in Row :
          /\ row.c = c /\ unused' = unused \ {i}
          /\ \/ Same(i, row) /\ Put(i, row) /\ i \notin unused
             \/ i \in unused /\ rows' = [rows EXCEPT ![i] = row]
    BY <1>5, Merging
  <2>2. c \in Containers /\ c # None
    BY <1>5 DEF TypeOK
  <2>3. CASE Same(i, row) /\ Put(i, row) /\ i \notin unused
    <3>1. unused' = unused
      BY <2>1, <2>3
    <3>2. QED
      BY <2>1, <2>2, <2>3, <3>1, Putting
  <2>4. CASE i \in unused /\ rows' = [rows EXCEPT ![i] = row]
    BY <1>0, <2>1, <2>2, <2>4 DEF Steady, TypeOK, Exists
  <2>5. QED
    BY <2>1, <2>3, <2>4
<1>6. ASSUME PollWrite PROVE Steady
  <2>1. /\ unused' = unused /\ Put(poll.id, poll.copy) /\ poll.id \in Ids
        /\ poll.copy.c # None /\ Same(poll.id, poll.copy)
    BY <1>6 DEF PollWrite, Reads
  <2>2. poll.copy \in Row
    BY DEF TypeOK
  <2>3. QED
    BY <2>1, <2>2, Putting
<1>7. ASSUME Break PROVE Steady
  <2>1. /\ rows' = [i \in Ids |-> IF Exists(i) THEN [rows[i] EXCEPT !.status = "unknown"] ELSE NoRow]
        /\ unused' = unused
    BY <1>7 DEF Break
  <2>2. ASSUME NEW i \in Ids
        PROVE  /\ rows'[i] \in Row /\ rows'[i].c = rows[i].c /\ (~Exists(i) => rows'[i] = NoRow)
    BY <1>0, <2>1 DEF Exists, Row
  <2>3. QED
    BY <1>0, <2>1, <2>2 DEF Steady, TypeOK, Exists
<1>9. ASSUME NEW r \in Reqs, Begin(r) \/ ReqStep(r) PROVE Steady
  BY <1>1, <1>2, <1>3, <1>4, <1>9
     DEF ReqStep, Begin, Send, Refuse, Look, Answer, Timeout, ReadMaint
<1>10. ASSUME AgentStep PROVE Steady
  BY <1>1, <1>10 DEF AgentStep, Execute, Finish, Run
<1>11. ASSUME NEW s \in Sessions,
              (\E missing \in SUBSET Containers : Report(s, missing)) \/ Take(s) \/ Connect(s)
       PROVE  Steady
  BY <1>1, <1>11 DEF Report, Take, Connect
<1>12. ASSUME PollRead \/ \E c \in Containers : Outside(c) PROVE Steady
  BY <1>1, <1>12 DEF PollRead, Outside
<1>13. QED
  BY <1>5, <1>6, <1>7, <1>9, <1>10, <1>11, <1>12 DEF Next

-----------------------------------------------------------------------------
(* The agent's commands *)

\* What a step of a command does: a start that has not failed leaves the
\* container up.
LEMMA Running ==
  ASSUME TypeOK, NEW k \in cmds, Execute(k) \/ Finish(k)
  PROVE  \E n \in Cont, st \in {"down", "ok", "failed", "running", "stopped"} :
           /\ Run(k, n, st)
           /\ k.kind \in {"start", "restart"} => st = "failed" \/ n.up
<1>1. k \in CmdOf /\ cont[k.c] \in Cont
  BY DEF TypeOK, CmdOf
<1>2. CASE Execute(k) /\ \E st \in Endings(k) : Run(k, After(k), st)
  <2>1. PICK st \in Endings(k) : Run(k, After(k), st)
    BY <1>2
  <2>2. After(k) \in Cont /\ (k.kind \in {"start", "restart"} => After(k).up)
    <3>1. CASE k.kind \in {"start", "restart"}
      <4>1. After(k) = [cont[k.c] EXCEPT !.up = TRUE]
        BY <3>1 DEF After
      <4>2. QED
        BY <1>1, <4>1 DEF Cont
    <3>2. CASE k.kind = "remove"
      <4>1. After(k) = Gone
        BY <3>2 DEF After
      <4>2. QED
        BY <3>2, <4>1, Nothings
    <3>3. CASE k.kind \notin {"start", "restart", "remove"}
      <4>1. After(k) = [cont[k.c] EXCEPT !.up = FALSE]
        BY <3>3 DEF After
      <4>2. QED
        BY <1>1, <3>3, <4>1 DEF Cont
    <3>4. QED
      BY <3>1, <3>2, <3>3
  <2>3. st \in {"down", "ok", "running", "stopped"}
    <3>1. Endings(k) = {"down"} \/ Endings(k) = {"ok"} \/ Endings(k) = {"ok", Status(After(k))}
      BY DEF Endings
    <3>2. Status(After(k)) \in {"running", "stopped"}
      BY DEF Status
    <3>3. QED
      BY <2>1, <3>1, <3>2
  <2>4. QED
    BY <2>1, <2>2, <2>3
<1>3. CASE Execute(k) /\ Run(k, cont[k.c], "failed")
  BY <1>1, <1>3
<1>4. CASE Finish(k)
  <2>1. CASE Run(k, Node(TRUE, IF k.kind = "upgrade" THEN k.tag ELSE cont[k.c].tag), "ok")
    <3> DEFINE n == Node(TRUE, IF k.kind = "upgrade" THEN k.tag ELSE cont[k.c].tag)
    <3>1. n \in Cont /\ n.up
      BY <1>1 DEF Node, Cont, CmdOf
    <3> HIDE DEF n
    <3>2. Run(k, n, "ok")
      BY <2>1 DEF n
    <3>3. QED
      BY <3>1, <3>2
  <2>2. CASE \E up \in {TRUE, cont[k.c].up} :
               Run(k, [cont[k.c] EXCEPT !.up = up /\ cont[k.c].here], "failed")
    <3>1. PICK up \in {TRUE, cont[k.c].up} :
               Run(k, [cont[k.c] EXCEPT !.up = up /\ cont[k.c].here], "failed")
      BY <2>2
    <3>2. up \in BOOLEAN /\ cont[k.c].here \in BOOLEAN
      BY <1>1 DEF Cont
    <3>3. [cont[k.c] EXCEPT !.up = up /\ cont[k.c].here] \in Cont
      BY <1>1, <3>2 DEF Cont
    <3>4. QED
      BY <3>1, <3>3
  <2>3. QED
    BY <1>4, <2>1, <2>2 DEF Finish
<1>5. QED
  BY <1>2, <1>3, <1>4 DEF Execute

-----------------------------------------------------------------------------
(* Types *)

LEMMA TypeStep ==
  ASSUME TypeOK, Requests, Reads, Next
  PROVE  TypeOK'
<1>0. /\ rows' \in [Ids -> Row] /\ \A i \in Ids : Exists(i)' => rows'[i].c \in Containers
      /\ unused' \in SUBSET {i \in Ids : ~Exists(i)'}
  BY Steadily DEF Steady
<1>1. ASSUME NEW r \in Reqs, Begin(r) \/ ReqStep(r) PROVE TypeOK'
  <2>1. req' \in [Reqs -> ReqOf]
    <3>1. PICK q : Sound(q) /\ req' = [req EXCEPT ![r] = q]
      BY <1>1, Beginnings, Turns DEF Turned
    <3>2. QED
      BY <3>1 DEF Sound, TypeOK, ReqOf
  <2>2. /\ cont' = cont /\ version' = version /\ cur' = cur /\ sess' = sess /\ poll' = poll
        /\ events' = events /\ overlap' = overlap
    BY <1>1 DEF ReqStep, Begin, Send, Refuse, Look, Answer, Timeout, StoreStatus, ReadMaint,
       Write, Delete
  <2>3. owed' \subseteq Ids
    <3>1. CASE Write(r)
      <4>1. Cur(r) \in Ids
        BY <3>1, AtNode DEF Write, Active
      <4>2. QED
        BY <3>1, <4>1 DEF Write, Kept, TypeOK
    <3>2. CASE ~Write(r)
      BY <1>1, <3>2 DEF ReqStep, Begin, Send, Refuse, Look, Answer, Timeout, StoreStatus,
         ReadMaint, Delete, TypeOK
    <3>3. QED
      BY <3>1, <3>2
  <2>4. \A k \in cmds' : k \in CmdOf
    <3>1. CASE Send(r)
      <4>1. Active(r) /\ Exists(Cur(r)) /\ req[r].kind \in Sends /\ cmds' = cmds \cup {Command(r)}
        BY <3>1 DEF Send, Active
      <4>2. /\ req[r] \in ReqOf /\ rows[Cur(r)].c \in Containers
            /\ req[r].todo # <<>> /\ Len(req[r].todo) <= 2
        BY <4>1, AtNode DEF Requests, Shape
      <4>3. Len(req[r].todo) \in 1..2
        <5>1. req[r].todo \in Seq(Ids)
          BY <4>2 DEF ReqOf
        <5>2. QED
          BY <4>2, <5>1, Todo
      <4> DEFINE m == Len(req[r].todo)
      <4>4. Command(r) = [req |-> r, n |-> m, c |-> rows[Cur(r)].c,
                          kind |-> req[r].kind, tag |-> req[r].tag, st |-> "sent",
                          mute |-> req[r].kind \in NotAwaited]
        BY DEF Command
      <4>5. m \in 1..2
        BY <4>3
      <4> HIDE DEF m
      <4>6. Command(r) \in CmdOf
        BY <4>1, <4>2, <4>4, <4>5 DEF CmdOf, ReqOf
      <4>7. QED
        BY <4>1, <4>6 DEF TypeOK, CmdOf
    <3>2. CASE ~Send(r)
      <4>1. cmds' \subseteq cmds
        BY <1>1, <3>2 DEF ReqStep, Begin, Refuse, Look, Answer, Timeout, StoreStatus,
           ReadMaint, Write, Delete
      <4>2. QED
        BY <4>1 DEF TypeOK, CmdOf
    <3>3. QED
      BY <3>1, <3>2
  <2>5. QED
    BY <1>0, <2>1, <2>2, <2>3, <2>4 DEF TypeOK, ReqOf, CmdOf, Exists
<1>2. ASSUME AgentStep PROVE TypeOK'
  <2>1. PICK k \in cmds, n \in Cont, st \in {"down", "ok", "failed", "running", "stopped"} :
          Run(k, n, st)
    BY <1>2, Running DEF AgentStep
  <2>2. \A l \in cmds' : l \in CmdOf
    <3>0. k \in CmdOf
      BY DEF TypeOK, CmdOf
    <3>1. [k EXCEPT !.st = st] \in CmdOf
      BY <3>0 DEF CmdOf
    <3>2. cmds' \subseteq cmds \cup {[k EXCEPT !.st = st]}
      BY <2>1 DEF Run, Result
    <3>3. QED
      BY <3>1, <3>2 DEF TypeOK, CmdOf
  <2>3. cont' \in [Containers -> Cont] /\ owed' \subseteq Ids
    BY <2>1 DEF Run, Kept, TypeOK
  <2>4. QED
    BY <1>0, <2>1, <2>2, <2>3 DEF TypeOK, CmdOf, Run, Exists
<1>3. ASSUME NEW s \in Sessions, NEW missing \in SUBSET Containers, Report(s, missing) PROVE TypeOK'
  <2>1. Discover(missing) \in [Containers -> Cont]
    BY Nothings DEF Discover, TypeOK
  <2> DEFINE new == [sess[s] EXCEPT !.at = "way", !.saw = Discover(missing)]
  <2>2. sess' \in [Sessions -> SessOf]
    <3>1. sess \in [Sessions -> SessOf] /\ sess[s] \in SessOf
      BY DEF TypeOK, SessOf
    <3>2. new \in SessOf
      BY <2>1, <3>1 DEF SessOf
    <3>3. sess' = [sess EXCEPT ![s] = new]
      BY <1>3, <3>1 DEF Report
    <3> HIDE DEF new
    <3>4. QED
      BY <3>1, <3>2, <3>3
  <2>3. QED
    BY <1>0, <1>3, <2>2 DEF Report, TypeOK, SessOf, Exists
<1>4. ASSUME NEW s \in Sessions, Take(s) PROVE TypeOK'
  <2> DEFINE new == [sess[s] EXCEPT !.at = "busy", !.copy = rows,
                                    !.todo = {c \in Containers : sess[s].saw[c].here}]
  <2>1. sess' \in [Sessions -> SessOf]
    <3>1. sess \in [Sessions -> SessOf] /\ sess[s] \in SessOf /\ rows \in [Ids -> Row]
      BY DEF TypeOK, SessOf
    <3>2. new \in SessOf
      BY <3>1 DEF SessOf
    <3>3. sess' = [sess EXCEPT ![s] = new]
      BY <1>4 DEF Take
    <3> HIDE DEF new
    <3>4. QED
      BY <3>1, <3>2, <3>3
  <2>2. overlap' \in BOOLEAN
    BY <1>4 DEF Take, TypeOK
  <2>3. QED
    BY <1>0, <1>4, <2>1, <2>2 DEF Take, TypeOK, SessOf, Exists
<1>5. ASSUME NEW s \in Sessions, Merge(s) PROVE TypeOK'
  <2>1. PICK c \in sess[s].todo : sess' = Reported(s, c) /\ version' \in [Ids -> Tags \cup {None}]
    BY <1>5, Merging
  <2>2. /\ sess[s] \in SessOf /\ c \in Containers /\ sess[s].saw \in [Containers -> Cont]
        /\ sess[s].copy \in [Ids -> Row]
    BY DEF TypeOK, SessOf
  <2> DEFINE copy == [i \in Ids |-> IF sess[s].copy[i].c = c THEN NoRow ELSE sess[s].copy[i]]
             saw == [sess[s].saw EXCEPT ![c] = Gone]
             new == [sess[s] EXCEPT !.todo = @ \ {c}, !.saw[c] = Gone, !.copy = copy]
  <2>3. copy \in [Ids -> Row] /\ saw \in [Containers -> Cont]
    BY <2>2, Nothings
  <2>4. new = [sess[s] EXCEPT !.todo = @ \ {c}, !.saw = saw, !.copy = copy]
    BY <2>2 DEF SessOf
  <2> HIDE DEF copy, saw
  <2>5. new \in SessOf
    BY <2>2, <2>3, <2>4 DEF SessOf
  <2>6. sess' = [sess EXCEPT ![s] = IF sess[s].todo = {c} THEN NoReport ELSE new]
    BY <2>1 DEF Reported, copy
  <2> HIDE DEF new
  <2>7. sess' \in [Sessions -> SessOf]
    BY <2>5, <2>6, Nothings DEF TypeOK, SessOf
  <2>8. QED
    BY <1>0, <1>5, <2>1, <2>7 DEF Merge, TypeOK, SessOf, Exists
<1>6. ASSUME NEW s \in Sessions, Connect(s) PROVE TypeOK'
  BY <1>0, <1>6 DEF Connect, TypeOK, Exists
<1>7. ASSUME PollRead PROVE TypeOK'
  <2>1. poll' \in [id : Ids \cup {None}, copy : Row]
    BY <1>7 DEF PollRead, TypeOK
  <2>2. QED
    BY <1>0, <1>7, <2>1 DEF PollRead, TypeOK, Exists
<1>8. ASSUME PollWrite PROVE TypeOK'
  BY <1>0, <1>8, Nothings DEF PollWrite, TypeOK, Exists
<1>9. ASSUME Break PROVE TypeOK'
  <2>1. PICK lost \in SUBSET {k \in cmds : k.st = "sent"} :
          cmds' = {[k EXCEPT !.mute = TRUE] : k \in {k \in cmds \ lost : k.st \in {"sent", "down"}}}
    BY <1>9 DEF Break
  <2>2. ASSUME NEW l \in cmds' PROVE l \in CmdOf
    <3>1. PICK k \in cmds : l = [k EXCEPT !.mute = TRUE]
      BY <2>1
    <3>2. k \in CmdOf
      BY DEF TypeOK, CmdOf
    <3>3. QED
      BY <3>1, <3>2 DEF CmdOf
  <2>3. events' \in 0..MaxEvents /\ cur' \in Sessions \cup {None}
    BY <1>9 DEF Break, Event, TypeOK
  <2>4. QED
    BY <1>0, <1>9, <2>2, <2>3 DEF Break, TypeOK, CmdOf, Exists
<1>10. ASSUME NEW c \in Containers, Outside(c) PROVE TypeOK'
  <2> DEFINE up == ~cont[c].up
             n == [cont[c] EXCEPT !.up = up]
  <2>1. cont' \in [Containers -> Cont]
    <3>1. cont \in [Containers -> Cont] /\ up \in BOOLEAN
      BY DEF TypeOK
    <3>2. cont' = [cont EXCEPT ![c] = n]
      BY <1>10 DEF Outside
    <3> HIDE DEF up
    <3>3. n \in Cont
      BY <3>1 DEF Cont
    <3> HIDE DEF n
    <3>4. QED
      BY <3>1, <3>2, <3>3
  <2>2. events' \in 0..MaxEvents /\ owed' \subseteq Ids
    BY <1>10 DEF Outside, Event, TypeOK, Kept
  <2>3. QED
    BY <1>0, <1>10, <2>1, <2>2 DEF Outside, TypeOK, Exists
<1>11. QED
  BY <1>1, <1>2, <1>3, <1>4, <1>5, <1>6, <1>7, <1>8, <1>9, <1>10 DEF Next

-----------------------------------------------------------------------------
(* Copies, and what is known of them *)

LEMMA StaysSame ==
  ASSUME Steady, NEW i \in Ids, NEW row, Same(i, row)
  PROVE  Same(i, row)'
BY DEF Steady, Same, Exists

LEMMA RequestsStep ==
  ASSUME TypeOK, Requests, Reads, Next
  PROVE  Requests'
<1>1. Steady
  BY Steadily
<1>2. ASSUME NEW o \in Reqs, NEW q, Sound(q), req'[o] = q
      PROVE  /\ Shape(req[o])'
             /\ \A x \in DOMAIN req'[o].todo : req'[o].todo[x] \notin unused'
             /\ req'[o].copy.c # None => Same(Cur(o), req[o].copy)'
  <2>1. unused' \subseteq unused
    BY <1>1 DEF Steady
  <2>2. ASSUME q.copy.c # None PROVE Same(Head(q.todo), q.copy)'
    <3>1. q.todo \in Seq(Ids) /\ q.todo # <<>> /\ Same(Head(q.todo), q.copy)
      BY <1>2, <2>2 DEF Sound, ReqOf
    <3>2. Head(q.todo) \in Ids
      BY <3>1, Todo
    <3>3. QED
      BY <1>1, <3>1, <3>2, StaysSame
  <2>3. Shape(q) /\ \A x \in DOMAIN q.todo : q.todo[x] \notin unused'
    BY <1>2, <2>1 DEF Sound
  <2>4. QED
    BY <1>2, <2>2, <2>3 DEF Shape, Cur, Same, Exists
<1>3. ASSUME NEW o \in Reqs PROVE Sound(req[o])
  <2>1. req[o] \in ReqOf /\ Shape(req[o])
    BY DEF TypeOK, ReqOf, Requests
  <2>2. req[o].copy.c # None => req[o].todo # <<>>
    BY <2>1, Nothings DEF Shape
  <2>3. QED
    BY <2>1, <2>2 DEF Sound, Requests, Cur
<1>4. ASSUME NEW r \in Reqs, Begin(r) \/ ReqStep(r) PROVE Requests'
  <2>1. PICK q : Sound(q) /\ req' = [req EXCEPT ![r] = q]
    BY <1>4, Beginnings, Turns DEF Turned
  <2>2. ASSUME NEW o \in Reqs PROVE \E p : Sound(p) /\ req'[o] = p
    BY <1>3, <2>1 DEF TypeOK
  <2>3. QED
    BY <1>2, <2>2 DEF Requests
<1>5. ASSUME UNCHANGED req PROVE Requests'
  BY <1>2, <1>3, <1>5 DEF Requests
<1>6. QED
  BY <1>4, <1>5 DEF Next, AgentStep, Execute, Finish, Run, Report, Take, Merge, Connect, PollRead,
     PollWrite, Break, Outside

\* A command goes on following its request.
LEMMA Following ==
  ASSUME TypeOK, Requests, Reads, Next, NEW k \in CmdOf, Follows(k)
  PROVE  Follows(k)'
<1> DEFINE r == k.req
<1>1. /\ Steady /\ r \in Reqs /\ req[r] \in ReqOf /\ k.n \in 1..2 /\ req[r].todo \in Seq(Ids)
      /\ req[r].pc # "idle" /\ Len(req[r].todo) <= k.n
  BY Steadily DEF CmdOf, TypeOK, ReqOf, Follows
<1>2. ASSUME Len(req[r].todo) = k.n
      PROVE  Active(r) /\ Cur(r) \in Ids /\ Cur(r) \notin unused
  <2>1. req[r].todo # <<>>
    BY <1>1, <1>2, Todo
  <2>2. Active(r)
    BY <1>1, <2>1 DEF Requests, Shape, Active
  <2>3. QED
    BY <1>1, <2>2, AtNode
<1>3. ASSUME req'[r].todo = req[r].todo, req'[r].kind = req[r].kind,
             req'[r].pc # "idle", Len(req[r].todo) = k.n => req'[r].pc # "look"
      PROVE  Follows(k)'
  <2>1. Cur(r)' = Cur(r)
    BY <1>3 DEF Cur
  <2>2. CASE Len(req[r].todo) = k.n
    <3>1. Exists(Cur(r))' => Exists(Cur(r)) /\ rows'[Cur(r)].c = rows[Cur(r)].c
      BY <1>1, <1>2, <2>1, <2>2 DEF Steady, Exists
    <3>2. QED
      BY <1>3, <2>1, <2>2, <3>1 DEF Follows
  <2>3. CASE Len(req[r].todo) # k.n
    BY <1>1, <1>3, <2>3 DEF Follows
  <2>4. QED
    BY <2>2, <2>3
<1>4. ASSUME req'[r] = req[r] PROVE Follows(k)'
  BY <1>1, <1>3, <1>4 DEF Follows
<1>5. ASSUME NEW o \in Reqs, Begin(o) \/ ReqStep(o) PROVE Follows(k)'
  <2>1. PICK q : /\ req' = [req EXCEPT ![o] = q]
                 /\ Begins(o, q) \/ Leaves(o, q) \/ Stays(o, q)
    BY <1>5, Beginnings, Turns DEF Turned
  <2>2. CASE o # r
    BY <1>1, <1>4, <2>1, <2>2 DEF TypeOK
  <2>3. CASE o = r
    <3>1. req'[r] = q
      BY <1>1, <2>1, <2>3 DEF TypeOK
    <3>2. ~Begins(r, q)
      BY <1>1 DEF Begins
    <3>3. CASE Leaves(r, q)
      <4>1. PICK m \in Nat : m = Len(req[r].todo)
        BY <1>1, LenProperties
      <4>2. PICK n \in Nat : n = k.n
        BY <1>1
      <4>3. m <= n /\ Len(q.todo) = m - 1 /\ q.pc # "idle"
        BY <1>1, <3>3, <4>1, <4>2 DEF Leaves
      <4>4. Len(q.todo) <= n /\ Len(q.todo) # n
        BY <4>3
      <4>5. QED
        BY <3>1, <4>2, <4>3, <4>4 DEF Follows
    <3>4. CASE Stays(r, q)
      BY <1>3, <3>1, <3>4 DEF Stays
    <3>5. QED
      BY <2>1, <2>3, <3>2, <3>3, <3>4
  <2>4. QED
    BY <2>2, <2>3
<1>6. ASSUME UNCHANGED req PROVE Follows(k)'
  BY <1>4, <1>6
<1>7. QED
  BY <1>5, <1>6 DEF Next, AgentStep, Execute, Finish, Run, Report, Take, Merge, Connect, PollRead,
     PollWrite, Break, Outside

\* A command that is sent is of the node its request is at, and a step of the
\* agent or of the connection changes only its status.
LEMMA Sending ==
  ASSUME TypeOK, Requests, NEW r \in Reqs, Send(r), NEW k, k = Command(r)
  PROVE  k.st = "sent" /\ Follows(k)'
<1>1. /\ k.req = r /\ k.st = "sent" /\ k.kind = req[r].kind
      /\ k.n = Len(req[r].todo) /\ k.c = rows[Cur(r)].c
  BY DEF Command
<1>2. Active(r) /\ req[r].pc = "look" /\ Exists(Cur(r)) /\ rows' = rows
  BY DEF Send, Active
<1>3. PICK q : /\ req' = [req EXCEPT ![r] = q]
               /\ Leaves(r, q) \/ Stays(r, q)
  BY Turns DEF Turned, ReqStep
<1>4. req'[r] = q /\ req[r].todo \in Seq(Ids)
  BY <1>3 DEF TypeOK
<1>5. PICK m \in Nat : m = Len(req[r].todo)
  BY <1>4, LenProperties
<1>6. CASE Leaves(r, q)
  <2>1. Len(q.todo) = m - 1 /\ q.pc # "idle"
    BY <1>5, <1>6 DEF Leaves
  <2>2. Len(q.todo) <= m /\ Len(q.todo) # m
    BY <1>5, <2>1
  <2>3. QED
    BY <1>1, <1>4, <1>5, <2>1, <2>2 DEF Follows
<1>7. CASE Stays(r, q)
  <2>1. q.todo = req[r].todo /\ q.kind = req[r].kind /\ q.pc \notin {"idle", "look"}
    BY <1>7 DEF Stays
  <2>2. Len(q.todo) <= m
    BY <1>5, <2>1
  <2>3. QED
    BY <1>1, <1>2, <1>4, <1>5, <2>1, <2>2 DEF Follows, Cur
<1>8. QED
  BY <1>1, <1>3, <1>6, <1>7

LEMMA CommandsStep ==
  ASSUME TypeOK, Requests, Commands, Reads, Next
  PROVE  Commands'
<1>1. ASSUME NEW k \in cmds PROVE k \in CmdOf /\ Follows(k)'
  <2>1. k \in CmdOf /\ Follows(k)
    BY DEF TypeOK, CmdOf, Commands
  <2>2. QED
    BY <2>1, Following
<1>2. ASSUME NEW k \in cmds, NEW l, l.req = k.req, l.n = k.n, l.c = k.c, l.kind = k.kind
      PROVE  Follows(l)'
  BY <1>1, <1>2 DEF Follows
<1>3. ASSUME NEW r \in Reqs, Begin(r) \/ ReqStep(r) PROVE Commands'
  <2>1. CASE Send(r)
    <3>1. cmds' = cmds \cup {Command(r)}
      BY <2>1 DEF Send
    <3>2. QED
      BY <1>1, <2>1, <3>1, Sending DEF Commands
  <2>2. CASE ~Send(r)
    <3>1. cmds' \subseteq cmds
      BY <1>3, <2>2 DEF ReqStep, Begin, Refuse, Look, Answer, Timeout, StoreStatus,
         ReadMaint, Write, Delete
    <3>2. QED
      BY <1>1, <3>1 DEF Commands
  <2>3. QED
    BY <2>1, <2>2
<1>4. ASSUME AgentStep PROVE Commands'
  <2>1. PICK k \in cmds, st \in {"down", "ok", "failed", "running", "stopped"} :
          cmds' = Result(k, st)
    BY <1>4, Running DEF AgentStep, Run
  <2>2. cmds' \subseteq cmds \cup {[k EXCEPT !.st = st]}
    BY <2>1 DEF Result
  <2>3. Follows([k EXCEPT !.st = st])'
    <3>1. PICK l : l = [k EXCEPT !.st = st]
      OBVIOUS
    <3>2. l.req = k.req /\ l.n = k.n /\ l.c = k.c /\ l.kind = k.kind
      BY <1>1, <3>1 DEF CmdOf
    <3>3. QED
      BY <1>2, <3>1, <3>2
  <2>4. QED
    BY <1>1, <2>2, <2>3 DEF Commands
<1>5. ASSUME Break PROVE Commands'
  <2>1. PICK lost \in SUBSET {k \in cmds : k.st = "sent"} :
          cmds' = {[k EXCEPT !.mute = TRUE] : k \in {k \in cmds \ lost : k.st \in {"sent", "down"}}}
    BY <1>5 DEF Break
  <2>2. ASSUME NEW l \in cmds' PROVE Follows(l)'
    <3>1. PICK k \in cmds : l = [k EXCEPT !.mute = TRUE]
      BY <2>1
    <3>2. l.req = k.req /\ l.n = k.n /\ l.c = k.c /\ l.kind = k.kind
      BY <1>1, <3>1 DEF CmdOf
    <3>3. QED
      BY <1>2, <3>2
  <2>3. QED
    BY <2>2 DEF Commands
<1>6. ASSUME UNCHANGED cmds PROVE Commands'
  BY <1>1, <1>6 DEF Commands
<1>7. QED
  BY <1>3, <1>4, <1>5, <1>6 DEF Next, Report, Take, Merge, Connect, PollRead, PollWrite, Outside

\* What a session knows after a container of its report.
LEMMA Merged ==
  ASSUME TypeOK, NEW s \in Sessions, NEW c \in sess[s].todo, sess' = Reported(s, c)
  PROVE  /\ \A o \in Sessions \ {s} : sess'[o] = sess[o]
         /\ sess'[s] = NoReport \/ sess'[s].at = sess[s].at
         /\ sess'[s].todo \subseteq sess[s].todo \ {c}
         /\ \A d \in Containers : sess'[s].saw[d] = Gone \/ (d # c /\ sess'[s].saw[d] = sess[s].saw[d])
         /\ \A d \in sess'[s].todo : sess'[s].saw[d] = sess[s].saw[d]
         /\ \A i \in Ids : \/ sess'[s].copy[i] = NoRow
                           \/ sess'[s].copy[i] = sess[s].copy[i]
         /\ \A i \in Ids, d \in sess'[s].todo : sess[s].copy[i].c = d => sess'[s].copy[i].c = d
<1> DEFINE copy == [i \in Ids |-> IF sess[s].copy[i].c = c THEN NoRow ELSE sess[s].copy[i]]
           saw == [sess[s].saw EXCEPT ![c] = Gone]
           rest == [sess[s] EXCEPT !.todo = @ \ {c}, !.saw[c] = Gone, !.copy = copy]
<1>1. /\ sess \in [Sessions -> SessOf] /\ sess[s] \in SessOf /\ c \in Containers
      /\ sess[s].saw \in [Containers -> Cont] /\ sess[s].copy \in [Ids -> Row]
  BY DEF TypeOK, SessOf
<1>2. sess' = [sess EXCEPT ![s] = IF sess[s].todo = {c} THEN NoReport ELSE rest]
  BY DEF Reported
<1>3. /\ rest.at = sess[s].at /\ rest.todo = sess[s].todo \ {c} /\ rest.saw = saw
      /\ rest.copy = copy
  BY <1>1 DEF SessOf
<1>4. /\ \A d \in Containers : saw[d] = IF d = c THEN Gone ELSE sess[s].saw[d]
      /\ \A i \in Ids : copy[i] = IF sess[s].copy[i].c = c THEN NoRow ELSE sess[s].copy[i]
  BY <1>1
<1> HIDE DEF rest, saw, copy
<1>5. CASE sess[s].todo = {c}
  <2>1. sess'[s] = NoReport /\ \A o \in Sessions \ {s} : sess'[o] = sess[o]
    BY <1>1, <1>2, <1>5
  <2>2. QED
    BY <2>1, Nothings
<1>6. CASE sess[s].todo # {c}
  <2>1. sess'[s] = rest /\ \A o \in Sessions \ {s} : sess'[o] = sess[o]
    BY <1>1, <1>2, <1>6
  <2>2. rest.todo \subseteq Containers \ {c}
    BY <1>1, <1>3 DEF SessOf
  <2>3. /\ \A d \in Containers : rest.saw[d] = Gone \/ (d # c /\ rest.saw[d] = sess[s].saw[d])
        /\ \A d \in rest.todo : rest.saw[d] = sess[s].saw[d]
    BY <1>3, <1>4, <2>2
  <2>4. /\ \A i \in Ids : rest.copy[i] = NoRow \/ rest.copy[i] = sess[s].copy[i]
        /\ \A i \in Ids, d \in rest.todo : sess[s].copy[i].c = d => rest.copy[i].c = d
    BY <1>3, <1>4, <2>2
  <2>5. QED
    BY <1>3, <2>1, <2>3, <2>4
<1>7. QED
  BY <1>5, <1>6

LEMMA ReadsStep ==
  ASSUME TypeOK, Requests, Reads, Next
  PROVE  Reads'
<1> DEFINE Of(s) == /\ sess[s].at = "none" => sess[s] = NoReport
                    /\ sess[s].at = "busy" => \A c \in sess[s].todo : sess[s].saw[c].here
                    /\ \A i \in Ids : sess[s].copy[i].c # None => Same(i, sess[s].copy[i])
           Polled == poll # NoPoll => poll.id \in Ids /\ poll.copy.c # None /\ Same(poll.id, poll.copy)
<1>1. Steady /\ Polled /\ \A s \in Sessions : Of(s)
  BY Steadily DEF Reads
<1>2. ASSUME NEW i \in Ids, rows[i].c # None PROVE Same(i, rows[i])
  BY <1>2, Nothings DEF Same, TypeOK, Exists
<1>3. ASSUME NEW s \in Sessions, sess'[s] = sess[s] PROVE Of(s)'
  <2>1. ASSUME NEW i \in Ids, sess[s].copy[i].c # None PROVE Same(i, sess[s].copy[i])'
    <3>1. PICK row : row = sess[s].copy[i]
      OBVIOUS
    <3>2. Same(i, row)'
      BY <1>1, <2>1, <3>1, StaysSame
    <3>3. QED
      BY <1>3, <3>1, <3>2 DEF Same, Exists
  <2>2. QED
    BY <1>1, <1>3, <2>1
<1>4. ASSUME poll' = poll PROVE Polled'
  <2>1. ASSUME poll # NoPoll PROVE Same(poll.id, poll.copy)'
    <3>1. PICK i, row : i = poll.id /\ row = poll.copy
      OBVIOUS
    <3>2. Same(i, row)'
      BY <1>1, <2>1, <3>1, StaysSame
    <3>3. QED
      BY <1>4, <3>1, <3>2 DEF Same, Exists
  <2>2. QED
    BY <1>1, <1>4, <2>1
<1>5. ASSUME NEW s \in Sessions, NEW missing \in SUBSET Containers, Report(s, missing) PROVE Of(s)'
  <2>1. /\ sess'[s].at = "way" /\ sess'[s].copy = sess[s].copy /\ rows' = rows /\ unused' = unused
    BY <1>5 DEF Report, TypeOK
  <2>2. QED
    BY <1>1, <2>1 DEF Same, Exists
<1>6. ASSUME NEW s \in Sessions, Take(s) PROVE Of(s)'
  <2>1. /\ sess'[s].at = "busy" /\ sess'[s].copy = rows /\ sess'[s].saw = sess[s].saw
        /\ \A c \in sess'[s].todo : sess[s].saw[c].here
        /\ rows' = rows /\ unused' = unused
    BY <1>6 DEF Take, TypeOK
  <2>2. QED
    BY <1>2, <2>1 DEF Same, Exists
<1>7. ASSUME NEW s \in Sessions, Merge(s) PROVE \A o \in Sessions : Of(o)'
  <2>1. PICK c \in sess[s].todo : sess' = Reported(s, c)
    BY <1>7 DEF Merge
  <2>2. /\ \A o \in Sessions \ {s} : sess'[o] = sess[o]
        /\ sess'[s] = NoReport \/ sess'[s].at = sess[s].at
        /\ sess'[s].todo \subseteq sess[s].todo
        /\ \A d \in sess'[s].todo : sess'[s].saw[d] = sess[s].saw[d]
        /\ \A i \in Ids : \/ sess'[s].copy[i] = NoRow
                          \/ sess'[s].copy[i] = sess[s].copy[i]
    BY <2>1, Merged
  <2>3. sess[s].at = "busy" /\ \A d \in sess[s].todo : sess[s].saw[d].here
    BY <1>1, <1>7 DEF Merge
  <2>4. ASSUME NEW i \in Ids, sess'[s].copy[i].c # None PROVE Same(i, sess[s].copy[i])'
    <3>1. PICK row : row = sess[s].copy[i]
      OBVIOUS
    <3>2. row = sess'[s].copy[i] /\ row.c # None
      BY <2>2, <2>4, <3>1, Nothings
    <3>3. Same(i, row)'
      BY <1>1, <3>1, <3>2, StaysSame
    <3>4. QED
      BY <3>2, <3>3 DEF Same, Exists
  <2>5. Of(s)'
    BY <2>2, <2>3, <2>4, Nothings
  <2>6. QED
    BY <1>3, <2>2, <2>5
<1>8. ASSUME PollRead PROVE Polled'
  <2>1. PICK i \in Ids : Exists(i) /\ poll' = [id |-> i, copy |-> rows[i]] /\ rows' = rows /\ unused' = unused
    BY <1>8 DEF PollRead
  <2>2. rows[i].c # None
    BY <2>1 DEF TypeOK
  <2>3. QED
    BY <1>2, <2>1, <2>2 DEF Same, Exists
<1>9. ASSUME PollWrite PROVE Polled'
  BY <1>9 DEF PollWrite
<1>10. Polled'
  BY <1>4, <1>8, <1>9 DEF Next, AgentStep, Execute, Finish, Run, Report, Take, Merge, Connect,
     Break, Outside, Begin, ReqStep, Send, Refuse, Look, Answer, Timeout, StoreStatus, ReadMaint,
     Write, Delete
<1>11. ASSUME NEW s \in Sessions,
              (\E missing \in SUBSET Containers : Report(s, missing)) \/ Take(s)
       PROVE  \A o \in Sessions : Of(o)'
  <2>1. \A o \in Sessions \ {s} : sess'[o] = sess[o]
    BY <1>11 DEF Report, Take, TypeOK
  <2>2. QED
    BY <1>3, <1>5, <1>6, <1>11, <2>1
<1>12. \A s \in Sessions : Of(s)'
  BY <1>3, <1>7, <1>11 DEF Next, AgentStep, Execute, Finish, Run, Connect, PollRead, PollWrite,
     Break, Outside, Begin, ReqStep, Send, Refuse, Look, Answer, Timeout, StoreStatus, ReadMaint,
     Write, Delete
<1>13. QED
  BY <1>10, <1>12 DEF Reads

-----------------------------------------------------------------------------
(* One row for a container *)

\* Most steps make no row.
NoNew == \A i \in unused : ~Exists(i)'

LEMMA OldRows ==
  ASSUME TypeOK, Requests, Reads, Next, NoNew
  PROVE  \A i \in Ids : Exists(i)' => Exists(i) /\ rows'[i].c = rows[i].c
BY Steadily DEF Steady, NoNew

LEMMA OneRowStep ==
  ASSUME TypeOK, Requests, Reads, OneRow, Next
  PROVE  OneRow'
<1> SUFFICES ASSUME ~overlap' PROVE
      /\ \A i, j \in Ids : Exists(i)' /\ Exists(j)' /\ rows'[i].c = rows'[j].c => i = j
      /\ \A s, o \in Sessions : sess'[s].at = "busy" /\ sess'[o].at = "busy" => s = o
      /\ \A s \in Sessions : sess'[s].at = "busy" =>
           \A c \in sess'[s].todo : RowsOf(c)' \subseteq Known(s, c)'
  BY DEF OneRow
<1>1. ~overlap
  BY DEF Next, AgentStep, Execute, Finish, Run, Report, Take, Merge, Connect, PollRead, PollWrite,
     Break, Outside, Begin, ReqStep, Send, Refuse, Look, Answer, Timeout, StoreStatus, ReadMaint,
     Write, Delete
<1>2. /\ \A i, j \in Ids : Exists(i) /\ Exists(j) /\ rows[i].c = rows[j].c => i = j
      /\ \A s, o \in Sessions : sess[s].at = "busy" /\ sess[o].at = "busy" => s = o
      /\ \A s \in Sessions : sess[s].at = "busy" =>
           \A c \in sess[s].todo : RowsOf(c) \subseteq Known(s, c)
  BY <1>1 DEF OneRow
<1>3. TypeOK'
  BY TypeStep
<1>4. ASSUME NoNew PROVE \A c \in Containers : RowsOf(c)' \subseteq RowsOf(c)
  <2>1. \A i \in Ids, c \in Containers : rows'[i].c = c => Exists(i)'
    BY Nothings DEF Exists
  <2>2. QED
    BY <1>4, <2>1, OldRows DEF RowsOf
<1>5. ASSUME NoNew
      PROVE  \A i, j \in Ids : Exists(i)' /\ Exists(j)' /\ rows'[i].c = rows'[j].c => i = j
  BY <1>2, <1>5, OldRows
<1>6. ASSUME NEW s \in Sessions, NEW c \in Containers, sess'[s].copy = sess[s].copy
      PROVE  Known(s, c)' = Known(s, c)
  BY <1>6 DEF Known
<1>7. ASSUME NoNew, NEW s \in Sessions, sess'[s] = sess[s], sess'[s].at = "busy"
      PROVE  \A c \in sess'[s].todo : RowsOf(c)' \subseteq Known(s, c)'
  <2>1. sess[s].todo \subseteq Containers
    BY DEF TypeOK
  <2>2. QED
    BY <1>2, <1>4, <1>6, <1>7, <2>1
<1>8. ASSUME NoNew, UNCHANGED sess
      PROVE  \A s \in Sessions : sess'[s].at = "busy" =>
               \A c \in sess'[s].todo : RowsOf(c)' \subseteq Known(s, c)'
  BY <1>7, <1>8
<1>9. ASSUME UNCHANGED rows PROVE NoNew
  BY <1>9 DEF NoNew, Exists, TypeOK
<1>10. CASE \E r \in Reqs : Begin(r) \/ ReqStep(r)
  <2>1. PICK r \in Reqs : Begin(r) \/ ReqStep(r)
    BY <1>10
  <2>2. NoNew
    <3>1. unused' = unused
      BY <2>1 DEF ReqStep, Begin, Send, Refuse, Look, Answer, Timeout, StoreStatus, ReadMaint,
         Write, Delete
    <3>2. QED
      BY <1>3, <3>1 DEF NoNew, TypeOK, Exists
  <2>3. UNCHANGED sess
    BY <2>1 DEF ReqStep, Begin, Send, Refuse, Look, Answer, Timeout, StoreStatus, ReadMaint,
       Write, Delete
  <2>4. QED
    BY <1>2, <1>5, <1>8, <2>2, <2>3
<1>11. CASE AgentStep \/ (\E s \in Sessions : Connect(s)) \/ PollRead \/ \E c \in Containers : Outside(c)
  <2>1. UNCHANGED <<rows, sess>>
    BY <1>11 DEF AgentStep, Execute, Finish, Run, Connect, PollRead, Outside
  <2>2. QED
    BY <1>2, <1>5, <1>8, <1>9, <2>1
<1>12. CASE PollWrite \/ Break
  <2>1. UNCHANGED <<unused, sess>>
    BY <1>12 DEF PollWrite, Break
  <2>2. NoNew
    BY <1>3, <2>1 DEF NoNew, TypeOK, Exists
  <2>3. QED
    BY <1>2, <1>5, <1>8, <2>1, <2>2
<1>13. CASE \E s \in Sessions, missing \in SUBSET Containers : Report(s, missing)
  <2>1. PICK s \in Sessions, missing \in SUBSET Containers : Report(s, missing)
    BY <1>13
  <2>2. UNCHANGED rows /\ sess'[s].at = "way" /\ \A o \in Sessions \ {s} : sess'[o] = sess[o]
    BY <2>1 DEF Report, TypeOK
  <2>3. QED
    BY <1>2, <1>5, <1>7, <1>9, <2>2
<1>14. CASE \E s \in Sessions : Take(s)
  <2>1. PICK s \in Sessions : Take(s)
    BY <1>14
  <2>2. /\ UNCHANGED rows /\ \A o \in Sessions \ {s} : sess'[o] = sess[o]
        /\ sess'[s].copy = rows /\ \A o \in Sessions \ {s} : sess[o].at # "busy"
    <3>1. overlap' = (overlap \/ \E o \in Sessions \ {s} : sess[o].at = "busy")
      BY <2>1 DEF Take
    <3>2. \A o \in Sessions \ {s} : sess[o].at # "busy"
      BY <3>1, Zenon
    <3>3. QED
      BY <2>1, <3>2 DEF Take, TypeOK
  <2>3. \A c \in Containers : RowsOf(c)' \subseteq Known(s, c)'
    BY <2>2 DEF RowsOf, Known
  <2>4. sess'[s].todo \subseteq Containers
    BY <1>3 DEF TypeOK
  <2>5. QED
    BY <1>2, <1>5, <1>9, <2>2, <2>3, <2>4
<1>15. CASE \E s \in Sessions : Merge(s)
  <2>1. PICK s \in Sessions : Merge(s)
    BY <1>15
  <2>2. PICK c \in sess[s].todo, i \in Ids, row \in Row :
          /\ row.c = c /\ sess' = Reported(s, c) /\ unused' = unused \ {i}
          /\ \/ Put(i, row) /\ i \notin unused
             \/ Known(s, c) = {} /\ i \in unused /\ rows' = [rows EXCEPT ![i] = row]
    BY <2>1, Merging
  <2>3. /\ \A o \in Sessions \ {s} : sess'[o] = sess[o]
        /\ sess'[s].at = "busy" => sess[s].at = "busy"
        /\ sess'[s].todo \subseteq sess[s].todo \ {c}
        /\ \A j \in Ids, d \in sess'[s].todo : sess[s].copy[j].c = d => sess'[s].copy[j].c = d
    BY <2>2, Merged, Nothings
  <2>4. sess[s].at = "busy" /\ \A o \in Sessions \ {s} : sess'[o].at # "busy"
    BY <1>2, <2>1, <2>3 DEF Merge
  <2>5. sess[s].todo \subseteq Containers
    BY DEF TypeOK
  <2>6. \A d \in sess'[s].todo : Known(s, d) \subseteq Known(s, d)'
    BY <2>3 DEF Known
  <2>7. CASE Put(i, row) /\ i \notin unused
    <3>1. NoNew
      BY <1>3, <2>2, <2>7 DEF NoNew, TypeOK, Exists
    <3>2. \A d \in sess'[s].todo : RowsOf(d)' \subseteq Known(s, d)'
      BY <1>2, <1>4, <2>3, <2>4, <2>5, <2>6, <3>1
    <3>3. QED
      BY <1>5, <2>4, <3>1, <3>2
  <2>8. CASE Known(s, c) = {} /\ i \in unused /\ rows' = [rows EXCEPT ![i] = row]
    <3>1. \A j \in Ids : rows[j].c # c
      BY <1>2, <2>4, <2>8 DEF RowsOf
    <3>2. rows'[i] = row /\ \A j \in Ids \ {i} : rows'[j] = rows[j]
      BY <2>8 DEF TypeOK
    <3>3. ASSUME NEW j \in Ids, NEW k \in Ids, Exists(j)', Exists(k)', rows'[j].c = rows'[k].c
          PROVE  j = k
      BY <1>2, <2>2, <3>1, <3>2, <3>3 DEF Exists
    <3>4. \A d \in sess'[s].todo : RowsOf(d)' \subseteq RowsOf(d)
      BY <2>2, <2>3, <3>2 DEF RowsOf
    <3>5. \A d \in sess'[s].todo : RowsOf(d)' \subseteq Known(s, d)'
      BY <1>2, <2>3, <2>4, <2>6, <3>4
    <3>6. QED
      BY <2>4, <3>3, <3>5
  <2>9. QED
    BY <2>2, <2>7, <2>8
<1>16. QED
  BY <1>10, <1>11, <1>12, <1>13, <1>14, <1>15 DEF Next

-----------------------------------------------------------------------------
(* Promises of maintenance *)

\* A request at the row of a promise keeps to it: it does not come to write the row
\* without the mark, nor with a container that it has started.
LEMMA CalmStep ==
  ASSUME TypeOK, Requests, Commands, NEW i \in Ids, Promise(i), rows[i].c = rows'[i].c,
         NEW r \in Reqs, Begin(r) \/ ReqStep(r)
  PROVE  Calm(i)'
<1>1. PICK q : /\ Sound(q) /\ req' = [req EXCEPT ![r] = q]
               /\ Begins(r, q) \/ Leaves(r, q) \/ Stays(r, q)
  BY Beginnings, Turns DEF Turned
<1>2. req'[r] = q /\ \A o \in Reqs \ {r} : req'[o] = req[o]
  BY <1>1 DEF TypeOK
<1>3. ASSUME NEW o \in Reqs, o # r, Active(o)', Cur(o)' = i
      PROVE  /\ req'[o].copy.c # None => req'[o].copy.maint
             /\ req'[o].kind \in {"start", "restart"} => req'[o].pc \in {"look", "wait"}
  BY <1>2, <1>3 DEF Promise, Calm, Active, Cur
<1>4. ASSUME Active(r)', Cur(r)' = i
      PROVE  /\ q.copy.c # None => q.copy.maint
             /\ q.kind \in {"start", "restart"} => q.pc \in {"look", "wait"}
  <2>1. CASE Begins(r, q) \/ Leaves(r, q)
    BY <1>2, <1>4, <2>1, Nothings DEF Begins, Leaves, Active
  <2>2. CASE Stays(r, q)
    <3>1. /\ Active(r) /\ Cur(r) = i /\ q.kind = req[r].kind /\ q.todo # <<>>
          /\ q.pc \notin {"idle", "look", "end"}
      BY <1>1, <1>2, <1>4, <2>2 DEF Stays, Cur, Active, Sound, Shape
    <3>2. /\ req[r].copy.c # None => req[r].copy.maint
          /\ req[r].kind \in {"start", "restart"} => req[r].pc \in {"look", "wait"}
          /\ req[r] \in ReqOf /\ rows[i] \in Row /\ rows[i].maint /\ Exists(i) /\ Shape(req[r])
          /\ req[r].copy \in Row
      BY <3>1, AtNode DEF Promise, Calm, Requests, ReqOf
    <3>3. q # Advance(r)
      BY <3>1, Advances DEF Leaves
    <3>4. ASSUME NEW pc PROVE AtPc(r, pc).copy = req[r].copy /\ AtPc(r, pc).pc = pc
      BY <3>2 DEF AtPc, ReqOf
    <3>5. CASE Send(r)
      <4>1. q = [req[r] EXCEPT !.copy = IF req[r].kind = "upgrade" THEN rows[i] ELSE NoRow,
                               !.pc = "wait"]
        BY <1>2, <3>1, <3>3, <3>5 DEF Send, TypeOK
      <4>2. q.pc = "wait" /\ q.copy = IF req[r].kind = "upgrade" THEN rows[i] ELSE NoRow
        BY <3>2, <4>1 DEF ReqOf
      <4>3. QED
        BY <3>2, <4>2, Nothings
    <3>6. CASE Refuse(r)
      <4>1. q = AtPc(r, "erase") /\ req[r].kind = "remove"
        BY <1>2, <3>3, <3>6 DEF Refuse, TypeOK
      <4>2. QED
        BY <3>1, <3>2, <3>4, <4>1
    <3>7. CASE Look(r)
      <4>1. CASE req[r].kind = "delete"
        <5>1. q = AtPc(r, "erase")
          BY <1>2, <3>3, <3>7, <4>1 DEF Look, TypeOK
        <5>2. QED
          BY <3>1, <3>2, <3>4, <4>1, <5>1
      <4>2. CASE req[r].kind = "rename"
        <5>1. q = [req[r] EXCEPT !.copy = [rows[i] EXCEPT !.named = TRUE], !.pc = "write"]
          BY <1>2, <3>1, <3>3, <3>7, <4>2 DEF Look, TypeOK
        <5>2. q.copy = [rows[i] EXCEPT !.named = TRUE]
          BY <3>2, <5>1 DEF ReqOf
        <5>3. q.copy.maint
          BY <3>2, <5>2 DEF Row
        <5>4. QED
          BY <3>1, <4>2, <5>3
      <4>3. QED
        BY <3>7, <4>1, <4>2 DEF Look
    <3>8. CASE Answer(r)
      <4>1. PICK k \in Answers(r) :
              req' = [req EXCEPT ![r] =
                IF k.st = "failed" THEN Advance(r)
                ELSE IF req[r].kind = "upgrade" THEN [@ EXCEPT !.copy.tag = req[r].tag, !.pc = "write"]
                ELSE IF req[r].kind = "remove" THEN AtPc(r, "erase")
                ELSE IF k.st = "ok" THEN AtPc(r, "maint")
                ELSE [AtPc(r, "status") EXCEPT !.copy.status = k.st]]
        BY <3>8 DEF Answer
      <4>2. k.st # "failed" /\ k \in cmds /\ k.req = r /\ k.n = Len(req[r].todo) /\ k.st # "sent"
        BY <1>2, <3>3, <4>1 DEF Answers, TypeOK
      <4>3. k.kind = req[r].kind /\ k.c = rows[i].c
        BY <3>1, <3>2, <4>2 DEF Commands, Follows
      <4>4. k.kind \notin {"start", "restart"}
        BY <4>2, <4>3 DEF Promise, Unstarted
      <4>5. q.copy.c = req[r].copy.c /\ q.copy.maint = req[r].copy.maint
        <5>1. CASE req[r].kind = "upgrade"
          <6>1. q = [req[r] EXCEPT !.copy.tag = req[r].tag, !.pc = "write"]
            BY <1>2, <4>1, <4>2, <5>1 DEF TypeOK
          <6>2. q.copy = [req[r].copy EXCEPT !.tag = req[r].tag]
            BY <3>2, <6>1 DEF ReqOf
          <6>3. QED
            BY <3>2, <6>2 DEF Row
        <5>2. CASE q \in {AtPc(r, "erase"), AtPc(r, "maint")}
          BY <3>4, <5>2
        <5>3. CASE q = [AtPc(r, "status") EXCEPT !.copy.status = k.st]
          <6>1. AtPc(r, "status") \in ReqOf
            BY <3>2 DEF AtPc, ReqOf
          <6>2. q.copy = [req[r].copy EXCEPT !.status = k.st]
            BY <3>4, <5>3, <6>1 DEF ReqOf
          <6>3. QED
            BY <3>2, <6>2 DEF Row
        <5>4. QED
          BY <1>2, <4>1, <4>2, <5>1, <5>2, <5>3 DEF TypeOK
      <4>6. QED
        BY <3>1, <3>2, <4>3, <4>4, <4>5
    <3>9. CASE Timeout(r) \/ Write(r) \/ Delete(r)
      BY <1>2, <3>3, <3>9 DEF Timeout, Write, Delete, TypeOK
    <3>10. CASE StoreStatus(r)
      <4>1. q = [AtPc(r, "maint") EXCEPT !.copy = NoRow] /\ req[r].pc = "status"
        BY <1>2, <3>10 DEF StoreStatus, TypeOK
      <4>2. q.copy = NoRow
        BY <3>2, <4>1 DEF AtPc, ReqOf
      <4>3. QED
        BY <3>1, <3>2, <4>1, <4>2, Nothings
    <3>11. CASE ReadMaint(r)
      <4>1. /\ q = [req[r] EXCEPT !.copy = [rows[i] EXCEPT !.maint = req[r].kind = "stop"],
                                  !.pc = "write"]
            /\ req[r].pc = "maint"
        BY <1>2, <3>1, <3>3, <3>11 DEF ReadMaint, TypeOK
      <4>2. req[r].kind = "stop"
        BY <3>2, <4>1 DEF Shape
      <4>3. q.copy = [rows[i] EXCEPT !.maint = req[r].kind = "stop"]
        BY <3>2, <4>1 DEF ReqOf
      <4>4. q.copy.maint
        BY <3>2, <4>2, <4>3 DEF Row
      <4>5. QED
        BY <3>1, <4>2, <4>4
    <3>12. CASE Begin(r)
      BY <3>1, <3>12 DEF Begin, Active
    <3>13. QED
      BY <3>5, <3>6, <3>7, <3>8, <3>9, <3>10, <3>11, <3>12 DEF ReqStep
  <2>3. QED
    BY <1>1, <2>1, <2>2
<1>5. QED
  BY <1>2, <1>3, <1>4 DEF Calm

LEMMA PromisesStep ==
  ASSUME TypeOK, Requests, Commands, Reads, Promises, Next
  PROVE  Promises'
<1>1. /\ Steady /\ TypeOK' /\ Requests' /\ unused \subseteq Ids /\ owed \subseteq Ids
      /\ rows \in [Ids -> Row] /\ cont \in [Containers -> Cont]
  BY Steadily, TypeStep, RequestsStep DEF TypeOK
<1>2. \A i \in owed : /\ i \in Ids /\ i \notin unused /\ Promise(i)
                      /\ rows[i] \in Row /\ rows[i].c \in Containers /\ rows[i].c # None
  BY <1>1 DEF Promises, Promise, TypeOK
\* It is enough that what the step changes is as the promise wants it.
<1>3. ASSUME NEW i \in owed, rows'[i].c = rows[i].c, rows'[i].maint,
             cont'[rows[i].c].here /\ ~cont'[rows[i].c].up,
             Calm(i)', \A c : c = rows[i].c => Unstarted(c)' /\ Unread(i, c)',
             poll'.id = i => poll'.copy.maint
      PROVE  Promise(i)'
  <2>1. Exists(i)'
    BY <1>2, <1>3, Nothings DEF Exists
  <2>2. Unstarted(rows[i].c)' /\ Unread(i, rows[i].c)'
    BY <1>3 DEF Unstarted, Unread
  <2>3. QED
    BY <1>3, <2>1, <2>2 DEF Promise
<1>4. ASSUME NEW i \in owed, UNCHANGED cont
      PROVE  cont'[rows[i].c].here /\ ~cont'[rows[i].c].up
  BY <1>2, <1>4 DEF Promise
<1>5. ASSUME NEW i \in owed, UNCHANGED rows PROVE rows'[i].c = rows[i].c /\ rows'[i].maint
  BY <1>2, <1>5 DEF Promise
<1>6. ASSUME NEW i \in owed, UNCHANGED req PROVE Calm(i)'
  BY <1>2, <1>6 DEF Promise, Calm, Active, Cur
<1>7. ASSUME NEW i \in owed, cmds' \subseteq cmds PROVE \A c : c = rows[i].c => Unstarted(c)'
  BY <1>2, <1>7 DEF Promise, Unstarted
<1>8. ASSUME NEW i \in owed, UNCHANGED sess PROVE \A c : c = rows[i].c => Unread(i, c)'
  BY <1>2, <1>8 DEF Promise, Unread
<1>9. ASSUME NEW i \in owed, UNCHANGED poll PROVE poll'.id = i => poll'.copy.maint
  BY <1>2, <1>9 DEF Promise
<1>10. CASE \E r \in Reqs : Begin(r) \/ ReqStep(r)
  <2>1. PICK r \in Reqs : Begin(r) \/ ReqStep(r)
    BY <1>10
  <2>2. UNCHANGED <<cont, sess, poll>>
    BY <2>1 DEF ReqStep, Begin, Send, Refuse, Look, Answer, Timeout, StoreStatus, ReadMaint,
       Write, Delete
  <2>3. ASSUME NEW i \in owed PROVE \A c : c = rows[i].c => Unstarted(c)'
    <3>1. CASE Send(r)
      <4>1. cmds' = cmds \cup {Command(r)} /\ Command(r).st = "sent"
        BY <3>1 DEF Send, Command
      <4>2. QED
        BY <1>2, <4>1 DEF Promise, Unstarted
    <3>2. CASE ~Send(r)
      <4>1. cmds' \subseteq cmds
        BY <2>1, <3>2 DEF ReqStep, Begin, Refuse, Look, Answer, Timeout, StoreStatus, ReadMaint,
           Write, Delete
      <4>2. QED
        BY <1>7, <4>1
    <3>3. QED
      BY <3>1, <3>2
  <2>4. ASSUME NEW i \in owed, i \in owed' PROVE rows'[i].c = rows[i].c /\ rows'[i].maint
    <3>1. CASE StoreStatus(r)
      <4>1. rows'[i] = rows[i] \/ rows'[i] = [rows[i] EXCEPT !.status = req[r].copy.status]
        BY <1>1, <1>2, <3>1 DEF StoreStatus, PutStatus
      <4>2. QED
        BY <1>2, <4>1 DEF Promise, Row
    <3>2. CASE Write(r)
      <4>1. Active(r) /\ Put(Cur(r), req[r].copy) /\ req[r].copy.c # None
        BY <3>2 DEF Write, Active, Requests, Shape
      <4>2. CASE Cur(r) = i
        <5>1. Same(i, req[r].copy) /\ req[r].copy.maint /\ Exists(i)
          BY <1>2, <4>1, <4>2 DEF Requests, Promise, Calm
        <5>2. QED
          BY <1>1, <1>2, <4>1, <4>2, <5>1 DEF Put, Same
      <4>3. CASE Cur(r) # i
        <5>1. rows'[i] = rows[i]
          BY <1>1, <1>2, <4>1, <4>3 DEF Put
        <5>2. QED
          BY <1>2, <5>1 DEF Promise
      <4>4. QED
        BY <4>2, <4>3
    <3>3. CASE Delete(r)
      <4>1. rows'[i] = rows[i]
        BY <1>1, <1>2, <2>4, <3>3 DEF Delete, Erase
      <4>2. QED
        BY <1>2, <4>1 DEF Promise
    <3>4. CASE ~(StoreStatus(r) \/ Write(r) \/ Delete(r))
      <4>1. UNCHANGED rows
        BY <2>1, <3>4 DEF ReqStep, Begin, Send, Refuse, Look, Answer, Timeout, ReadMaint
      <4>2. QED
        BY <1>5, <4>1
    <3>5. QED
      BY <3>1, <3>2, <3>3, <3>4
  <2>5. ASSUME NEW i \in owed, i \in owed' PROVE Promise(i)'
    <3>1. rows'[i].c = rows[i].c /\ rows'[i].maint
      BY <2>4, <2>5
    <3>2. Calm(i)'
      BY <1>2, <2>1, <3>1, CalmStep
    <3>3. QED
      BY <1>3, <1>4, <1>8, <1>9, <2>2, <2>3, <3>1, <3>2
  <2>6. ASSUME NEW i \in owed', i \notin owed PROVE Promise(i)'
    <3>1. Write(r)
      BY <2>1, <2>6 DEF ReqStep, Begin, Send, Refuse, Look, Answer, Timeout, StoreStatus,
         ReadMaint, Delete
    <3>2. /\ i = Cur(r) /\ req[r].kind = "stop" /\ req[r].pc = "write" /\ Exists(i) /\ Alone(r)
          /\ owed' = Kept(owed \cup {i}, cont, rows') /\ Put(i, req[r].copy)
      BY <2>6, <3>1 DEF Write, Kept
    <3>3. /\ Active(r) /\ i \in Ids /\ rows[i].c \in Containers
          /\ req[r].copy.c # None /\ req[r].copy.maint /\ Same(i, req[r].copy)
      BY <3>2, AtNode DEF Active, Requests, Shape
    <3>4. rows'[i].c = rows[i].c /\ rows'[i].maint /\ Exists(i)'
      BY <1>1, <3>2, <3>3, Nothings DEF Put, Same, Exists
    <3>5. cont'[rows'[i].c].here /\ ~cont'[rows'[i].c].up
      BY <2>2, <2>6, <3>2 DEF Kept
    <3>6. Calm(i)'
      <4>1. PICK q : req' = [req EXCEPT ![r] = q] /\ q = Advance(r)
        BY <3>1 DEF Write
      <4>2. q.copy = NoRow /\ q.pc \in {"look", "end"}
        BY <3>3, <4>1, Advances DEF Leaves
      <4>3. req'[r] = q /\ \A o \in Reqs \ {r} : req'[o] = req[o] /\ ~Active(o)
        BY <3>2, <4>1 DEF Alone, TypeOK
      <4>4. QED
        BY <4>2, <4>3, Nothings DEF Calm, Active
    <3>7. Unstarted(rows[i].c)'
      <4>1. cmds' = cmds /\ \A k \in cmds : k.c # rows[i].c
        BY <3>1, <3>2 DEF Write, Alone
      <4>2. QED
        BY <3>4, <4>1 DEF Unstarted
    <3>8. Unread(i, rows[i].c)'
      <4>1. \A s \in Sessions : sess'[s] = NoReport
        BY <2>2, <3>2 DEF Alone, Reads
      <4>2. QED
        BY <3>3, <3>4, <4>1, Nothings DEF Unread
    <3>9. poll'.id # i
      BY <2>2, <3>2, <3>3, Nothings DEF Alone
    <3>10. QED
      BY <3>4, <3>5, <3>6, <3>7, <3>8, <3>9 DEF Promise
  <2>7. QED
    BY <2>5, <2>6 DEF Promises
<1>11. CASE AgentStep
  <2>1. PICK k \in cmds, n \in Cont, st \in {"down", "ok", "failed", "running", "stopped"} :
          /\ Run(k, n, st)
          /\ k.kind \in {"start", "restart"} => st = "failed" \/ n.up
    BY <1>11, Running DEF AgentStep
  <2>2. UNCHANGED <<rows, req, sess, poll>> /\ k \in CmdOf
    BY <2>1 DEF Run, TypeOK, CmdOf
  <2>3. ASSUME NEW i \in owed' PROVE Promise(i)'
    <3>1. i \in owed /\ cont'[rows[i].c].here /\ ~cont'[rows[i].c].up
      BY <2>1, <2>2, <2>3 DEF Run, Kept
    <3>2. cmds' \subseteq cmds \cup {[k EXCEPT !.st = st]}
      BY <2>1 DEF Run, Result
    <3>3. k.c = rows[i].c /\ k.kind \in {"start", "restart"} => st = "failed"
      BY <1>1, <2>1, <2>2, <3>1 DEF Run, CmdOf
    <3>4. PICK l : l = [k EXCEPT !.st = st]
      OBVIOUS
    <3>5. l.c = k.c /\ l.kind = k.kind /\ l.st = st
      BY <2>2, <3>4 DEF CmdOf
    <3>6. \A c : c = rows[i].c => Unstarted(c)'
      BY <1>2, <3>1, <3>2, <3>3, <3>4, <3>5 DEF Promise, Unstarted
    <3>7. QED
      BY <1>3, <1>5, <1>6, <1>8, <1>9, <2>2, <3>1, <3>6
  <2>4. QED
    BY <2>3 DEF Promises
<1>12. CASE \E c \in Containers : Outside(c)
  <2>1. UNCHANGED <<rows, req, cmds, sess, poll>> /\ owed' = Kept(owed, cont', rows)
    BY <1>12 DEF Outside
  <2>2. \A i \in owed' : i \in owed /\ cont'[rows[i].c].here /\ ~cont'[rows[i].c].up
    BY <2>1 DEF Kept
  <2>3. QED
    BY <1>3, <1>5, <1>6, <1>7, <1>8, <1>9, <2>1, <2>2 DEF Promises
<1>13. CASE \E s \in Sessions, missing \in SUBSET Containers : Report(s, missing)
  <2>1. PICK s \in Sessions, missing \in SUBSET Containers : Report(s, missing)
    BY <1>13
  <2>2. /\ UNCHANGED <<cont, rows, req, cmds, poll, owed>>
        /\ \A o \in Sessions \ {s} : sess'[o] = sess[o]
        /\ sess'[s].copy = sess[s].copy /\ sess'[s].saw = Discover(missing)
    BY <2>1 DEF Report, TypeOK
  <2>3. ASSUME NEW c \in Containers, Discover(missing)[c].here PROVE Discover(missing)[c] = cont[c]
    BY <2>3, Nothings DEF Discover
  <2>4. ASSUME NEW i \in owed PROVE \A c : c = rows[i].c => Unread(i, c)'
    BY <1>2, <2>2, <2>3 DEF Promise, Unread
  <2>5. QED
    BY <1>3, <1>4, <1>5, <1>6, <1>7, <1>9, <2>2, <2>4 DEF Promises
<1>14. CASE \E s \in Sessions : Take(s)
  <2>1. PICK s \in Sessions : Take(s)
    BY <1>14
  <2>2. /\ UNCHANGED <<cont, rows, req, cmds, poll, owed>>
        /\ \A o \in Sessions \ {s} : sess'[o] = sess[o]
        /\ sess'[s].copy = rows /\ sess'[s].saw = sess[s].saw
    BY <2>1 DEF Take, TypeOK
  <2>3. ASSUME NEW i \in owed PROVE \A c : c = rows[i].c => Unread(i, c)'
    BY <1>2, <2>2 DEF Promise, Unread
  <2>4. QED
    BY <1>3, <1>4, <1>5, <1>6, <1>7, <1>9, <2>2, <2>3 DEF Promises
<1>15. CASE \E s \in Sessions : Merge(s)
  <2>1. PICK s \in Sessions : Merge(s)
    BY <1>15
  <2>2. UNCHANGED <<cont, req, cmds, poll, owed>> /\ sess[s].at = "busy"
    BY <2>1 DEF Merge
  <2>3. PICK c \in sess[s].todo, j \in Ids, row \in Row :
          /\ row.c = c /\ sess' = Reported(s, c)
          /\ \/ /\ sess[s].copy[j].c = c /\ Same(j, row) /\ Put(j, row) /\ j \notin unused
                /\ sess[s].copy[j].maint /\ ~sess[s].saw[c].up => row.maint
             \/ j \in unused /\ rows' = [rows EXCEPT ![j] = row]
    BY <2>1, Merging
  <2>4. c \in Containers /\ c # None /\ sess[s].saw[c].here
    BY <2>2 DEF TypeOK, Reads
  <2>5. /\ \A o \in Sessions \ {s} : sess'[o] = sess[o]
        /\ \A d \in Containers : sess'[s].saw[d] = Gone \/ sess'[s].saw[d] = sess[s].saw[d]
        /\ \A i \in Ids : sess'[s].copy[i] = NoRow \/ sess'[s].copy[i] = sess[s].copy[i]
    BY <2>3, Merged
  <2>6. ASSUME NEW i \in owed PROVE \A d : d = rows[i].c => Unread(i, d)'
    BY <1>2, <2>5, Nothings DEF Promise, Unread
  <2>7. ASSUME NEW i \in owed PROVE rows'[i].c = rows[i].c /\ rows'[i].maint
    <3>1. CASE i # j
      <4>1. rows'[i] = rows[i]
        BY <1>1, <1>2, <2>3, <3>1 DEF Put
      <4>2. QED
        BY <1>2, <4>1 DEF Promise
    <3>2. CASE i = j
      <4>1. /\ sess[s].copy[i].c = c /\ Same(i, row) /\ Put(i, row)
            /\ sess[s].copy[i].maint /\ ~sess[s].saw[c].up => row.maint
        BY <1>2, <2>3, <3>2
      <4>2. Exists(i) /\ rows[i].c = c /\ rows[i].c = row.c
        BY <1>2, <2>3, <4>1 DEF Promise, Same
      <4>3. sess[s].copy[i].maint /\ ~sess[s].saw[c].up
        BY <1>2, <2>4, <4>1, <4>2 DEF Promise, Unread
      <4>4. rows'[i] = row
        BY <1>1, <1>2, <4>1, <4>2 DEF Put
      <4>5. QED
        BY <4>1, <4>2, <4>3, <4>4
    <3>3. QED
      BY <3>1, <3>2
  <2>8. QED
    BY <1>3, <1>4, <1>6, <1>7, <1>9, <2>2, <2>6, <2>7 DEF Promises
<1>16. CASE PollRead
  <2>1. UNCHANGED <<cont, rows, req, cmds, sess, owed>> /\ poll'.copy = rows[poll'.id]
    BY <1>16 DEF PollRead
  <2>2. ASSUME NEW i \in owed PROVE poll'.id = i => poll'.copy.maint
    BY <1>2, <2>1 DEF Promise
  <2>3. QED
    BY <1>3, <1>4, <1>5, <1>6, <1>7, <1>8, <2>1, <2>2 DEF Promises
<1>17. CASE PollWrite
  <2>1. /\ UNCHANGED <<cont, req, cmds, sess, owed>> /\ poll' = NoPoll /\ Put(poll.id, poll.copy)
        /\ poll.id \in Ids /\ Same(poll.id, poll.copy)
    BY <1>17 DEF PollWrite, Reads
  <2>2. ASSUME NEW i \in owed PROVE rows'[i].c = rows[i].c /\ rows'[i].maint
    <3>1. CASE poll.id = i
      <4>1. poll.copy.maint /\ Exists(i) /\ poll.copy.c = rows[i].c
        BY <1>2, <2>1, <3>1 DEF Promise, Same
      <4>2. rows'[i] = poll.copy
        BY <1>1, <1>2, <2>1, <3>1, <4>1 DEF Put
      <4>3. QED
        BY <4>1, <4>2
    <3>2. CASE poll.id # i
      <4>1. rows'[i] = rows[i]
        BY <1>1, <1>2, <2>1, <3>2 DEF Put
      <4>2. QED
        BY <1>2, <4>1 DEF Promise
    <3>3. QED
      BY <3>1, <3>2
  <2>3. ASSUME NEW i \in owed PROVE poll'.id # i
    BY <1>2, <2>1, Nothings
  <2>4. QED
    BY <1>3, <1>4, <1>6, <1>7, <1>8, <2>1, <2>2, <2>3 DEF Promises
<1>18. CASE Break
  <2>1. /\ UNCHANGED <<cont, req, sess, poll, owed>>
        /\ rows' = [i \in Ids |-> IF Exists(i) THEN [rows[i] EXCEPT !.status = "unknown"] ELSE NoRow]
    BY <1>18 DEF Break
  <2>2. ASSUME NEW i \in owed PROVE rows'[i].c = rows[i].c /\ rows'[i].maint
    <3>1. rows'[i] = [rows[i] EXCEPT !.status = "unknown"]
      BY <1>2, <2>1 DEF Promise
    <3>2. QED
      BY <1>2, <3>1 DEF Promise, Row
  <2>3. PICK lost \in SUBSET {k \in cmds : k.st = "sent"} :
          cmds' = {[k EXCEPT !.mute = TRUE] : k \in {k \in cmds \ lost : k.st \in {"sent", "down"}}}
    BY <1>18 DEF Break
  <2>4. ASSUME NEW l \in cmds'
        PROVE  \E k \in cmds : l.c = k.c /\ l.kind = k.kind /\ l.st = k.st
    <3>1. PICK k \in cmds : l = [k EXCEPT !.mute = TRUE]
      BY <2>3
    <3>2. k \in CmdOf
      BY DEF TypeOK, CmdOf
    <3>3. QED
      BY <3>1, <3>2 DEF CmdOf
  <2>5. ASSUME NEW i \in owed PROVE \A c : c = rows[i].c => Unstarted(c)'
    BY <1>2, <2>4 DEF Promise, Unstarted
  <2>6. QED
    BY <1>3, <1>4, <1>6, <1>8, <1>9, <2>1, <2>2, <2>5 DEF Promises
<1>19. CASE \E s \in Sessions : Connect(s)
  <2>1. UNCHANGED <<cont, rows, req, cmds, sess, poll, owed>>
    BY <1>19 DEF Connect
  <2>2. QED
    BY <1>3, <1>4, <1>5, <1>6, <1>7, <1>8, <1>9, <2>1 DEF Promises
<1>20. QED
  BY <1>10, <1>11, <1>12, <1>13, <1>14, <1>15, <1>16, <1>17, <1>18, <1>19 DEF Next

-----------------------------------------------------------------------------
(* The theorems *)

LEMMA Initial ==
  ASSUME Init
  PROVE  IInv
<1>1. (CHOOSE t \in Tags : TRUE) \in Tags
  OBVIOUS
<1>2. cont \in [Containers -> Cont]
  BY <1>1 DEF Init, Node, Cont
<1>3. ASSUME NEW i \in Ids
      PROVE  /\ rows[i] \in Row
             /\ Exists(i) => rows[i].c \in Containers
  <2>1. \/ rows[i] = NoRow
        \/ \E c \in Containers : rows[i] = [NoRow EXCEPT !.c = c, !.status = "running"]
    BY DEF Init
  <2>2. ASSUME NEW c \in Containers
        PROVE  /\ [NoRow EXCEPT !.c = c, !.status = "running"] \in Row
               /\ [NoRow EXCEPT !.c = c, !.status = "running"].c = c
    BY Nothings DEF Row
  <2>3. CASE rows[i] = NoRow
    BY <2>3, Nothings DEF Exists
  <2>4. CASE rows[i] # NoRow
    <3>1. PICK c \in Containers : rows[i] = [NoRow EXCEPT !.c = c, !.status = "running"]
      BY <2>1, <2>4
    <3>2. rows[i] \in Row /\ rows[i].c = c
      BY <2>2, <3>1
    <3>3. QED
      BY <3>2
  <2>5. QED
    BY <2>3, <2>4
<1>4. rows \in [Ids -> Row]
  BY <1>3 DEF Init
<1>5. TypeOK
  <2>1. req \in [Reqs -> ReqOf] /\ sess \in [Sessions -> SessOf]
    BY Nothings DEF Init
  <2>2. /\ version \in [Ids -> Tags \cup {None}] /\ unused \in SUBSET {i \in Ids : ~Exists(i)}
        /\ cmds = {} /\ cur \in Sessions /\ overlap \in BOOLEAN /\ owed \subseteq Ids
    BY DEF Init
  <2>3. events \in 0..MaxEvents
    <3>1. events = 0
      BY DEF Init
    <3>2. QED
      BY <3>1
  <2>4. poll \in [id : Ids \cup {None}, copy : Row]
    BY Nothings DEF Init
  <2>5. QED
    BY <1>2, <1>3, <1>4, <2>1, <2>2, <2>3, <2>4 DEF TypeOK, ReqOf, SessOf
<1>6. Requests
  <2>1. \A r \in Reqs : req[r] = Idle
    BY DEF Init
  <2>2. Len(<<>>) <= 2
    OBVIOUS
  <2>3. Shape(Idle) /\ \A x \in DOMAIN Idle.todo : FALSE
    BY <2>2, Nothings DEF Shape
  <2>4. QED
    BY <2>1, <2>3, Nothings DEF Requests
<1>7. Commands /\ Promises
  BY DEF Init, Commands, Promises
<1>8. Reads
  BY Nothings DEF Init, Reads
<1>9. OneRow
  <2>1. \A i, j \in Ids : Exists(i) /\ Exists(j) /\ rows[i].c = rows[j].c => i = j
    <3>1. TAKE i, j \in Ids
    <3>2. HAVE Exists(i) /\ Exists(j) /\ rows[i].c = rows[j].c
    <3>3. rows[i].c \in Containers
      BY <1>3, <3>2
    <3>4. PICK k \in Ids : RowsOf(rows[i].c) = {k}
      BY <3>3 DEF Init
    <3>5. QED
      BY <3>2, <3>4 DEF RowsOf
  <2>2. \A s \in Sessions : sess[s].at # "busy"
    BY Nothings DEF Init
  <2>3. QED
    BY <2>1, <2>2 DEF OneRow
<1>10. QED
  BY <1>5, <1>6, <1>7, <1>8, <1>9 DEF IInv

LEMMA Stuttering ==
  ASSUME IInv, UNCHANGED vars
  PROVE  IInv'
<1>1. TypeOK'
  BY DEF IInv, TypeOK, Exists
<1>2. Requests'
  BY DEF IInv, Requests, Shape, Same, Cur, Exists
<1>3. Commands'
  BY DEF IInv, Commands, Follows, Cur, Exists
<1>4. Reads'
  BY DEF IInv, Reads, Same, Exists
<1>5. OneRow'
  BY DEF IInv, OneRow, RowsOf, Known, Exists
<1>6. Promises'
  BY DEF IInv, Promises, Promise, Calm, Active, Cur, Unstarted, Unread, Exists
<1>7. QED
  BY <1>1, <1>2, <1>3, <1>4, <1>5, <1>6 DEF IInv

LEMMA Inductive == Spec => []IInv
<1>1. Init => IInv
  BY Initial
<1>2. IInv /\ [Next]_vars => IInv'
  <2>1. ASSUME IInv, Next PROVE IInv'
    BY <2>1, TypeStep, RequestsStep, CommandsStep, ReadsStep, OneRowStep, PromisesStep DEF IInv
  <2>2. ASSUME IInv, UNCHANGED vars PROVE IInv'
    BY <2>2, Stuttering
  <2>3. QED
    BY <2>1, <2>2
<1>3. QED
  BY <1>1, <1>2, PTL DEF Spec

\* Everything in the table, and everything read from it and not yet written back,
\* is of its kind, whichever statements and steps are mixed.
THEOREM Typing == Spec => []TypeOK
<1>1. IInv => TypeOK
  BY DEF IInv
<1>2. QED
  BY <1>1, Inductive, PTL

\* handleDiscovery never makes a second row for a container, however requests
\* and metrics write and delete rows between its reading of the list and its
\* writes, unless the reports of two sessions were handled at once.
THEOREM SingleRow == Spec => []OneRowEach
<1>1. IInv => OneRowEach
  <2> SUFFICES ASSUME IInv, ~overlap, NEW c \in Containers
               PROVE  Cardinality(RowsOf(c)) <= 1
    BY DEF OneRowEach
  <2>1. \A i, j \in RowsOf(c) : i = j
    BY Nothings DEF IInv, OneRow, RowsOf, Exists
  <2>2. CASE RowsOf(c) = {}
    BY <2>2, FS_EmptySet
  <2>3. CASE RowsOf(c) # {}
    <3>1. PICK i : RowsOf(c) = {i}
      BY <2>1, <2>3
    <3>2. QED
      BY <3>1, FS_Singleton
  <2>4. QED
    BY <2>2, <2>3
<1>2. QED
  BY <1>1, Inductive, PTL

\* SetMaintenance: the mark of a node that the operator stopped while nobody had
\* read its row or looked at its container outlasts every report, metric, batch
\* and broken connection, until the node runs again or its row is deleted.
THEOREM MaintenanceHolds == Spec => []OwedIsKept
<1>1. IInv => OwedIsKept
  BY DEF IInv, Promises, Promise, OwedIsKept
<1>2. QED
  BY <1>1, Inductive, PTL
=============================================================================
