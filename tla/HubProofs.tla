----------------------------- MODULE HubProofs -----------------------------
(***************************************************************************)
(* Theorems about Hub, for any number of servers, sessions and commands,   *)
(* any buffer size and every interleaving (Timely or not).                 *)
(***************************************************************************)
EXTENDS Hub, TLAPS

USE HubAssumption DEF sessionVars, agentVars, commandVars, vars, StopTimer

\* The shape of every state of the hub, the bound of the send buffers included:
\* no Register, Send or Broadcast ever puts more than SendCap messages in one.
THEOREM Typing == Spec => []TypeOK
<1>1. Init => TypeOK
  BY DEF Init, TypeOK, SessionsOK, AgentsOK, CommandsOK, ReaderPC, CmdPC
<1>2. TypeOK /\ [Next]_vars => TypeOK'
  <2> SUFFICES ASSUME TypeOK, [Next]_vars PROVE TypeOK'
    OBVIOUS
  <2>1. ASSUME NEW s \in Sessions, Accept(s) PROVE TypeOK'
    BY <2>1 DEF TypeOK, SessionsOK, AgentsOK, CommandsOK, ReaderPC, CmdPC,
       Accept
  <2>2. ASSUME NEW s \in Sessions, Register(s) PROVE TypeOK'
    BY <2>2 DEF TypeOK, SessionsOK, AgentsOK, CommandsOK, ReaderPC, CmdPC,
       Register
  <2>3. ASSUME NEW s \in Sessions, WriterSend(s) PROVE TypeOK'
    <3>1. /\ sendCh[s] \in Seq(Cmds) /\ sendCh[s] # <<>>
          /\ sendCh' = [sendCh EXCEPT ![s] = Tail(sendCh[s])]
      BY <2>3 DEF TypeOK, SessionsOK, WriterSend
    <3>2. /\ Head(sendCh[s]) \in Cmds
          /\ Tail(sendCh[s]) \in Seq(Cmds)
          /\ Len(Tail(sendCh[s])) <= Len(sendCh[s])
      BY <3>1
    <3>3. SessionsOK'
      BY <2>3, <3>1, <3>2 DEF TypeOK, SessionsOK, WriterSend
    <3>4. AgentsOK' /\ CommandsOK'
      BY <2>3, <3>2 DEF TypeOK, AgentsOK, CommandsOK, WriterSend
    <3>5. Len(sendCh[s]) \in Nat /\ Len(Tail(sendCh[s])) \in Nat
      BY <3>1, <3>2
    <3>6. \A t \in Sessions : Len(sendCh'[t]) <= SendCap
      BY <3>1, <3>2, <3>5 DEF TypeOK, SessionsOK
    <3>7. QED
      BY <3>3, <3>4, <3>6 DEF TypeOK
  <2>4. ASSUME NEW s \in Sessions, WriterExit(s) PROVE TypeOK'
    BY <2>4 DEF TypeOK, SessionsOK, AgentsOK, CommandsOK, ReaderPC, CmdPC,
       WriterExit
  <2>5. ASSUME NEW s \in Sessions, Receive(s) PROVE TypeOK'
    BY <2>5 DEF TypeOK, SessionsOK, AgentsOK, CommandsOK, ReaderPC, CmdPC,
       Receive
  <2>6. ASSUME NEW s \in Sessions, NEW c \in Cmds, ReceiveResult(s, c)
        PROVE TypeOK'
    <3>1. AgentsOK'
      BY <2>6 DEF TypeOK, AgentsOK, ReceiveResult
    <3>2. CASE c \in pending
      <4>1. SessionsOK'
        <5>1. /\ reader' = [reader EXCEPT ![s] = "delivering"]
              /\ handled' = [handled EXCEPT ![s] = c]
              /\ fresh' = fresh \cup {s}
              /\ UNCHANGED <<connections, open, sendCh, writers, cancelled,
                             link, stale>>
          BY <2>6, <3>2 DEF ReceiveResult
        <5>2. QED
          BY <5>1 DEF TypeOK, SessionsOK, ReaderPC
      <4>2. CommandsOK' /\ \A t \in Sessions : Len(sendCh'[t]) <= SendCap
        BY <2>6, <3>2 DEF TypeOK, CommandsOK, ReceiveResult
      <4>3. QED
        BY <3>1, <4>1, <4>2 DEF TypeOK
    <3>3. CASE c \notin pending
      <4>1. SessionsOK'
        BY <2>6, <3>3 DEF TypeOK, SessionsOK, ReceiveResult
      <4>2. CommandsOK' /\ \A t \in Sessions : Len(sendCh'[t]) <= SendCap
        BY <2>6, <3>3 DEF TypeOK, CommandsOK, ReceiveResult
      <4>3. QED
        BY <3>1, <4>1, <4>2 DEF TypeOK
    <3>4. QED
      BY <3>2, <3>3
  <2>7. ASSUME NEW s \in Sessions, DeliverResult(s) PROVE TypeOK'
    BY <2>7 DEF TypeOK, SessionsOK, AgentsOK, CommandsOK, ReaderPC, CmdPC,
       DeliverResult
  <2>8. ASSUME NEW s \in Sessions, ReaderExit(s) PROVE TypeOK'
    BY <2>8 DEF TypeOK, SessionsOK, AgentsOK, CommandsOK, ReaderPC, CmdPC,
       ReaderExit
  <2>9. ASSUME NEW s \in Sessions, Leave(s) PROVE TypeOK'
    BY <2>9 DEF TypeOK, SessionsOK, AgentsOK, CommandsOK, ReaderPC, CmdPC,
       Leave, Unregister
  <2>10. ASSUME NEW s \in Sessions, Age(s) PROVE TypeOK'
    BY <2>10 DEF TypeOK, SessionsOK, AgentsOK, CommandsOK, ReaderPC, CmdPC,
       Age
  <2>11. ASSUME NEW s \in Sessions, Break(s) PROVE TypeOK'
    BY <2>11 DEF TypeOK, SessionsOK, AgentsOK, CommandsOK, ReaderPC, CmdPC,
       Break
  <2>12. ASSUME NEW s \in Sessions, NEW c \in Cmds, Answer(s, c) PROVE TypeOK'
    BY <2>12 DEF TypeOK, SessionsOK, AgentsOK, CommandsOK, ReaderPC, CmdPC,
       Answer
  <2>13. ASSUME CollectStale PROVE TypeOK'
    BY <2>13 DEF TypeOK, SessionsOK, AgentsOK, CommandsOK, ReaderPC, CmdPC,
       CollectStale
  <2>14. ASSUME NEW srv \in Servers, UnregisterStale(srv) PROVE TypeOK'
    BY <2>14 DEF TypeOK, SessionsOK, AgentsOK, CommandsOK, ReaderPC, CmdPC,
       UnregisterStale, Unregister
  <2>15. ASSUME NEW c \in Cmds, Issue(c) PROVE TypeOK'
    BY <2>15 DEF TypeOK, SessionsOK, AgentsOK, CommandsOK, ReaderPC, CmdPC,
       Issue
  <2>16. ASSUME NEW c \in Cmds, Insert(c) PROVE TypeOK'
    BY <2>16 DEF TypeOK, SessionsOK, AgentsOK, CommandsOK, ReaderPC, CmdPC,
       Insert
  <2>17. ASSUME NEW c \in Cmds, Lookup(c) PROVE TypeOK'
    BY <2>17 DEF TypeOK, SessionsOK, AgentsOK, CommandsOK, ReaderPC, CmdPC,
       Lookup
  <2>18. ASSUME NEW c \in Cmds, Enqueue(c) PROVE TypeOK'
    <3>1. SessionsOK' /\ \A s \in Sessions : Len(sendCh'[s]) <= SendCap
      <4>1. CASE sendCh' = sendCh
        BY <2>18, <4>1 DEF TypeOK, SessionsOK, Enqueue
      <4>2. CASE sendCh' # sendCh
        <5>1. /\ conn[c] \in Sessions
              /\ sendCh[conn[c]] \in Seq(Cmds)
              /\ Len(sendCh[conn[c]]) < SendCap
              /\ sendCh' = [sendCh EXCEPT ![conn[c]] = Append(sendCh[conn[c]], c)]
          BY <2>18, <4>2 DEF TypeOK, SessionsOK, Enqueue
        <5>2. /\ Append(sendCh[conn[c]], c) \in Seq(Cmds)
              /\ Len(Append(sendCh[conn[c]], c)) <= SendCap
          BY <5>1
        <5>3. QED
          BY <2>18, <5>1, <5>2 DEF TypeOK, SessionsOK, Enqueue
      <4>3. QED
        BY <4>1, <4>2
    <3>2. AgentsOK' /\ CommandsOK'
      BY <2>18 DEF TypeOK, AgentsOK, CommandsOK, CmdPC, Enqueue
    <3>3. QED
      BY <3>1, <3>2 DEF TypeOK
  <2>19. ASSUME NEW c \in Cmds, Fail(c) PROVE TypeOK'
    BY <2>19 DEF TypeOK, SessionsOK, AgentsOK, CommandsOK, ReaderPC, CmdPC,
       Fail
  <2>20. ASSUME NEW c \in Cmds, Return(c) PROVE TypeOK'
    BY <2>20 DEF TypeOK, SessionsOK, AgentsOK, CommandsOK, ReaderPC, CmdPC,
       Return
  <2>21. ASSUME NEW c \in Cmds, TimerFire(c) PROVE TypeOK'
    BY <2>21 DEF TypeOK, SessionsOK, AgentsOK, CommandsOK, ReaderPC, CmdPC,
       TimerFire
  <2>22. ASSUME NEW c \in Cmds, TimerCallback(c) PROVE TypeOK'
    BY <2>22 DEF TypeOK, SessionsOK, AgentsOK, CommandsOK, ReaderPC, CmdPC,
       TimerCallback
  <2>23. CASE UNCHANGED vars
    BY <2>23 DEF TypeOK, SessionsOK, AgentsOK, CommandsOK, ReaderPC, CmdPC
  <2>24. QED
    BY <2>1, <2>2, <2>3, <2>4, <2>5, <2>6, <2>7, <2>8, <2>9, <2>10, <2>11,
       <2>12, <2>13, <2>14, <2>15, <2>16, <2>17, <2>18, <2>19, <2>20, <2>21,
       <2>22, <2>23 DEF Next, SessionNext, CommandNext
<1>3. QED
  BY <1>1, <1>2, PTL DEF Spec

-----------------------------------------------------------------------------
(* The registry *)

RegistryInv == OpenIffRegistered /\ NoGhostConnection

\* The steps that touch neither the registry, nor the channels, nor the place
\* a HandleUpgrade call is at.
LEMMA QuietSteps ==
  ASSUME [Next]_vars
  PROVE  \/ UNCHANGED <<connections, open, reader>>
         \/ \E s \in Sessions : \/ Accept(s) \/ Register(s) \/ DeliverResult(s)
                                \/ ReaderExit(s) \/ Leave(s)
                                \/ \E c \in Cmds : ReceiveResult(s, c)
         \/ \E srv \in Servers : UnregisterStale(srv)
  BY DEF Next, SessionNext, CommandNext, WriterSend, WriterExit, Receive, Age,
         Break, Answer, CollectStale, Issue, Insert, Lookup, Enqueue, Fail,
         Return, TimerFire, TimerCallback

\* The open channels are exactly the registered ones and every registered
\* session has its handler, in every interleaving of handlers coming, going
\* and replacing each other with the health checker.  The two facts together
\* are inductive: what a handler closes on its way out is open because it is
\* registered, and no other session of the server can be open.
THEOREM RegistryConsistent == Spec => [](OpenIffRegistered /\ NoGhostConnection)
<1>1. Init => RegistryInv
  BY DEF Init, RegistryInv, OpenIffRegistered, NoGhostConnection
<1>2. TypeOK /\ RegistryInv /\ [Next]_vars => RegistryInv'
  <2> SUFFICES ASSUME TypeOK, RegistryInv, [Next]_vars PROVE RegistryInv'
    OBVIOUS
  <2>0. /\ connections \in [Servers -> Sessions \cup {None}]
        /\ reader \in [Sessions -> ReaderPC]
        /\ open \subseteq Sessions
    BY DEF TypeOK, SessionsOK
  <2> USE <2>0 DEF RegistryInv, OpenIffRegistered, NoGhostConnection
  <2>1. CASE UNCHANGED <<connections, open, reader>>
    BY <2>1
  <2>2. ASSUME NEW s \in Sessions, Accept(s) PROVE RegistryInv'
    BY <2>2 DEF Accept, Unreferenced
  <2>3. ASSUME NEW s \in Sessions, Register(s) PROVE RegistryInv'
    BY <2>3 DEF Register, Registered
  <2>4. ASSUME NEW s \in Sessions, DeliverResult(s) PROVE RegistryInv'
    BY <2>4 DEF DeliverResult
  <2>5. ASSUME NEW s \in Sessions, ReaderExit(s) PROVE RegistryInv'
    BY <2>5 DEF ReaderExit
  <2>6. ASSUME NEW s \in Sessions, Leave(s) PROVE RegistryInv'
    BY <2>6 DEF Leave, Unregister, Registered
  <2>7. ASSUME NEW s \in Sessions, NEW c \in Cmds, ReceiveResult(s, c)
        PROVE RegistryInv'
    BY <2>7 DEF ReceiveResult
  <2>8. ASSUME NEW srv \in Servers, UnregisterStale(srv) PROVE RegistryInv'
    BY <2>8 DEF UnregisterStale, Unregister, Registered
  <2>9. QED
    BY <2>1, <2>2, <2>3, <2>4, <2>5, <2>6, <2>7, <2>8, QuietSteps
<1>3. QED
  BY <1>1, <1>2, Typing, PTL DEF Spec, RegistryInv

-----------------------------------------------------------------------------
(* The result channels *)

\* Entries of Hub.pending, and the results being delivered.
EntryInv ==
  /\ \A c \in Cmds :
       /\ c \in pending =>
            /\ resultCh[c] = "empty"
            /\ cmd[c] \notin {"new", "inserting", "returned"}
       /\ cmd[c] \in {"new", "inserting"} => resultCh[c] = "empty"
  /\ \A s \in Sessions : reader[s] = "delivering" =>
       /\ handled[s] \in Cmds \ pending
       /\ resultCh[handled[s]] = "empty"
       /\ cmd[handled[s]] \notin {"new", "inserting"}
       /\ \A t \in Sessions :
            reader[t] = "delivering" /\ handled[t] = handled[s] => t = s

LEMMA EntryInvariance == Spec => []EntryInv
<1>1. Init => EntryInv
  BY DEF Init, EntryInv
<1>2. TypeOK /\ EntryInv /\ [Next]_vars => EntryInv'
  <2> SUFFICES ASSUME TypeOK, EntryInv, [Next]_vars PROVE EntryInv'
    OBVIOUS
  <2>0. /\ reader \in [Sessions -> ReaderPC]
        /\ handled \in [Sessions -> Cmds \cup {NoCmd}]
        /\ cmd \in [Cmds -> CmdPC]
        /\ resultCh \in [Cmds -> {"empty", "result", "timeout"}]
    BY DEF TypeOK, SessionsOK, CommandsOK
  <2> USE <2>0 DEF EntryInv
  <2>1. ASSUME UNCHANGED <<reader, handled, cmd, pending, resultCh>>
        PROVE EntryInv'
    BY <2>1
  <2>2. ASSUME NEW s \in Sessions, \/ Accept(s) \/ Register(s) \/ ReaderExit(s)
                                   \/ Leave(s)
        PROVE EntryInv'
    BY <2>2 DEF Accept, Register, ReaderExit, Leave, Unregister
  <2>3. ASSUME NEW s \in Sessions, NEW c \in Cmds, ReceiveResult(s, c)
        PROVE EntryInv'
    BY <2>3 DEF ReceiveResult
  <2>4. ASSUME NEW s \in Sessions, DeliverResult(s) PROVE EntryInv'
    BY <2>4 DEF DeliverResult
  <2>5. ASSUME NEW c \in Cmds, Issue(c) \/ Insert(c) \/ Lookup(c) \/ Fail(c)
        PROVE EntryInv'
    BY <2>5 DEF Issue, Insert, Lookup, Fail, CmdPC
  <2>6. ASSUME NEW c \in Cmds, Enqueue(c) PROVE EntryInv'
    BY <2>6 DEF Enqueue, CmdPC
  <2>7. ASSUME NEW c \in Cmds, Return(c) PROVE EntryInv'
    BY <2>7 DEF Return
  <2>8. ASSUME NEW c \in Cmds, TimerCallback(c) PROVE EntryInv'
    BY <2>8 DEF TimerCallback
  <2>9. QED
    BY <2>1, <2>2, <2>3, <2>4, <2>5, <2>6, <2>7, <2>8
    DEF Next, SessionNext, CommandNext, WriterSend, WriterExit, Receive, Age,
        Break, Answer, CollectStale, UnregisterStale, TimerFire
<1>3. QED
  BY <1>1, <1>2, Typing, PTL DEF Spec

\* No sender ever blocks on a result channel: when a result or a timeout is
\* about to be delivered its channel is empty and nobody else is about to.
\* EntryInv is the strengthening: an entry is in Hub.pending only between the
\* insertion and the first of answer, timeout and failure to send.
THEOREM ResultRoom == Spec => []ResultChannelHasRoom
<1>1. EntryInv => ResultChannelHasRoom
  BY DEF EntryInv, ResultChannelHasRoom, Delivering
<1>2. QED
  BY <1>1, EntryInvariance, PTL

-----------------------------------------------------------------------------
(* Where commands go *)

\* A command stays with the server it is for, from the lookup on.
RouteInv ==
  /\ NoMisdelivery
  /\ \A c \in Cmds : conn[c] # None => ServerOf[conn[c]] = TargetOf[c]
  /\ \A s \in Sessions : \A i \in 1..Len(sendCh[s]) :
       ServerOf[s] = TargetOf[sendCh[s][i]]

\* What a step of a writer, or a Send, does to a buffer, element by element.
LEMMA TailElements ==
  ASSUME NEW q \in Seq(Cmds), q # <<>>
  PROVE  /\ Head(q) = q[1] /\ 1 \in 1..Len(q)
         /\ Len(Tail(q)) = Len(q) - 1
         /\ \A i \in 1..Len(Tail(q)) : i + 1 \in 1..Len(q) /\ Tail(q)[i] = q[i + 1]
  OBVIOUS

LEMMA AppendElements ==
  ASSUME NEW q \in Seq(Cmds), NEW c \in Cmds
  PROVE  /\ Len(Append(q, c)) = Len(q) + 1
         /\ \A i \in 1..Len(Append(q, c)) :
              Append(q, c)[i] = IF i = Len(q) + 1 THEN c ELSE q[i]
  OBVIOUS

\* A command is executed only by the agent of the server it was sent to, and
\* its result is read only off a connection of that server: the connection a
\* Send looked up is of the right server whatever happened to it since.
THEOREM Routing == Spec => []NoMisdelivery
<1>1. Init => RouteInv
  BY DEF Init, RouteInv, NoMisdelivery
<1>2. TypeOK /\ RegistryInv /\ RouteInv /\ [Next]_vars => RouteInv'
  <2> SUFFICES ASSUME TypeOK, RegistryInv, RouteInv, [Next]_vars PROVE RouteInv'
    OBVIOUS
  <2>0. /\ sendCh \in [Sessions -> Seq(Cmds)]
        /\ handled \in [Sessions -> Cmds \cup {NoCmd}]
        /\ conn \in [Cmds -> Sessions \cup {None}]
        /\ running \subseteq Sessions \X Cmds /\ uplink \subseteq Sessions \X Cmds
    BY DEF TypeOK, SessionsOK, AgentsOK, CommandsOK
  <2> USE <2>0 DEF RouteInv, NoMisdelivery
  <2>1. ASSUME UNCHANGED <<sendCh, handled, conn, running, uplink>>
        PROVE RouteInv'
    BY <2>1
  <2>2. ASSUME NEW s \in Sessions, Register(s) PROVE RouteInv'
    BY <2>2 DEF Register
  <2>3. ASSUME NEW s \in Sessions, WriterSend(s) PROVE RouteInv'
    <3>1. /\ sendCh[s] \in Seq(Cmds) /\ sendCh[s] # <<>>
          /\ sendCh' = [sendCh EXCEPT ![s] = Tail(sendCh[s])]
      BY <2>3 DEF WriterSend
    <3>2. \A t \in Sessions : \A i \in 1..Len(sendCh'[t]) :
            ServerOf[t] = TargetOf[sendCh'[t][i]]
      BY <3>1, TailElements
    <3>3. ServerOf[s] = TargetOf[Head(sendCh[s])]
      BY <3>1, TailElements
    <3>4. \A p \in running' \cup uplink' : ServerOf[p[1]] = TargetOf[p[2]]
      <4>1. running' \subseteq running \cup {<<s, Head(sendCh[s])>>} /\ uplink' = uplink
        BY <2>3 DEF WriterSend
      <4>2. QED
        BY <3>3, <4>1
    <3>5. UNCHANGED <<handled, conn>>
      BY <2>3 DEF WriterSend
    <3>6. QED
      BY <3>2, <3>4, <3>5
  <2>4. ASSUME NEW s \in Sessions, NEW c \in Cmds, ReceiveResult(s, c)
        PROVE RouteInv'
    <3>1. ServerOf[s] = TargetOf[c]
      BY <2>4 DEF ReceiveResult
    <3>2. /\ handled' = handled \/ handled' = [handled EXCEPT ![s] = c]
          /\ running' = running /\ uplink' \subseteq uplink
          /\ UNCHANGED <<sendCh, conn>>
      BY <2>4 DEF ReceiveResult
    <3>3. \A t \in Sessions, d \in Cmds :
            handled'[t] = d => ServerOf[t] = TargetOf[d]
      <4>1. \A t \in Sessions : handled'[t] = handled[t] \/ (t = s /\ handled'[t] = c)
        BY <3>2
      <4>2. QED
        BY <3>1, <4>1
    <3>4. \A p \in running' \cup uplink' : ServerOf[p[1]] = TargetOf[p[2]]
      BY <3>2
    <3>5. QED
      BY <3>2, <3>3, <3>4
  <2>5. ASSUME NEW s \in Sessions, DeliverResult(s) PROVE RouteInv'
    BY <2>5 DEF DeliverResult
  <2>6. ASSUME NEW s \in Sessions, ReaderExit(s) \/ Break(s) PROVE RouteInv'
    BY <2>6 DEF ReaderExit, Break
  <2>7. ASSUME NEW s \in Sessions, NEW c \in Cmds, Answer(s, c) PROVE RouteInv'
    BY <2>7 DEF Answer
  <2>8. ASSUME NEW c \in Cmds, Lookup(c) PROVE RouteInv'
    BY <2>8 DEF Lookup, RegistryInv, NoGhostConnection
  <2>9. ASSUME NEW c \in Cmds, Enqueue(c) PROVE RouteInv'
    <3>1. CASE sendCh' = sendCh
      BY <2>9, <3>1 DEF Enqueue
    <3>2. CASE sendCh' # sendCh
      <4>1. /\ conn[c] \in Sessions
            /\ sendCh' = [sendCh EXCEPT ![conn[c]] = Append(sendCh[conn[c]], c)]
        BY <2>9, <3>2 DEF Enqueue, TypeOK, SessionsOK
      <4>2. \A t \in Sessions : \A i \in 1..Len(sendCh'[t]) :
              ServerOf[t] = TargetOf[sendCh'[t][i]]
        BY <4>1, AppendElements
      <4>3. QED
        BY <2>9, <4>2 DEF Enqueue
    <3>3. QED
      BY <3>1, <3>2
  <2>10. QED
    BY <2>1, <2>2, <2>3, <2>4, <2>5, <2>6, <2>7, <2>8, <2>9
    DEF Next, SessionNext, CommandNext, Accept, WriterExit, Receive, Leave,
        Age, CollectStale, UnregisterStale, Issue, Insert, Fail, Return,
        TimerFire, TimerCallback
<1>3. QED
  BY <1>1, <1>2, Typing, RegistryConsistent, PTL DEF Spec, RouteInv, RegistryInv

-----------------------------------------------------------------------------
(* The promise *)

\* The command has not been handed to a connection, and never will be.
NotSent(c) ==
  \/ cmd[c] \in {"new", "inserting", "sending", "enqueueing", "failing",
                 "panicked"}
  \/ reply[c] = "error"

\* Where a command is on its way to the agent: nowhere, in one place of one
\* buffer, or arrived.
QueueInv ==
  /\ \A s \in Sessions : \A i \in 1..Len(sendCh[s]) :
       ~NotSent(sendCh[s][i]) /\ sendCh[s][i] \notin accepted
  /\ \A s, t \in Sessions : \A i \in 1..Len(sendCh[s]), j \in 1..Len(sendCh[t]) :
       sendCh[s][i] = sendCh[t][j] => s = t /\ i = j
  /\ \A c \in accepted : ~NotSent(c)
  /\ \A c \in Cmds : reply[c] # "none" => cmd[c] = "returned"

LEMMA QueueInvariance == Spec => []QueueInv
<1>1. Init => QueueInv
  BY DEF Init, QueueInv
<1>2. TypeOK /\ QueueInv /\ [Next]_vars => QueueInv'
  <2> SUFFICES ASSUME TypeOK, QueueInv, [Next]_vars PROVE QueueInv'
    OBVIOUS
  <2>0. /\ sendCh \in [Sessions -> Seq(Cmds)]
        /\ cmd \in [Cmds -> CmdPC]
        /\ reply \in [Cmds -> {"none", "result", "timeout", "error"}]
        /\ resultCh \in [Cmds -> {"empty", "result", "timeout"}]
        /\ \A s \in Sessions : \A i \in 1..Len(sendCh[s]) : sendCh[s][i] \in Cmds
        /\ accepted \subseteq Cmds
    BY DEF TypeOK, SessionsOK, AgentsOK, CommandsOK
  <2> USE <2>0
  <2>1. ASSUME UNCHANGED <<sendCh, cmd, reply, accepted>> PROVE QueueInv'
    BY <2>1 DEF QueueInv, NotSent
  <2>2. ASSUME NEW s \in Sessions, Register(s) PROVE QueueInv'
    <3>1. /\ sendCh' = [sendCh EXCEPT ![s] = <<>>]
          /\ UNCHANGED <<cmd, reply, accepted>>
      BY <2>2 DEF Register
    <3>2. \A t \in Sessions : \A i \in 1..Len(sendCh'[t]) :
            i \in 1..Len(sendCh[t]) /\ sendCh'[t][i] = sendCh[t][i]
      BY <3>1
    <3>3. QED
      BY <3>1, <3>2 DEF QueueInv, NotSent
  <2>3. ASSUME NEW s \in Sessions, WriterSend(s) PROVE QueueInv'
    <3>1. /\ sendCh[s] \in Seq(Cmds) /\ sendCh[s] # <<>>
          /\ sendCh' = [sendCh EXCEPT ![s] = Tail(sendCh[s])]
          /\ accepted' \subseteq accepted \cup {Head(sendCh[s])}
          /\ UNCHANGED <<cmd, reply>>
      BY <2>3 DEF WriterSend
    <3>2. Head(sendCh[s]) = sendCh[s][1] /\ 1 \in 1..Len(sendCh[s])
      BY <3>1, TailElements
    <3>3. \A i \in 1..Len(sendCh'[s]) :
            i + 1 \in 1..Len(sendCh[s]) /\ sendCh'[s][i] = sendCh[s][i + 1]
      BY <3>1, TailElements
    <3>4. \A t \in Sessions \ {s} : sendCh'[t] = sendCh[t]
      BY <3>1
    <3>5. \A t \in Sessions : \A i \in 1..Len(sendCh'[t]) :
            \E j \in 1..Len(sendCh[t]) :
              /\ sendCh'[t][i] = sendCh[t][j]
              /\ t = s => j = i + 1
              /\ t # s => j = i
      BY <3>3, <3>4
    <3>6. \A t \in Sessions : \A i \in 1..Len(sendCh'[t]) :
            sendCh'[t][i] # sendCh[s][1]
      BY <3>2, <3>5 DEF QueueInv
    <3>7. \A t \in Sessions : \A i \in 1..Len(sendCh'[t]) :
            ~NotSent(sendCh'[t][i]) /\ sendCh'[t][i] \notin accepted'
      BY <3>1, <3>2, <3>5, <3>6 DEF QueueInv
    <3>8. \A t, u \in Sessions :
            \A i \in 1..Len(sendCh'[t]), j \in 1..Len(sendCh'[u]) :
              sendCh'[t][i] = sendCh'[u][j] => t = u /\ i = j
      BY <3>5 DEF QueueInv
    <3>9. \A c \in accepted' : ~NotSent(c)
      BY <3>1, <3>2 DEF QueueInv
    <3>10. \A d : NotSent(d)' <=> NotSent(d)
      BY <3>1 DEF NotSent
    <3>11. \A c \in Cmds : reply'[c] # "none" => cmd'[c] = "returned"
      BY <3>1 DEF QueueInv
    <3>12. QED
      BY <3>7, <3>8, <3>9, <3>10, <3>11 DEF QueueInv
  <2>4. ASSUME UNCHANGED <<sendCh, accepted>>,
               \A d \in Cmds : NotSent(d)' = NotSent(d),
               \A d \in Cmds : reply'[d] # "none" => cmd'[d] = "returned"
        PROVE  QueueInv'
    BY <2>4 DEF QueueInv
  <2>5. ASSUME NEW c \in Cmds,
               Issue(c) \/ Insert(c) \/ Lookup(c) \/ Fail(c) \/ Return(c)
        PROVE  QueueInv'
    <3>1. UNCHANGED <<sendCh, accepted>>
      BY <2>5 DEF Issue, Insert, Lookup, Fail, Return
    <3>2. \A d \in Cmds : NotSent(d)' = NotSent(d)
      BY <2>5 DEF QueueInv, NotSent, Issue, Insert, Lookup, Fail, Return, CmdPC
    <3>3. \A d \in Cmds : reply'[d] # "none" => cmd'[d] = "returned"
      BY <2>5 DEF QueueInv, Issue, Insert, Lookup, Fail, Return, CmdPC
    <3>4. QED
      BY <2>4, <3>1, <3>2, <3>3
  <2>6. ASSUME NEW c \in Cmds, Enqueue(c) PROVE QueueInv'
    <3>1. CASE sendCh' = sendCh
      BY <2>6, <3>1 DEF QueueInv, NotSent, Enqueue, CmdPC
    <3>2. CASE sendCh' # sendCh
      <4>1. /\ conn[c] \in Sessions
            /\ sendCh' = [sendCh EXCEPT ![conn[c]] = Append(sendCh[conn[c]], c)]
            /\ cmd[c] = "enqueueing" /\ cmd' = [cmd EXCEPT ![c] = "waiting"]
            /\ UNCHANGED <<reply, accepted>>
        BY <2>6, <3>2 DEF Enqueue, TypeOK, SessionsOK
      <4>2. NotSent(c) /\ c \notin accepted /\ ~NotSent(c)'
        BY <4>1 DEF QueueInv, NotSent
      <4>3. \A d \in Cmds : d # c => NotSent(d)' = NotSent(d)
        BY <4>1 DEF NotSent
      <4>4. \A t \in Sessions : \A i \in 1..Len(sendCh'[t]) :
              \/ i \in 1..Len(sendCh[t]) /\ sendCh'[t][i] = sendCh[t][i]
              \/ t = conn[c] /\ i = Len(sendCh[t]) + 1 /\ sendCh'[t][i] = c
        BY <4>1, AppendElements
      <4>5. \A t \in Sessions : \A i \in 1..Len(sendCh[t]) : sendCh[t][i] # c
        BY <4>2 DEF QueueInv
      <4>6. ASSUME NEW t \in Sessions, NEW i \in 1..Len(sendCh'[t])
            PROVE  (~NotSent(sendCh[t][i]) /\ sendCh[t][i] \notin accepted)'
        <5>1. CASE sendCh'[t][i] = c
          BY <4>1, <4>2, <5>1 DEF NotSent
        <5>2. CASE i \in 1..Len(sendCh[t]) /\ sendCh'[t][i] = sendCh[t][i]
          <6>1. /\ sendCh[t][i] \in Cmds /\ sendCh[t][i] # c
                /\ ~NotSent(sendCh[t][i]) /\ sendCh[t][i] \notin accepted
            BY <4>5, <5>2 DEF QueueInv
          <6>2. QED
            BY <4>1, <5>2, <6>1 DEF NotSent
        <5>3. QED
          BY <4>4, <5>1, <5>2
      <4>7. \A t, u \in Sessions :
              \A i \in 1..Len(sendCh'[t]), j \in 1..Len(sendCh'[u]) :
                sendCh'[t][i] = sendCh'[u][j] => t = u /\ i = j
        <5>1. SUFFICES ASSUME NEW t \in Sessions, NEW u \in Sessions,
                              NEW i \in 1..Len(sendCh'[t]),
                              NEW j \in 1..Len(sendCh'[u]),
                              sendCh'[t][i] = sendCh'[u][j]
                       PROVE  t = u /\ i = j
          OBVIOUS
        <5>2. CASE sendCh'[t][i] = c
          <6>1. /\ t = conn[c] /\ i = Len(sendCh[t]) + 1
                /\ u = conn[c] /\ j = Len(sendCh[u]) + 1
            BY <4>4, <4>5, <5>1, <5>2
          <6>2. QED
            BY <6>1
        <5>3. CASE sendCh'[t][i] # c
          <6>1. /\ i \in 1..Len(sendCh[t]) /\ sendCh'[t][i] = sendCh[t][i]
                /\ j \in 1..Len(sendCh[u]) /\ sendCh'[u][j] = sendCh[u][j]
            BY <4>4, <5>1, <5>3
          <6>2. sendCh[t][i] = sendCh[u][j]
            BY <5>1, <6>1
          <6>3. QED
            BY <6>1, <6>2 DEF QueueInv
        <5>4. QED
          BY <5>2, <5>3
      <4>8. \A d \in accepted' : ~NotSent(d)'
        BY <4>1, <4>2, <4>3 DEF QueueInv
      <4>9. \A d \in Cmds : reply'[d] # "none" => cmd'[d] = "returned"
        BY <4>1 DEF QueueInv
      <4>10. QED
        BY <4>6, <4>7, <4>8, <4>9 DEF QueueInv
    <3>3. QED
      BY <3>1, <3>2
  <2>7. QED
    BY <2>1, <2>2, <2>3, <2>4, <2>5, <2>6
    DEF Next, SessionNext, CommandNext, Accept, WriterExit, Receive,
        ReceiveResult, DeliverResult, ReaderExit, Leave, Age, Break, Answer,
        CollectStale, UnregisterStale, TimerFire, TimerCallback
<1>3. QED
  BY <1>1, <1>2, Typing, PTL DEF Spec

\* Whatever speaks of a result speaks of a command the agent received.
AnswerInv ==
  /\ \A p \in running \cup uplink : p[2] \in accepted
  /\ \A s \in Sessions : reader[s] = "delivering" => handled[s] \in accepted
  /\ \A c \in Cmds : resultCh[c] = "result" => c \in accepted

LEMMA AnswerInvariance == Spec => []AnswerInv
<1>1. Init => AnswerInv
  BY DEF Init, AnswerInv
<1>2. TypeOK /\ AnswerInv /\ [Next]_vars => AnswerInv'
  <2> SUFFICES ASSUME TypeOK, AnswerInv, [Next]_vars PROVE AnswerInv'
    OBVIOUS
  <2>0. /\ reader \in [Sessions -> ReaderPC]
        /\ handled \in [Sessions -> Cmds \cup {NoCmd}]
        /\ resultCh \in [Cmds -> {"empty", "result", "timeout"}]
    BY DEF TypeOK, SessionsOK, CommandsOK
  <2> USE <2>0 DEF AnswerInv
  <2>1. ASSUME UNCHANGED <<reader, handled, resultCh, running, uplink, accepted>>
        PROVE AnswerInv'
    BY <2>1
  <2>2. ASSUME NEW s \in Sessions, \/ Accept(s) \/ Register(s) \/ ReaderExit(s)
                                   \/ Leave(s) \/ Break(s)
        PROVE AnswerInv'
    BY <2>2 DEF Accept, Register, ReaderExit, Leave, Break
  <2>3. ASSUME NEW s \in Sessions, WriterSend(s) PROVE AnswerInv'
    <3>1. /\ running' \subseteq running \cup {<<s, Head(sendCh[s])>>}
          /\ running' # running => Head(sendCh[s]) \in accepted'
          /\ accepted \subseteq accepted'
          /\ UNCHANGED <<reader, handled, resultCh, uplink>>
      BY <2>3 DEF WriterSend
    <3>2. \A p \in running' \cup uplink' : p[2] \in accepted'
      BY <3>1
    <3>3. QED
      BY <3>1, <3>2
  <2>4. ASSUME NEW s \in Sessions, NEW c \in Cmds, ReceiveResult(s, c)
        PROVE AnswerInv'
    <3>1. /\ c \in accepted /\ uplink' \subseteq uplink
          /\ UNCHANGED <<running, accepted, resultCh>>
      BY <2>4 DEF ReceiveResult
    <3>2. \A t \in Sessions : reader'[t] = "delivering" =>
            \/ handled'[t] = c
            \/ reader[t] = "delivering" /\ handled'[t] = handled[t]
      BY <2>4 DEF ReceiveResult
    <3>3. \A p \in running' \cup uplink' : p[2] \in accepted'
      BY <3>1
    <3>4. QED
      BY <3>1, <3>2, <3>3
  <2>5. ASSUME NEW s \in Sessions, DeliverResult(s) PROVE AnswerInv'
    BY <2>5 DEF DeliverResult
  <2>6. ASSUME NEW s \in Sessions, NEW c \in Cmds, Answer(s, c) PROVE AnswerInv'
    BY <2>6 DEF Answer
  <2>7. ASSUME NEW c \in Cmds, Return(c) \/ TimerCallback(c) PROVE AnswerInv'
    BY <2>7 DEF Return, TimerCallback
  <2>8. QED
    BY <2>1, <2>2, <2>3, <2>4, <2>5, <2>6, <2>7
    DEF Next, SessionNext, CommandNext, WriterExit, Receive, Age,
        CollectStale, UnregisterStale, Issue, Insert, Lookup, Enqueue, Fail,
        TimerFire
<1>3. QED
  BY <1>1, <1>2, Typing, PTL DEF Spec

\* The hub implements CommandPromise: at most one delivery and one settlement
\* per call, an answer only to a command the agent received, and nothing left
\* to run of a call that failed.  Most steps stutter; the others are a step of
\* the promise because of where the invariants say the command is.
THEOREM PromiseKept == Spec => KeepsPromise
<1> DEFINE P == [c \in Cmds |-> CallPhase(c)]
           O == [c \in Cmds |-> CallOutcome(c)]
<1>1. Init => Promise!Init
  BY DEF Init, Promise!Init, CallPhase, CallOutcome
<1>2. ASSUME TypeOK, EntryInv, QueueInv, AnswerInv, [Next]_vars
      PROVE  [Promise!Next]_(Promise!promiseVars)
  <2>0. /\ cmd \in [Cmds -> CmdPC]
        /\ reply \in [Cmds -> {"none", "result", "timeout", "error"}]
        /\ resultCh \in [Cmds -> {"empty", "result", "timeout"}]
        /\ accepted \subseteq Cmds
        /\ sendCh \in [Sessions -> Seq(Cmds)]
        /\ \A c \in Cmds : reply[c] # "none" => cmd[c] = "returned"
    BY <1>2 DEF TypeOK, SessionsOK, AgentsOK, CommandsOK, QueueInv
  <2>1. ASSUME UNCHANGED <<P, O, accepted>>
        PROVE  UNCHANGED Promise!promiseVars
    BY <2>1 DEF Promise!promiseVars
  <2>2. ASSUME UNCHANGED <<cmd, reply, resultCh, accepted>>
        PROVE  UNCHANGED Promise!promiseVars
    BY <2>2 DEF Promise!promiseVars, CallPhase, CallOutcome
  <2>3. ASSUME NEW s \in Sessions, WriterSend(s)
        PROVE  [Promise!Next]_(Promise!promiseVars)
    <3>1. /\ sendCh[s] \in Seq(Cmds) /\ sendCh[s] # <<>>
          /\ UNCHANGED <<cmd, reply, resultCh>>
      BY <2>0, <2>3 DEF WriterSend
    <3>2. /\ Head(sendCh[s]) \in Cmds \ accepted
          /\ ~NotSent(Head(sendCh[s]))
      BY <1>2, <3>1, TailElements DEF QueueInv
    <3>3. CASE accepted' = accepted
      BY <2>2, <3>1, <3>3
    <3>4. CASE accepted' = accepted \cup {Head(sendCh[s])}
      <4>1. UNCHANGED <<P, O>>
        BY <3>1 DEF CallPhase, CallOutcome
      <4>2. /\ P[Head(sendCh[s])] # "new"
            /\ O[Head(sendCh[s])] # "error"
        BY <2>0, <3>2 DEF NotSent, CallPhase, CallOutcome, CmdPC
      <4>3. Promise!Execute(Head(sendCh[s]))
        BY <3>2, <3>4, <4>1, <4>2 DEF Promise!Execute
      <4>4. QED
        BY <3>2, <4>3 DEF Promise!Next
    <3>5. QED
      BY <2>3, <3>3, <3>4 DEF WriterSend
  <2>4. ASSUME NEW c \in Cmds, NEW o \in {"result", "timeout", "error"},
               P[c] = "open", O[c] = "none", P' = P, O' = [O EXCEPT ![c] = o],
               o = "result" => c \in accepted, o = "error" => c \notin accepted,
               accepted' = accepted
        PROVE  [Promise!Next]_(Promise!promiseVars)
    BY <2>4 DEF Promise!Next, Promise!Settle, Promise!Outcomes
  <2>5. ASSUME NEW s \in Sessions, DeliverResult(s)
        PROVE  [Promise!Next]_(Promise!promiseVars)
    <3>1. /\ handled[s] \in Cmds /\ handled[s] \in accepted
          /\ resultCh[handled[s]] = "empty"
          /\ resultCh' = [resultCh EXCEPT ![handled[s]] = "result"]
          /\ UNCHANGED <<cmd, reply, accepted>>
      BY <1>2, <2>5 DEF DeliverResult, EntryInv, AnswerInv
    <3>2. CASE cmd[handled[s]] = "waiting"
      <4>1. /\ P[handled[s]] = "open" /\ O[handled[s]] = "none" /\ P' = P
            /\ O' = [O EXCEPT ![handled[s]] = "result"]
        BY <2>0, <3>1, <3>2 DEF CallPhase, CallOutcome
      <4>2. QED
        BY <2>4, <3>1, <4>1
    <3>3. CASE cmd[handled[s]] # "waiting"
      BY <2>0, <2>1, <3>1, <3>3 DEF CallPhase, CallOutcome
    <3>4. QED
      BY <3>2, <3>3
  <2>6. ASSUME NEW c \in Cmds, TimerCallback(c)
        PROVE  [Promise!Next]_(Promise!promiseVars)
    <3>1. CASE c \in pending /\ cmd[c] = "waiting"
      <4>1. /\ resultCh[c] = "empty"
            /\ resultCh' = [resultCh EXCEPT ![c] = "timeout"]
            /\ UNCHANGED <<cmd, reply, accepted>>
        BY <2>6, <3>1 DEF TimerCallback
      <4>2. /\ P[c] = "open" /\ O[c] = "none" /\ P' = P
            /\ O' = [O EXCEPT ![c] = "timeout"]
        BY <2>0, <3>1, <4>1 DEF CallPhase, CallOutcome
      <4>3. QED
        BY <2>4, <4>1, <4>2
    <3>2. CASE c \notin pending
      BY <2>2, <2>6, <3>2 DEF TimerCallback
    <3>3. CASE cmd[c] # "waiting"
      BY <2>0, <2>1, <2>6, <3>3 DEF TimerCallback, CallPhase, CallOutcome
    <3>4. QED
      BY <3>1, <3>2, <3>3
  <2>7. ASSUME NEW c \in Cmds, Issue(c)
        PROVE  [Promise!Next]_(Promise!promiseVars)
    <3>1. P[c] = "new" /\ UNCHANGED accepted
      BY <2>7 DEF Issue, CallPhase
    <3>2. CASE cmd' = [cmd EXCEPT ![c] = "inserting"]
      <4>1. P' = [P EXCEPT ![c] = "open"] /\ O' = O
        BY <2>0, <2>7, <3>2 DEF Issue, CallPhase, CallOutcome
      <4>2. QED
        BY <3>1, <4>1 DEF Promise!Next, Promise!Issue
    <3>3. CASE /\ cmd' = [cmd EXCEPT ![c] = "returned"]
               /\ reply' = [reply EXCEPT ![c] = "error"]
      <4>1. P' = [P EXCEPT ![c] = "closed"] /\ O' = [O EXCEPT ![c] = "error"]
        BY <2>0, <2>7, <3>3 DEF Issue, CallPhase, CallOutcome
      <4>2. QED
        BY <3>1, <4>1 DEF Promise!Next, Promise!Refuse
    <3>4. QED
      BY <2>7, <3>2, <3>3 DEF Issue
  <2>8. ASSUME NEW c \in Cmds, Insert(c)
        PROVE  [Promise!Next]_(Promise!promiseVars)
    BY <2>0, <2>1, <2>8 DEF Insert, CallPhase, CallOutcome
  <2>9. ASSUME NEW c \in Cmds, Lookup(c) \/ Enqueue(c)
        PROVE  [Promise!Next]_(Promise!promiseVars)
    <3>1. /\ cmd[c] \in {"sending", "enqueueing"} /\ c \notin accepted
          /\ UNCHANGED <<reply, resultCh, accepted>>
      BY <1>2, <2>9 DEF Lookup, Enqueue, QueueInv, NotSent
    <3>2. P[c] = "open" /\ O[c] = "none"
      BY <2>0, <3>1 DEF CallPhase, CallOutcome
    <3>3. CASE \/ cmd' = [cmd EXCEPT ![c] = "enqueueing"]
               \/ cmd' = [cmd EXCEPT ![c] = "panicked"]
      BY <2>0, <2>1, <3>1, <3>3 DEF CallPhase, CallOutcome
    <3>4. CASE cmd' = [cmd EXCEPT ![c] = "failing"]
      <4>1. P' = P /\ O' = [O EXCEPT ![c] = "error"]
        BY <2>0, <3>1, <3>4 DEF CallPhase, CallOutcome
      <4>2. QED
        BY <2>4, <3>1, <3>2, <4>1
    <3>5. CASE cmd' = [cmd EXCEPT ![c] = "waiting"] /\ resultCh[c] = "empty"
      BY <2>0, <2>1, <3>1, <3>5 DEF CallPhase, CallOutcome
    <3>6. CASE cmd' = [cmd EXCEPT ![c] = "waiting"] /\ resultCh[c] # "empty"
      <4>1. P' = P /\ O' = [O EXCEPT ![c] = resultCh[c]]
        BY <2>0, <3>1, <3>6 DEF CallPhase, CallOutcome
      <4>2. resultCh[c] = "result" => c \in accepted
        BY <1>2 DEF AnswerInv
      <4>3. QED
        BY <2>0, <2>4, <3>1, <3>2, <3>6, <4>1, <4>2
    <3>7. QED
      BY <2>9, <3>3, <3>4, <3>5, <3>6 DEF Lookup, Enqueue
  <2>10. ASSUME NEW c \in Cmds, P[c] = "open", O[c] # "none",
                P' = [P EXCEPT ![c] = "closed"], UNCHANGED <<O, accepted>>
         PROVE  [Promise!Next]_(Promise!promiseVars)
    BY <2>10 DEF Promise!Next, Promise!Return
  <2>11. ASSUME NEW c \in Cmds, Fail(c)
         PROVE  [Promise!Next]_(Promise!promiseVars)
    <3>1. /\ cmd[c] = "failing" /\ cmd' = [cmd EXCEPT ![c] = "returned"]
          /\ reply' = [reply EXCEPT ![c] = "error"]
          /\ UNCHANGED <<resultCh, accepted>>
      BY <2>11 DEF Fail
    <3>2. P[c] = "open" /\ P' = [P EXCEPT ![c] = "closed"]
      BY <2>0, <3>1 DEF CallPhase
    <3>3. O[c] = "error" /\ O' = O
      BY <2>0, <3>1 DEF CallOutcome
    <3>4. QED
      BY <2>10, <3>1, <3>2, <3>3
  <2>12. ASSUME NEW c \in Cmds, Return(c)
         PROVE  [Promise!Next]_(Promise!promiseVars)
    <3>1. /\ cmd[c] = "waiting" /\ cmd' = [cmd EXCEPT ![c] = "returned"]
          /\ resultCh[c] # "empty" /\ reply' = [reply EXCEPT ![c] = resultCh[c]]
          /\ resultCh' = [resultCh EXCEPT ![c] = "empty"]
          /\ UNCHANGED accepted
      BY <2>12 DEF Return
    <3>2. P[c] = "open" /\ P' = [P EXCEPT ![c] = "closed"]
      BY <2>0, <3>1 DEF CallPhase
    <3>3. O[c] = resultCh[c] /\ O[c] # "none"
      BY <2>0, <3>1 DEF CallOutcome
    <3>4. \A d \in Cmds : CallOutcome(d)' = CallOutcome(d)
      BY <2>0, <3>1 DEF CallOutcome
    <3>5. QED
      BY <2>10, <3>1, <3>2, <3>3, <3>4
  <2>13. QED
    BY <1>2, <2>2, <2>3, <2>5, <2>6, <2>7, <2>8, <2>9, <2>11, <2>12
    DEF Next, SessionNext, CommandNext, Accept, Register, WriterExit, Receive,
        ReceiveResult, ReaderExit, Leave, Age, Break, Answer, CollectStale,
        UnregisterStale, TimerFire
<1>3. QED
  BY <1>1, <1>2, Typing, EntryInvariance, QueueInvariance, AnswerInvariance, PTL
  DEF Spec, KeepsPromise, Promise!Spec

-----------------------------------------------------------------------------
(* Nobody waits for nothing *)

Answerable(c) ==
  \/ c \in pending /\ timer[c] \in {"armed", "fired"}
  \/ \E s \in Sessions : reader[s] = "delivering" /\ handled[s] = c
  \/ resultCh[c] # "empty"

TimedInv ==
  \A c \in Cmds :
    /\ cmd[c] = "inserting" => timer[c] = "armed"
    /\ cmd[c] \in {"sending", "enqueueing", "waiting"} => Answerable(c)

\* With timeouts longer than the way from AfterFunc to the insertion, a caller
\* never waits on a channel nobody will send on.  This is what liveness rests
\* on: the timer of a waiting call is still to run, or its result is there.
THEOREM WaitingIsAnswered == Spec => [](Timely => WaitingCallHasAnAnswer)
<1>1. Init => (Timely => TimedInv)
  BY DEF Init, TimedInv
<1>2. TypeOK /\ EntryInv /\ (Timely => TimedInv) /\ [Next]_vars
        => (Timely => TimedInv)'
  <2> SUFFICES ASSUME Timely, TypeOK, EntryInv, TimedInv, [Next]_vars
               PROVE  TimedInv'
    OBVIOUS
  <2>0. /\ reader \in [Sessions -> ReaderPC]
        /\ handled \in [Sessions -> Cmds \cup {NoCmd}]
        /\ cmd \in [Cmds -> CmdPC]
        /\ timer \in [Cmds -> {"none", "armed", "fired", "done", "stopped"}]
        /\ resultCh \in [Cmds -> {"empty", "result", "timeout"}]
    BY DEF TypeOK, SessionsOK, CommandsOK
  <2> USE <2>0 DEF TimedInv
  <2>1. ASSUME UNCHANGED <<reader, handled, cmd, timer, pending, resultCh>>
        PROVE  TimedInv'
    BY <2>1 DEF Answerable
  <2>2. ASSUME NEW s \in Sessions, \/ Accept(s) \/ Register(s) \/ ReaderExit(s)
                                   \/ Leave(s)
        PROVE  TimedInv'
    <3>1. /\ UNCHANGED <<handled, cmd, timer, pending, resultCh>>
          /\ \A t \in Sessions : reader[t] = "delivering" => reader'[t] = "delivering"
      BY <2>2 DEF Accept, Ended, Register, ReaderExit, Leave
    <3>2. QED
      BY <3>1 DEF Answerable
  <2>3. ASSUME NEW s \in Sessions, NEW c \in Cmds, ReceiveResult(s, c)
        PROVE  TimedInv'
    <3>1. UNCHANGED <<cmd, timer, resultCh>>
      BY <2>3 DEF ReceiveResult
    <3>2. CASE c \in pending
      <4>1. /\ pending' = pending \ {c} /\ reader[s] = "reading"
            /\ reader' = [reader EXCEPT ![s] = "delivering"]
            /\ handled' = [handled EXCEPT ![s] = c]
        BY <2>3, <3>2 DEF ReceiveResult
      <4>2. Answerable(c)'
        BY <4>1 DEF Answerable
      <4>3. \A d \in Cmds \ {c} : Answerable(d) => Answerable(d)'
        BY <3>1, <4>1 DEF Answerable
      <4>4. QED
        BY <3>1, <4>2, <4>3
    <3>3. CASE c \notin pending
      BY <2>1, <2>3, <3>1, <3>3 DEF ReceiveResult
    <3>4. QED
      BY <3>2, <3>3
  <2>4. ASSUME NEW s \in Sessions, DeliverResult(s) PROVE TimedInv'
    <3>0. PICK c \in Cmds : c = handled[s]
      BY <2>4 DEF DeliverResult, EntryInv
    <3>1. /\ c = handled[s] /\ reader[s] = "delivering" /\ c \notin pending
          /\ cmd[c] # "inserting"
          /\ resultCh' = [resultCh EXCEPT ![c] = "result"]
          /\ reader' = [reader EXCEPT ![s] = "reading"]
          /\ handled' = [handled EXCEPT ![s] = NoCmd]
          /\ UNCHANGED <<cmd, pending>>
      BY <2>4, <3>0 DEF DeliverResult, EntryInv
    <3>2. \A d \in Cmds \ {c} : timer'[d] = timer[d]
      BY <2>4, <3>0 DEF DeliverResult
    <3>3. Answerable(c)'
      BY <3>1 DEF Answerable
    <3>4. \A d \in Cmds \ {c} : Answerable(d) => Answerable(d)'
      BY <3>1, <3>2 DEF Answerable
    <3>5. QED
      BY <3>1, <3>2, <3>3, <3>4
  <2>5. ASSUME NEW c \in Cmds, Issue(c) \/ Lookup(c) \/ Enqueue(c)
        PROVE  TimedInv'
    <3>1. /\ UNCHANGED <<reader, handled, pending, resultCh>>
          /\ \A d \in Cmds \ {c} : timer'[d] = timer[d] /\ cmd'[d] = cmd[d]
      BY <2>5 DEF Issue, Lookup, Enqueue
    <3>2. \A d \in Cmds \ {c} : Answerable(d) => Answerable(d)'
      BY <3>1 DEF Answerable
    <3>3. CASE Issue(c)
      <4>1. /\ cmd'[c] \in {"inserting", "returned"}
            /\ cmd'[c] = "inserting" => timer'[c] = "armed"
        BY <3>3 DEF Issue
      <4>2. QED
        BY <3>1, <3>2, <4>1
    <3>4. CASE Lookup(c) \/ Enqueue(c)
      <4>1. /\ cmd[c] \in {"sending", "enqueueing"} /\ timer' = timer
            /\ cmd'[c] # "inserting"
        BY <3>4 DEF Lookup, Enqueue
      <4>2. Answerable(c)'
        BY <3>1, <4>1 DEF Answerable
      <4>3. QED
        BY <3>1, <3>2, <4>1, <4>2
    <3>5. QED
      BY <2>5, <3>3, <3>4
  <2>6. ASSUME NEW c \in Cmds, Insert(c) PROVE TimedInv'
    BY <2>6 DEF Insert, Answerable
  <2>7. ASSUME NEW c \in Cmds, Fail(c) \/ Return(c) PROVE TimedInv'
    <3>1. /\ UNCHANGED <<reader, handled>>
          /\ cmd' = [cmd EXCEPT ![c] = "returned"]
          /\ \A d \in Cmds : d # c => timer'[d] = timer[d]
          /\ \A d \in Cmds : d # c => resultCh'[d] = resultCh[d]
          /\ \A d \in Cmds : d # c => (d \in pending <=> d \in pending')
      <4>1. CASE Fail(c)
        BY <4>1 DEF Fail
      <4>2. CASE Return(c)
        BY <4>2 DEF Return
      <4>3. QED
        BY <2>7, <4>1, <4>2
    <3>2. ASSUME NEW d \in Cmds, d # c, Answerable(d) PROVE Answerable(d)'
      BY <3>1, <3>2 DEF Answerable
    <3>3. QED
      BY <3>1, <3>2
  <2>8. ASSUME NEW c \in Cmds, TimerFire(c) PROVE TimedInv'
    BY <2>8 DEF TimerFire, Answerable
  <2>9. ASSUME NEW c \in Cmds, TimerCallback(c) PROVE TimedInv'
    <3>1. /\ UNCHANGED <<reader, handled, cmd>> /\ timer[c] = "fired"
          /\ c \in pending => resultCh'[c] = "timeout"
          /\ c \notin pending => pending' = pending /\ resultCh' = resultCh
          /\ \A d \in Cmds : d # c => timer'[d] = timer[d]
          /\ \A d \in Cmds : d # c => resultCh'[d] = resultCh[d]
          /\ \A d \in Cmds : d # c => (d \in pending <=> d \in pending')
      BY <2>9 DEF TimerCallback
    <3>2. ASSUME NEW d \in Cmds, d # c, Answerable(d) PROVE Answerable(d)'
      BY <3>1, <3>2 DEF Answerable
    <3>3. Answerable(c) => Answerable(c)'
      <4>1. CASE c \in pending
        BY <3>1, <4>1 DEF Answerable
      <4>2. CASE c \notin pending
        BY <3>1, <4>2 DEF Answerable
      <4>3. QED
        BY <4>1, <4>2
    <3>4. \A d \in Cmds : Answerable(d) => Answerable(d)'
      BY <3>2, <3>3
    <3>5. ASSUME NEW d \in Cmds
          PROVE  /\ cmd'[d] = "inserting" => timer'[d] = "armed"
                 /\ cmd'[d] \in {"sending", "enqueueing", "waiting"}
                      => Answerable(d)'
      BY <3>1, <3>4
    <3>6. QED
      BY <3>5
  <2>10. QED
    BY <2>1, <2>2, <2>3, <2>4, <2>5, <2>6, <2>7, <2>8, <2>9
    DEF Next, SessionNext, CommandNext, WriterSend, WriterExit, Receive, Age,
        Break, Answer, CollectStale, UnregisterStale
<1>3. (Timely => TimedInv) => (Timely => WaitingCallHasAnAnswer)
  BY DEF TimedInv, Answerable, WaitingCallHasAnAnswer, Delivering
<1>4. QED
  BY <1>1, <1>2, <1>3, Typing, EntryInvariance, PTL DEF Spec
=============================================================================
