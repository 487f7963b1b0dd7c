-------------------------------- MODULE Hub --------------------------------
(***************************************************************************)
(* The dashboard's connection hub (internal/dashboard/ws/hub.go) with the  *)
(* goroutines that live on it: one HandleUpgrade call per agent WebSocket  *)
(* (ws/agent_handler.go: its reader and its writer), the health checker,   *)
(* and the HTTP handlers blocked in SendCommand with their timers.         *)
(*                                                                         *)
(* A "session" is one agent WebSocket: the HandleUpgrade call that serves  *)
(* it and the AgentConn it registered.  A session whose goroutines have    *)
(* ended and that nothing refers to any more is used again, so a finite    *)
(* set of them stands for any number of reconnections.                     *)
(*                                                                         *)
(* Every access the code makes under Hub.mu or Hub.pendingMu is one        *)
(* action; what happens between an unlock and the next lock is another.    *)
(***************************************************************************)
EXTENDS Naturals, Sequences

CONSTANTS
  Servers,    \* the registered servers, one agent each
  Sessions,   \* agent WebSockets
  Cmds,       \* calls of SendCommand; each has its own message ID
  ServerOf,   \* the server_id a session is opened for
  TargetOf,   \* the server a command is sent to
  None,       \* no session
  NoCmd,      \* no command
  SendCap,    \* capacity of AgentConn.SendCh (64 in the code)
  Timely      \* TRUE: the real-time margins of the code hold (see below)

ASSUME HubAssumption ==
  /\ ServerOf \in [Sessions -> Servers]
  /\ TargetOf \in [Cmds -> Servers]
  /\ None \notin Sessions
  /\ NoCmd \notin Cmds
  /\ SendCap \in Nat \ {0}
  /\ Timely \in BOOLEAN

VARIABLES
  \* ---- the registry and the sessions
  connections, \* Hub.connections: the registered session of each server
  open,        \* the sessions whose SendCh has not been closed
  sendCh,      \* the commands buffered in each SendCh
  reader,      \* where the HandleUpgrade goroutine of each session is
  handled,     \* the command whose result that goroutine is delivering
  writers,     \* the sessions whose writer goroutine runs
  cancelled,   \* the sessions whose context is cancelled
  link,        \* the WebSocket: "up", "half" (the agent's end is gone), "down"
  fresh,       \* the sessions heard of within the heartbeat timeout
  stale,       \* the servers checkHeartbeats has yet to unregister
  \* ---- the agents
  running,     \* commands an agent executes, with the session they came on
  uplink,      \* results on their way to the hub
  accepted,    \* history: the commands that have reached an agent
  \* ---- the commands
  cmd,         \* where each SendCommand call is
  conn,        \* the connection its Send has looked up
  timer,       \* its time.AfterFunc timer
  pending,     \* Hub.pending: the commands awaiting a result
  resultCh,    \* the one-place resultCh of each command
  reply        \* what the call returned

sessionVars == <<connections, open, sendCh, reader, handled, writers,
                 cancelled, link, fresh, stale>>
agentVars   == <<running, uplink, accepted>>
commandVars == <<cmd, conn, timer, pending, resultCh, reply>>
vars == <<sessionVars, agentVars, commandVars>>

ReaderPC == {"none", "accepted", "reading", "delivering", "leaving"}
CmdPC    == {"new", "inserting", "sending", "enqueueing",
             "failing", "waiting", "returned", "panicked"}

Init ==
  /\ connections = [srv \in Servers |-> None]
  /\ open = {}
  /\ sendCh = [s \in Sessions |-> <<>>]
  /\ reader = [s \in Sessions |-> "none"]
  /\ handled = [s \in Sessions |-> NoCmd]
  /\ writers = {}
  /\ cancelled = {}
  /\ link = [s \in Sessions |-> "down"]
  /\ fresh = {}
  /\ stale = {}
  /\ running = {}
  /\ uplink = {}
  /\ accepted = {}
  /\ cmd = [c \in Cmds |-> "new"]
  /\ conn = [c \in Cmds |-> None]
  /\ timer = [c \in Cmds |-> "none"]
  /\ pending = {}
  /\ resultCh = [c \in Cmds |-> "empty"]
  /\ reply = [c \in Cmds |-> "none"]

-----------------------------------------------------------------------------
(* The registry *)

\* The SendCh that Register and Unregister close, if the server has one.
Registered(srv) == {s \in Sessions : connections[srv] = s}

\* Bug for OpenIffRegistered: the entry is not deleted.
Unregister_KeepsEntry(srv) ==
  /\ open' = open \ Registered(srv)
  /\ UNCHANGED connections

\* Unregister: it is given the server, not the session, and removes whatever
\* connection the server has by now.
Unregister(srv) ==
  /\ open' = open \ Registered(srv)
  /\ connections' = [connections EXCEPT ![srv] = None]

-----------------------------------------------------------------------------
(* Sessions: HandleUpgrade *)

Ended(s) == reader[s] = "none" /\ s \notin writers

Unreferenced(s) == /\ \A c \in Cmds : conn[c] # s
                   /\ \A srv \in Servers : connections[srv] # s

SameServer(s) == {t \in Sessions : ServerOf[t] = ServerOf[s]}

\* The agent dials and the dashboard upgrades the connection.  The agent runs
\* one connection at a time (runAgentLoop returns before the next dial), but
\* the dashboard may not know yet that the previous one is gone.  Timely: the
\* agent backs off at least a second before it dials again, by when the
\* handler of a connection that was closed under it has returned.
Accept(s) ==
  /\ Ended(s) /\ Unreferenced(s)
  /\ \A t \in SameServer(s) : /\ link[t] # "up"
                              /\ Timely /\ link[t] = "down" => Ended(t)
  /\ reader' = [reader EXCEPT ![s] = "accepted"]
  /\ link' = [link EXCEPT ![s] = "up"]
  /\ UNCHANGED <<connections, open, sendCh, handled, writers, cancelled,
                 fresh, stale, agentVars, commandVars>>

\* Register, and the start of the write loop.
Register(s) ==
  /\ reader[s] = "accepted"
  /\ open' = (open \ Registered(ServerOf[s])) \cup {s}
  /\ connections' = [connections EXCEPT ![ServerOf[s]] = s]
  /\ sendCh' = [sendCh EXCEPT ![s] = <<>>]
  /\ fresh' = fresh \cup {s}
  /\ cancelled' = cancelled \ {s}
  /\ writers' = writers \cup {s}
  /\ reader' = [reader EXCEPT ![s] = "reading"]
  /\ UNCHANGED <<handled, link, stale, agentVars, commandVars>>

\* The write loop takes a message off SendCh and writes it.  On a connection
\* whose other end is gone the write may still succeed, into nothing.  A
\* closed channel is drained before the loop sees that it is closed.
WriterSend(s) ==
  /\ s \in writers
  /\ sendCh[s] # <<>>
  /\ sendCh' = [sendCh EXCEPT ![s] = Tail(@)]
  /\ \/ /\ link[s] = "up"
        /\ running' = running \cup {<<s, Head(sendCh[s])>>}
        /\ accepted' = accepted \cup {Head(sendCh[s])}
     \/ /\ link[s] = "half"
        /\ UNCHANGED <<running, accepted>>
  /\ UNCHANGED <<connections, open, reader, handled, writers, cancelled,
                 link, fresh, stale, uplink, commandVars>>

\* Bug for Converges: no deferred cancel, so the reader never learns.
WriterExit_NoCancel(s) ==
  /\ s \in writers
  /\ s \in cancelled \/ (s \notin open /\ sendCh[s] = <<>>)
  /\ writers' = writers \ {s}
  /\ UNCHANGED <<connections, open, sendCh, reader, handled, cancelled, link,
                 fresh, stale, agentVars, commandVars>>

\* It ends, and cancels the session's context, when the context is done, when
\* SendCh is closed and drained, or when a write fails.
WriterExit(s) ==
  /\ s \in writers
  /\ \/ s \in cancelled
     \/ s \notin open /\ sendCh[s] = <<>>
     \/ sendCh[s] # <<>> /\ link[s] # "up"
  /\ writers' = writers \ {s}
  /\ cancelled' = cancelled \cup {s}
  /\ UNCHANGED <<connections, open, sendCh, reader, handled, link, fresh,
                 stale, agentVars, commandVars>>

\* readLoop handles a message other than a command result.  It is the
\* session's own AgentConn that is refreshed, registered or not.
Receive(s) ==
  /\ reader[s] = "reading"
  /\ link[s] = "up"
  /\ fresh' = fresh \cup {s}
  /\ UNCHANGED <<connections, open, sendCh, reader, handled, writers,
                 cancelled, link, stale, agentVars, commandVars>>

\* readLoop handles a command result: the locked part of HandleResult.  A
\* result nobody waits for is dropped.
ReceiveResult(s, c) ==
  /\ reader[s] = "reading"
  /\ link[s] # "down"
  /\ <<s, c>> \in uplink
  /\ uplink' = uplink \ {<<s, c>>}
  /\ fresh' = fresh \cup {s}
  /\ \/ /\ c \in pending
        /\ pending' = pending \ {c}
        /\ reader' = [reader EXCEPT ![s] = "delivering"]
        /\ handled' = [handled EXCEPT ![s] = c]
     \/ /\ c \notin pending
        /\ UNCHANGED <<pending, reader, handled>>
  /\ UNCHANGED <<connections, open, sendCh, writers, cancelled, link, stale,
                 running, accepted, cmd, conn, timer, resultCh, reply>>

StopTimer(c) ==
  timer' = [timer EXCEPT ![c] = IF @ = "armed" THEN "stopped" ELSE @]

\* The rest of HandleResult: the timer is stopped and the result is sent on
\* the one-place channel, which would block if something were in it.
DeliverResult(s) ==
  /\ reader[s] = "delivering"
  /\ resultCh[handled[s]] = "empty"
  /\ StopTimer(handled[s])
  /\ resultCh' = [resultCh EXCEPT ![handled[s]] = "result"]
  /\ reader' = [reader EXCEPT ![s] = "reading"]
  /\ handled' = [handled EXCEPT ![s] = NoCmd]
  /\ UNCHANGED <<connections, open, sendCh, writers, cancelled, link, fresh,
                 stale, agentVars, cmd, conn, pending, reply>>

\* readLoop returns: a read error, or its context is cancelled, which closes
\* the WebSocket.  An agent at the other end learns of it, and the results it
\* has not sent are lost with its loop's channels.
ReaderExit(s) ==
  /\ reader[s] = "reading"
  /\ s \in cancelled \/ link[s] # "up"
  /\ reader' = [reader EXCEPT ![s] = "leaving"]
  /\ link' = [link EXCEPT ![s] = "down"]
  /\ running' = {p \in running : p[1] # s}
  /\ uplink' = {p \in uplink : p[1] # s}
  /\ UNCHANGED <<connections, open, sendCh, handled, writers, cancelled,
                 fresh, stale, accepted, commandVars>>

\* The cleanup of HandleUpgrade, and its deferred cancel.
Leave(s) ==
  /\ reader[s] = "leaving"
  /\ Unregister(ServerOf[s])
  /\ reader' = [reader EXCEPT ![s] = "none"]
  /\ cancelled' = cancelled \cup {s}
  /\ UNCHANGED <<sendCh, handled, writers, link, fresh, stale, agentVars,
                 commandVars>>

-----------------------------------------------------------------------------
(* The health checker *)

\* No message of the session for the heartbeat timeout.  Timely: an agent at
\* the other end of the connection is always heard of in time.
Age(s) ==
  /\ s \in fresh
  /\ Timely => link[s] # "up"
  /\ fresh' = fresh \ {s}
  /\ UNCHANGED <<connections, open, sendCh, reader, handled, writers,
                 cancelled, link, stale, agentVars, commandVars>>

\* checkHeartbeats, under the read lock: collect the silent servers ...
CollectStale ==
  LET silent == {srv \in Servers : /\ connections[srv] # None
                                   /\ connections[srv] \notin fresh}
  IN /\ stale = {} /\ silent # {}
     /\ stale' = silent
     /\ UNCHANGED <<connections, open, sendCh, reader, handled, writers,
                    cancelled, link, fresh, agentVars, commandVars>>

\* ... and, the lock released, unregister them one by one.
UnregisterStale(srv) ==
  /\ srv \in stale
  /\ Unregister(srv)
  /\ stale' = stale \ {srv}
  /\ UNCHANGED <<sendCh, reader, handled, writers, cancelled, link, fresh,
                 agentVars, commandVars>>

-----------------------------------------------------------------------------
(* The agents and the network *)

\* The agent's end of a connection goes away (crash, restart, network), and
\* with it the results its loop has not sent.
Break(s) ==
  /\ link[s] = "up"
  /\ link' = [link EXCEPT ![s] = "half"]
  /\ running' = {p \in running : p[1] # s}
  /\ UNCHANGED <<connections, open, sendCh, reader, handled, writers,
                 cancelled, fresh, stale, uplink, accepted, commandVars>>

\* The agent finishes a command and sends the result on the connection the
\* command came on.  Commands run concurrently and end in any order.
Answer(s, c) ==
  /\ <<s, c>> \in running
  /\ running' = running \ {<<s, c>>}
  /\ uplink' = uplink \cup {<<s, c>>}
  /\ UNCHANGED <<sessionVars, accepted, commandVars>>

-----------------------------------------------------------------------------
(* SendCommand *)

\* Bug for CallsEnd: the timer is started by nobody.
Issue_NoTimer(c) ==
  /\ cmd[c] = "new"
  /\ connections[TargetOf[c]] # None
  /\ cmd' = [cmd EXCEPT ![c] = "inserting"]
  /\ UNCHANGED <<sessionVars, agentVars, conn, timer, pending, resultCh, reply>>

\* The call and its IsConnected test: an error if the agent is offline, else
\* the timer starts, before the command is in Hub.pending.
Issue(c) ==
  /\ cmd[c] = "new"
  /\ \/ /\ connections[TargetOf[c]] # None
        /\ cmd' = [cmd EXCEPT ![c] = "inserting"]
        /\ timer' = [timer EXCEPT ![c] = "armed"]
        /\ UNCHANGED reply
     \/ /\ connections[TargetOf[c]] = None
        /\ cmd' = [cmd EXCEPT ![c] = "returned"]
        /\ reply' = [reply EXCEPT ![c] = "error"]
        /\ UNCHANGED timer
  /\ UNCHANGED <<sessionVars, agentVars, conn, pending, resultCh>>

Insert(c) ==
  /\ cmd[c] = "inserting"
  /\ pending' = pending \cup {c}
  /\ cmd' = [cmd EXCEPT ![c] = "sending"]
  /\ UNCHANGED <<sessionVars, agentVars, conn, timer, resultCh, reply>>

\* Bug for NoMisdelivery: any connection will do when the target has none.
Lookup_Fallback(c) ==
  /\ cmd[c] = "sending"
  /\ \E srv \in Servers :
       /\ connections[srv] # None
       /\ srv = TargetOf[c] \/ connections[TargetOf[c]] = None
       /\ conn' = [conn EXCEPT ![c] = connections[srv]]
  /\ cmd' = [cmd EXCEPT ![c] = "enqueueing"]
  /\ UNCHANGED <<sessionVars, agentVars, timer, pending, resultCh, reply>>

\* Send looks the connection up under the read lock ...
Lookup(c) ==
  /\ cmd[c] = "sending"
  /\ conn' = [conn EXCEPT ![c] = connections[TargetOf[c]]]
  /\ cmd' = [cmd EXCEPT ![c] = IF connections[TargetOf[c]] = None
                               THEN "failing" ELSE "enqueueing"]
  /\ UNCHANGED <<sessionVars, agentVars, timer, pending, resultCh, reply>>

\* Bug for TypeOK: the buffer is sent to whether or not it has room.
Enqueue_NoBound(c) ==
  /\ cmd[c] = "enqueueing" /\ conn[c] \in open
  /\ conn' = [conn EXCEPT ![c] = None]
  /\ sendCh' = [sendCh EXCEPT ![conn[c]] = Append(@, c)]
  /\ cmd' = [cmd EXCEPT ![c] = "waiting"]
  /\ UNCHANGED <<connections, open, reader, handled, writers, cancelled, link,
                 fresh, stale, agentVars, timer, pending, resultCh, reply>>

\* Bug for KeepsPromise: a full buffer is reported after the message is in it.
Enqueue_LateFullTest(c) ==
  /\ cmd[c] = "enqueueing" /\ conn[c] \in open
  /\ conn' = [conn EXCEPT ![c] = None]
  /\ sendCh' = [sendCh EXCEPT ![conn[c]] = Append(@, c)]
  /\ cmd' = [cmd EXCEPT ![c] = IF Len(sendCh[conn[c]]) + 1 >= SendCap
                               THEN "failing" ELSE "waiting"]
  /\ UNCHANGED <<connections, open, reader, handled, writers, cancelled, link,
                 fresh, stale, agentVars, timer, pending, resultCh, reply>>

\* ... and uses its channel after the unlock: a send that cannot block, that
\* fails when the buffer is full, and that panics if the channel was closed.
Enqueue(c) ==
  /\ cmd[c] = "enqueueing"
  /\ conn' = [conn EXCEPT ![c] = None]
  /\ \/ /\ conn[c] \notin open
        /\ cmd' = [cmd EXCEPT ![c] = "panicked"]
        /\ UNCHANGED sendCh
     \/ /\ conn[c] \in open
        /\ Len(sendCh[conn[c]]) >= SendCap
        /\ cmd' = [cmd EXCEPT ![c] = "failing"]
        /\ UNCHANGED sendCh
     \/ /\ conn[c] \in open
        /\ Len(sendCh[conn[c]]) < SendCap
        /\ sendCh' = [sendCh EXCEPT ![conn[c]] = Append(@, c)]
        /\ cmd' = [cmd EXCEPT ![c] = "waiting"]
  /\ UNCHANGED <<connections, open, reader, handled, writers, cancelled, link,
                 fresh, stale, agentVars, timer, pending, resultCh, reply>>

\* Bug for CallsEnd: the failed call leaves its entry behind.
Fail_KeepsPending(c) ==
  /\ cmd[c] = "failing"
  /\ StopTimer(c)
  /\ cmd' = [cmd EXCEPT ![c] = "returned"]
  /\ reply' = [reply EXCEPT ![c] = "error"]
  /\ UNCHANGED <<sessionVars, agentVars, conn, pending, resultCh>>

\* The error path of SendCommand.
Fail(c) ==
  /\ cmd[c] = "failing"
  /\ pending' = pending \ {c}
  /\ StopTimer(c)
  /\ cmd' = [cmd EXCEPT ![c] = "returned"]
  /\ reply' = [reply EXCEPT ![c] = "error"]
  /\ UNCHANGED <<sessionVars, agentVars, conn, resultCh>>

\* SendCommand receives from resultCh and returns.
Return(c) ==
  /\ cmd[c] = "waiting"
  /\ resultCh[c] # "empty"
  /\ reply' = [reply EXCEPT ![c] = resultCh[c]]
  /\ resultCh' = [resultCh EXCEPT ![c] = "empty"]
  /\ StopTimer(c)
  /\ cmd' = [cmd EXCEPT ![c] = "returned"]
  /\ UNCHANGED <<sessionVars, agentVars, conn, pending>>

\* The timeout elapses: the runtime starts the callback's goroutine, which
\* Stop no longer prevents.  Timely: not before the command is in Hub.pending
\* (the timeouts are ten seconds and more).
TimerFire(c) ==
  /\ timer[c] = "armed"
  /\ Timely => cmd[c] # "inserting"
  /\ timer' = [timer EXCEPT ![c] = "fired"]
  /\ UNCHANGED <<sessionVars, agentVars, cmd, conn, pending, resultCh, reply>>

\* Bug for WaitingCallHasAnAnswer: the callback forgets to tell the caller.
TimerCallback_NoReply(c) ==
  /\ timer[c] = "fired"
  /\ timer' = [timer EXCEPT ![c] = "done"]
  /\ pending' = pending \ {c}
  /\ UNCHANGED <<sessionVars, agentVars, cmd, conn, resultCh, reply>>

\* The callback.  It sends on resultCh holding Hub.pendingMu.
TimerCallback(c) ==
  /\ timer[c] = "fired"
  /\ timer' = [timer EXCEPT ![c] = "done"]
  /\ \/ /\ c \in pending
        /\ resultCh[c] = "empty"
        /\ pending' = pending \ {c}
        /\ resultCh' = [resultCh EXCEPT ![c] = "timeout"]
     \/ /\ c \notin pending
        /\ UNCHANGED <<pending, resultCh>>
  /\ UNCHANGED <<sessionVars, agentVars, cmd, conn, reply>>

-----------------------------------------------------------------------------
SessionNext(s) ==
  \/ Accept(s) \/ Register(s)
  \/ WriterSend(s) \/ WriterExit(s)
  \/ Receive(s) \/ (\E c \in Cmds : ReceiveResult(s, c)) \/ DeliverResult(s)
  \/ ReaderExit(s) \/ Leave(s)
  \/ Age(s) \/ Break(s)
  \/ \E c \in Cmds : Answer(s, c)

CommandNext(c) ==
  \/ Issue(c) \/ Insert(c) \/ Lookup(c) \/ Enqueue(c)
  \/ Fail(c) \/ Return(c) \/ TimerFire(c) \/ TimerCallback(c)

Next ==
  \/ \E s \in Sessions : SessionNext(s)
  \/ CollectStale
  \/ \E srv \in Servers : UnregisterStale(srv)
  \/ \E c \in Cmds : CommandNext(c)

Spec == Init /\ [][Next]_vars

\* The goroutines of the dashboard run, time passes, and an agent redials.
\* Nothing obliges an agent to answer, a connection to break, or a caller to
\* issue a command.
Fairness ==
  /\ \A s \in Sessions :
       /\ WF_vars(Register(s)) /\ WF_vars(WriterSend(s) \/ WriterExit(s))
       /\ WF_vars(\E c \in Cmds : ReceiveResult(s, c))
       /\ WF_vars(DeliverResult(s)) /\ WF_vars(ReaderExit(s))
       /\ WF_vars(Leave(s))
  /\ \A srv \in Servers :
       /\ WF_vars(\E s \in Sessions : ServerOf[s] = srv /\ Accept(s))
       /\ WF_vars(UnregisterStale(srv))
  /\ \A c \in Cmds :
       /\ WF_vars(Insert(c) \/ Lookup(c) \/ Enqueue(c))
       /\ WF_vars(Fail(c) \/ Return(c))
       /\ WF_vars(TimerFire(c)) /\ WF_vars(TimerCallback(c))

FairSpec == Spec /\ Fairness

-----------------------------------------------------------------------------
(* Properties *)

SessionsOK ==
  /\ connections \in [Servers -> Sessions \cup {None}]
  /\ open \subseteq Sessions
  /\ sendCh \in [Sessions -> Seq(Cmds)]
  /\ reader \in [Sessions -> ReaderPC]
  /\ handled \in [Sessions -> Cmds \cup {NoCmd}]
  /\ writers \subseteq Sessions
  /\ cancelled \subseteq Sessions
  /\ link \in [Sessions -> {"up", "half", "down"}]
  /\ fresh \subseteq Sessions
  /\ stale \subseteq Servers

AgentsOK ==
  /\ running \subseteq Sessions \X Cmds
  /\ uplink \subseteq Sessions \X Cmds
  /\ accepted \subseteq Cmds

CommandsOK ==
  /\ cmd \in [Cmds -> CmdPC]
  /\ conn \in [Cmds -> Sessions \cup {None}]
  /\ timer \in [Cmds -> {"none", "armed", "fired", "done", "stopped"}]
  /\ pending \subseteq Cmds
  /\ resultCh \in [Cmds -> {"empty", "result", "timeout"}]
  /\ reply \in [Cmds -> {"none", "result", "timeout", "error"}]

\* The types, and the bound of the send buffers: no interleaving of senders
\* puts more than SendCap messages in one.
TypeOK ==
  /\ SessionsOK
  /\ AgentsOK
  /\ CommandsOK
  /\ \A s \in Sessions : Len(sendCh[s]) <= SendCap

\* The channels that are open are the registered ones, and no other: Register
\* and Unregister never close a channel twice, Broadcast, which holds the read
\* lock, never sends on a closed one, and a replaced session's channel is not
\* left open with its writer waiting on it for ever.
OpenIffRegistered ==
  \A s \in Sessions : s \in open <=> connections[ServerOf[s]] = s

\* The registry never holds a ghost: a registered session has a HandleUpgrade
\* call behind it that will unregister the server when it ends.
NoGhostConnection ==
  \A srv \in Servers : connections[srv] # None =>
    /\ ServerOf[connections[srv]] = srv
    /\ reader[connections[srv]] \in {"reading", "delivering", "leaving"}

Delivering(c) == {s \in Sessions : reader[s] = "delivering" /\ handled[s] = c}

\* A result channel has room whenever something is about to be sent on it,
\* and only one sender at a time is about to: neither a reader in HandleResult
\* nor a timer callback, which holds Hub.pendingMu, can block on it (which
\* would stop every SendCommand of the dashboard).
ResultChannelHasRoom ==
  \A c \in Cmds :
    /\ c \in pending => resultCh[c] = "empty" /\ Delivering(c) = {}
    /\ Delivering(c) # {} => resultCh[c] = "empty"
    /\ \A s, t \in Delivering(c) : s = t

\* A waiting caller can still be answered: its command is pending, its result
\* is being delivered, or it is in the channel.  A pending command whose
\* caller waits has a timer that has yet to run; the margin of Timely is what
\* makes this true: a callback that ran before the insertion found nothing.
WaitingCallHasAnAnswer ==
  \A c \in Cmds : cmd[c] = "waiting" =>
    \/ c \in pending /\ timer[c] \in {"armed", "fired"}
    \/ Delivering(c) # {}
    \/ resultCh[c] # "empty"

\* A command is executed, and its result comes back, only over a connection
\* of the server it was sent to, whatever replaced what while it was on its
\* way.
NoMisdelivery ==
  /\ \A p \in running \cup uplink : ServerOf[p[1]] = TargetOf[p[2]]
  /\ \A s \in Sessions, c \in Cmds :
       handled[s] = c => ServerOf[s] = TargetOf[c]

\* The hub keeps CommandPromise.  A result that sits in the channel counts
\* once the caller waits for it: until then the call may still fail.
CallPhase(c) == CASE cmd[c] = "new"      -> "new"
                  [] cmd[c] = "returned" -> "closed"
                  [] OTHER               -> "open"

CallOutcome(c) == CASE cmd[c] = "failing"  -> "error"
                    [] cmd[c] = "returned" -> reply[c]
                    [] cmd[c] = "waiting" /\ resultCh[c] # "empty"
                                           -> resultCh[c]
                    [] OTHER               -> "none"

Promise == INSTANCE CommandPromise
             WITH phase <- [c \in Cmds |-> CallPhase(c)],
                  outcome <- [c \in Cmds |-> CallOutcome(c)],
                  executed <- accepted

\* At most one delivery, one settlement, and a failed call that left nothing
\* behind: every step of the hub is a step of the promise.
KeepsPromise == Promise!Spec

\* Every SendCommand ends: "returns the result or an error if the agent is
\* offline or the command times out" (hub.go:289). And Hub.pending does not
\* leak: the entry of a call goes, whether or not the agent answers and even
\* when the call has panicked.
CallsEnd ==
  \A c \in Cmds :
    /\ cmd[c] # "new" ~> cmd[c] \in {"returned", "panicked"}
    /\ c \in pending ~> c \notin pending

\* Once agents and network behave, the registry converges: every server ends
\* up registered for good under a session whose connection is up, although
\* the handlers of the sessions it replaced still unregister it on their way
\* out.
LinksSettle == <>[][\A s \in Sessions : link[s] = "up" => link'[s] # "half"]_vars
Converges ==
  LinksSettle =>
    <>[](\A srv \in Servers :
           connections[srv] # None /\ link[connections[srv]] = "up")

\* "Marks agents as offline if no heartbeat received within the timeout"
\* (hub.go:264): a server is taken out of the registry only when its session
\* has been silent for the timeout or its connection has ended.
OfflineOnlyWhenSilent ==
  [][\A srv \in Servers :
       connections[srv] # None /\ connections'[srv] = None =>
         connections[srv] \notin fresh \/ link[connections[srv]] # "up"]_vars

\* SendCommand ends by returning a result or an error (hub.go:289), not by
\* panicking.
SendDoesNotPanic == \A c \in Cmds : cmd[c] # "panicked"
=============================================================================
