------------------------------- MODULE Fleet -------------------------------
(***************************************************************************)
(* The nodes of one server as the dashboard's database has them, and       *)
(* everybody who writes there: the discovery reports and metrics of the    *)
(* server's agent (internal/dashboard/ws/agent_handler.go) and the         *)
(* operator's requests (internal/dashboard/handlers/nodes.go, docker.go,   *)
(* servers.go), which first have the agent do something and then store     *)
(* what came of it (internal/store/node_store.go).                         *)
(*                                                                         *)
(* The database executes one statement at a time, and there are no         *)
(* transactions around a read and the write it leads to: whoever changes   *)
(* one column of a row reads the row, and writes all of it later.  What a  *)
(* command does to a container is taken from NodeHost as one step, or two  *)
(* where the container is down in between.                                 *)
(***************************************************************************)
EXTENDS Naturals, Sequences, FiniteSets

CONSTANTS
  Containers,  \* names of containers on the server
  Tags,        \* image tags
  Ids,         \* row IDs: bound on the rows ever created, never reused
  Reqs,        \* the operator's requests, each used once
  Kinds,       \* what they ask for
  Sessions,    \* WebSocket sessions of the agent
  None,
  MaxEvents    \* bound: connections that break, and containers started or
               \* stopped by somebody else

AllKinds == {"start", "stop", "restart", "remove", "delete", "rename",
             "upgrade", "database"}

ASSUME FleetAssumption ==
  /\ Kinds \subseteq AllKinds
  /\ None \notin Containers \cup Ids \cup Sessions
  /\ Tags # {} /\ MaxEvents \in Nat

VARIABLES
  cont,    \* the containers as they are
  rows,    \* the table nodes
  version, \* the version last recorded for each row ID
  unused,  \* row IDs not yet given out
  req,     \* the operator's requests
  cmds,    \* commands at the agent, and their results on the way back
  cur,     \* the session the hub has for the agent
  sess,    \* each session's report on the way or being handled
  poll,    \* the metrics worker: the row it has read
  events,  \* such events so far
  overlap, \* whether two sessions' reports have been handled at once
  owed     \* rows put into maintenance with nobody about to undo it

vars == <<cont, rows, version, unused, req, cmds, cur, sess, poll, events, overlap, owed>>

Gone == [here |-> FALSE, up |-> FALSE, tag |-> CHOOSE t \in Tags : TRUE]
Node(up, t) == [here |-> TRUE, up |-> up, tag |-> t]

\* Bug for TypeOK: Docker's own word for a container that has ended.
Status_Docker(n) == IF n.up THEN "running" ELSE "exited"

\* GetContainerStatus, parseContainerToNode
Status(n) == IF n.up THEN "running" ELSE "stopped"

\* A row: the columns that somebody writes and somebody else decides by.
NoRow == [c |-> None, status |-> "unknown", tag |-> CHOOSE t \in Tags : TRUE,
          maint |-> FALSE, named |-> FALSE]
Exists(i) == rows[i] # NoRow
RowsOf(c) == {i \in Ids : rows[i].c = c}

Idle == [kind |-> "none", todo |-> <<>>, tag |-> CHOOSE t \in Tags : TRUE,
         pc |-> "idle", copy |-> NoRow]
NoReport == [at |-> "none", saw |-> [c \in Containers |-> Gone],
             copy |-> [i \in Ids |-> NoRow], todo |-> {}]
NoPoll == [id |-> None, copy |-> NoRow]

Init ==
  /\ cont = [c \in Containers |-> Node(TRUE, CHOOSE t \in Tags : TRUE)]
  /\ rows \in [Ids -> {NoRow} \cup {[NoRow EXCEPT !.c = c, !.status = "running"] : c \in Containers}]
  /\ \A c \in Containers : \E i \in Ids : RowsOf(c) = {i}
  /\ version = [i \in Ids |-> None]
  /\ unused = {i \in Ids : ~Exists(i)}
  /\ req = [r \in Reqs |-> Idle]
  /\ cmds = {}
  /\ cur \in Sessions
  /\ sess = [s \in Sessions |-> NoReport]
  /\ poll = NoPoll
  /\ events = 0
  /\ overlap = FALSE
  /\ owed = {}

-----------------------------------------------------------------------------
(* Statements of the node store *)

\* Update: every column from the caller's copy, if the row is still there.
Put(i, row) == rows' = IF Exists(i) THEN [rows EXCEPT ![i] = row] ELSE rows

\* UpdateStatus: that column alone.
PutStatus(i, s) == rows' = IF Exists(i) THEN [rows EXCEPT ![i].status = s] ELSE rows
Erase(i) == rows' = [rows EXCEPT ![i] = NoRow]

\* A promise of maintenance ends with the row, and when the node runs again.
Kept(is, cs, rs) == {i \in is : rs[i] # NoRow /\ cs[rs[i].c].here /\ ~cs[rs[i].c].up}

-----------------------------------------------------------------------------
(* The operator's requests *)

Cur(r) == Head(req[r].todo)
Active(r) == req[r].pc \notin {"idle", "end"}

\* A request for one node or, by the batch endpoints, for a list of nodes.
Batches(k) == {<<i>> : i \in Ids} \cup
              IF k \in {"start", "stop", "restart", "upgrade"}
              THEN {<<i, j>> : i, j \in Ids} ELSE {}

Begin(r) ==
  /\ req[r].pc = "idle"
  /\ \E k \in Kinds, t \in Tags : \E b \in Batches(k) :
       /\ \A x \in DOMAIN b : Exists(b[x]) /\ \A y \in DOMAIN b : b[x] = b[y] => x = y
       /\ k # "upgrade" => t = Idle.tag
       /\ req' = [req EXCEPT ![r] = [Idle EXCEPT !.kind = k, !.todo = b, !.tag = t,
                                                 !.pc = "look"]]
  /\ UNCHANGED <<cont, rows, version, unused, cmds, cur, sess, poll, events, overlap, owed>>

\* The request after its current node.
Advance(r) == IF Len(req[r].todo) = 1 THEN [Idle EXCEPT !.pc = "end"]
              ELSE [req[r] EXCEPT !.todo = Tail(@), !.copy = NoRow, !.pc = "look"]
AtPc(r, pc) == [req[r] EXCEPT !.pc = pc]
Sends == {"start", "stop", "restart", "remove", "upgrade", "database"}

\* A restore or a reset of the chain DB is not waited for.
NotAwaited == {"database"}

Command(r) == [req |-> r, n |-> Len(req[r].todo), c |-> rows[Cur(r)].c, kind |-> req[r].kind,
               tag |-> req[r].tag, st |-> "sent", mute |-> req[r].kind \in NotAwaited]

\* The node's row is read, and the command sent to its agent.
Send(r) ==
  /\ req[r].pc = "look" /\ req[r].kind \in Sends
  /\ Exists(Cur(r)) /\ cur # None
  /\ cmds' = cmds \cup {Command(r)}
  /\ req' = [req EXCEPT ![r] =
       IF req[r].kind \in NotAwaited THEN Advance(r)
       ELSE [@ EXCEPT !.copy = IF req[r].kind = "upgrade" THEN rows[Cur(r)] ELSE NoRow,
                      !.pc = "wait"]]
  /\ UNCHANGED <<cont, rows, version, unused, cur, sess, poll, events, overlap, owed>>

\* No such node, or no agent: the next node.  A removal without an agent still
\* deletes the row.
Refuse(r) ==
  /\ req[r].pc = "look" /\ req[r].kind \in Sends
  /\ ~Exists(Cur(r)) \/ cur = None
  /\ req' = [req EXCEPT ![r] = IF req[r].kind = "remove" /\ Exists(Cur(r))
                               THEN AtPc(r, "erase") ELSE Advance(r)]
  /\ UNCHANGED <<cont, rows, version, unused, cmds, cur, sess, poll, events, overlap, owed>>

\* Requests the agent has no part in.
Look(r) ==
  /\ req[r].pc = "look" /\ req[r].kind \in {"rename", "delete"}
  /\ req' = [req EXCEPT ![r] =
       IF ~Exists(Cur(r)) THEN Advance(r)
       ELSE IF req[r].kind = "delete" THEN AtPc(r, "erase")
       ELSE [@ EXCEPT !.copy = [rows[Cur(r)] EXCEPT !.named = TRUE], !.pc = "write"]]
  /\ UNCHANGED <<cont, rows, version, unused, cmds, cur, sess, poll, events, overlap, owed>>

Answers(r) == {k \in cmds : k.req = r /\ k.n = Len(req[r].todo) /\ k.st \notin {"sent", "down"}}

\* SendCommand returns the agent's result.
Answer(r) ==
  /\ req[r].pc = "wait"
  /\ \E k \in Answers(r) :
       /\ cmds' = cmds \ {k}
       /\ req' = [req EXCEPT ![r] =
            IF k.st = "failed" THEN Advance(r)
            ELSE IF req[r].kind = "upgrade" THEN [@ EXCEPT !.copy.tag = req[r].tag, !.pc = "write"]
            ELSE IF req[r].kind = "remove" THEN AtPc(r, "erase")
            ELSE IF k.st = "ok" THEN AtPc(r, "maint")
            ELSE [AtPc(r, "status") EXCEPT !.copy.status = k.st]]
       /\ UNCHANGED <<cont, rows, version, unused, cur, sess, poll, events, overlap, owed>>

\* SendCommand gives up: after a minute, or after five on an upgrade that the
\* agent gives fifteen.
Timeout(r) ==
  /\ req[r].pc = "wait"
  /\ req' = [req EXCEPT ![r] = Advance(r)]
  /\ UNCHANGED <<cont, rows, version, unused, cmds, cur, sess, poll, events, overlap, owed>>

\* UpdateStatus, with the status the agent looked up after the command.
StoreStatus(r) ==
  /\ req[r].pc = "status"
  /\ PutStatus(Cur(r), req[r].copy.status)
  /\ req' = [req EXCEPT ![r] = [AtPc(r, "maint") EXCEPT !.copy = NoRow]]
  /\ UNCHANGED <<cont, version, unused, cmds, cur, sess, poll, events, overlap, owed>>

\* SetMaintenance reads the row ...
ReadMaint(r) ==
  /\ req[r].pc = "maint"
  /\ req' = [req EXCEPT ![r] =
       IF Exists(Cur(r))
       THEN [@ EXCEPT !.copy = [rows[Cur(r)] EXCEPT !.maint = req[r].kind = "stop"],
                      !.pc = "write"]
       ELSE Advance(r)]
  /\ UNCHANGED <<cont, rows, version, unused, cmds, cur, sess, poll, events, overlap, owed>>

\* Nobody else has read the row, or looked at its container, and not yet
\* written what came of it.
Alone(r) ==
  /\ \A s \in Sessions : sess[s].at = "none"
  /\ poll = NoPoll
  /\ \A o \in Reqs \ {r} : ~Active(o)
  /\ \A k \in cmds : k.c # rows[Cur(r)].c

\* ... and writes it, as an upgrade and a change of name do with theirs.
Write(r) ==
  /\ req[r].pc = "write"
  /\ Put(Cur(r), req[r].copy)
  /\ req' = [req EXCEPT ![r] = Advance(r)]
  /\ owed' = IF req[r].kind = "stop" /\ Exists(Cur(r)) /\ Alone(r)
             THEN Kept(owed \cup {Cur(r)}, cont, rows') ELSE owed
  /\ UNCHANGED <<cont, version, unused, cmds, cur, sess, poll, events, overlap>>

Delete(r) ==
  /\ req[r].pc = "erase"
  /\ Erase(Cur(r))
  /\ req' = [req EXCEPT ![r] = Advance(r)]
  /\ owed' = owed \ {Cur(r)}
  /\ UNCHANGED <<cont, version, unused, cmds, cur, sess, poll, events, overlap>>

-----------------------------------------------------------------------------
(* The agent's commands *)

\* The container after a command, or after its first half.
After(k) ==
  CASE k.kind \in {"start", "restart"} -> [cont[k.c] EXCEPT !.up = TRUE]
    [] k.kind = "remove"               -> Gone
    [] OTHER                           -> [cont[k.c] EXCEPT !.up = FALSE]

\* How it ends at once: with the status of the container, or without when
\* that could not be had.
Endings(k) ==
  CASE k.kind \in {"upgrade", "database"} -> {"down"}
    [] k.kind = "remove"                 -> {"ok"}
    [] OTHER                             -> {"ok", Status(After(k))}

Result(k, st) == (cmds \ {k}) \cup (IF k.mute /\ st # "down" THEN {} ELSE {[k EXCEPT !.st = st]})

Run(k, n, st) ==
  /\ cont' = [cont EXCEPT ![k.c] = n]
  /\ cmds' = Result(k, st)
  /\ owed' = Kept(owed, cont', rows)
  /\ UNCHANGED <<rows, version, unused, req, cur, sess, poll, events, overlap>>

Execute(k) ==
  /\ k.st = "sent"
  /\ \/ /\ cont[k.c].here \/ k.kind = "remove"
        /\ \E st \in Endings(k) : Run(k, After(k), st)
     \/ Run(k, cont[k.c], "failed")

\* The end of an upgrade or a reset.  An upgrade that fails puts the old
\* container back, if it can.
Finish(k) ==
  /\ k.st = "down"
  /\ \/ /\ cont[k.c].here
        /\ Run(k, Node(TRUE, IF k.kind = "upgrade" THEN k.tag ELSE cont[k.c].tag), "ok")
     \/ \E up \in {TRUE, cont[k.c].up} : Run(k, [cont[k.c] EXCEPT !.up = up /\ cont[k.c].here], "failed")

-----------------------------------------------------------------------------
(* Reports *)

Listed == {c \in Containers : cont[c].here}

\* DiscoverNodes: what cannot be inspected in time is left out.
Discover(missing) == [c \in Containers |-> IF c \in Listed \ missing THEN cont[c] ELSE Gone]

\* runDiscoveryLoop: the containers as they are go out on the connection.  A
\* report of none changes nothing, and is left out.
Report(s, missing) ==
  /\ s = cur /\ sess[s].at = "none"
  /\ Listed \ missing # {}
  /\ sess' = [sess EXCEPT ![s].at = "way", ![s].saw = Discover(missing)]
  /\ UNCHANGED <<cont, rows, version, unused, req, cmds, cur, poll, events, overlap, owed>>

\* handleDiscovery lists the server's rows, once per report.
Take(s) ==
  /\ sess[s].at = "way"
  /\ sess' = [sess EXCEPT ![s] = [@ EXCEPT !.at = "busy", !.copy = rows,
                                           !.todo = {c \in Containers : sess[s].saw[c].here}]]
  /\ overlap' = (overlap \/ \E o \in Sessions \ {s} : sess[o].at = "busy")
  /\ UNCHANGED <<cont, rows, version, unused, req, cmds, cur, poll, events, owed>>

\* Bug for OwedIsKept: the report replaces the metadata of a row.
Seen_Replaces(row, n) == [row EXCEPT !.status = Status(n), !.tag = n.tag, !.maint = FALSE]

\* A row, in the reader's copy and in the table, after a container was seen.
Seen(row, n) == [row EXCEPT !.status = Status(n), !.tag = n.tag,
                            !.maint = @ /\ ~n.up]

\* What is left to do of a report after a container of it.
Reported(s, c) ==
  LET copy == [i \in Ids |-> IF sess[s].copy[i].c = c THEN NoRow ELSE sess[s].copy[i]]
      rest == [sess[s] EXCEPT !.todo = @ \ {c}, !.saw[c] = Gone, !.copy = copy]
  IN [sess EXCEPT ![s] = IF sess[s].todo = {c} THEN NoReport ELSE rest]

\* Bug for OneRowEach: a node that has been given a name is not recognised.
Known_ByName(s, c) == {i \in Ids : sess[s].copy[i].c = c /\ ~sess[s].copy[i].named}

\* The rows of a container among those the reader listed.
Known(s, c) == {i \in Ids : sess[s].copy[i].c = c}

\* RecordVersion: a row of the history when the tag is not the last one's.
RecordVersion(i, tag) == version' = [version EXCEPT ![i] = tag]

\* Bug for Refreshed: a report only adds rows.
Merge_OnlyNew(s) ==
  /\ sess[s].at = "busy"
  /\ \E c \in sess[s].todo :
       /\ \E i \in unused :
            /\ rows' = IF Known(s, c) # {} THEN rows
                       ELSE [rows EXCEPT ![i] = Seen([NoRow EXCEPT !.c = c], sess[s].saw[c])]
            /\ RecordVersion(i, sess[s].saw[c].tag)
            /\ unused' = IF Known(s, c) # {} THEN unused ELSE unused \ {i}
       /\ sess' = Reported(s, c)
  /\ UNCHANGED <<cont, req, cmds, cur, poll, events, overlap, owed>>

\* One container of a report: its row is written from the reader's copy, or
\* a new row is made, and the version recorded if it is not the last one.
Merge(s) ==
  /\ sess[s].at = "busy"
  /\ \E c \in sess[s].todo :
       /\ \E i \in IF Known(s, c) # {} THEN Known(s, c) ELSE unused :
            /\ RecordVersion(i, sess[s].saw[c].tag)
            /\ IF i \notin unused
               THEN Put(i, Seen(sess[s].copy[i], sess[s].saw[c]))
               ELSE rows' = [rows EXCEPT ![i] = Seen([NoRow EXCEPT !.c = c], sess[s].saw[c])]
            /\ unused' = unused \ {i}
       /\ sess' = Reported(s, c)
  /\ UNCHANGED <<cont, req, cmds, cur, poll, events, overlap, owed>>

\* handleNodeMetrics, on the session's worker: the row of a polled node is
\* read, given the new numbers, and written.
PollRead ==
  /\ poll = NoPoll /\ cur # None
  /\ \E i \in Ids : Exists(i) /\ cont[rows[i].c].here /\ poll' = [id |-> i, copy |-> rows[i]]
  /\ UNCHANGED <<cont, rows, version, unused, req, cmds, cur, sess, events, overlap, owed>>

PollWrite ==
  /\ poll # NoPoll
  /\ Put(poll.id, poll.copy)
  /\ poll' = NoPoll
  /\ UNCHANGED <<cont, version, unused, req, cmds, cur, sess, events, overlap, owed>>

-----------------------------------------------------------------------------
(* The connection, and the world *)

Event == events < MaxEvents /\ events' = events + 1

\* The connection breaks.  Results on their way are lost, those of commands
\* still running will be, and commands not yet there may be; the hub marks
\* every node of the server unknown.
Break ==
  /\ cur # None /\ Event
  /\ cur' = None
  /\ rows' = [i \in Ids |-> IF Exists(i) THEN [rows[i] EXCEPT !.status = "unknown"] ELSE NoRow]
  /\ \E lost \in SUBSET {k \in cmds : k.st = "sent"} :
       cmds' = {[k EXCEPT !.mute = TRUE] : k \in {k \in cmds \ lost : k.st \in {"sent", "down"}}}
  /\ UNCHANGED <<cont, version, unused, req, sess, poll, overlap, owed>>

Connect(s) ==
  /\ cur = None /\ sess[s].at = "none"
  /\ cur' = s
  /\ UNCHANGED <<cont, rows, version, unused, req, cmds, sess, poll, events, overlap, owed>>

\* Somebody starts or stops a container without the dashboard, or the node
\* ends by itself.
Outside(c) ==
  /\ cont[c].here /\ Event
  /\ cont' = [cont EXCEPT ![c].up = ~@]
  /\ owed' = Kept(owed, cont', rows)
  /\ UNCHANGED <<rows, version, unused, req, cmds, cur, sess, poll, overlap>>

-----------------------------------------------------------------------------
ReqStep(r) == \/ Send(r) \/ Refuse(r) \/ Look(r) \/ Answer(r) \/ Timeout(r)
              \/ StoreStatus(r) \/ ReadMaint(r) \/ Write(r) \/ Delete(r)
AgentStep == \E k \in cmds : Execute(k) \/ Finish(k)

Next ==
  \/ \E r \in Reqs : Begin(r) \/ ReqStep(r)
  \/ AgentStep
  \/ \E s \in Sessions : \/ \E missing \in SUBSET Containers : Report(s, missing)
                         \/ Take(s) \/ Merge(s) \/ Connect(s)
  \/ PollRead \/ PollWrite
  \/ Break
  \/ \E c \in Containers : Outside(c)

\* Handlers run, commands have deadlines on both sides, the worker empties its
\* queue, the agent reconnects and reports on a timer, and Docker answers it in
\* full again and again.  Nobody has to ask for anything, connections need not
\* break, and metrics need not arrive.
Fairness ==
  /\ \A r \in Reqs : WF_vars(ReqStep(r))
  /\ WF_vars(AgentStep)
  /\ \A s \in Sessions : SF_vars(Report(s, {})) /\ WF_vars(Take(s)) /\ WF_vars(Merge(s))
  /\ WF_vars(\E s \in Sessions : Connect(s))
  /\ WF_vars(PollWrite)

Spec == Init /\ [][Next]_vars /\ Fairness

-----------------------------------------------------------------------------
(* Properties *)

Row == [c : Containers \cup {None}, status : {"running", "stopped", "unknown"}, tag : Tags,
        maint : BOOLEAN, named : BOOLEAN]
Cont == [here : BOOLEAN, up : BOOLEAN, tag : Tags]

TypeOK ==
  /\ cont \in [Containers -> Cont]
  /\ rows \in [Ids -> Row] /\ \A i \in Ids : Exists(i) => rows[i].c \in Containers
  /\ version \in [Ids -> Tags \cup {None}]
  /\ unused \in SUBSET {i \in Ids : ~Exists(i)}
  /\ req \in [Reqs -> [kind : AllKinds \cup {"none"}, todo : Seq(Ids), tag : Tags, copy : Row,
                       pc : {"idle", "look", "wait", "status", "maint", "write", "erase", "end"}]]
  /\ \A k \in cmds : k \in [req : Reqs, n : 1..2, c : Containers, kind : Sends, tag : Tags,
                            st : {"sent", "down", "ok", "failed", "running", "stopped"},
                            mute : BOOLEAN]
  /\ cur \in Sessions \cup {None}
  /\ sess \in [Sessions -> [at : {"none", "way", "busy"}, saw : [Containers -> Cont],
                            copy : [Ids -> Row], todo : SUBSET Containers]]
  /\ poll \in [id : Ids \cup {None}, copy : Row]
  /\ events \in 0..MaxEvents /\ overlap \in BOOLEAN
  /\ owed \subseteq Ids

\* A container has one row, although no constraint of the table says so and a
\* row is made on the word of a list read earlier: whatever else reads,
\* deletes and writes rows meanwhile, unless two sessions' reports were
\* handled at once (handleDiscovery, agent_handler.go:378).
OneRowEach == ~overlap => \A c \in Containers : Cardinality(RowsOf(c)) <= 1

\* SetMaintenance: a node the operator has stopped stays marked until it runs
\* again, so that its silence raises no alert.  What can undo the mark is a
\* row or a report that somebody had read before it was set; whoever comes
\* later keeps it.
OwedIsKept == \A i \in owed : rows[i].maint

\* "Upgrades nodes sequentially to maintain quorum" (docker.go:127): a batch
\* never has two containers down at once.
BatchKeepsQuorum ==
  \A r \in Reqs : Cardinality({k \in cmds : k.req = r /\ k.kind = "upgrade" /\ k.st = "down"}) <= 1

\* Whatever stale copies are written over it, the row of a container tells its
\* status, tag and last version again and again, and then does not keep a running
\* node in maintenance: what handleDiscovery writes corrects everybody else.
Right(c) ==
  cont[c].here => \E i \in RowsOf(c) :
    /\ rows[i].status = Status(cont[c])
    /\ rows[i].tag = cont[c].tag /\ version[i] = cont[c].tag
    /\ cont[c].up => ~rows[i].maint
Refreshed == \A c \in Containers : []<>Right(c)
=============================================================================
