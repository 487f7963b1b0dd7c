------------------------------ MODULE Releases ------------------------------
(***************************************************************************)
(* New agent binaries and how they reach the servers: the store of         *)
(* binaries on the dashboard (internal/dashboard/update_store.go), the     *)
(* update and restart requests (internal/dashboard/handlers/update.go),    *)
(* the replacement of the binary by the running agent                      *)
(* (internal/agent/updater.go, executor.go), its restart                   *)
(* (cmd/agent/main.go) and what the dashboard then learns of its version   *)
(* (internal/dashboard/ws/agent_handler.go).                               *)
(*                                                                         *)
(* A build stands for its bytes and for their checksum; Torn is a file     *)
(* whose bytes are those of no build.  All servers are of one platform.    *)
(***************************************************************************)
EXTENDS Integers, SequencesExt, FiniteSets

CONSTANTS
  Servers,
  Reqs,       \* requests of operators, each used once
  Versions,   \* labels that binaries are stored under
  Builds,
  Origin,     \* the build that the agents were installed with
  Legacy,     \* builds that predate signed connections
  None, Torn,
  Tags,       \* labels that are tags of releases
  OwnLabel,   \* the label of what comes from the operator's own source
  Stored,     \* what an earlier dashboard has left in the store
  MaxUploads, \* bound: binaries stored
  MaxFaults   \* bound: lost connections, writes that the dashboard's disk refuses,
              \* and deaths of an agent, its host or the dashboard

ASSUME ReleasesAssumption ==
  /\ IsFiniteSet(Servers) /\ Servers # {}
  /\ Origin \in Builds /\ Legacy \subseteq Builds
  /\ None # Torn /\ {None, Torn} \cap (Builds \cup Versions) = {}
  /\ Tags \subseteq Versions /\ OwnLabel \in Versions
  /\ Stored \in [Versions -> Builds \cup {None}]
  /\ MaxUploads \in Nat /\ MaxFaults \in Nat

VARIABLES
  files, entries, index, dl, uploads,              \* the store of binaries
  req, told, tokens,                               \* the operators' requests
  link, cap,                                       \* the agents' connections
  job,                                             \* commands at the agents
  exe, tmp, backup, running, busy, installed,      \* the agents' binaries
  overlapped, \* agents that were given an update while they were at another
  row, info, signed,                               \* the rows of the servers
  faults

storeVars == <<files, entries, index, dl, uploads>>
opVars    == <<req, told, tokens>>
netVars   == <<link, cap>>
binVars   == <<exe, tmp, backup, running, busy, installed, overlapped>>
rowVars   == <<row, info, signed>>
vars == <<storeVars, opVars, netVars, job, binVars, rowVars, faults>>

Fault == faults < MaxFaults /\ faults' = faults + 1

Jobs == Reqs \X Servers
NoJob == [kind |-> "none", pc |-> "none", sum |-> None, ver |-> None, data |-> None,
          hand |-> "none", heard |-> FALSE, ok |-> FALSE, res |-> "none"]
NoReq == [kind |-> "none", pc |-> "new", want |-> None, todo |-> <<>>, ver |-> None,
          sum |-> None, data |-> None]
NoStore == [pc |-> "idle", ver |-> None, data |-> None]

Init ==
  /\ files = Stored
  /\ entries = [v \in Versions |-> IF Stored[v] = None THEN None ELSE [sum |-> Stored[v], at |-> 0]]
  /\ index = entries /\ dl = NoStore /\ uploads = 0
  /\ req = [q \in Reqs |-> NoReq] /\ told = [j \in Jobs |-> "none"] /\ tokens = {}
  /\ link = [s \in Servers |-> FALSE] /\ cap = [s \in Servers |-> FALSE]
  /\ job = [j \in Jobs |-> NoJob]
  /\ exe = [s \in Servers |-> Origin] /\ running = exe
  /\ tmp = [s \in Servers |-> None] /\ backup = tmp
  /\ busy = [s \in Servers |-> TRUE] /\ installed = [s \in Servers |-> {Origin}]
  /\ overlapped = {}
  /\ row = [s \in Servers |-> None] /\ info = [s \in Servers |-> None]
  /\ signed = {}
  /\ faults = 0

-----------------------------------------------------------------------------
(* The store.  Store holds its lock from the first step to the last. *)

Locked == dl.pc # "idle"
Known == {v \in Versions : entries[v] # None}
LastAt == IF Known = {} THEN 0
          ELSE CHOOSE n \in {entries[v].at : v \in Known} : \A v \in Known : entries[v].at <= n

\* Store takes its lock and begins to write.
Begin(v, b) ==
  /\ ~Locked /\ uploads < MaxUploads
  /\ uploads' = uploads + 1
  /\ dl' = [pc |-> "write", ver |-> v, data |-> b]
  /\ files' = [files EXCEPT ![v] = Torn]
  /\ UNCHANGED <<entries, index, opVars, netVars, job, binVars, rowVars, faults>>

\* HandleUploadBinary: under any label.
Upload == \E v \in Versions, b \in Builds : Begin(v, b)

\* A release's list of checksums refuses what is not the build it names; a
\* list that cannot be had, or has no such file, refuses nothing.  Nothing in
\* the store tells the one from the other: any build may come.
DownloadFromRelease == Tags # {} /\ \E v \in Versions, b \in Builds : Begin(v, b)

\* The label is the tag, whether the release or the operator's source is asked.
DownloadReleaseAuto == \E v \in Tags, b \in Builds : Begin(v, b)

DownloadCustom == \E b \in Builds : Begin(OwnLabel, b)

\* The file is whole again, and its entry is that of the new build.  The time
\* is in seconds, so that it may be that of the last.
StoreFile ==
  /\ dl.pc = "write"
  /\ files' = [files EXCEPT ![dl.ver] = dl.data]
  /\ \E now \in {LastAt, LastAt + 1} :
       entries' = [entries EXCEPT ![dl.ver] = [sum |-> dl.data, at |-> now]]
  /\ dl' = [dl EXCEPT !.pc = "index"]
  /\ index' = Torn
  /\ UNCHANGED <<uploads, opVars, netVars, job, binVars, rowVars, faults>>

\* The disk is full: the entry is the old one, and the file is not.
StoreFails ==
  /\ dl.pc = "write"
  /\ Fault
  /\ dl' = NoStore
  /\ UNCHANGED <<files, entries, index, uploads, opVars, netVars, job, binVars, rowVars>>

\* A failure to write the index is ignored.
SaveIndex ==
  /\ dl.pc = "index"
  /\ \/ index' = entries /\ UNCHANGED faults
     \/ index' = Torn /\ Fault
  /\ dl' = NoStore
  /\ UNCHANGED <<files, entries, uploads, opVars, netVars, job, binVars, rowVars>>

Latest == {v \in Known : entries[v].at = LastAt}

-----------------------------------------------------------------------------
(* Requests: HandleUpdateAgent, HandleUpdateAll, HandleRestartAgent *)

Ask(q) ==
  /\ req[q].pc = "new"
  /\ \/ \E s \in Servers, want \in Versions \cup {None}, kind \in {"update", "restart"} :
          /\ kind = "restart" => want = None
          /\ req' = [req EXCEPT ![q] = [NoReq EXCEPT !.kind = kind, !.pc = "next",
                                                     !.want = want, !.todo = <<s>>]]
     \/ \E want \in Versions \cup {None} :
          req' = [req EXCEPT ![q] = [NoReq EXCEPT !.kind = "update", !.pc = "next",
                                       !.want = want, !.todo = SetToSeq(Servers)]]
  /\ UNCHANGED <<storeVars, told, tokens, netVars, job, binVars, rowVars, faults>>

Now(q) == Head(req[q].todo)
Ended == [NoReq EXCEPT !.pc = "end"]

\* Bug for TypeOK: the loop over the servers runs once more than there are servers.
Rest_OnceMore(q) == [NoReq EXCEPT !.kind = req[q].kind, !.want = req[q].want,
                                  !.todo = Tail(req[q].todo), !.pc = "next"]
Rest(q) == IF Len(req[q].todo) = 1 THEN Ended
           ELSE [NoReq EXCEPT !.kind = req[q].kind, !.want = req[q].want,
                              !.todo = Tail(req[q].todo), !.pc = "next"]
Report(q, what) ==
  /\ told' = [told EXCEPT ![<<q, Now(q)>>] = what]
  /\ req' = [req EXCEPT ![q] = Rest(q)]

\* The entry is taken under the lock ...
GetBinary(q) ==
  /\ req[q].pc = "next"
  /\ IF ~link[Now(q)] THEN Report(q, "failed")
     ELSE IF req[q].kind = "restart" THEN req' = [req EXCEPT ![q].pc = "send"] /\ told' = told
     ELSE /\ ~Locked
          /\ LET found == IF req[q].want = None THEN Latest ELSE {req[q].want} \cap Known IN
             IF found = {} THEN Report(q, "failed")
             ELSE \E v \in found :
                    /\ req' = [req EXCEPT ![q].pc = "read", ![q].ver = v, ![q].sum = entries[v].sum,
                         ![q].want = IF Len(req[q].todo) = 1 THEN None ELSE @]
                    /\ told' = told
  /\ UNCHANGED <<storeVars, tokens, netVars, job, binVars, rowVars, faults>>

\* ... and the file read after it has been released.
ReadFile(q) ==
  /\ req[q].pc = "read"
  /\ req' = [req EXCEPT ![q].pc = "send", ![q].data = files[req[q].ver]]
  /\ UNCHANGED <<storeVars, told, tokens, netVars, job, binVars, rowVars, faults>>

Updating(s) == \E q \in Reqs : job[<<q, s>>].kind = "update" /\ job[<<q, s>>].pc \notin {"none", "gone"}

\* An agent that has said it can is sent a token for one download, and any
\* other the binary itself; then SendCommand waits.
Send(q) ==
  LET s == Now(q) IN
  /\ req[q].pc = "send"
  /\ IF ~link[s] THEN Report(q, "failed") /\ UNCHANGED <<job, tokens, overlapped>>
     ELSE /\ req' = [req EXCEPT ![q].pc = "wait", ![q].data = None,
                                          ![q].ver = None, ![q].sum = None]
          /\ told' = told
          /\ job' = [job EXCEPT ![<<q, s>>] =
               [NoJob EXCEPT !.kind = req[q].kind, !.pc = "sent", !.sum = req[q].sum, !.heard = TRUE,
                             !.ver  = IF cap[s] THEN req[q].ver ELSE None,
                             !.data = IF cap[s] THEN None ELSE req[q].data]]
          /\ tokens' = IF req[q].kind = "update" /\ cap[s] THEN tokens \cup {<<q, s>>} ELSE tokens
          /\ overlapped' = IF req[q].kind = "update" /\ Updating(s) THEN overlapped \cup {s}
                           ELSE overlapped
  /\ UNCHANGED <<storeVars, netVars, exe, tmp, backup, running, busy, installed, rowVars, faults>>

Waiting(j) == req[j[1]].pc = "wait" /\ Now(j[1]) = j[2]

\* The result comes in.  If the request has given up it is only logged.
HandleResult(j) ==
  /\ job[j].res = "writing"
  /\ IF Waiting(j) THEN Report(j[1], IF job[j].ok THEN "ok" ELSE "failed")
     ELSE UNCHANGED <<req, told>>
  /\ job' = [job EXCEPT ![j].res = "none"]
  /\ UNCHANGED <<storeVars, tokens, netVars, binVars, rowVars, faults>>

\* Nothing came in ten minutes, or in ten seconds for a restart.
TimesOut(q) ==
  /\ req[q].pc = "wait"
  /\ Report(q, "failed")
  /\ UNCHANGED <<storeVars, tokens, netVars, job, binVars, rowVars, faults>>

-----------------------------------------------------------------------------
(* The agent: each command runs in a goroutine of its own *)

Step(j, from, to) == job[j].pc = from /\ job' = [job EXCEPT ![j].pc = to]
Fails(j) == job' = [job EXCEPT ![j].pc = "result", ![j].ver = None, ![j].data = None,
                              ![j].hand = "none"]

\* The command is read from the connection.
Receive(j) ==
  /\ job[j].heard
  /\ Step(j, "sent", IF job[j].kind = "restart" THEN "restart"
                     ELSE IF j \in tokens THEN "fetch" ELSE "verify")
  /\ UNCHANGED <<storeVars, opVars, netVars, binVars, rowVars, faults>>

\* HandleAgentBinary takes the token away, looks at the server's row and at
\* the entry as it is by now; GetBinaryVersion reads the file afterwards.  Or
\* the request fails, on its way there or back.
Download(j) ==
  /\ job[j].pc = "fetch"
  /\ \/ /\ ~Locked /\ j \in tokens /\ job[j].ver \in Known
        /\ job' = [job EXCEPT ![j].pc = "serve"]
        /\ tokens' = tokens \ {j}
     \/ Fails(j) /\ tokens' \in {tokens, tokens \ {j}}
  /\ UNCHANGED <<storeVars, req, told, netVars, binVars, rowVars, faults>>

Serve(j) ==
  /\ job[j].pc = "serve"
  /\ \/ job' = [job EXCEPT ![j].pc = "verify", ![j].data = files[job[j].ver], ![j].ver = None]
     \/ Fails(j)
  /\ UNCHANGED <<storeVars, opVars, netVars, binVars, rowVars, faults>>

\* Bug for SoundExecutable: what was downloaded is installed unseen.
Verify_Trusts(j) ==
  /\ job[j].pc = "verify"
  /\ job' = [job EXCEPT ![j].pc = "write"]
  /\ backup' = [backup EXCEPT ![j[2]] = exe[j[2]]]
  /\ UNCHANGED <<storeVars, opVars, netVars, exe, tmp, running, busy, installed, overlapped, rowVars, faults>>

\* VerifyAndReplaceBinary: the checksum, and a copy of the present binary.
Verify(j) ==
  /\ job[j].pc = "verify"
  /\ \/ /\ job[j].data = job[j].sum
        /\ job' = [job EXCEPT ![j].pc = "write"]
        /\ backup' = [backup EXCEPT ![j[2]] = exe[j[2]]]
     \/ Fails(j) /\ backup' = backup
  /\ UNCHANGED <<storeVars, opVars, netVars, exe, tmp, running, busy, installed, overlapped, rowVars, faults>>

\* The new binary goes to a file beside it, the same for every command ...
OpenTmp(j) ==
  /\ job[j].pc = "write"
  /\ tmp' = [tmp EXCEPT ![j[2]] = Torn]
  /\ job' = [job EXCEPT ![j].pc = "writing", ![j].hand = "tmp"]
  /\ UNCHANGED <<storeVars, opVars, netVars, exe, backup, running, busy, installed, overlapped, rowVars, faults>>

\* ... which another command may have moved or truncated by the time it ends.
WriteTmp(j) ==
  LET s == j[2] IN
  /\ job[j].pc = "writing"
  /\ \/ /\ job' = [job EXCEPT ![j].pc = "rename", ![j].hand = "none"]
        /\ tmp' = IF job[j].hand = "tmp" THEN [tmp EXCEPT ![s] = job[j].data] ELSE tmp
        /\ exe' = IF job[j].hand = "exe" THEN [exe EXCEPT ![s] = job[j].data] ELSE exe
     \/ /\ job' = [job EXCEPT ![j].pc = "undo", ![j].hand = "none"]
        /\ UNCHANGED <<tmp, exe>>
  /\ UNCHANGED <<storeVars, opVars, netVars, backup, running, busy, installed, overlapped, rowVars, faults>>

\* Bug for NoFalseSuccess: an update ends well if the binary was moved or not.
Rename_OkAnyway(j) ==
  LET s == j[2] IN
  /\ job[j].pc = "rename"
  /\ tmp' = [tmp EXCEPT ![s] = None]
  /\ \/ /\ tmp[s] # None
        /\ exe' = [exe EXCEPT ![s] = tmp[s]] /\ busy' = [busy EXCEPT ![s] = FALSE]
        /\ installed' = [installed EXCEPT ![s] = @ \cup {tmp[s]}]
        /\ job' = [i \in Jobs |->
             IF i = j THEN [job[j] EXCEPT !.pc = "result", !.data = None, !.ok = TRUE]
             ELSE IF i[2] = s /\ job[i].hand = "tmp" THEN [job[i] EXCEPT !.hand = "exe"]
             ELSE job[i]]
     \/ /\ job' = [i \in Jobs |->
             IF i = j THEN [job[j] EXCEPT !.pc = "result", !.data = None, !.ok = TRUE]
             ELSE IF i[2] = s /\ job[i].hand = "tmp" THEN [job[i] EXCEPT !.hand = "lost"]
             ELSE job[i]]
        /\ UNCHANGED <<exe, busy, installed>>
  /\ UNCHANGED <<storeVars, opVars, netVars, backup, running, overlapped, rowVars, faults>>

\* A file written to its end is moved to the path of the executable, whoever
\* holds it open.  What cannot be moved is removed.
Rename(j) ==
  LET s == j[2] IN
  /\ job[j].pc = "rename"
  /\ tmp' = [tmp EXCEPT ![s] = None]
  /\ \/ /\ tmp[s] # None
        /\ exe' = [exe EXCEPT ![s] = tmp[s]] /\ busy' = [busy EXCEPT ![s] = FALSE]
        /\ installed' = [installed EXCEPT ![s] = @ \cup {tmp[s]}]
        /\ job' = [i \in Jobs |->
             IF i = j THEN [job[j] EXCEPT !.pc = "result", !.data = None, !.ok = TRUE]
             ELSE IF i[2] = s /\ job[i].hand = "tmp" THEN [job[i] EXCEPT !.hand = "exe"]
             ELSE job[i]]
     \/ /\ job' = [i \in Jobs |->
             IF i = j THEN [job[j] EXCEPT !.pc = "undo"]
             ELSE IF i[2] = s /\ job[i].hand = "tmp" THEN [job[i] EXCEPT !.hand = "lost"]
             ELSE job[i]]
        /\ UNCHANGED <<exe, busy, installed>>
  /\ UNCHANGED <<storeVars, opVars, netVars, backup, running, overlapped, rowVars, faults>>

\* RollbackBinary writes the copy over the executable, in place.  That is
\* refused as long as the file is the one that runs.
OpenExe(j) ==
  LET s == j[2] IN
  /\ job[j].pc = "undo"
  /\ IF busy[s] THEN Fails(j) /\ exe' = exe
     ELSE /\ job' = [job EXCEPT ![j].pc = "undoing"]
          /\ exe' = [exe EXCEPT ![s] = Torn]
  /\ UNCHANGED <<storeVars, opVars, netVars, tmp, backup, running, busy, installed, overlapped, rowVars, faults>>

Undo(j) ==
  /\ job[j].pc = "undoing"
  /\ Fails(j)
  /\ exe' = [exe EXCEPT ![j[2]] = backup[j[2]]]
  /\ UNCHANGED <<storeVars, opVars, netVars, tmp, backup, running, busy, installed, overlapped, rowVars, faults>>

RestartCommand(j) ==
  /\ job[j].pc = "restart"
  /\ job' = [job EXCEPT ![j].pc = "result", ![j].ok = TRUE]
  /\ UNCHANGED <<storeVars, opVars, netVars, binVars, rowVars, faults>>

\* The result is for the connection the command came on, and is lost with it.
Result(j) ==
  /\ job[j].pc = "result"
  /\ job' = [job EXCEPT ![j].pc = IF job[j].ok THEN "drain" ELSE "gone",
                        ![j].res = IF job[j].heard THEN "queued" ELSE "none"]
  /\ UNCHANGED <<storeVars, opVars, netVars, binVars, rowVars, faults>>

\* The writer takes the result from the queue, which is empty from then on.
WriteResult(j) ==
  /\ job[j].res = "queued"
  /\ job' = [job EXCEPT ![j].res = "writing"]
  /\ UNCHANGED <<storeVars, opVars, netVars, binVars, rowVars, faults>>

-----------------------------------------------------------------------------
(* Connections, restarts and deaths *)

Lost(jobs) == [j \in Jobs |->
  IF j \in jobs THEN [job[j] EXCEPT !.heard = FALSE, !.res = "none",
                                    !.pc = IF @ = "sent" THEN "gone" ELSE @]
  ELSE job[j]]
Killed(jobs) == [j \in Jobs |->
  IF j \in jobs /\ job[j].pc # "none"
  THEN [NoJob EXCEPT !.kind = job[j].kind, !.sum = job[j].sum, !.pc = "gone"] ELSE job[j]]
At(s) == {j \in Jobs : j[2] = s}

Offline(servers) ==
  /\ link' = [s \in Servers |-> link[s] /\ s \notin servers]
  /\ cap' = [s \in Servers |-> cap[s] /\ s \notin servers]
Unsaid(servers) == [s \in Servers |->
  IF s \in servers THEN None ELSE info[s]]

\* What is executed is what lies at the path by then.  A torn file does not
\* start, neither now nor when a supervisor tries again.
Replaced(s) ==
  /\ running' = [running EXCEPT ![s] = exe[s]]
  /\ busy' = [busy EXCEPT ![s] = TRUE]
  /\ job' = Killed(At(s))
  /\ Offline({s})
  /\ info' = Unsaid({s})
  /\ UNCHANGED <<storeVars, opVars, exe, tmp, backup, installed, overlapped, row, signed>>

\* drainBeforeRestart, then restartAgent: when the queue is empty, or after
\* three seconds; either way the result may still be on its way.
Restart(j) ==
  /\ job[j].pc = "drain" /\ running[j[2]] # Torn
  /\ Replaced(j[2])
  /\ UNCHANGED faults

Crash(s) ==
  /\ Fault
  /\ Replaced(s)

\* The agent sends agent.info first.  Once it has connected signed it may not
\* do so unsigned.
Connect(s) ==
  /\ ~link[s] /\ running[s] # Torn
  /\ running[s] \in Legacy => s \notin signed
  /\ link' = [link EXCEPT ![s] = TRUE]
  /\ signed' = IF running[s] \in Legacy THEN signed ELSE signed \cup {s}
  /\ info' = [info EXCEPT ![s] = running[s]]
  /\ UNCHANGED <<storeVars, opVars, cap, job, binVars, row, faults>>

Drop(s) ==
  /\ link[s]
  /\ Fault
  /\ Offline({s})
  /\ job' = Lost(At(s))
  /\ info' = Unsaid({s})
  /\ UNCHANGED <<storeVars, opVars, binVars, row, signed>>

\* The dashboard dies and is started again: of the binaries it knows what the
\* index says, and of requests and tokens nothing.
DashboardRestarts ==
  /\ Fault
  /\ entries' = IF index = Torn THEN [v \in Versions |-> None] ELSE index
  /\ dl' = NoStore /\ tokens' = {}
  /\ req' = [q \in Reqs |-> IF req[q].pc = "new" THEN NoReq ELSE Ended]
  /\ Offline(Servers) /\ job' = Lost(Jobs)
  /\ info' = Unsaid(Servers)
  /\ UNCHANGED <<files, index, uploads, told, binVars, row, signed>>

-----------------------------------------------------------------------------
(* The rows of the servers *)

\* handleAgentInfo records the version, and what the agent can do.
AgentInfo(s) ==
  /\ info[s] # None
  /\ row' = [row EXCEPT ![s] = info[s]]
  /\ cap' = [cap EXCEPT ![s] = TRUE]
  /\ info' = [info EXCEPT ![s] = None]
  /\ UNCHANGED <<storeVars, opVars, link, job, binVars, signed, faults>>

-----------------------------------------------------------------------------
Store ==
  \/ Upload \/ DownloadFromRelease \/ DownloadReleaseAuto \/ DownloadCustom
  \/ StoreFile \/ StoreFails \/ SaveIndex
Request(q) == Ask(q) \/ GetBinary(q) \/ ReadFile(q) \/ Send(q) \/ TimesOut(q)
Command(j) ==
  \/ Receive(j) \/ Download(j) \/ Serve(j) \/ Verify(j) \/ OpenTmp(j) \/ WriteTmp(j)
  \/ Rename(j) \/ OpenExe(j) \/ Undo(j) \/ RestartCommand(j) \/ Result(j) \/ WriteResult(j)
  \/ HandleResult(j) \/ Restart(j)
Agent(s) == Crash(s) \/ Connect(s) \/ Drop(s) \/ AgentInfo(s)

Next ==
  \/ Store \/ DashboardRestarts
  \/ \E q \in Reqs : Request(q)
  \/ \E j \in Jobs : Command(j)
  \/ \E s \in Servers : Agent(s)

Spec == Init /\ [][Next]_vars

-----------------------------------------------------------------------------
(* Properties *)

Contents == Builds \cup {Torn}
Entries == [Versions -> [sum : Builds, at : 0..MaxUploads] \cup {None}]

TypeOK ==
  /\ files \in [Versions -> Contents \cup {None}]
  /\ entries \in Entries /\ (index = Torn \/ index \in Entries)
  /\ dl.pc \in {"idle", "write", "index"} /\ dl.data \in Builds \cup {None}
  /\ \A v \in Known : files[v] # None
  /\ \A q \in Reqs : /\ req[q].pc \in {"new", "next", "read", "send", "wait", "end"}
                     /\ req[q].todo = <<>> <=> req[q].pc \in {"new", "end"}
                     /\ req[q].data \in Contents \cup {None}
  /\ told \in [Jobs -> {"none", "ok", "failed"}]
  /\ tokens \subseteq {j \in Jobs : job[j].kind = "update"}
  /\ link \in [Servers -> BOOLEAN] /\ cap \in [Servers -> BOOLEAN]
  /\ \A j \in Jobs :
       /\ job[j].kind \in {"none", "update", "restart"}
       /\ job[j].pc \in {"none", "sent", "fetch", "serve", "verify", "write", "writing", "rename",
                         "undo", "undoing", "restart", "result", "drain", "gone"}
       /\ job[j].hand \in {"none", "tmp", "exe", "lost"}
       /\ job[j].res \in {"none", "queued", "writing"}
       /\ job[j].data \in Contents \cup {None}
  /\ exe \in [Servers -> Contents] /\ running \in [Servers -> Contents]
  /\ tmp \in [Servers -> Contents \cup {None}] /\ backup \in [Servers -> Contents \cup {None}]
  /\ row \in [Servers -> Builds \cup {None}]
  /\ signed \subseteq Servers

\* Wherever the agent, its host or the dashboard is cut off, what lies at the
\* path of the agent's executable is a whole binary, and it is the one it was
\* installed with or one that a command to this server announced with this
\* checksum, as long as the agent was given one update after the other -
\* although the binaries are replaced while they are read (update_store.go:103)
\* and are fetched long after they were announced (updater.go:62-66).
Announced(s) == {Origin} \cup {job[j].sum : j \in {i \in At(s) : job[i].kind = "update"}}
SoundExecutable == \A s \in Servers \ overlapped : exe[s] \in Announced(s)

\* An update that is reported as done has been: the binary it announced has
\* been the agent's, whatever connection, restart or request came in between
\* (update.go:262-281).
NoFalseSuccess ==
  \A j \in Jobs : told[j] = "ok" /\ job[j].kind = "update" /\ j[2] \notin overlapped
    => job[j].sum \in installed[j[2]]

\* "Atomic replace (rename)" (updater.go:67): the executable is always whole.
AtomicReplace == \A s \in Servers : exe[s] # Torn
=============================================================================
