------------------------------ MODULE NodeHost ------------------------------
(***************************************************************************)
(* One server with its Docker daemon and node data directories, and the    *)
(* commands an agent runs on them (internal/agent/executor.go,             *)
(* docker_ops.go, docker.go, db_restore.go, db_reset.go,                   *)
(* image_cleanup.go).  The agent gives each command a goroutine and no     *)
(* lock: commands interleave between any two requests to Docker and any    *)
(* two operations on files.                                                *)
(*                                                                         *)
(* A node is a container name, with the data directory mounted into it.    *)
(* The daemon answers a request at once; it may refuse one that it could   *)
(* have granted, or grant one whose answer is lost, within a budget of     *)
(* faults that other failures draw on too.                                 *)
(***************************************************************************)
EXTENDS Naturals, FiniteSets

CONSTANTS
  Nodes,      \* container names
  Jobs,       \* executions of a command, each used once
  Kinds,      \* the commands the dashboard sends
  Tags,       \* image tags
  Tag0,       \* the tag the nodes run at first
  NoJob,      \* whoever created the first containers
  Exclusive,  \* whether the operator waits for the end of a node's command
              \* before giving the next; nothing in the code does
  MaxFaults,  \* bound: requests, downloads and file operations that fail,
              \* and commands that run out of time
  MaxDeaths   \* bound: deaths of the agent

AllKinds == {"start", "stop", "restart", "remove", "create", "upgrade",
             "restore", "reset", "prune"}

ASSUME HostAssumption ==
  /\ Nodes # {}
  /\ Kinds \subseteq AllKinds
  /\ Tag0 \in Tags
  /\ NoJob \notin Jobs
  /\ Exclusive \in BOOLEAN
  /\ MaxFaults \in Nat /\ MaxDeaths \in Nat

VARIABLES
  box,     \* a node's container, as Docker has it
  images,  \* the tags of the images on the server
  files,   \* a node's directories db and db.old
  job,     \* what each execution is, how far it got and what it remembers
  late,    \* executions whose context has expired
  faults,  \* faults so far
  deaths   \* deaths so far

vars == <<box, images, files, job, late, faults, deaths>>

NoBox == [id |-> <<NoJob, "none">>, tag |-> Tag0, fast |-> FALSE, up |-> FALSE]
Box == [id : (Jobs \X {"new", "back"}) \cup {<<NoJob, "first">>},
        tag : Tags, fast : BOOLEAN, up : BOOLEAN]

\* A directory: what it holds, and the executions extracting into it.
Dir(is) == [is |-> is, writers |-> {}]
HasData(d) == d.is \in {"live", "part", "snap"}
Complete(d) == d.is \in {"live", "snap"}

Idle == [kind |-> "none", node |-> CHOOSE n \in Nodes : TRUE, tag |-> Tag0,
         pc |-> "idle", old |-> Tag0, keep |-> FALSE, had |-> FALSE]

Over == {"done", "failed", "lost"}
Running(j) == job[j].pc \notin Over \cup {"idle"}

Init ==
  /\ \E flags \in [Nodes -> BOOLEAN] :
       box = [n \in Nodes |-> [id |-> <<NoJob, "first">>, tag |-> Tag0,
                               fast |-> flags[n], up |-> TRUE]]
  /\ images = {Tag0}
  /\ files = [n \in Nodes |-> [db |-> Dir("live"), old |-> Dir("none")]]
  /\ job = [j \in Jobs |-> Idle]
  /\ late = {}
  /\ faults = 0
  /\ deaths = 0

-----------------------------------------------------------------------------
(* The steps commands are made of *)

At(j, pcs) == job[j].pc \in pcs
To(j, pc) == [job[j] EXCEPT !.pc = pc]
Goto(j, pc) == job' = [job EXCEPT ![j] = To(j, pc)]
Mine(j) == box[job[j].node]
Db(j)  == files[job[j].node].db
Old(j) == files[job[j].node].old

Fault == faults < MaxFaults /\ faults' = faults + 1

\* A request to Docker about the job's node that the daemon can grant or not,
\* the container after it, and the job's record when it returns nil or an error.
Docker(j, can, after, good, bad) ==
  LET n == job[j].node
  IN /\ \/ /\ can /\ j \notin late
           /\ box' = [box EXCEPT ![n] = after]
           /\ job' = [job EXCEPT ![j] = good]
           /\ UNCHANGED faults
        \/ /\ ~can \/ j \in late
           /\ job' = [job EXCEPT ![j] = bad]
           /\ UNCHANGED <<box, faults>>
        \/ /\ can /\ j \notin late
           /\ Fault
           /\ box' = box \/ box' = [box EXCEPT ![n] = after]
           /\ job' = [job EXCEPT ![j] = bad]
     /\ UNCHANGED <<images, files, late, deaths>>

\* An operation on the node's directories: it is done, or fails and leaves
\* something else behind.
Disk(j, after, good, partial, bad) ==
  LET n == job[j].node
  IN /\ \/ /\ files' = [files EXCEPT ![n] = after]
           /\ Goto(j, good)
           /\ UNCHANGED faults
        \/ /\ Fault
           /\ files' = [files EXCEPT ![n] = partial]
           /\ Goto(j, bad)
     /\ UNCHANGED <<box, images, late, deaths>>

Exists(n) == box[n] # NoBox

\* Execute: a command arrives and starts.  The dashboard sends it for a node
\* it knows of.
First(kind) ==
  CASE kind = "remove"  -> "unload"
    [] kind = "create"  -> "pull"
    [] kind = "upgrade" -> "inspect"
    [] kind = "restore" -> "preflight"
    [] kind = "reset"   -> "stop"
    [] kind = "prune"   -> "list"
    [] OTHER            -> kind

Begin(j) ==
  /\ job[j].pc = "idle"
  /\ \E kind \in Kinds, n \in Nodes, t \in Tags :
       /\ Exclusive /\ kind # "prune" =>
            \A i \in Jobs : Running(i) /\ job[i].kind # "prune" => job[i].node # n
       /\ kind \notin {"create", "upgrade", "prune"} => t = Tag0
       /\ job' = [job EXCEPT ![j] = [Idle EXCEPT !.kind = kind, !.node = n,
                                                 !.tag = t, !.pc = First(kind)]]
  /\ UNCHANGED <<box, images, files, late, faults, deaths>>

\* StartContainer by name: node.start.
Start(j) ==
  /\ At(j, {"start"})
  /\ Docker(j, Exists(job[j].node), [Mine(j) EXCEPT !.up = TRUE],
            To(j, "done"), To(j, "failed"))

Restart(j) ==
  /\ At(j, {"restart"})
  /\ Docker(j, Exists(job[j].node), [Mine(j) EXCEPT !.up = TRUE],
            To(j, "done"), To(j, "failed"))

\* StopContainer.  An upgrade ignores its error.
Stopped(kind) == CASE kind = "stop"    -> "done"
                   [] kind = "upgrade" -> "unload"
                   [] kind = "restore" -> "clearold"
                   [] kind = "reset"   -> "clear"

\* Bug for QuietDB: a node that does not stop is not left alone.
Stop_IgnoresErrors(j) ==
  /\ At(j, {"stop"})
  /\ LET next == To(j, Stopped(job[j].kind))
     IN Docker(j, Exists(job[j].node), [Mine(j) EXCEPT !.up = FALSE], next, next)

Stop(j) ==
  /\ At(j, {"stop"})
  /\ Docker(j, Exists(job[j].node), [Mine(j) EXCEPT !.up = FALSE],
            To(j, Stopped(job[j].kind)),
            To(j, IF job[j].kind = "upgrade" THEN "unload" ELSE "failed"))

\* Bug for TypeOK: the whole name of the image is taken for its tag.
Inspect_WholeName(j) ==
  /\ At(j, {"inspect"})
  /\ Docker(j, Exists(job[j].node), Mine(j),
            [job[j] EXCEPT !.old = <<"image", Mine(j).tag>>,
                           !.pc = IF job[j].kind = "upgrade" THEN "pull" ELSE "unload"],
            To(j, "failed"))

\* InspectContainer and parseContainerToNode: all that is remembered of the
\* container is its tag; whether it has --start-in-epoch is not.
Inspect(j) ==
  /\ At(j, {"inspect"})
  /\ Docker(j, Exists(job[j].node), Mine(j),
            [job[j] EXCEPT !.old = Mine(j).tag,
                           !.pc = IF job[j].kind = "upgrade" THEN "pull" ELSE "unload"],
            To(j, "failed"))

\* PullImage reads the daemon's progress to its end without looking at it, so
\* that a pull that fails on the way counts as done.
Pull(j) ==
  /\ At(j, {"pull"})
  /\ \/ /\ j \notin late
        /\ images' = images \cup {job[j].tag}
        /\ Goto(j, IF job[j].kind = "create" THEN "create" ELSE "stop")
        /\ UNCHANGED faults
     \/ /\ j \notin late
        /\ Fault
        /\ UNCHANGED images
        /\ Goto(j, IF job[j].kind = "create" THEN "create" ELSE "stop")
     \/ /\ (j \in late /\ UNCHANGED faults) \/ Fault
        /\ UNCHANGED images
        /\ Goto(j, "failed")
  /\ UNCHANGED <<box, files, late, deaths>>

\* RemoveContainer first stops the container, whatever comes of it ...
Unload(j) ==
  /\ At(j, {"unload", "discard"})
  /\ LET next == To(j, IF At(j, {"unload"}) THEN "delete" ELSE "discard2")
     IN Docker(j, Exists(job[j].node), [Mine(j) EXCEPT !.up = FALSE], next, next)

\* ... and then deletes it: one that is not there is no error, one that is up
\* again is, unless the deletion is forced.
Deleted(j) == IF job[j].kind = "remove" THEN "done" ELSE "create"

Delete(j) ==
  /\ At(j, {"delete"})
  /\ Docker(j, Mine(j).up => job[j].kind = "remove", NoBox,
            To(j, Deleted(j)),
            To(j, IF job[j].kind = "upgrade" THEN "back" ELSE "failed"))

\* Bug for NodeSurvives: what an upgrade could not verify is removed, and
\* nothing put in its place.
Discard_NoRollback(j) ==
  /\ At(j, {"discard2"})
  /\ Docker(j, TRUE, NoBox, To(j, "failed"), To(j, "failed"))

\* The forced removal before a rollback, its error ignored.
Discard(j) ==
  /\ At(j, {"discard2"})
  /\ Docker(j, TRUE, NoBox, To(j, "back"), To(j, "back"))

\* CreateContainer with the tag asked for or, to recreate it, the one the
\* container had.
NewBox(j) ==
  [id |-> <<j, "new">>,
   tag |-> IF job[j].kind \in {"create", "upgrade"} THEN job[j].tag ELSE job[j].old,
   fast |-> job[j].kind = "reset", up |-> FALSE]

CanCreate(j, b) == ~Exists(job[j].node) /\ b.tag \in images

\* Bug for UpgradeKeepsNode: a container that cannot be created is not
\* replaced by the old one.
Create_NoRollback(j) ==
  /\ At(j, {"create"})
  /\ Docker(j, CanCreate(j, NewBox(j)), NewBox(j), To(j, "run"), To(j, "failed"))

Create(j) ==
  /\ At(j, {"create"})
  /\ Docker(j, CanCreate(j, NewBox(j)), NewBox(j), To(j, "run"),
            To(j, IF job[j].kind = "upgrade" THEN "back" ELSE "failed"))

\* StartContainer on what was created, by its ID or by the node's name.
ById(kind) == kind \in {"create", "upgrade"}

\* Bug for Truthful: a container that does not start is no error.
Run_IgnoresErrors(j) ==
  /\ At(j, {"run"})
  /\ LET next == To(j, CASE job[j].kind = "upgrade" -> "verify"
                         [] job[j].kind = "restore" -> "drop"
                         [] OTHER                   -> "done")
     IN Docker(j, Exists(job[j].node), [Mine(j) EXCEPT !.up = TRUE], next, next)

Run(j) ==
  /\ At(j, {"run"})
  /\ Docker(j, IF ById(job[j].kind) THEN Mine(j).id = <<j, "new">>
                                    ELSE Exists(job[j].node),
            [Mine(j) EXCEPT !.up = TRUE],
            To(j, CASE job[j].kind = "upgrade" -> "verify"
                    [] job[j].kind = "restore" -> "drop"
                    [] OTHER                   -> "done"),
            To(j, IF job[j].kind = "upgrade" THEN "discard" ELSE "failed"))

\* The upgrade is done once a container of the node's name is seen up ...
Verify(j) ==
  /\ At(j, {"verify"}) /\ j \notin late
  /\ Mine(j).up
  /\ Goto(j, "done")
  /\ UNCHANGED <<box, images, files, late, faults, deaths>>

\* ... and undone when none has been for thirty seconds, or Docker has not
\* said so.
GiveUp(j) ==
  /\ At(j, {"verify"})
  /\ \/ (~Mine(j).up \/ j \in late) /\ UNCHANGED faults
     \/ (Mine(j).up /\ j \notin late) /\ Fault
  /\ Goto(j, "discard")
  /\ UNCHANGED <<box, images, files, late, deaths>>

\* rollback: a container with the old tag, in the same context.
OldBox(j) == [id |-> <<j, "back">>, tag |-> job[j].old, fast |-> FALSE, up |-> FALSE]

Rollback(j) ==
  /\ At(j, {"back"})
  /\ Docker(j, CanCreate(j, OldBox(j)), OldBox(j), To(j, "rerun"), To(j, "failed"))

RunOld(j) ==
  /\ At(j, {"rerun"})
  /\ Docker(j, Mine(j).id = <<j, "back">>, [Mine(j) EXCEPT !.up = TRUE],
            To(j, "failed"), To(j, "failed"))

-----------------------------------------------------------------------------
(* RestoreDB *)

\* The archive's size and the free space: too little, enough, or enough to
\* keep the old DB aside too.
Preflight(j) ==
  /\ At(j, {"preflight"})
  /\ \/ /\ j \notin late
        /\ \E keep \in BOOLEAN :
             job' = [job EXCEPT ![j] = [@ EXCEPT !.keep = keep, !.had = HasData(Db(j)),
                                                 !.pc = "stop"]]
     \/ Goto(j, "failed")
  /\ UNCHANGED <<box, images, files, late, faults, deaths>>

Moving(j) == job[j].keep /\ job[j].had
Undoing(j) == IF Moving(j) THEN "undo" ELSE "resume"

\* What an earlier run left in db.old goes, an error ignored.
ClearOld(j) ==
  /\ At(j, {"clearold"})
  /\ LET next == IF job[j].had THEN "rotate" ELSE "mkdir"
     IN Disk(j, [db |-> Db(j), old |-> Dir("none")], next,
                [db |-> Db(j), old |-> IF HasData(Old(j)) THEN Dir("part") ELSE Old(j)],
                next)

\* The old DB is moved aside, or deleted if there is no room for both.
Rotate(j) ==
  /\ At(j, {"rotate"})
  /\ \/ /\ job[j].keep
        /\ Db(j).is # "none" /\ Old(j).is \in {"none", "empty"}
        /\ Disk(j, [db |-> Dir("none"), old |-> Db(j)], "mkdir",
                   files[job[j].node], "resume")
     \/ /\ job[j].keep
        /\ Db(j).is = "none" \/ Old(j).is \notin {"none", "empty"}
        /\ Goto(j, "resume")
        /\ UNCHANGED <<box, images, files, late, faults, deaths>>
     \/ /\ ~job[j].keep
        /\ Disk(j, [db |-> Dir("none"), old |-> Old(j)], "mkdir",
                   [db |-> Dir("part"), old |-> Old(j)], "resume")

MadeDb(d) == IF d.is = "none" THEN Dir("empty") ELSE d

MakeDir(j) ==
  /\ At(j, {"mkdir"})
  /\ Disk(j, [db |-> MadeDb(Db(j)), old |-> Old(j)],
             IF job[j].kind = "restore" THEN "download" ELSE "inspect",
             files[job[j].node],
             IF job[j].kind = "reset" THEN "failed" ELSE Undoing(j))

\* Bug for CompleteCopyAlive: the old DB makes room for the new one.
Extract_DropsOld(j) ==
  /\ At(j, {"download"}) /\ j \notin late
  /\ files' = [files EXCEPT ![job[j].node] =
                 [db |-> [is |-> "part", writers |-> @.db.writers \cup {j}],
                  old |-> Dir("none")]]
  /\ Goto(j, "extract")
  /\ UNCHANGED <<box, images, late, faults, deaths>>

\* downloadAndExtractDB: the first files of the archive ...
Extract(j) ==
  /\ At(j, {"download"}) /\ j \notin late
  /\ files' = [files EXCEPT ![job[j].node].db =
                 [is |-> "part", writers |-> @.writers \cup {j}]]
  /\ Goto(j, "extract")
  /\ UNCHANGED <<box, images, late, faults, deaths>>

\* ... and the last.  The DB is complete if nobody moved or cleared the
\* directory meanwhile and nobody else is still writing into it.
Extracted(j) ==
  /\ At(j, {"extract"}) /\ j \notin late
  /\ files' = [files EXCEPT ![job[j].node].db =
                 [is |-> IF @.writers = {j} THEN "snap" ELSE "part",
                  writers |-> @.writers \ {j}]]
  /\ Goto(j, "inspect")
  /\ UNCHANGED <<box, images, late, faults, deaths>>

\* Bug for NoDamagedStart: a failed download just starts the node again.
ExtractFails_NoUndo(j) ==
  /\ At(j, {"download", "extract"})
  /\ IF j \in late THEN UNCHANGED faults ELSE Fault
  /\ files' = [files EXCEPT ![job[j].node].db.writers = @ \ {j}]
  /\ Goto(j, "resume")
  /\ UNCHANGED <<box, images, late, deaths>>

\* The connection breaks, the archive is not what it should be, the disk is
\* full, or time is up.
ExtractFails(j) ==
  /\ At(j, {"download", "extract"})
  /\ IF j \in late THEN UNCHANGED faults ELSE Fault
  /\ files' = [files EXCEPT ![job[j].node].db.writers = @ \ {j}]
  /\ Goto(j, Undoing(j))
  /\ UNCHANGED <<box, images, late, deaths>>

\* rollbackOldDB: what was extracted goes ...
Undo(j) ==
  /\ At(j, {"undo"})
  /\ Disk(j, [db |-> Dir("none"), old |-> Old(j)], "putback",
             [db |-> IF HasData(Db(j)) THEN Dir("part") ELSE Db(j), old |-> Old(j)],
             "putback")

\* ... and the old DB comes back, errors ignored ...
PutBack(j) ==
  /\ At(j, {"putback"})
  /\ IF Old(j).is # "none" /\ Db(j).is \in {"none", "empty"}
     THEN Disk(j, [db |-> Old(j), old |-> Dir("none")], "resume",
                  files[job[j].node], "resume")
     ELSE /\ Goto(j, "resume")
          /\ UNCHANGED <<box, images, files, late, faults, deaths>>

\* ... and the node is started as it was.
Resume(j) ==
  /\ At(j, {"resume"})
  /\ Docker(j, Exists(job[j].node), [Mine(j) EXCEPT !.up = TRUE],
            To(j, "failed"), To(j, "failed"))

\* The end: the old DB is not needed any more.
Drop(j) ==
  /\ At(j, {"drop"})
  /\ IF Moving(j)
     THEN Disk(j, [db |-> Db(j), old |-> Dir("none")], "done",
                  [db |-> Db(j), old |-> Dir("part")], "done")
     ELSE /\ Goto(j, "done")
          /\ UNCHANGED <<box, images, files, late, faults, deaths>>

-----------------------------------------------------------------------------
(* ResetDBFastBootstrap, after the node is stopped *)

Clear(j) ==
  /\ At(j, {"clear"})
  /\ Disk(j, [db |-> IF Db(j).is = "none" THEN Db(j) ELSE Dir("empty"), old |-> Old(j)],
             "mkdir",
             [db |-> IF HasData(Db(j)) THEN Dir("part") ELSE Db(j), old |-> Old(j)],
             "failed")

-----------------------------------------------------------------------------
(* executeRemoveImages *)

InUse(t) == \E n \in Nodes : Exists(n) /\ box[n].tag = t

\* The agent looks which images are in use, and Docker looks again.
ListImages(j) ==
  /\ At(j, {"list"})
  /\ Goto(j, IF job[j].tag \in images /\ ~InUse(job[j].tag) /\ j \notin late
             THEN "untag" ELSE "failed")
  /\ UNCHANGED <<box, images, files, late, faults, deaths>>

RemoveImage(j) ==
  /\ At(j, {"untag"})
  /\ \/ /\ ~InUse(job[j].tag) /\ j \notin late
        /\ images' = images \ {job[j].tag}
        /\ Goto(j, "done")
     \/ /\ InUse(job[j].tag) \/ j \in late
        /\ Goto(j, "failed")
        /\ UNCHANGED images
  /\ UNCHANGED <<box, files, late, faults, deaths>>

-----------------------------------------------------------------------------
(* What goes on around the commands *)

\* The context of a command expires.
Expire(j) ==
  /\ Running(j) /\ j \notin late
  /\ Fault
  /\ late' = late \cup {j}
  /\ UNCHANGED <<box, images, files, job, deaths>>

\* The agent dies: its executions end where they are.
Die ==
  /\ deaths < MaxDeaths
  /\ deaths' = deaths + 1
  /\ \E j \in Jobs : Running(j)
  /\ job' = [j \in Jobs |-> IF Running(j) THEN To(j, "lost") ELSE job[j]]
  /\ files' = [n \in Nodes |->
                 [db  |-> [files[n].db  EXCEPT !.writers = {}],
                  old |-> [files[n].old EXCEPT !.writers = {}]]]
  /\ UNCHANGED <<box, images, late, faults>>

\* A node that runs without data fetches it.
Bootstrap(n) ==
  /\ box[n].up
  /\ files[n].db.is \in {"none", "empty"}
  /\ files' = [files EXCEPT ![n].db.is = "live"]
  /\ UNCHANGED <<box, images, job, late, faults, deaths>>

-----------------------------------------------------------------------------
DockerStep(j) == \/ Start(j) \/ Stop(j) \/ Restart(j) \/ Inspect(j) \/ Pull(j)
                 \/ Unload(j) \/ Delete(j) \/ Create(j) \/ Run(j)

UpgradeStep(j) == \/ Verify(j) \/ GiveUp(j) \/ Discard(j)
                  \/ Rollback(j) \/ RunOld(j)

RestoreStep(j) == \/ Preflight(j) \/ ClearOld(j) \/ Rotate(j) \/ MakeDir(j)
                  \/ Extract(j) \/ Extracted(j) \/ ExtractFails(j)
                  \/ Undo(j) \/ PutBack(j) \/ Resume(j) \/ Drop(j)

OtherStep(j) == Clear(j) \/ ListImages(j) \/ RemoveImage(j)

Next ==
  \/ \E j \in Jobs : \/ Begin(j) \/ Expire(j)
                     \/ DockerStep(j) \/ UpgradeStep(j)
                     \/ RestoreStep(j) \/ OtherStep(j)
  \/ \E n \in Nodes : Bootstrap(n)
  \/ Die

Spec == Init /\ [][Next]_vars

-----------------------------------------------------------------------------
(* Properties *)

DirOf == [is : {"none", "empty", "live", "part", "snap"}, writers : SUBSET Jobs]
Steps == {"idle", "start", "restart", "stop", "inspect", "pull", "unload",
          "delete", "create", "run", "verify", "discard", "discard2", "back",
          "rerun", "preflight", "clearold", "rotate", "mkdir", "download",
          "extract", "undo", "putback", "resume", "drop", "clear", "list",
          "untag"} \cup Over

TypeOK ==
  /\ box \in [Nodes -> Box \cup {NoBox}]
  /\ images \subseteq Tags
  /\ files \in [Nodes -> [db : DirOf, old : DirOf]]
  /\ job \in [Jobs -> [kind : AllKinds \cup {"none"}, node : Nodes, tag : Tags,
                       pc : Steps, old : Tags, keep : BOOLEAN, had : BOOLEAN]]
  /\ late \subseteq Jobs
  /\ faults \in 0..MaxFaults
  /\ deaths \in 0..MaxDeaths

\* "Stop the node so nothing is writing to the DB while we delete it"
\* (db_reset.go:52): while a restore or a reset works on a node's directories,
\* the node is not running.
AtFiles == {"clearold", "rotate", "mkdir", "download", "extract", "undo",
            "putback", "clear"}
QuietDB == \A j \in Jobs : At(j, AtFiles) => ~Mine(j).up

\* The executions about a node other than resets, and restores that found no
\* room to keep its DB.
OnlyKept(n) == \A j \in Jobs :
  job[j].node = n => /\ job[j].kind # "reset"
                     /\ job[j].kind = "restore" => job[j].keep \/ ~job[j].had

\* "On failure before the new DB is in place, the old DB is rolled back"
\* (db_restore.go:38): however many restores there are, the node's old DB or
\* a new one is there, complete.
CompleteCopy ==
  \A n \in Nodes :
    OnlyKept(n) => Complete(files[n].db) \/ Complete(files[n].old)

\* So it is as long as the agent lives and no two things fail.
CompleteCopyAlive == deaths = 0 /\ faults <= 1 => CompleteCopy

\* As long as the agent lives, a node that could keep its DB aside never runs
\* on one that is not complete, whatever single thing fails.
NoDamagedStart ==
  deaths = 0 /\ faults <= 1 =>
    \A n \in Nodes : OnlyKept(n) /\ box[n].up => files[n].db.is # "part"

\* What a command reports as done is done at that moment.
Achieved(j) ==
  LET b == box[job[j].node]  d == files[job[j].node]
  IN CASE job[j].kind \in {"start", "restart"}  -> b.up
       [] job[j].kind = "stop"                  -> ~b.up
       [] job[j].kind = "remove"                -> b = NoBox
       [] job[j].kind \in {"create", "upgrade"} -> b.up /\ b.tag = job[j].tag
       [] job[j].kind = "restore" -> b.up /\ ~b.fast /\ d.db.is = "snap"
       [] job[j].kind = "reset"   -> b.up /\ b.fast /\ ~HasData(d.db)
       [] job[j].kind = "prune"   -> job[j].tag \notin images

Truthful == [][\A j \in Jobs : job[j].pc # "done" /\ job'[j].pc = "done" => Achieved(j)']_vars

\* An upgrade that one failure strikes, its deadline apart, leaves a container
\* behind, as long as nobody removes images.
UpgradeKeepsNode ==
  [][\A j \in Jobs :
       /\ job[j].kind = "upgrade" /\ job'[j].pc = "failed" /\ job[j].pc \notin {"failed", "inspect"}
       /\ faults' <= 1 /\ j \notin late
       /\ \A i \in Jobs : job[i].kind # "prune"
       => box'[job[j].node] # NoBox]_vars

\* Without failures, whatever commands overlap on a node, it has a container
\* again when they are all over, unless it was asked to be removed or images
\* were cleaned up meanwhile.
NodeSurvives ==
  /\ faults = 0 /\ deaths = 0
  /\ \A j \in Jobs : ~Running(j) /\ job[j].kind # "prune"
  => \A n \in Nodes : (\A j \in Jobs : job[j].node = n => job[j].kind # "remove") => Exists(n)
=============================================================================
