--------------------------- MODULE NodeHostProofs ---------------------------
(***************************************************************************)
(* Theorems about NodeHost, for any number of nodes, executions and tags,  *)
(* and any number of failures and deaths of the agent.                     *)
(***************************************************************************)
EXTENDS NodeHost, TLAPS

USE HostAssumption DEF vars

-----------------------------------------------------------------------------
(* Types *)

\* The steps of each command.
Path(kind) ==
  CASE kind = "start"   -> {"start"}
    [] kind = "restart" -> {"restart"}
    [] kind = "stop"    -> {"stop"}
    [] kind = "remove"  -> {"unload", "delete"}
    [] kind = "create"  -> {"pull", "create", "run"}
    [] kind = "upgrade" -> {"inspect", "pull", "stop", "unload", "delete",
                            "create", "run", "verify", "discard", "discard2",
                            "back", "rerun"}
    [] kind = "restore" -> {"preflight", "stop", "clearold", "rotate", "mkdir",
                            "download", "extract", "undo", "putback", "resume",
                            "inspect", "unload", "delete", "create", "run",
                            "drop"}
    [] kind = "reset"   -> {"stop", "clear", "mkdir", "inspect", "unload",
                            "delete", "create", "run"}
    [] kind = "prune"   -> {"list", "untag"}

\* An execution has not begun, is at a step of its command, or is over.
OnPath(r) == \/ r.kind = "none" /\ r.pc = "idle"
             \/ r.kind \in AllKinds /\ r.pc \in Path(r.kind) \cup Over

Job == [kind : AllKinds \cup {"none"}, node : Nodes, tag : Tags, pc : Steps,
        old : Tags, keep : BOOLEAN, had : BOOLEAN]

Typed == TypeOK /\ \A j \in Jobs : OnPath(job[j])

Boxes == Box \cup {NoBox}
Places == [db : DirOf, old : DirOf]

\* Each command's steps are steps.
LEMMA Paths == \A k \in AllKinds : Path(k) \cup Over \subseteq Steps
  BY DEF Path, AllKinds, Over, Steps

\* An execution that moves along its path stays an execution on its path.
LEMMA Stepping ==
  ASSUME job \in [Jobs -> Job], NEW j \in Jobs, NEW pc,
         job[j].kind \in AllKinds, pc \in Path(job[j].kind) \cup Over
  PROVE  To(j, pc) \in Job /\ OnPath(To(j, pc))
<1>1. pc \in Steps
  BY Paths
<1>2. To(j, pc) \in Job
  BY <1>1 DEF To, Job
<1>3. To(j, pc).kind = job[j].kind /\ To(j, pc).pc = pc
  BY DEF To, Job
<1>4. QED
  BY <1>2, <1>3 DEF OnPath

\* The same where the state is well typed.
LEMMA Moves ==
  ASSUME Typed, NEW j \in Jobs, NEW pc, job[j].kind \in AllKinds,
         pc \in Path(job[j].kind) \cup Over
  PROVE  To(j, pc) \in Job /\ OnPath(To(j, pc))
  BY Stepping DEF Typed, TypeOK, Job

\* What is known of an execution at one of some steps, none of them before its
\* beginning or after its end.
LEMMA Underway ==
  ASSUME Typed, NEW j \in Jobs, NEW pcs, At(j, pcs), pcs \cap (Over \cup {"idle"}) = {}
  PROVE  /\ job[j] \in Job /\ job[j].kind \in AllKinds
         /\ job[j].pc \in pcs /\ job[j].pc \in Path(job[j].kind)
         /\ job[j].node \in Nodes /\ Mine(j) \in Boxes
         /\ files[job[j].node] \in Places
         /\ Db(j) \in DirOf /\ Old(j) \in DirOf
  BY DEF Typed, TypeOK, OnPath, At, Job, Boxes, Mine, Db, Old, Places, Over

\* A container that is started or stopped is a container.
LEMMA Switched ==
  ASSUME NEW b \in Boxes, b # NoBox, NEW v \in BOOLEAN
  PROVE  [b EXCEPT !.up = v] \in Boxes
  BY DEF Boxes, Box

\* A step of one execution that may change its node's container and directories
\* keeps the types.
LEMMA TypedAfter ==
  ASSUME Typed, NEW j \in Jobs, NEW r \in Job, OnPath(r),
         job' = [job EXCEPT ![j] = r],
         images' \in SUBSET Tags, late' \in SUBSET Jobs,
         faults' \in 0..MaxFaults, deaths' \in 0..MaxDeaths,
         box' = box \/ \E b \in Boxes : box' = [box EXCEPT ![job[j].node] = b],
         files' = files \/ \E d \in Places : files' = [files EXCEPT ![job[j].node] = d]
  PROVE  Typed'
<1>1. job' \in [Jobs -> Job] /\ \A i \in Jobs : OnPath(job'[i])
  BY DEF Typed, TypeOK, Job
<1>2. box' \in [Nodes -> Boxes]
  BY DEF Typed, TypeOK, Boxes
<1>3. files' \in [Nodes -> Places]
  BY DEF Typed, TypeOK, Places
<1>4. QED
  BY <1>1, <1>2, <1>3 DEF Typed, TypeOK, Boxes, Places, Job

\* So does a request to Docker, whether it is granted, refused or its answer lost.
LEMMA DockerTyped ==
  ASSUME Typed, NEW j \in Jobs, NEW can, NEW after, NEW good, NEW bad,
         Docker(j, can, after, good, bad),
         can => after \in Boxes /\ good \in Job /\ OnPath(good),
         bad \in Job, OnPath(bad)
  PROVE  Typed'
<1>1. UNCHANGED <<images, files, late, deaths>> /\ faults' \in 0..MaxFaults
  BY DEF Docker, Typed, TypeOK, Fault
<1>2. CASE /\ can /\ box' = [box EXCEPT ![job[j].node] = after]
           /\ job' = [job EXCEPT ![j] = good]
  BY <1>1, <1>2, TypedAfter DEF Typed, TypeOK
<1>3. CASE box' = box /\ job' = [job EXCEPT ![j] = bad]
  BY <1>1, <1>3, TypedAfter DEF Typed, TypeOK
<1>4. CASE /\ can /\ box' = [box EXCEPT ![job[j].node] = after]
           /\ job' = [job EXCEPT ![j] = bad]
  BY <1>1, <1>4, TypedAfter DEF Typed, TypeOK
<1>5. QED
  BY <1>2, <1>3, <1>4 DEF Docker

\* So does an operation on files, whether it succeeds or fails.
LEMMA DiskTyped ==
  ASSUME Typed, NEW j \in Jobs, NEW after \in Places, NEW partial \in Places,
         job[j].kind \in AllKinds,
         NEW good \in Path(job[j].kind) \cup Over,
         NEW bad \in Path(job[j].kind) \cup Over,
         Disk(j, after, good, partial, bad)
  PROVE  Typed'
<1>1. UNCHANGED <<images, box, late, deaths>> /\ faults' \in 0..MaxFaults
  BY DEF Disk, Typed, TypeOK, Fault
<1>2. job \in [Jobs -> Job]
  BY DEF Typed, TypeOK, Job
<1>3. CASE files' = [files EXCEPT ![job[j].node] = after] /\ Goto(j, good)
  BY <1>1, <1>3, <1>2, TypedAfter, Stepping DEF Typed, TypeOK, Goto
<1>4. CASE files' = [files EXCEPT ![job[j].node] = partial] /\ Goto(j, bad)
  BY <1>1, <1>4, <1>2, TypedAfter, Stepping DEF Typed, TypeOK, Goto
<1>5. QED
  BY <1>3, <1>4 DEF Disk

\* So does a step that only moves on.
LEMMA GotoTyped ==
  ASSUME Typed, NEW j \in Jobs, NEW pc, job[j].kind \in AllKinds,
         pc \in Path(job[j].kind) \cup Over, Goto(j, pc),
         images' \in SUBSET Tags, faults' \in 0..MaxFaults,
         files' = files \/ \E d \in Places : files' = [files EXCEPT ![job[j].node] = d],
         UNCHANGED <<box, late, deaths>>
  PROVE  Typed'
  BY Moves, TypedAfter DEF Goto, Typed, TypeOK

\* The steps that commands share keep the types.
LEMMA DockerStepTyped ==
  ASSUME Typed, NEW j \in Jobs, DockerStep(j)
  PROVE  Typed'
<1>1. CASE Start(j)
  <2>1. /\ job[j] \in Job /\ job[j].kind \in {"start"}
        /\ job[j].kind \in AllKinds /\ job[j].pc \in Path(job[j].kind)
        /\ Mine(j) \in Boxes
    BY <1>1, Underway DEF Start, Path, AllKinds, Over
  <2>2. /\ "done" \in Path(job[j].kind) \cup Over
        /\ "failed" \in Path(job[j].kind) \cup Over
    BY <1>1, <2>1 DEF Path, Over
  <2>3. Exists(job[j].node) => [Mine(j) EXCEPT !.up = TRUE] \in Boxes
    BY <2>1, Switched DEF Exists, Mine
  <2>4. QED
    BY <1>1, <2>1, <2>2, <2>3, Moves, DockerTyped DEF Start
<1>2. CASE Stop(j)
  <2> DEFINE bad == IF job[j].kind = "upgrade" THEN "unload" ELSE "failed"
  <2>1. /\ job[j] \in Job /\ job[j].kind \in {"stop", "upgrade", "restore", "reset"}
        /\ job[j].kind \in AllKinds /\ job[j].pc \in Path(job[j].kind)
        /\ Mine(j) \in Boxes
    BY <1>2, Underway DEF Stop, Path, AllKinds, Over
  <2>2. /\ Stopped(job[j].kind) \in Path(job[j].kind) \cup Over
        /\ bad \in Path(job[j].kind) \cup Over
    BY <1>2, <2>1 DEF Path, Over, Stopped
  <2>3. Exists(job[j].node) => [Mine(j) EXCEPT !.up = FALSE] \in Boxes
    BY <2>1, Switched DEF Exists, Mine
  <2>4. QED
    BY <1>2, <2>1, <2>2, <2>3, Moves, DockerTyped DEF Stop
<1>3. CASE Restart(j)
  <2>1. /\ job[j] \in Job /\ job[j].kind \in {"restart"}
        /\ job[j].kind \in AllKinds /\ job[j].pc \in Path(job[j].kind)
        /\ Mine(j) \in Boxes
    BY <1>3, Underway DEF Restart, Path, AllKinds, Over
  <2>2. /\ "done" \in Path(job[j].kind) \cup Over
        /\ "failed" \in Path(job[j].kind) \cup Over
    BY <1>3, <2>1 DEF Path, Over
  <2>3. Exists(job[j].node) => [Mine(j) EXCEPT !.up = TRUE] \in Boxes
    BY <2>1, Switched DEF Exists, Mine
  <2>4. QED
    BY <1>3, <2>1, <2>2, <2>3, Moves, DockerTyped DEF Restart
<1>4. CASE Inspect(j)
  <2>1. /\ job[j] \in Job /\ job[j].kind \in {"upgrade", "restore", "reset"}
        /\ Mine(j) \in Boxes
    BY <1>4, Underway DEF Inspect, Path, AllKinds, Over
  <2>2. job[j].kind \in AllKinds
    BY <2>1 DEF AllKinds
  <2>3. "failed" \in Path(job[j].kind) \cup Over
    BY DEF Over
  <2> DEFINE r == [job[j] EXCEPT
                      !.old = Mine(j).tag,
                      !.pc = IF job[j].kind = "upgrade" THEN "pull" ELSE "unload"]
  <2>4. Mine(j).tag \in Tags
    BY <2>1 DEF Boxes, Box, NoBox
  <2>5. /\ r \in Job /\ r.kind = job[j].kind
        /\ r.pc = IF job[j].kind = "upgrade" THEN "pull" ELSE "unload"
    BY <2>1, <2>4 DEF Job, Steps
  <2>6. r \in Job /\ OnPath(r)
    BY <2>1, <2>2, <2>5 DEF OnPath, Path
  <2>7. QED
    BY <1>4, <2>1, <2>2, <2>3, <2>6, Moves, DockerTyped DEF Inspect
<1>5. CASE Pull(j)
  <2>1. job[j].kind \in {"create", "upgrade"} /\ job[j].kind \in AllKinds
    BY <1>5, Underway DEF Pull, Path, AllKinds, Over
  <2>2. QED
    BY <1>5, <2>1, GotoTyped DEF Pull, Path, Over, Fault, Typed, TypeOK
<1>6. CASE Unload(j)
  <2> DEFINE good == IF At(j, {"unload"}) THEN "delete" ELSE "discard2"
  <2>1. /\ job[j] \in Job /\ job[j].kind \in {"remove", "upgrade", "restore", "reset"}
        /\ job[j].kind \in AllKinds /\ job[j].pc \in Path(job[j].kind)
        /\ Mine(j) \in Boxes
    BY <1>6, Underway DEF Unload, Path, AllKinds, Over
  <2>2. good \in Path(job[j].kind) \cup Over
    BY <1>6, <2>1 DEF Path, Over, Unload, At
  <2>3. Exists(job[j].node) => [Mine(j) EXCEPT !.up = FALSE] \in Boxes
    BY <2>1, Switched DEF Exists, Mine
  <2>4. QED
    BY <1>6, <2>1, <2>2, <2>3, Moves, DockerTyped DEF Unload
<1>7. CASE Delete(j)
  <2> DEFINE bad == IF job[j].kind = "upgrade" THEN "back" ELSE "failed"
  <2>1. /\ job[j] \in Job /\ job[j].kind \in {"remove", "upgrade", "restore", "reset"}
        /\ job[j].kind \in AllKinds /\ job[j].pc \in Path(job[j].kind)
        /\ Mine(j) \in Boxes
    BY <1>7, Underway DEF Delete, Path, AllKinds, Over
  <2>2. /\ Deleted(j) \in Path(job[j].kind) \cup Over
        /\ bad \in Path(job[j].kind) \cup Over
    BY <1>7, <2>1 DEF Path, Over, Deleted
  <2>3. NoBox \in Boxes
    BY <2>1 DEF Boxes
  <2>4. QED
    BY <1>7, <2>1, <2>2, <2>3, Moves, DockerTyped DEF Delete
<1>8. CASE Create(j)
  <2> DEFINE bad == IF job[j].kind = "upgrade" THEN "back" ELSE "failed"
  <2>1. /\ job[j] \in Job /\ job[j].kind \in {"create", "upgrade", "restore", "reset"}
        /\ job[j].kind \in AllKinds /\ job[j].pc \in Path(job[j].kind)
        /\ Mine(j) \in Boxes
    BY <1>8, Underway DEF Create, Path, AllKinds, Over
  <2>2. /\ "run" \in Path(job[j].kind) \cup Over
        /\ bad \in Path(job[j].kind) \cup Over
    BY <1>8, <2>1 DEF Path, Over
  <2>3. NewBox(j) \in Boxes
    BY <2>1 DEF Boxes, Box, NewBox, Job
  <2>4. QED
    BY <1>8, <2>1, <2>2, <2>3, Moves, DockerTyped DEF Create
<1>9. CASE Run(j)
  <2> DEFINE can == IF ById(job[j].kind) THEN Mine(j).id = <<j, "new">>
                                         ELSE Exists(job[j].node)
             good == CASE job[j].kind = "upgrade" -> "verify"
                       [] job[j].kind = "restore" -> "drop"
                       [] OTHER                   -> "done"
             bad == IF job[j].kind = "upgrade" THEN "discard" ELSE "failed"
  <2>1. /\ job[j] \in Job /\ job[j].kind \in {"create", "upgrade", "restore", "reset"}
        /\ job[j].kind \in AllKinds /\ Mine(j) \in Boxes
    BY <1>9, Underway DEF Run, Path, AllKinds, Over
  <2>2. good \in Path(job[j].kind) \cup Over /\ bad \in Path(job[j].kind) \cup Over
    BY <2>1 DEF Path, Over
  <2>3. \A x : Mine(j).id = <<j, x>> => Mine(j) # NoBox
    BY DEF NoBox
  <2>4. can => [Mine(j) EXCEPT !.up = TRUE] \in Boxes
    BY <2>1, <2>3, Switched DEF Exists, Mine, ById
  <2>5. QED
    BY <1>9, <2>1, <2>2, <2>4, Moves, DockerTyped DEF Run
<1>10. QED
  BY <1>1, <1>2, <1>3, <1>4, <1>5, <1>6, <1>7, <1>8, <1>9 DEF DockerStep

\* The steps of an upgrade of its own keep the types.
LEMMA UpgradeStepTyped ==
  ASSUME Typed, NEW j \in Jobs, UpgradeStep(j)
  PROVE  Typed'
<1>1. CASE Verify(j)
  <2>1. job[j].kind \in {"upgrade"} /\ job[j].kind \in AllKinds
    BY <1>1, Underway DEF Verify, Path, AllKinds, Over
  <2>2. QED
    BY <1>1, <2>1, GotoTyped DEF Verify, Path, Over, Typed, TypeOK
<1>2. CASE GiveUp(j)
  <2>1. job[j].kind \in {"upgrade"} /\ job[j].kind \in AllKinds
    BY <1>2, Underway DEF GiveUp, Path, AllKinds, Over
  <2>2. QED
    BY <1>2, <2>1, GotoTyped DEF GiveUp, Path, Over, Fault, Typed, TypeOK
<1>3. CASE Discard(j)
  <2>1. /\ job[j] \in Job /\ job[j].kind \in {"upgrade"}
        /\ job[j].kind \in AllKinds /\ job[j].pc \in Path(job[j].kind)
        /\ Mine(j) \in Boxes
    BY <1>3, Underway DEF Discard, Path, AllKinds, Over
  <2>2. "back" \in Path(job[j].kind) \cup Over
    BY <1>3, <2>1 DEF Path, Over
  <2>3. NoBox \in Boxes
    BY <2>1 DEF Boxes
  <2>4. QED
    BY <1>3, <2>1, <2>2, <2>3, Moves, DockerTyped DEF Discard
<1>4. CASE Rollback(j)
  <2>1. /\ job[j] \in Job /\ job[j].kind \in {"upgrade"}
        /\ job[j].kind \in AllKinds /\ job[j].pc \in Path(job[j].kind)
        /\ Mine(j) \in Boxes
    BY <1>4, Underway DEF Rollback, Path, AllKinds, Over
  <2>2. /\ "rerun" \in Path(job[j].kind) \cup Over
        /\ "failed" \in Path(job[j].kind) \cup Over
    BY <1>4, <2>1 DEF Path, Over
  <2>3. OldBox(j) \in Boxes
    BY <2>1 DEF Boxes, Box, OldBox, Job
  <2>4. QED
    BY <1>4, <2>1, <2>2, <2>3, Moves, DockerTyped DEF Rollback
<1>5. CASE RunOld(j)
  <2>1. /\ job[j] \in Job /\ job[j].kind \in {"upgrade"}
        /\ job[j].kind \in AllKinds /\ job[j].pc \in Path(job[j].kind)
        /\ Mine(j) \in Boxes
    BY <1>5, Underway DEF RunOld, Path, AllKinds, Over
  <2>2. "failed" \in Path(job[j].kind) \cup Over
    BY <1>5, <2>1 DEF Path, Over
  <2>3. \A x : Mine(j).id = <<j, x>> => Mine(j) # NoBox
    BY DEF NoBox
  <2>4. Mine(j).id = <<j, "back">> => [Mine(j) EXCEPT !.up = TRUE] \in Boxes
    BY <2>1, <2>3, Switched DEF Mine
  <2>5. QED
    BY <1>5, <2>1, <2>2, <2>4, Moves, DockerTyped DEF RunOld
<1>6. QED
  BY <1>1, <1>2, <1>3, <1>4, <1>5 DEF UpgradeStep

\* The steps of a restore of its own keep the types.
LEMMA RestoreStepTyped ==
  ASSUME Typed, NEW j \in Jobs, RestoreStep(j)
  PROVE  Typed'
<1>1. CASE Preflight(j)
  <2>1. At(j, {"preflight"})
    BY <1>1 DEF Preflight
  <2>2. job[j] \in Job /\ job[j].kind = "restore"
    BY <2>1, Underway DEF Path, AllKinds, Over
  <2>3. job[j].kind \in AllKinds
    BY <2>2 DEF AllKinds
  <2>4. CASE Goto(j, "failed")
    BY <1>1, <2>3, <2>2, <2>4, GotoTyped DEF Preflight, Over, Typed, TypeOK
  <2>5. ASSUME NEW keep \in BOOLEAN,
               job' = [job EXCEPT ![j] =
                 [@ EXCEPT !.keep = keep, !.had = HasData(Db(j)), !.pc = "stop"]]
        PROVE  Typed'
    <3> DEFINE r == [job[j] EXCEPT !.keep = keep, !.had = HasData(Db(j)), !.pc = "stop"]
    <3>1. HasData(Db(j)) \in BOOLEAN
      BY DEF HasData
    <3>2. r \in Job /\ r.kind = "restore" /\ r.pc = "stop"
      BY <2>2, <3>1 DEF Job, Steps
    <3>3. r \in Job /\ OnPath(r)
      BY <3>2 DEF OnPath, Path, AllKinds
    <3>4. job' = [job EXCEPT ![j] = r]
      BY <2>5 DEF Typed, TypeOK
    <3>5. QED
      BY <1>1, <3>3, <3>4, TypedAfter DEF Preflight, Typed, TypeOK
  <2>6. QED
    BY <1>1, <2>4, <2>5 DEF Preflight
<1>2. CASE ClearOld(j)
  <2>1. /\ job[j] \in Job /\ job[j].kind \in {"restore"} /\ job[j].kind \in AllKinds
        /\ Db(j) \in DirOf /\ Old(j) \in DirOf /\ files[job[j].node] \in Places
    BY <1>2, Underway DEF ClearOld, Path, AllKinds, Over
  <2>2. [db |-> Db(j), old |-> Dir("none")] \in Places
    BY <2>1 DEF Dir, DirOf, Places
  <2>3. [db |-> Db(j),
         old |-> IF HasData(Old(j)) THEN Dir("part") ELSE Old(j)] \in Places
    BY <2>1 DEF Dir, DirOf, Places
  <2>4. \A p \in {"rotate", "mkdir"} : p \in Path(job[j].kind) \cup Over
    BY <2>1 DEF Path, Over
  <2>5. QED
    BY <1>2, <2>1, <2>2, <2>3, <2>4, DiskTyped, GotoTyped DEF ClearOld, Typed,
       TypeOK
<1>3. CASE Rotate(j)
  <2>1. /\ job[j] \in Job /\ job[j].kind = "restore" /\ job[j].kind \in AllKinds
        /\ Db(j) \in DirOf /\ Old(j) \in DirOf /\ files[job[j].node] \in Places
    BY <1>3, Underway DEF Rotate, Path, AllKinds, Over
  <2>2. /\ Dir("none") \in DirOf /\ Dir("part") \in DirOf
        /\ \A d, o \in DirOf : [db |-> d, old |-> o] \in Places
    BY DEF Dir, DirOf, Places
  <2>3. \A p \in {"mkdir", "resume"} : p \in Path(job[j].kind) \cup Over
    BY <2>1 DEF Path
  <2>4. QED
    BY <1>3, <2>1, <2>2, <2>3, DiskTyped, GotoTyped DEF Rotate, Typed, TypeOK
<1>4. CASE MakeDir(j)
  <2>1. /\ job[j] \in Job /\ job[j].kind \in {"restore", "reset"}
        /\ job[j].kind \in AllKinds
        /\ Db(j) \in DirOf /\ Old(j) \in DirOf /\ files[job[j].node] \in Places
    BY <1>4, Underway DEF MakeDir, Path, AllKinds, Over
  <2>2. [db |-> MadeDb(Db(j)), old |-> Old(j)] \in Places
    BY <2>1 DEF Dir, DirOf, Places, MadeDb
  <2>3. files[job[j].node] \in Places
    BY <2>1 DEF DirOf, Places
  <2>4. \A p \in {IF job[j].kind = "restore" THEN "download" ELSE "inspect",
                 IF job[j].kind = "reset" THEN "failed" ELSE Undoing(j)} :
          p \in Path(job[j].kind) \cup Over
    BY <2>1 DEF Path, Over, Undoing
  <2>5. QED
    BY <1>4, <2>1, <2>2, <2>3, <2>4, DiskTyped, GotoTyped DEF MakeDir, Typed, TypeOK
<1>5. CASE Extract(j)
  <2> DEFINE d == [is |-> "part", writers |-> Db(j).writers \cup {j}]
             f == [files[job[j].node] EXCEPT !.db = d]
  <2>1. /\ job[j].kind = "restore" /\ job[j].kind \in AllKinds
        /\ Db(j) \in DirOf /\ files[job[j].node] \in Places
    BY <1>5, Underway DEF Extract, Path, AllKinds, Over
  <2>2. f \in Places
    BY <2>1 DEF DirOf, Places
  <2>3. files' = [files EXCEPT ![job[j].node] = f]
    BY <1>5 DEF Extract, Db
  <2>4. "extract" \in Path(job[j].kind) \cup Over
    BY <2>1 DEF Path
  <2>5. faults' \in 0..MaxFaults
    BY <1>5 DEF Extract, Typed, TypeOK
  <2>6. QED
    BY <1>5, <2>1, <2>2, <2>3, <2>4, <2>5, GotoTyped DEF Extract, Typed, TypeOK
<1>6. CASE Extracted(j)
  <2> DEFINE d == [is |-> IF Db(j).writers = {j} THEN "snap" ELSE "part",
                   writers |-> Db(j).writers \ {j}]
             f == [files[job[j].node] EXCEPT !.db = d]
  <2>1. /\ job[j].kind = "restore" /\ job[j].kind \in AllKinds
        /\ Db(j) \in DirOf /\ files[job[j].node] \in Places
    BY <1>6, Underway DEF Extracted, Path, AllKinds, Over
  <2>2. f \in Places
    BY <2>1 DEF DirOf, Places
  <2>3. files' = [files EXCEPT ![job[j].node] = f]
    BY <1>6 DEF Extracted, Db
  <2>4. "inspect" \in Path(job[j].kind) \cup Over
    BY <2>1 DEF Path
  <2>5. faults' \in 0..MaxFaults
    BY <1>6 DEF Extracted, Typed, TypeOK
  <2>6. QED
    BY <1>6, <2>1, <2>2, <2>3, <2>4, <2>5, GotoTyped DEF Extracted, Typed, TypeOK
<1>7. CASE ExtractFails(j)
  <2> DEFINE d == [Db(j) EXCEPT !.writers = @ \ {j}]
             f == [files[job[j].node] EXCEPT !.db = d]
  <2>1. /\ job[j].kind = "restore" /\ job[j].kind \in AllKinds
        /\ Db(j) \in DirOf /\ files[job[j].node] \in Places
    BY <1>7, Underway DEF ExtractFails, Path, AllKinds, Over
  <2>2. f \in Places
    BY <2>1 DEF DirOf, Places
  <2>3. files' = [files EXCEPT ![job[j].node] = f]
    BY <1>7 DEF ExtractFails, Db
  <2>4. Undoing(j) \in Path(job[j].kind) \cup Over
    BY <2>1 DEF Path, Undoing
  <2>5. faults' \in 0..MaxFaults
    BY <1>7 DEF ExtractFails, Fault, Typed, TypeOK
  <2>6. QED
    BY <1>7, <2>1, <2>2, <2>3, <2>4, <2>5, GotoTyped DEF ExtractFails, Typed, TypeOK
<1>8. CASE Undo(j)
  <2>1. /\ job[j] \in Job /\ job[j].kind \in {"restore"} /\ job[j].kind \in AllKinds
        /\ Db(j) \in DirOf /\ Old(j) \in DirOf /\ files[job[j].node] \in Places
    BY <1>8, Underway DEF Undo, Path, AllKinds, Over
  <2>2. [db |-> Dir("none"), old |-> Old(j)] \in Places
    BY <2>1 DEF Dir, DirOf, Places
  <2>3. [db |-> IF HasData(Db(j)) THEN Dir("part") ELSE Db(j),
         old |-> Old(j)] \in Places
    BY <2>1 DEF Dir, DirOf, Places
  <2>4. \A p \in {"putback"} : p \in Path(job[j].kind) \cup Over
    BY <2>1 DEF Path, Over
  <2>5. QED
    BY <1>8, <2>1, <2>2, <2>3, <2>4, DiskTyped, GotoTyped DEF Undo, Typed, TypeOK
<1>9. CASE PutBack(j)
  <2>1. /\ job[j] \in Job /\ job[j].kind \in {"restore"} /\ job[j].kind \in AllKinds
        /\ Db(j) \in DirOf /\ Old(j) \in DirOf /\ files[job[j].node] \in Places
    BY <1>9, Underway DEF PutBack, Path, AllKinds, Over
  <2>2. [db |-> Old(j), old |-> Dir("none")] \in Places
    BY <2>1 DEF Dir, DirOf, Places
  <2>3. files[job[j].node] \in Places
    BY <2>1 DEF DirOf, Places
  <2>4. \A p \in {"resume"} : p \in Path(job[j].kind) \cup Over
    BY <2>1 DEF Path, Over
  <2>5. QED
    BY <1>9, <2>1, <2>2, <2>3, <2>4, DiskTyped, GotoTyped DEF PutBack, Typed, TypeOK
<1>10. CASE Resume(j)
  <2>1. /\ job[j] \in Job /\ job[j].kind \in {"restore"}
        /\ job[j].kind \in AllKinds /\ job[j].pc \in Path(job[j].kind)
        /\ Mine(j) \in Boxes
    BY <1>10, Underway DEF Resume, Path, AllKinds, Over
  <2>2. "failed" \in Path(job[j].kind) \cup Over
    BY <1>10, <2>1 DEF Path, Over
  <2>3. Exists(job[j].node) => [Mine(j) EXCEPT !.up = TRUE] \in Boxes
    BY <2>1, Switched DEF Exists, Mine
  <2>4. QED
    BY <1>10, <2>1, <2>2, <2>3, Moves, DockerTyped DEF Resume
<1>11. CASE Drop(j)
  <2>1. /\ job[j] \in Job /\ job[j].kind \in {"restore"} /\ job[j].kind \in AllKinds
        /\ Db(j) \in DirOf /\ Old(j) \in DirOf /\ files[job[j].node] \in Places
    BY <1>11, Underway DEF Drop, Path, AllKinds, Over
  <2>2. [db |-> Db(j), old |-> Dir("none")] \in Places
    BY <2>1 DEF Dir, DirOf, Places
  <2>3. [db |-> Db(j), old |-> Dir("part")] \in Places
    BY <2>1 DEF Dir, DirOf, Places
  <2>4. \A p \in {"done"} : p \in Path(job[j].kind) \cup Over
    BY <2>1 DEF Path, Over
  <2>5. QED
    BY <1>11, <2>1, <2>2, <2>3, <2>4, DiskTyped, GotoTyped DEF Drop, Typed, TypeOK
<1>12. QED
  BY <1>1, <1>2, <1>3, <1>4, <1>5, <1>6, <1>7, <1>8, <1>9, <1>10,
     <1>11 DEF RestoreStep

\* The steps of a reset and of an image cleanup of their own keep the types.
LEMMA OtherStepTyped ==
  ASSUME Typed, NEW j \in Jobs, OtherStep(j)
  PROVE  Typed'
<1>1. CASE Clear(j)
  <2>1. /\ job[j] \in Job /\ job[j].kind \in {"reset"} /\ job[j].kind \in AllKinds
        /\ Db(j) \in DirOf /\ Old(j) \in DirOf /\ files[job[j].node] \in Places
    BY <1>1, Underway DEF Clear, Path, AllKinds, Over
  <2>2. [db |-> IF Db(j).is = "none" THEN Db(j) ELSE Dir("empty"),
         old |-> Old(j)] \in Places
    BY <2>1 DEF Dir, DirOf, Places
  <2>3. [db |-> IF HasData(Db(j)) THEN Dir("part") ELSE Db(j),
         old |-> Old(j)] \in Places
    BY <2>1 DEF Dir, DirOf, Places
  <2>4. \A p \in {"mkdir", "failed"} : p \in Path(job[j].kind) \cup Over
    BY <2>1 DEF Path, Over
  <2>5. QED
    BY <1>1, <2>1, <2>2, <2>3, <2>4, DiskTyped, GotoTyped DEF Clear, Typed, TypeOK
<1>2. CASE ListImages(j)
  <2>1. job[j].kind \in {"prune"} /\ job[j].kind \in AllKinds
    BY <1>2, Underway DEF ListImages, Path, AllKinds, Over
  <2>2. QED
    BY <1>2, <2>1, GotoTyped DEF ListImages, Path, Over, Typed, TypeOK
<1>3. CASE RemoveImage(j)
  <2>1. job[j].kind \in {"prune"} /\ job[j].kind \in AllKinds
    BY <1>3, Underway DEF RemoveImage, Path, AllKinds, Over
  <2>2. QED
    BY <1>3, <2>1, GotoTyped DEF RemoveImage, Path, Over, Typed, TypeOK
<1>4. QED
  BY <1>1, <1>2, <1>3 DEF OtherStep

\* So does every step.
LEMMA TypedStep ==
  ASSUME Typed, [Next]_vars
  PROVE  Typed'
<1>1. ASSUME NEW j \in Jobs, Begin(j)
      PROVE  Typed'
  <2>1. PICK kind \in Kinds, n \in Nodes, t \in Tags :
          job' = [job EXCEPT ![j] =
            [Idle EXCEPT !.kind = kind, !.node = n, !.tag = t, !.pc = First(kind)]]
    BY <1>1 DEF Begin
  <2> DEFINE r == [Idle EXCEPT !.kind = kind, !.node = n, !.tag = t, !.pc = First(kind)]
  <2>2. kind \in AllKinds /\ First(kind) \in Path(kind)
    BY DEF AllKinds, First, Path
  <2>3. Idle \in Job
    BY DEF Idle, Job, Steps
  <2>4. r \in Job /\ r.kind = kind /\ r.pc = First(kind)
    BY <2>2, <2>3, Paths DEF Job
  <2>5. r \in Job /\ OnPath(r)
    BY <2>2, <2>4 DEF OnPath
  <2>6. QED
    BY <1>1, <2>1, <2>5, TypedAfter DEF Begin, Typed, TypeOK
<1>2. ASSUME NEW j \in Jobs, Expire(j)
      PROVE  Typed'
  BY <1>2 DEF Expire, Typed, TypeOK, Fault
<1>3. CASE Die
  <2>1. \A j \in Jobs : Running(j) => job[j].kind \in AllKinds
    BY DEF Running, Typed, OnPath, Over
  <2>2. \A j \in Jobs : Running(j) => To(j, "lost") \in Job /\ OnPath(To(j, "lost"))
    BY <2>1, Moves DEF Over
  <2>3. job' \in [Jobs -> Job] /\ \A j \in Jobs : OnPath(job'[j])
    BY <1>3, <2>2 DEF Die, Typed, TypeOK, Job
  <2>4. \A d \in DirOf : [d EXCEPT !.writers = {}] \in DirOf
    BY DEF DirOf
  <2>5. \A n \in Nodes : files[n].db \in DirOf /\ files[n].old \in DirOf
    BY DEF Typed, TypeOK
  <2>6. files' \in [Nodes -> Places]
    BY <1>3, <2>4, <2>5 DEF Die, Places
  <2>7. QED
    BY <1>3, <2>3, <2>6 DEF Die, Typed, TypeOK, Job, Places
<1>4. ASSUME NEW n \in Nodes, Bootstrap(n)
      PROVE  Typed'
  <2>1. files' \in [Nodes -> Places]
    BY <1>4 DEF Bootstrap, Typed, TypeOK, Places, DirOf
  <2>2. QED
    BY <1>4, <2>1 DEF Bootstrap, Typed, TypeOK, Places
<1>5. CASE UNCHANGED vars
  BY <1>5 DEF Typed, TypeOK, OnPath
<1>6. QED
  BY <1>1, <1>2, <1>3, <1>4, <1>5, DockerStepTyped, UpgradeStepTyped,
     RestoreStepTyped, OtherStepTyped DEF Next

\* The first state is well typed, and no execution has begun.
LEMMA TypedInit == Init => Typed
  BY DEF Init, Typed, TypeOK, OnPath, Box, DirOf, Dir, Idle, Steps

\* Every state has the shape the model says, whatever fails and however often
\* the agent dies: an execution remembers a tag, never the name of an image.
THEOREM Typing == Spec => []TypeOK
<1>1. Typed => TypeOK
  BY DEF Typed
<1>2. QED
  BY <1>1, TypedInit, TypedStep, PTL DEF Spec

-----------------------------------------------------------------------------
(* Order *)

\* The executions that work on a node.
Busy(j) == Running(j) /\ job[j].kind # "prune"

\* A node has one of them at a time ...
Alone == \A i, j \in Jobs :
           Busy(i) /\ Busy(j) /\ job[i].node = job[j].node => i = j

\* ... and nobody else extracts into its directories.
Writers == \A n \in Nodes :
  /\ files[n].old.writers = {}
  /\ \A i \in files[n].db.writers : job[i].pc = "extract" /\ job[i].node = n

\* The steps at which a container is replaced by a like one.
Rebuild == {"inspect", "unload", "delete", "create", "run"}

\* What holds of the container b and the DB d of its node when an execution
\* with the record r is at its step: the trace earlier steps have left.
StageOf(j, r, b, d) ==
  /\ r.kind \in {"restore", "reset"} /\ r.pc \in AtFiles \cup Rebuild => ~b.up
  /\ r.pc = "extract" => j \in d.writers
  /\ r.kind = "restore" /\ r.pc \in Rebuild \cup {"drop"} => d.is = "snap"
  /\ r.kind = "reset" /\ r.pc \in Rebuild \cup {"mkdir"} => ~HasData(d)
  /\ r.kind \in {"restore", "reset"} /\ r.pc = "run" => b.fast = (r.kind = "reset")
  /\ r.pc = "drop" => b.up /\ ~b.fast
  /\ r.kind \in {"create", "upgrade"} /\ r.pc \in {"run", "verify"} => b.tag = r.tag

Stages == \A j \in Jobs : StageOf(j, job[j], box[job[j].node], files[job[j].node].db)

\* The inductive invariant.
Orderly == Typed /\ Alone /\ Writers /\ Stages

\* Nothing is asked of a node by an execution that is not busy, or does one thing.
LEMMA NoStage ==
  ASSUME NEW j, NEW r, NEW b, NEW d,
         r.pc \in Over \cup {"idle", "list", "untag", "start", "restart"}
  PROVE  StageOf(j, r, b, d)
  BY DEF StageOf, Over, AtFiles, Rebuild

\* Nobody but a busy execution writes into its node's directories.
LEMMA NoWriters ==
  ASSUME Orderly, NEW j \in Jobs, Busy(j)
  PROVE  /\ Old(j).writers = {} /\ Db(j).writers \subseteq {j}
         /\ job[j].pc # "extract" => Db(j).writers = {}
<1>1. job[j].node \in Nodes /\ Db(j).writers \subseteq Jobs
  BY DEF Orderly, Typed, TypeOK, Db, DirOf
<1>2. ASSUME NEW i \in Db(j).writers
      PROVE  i = j /\ job[j].pc = "extract"
  <2>1. i \in Jobs /\ job[i].pc = "extract" /\ job[i].node = job[j].node
    BY <1>1, <1>2 DEF Orderly, Writers, Db
  <2>2. Busy(i)
    BY <2>1 DEF Orderly, Typed, OnPath, Busy, Running, Over, Path
  <2>3. QED
    BY <2>1, <2>2 DEF Orderly, Alone
<1>3. QED
  BY <1>1, <1>2 DEF Orderly, Writers, Old

\* A step of one busy execution keeps the order if it changes only its own
\* node, and leaves it as it should be at the execution's next step.
LEMMA Frame ==
  ASSUME Orderly, Typed', NEW j \in Jobs, Busy(j), NEW r,
         job' = [job EXCEPT ![j] = r], r.kind = job[j].kind, r.node = job[j].node,
         \A n \in Nodes \ {job[j].node} : box'[n] = box[n] /\ files'[n] = files[n],
         StageOf(j, r, box'[job[j].node], files'[job[j].node].db),
         files'[job[j].node].old.writers = {},
         \A i \in files'[job[j].node].db.writers : i = j /\ r.pc = "extract"
  PROVE  Orderly'
<1>1. job'[j] = r /\ \A i \in Jobs \ {j} : job'[i] = job[i]
  BY DEF Orderly, Typed, TypeOK
<1>2. Alone'
  BY <1>1 DEF Orderly, Alone, Busy, Running
<1>3. Writers'
  <2> SUFFICES ASSUME NEW n \in Nodes
               PROVE  /\ files'[n].old.writers = {}
                      /\ \A i \in files'[n].db.writers :
                           job'[i].pc = "extract" /\ job'[i].node = n
    BY DEF Writers
  <2>1. CASE n = job[j].node
    BY <1>1, <2>1
  <2>2. CASE n # job[j].node
    <3>1. files'[n] = files[n] /\ files[n].db.writers \subseteq Jobs
      BY <2>2 DEF Orderly, Typed, TypeOK, DirOf
    <3>2. QED
      BY <1>1, <2>2, <3>1 DEF Orderly, Writers
  <2>3. QED
    BY <2>1, <2>2
<1>4. ASSUME NEW i \in Jobs
      PROVE  StageOf(i, job[i], box[job[i].node], files[job[i].node].db)'
  <2>1. CASE i = j
    BY <1>1, <2>1
  <2>2. CASE i # j /\ Busy(i)
    <3>1. job[i].node \in Nodes \ {job[j].node} /\ job'[i] = job[i]
      BY <1>1, <2>2 DEF Orderly, Alone, Typed, TypeOK
    <3>2. StageOf(i, job[i], box[job[i].node], files[job[i].node].db)
      BY DEF Orderly, Stages
    <3>3. QED
      BY <3>1, <3>2 DEF StageOf
  <2>3. CASE i # j /\ ~Busy(i)
    <3>1. job'[i] = job[i]
      BY <1>1, <2>3
    <3>2. job[i].pc \in Over \cup {"idle", "list", "untag"}
      BY <2>3 DEF Busy, Running, Orderly, Typed, OnPath, Path
    <3>3. QED
      BY <3>1, <3>2, NoStage
  <2>4. QED
    BY <2>1, <2>2, <2>3
<1>5. QED
  BY <1>2, <1>3, <1>4 DEF Orderly, Stages

\* So does a request to Docker, whether it is granted, refused or its answer lost.
LEMMA DockerOrderly ==
  ASSUME Orderly, Typed', NEW j \in Jobs, Busy(j), job[j].pc # "extract",
         NEW can, NEW after, NEW good, NEW bad,
         Docker(j, can, after, good, bad),
         good.kind = job[j].kind, good.node = job[j].node,
         bad.kind = job[j].kind, bad.node = job[j].node,
         can => StageOf(j, good, after, Db(j)),
         can => StageOf(j, bad, after, Db(j)),
         StageOf(j, bad, Mine(j), Db(j))
  PROVE  Orderly'
<1>1. files' = files /\ job[j].node \in Nodes /\ box \in [Nodes -> Boxes]
  BY DEF Docker, Orderly, Typed, TypeOK, Boxes
<1>2. Old(j).writers = {} /\ Db(j).writers = {}
  BY NoWriters
<1>3. CASE /\ can /\ box' = [box EXCEPT ![job[j].node] = after]
           /\ job' = [job EXCEPT ![j] = good]
  <2>1. box'[job[j].node] = after /\ \A n \in Nodes \ {job[j].node} : box'[n] = box[n]
    BY <1>1, <1>3
  <2>2. QED
    BY <1>1, <1>2, <1>3, <2>1, Frame DEF Db, Old
<1>4. CASE box' = box /\ job' = [job EXCEPT ![j] = bad]
  BY <1>1, <1>2, <1>4, Frame DEF Db, Old, Mine
<1>5. CASE /\ can /\ box' = [box EXCEPT ![job[j].node] = after]
           /\ job' = [job EXCEPT ![j] = bad]
  <2>1. box'[job[j].node] = after /\ \A n \in Nodes \ {job[j].node} : box'[n] = box[n]
    BY <1>1, <1>5
  <2>2. QED
    BY <1>1, <1>2, <1>5, <2>1, Frame DEF Db, Old
<1>6. QED
  BY <1>3, <1>4, <1>5 DEF Docker

\* So does a step that changes the node's files at most.
LEMMA GotoOrderly ==
  ASSUME Orderly, Typed', NEW j \in Jobs, Busy(j), NEW pc, Goto(j, pc), box' = box,
         NEW f, files' = [files EXCEPT ![job[j].node] = f],
         f.old.writers = {}, f.db.writers \subseteq {j},
         f.db.writers # {} => pc = "extract",
         StageOf(j, To(j, pc), Mine(j), f.db)
  PROVE  Orderly'
<1>1. /\ job[j] \in Job /\ files'[job[j].node] = f
      /\ \A n \in Nodes \ {job[j].node} : files'[n] = files[n]
  BY DEF Orderly, Typed, TypeOK, Job
<1>2. To(j, pc).kind = job[j].kind /\ To(j, pc).node = job[j].node /\ To(j, pc).pc = pc
  BY <1>1 DEF To, Job
<1>3. QED
  BY <1>1, <1>2, Frame DEF Goto, Mine

\* So does an operation on files, whether it succeeds or fails.
LEMMA DiskOrderly ==
  ASSUME Orderly, Typed', NEW j \in Jobs, Busy(j),
         NEW after, NEW partial, NEW good, NEW bad, Disk(j, after, good, partial, bad),
         after.old.writers = {}, after.db.writers = {},
         partial.old.writers = {}, partial.db.writers = {},
         StageOf(j, To(j, good), Mine(j), after.db),
         StageOf(j, To(j, bad), Mine(j), partial.db)
  PROVE  Orderly'
  BY GotoOrderly DEF Disk

\* Moving on changes nothing but the step.
LEMMA ToFields ==
  ASSUME NEW j \in Jobs, job[j] \in Job, NEW pc
  PROVE  /\ To(j, pc).pc = pc /\ To(j, pc).kind = job[j].kind
         /\ To(j, pc).node = job[j].node /\ To(j, pc).tag = job[j].tag
  BY DEF To, Job

\* What is known of an execution at one of some steps, where there is order.
LEMMA Acting ==
  ASSUME Orderly, NEW j \in Jobs, NEW pcs, At(j, pcs),
         pcs \cap (Over \cup {"idle", "list", "untag"}) = {}
  PROVE  /\ job[j] \in Job /\ job[j].kind \in AllKinds
         /\ job[j].pc \in pcs /\ job[j].pc \in Path(job[j].kind)
         /\ job[j].node \in Nodes /\ Mine(j) \in Boxes
         /\ files[job[j].node] \in Places
         /\ Db(j) \in DirOf /\ Old(j) \in DirOf
         /\ Busy(j) /\ StageOf(j, job[j], Mine(j), Db(j))
<1>1. pcs \cap (Over \cup {"idle"}) = {}
  OBVIOUS
<1>2. /\ job[j] \in Job /\ job[j].kind \in AllKinds
      /\ job[j].pc \in pcs /\ job[j].pc \in Path(job[j].kind)
      /\ job[j].node \in Nodes /\ Mine(j) \in Boxes
      /\ files[job[j].node] \in Places
      /\ Db(j) \in DirOf /\ Old(j) \in DirOf
  BY <1>1, Underway DEF Orderly
<1>3. Busy(j)
  BY <1>2 DEF Busy, Running, Path
<1>4. QED
  BY <1>2, <1>3 DEF Orderly, Stages, Mine, Db

\* An image cleanup keeps the order: it changes no node.
LEMMA PruneOrderly ==
  ASSUME Orderly, Typed', NEW j \in Jobs, ListImages(j) \/ RemoveImage(j)
  PROVE  Orderly'
<1>1. /\ job[j] \in Job /\ job[j].pc \in {"list", "untag"} /\ job[j].kind = "prune"
  <2>1. At(j, {"list", "untag"})
    BY DEF ListImages, RemoveImage, At
  <2>2. QED
    BY <2>1, Underway DEF Orderly, Over, Path, AllKinds
<1>2. PICK pc \in {"untag", "done", "failed"} : Goto(j, pc)
  BY DEF ListImages, RemoveImage
<1>3. To(j, pc).pc = pc /\ To(j, pc).kind = "prune" /\ To(j, pc).node = job[j].node
  BY <1>1, ToFields
<1>4. /\ box' = box /\ files' = files
      /\ job'[j] = To(j, pc) /\ \A i \in Jobs \ {j} : job'[i] = job[i]
  BY <1>2 DEF ListImages, RemoveImage, Goto, Orderly, Typed, TypeOK
<1>5. Alone'
  BY <1>1, <1>3, <1>4 DEF Orderly, Alone, Busy, Running
<1>6. Writers'
  <2>1. \A m \in Nodes : \A i \in files[m].db.writers : i \in Jobs \ {j}
    BY <1>1 DEF Orderly, Writers, Typed, TypeOK, DirOf
  <2>2. QED
    BY <1>4, <2>1 DEF Orderly, Writers
<1>7. Stages'
  <2>1. ASSUME NEW b, NEW d PROVE StageOf(j, To(j, pc), b, d)
    BY <1>3, NoStage DEF Over
  <2>2. QED
    BY <1>4, <2>1 DEF Orderly, Stages
<1>8. QED
  BY <1>5, <1>6, <1>7 DEF Orderly

\* The steps that commands share keep the order.
LEMMA DockerStepOrderly ==
  ASSUME Orderly, Typed', NEW j \in Jobs, DockerStep(j)
  PROVE  Orderly'
<1>1. CASE Start(j)
  <2> DEFINE can == Exists(job[j].node)
             after == [Mine(j) EXCEPT !.up = TRUE]
             good == To(j, "done")
             bad == To(j, "failed")
  <2>1. At(j, {"start"})
    BY <1>1 DEF Start
  <2>2. /\ job[j] \in Job /\ job[j].pc \in {"start"}
        /\ job[j].pc # "extract"
        /\ job[j].kind \in {"start"}
        /\ Mine(j) \in Boxes /\ Busy(j) /\ StageOf(j, job[j], Mine(j), Db(j))
    BY <2>1, Acting DEF Over, Path, AllKinds
  <2>3. \A pc : /\ To(j, pc).pc = pc /\ To(j, pc).kind = job[j].kind
                /\ To(j, pc).node = job[j].node /\ To(j, pc).tag = job[j].tag
    BY <2>2, ToFields
  <2>4. can => StageOf(j, good, after, Db(j)) /\ StageOf(j, bad, after, Db(j))
    BY <2>1, <2>2, <2>3, NoStage DEF StageOf, Over, AtFiles, Rebuild, Boxes, Box,
       NoBox, Exists, Mine, Job
  <2>5. StageOf(j, bad, Mine(j), Db(j))
    BY <2>1, <2>2, <2>3, NoStage DEF StageOf, Over, AtFiles, Rebuild
  <2>6. Docker(j, can, after, good, bad)
    BY <1>1 DEF Start
  <2>7. /\ good.kind = job[j].kind /\ good.node = job[j].node
        /\ bad.kind = job[j].kind /\ bad.node = job[j].node
    BY <2>3
  <2> HIDE DEF can, after, good, bad
  <2>8. QED
    BY <2>2, <2>4, <2>5, <2>6, <2>7, DockerOrderly
<1>2. CASE Stop(j)
  <2> DEFINE can == Exists(job[j].node)
             after == [Mine(j) EXCEPT !.up = FALSE]
             good == To(j, Stopped(job[j].kind))
             bad == To(j, IF job[j].kind = "upgrade" THEN "unload" ELSE "failed")
  <2>1. At(j, {"stop"})
    BY <1>2 DEF Stop
  <2>2. /\ job[j] \in Job /\ job[j].pc \in {"stop"}
        /\ job[j].pc # "extract"
        /\ job[j].kind \in {"stop", "upgrade", "restore", "reset"}
        /\ Mine(j) \in Boxes /\ Busy(j) /\ StageOf(j, job[j], Mine(j), Db(j))
    BY <2>1, Acting DEF Over, Path, AllKinds
  <2>3. \A pc : /\ To(j, pc).pc = pc /\ To(j, pc).kind = job[j].kind
                /\ To(j, pc).node = job[j].node /\ To(j, pc).tag = job[j].tag
    BY <2>2, ToFields
  <2>4. can => StageOf(j, good, after, Db(j)) /\ StageOf(j, bad, after, Db(j))
    <3>1. can => ~after.up
      BY <2>2 DEF Boxes, Box, NoBox, Exists, Mine
    <3>2. CASE job[j].kind \in {"stop", "upgrade"}
      <4>1. good.pc \in {"done", "unload"} /\ bad.pc \in {"failed", "unload"}
        BY <2>3, <3>2 DEF Stopped
      <4>2. QED
        BY <2>3, <3>2, <4>1 DEF StageOf, AtFiles, Rebuild
    <3>3. CASE job[j].kind \in {"restore", "reset"}
      <4>1. StageOf(j, bad, after, Db(j))
        BY <2>3, <3>3, NoStage DEF Over
      <4>2. can => StageOf(j, good, after, Db(j))
        BY <2>3, <3>1, <3>3 DEF StageOf, AtFiles, Rebuild, Stopped
      <4>3. QED
        BY <4>1, <4>2
    <3>4. QED
      BY <2>2, <3>2, <3>3
  <2>5. StageOf(j, bad, Mine(j), Db(j))
    BY <2>1, <2>2, <2>3, NoStage DEF StageOf, Over, AtFiles, Rebuild, Stopped
  <2>6. Docker(j, can, after, good, bad)
    BY <1>2 DEF Stop
  <2>7. /\ good.kind = job[j].kind /\ good.node = job[j].node
        /\ bad.kind = job[j].kind /\ bad.node = job[j].node
    BY <2>3
  <2> HIDE DEF can, after, good, bad
  <2>8. QED
    BY <2>2, <2>4, <2>5, <2>6, <2>7, DockerOrderly
<1>3. CASE Restart(j)
  <2> DEFINE can == Exists(job[j].node)
             after == [Mine(j) EXCEPT !.up = TRUE]
             good == To(j, "done")
             bad == To(j, "failed")
  <2>1. At(j, {"restart"})
    BY <1>3 DEF Restart
  <2>2. /\ job[j] \in Job /\ job[j].pc \in {"restart"}
        /\ job[j].pc # "extract"
        /\ job[j].kind \in {"restart"}
        /\ Mine(j) \in Boxes /\ Busy(j) /\ StageOf(j, job[j], Mine(j), Db(j))
    BY <2>1, Acting DEF Over, Path, AllKinds
  <2>3. \A pc : /\ To(j, pc).pc = pc /\ To(j, pc).kind = job[j].kind
                /\ To(j, pc).node = job[j].node /\ To(j, pc).tag = job[j].tag
    BY <2>2, ToFields
  <2>4. can => StageOf(j, good, after, Db(j)) /\ StageOf(j, bad, after, Db(j))
    BY <2>1, <2>2, <2>3, NoStage DEF StageOf, Over, AtFiles, Rebuild, Boxes, Box,
       NoBox, Exists, Mine, Job
  <2>5. StageOf(j, bad, Mine(j), Db(j))
    BY <2>1, <2>2, <2>3, NoStage DEF StageOf, Over, AtFiles, Rebuild
  <2>6. Docker(j, can, after, good, bad)
    BY <1>3 DEF Restart
  <2>7. /\ good.kind = job[j].kind /\ good.node = job[j].node
        /\ bad.kind = job[j].kind /\ bad.node = job[j].node
    BY <2>3
  <2> HIDE DEF can, after, good, bad
  <2>8. QED
    BY <2>2, <2>4, <2>5, <2>6, <2>7, DockerOrderly
<1>4. CASE Inspect(j)
  <2> DEFINE good == [job[j] EXCEPT
                      !.old = Mine(j).tag,
                      !.pc = IF job[j].kind = "upgrade" THEN "pull" ELSE "unload"]
  <2>1. At(j, {"inspect"})
    BY <1>4 DEF Inspect
  <2>2. /\ job[j] \in Job /\ job[j].pc = "inspect"
        /\ job[j].kind \in {"upgrade", "restore", "reset"}
        /\ Busy(j) /\ StageOf(j, job[j], Mine(j), Db(j))
    BY <2>1, Acting DEF Over, Path, AllKinds
  <2>3. /\ good.kind = job[j].kind /\ good.node = job[j].node
        /\ good.pc = IF job[j].kind = "upgrade" THEN "pull" ELSE "unload"
    BY <2>2 DEF Job
  <2>4. StageOf(j, good, Mine(j), Db(j))
    BY <2>2, <2>3 DEF StageOf, AtFiles, Rebuild
  <2>5. /\ To(j, "failed").kind = job[j].kind /\ To(j, "failed").node = job[j].node
        /\ StageOf(j, To(j, "failed"), Mine(j), Db(j))
    BY <2>2, ToFields, NoStage DEF Over
  <2>6. QED
    BY <1>4, <2>2, <2>3, <2>4, <2>5, DockerOrderly DEF Inspect
<1>5. CASE Pull(j)
  <2> DEFINE f == files[job[j].node]
  <2>1. At(j, {"pull"})
    BY <1>5 DEF Pull
  <2>2. /\ job[j] \in Job /\ job[j].pc \in {"pull"}
        /\ job[j].kind \in {"create", "upgrade"}
        /\ files[job[j].node] = [db |-> Db(j), old |-> Old(j)] /\ Db(j) \in DirOf
        /\ Busy(j) /\ StageOf(j, job[j], Mine(j), Db(j))
    BY <2>1, Acting DEF Over, Path, AllKinds, Places, Db, Old
  <2>3. \A pc : /\ To(j, pc).pc = pc /\ To(j, pc).kind = job[j].kind
                /\ To(j, pc).node = job[j].node /\ To(j, pc).tag = job[j].tag
    BY <2>2, ToFields
  <2>4. /\ Db(j).writers \subseteq {j} /\ Old(j).writers = {}
        /\ job[j].pc # "extract" => Db(j).writers = {}
    BY <2>2, NoWriters
  <2>5. files' = [files EXCEPT ![job[j].node] = f]
    BY <1>5 DEF Pull, Orderly, Typed, TypeOK
  <2>6. \A pc \in {IF job[j].kind = "create" THEN "create" ELSE "stop", "failed"} :
          StageOf(j, To(j, pc), Mine(j), f.db) /\ (f.db.writers # {} => pc = "extract")
    BY <2>2, <2>3, <2>4 DEF StageOf, AtFiles, Rebuild, HasData, DirOf
  <2>7. f.old.writers = {} /\ f.db.writers \subseteq {j}
    BY <2>2, <2>4 DEF DirOf
  <2>8. QED
    BY <1>5, <2>2, <2>5, <2>6, <2>7, GotoOrderly DEF Pull
<1>6. CASE Unload(j)
  <2> DEFINE can == Exists(job[j].node)
             after == [Mine(j) EXCEPT !.up = FALSE]
             good == To(j, IF At(j, {"unload"}) THEN "delete" ELSE "discard2")
             bad == good
  <2>1. At(j, {"unload", "discard"})
    BY <1>6 DEF Unload
  <2>2. /\ job[j] \in Job /\ job[j].pc \in {"unload", "discard"}
        /\ job[j].pc # "extract"
        /\ job[j].kind \in {"remove", "upgrade", "restore", "reset"}
        /\ Mine(j) \in Boxes /\ Busy(j) /\ StageOf(j, job[j], Mine(j), Db(j))
    BY <2>1, Acting DEF Over, Path, AllKinds
  <2>3. \A pc : /\ To(j, pc).pc = pc /\ To(j, pc).kind = job[j].kind
                /\ To(j, pc).node = job[j].node /\ To(j, pc).tag = job[j].tag
    BY <2>2, ToFields
  <2>4. can => StageOf(j, good, after, Db(j)) /\ StageOf(j, bad, after, Db(j))
    BY <2>1, <2>2, <2>3, NoStage DEF StageOf, Over, AtFiles, Rebuild, Boxes, Box,
       NoBox, Exists, Mine, Job, At
  <2>5. StageOf(j, bad, Mine(j), Db(j))
    BY <2>1, <2>2, <2>3, NoStage DEF StageOf, Over, AtFiles, Rebuild, At
  <2>6. Docker(j, can, after, good, bad)
    BY <1>6 DEF Unload
  <2>7. /\ good.kind = job[j].kind /\ good.node = job[j].node
        /\ bad.kind = job[j].kind /\ bad.node = job[j].node
    BY <2>3
  <2> HIDE DEF can, after, good, bad
  <2>8. QED
    BY <2>2, <2>4, <2>5, <2>6, <2>7, DockerOrderly
<1>7. CASE Delete(j)
  <2> DEFINE can == (Mine(j).up => job[j].kind = "remove")
             after == NoBox
             good == To(j, Deleted(j))
             bad == To(j, IF job[j].kind = "upgrade" THEN "back" ELSE "failed")
  <2>1. At(j, {"delete"})
    BY <1>7 DEF Delete
  <2>2. /\ job[j] \in Job /\ job[j].pc \in {"delete"}
        /\ job[j].pc # "extract"
        /\ job[j].kind \in {"remove", "upgrade", "restore", "reset"}
        /\ Mine(j) \in Boxes /\ Busy(j) /\ StageOf(j, job[j], Mine(j), Db(j))
    BY <2>1, Acting DEF Over, Path, AllKinds
  <2>3. /\ ~NoBox.up
        /\ \A pc : /\ To(j, pc).pc = pc /\ To(j, pc).kind = job[j].kind
                   /\ To(j, pc).node = job[j].node /\ To(j, pc).tag = job[j].tag
    BY <2>2, ToFields DEF NoBox
  <2>4. can => StageOf(j, good, after, Db(j)) /\ StageOf(j, bad, after, Db(j))
    BY <2>1, <2>2, <2>3, NoStage DEF StageOf, Over, AtFiles, Rebuild, Deleted
  <2>5. StageOf(j, bad, Mine(j), Db(j))
    BY <2>1, <2>2, <2>3, NoStage DEF StageOf, Over, AtFiles, Rebuild, Deleted
  <2>6. Docker(j, can, after, good, bad)
    BY <1>7 DEF Delete
  <2>7. /\ good.kind = job[j].kind /\ good.node = job[j].node
        /\ bad.kind = job[j].kind /\ bad.node = job[j].node
    BY <2>3
  <2> HIDE DEF can, after, good, bad
  <2>8. QED
    BY <2>2, <2>4, <2>5, <2>6, <2>7, DockerOrderly
<1>8. CASE Create(j)
  <2> DEFINE can == CanCreate(j, NewBox(j))
             after == NewBox(j)
             good == To(j, "run")
             bad == To(j, IF job[j].kind = "upgrade" THEN "back" ELSE "failed")
  <2>1. At(j, {"create"})
    BY <1>8 DEF Create
  <2>2. /\ job[j] \in Job /\ job[j].pc \in {"create"}
        /\ job[j].pc # "extract"
        /\ job[j].kind \in {"create", "upgrade", "restore", "reset"}
        /\ Mine(j) \in Boxes /\ Busy(j) /\ StageOf(j, job[j], Mine(j), Db(j))
    BY <2>1, Acting DEF Over, Path, AllKinds
  <2>3. \A pc : /\ To(j, pc).pc = pc /\ To(j, pc).kind = job[j].kind
                /\ To(j, pc).node = job[j].node /\ To(j, pc).tag = job[j].tag
    BY <2>2, ToFields
  <2>4. can => StageOf(j, good, after, Db(j)) /\ StageOf(j, bad, after, Db(j))
    BY <2>1, <2>2, <2>3, NoStage DEF StageOf, Over, AtFiles, Rebuild, Boxes, Box,
       NoBox, Exists, Mine, Job, NewBox
  <2>5. StageOf(j, bad, Mine(j), Db(j))
    BY <2>1, <2>2, <2>3, NoStage DEF StageOf, Over, AtFiles, Rebuild, NewBox
  <2>6. Docker(j, can, after, good, bad)
    BY <1>8 DEF Create
  <2>7. /\ good.kind = job[j].kind /\ good.node = job[j].node
        /\ bad.kind = job[j].kind /\ bad.node = job[j].node
    BY <2>3
  <2> HIDE DEF can, after, good, bad
  <2>8. QED
    BY <2>2, <2>4, <2>5, <2>6, <2>7, DockerOrderly
<1>9. CASE Run(j)
  <2> DEFINE can == (IF ById(job[j].kind) THEN Mine(j).id = <<j, "new">>
                                  ELSE Exists(job[j].node))
             after == [Mine(j) EXCEPT !.up = TRUE]
             good == To(j, CASE job[j].kind = "upgrade" -> "verify"
                           [] job[j].kind = "restore" -> "drop"
                           [] OTHER -> "done")
             bad == To(j, IF job[j].kind = "upgrade" THEN "discard" ELSE "failed")
  <2>1. At(j, {"run"})
    BY <1>9 DEF Run
  <2>2. /\ job[j] \in Job /\ job[j].pc \in {"run"}
        /\ job[j].pc # "extract"
        /\ job[j].kind \in {"create", "upgrade", "restore", "reset"}
        /\ Mine(j) \in Boxes /\ Busy(j) /\ StageOf(j, job[j], Mine(j), Db(j))
    BY <2>1, Acting DEF Over, Path, AllKinds
  <2>3. \A pc : /\ To(j, pc).pc = pc /\ To(j, pc).kind = job[j].kind
                /\ To(j, pc).node = job[j].node /\ To(j, pc).tag = job[j].tag
    BY <2>2, ToFields
  <2>4. can => StageOf(j, good, after, Db(j)) /\ StageOf(j, bad, after, Db(j))
    BY <2>1, <2>2, <2>3, NoStage DEF StageOf, Over, AtFiles, Rebuild, Boxes, Box,
       NoBox, Exists, Mine, Job
  <2>5. StageOf(j, bad, Mine(j), Db(j))
    BY <2>1, <2>2, <2>3, NoStage DEF StageOf, Over, AtFiles, Rebuild
  <2>6. Docker(j, can, after, good, bad)
    BY <1>9 DEF Run
  <2>7. /\ good.kind = job[j].kind /\ good.node = job[j].node
        /\ bad.kind = job[j].kind /\ bad.node = job[j].node
    BY <2>3
  <2> HIDE DEF can, after, good, bad
  <2>8. QED
    BY <2>2, <2>4, <2>5, <2>6, <2>7, DockerOrderly
<1>10. QED
  BY <1>1, <1>2, <1>3, <1>4, <1>5, <1>6, <1>7, <1>8, <1>9 DEF DockerStep

\* The steps of an upgrade of its own keep the order.
LEMMA UpgradeStepOrderly ==
  ASSUME Orderly, Typed', NEW j \in Jobs, UpgradeStep(j)
  PROVE  Orderly'
<1>1. CASE Verify(j)
  <2> DEFINE f == files[job[j].node]
  <2>1. At(j, {"verify"})
    BY <1>1 DEF Verify
  <2>2. /\ job[j] \in Job /\ job[j].pc \in {"verify"}
        /\ job[j].kind \in {"upgrade"}
        /\ files[job[j].node] = [db |-> Db(j), old |-> Old(j)] /\ Db(j) \in DirOf
        /\ Busy(j) /\ StageOf(j, job[j], Mine(j), Db(j))
    BY <2>1, Acting DEF Over, Path, AllKinds, Places, Db, Old
  <2>3. \A pc : /\ To(j, pc).pc = pc /\ To(j, pc).kind = job[j].kind
                /\ To(j, pc).node = job[j].node /\ To(j, pc).tag = job[j].tag
    BY <2>2, ToFields
  <2>4. /\ Db(j).writers \subseteq {j} /\ Old(j).writers = {}
        /\ job[j].pc # "extract" => Db(j).writers = {}
    BY <2>2, NoWriters
  <2>5. files' = [files EXCEPT ![job[j].node] = f]
    BY <1>1 DEF Verify, Orderly, Typed, TypeOK
  <2>6. \A pc \in {"done"} :
          StageOf(j, To(j, pc), Mine(j), f.db) /\ (f.db.writers # {} => pc = "extract")
    BY <2>2, <2>3, <2>4 DEF StageOf, AtFiles, Rebuild, HasData, DirOf
  <2>7. f.old.writers = {} /\ f.db.writers \subseteq {j}
    BY <2>2, <2>4 DEF DirOf
  <2>8. QED
    BY <1>1, <2>2, <2>5, <2>6, <2>7, GotoOrderly DEF Verify
<1>2. CASE GiveUp(j)
  <2> DEFINE f == files[job[j].node]
  <2>1. At(j, {"verify"})
    BY <1>2 DEF GiveUp
  <2>2. /\ job[j] \in Job /\ job[j].pc \in {"verify"}
        /\ job[j].kind \in {"upgrade"}
        /\ files[job[j].node] = [db |-> Db(j), old |-> Old(j)] /\ Db(j) \in DirOf
        /\ Busy(j) /\ StageOf(j, job[j], Mine(j), Db(j))
    BY <2>1, Acting DEF Over, Path, AllKinds, Places, Db, Old
  <2>3. \A pc : /\ To(j, pc).pc = pc /\ To(j, pc).kind = job[j].kind
                /\ To(j, pc).node = job[j].node /\ To(j, pc).tag = job[j].tag
    BY <2>2, ToFields
  <2>4. /\ Db(j).writers \subseteq {j} /\ Old(j).writers = {}
        /\ job[j].pc # "extract" => Db(j).writers = {}
    BY <2>2, NoWriters
  <2>5. files' = [files EXCEPT ![job[j].node] = f]
    BY <1>2 DEF GiveUp, Orderly, Typed, TypeOK
  <2>6. \A pc \in {"discard"} :
          StageOf(j, To(j, pc), Mine(j), f.db) /\ (f.db.writers # {} => pc = "extract")
    BY <2>2, <2>3, <2>4 DEF StageOf, AtFiles, Rebuild, HasData, DirOf
  <2>7. f.old.writers = {} /\ f.db.writers \subseteq {j}
    BY <2>2, <2>4 DEF DirOf
  <2>8. QED
    BY <1>2, <2>2, <2>5, <2>6, <2>7, GotoOrderly DEF GiveUp
<1>3. CASE Discard(j)
  <2> DEFINE can == TRUE
             after == NoBox
             good == To(j, "back")
             bad == good
  <2>1. At(j, {"discard2"})
    BY <1>3 DEF Discard
  <2>2. /\ job[j] \in Job /\ job[j].pc \in {"discard2"}
        /\ job[j].pc # "extract"
        /\ job[j].kind \in {"upgrade"}
        /\ Mine(j) \in Boxes /\ Busy(j) /\ StageOf(j, job[j], Mine(j), Db(j))
    BY <2>1, Acting DEF Over, Path, AllKinds
  <2>3. /\ ~NoBox.up
        /\ \A pc : /\ To(j, pc).pc = pc /\ To(j, pc).kind = job[j].kind
                   /\ To(j, pc).node = job[j].node /\ To(j, pc).tag = job[j].tag
    BY <2>2, ToFields DEF NoBox
  <2>4. can => StageOf(j, good, after, Db(j)) /\ StageOf(j, bad, after, Db(j))
    BY <2>1, <2>2, <2>3, NoStage DEF StageOf, Over, AtFiles, Rebuild
  <2>5. StageOf(j, bad, Mine(j), Db(j))
    BY <2>1, <2>2, <2>3, NoStage DEF StageOf, Over, AtFiles, Rebuild
  <2>6. Docker(j, can, after, good, bad)
    BY <1>3 DEF Discard
  <2>7. /\ good.kind = job[j].kind /\ good.node = job[j].node
        /\ bad.kind = job[j].kind /\ bad.node = job[j].node
    BY <2>3
  <2> HIDE DEF can, after, good, bad
  <2>8. QED
    BY <2>2, <2>4, <2>5, <2>6, <2>7, DockerOrderly
<1>4. CASE Rollback(j)
  <2> DEFINE can == CanCreate(j, OldBox(j))
             after == OldBox(j)
             good == To(j, "rerun")
             bad == To(j, "failed")
  <2>1. At(j, {"back"})
    BY <1>4 DEF Rollback
  <2>2. /\ job[j] \in Job /\ job[j].pc \in {"back"}
        /\ job[j].pc # "extract"
        /\ job[j].kind \in {"upgrade"}
        /\ Mine(j) \in Boxes /\ Busy(j) /\ StageOf(j, job[j], Mine(j), Db(j))
    BY <2>1, Acting DEF Over, Path, AllKinds
  <2>3. \A pc : /\ To(j, pc).pc = pc /\ To(j, pc).kind = job[j].kind
                /\ To(j, pc).node = job[j].node /\ To(j, pc).tag = job[j].tag
    BY <2>2, ToFields
  <2>4. can => StageOf(j, good, after, Db(j)) /\ StageOf(j, bad, after, Db(j))
    BY <2>1, <2>2, <2>3, NoStage DEF StageOf, Over, AtFiles, Rebuild, Boxes, Box,
       NoBox, Mine, Job
  <2>5. StageOf(j, bad, Mine(j), Db(j))
    BY <2>1, <2>2, <2>3, NoStage DEF StageOf, Over, AtFiles, Rebuild
  <2>6. Docker(j, can, after, good, bad)
    BY <1>4 DEF Rollback
  <2>7. /\ good.kind = job[j].kind /\ good.node = job[j].node
        /\ bad.kind = job[j].kind /\ bad.node = job[j].node
    BY <2>3
  <2> HIDE DEF can, after, good, bad
  <2>8. QED
    BY <2>2, <2>4, <2>5, <2>6, <2>7, DockerOrderly
<1>5. CASE RunOld(j)
  <2> DEFINE can == Mine(j).id = <<j, "back">>
             after == [Mine(j) EXCEPT !.up = TRUE]
             good == To(j, "failed")
             bad == good
  <2>1. At(j, {"rerun"})
    BY <1>5 DEF RunOld
  <2>2. /\ job[j] \in Job /\ job[j].pc \in {"rerun"}
        /\ job[j].pc # "extract"
        /\ job[j].kind \in {"upgrade"}
        /\ Mine(j) \in Boxes /\ Busy(j) /\ StageOf(j, job[j], Mine(j), Db(j))
    BY <2>1, Acting DEF Over, Path, AllKinds
  <2>3. \A pc : /\ To(j, pc).pc = pc /\ To(j, pc).kind = job[j].kind
                /\ To(j, pc).node = job[j].node /\ To(j, pc).tag = job[j].tag
    BY <2>2, ToFields
  <2>4. can => StageOf(j, good, after, Db(j)) /\ StageOf(j, bad, after, Db(j))
    BY <2>1, <2>2, <2>3, NoStage DEF StageOf, Over, AtFiles, Rebuild, Boxes, Box,
       NoBox, Mine, Job
  <2>5. StageOf(j, bad, Mine(j), Db(j))
    BY <2>1, <2>2, <2>3, NoStage DEF StageOf, Over, AtFiles, Rebuild
  <2>6. Docker(j, can, after, good, bad)
    BY <1>5 DEF RunOld
  <2>7. /\ good.kind = job[j].kind /\ good.node = job[j].node
        /\ bad.kind = job[j].kind /\ bad.node = job[j].node
    BY <2>3
  <2> HIDE DEF can, after, good, bad
  <2>8. QED
    BY <2>2, <2>4, <2>5, <2>6, <2>7, DockerOrderly
<1>6. QED
  BY <1>1, <1>2, <1>3, <1>4, <1>5 DEF UpgradeStep

\* The steps of a restore of its own keep the order.
LEMMA RestoreStepOrderly ==
  ASSUME Orderly, Typed', NEW j \in Jobs, RestoreStep(j)
  PROVE  Orderly'
<1>1. CASE Preflight(j)
  <2>1. At(j, {"preflight"})
    BY <1>1 DEF Preflight
  <2>2. /\ job[j] \in Job /\ job[j].pc = "preflight"
        /\ job[j].kind = "restore"
        /\ Busy(j)
    BY <2>1, Acting DEF Over, Path, AllKinds
  <2>3. Db(j).writers = {} /\ Old(j).writers = {}
    BY <2>2, NoWriters
  <2>4. PICK r : /\ job' = [job EXCEPT ![j] = r] /\ r.pc \in {"stop", "failed"}
                 /\ r.kind = job[j].kind /\ r.node = job[j].node
    <3>1. LET s == To(j, "failed")
          IN s.pc = "failed" /\ s.kind = job[j].kind /\ s.node = job[j].node
      BY <2>2, ToFields
    <3>2. CASE Goto(j, "failed")
      BY <3>1, <3>2 DEF Goto
    <3>3. CASE \E keep \in BOOLEAN :
                 job' = [job EXCEPT ![j] =
                   [@ EXCEPT !.keep = keep, !.had = HasData(Db(j)), !.pc = "stop"]]
      <4>1. PICK keep \in BOOLEAN :
              job' = [job EXCEPT ![j] =
                [@ EXCEPT !.keep = keep, !.had = HasData(Db(j)), !.pc = "stop"]]
        BY <3>3
      <4> DEFINE s == [job[j] EXCEPT !.keep = keep, !.had = HasData(Db(j)),
                                     !.pc = "stop"]
      <4>2. s.pc = "stop" /\ s.kind = job[j].kind /\ s.node = job[j].node
        BY <2>2 DEF Job
      <4>3. job' = [job EXCEPT ![j] = s]
        BY <4>1
      <4> HIDE DEF s
      <4>4. QED
        BY <4>2, <4>3
    <3>4. QED
      BY <1>1, <3>2, <3>3 DEF Preflight
  <2>5. \A b, d : StageOf(j, r, b, d)
    BY <2>4 DEF StageOf, AtFiles, Rebuild
  <2>6. QED
    BY <1>1, <2>2, <2>3, <2>4, <2>5, Frame DEF Preflight, Db, Old
<1>2. CASE ClearOld(j)
  <2> DEFINE after == [db |-> Db(j), old |-> Dir("none")]
             partial == [db |-> Db(j),
                         old |-> IF HasData(Old(j)) THEN Dir("part") ELSE Old(j)]
  <2>1. At(j, {"clearold"})
    BY <1>2 DEF ClearOld
  <2>2. /\ job[j] \in Job /\ job[j].pc \in {"clearold"}
        /\ job[j].kind \in {"restore"}
        /\ files[job[j].node] = [db |-> Db(j), old |-> Old(j)]
        /\ Busy(j) /\ StageOf(j, job[j], Mine(j), Db(j))
    BY <2>1, Acting DEF Over, Path, AllKinds, Places, Db, Old
  <2>3. \A pc : To(j, pc).pc = pc /\ To(j, pc).kind = job[j].kind
    BY <2>2, ToFields
  <2>4. Db(j).writers = {} /\ Old(j).writers = {}
    BY <2>2, NoWriters
  <2>5. /\ after.old.writers = {} /\ after.db.writers = {}
        /\ partial.old.writers = {} /\ partial.db.writers = {}
    BY <2>2, <2>4 DEF Dir
  <2>6. \A pc \in {"rotate", "mkdir"} : StageOf(j, To(j, pc), Mine(j), after.db)
    BY <2>2, <2>3 DEF StageOf, AtFiles, Rebuild, HasData, Dir
  <2>7. \A pc \in {"rotate", "mkdir"} : StageOf(j, To(j, pc), Mine(j), partial.db)
    BY <2>2, <2>3 DEF StageOf, AtFiles, Rebuild, HasData, Dir
  <2>8. QED
    BY <1>2, <2>2, <2>5, <2>6, <2>7, DiskOrderly DEF ClearOld
<1>3. CASE Rotate(j)
  <2>1. At(j, {"rotate"})
    BY <1>3 DEF Rotate
  <2>2. /\ job[j] \in Job /\ job[j].pc = "rotate"
        /\ job[j].kind = "restore"
        /\ files[job[j].node] = [db |-> Db(j), old |-> Old(j)]
        /\ Busy(j) /\ StageOf(j, job[j], Mine(j), Db(j))
    BY <2>1, Acting DEF Over, Path, AllKinds, Places, Db, Old
  <2>3. \A pc : /\ To(j, pc).pc = pc /\ To(j, pc).kind = job[j].kind
                /\ To(j, pc).node = job[j].node /\ To(j, pc).tag = job[j].tag
    BY <2>2, ToFields
  <2>4. Db(j).writers = {} /\ Old(j).writers = {}
    BY <2>2, NoWriters
  <2>5. \A d : \A pc \in {"mkdir", "resume"} : StageOf(j, To(j, pc), Mine(j), d)
    BY <2>2, <2>3 DEF StageOf, AtFiles, Rebuild
  <2>6. files' = files => files' = [files EXCEPT ![job[j].node] = files[job[j].node]]
    BY DEF Orderly, Typed, TypeOK
  <2>7. QED
    BY <1>3, <2>2, <2>4, <2>5, <2>6, DiskOrderly, GotoOrderly DEF Rotate, Dir
<1>4. CASE MakeDir(j)
  <2> DEFINE after == [db |-> MadeDb(Db(j)), old |-> Old(j)]
             partial == files[job[j].node]
  <2>1. At(j, {"mkdir"})
    BY <1>4 DEF MakeDir
  <2>2. /\ job[j] \in Job /\ job[j].pc \in {"mkdir"}
        /\ job[j].kind \in {"restore", "reset"}
        /\ files[job[j].node] = [db |-> Db(j), old |-> Old(j)]
        /\ Busy(j) /\ StageOf(j, job[j], Mine(j), Db(j))
    BY <2>1, Acting DEF Over, Path, AllKinds, Places, Db, Old
  <2>3. \A pc : To(j, pc).pc = pc /\ To(j, pc).kind = job[j].kind
    BY <2>2, ToFields
  <2>4. Db(j).writers = {} /\ Old(j).writers = {}
    BY <2>2, NoWriters
  <2>5. /\ after.old.writers = {} /\ after.db.writers = {}
        /\ partial.old.writers = {} /\ partial.db.writers = {}
    BY <2>2, <2>4 DEF Dir, MadeDb
  <2>6. \A pc \in {IF job[j].kind = "restore" THEN "download" ELSE "inspect"} :
          StageOf(j, To(j, pc), Mine(j), after.db)
    BY <2>2, <2>3 DEF StageOf, AtFiles, Rebuild, HasData, Dir, MadeDb
  <2>7. \A pc \in {IF job[j].kind = "reset" THEN "failed" ELSE Undoing(j)} :
          StageOf(j, To(j, pc), Mine(j), partial.db)
    BY <2>2, <2>3 DEF StageOf, AtFiles, Rebuild, HasData, Dir, MadeDb, Undoing
  <2>8. QED
    BY <1>4, <2>2, <2>5, <2>6, <2>7, DiskOrderly DEF MakeDir
<1>5. CASE Extract(j)
  <2> DEFINE f == [files[job[j].node] EXCEPT
                     !.db = [is |-> "part", writers |-> Db(j).writers \cup {j}]]
  <2>1. At(j, {"download"})
    BY <1>5 DEF Extract
  <2>2. /\ job[j] \in Job /\ job[j].pc \in {"download"}
        /\ job[j].kind \in {"restore"}
        /\ files[job[j].node] = [db |-> Db(j), old |-> Old(j)] /\ Db(j) \in DirOf
        /\ Busy(j) /\ StageOf(j, job[j], Mine(j), Db(j))
    BY <2>1, Acting DEF Over, Path, AllKinds, Places, Db, Old
  <2>3. \A pc : /\ To(j, pc).pc = pc /\ To(j, pc).kind = job[j].kind
                /\ To(j, pc).node = job[j].node /\ To(j, pc).tag = job[j].tag
    BY <2>2, ToFields
  <2>4. /\ Db(j).writers \subseteq {j} /\ Old(j).writers = {}
        /\ job[j].pc # "extract" => Db(j).writers = {}
    BY <2>2, NoWriters
  <2>5. files' = [files EXCEPT ![job[j].node] = f]
    BY <1>5 DEF Extract, Orderly, Typed, TypeOK, Db
  <2>6. \A pc \in {"extract"} :
          StageOf(j, To(j, pc), Mine(j), f.db) /\ (f.db.writers # {} => pc = "extract")
    BY <2>2, <2>3, <2>4 DEF StageOf, AtFiles, Rebuild, HasData, DirOf
  <2>7. f.old.writers = {} /\ f.db.writers \subseteq {j}
    BY <2>2, <2>4 DEF DirOf
  <2>8. QED
    BY <1>5, <2>2, <2>5, <2>6, <2>7, GotoOrderly DEF Extract
<1>6. CASE Extracted(j)
  <2> DEFINE f == [files[job[j].node] EXCEPT
                     !.db = [is |-> IF Db(j).writers = {j} THEN "snap" ELSE "part",
                             writers |-> Db(j).writers \ {j}]]
  <2>1. At(j, {"extract"})
    BY <1>6 DEF Extracted
  <2>2. /\ job[j] \in Job /\ job[j].pc \in {"extract"}
        /\ job[j].kind \in {"restore"}
        /\ files[job[j].node] = [db |-> Db(j), old |-> Old(j)] /\ Db(j) \in DirOf
        /\ Busy(j) /\ StageOf(j, job[j], Mine(j), Db(j))
    BY <2>1, Acting DEF Over, Path, AllKinds, Places, Db, Old
  <2>3. \A pc : /\ To(j, pc).pc = pc /\ To(j, pc).kind = job[j].kind
                /\ To(j, pc).node = job[j].node /\ To(j, pc).tag = job[j].tag
    BY <2>2, ToFields
  <2>4. /\ Db(j).writers \subseteq {j} /\ Old(j).writers = {}
        /\ job[j].pc # "extract" => Db(j).writers = {}
    BY <2>2, NoWriters
  <2>5. files' = [files EXCEPT ![job[j].node] = f]
    BY <1>6 DEF Extracted, Orderly, Typed, TypeOK, Db
  <2>6. \A pc \in {"inspect"} :
          StageOf(j, To(j, pc), Mine(j), f.db) /\ (f.db.writers # {} => pc = "extract")
    BY <2>2, <2>3, <2>4 DEF StageOf, AtFiles, Rebuild, HasData, DirOf
  <2>7. f.old.writers = {} /\ f.db.writers \subseteq {j}
    BY <2>2, <2>4 DEF DirOf
  <2>8. QED
    BY <1>6, <2>2, <2>5, <2>6, <2>7, GotoOrderly DEF Extracted
<1>7. CASE ExtractFails(j)
  <2> DEFINE f == [files[job[j].node] EXCEPT
                     !.db = [Db(j) EXCEPT !.writers = @ \ {j}]]
  <2>1. At(j, {"download", "extract"})
    BY <1>7 DEF ExtractFails
  <2>2. /\ job[j] \in Job /\ job[j].pc \in {"download", "extract"}
        /\ job[j].kind \in {"restore"}
        /\ files[job[j].node] = [db |-> Db(j), old |-> Old(j)] /\ Db(j) \in DirOf
        /\ Busy(j) /\ StageOf(j, job[j], Mine(j), Db(j))
    BY <2>1, Acting DEF Over, Path, AllKinds, Places, Db, Old
  <2>3. \A pc : /\ To(j, pc).pc = pc /\ To(j, pc).kind = job[j].kind
                /\ To(j, pc).node = job[j].node /\ To(j, pc).tag = job[j].tag
    BY <2>2, ToFields
  <2>4. /\ Db(j).writers \subseteq {j} /\ Old(j).writers = {}
        /\ job[j].pc # "extract" => Db(j).writers = {}
    BY <2>2, NoWriters
  <2>5. files' = [files EXCEPT ![job[j].node] = f]
    BY <1>7 DEF ExtractFails, Orderly, Typed, TypeOK, Db
  <2>6. \A pc \in {Undoing(j)} :
          StageOf(j, To(j, pc), Mine(j), f.db) /\ (f.db.writers # {} => pc = "extract")
    BY <2>2, <2>3, <2>4 DEF StageOf, AtFiles, Rebuild, HasData, Undoing, DirOf
  <2>7. f.old.writers = {} /\ f.db.writers \subseteq {j}
    BY <2>2, <2>4 DEF DirOf
  <2>8. QED
    BY <1>7, <2>2, <2>5, <2>6, <2>7, GotoOrderly DEF ExtractFails
<1>8. CASE Undo(j)
  <2> DEFINE after == [db |-> Dir("none"), old |-> Old(j)]
             partial == [db |-> IF HasData(Db(j)) THEN Dir("part") ELSE Db(j),
                         old |-> Old(j)]
  <2>1. At(j, {"undo"})
    BY <1>8 DEF Undo
  <2>2. /\ job[j] \in Job /\ job[j].pc \in {"undo"}
        /\ job[j].kind \in {"restore"}
        /\ files[job[j].node] = [db |-> Db(j), old |-> Old(j)]
        /\ Busy(j) /\ StageOf(j, job[j], Mine(j), Db(j))
    BY <2>1, Acting DEF Over, Path, AllKinds, Places, Db, Old
  <2>3. \A pc : To(j, pc).pc = pc /\ To(j, pc).kind = job[j].kind
    BY <2>2, ToFields
  <2>4. Db(j).writers = {} /\ Old(j).writers = {}
    BY <2>2, NoWriters
  <2>5. /\ after.old.writers = {} /\ after.db.writers = {}
        /\ partial.old.writers = {} /\ partial.db.writers = {}
    BY <2>2, <2>4 DEF Dir
  <2>6. \A pc \in {"putback"} : StageOf(j, To(j, pc), Mine(j), after.db)
    BY <2>2, <2>3 DEF StageOf, AtFiles, Rebuild, HasData, Dir
  <2>7. \A pc \in {"putback"} : StageOf(j, To(j, pc), Mine(j), partial.db)
    BY <2>2, <2>3 DEF StageOf, AtFiles, Rebuild, HasData, Dir
  <2>8. QED
    BY <1>8, <2>2, <2>5, <2>6, <2>7, DiskOrderly DEF Undo
<1>9. CASE PutBack(j)
  <2> DEFINE after == [db |-> Old(j), old |-> Dir("none")]
             partial == files[job[j].node]
  <2>1. At(j, {"putback"})
    BY <1>9 DEF PutBack
  <2>2. /\ job[j] \in Job /\ job[j].pc \in {"putback"}
        /\ job[j].kind \in {"restore"}
        /\ files[job[j].node] = [db |-> Db(j), old |-> Old(j)]
        /\ Busy(j) /\ StageOf(j, job[j], Mine(j), Db(j))
    BY <2>1, Acting DEF Over, Path, AllKinds, Places, Db, Old
  <2>3. \A pc : To(j, pc).pc = pc /\ To(j, pc).kind = job[j].kind
    BY <2>2, ToFields
  <2>4. Db(j).writers = {} /\ Old(j).writers = {}
    BY <2>2, NoWriters
  <2>5. /\ after.old.writers = {} /\ after.db.writers = {}
        /\ partial.old.writers = {} /\ partial.db.writers = {}
    BY <2>2, <2>4 DEF Dir
  <2>6. \A pc \in {"resume"} : StageOf(j, To(j, pc), Mine(j), after.db)
    BY <2>2, <2>3 DEF StageOf, AtFiles, Rebuild, HasData, Dir
  <2>7. \A pc \in {"resume"} : StageOf(j, To(j, pc), Mine(j), partial.db)
    BY <2>2, <2>3 DEF StageOf, AtFiles, Rebuild, HasData, Dir
  <2>8. files' = files => files' = [files EXCEPT ![job[j].node] = files[job[j].node]]
    BY DEF Orderly, Typed, TypeOK
  <2>9. QED
    BY <1>9, <2>2, <2>4, <2>5, <2>6, <2>7, <2>8, DiskOrderly,
       GotoOrderly DEF PutBack
<1>10. CASE Resume(j)
  <2> DEFINE can == Exists(job[j].node)
             after == [Mine(j) EXCEPT !.up = TRUE]
             good == To(j, "failed")
             bad == good
  <2>1. At(j, {"resume"})
    BY <1>10 DEF Resume
  <2>2. /\ job[j] \in Job /\ job[j].pc \in {"resume"}
        /\ job[j].pc # "extract"
        /\ job[j].kind \in {"restore"}
        /\ Mine(j) \in Boxes /\ Busy(j) /\ StageOf(j, job[j], Mine(j), Db(j))
    BY <2>1, Acting DEF Over, Path, AllKinds
  <2>3. \A pc : /\ To(j, pc).pc = pc /\ To(j, pc).kind = job[j].kind
                /\ To(j, pc).node = job[j].node /\ To(j, pc).tag = job[j].tag
    BY <2>2, ToFields
  <2>4. can => StageOf(j, good, after, Db(j)) /\ StageOf(j, bad, after, Db(j))
    BY <2>1, <2>2, <2>3, NoStage DEF StageOf, Over, AtFiles, Rebuild, Boxes, Box,
       NoBox, Exists, Mine, Job, Dir
  <2>5. StageOf(j, bad, Mine(j), Db(j))
    BY <2>1, <2>2, <2>3, NoStage DEF StageOf, Over, AtFiles, Rebuild
  <2>6. Docker(j, can, after, good, bad)
    BY <1>10 DEF Resume
  <2>7. /\ good.kind = job[j].kind /\ good.node = job[j].node
        /\ bad.kind = job[j].kind /\ bad.node = job[j].node
    BY <2>3
  <2> HIDE DEF can, after, good, bad
  <2>8. QED
    BY <2>2, <2>4, <2>5, <2>6, <2>7, DockerOrderly
<1>11. CASE Drop(j)
  <2> DEFINE after == [db |-> Db(j), old |-> Dir("none")]
             partial == [db |-> Db(j), old |-> Dir("part")]
  <2>1. At(j, {"drop"})
    BY <1>11 DEF Drop
  <2>2. /\ job[j] \in Job /\ job[j].pc \in {"drop"}
        /\ job[j].kind \in {"restore"}
        /\ files[job[j].node] = [db |-> Db(j), old |-> Old(j)]
        /\ Busy(j) /\ StageOf(j, job[j], Mine(j), Db(j))
    BY <2>1, Acting DEF Over, Path, AllKinds, Places, Db, Old
  <2>3. \A pc : To(j, pc).pc = pc /\ To(j, pc).kind = job[j].kind
    BY <2>2, ToFields
  <2>4. Db(j).writers = {} /\ Old(j).writers = {}
    BY <2>2, NoWriters
  <2>5. /\ after.old.writers = {} /\ after.db.writers = {}
        /\ partial.old.writers = {} /\ partial.db.writers = {}
    BY <2>2, <2>4 DEF Dir
  <2>6. \A pc \in {"done"} : StageOf(j, To(j, pc), Mine(j), after.db)
    BY <2>2, <2>3 DEF StageOf, AtFiles, Rebuild, HasData, Dir
  <2>7. \A pc \in {"done"} : StageOf(j, To(j, pc), Mine(j), partial.db)
    BY <2>2, <2>3 DEF StageOf, AtFiles, Rebuild, HasData, Dir
  <2>8. files' = files => files' = [files EXCEPT ![job[j].node] = files[job[j].node]]
    BY DEF Orderly, Typed, TypeOK
  <2>9. QED
    BY <1>11, <2>2, <2>4, <2>5, <2>6, <2>7, <2>8, DiskOrderly, GotoOrderly DEF Drop
<1>12. QED
  BY <1>1, <1>2, <1>3, <1>4, <1>5, <1>6, <1>7, <1>8, <1>9, <1>10,
     <1>11 DEF RestoreStep

\* The step of a reset of its own keeps the order.
LEMMA ClearOrderly ==
  ASSUME Orderly, Typed', NEW j \in Jobs, Clear(j)
  PROVE  Orderly'
<1> DEFINE after == [db |-> IF Db(j).is = "none" THEN Db(j) ELSE Dir("empty"),
                     old |-> Old(j)]
           partial == [db |-> IF HasData(Db(j)) THEN Dir("part") ELSE Db(j),
                       old |-> Old(j)]
<1>1. At(j, {"clear"})
  BY DEF Clear
<1>2. /\ job[j] \in Job /\ job[j].pc \in {"clear"} /\ job[j].kind \in {"reset"}
      /\ files[job[j].node] = [db |-> Db(j), old |-> Old(j)]
      /\ Busy(j) /\ StageOf(j, job[j], Mine(j), Db(j))
  BY <1>1, Acting DEF Over, Path, AllKinds, Places, Db, Old
<1>3. \A pc : To(j, pc).pc = pc /\ To(j, pc).kind = job[j].kind
  BY <1>2, ToFields
<1>4. Db(j).writers = {} /\ Old(j).writers = {}
  BY <1>2, NoWriters
<1>5. /\ after.old.writers = {} /\ after.db.writers = {}
      /\ partial.old.writers = {} /\ partial.db.writers = {}
  BY <1>2, <1>4 DEF Dir
<1>6. \A pc \in {"mkdir"} : StageOf(j, To(j, pc), Mine(j), after.db)
  BY <1>2, <1>3 DEF StageOf, AtFiles, Rebuild, HasData, Dir
<1>7. \A pc \in {"failed"} : StageOf(j, To(j, pc), Mine(j), partial.db)
  BY <1>2, <1>3 DEF StageOf, AtFiles, Rebuild, HasData, Dir
<1>8. QED
  BY <1>2, <1>5, <1>6, <1>7, DiskOrderly DEF Clear

\* A command that begins keeps the order, if it waits for the node's last one.
LEMMA BeginOrderly ==
  ASSUME Orderly, Typed', Exclusive, NEW j \in Jobs, Begin(j) PROVE Orderly'
<1>1. PICK kind \in Kinds, n \in Nodes, t \in Tags :
        /\ kind # "prune" => \A i \in Jobs : Busy(i) => job[i].node # n
        /\ job' = [job EXCEPT ![j] = [Idle EXCEPT !.kind = kind, !.node = n,
                                                 !.tag = t, !.pc = First(kind)]]
  BY DEF Begin, Busy
<1> DEFINE r == [Idle EXCEPT !.kind = kind, !.node = n, !.tag = t, !.pc = First(kind)]
<1>2. Idle \in Job
  BY HostAssumption DEF Idle, Job, Steps
<1>3. r.kind = kind /\ r.node = n /\ r.pc = First(kind)
  BY <1>2 DEF Job
<1>4. /\ box' = box /\ files' = files /\ job[j].pc = "idle"
      /\ job'[j] = r /\ \A i \in Jobs \ {j} : job'[i] = job[i]
  BY <1>1 DEF Begin, Orderly, Typed, TypeOK
<1>5. Alone'
  BY <1>1, <1>3, <1>4 DEF Orderly, Alone, Busy, Running
<1>6. Writers'
  <2>1. \A m \in Nodes : \A i \in files[m].db.writers : i \in Jobs \ {j}
    BY <1>4 DEF Orderly, Writers, Typed, TypeOK, DirOf
  <2>2. QED
    BY <1>4, <2>1 DEF Orderly, Writers
<1>7. Stages'
  <2>1. ASSUME NEW b, NEW d PROVE StageOf(j, r, b, d)
    BY <1>3, HostAssumption DEF First, StageOf, AtFiles, Rebuild, AllKinds
  <2>2. QED
    BY <1>4, <2>1 DEF Orderly, Stages
<1>8. QED
  BY <1>5, <1>6, <1>7 DEF Orderly

\* The death of the agent keeps it: nothing runs any more.
LEMMA DieOrderly ==
  ASSUME Orderly, Typed', Die
  PROVE  Orderly'
<1>1. \A j \in Jobs : job'[j].pc \in Over \cup {"idle"}
  BY ToFields DEF Die, Running, Over, Orderly, Typed, TypeOK, Job
<1>2. Alone'
  BY <1>1 DEF Alone, Busy, Running
<1>3. Writers'
  <2> SUFFICES ASSUME NEW n \in Nodes
               PROVE  files'[n].old.writers = {} /\ files'[n].db.writers = {}
    BY DEF Writers
  <2>1. \A d \in DirOf : [d EXCEPT !.writers = {}].writers = {}
    BY DEF DirOf
  <2>2. files[n].db \in DirOf /\ files[n].old \in DirOf
    BY DEF Orderly, Typed, TypeOK
  <2>3. QED
    BY <2>1, <2>2 DEF Die
<1>4. Stages'
  <2>1. \A j \in Jobs : \A b, d : StageOf(j, job'[j], b, d)
    BY <1>1, NoStage
  <2>2. QED
    BY <2>1 DEF Stages
<1>5. QED
  BY <1>2, <1>3, <1>4 DEF Orderly

\* A node that fetches its data keeps it: nobody works on a node that runs.
LEMMA BootOrderly ==
  ASSUME Orderly, Typed', NEW n \in Nodes, Bootstrap(n)
  PROVE  Orderly'
<1>1. /\ box' = box /\ job' = job
      /\ \A m \in Nodes : /\ files'[m].old = files[m].old
                          /\ files'[m].db.writers = files[m].db.writers
                          /\ m # n => files'[m] = files[m]
  BY DEF Bootstrap, Orderly, Typed, TypeOK, DirOf
<1>2. Alone'
  BY <1>1 DEF Orderly, Alone, Busy, Running
<1>3. Writers'
  <2> SUFFICES ASSUME NEW m \in Nodes
               PROVE  /\ files'[m].old.writers = {}
                      /\ \A i \in files'[m].db.writers :
                           job'[i].pc = "extract" /\ job'[i].node = m
    BY DEF Writers
  <2>1. /\ files'[m].old = files[m].old
        /\ files'[m].db.writers = files[m].db.writers
    BY <1>1
  <2>2. QED
    BY <1>1, <2>1 DEF Orderly, Writers
<1>4. ASSUME NEW j \in Jobs
      PROVE  StageOf(j, job[j], box[job[j].node], files'[job[j].node].db)
  <2>1. /\ job[j].node \in Nodes
        /\ StageOf(j, job[j], box[job[j].node], files[job[j].node].db)
    BY DEF Orderly, Stages, Typed, TypeOK
  <2>2. CASE job[j].node = n
    <3>1. box[n].up /\ files[n].db.is \in {"none", "empty"}
      BY DEF Bootstrap
    <3>2. files'[job[j].node].db.writers = files[job[j].node].db.writers
      BY <1>1, <2>1
    <3>3. QED
      BY <2>1, <2>2, <3>1, <3>2 DEF StageOf, Rebuild, AtFiles
  <2>3. CASE job[j].node # n
    <3>1. files'[job[j].node] = files[job[j].node]
      BY <1>1, <2>1, <2>3
    <3>2. QED
      BY <2>1, <3>1
  <2>4. QED
    BY <2>2, <2>3
<1>5. QED
  BY <1>1, <1>2, <1>3, <1>4 DEF Orderly, Stages

\* Every step keeps the order.
LEMMA OrderlyStep ==
  ASSUME Exclusive, Orderly, [Next]_vars
  PROVE  Orderly'
<1>1. Typed'
  BY TypedStep DEF Orderly
<1>2. ASSUME NEW j \in Jobs, Expire(j)
      PROVE  Orderly'
  BY <1>1, <1>2 DEF Expire, Orderly, Alone, Busy, Running, Writers, Stages, StageOf
<1>3. CASE UNCHANGED vars
  BY <1>1, <1>3 DEF Orderly, Alone, Busy, Running, Writers, Stages, StageOf
<1>4. QED
  BY <1>1, <1>2, <1>3, DockerStepOrderly, UpgradeStepOrderly, RestoreStepOrderly,
     ClearOrderly, PruneOrderly, BeginOrderly, DieOrderly, BootOrderly DEF Next,
     OtherStep

\* At first nothing runs.
LEMMA OrderlyInit == Init => Orderly
  BY DEF Init, Orderly, Typed, TypeOK, OnPath, Box, NoBox, DirOf, Dir, Idle, Steps,
     Alone, Busy, Running, Writers, Stages, StageOf, AtFiles, Rebuild

\* While a restore or a reset of the DB works on a node's directories, the node
\* does not run, whatever fails and however often the agent dies, if each command
\* for a node waits for the end of the one before.  The run without Exclusive
\* finds that it is not so for commands that overlap.
THEOREM Quiet == Exclusive => (Spec => []QuietDB)
<1> SUFFICES ASSUME Exclusive PROVE Spec => []QuietDB
  OBVIOUS
<1>1. Orderly => QuietDB
  <2> SUFFICES ASSUME Orderly, NEW j \in Jobs, At(j, AtFiles) PROVE ~Mine(j).up
    BY DEF QuietDB
  <2>1. /\ job[j].pc \in AtFiles /\ job[j].kind \in {"restore", "reset"}
        /\ StageOf(j, job[j], Mine(j), Db(j))
    BY Acting DEF AtFiles, Over, Path, AllKinds
  <2>2. QED
    BY <2>1 DEF StageOf
<1>2. Orderly /\ [Next]_vars => Orderly'
  BY OrderlyStep
<1>3. QED
  BY <1>1, <1>2, OrderlyInit, PTL DEF Spec

-----------------------------------------------------------------------------
(* Results *)

Finishes(j) == job[j].pc # "done" /\ job'[j].pc = "done"

\* A request to Docker that ends an execution well was granted.
LEMMA DockerFinish ==
  ASSUME Typed, NEW i \in Jobs, NEW j \in Jobs, Finishes(j),
         NEW can, NEW after, NEW good, NEW bad,
         Docker(i, can, after, good, bad), bad.pc # "done"
  PROVE  /\ i = j /\ good.pc = "done" /\ can /\ job'[j] = good
         /\ box'[job[j].node] = after /\ files' = files
  BY DEF Finishes, Docker, Typed, TypeOK

\* A step that ends an execution well and is no request goes to its end.
LEMMA GotoFinish ==
  ASSUME Typed, NEW i \in Jobs, NEW j \in Jobs, Finishes(j), NEW pc, Goto(i, pc)
  PROVE  i = j /\ pc = "done" /\ job'[j] = To(j, "done")
<1>1. job[i] \in Job
  BY DEF Typed, TypeOK, Job
<1>2. To(i, pc).pc = pc
  BY <1>1, ToFields
<1>3. QED
  BY <1>2 DEF Finishes, Goto, Typed, TypeOK

\* The last steps of commands.
LEMMA Unfinished ==
  ASSUME Typed, [Next]_vars, NEW j \in Jobs, Finishes(j)
  PROVE  \/ Start(j) \/ Restart(j) \/ Stop(j) \/ Delete(j) \/ Run(j)
         \/ Verify(j) \/ Drop(j) \/ RemoveImage(j)
<1> DEFINE Last(i) == \/ Start(i) \/ Restart(i) \/ Stop(i) \/ Delete(i) \/ Run(i)
                      \/ Verify(i) \/ Drop(i) \/ RemoveImage(i)
<1>1. \A i \in Jobs : /\ job[i] \in Job
                      /\ \A pc : To(i, pc).pc = pc
  BY ToFields DEF Typed, TypeOK, Job
<1>2. ASSUME NEW i \in Jobs, Last(i)
      PROVE  i = j
  BY <1>2 DEF Start, Restart, Stop, Delete, Run, Verify, Drop, RemoveImage, Docker,
     Disk, Goto, Finishes, Typed, TypeOK
<1>3. ASSUME NEW i \in Jobs,
             \/ Unload(i) \/ Create(i) \/ Discard(i)
             \/ Rollback(i) \/ RunOld(i) \/ Resume(i)
      PROVE  FALSE
  <2>1. ASSUME NEW can, NEW after, NEW p, NEW q, p # "done", q # "done",
               Docker(i, can, after, To(i, p), To(i, q))
        PROVE  FALSE
    <3>1. To(i, p).pc # "done" /\ To(i, q).pc # "done"
      BY <1>1, <2>1
    <3>2. QED
      BY <2>1, <3>1, DockerFinish
  <2>2. CASE Unload(i)
    BY <2>1, <2>2 DEF Unload
  <2>3. CASE Create(i)
    BY <2>1, <2>3 DEF Create
  <2>4. CASE Discard(i)
    BY <2>1, <2>4 DEF Discard
  <2>5. CASE Rollback(i)
    BY <2>1, <2>5 DEF Rollback
  <2>6. CASE RunOld(i)
    BY <2>1, <2>6 DEF RunOld
  <2>7. CASE Resume(i)
    BY <2>1, <2>7 DEF Resume
  <2>8. QED
    BY <1>3, <2>2, <2>3, <2>4, <2>5, <2>6, <2>7
<1>4. ASSUME NEW i \in Jobs, Inspect(i)
      PROVE  FALSE
  <2> DEFINE good == [job[i] EXCEPT
                      !.old = Mine(i).tag,
                      !.pc = IF job[i].kind = "upgrade" THEN "pull" ELSE "unload"]
  <2>1. good.pc # "done"
    BY <1>1 DEF Job
  <2>2. To(i, "failed").pc # "done"
    BY <1>1
  <2>3. Docker(i, Exists(job[i].node), Mine(i), good, To(i, "failed"))
    BY <1>4 DEF Inspect
  <2> HIDE DEF good
  <2>4. QED
    BY <2>1, <2>2, <2>3, DockerFinish
<1>5. ASSUME NEW i \in Jobs,
      \/ Pull(i) \/ GiveUp(i) \/ ClearOld(i) \/ Rotate(i) \/ MakeDir(i) \/ Extract(i)
      \/ Extracted(i) \/ ExtractFails(i) \/ Undo(i) \/ PutBack(i)
      \/ Clear(i) \/ ListImages(i)
      PROVE  FALSE
  <2>1. \E pc : Goto(i, pc) /\ pc # "done"
    <3>1. ASSUME NEW after, NEW good, NEW part, NEW bad,
                 Disk(i, after, good, part, bad), good # "done", bad # "done"
          PROVE  \E pc : Goto(i, pc) /\ pc # "done"
      BY <3>1 DEF Disk
    <3>2. Undoing(i) # "done"
      BY DEF Undoing
    <3>3. ASSUME Pull(i) \/ GiveUp(i) \/ Extract(i) \/ Extracted(i) \/ ExtractFails(i)
                 \/ ListImages(i)
          PROVE  \E pc : Goto(i, pc) /\ pc # "done"
      BY <3>2, <3>3 DEF Pull, GiveUp, Extract, Extracted, ExtractFails, ListImages
    <3>4. CASE ClearOld(i)
      BY <3>1, <3>4 DEF ClearOld
    <3>5. CASE Rotate(i)
      BY <3>1, <3>5 DEF Rotate
    <3>6. CASE MakeDir(i)
      BY <3>1, <3>2, <3>6 DEF MakeDir
    <3>7. CASE Undo(i)
      BY <3>1, <3>7 DEF Undo
    <3>8. CASE PutBack(i)
      BY <3>1, <3>8 DEF PutBack
    <3>9. CASE Clear(i)
      BY <3>1, <3>9 DEF Clear
    <3>10. QED
      BY <1>5, <3>3, <3>4, <3>5, <3>6, <3>7, <3>8, <3>9
  <2>2. QED
    BY <2>1, GotoFinish
<1>6. ASSUME NEW i \in Jobs, Preflight(i)
      PROVE  FALSE
  <2>1. \A keep, had :
          [job[i] EXCEPT !.keep = keep, !.had = had, !.pc = "stop"].pc = "stop"
    BY <1>1 DEF Job
  <2>2. CASE Goto(i, "failed")
    BY <2>2, GotoFinish
  <2>3. ASSUME NEW keep \in BOOLEAN,
               job' = [job EXCEPT ![i] =
                 [@ EXCEPT !.keep = keep, !.had = HasData(Db(i)), !.pc = "stop"]]
        PROVE  FALSE
    <3>1. job'[i].pc = "stop" /\ \A k \in Jobs \ {i} : job'[k] = job[k]
      BY <2>1, <2>3 DEF Typed, TypeOK
    <3>2. QED
      BY <3>1 DEF Finishes
  <2>4. QED
    BY <1>6, <2>2, <2>3 DEF Preflight
<1>7. ASSUME NEW i \in Jobs, Begin(i)
      PROVE  FALSE
  <2>1. PICK kind \in Kinds, n \in Nodes, t \in Tags :
           job' = [job EXCEPT ![i] =
             [Idle EXCEPT !.kind = kind, !.node = n, !.tag = t, !.pc = First(kind)]]
    BY <1>7 DEF Begin
  <2>2. [Idle EXCEPT !.kind = kind, !.node = n, !.tag = t, !.pc = First(kind)].pc
          = First(kind)
    BY DEF Idle
  <2>3. First(kind) # "done"
    BY DEF First, AllKinds
  <2>4. QED
    BY <2>1, <2>2, <2>3 DEF Finishes, Typed, TypeOK
<1>8. ASSUME Die PROVE FALSE
  BY <1>1, <1>8 DEF Die, Finishes
<1>9. ASSUME job' = job PROVE FALSE
  BY <1>9 DEF Finishes
<1>10. CASE \E i \in Jobs : Last(i)
  BY <1>2, <1>10
<1>11. QED
  BY <1>3, <1>4, <1>5, <1>6, <1>7, <1>8, <1>9, <1>10 DEF Next, DockerStep,
     UpgradeStep, RestoreStep, OtherStep, Expire, Bootstrap

\* What Achieved says, of the record, container, DB and images it says it of.
Fits(r, b, d, is) ==
  /\ r.kind \in AllKinds
  /\ r.kind \in {"start", "restart"} => b.up
  /\ r.kind = "stop" => ~b.up
  /\ r.kind = "remove" => b = NoBox
  /\ r.kind \in {"create", "upgrade"} => b.up /\ b.tag = r.tag
  /\ r.kind = "restore" => b.up /\ ~b.fast /\ d.is = "snap"
  /\ r.kind = "reset" => b.up /\ b.fast /\ ~HasData(d)
  /\ r.kind = "prune" => r.tag \notin is

\* A command that ends well has done what it was to do: what an earlier step of
\* it achieved is still so at its last.
LEMMA Honesty ==
  ASSUME Orderly, [Next]_vars, NEW j \in Jobs, Finishes(j)
  PROVE  Achieved(j)'
<1>1. Typed /\ job[j] \in Job /\ job[j].node \in Nodes /\ NoBox.up = FALSE
  BY DEF Orderly, Typed, TypeOK, Job, NoBox
<1>2. \A pc : /\ To(j, pc).pc = pc /\ To(j, pc).kind = job[j].kind
              /\ To(j, pc).node = job[j].node /\ To(j, pc).tag = job[j].tag
  BY <1>1, ToFields
<1>3. ASSUME NEW r, NEW b, job'[j] = r, r.node = job[j].node, box'[job[j].node] = b,
             Fits(r, b, files'[job[j].node].db, images')
      PROVE  Achieved(j)'
  BY <1>3 DEF Achieved, Fits, AllKinds
<1>4. \A b \in Boxes : \A v :
        /\ [b EXCEPT !.up = v].up = v
        /\ [b EXCEPT !.up = v].tag = b.tag
        /\ [b EXCEPT !.up = v].fast = b.fast
  BY DEF Boxes, Box, NoBox
<1>5. CASE Start(j) \/ Restart(j)
  <2>1. job[j].kind \in {"start", "restart"} /\ Mine(j) \in Boxes
    <3>1. At(j, {"start", "restart"})
      BY <1>5 DEF Start, Restart, At
    <3>2. QED
      BY <3>1, Acting DEF Over, Path, AllKinds
  <2>2. Docker(j, Exists(job[j].node), [Mine(j) EXCEPT !.up = TRUE],
               To(j, "done"), To(j, "failed"))
    BY <1>5 DEF Start, Restart
  <2>3. job'[j] = To(j, "done") /\ box'[job[j].node] = [Mine(j) EXCEPT !.up = TRUE]
    BY <1>1, <1>2, <2>2, DockerFinish
  <2>4. Fits(To(j, "done"), [Mine(j) EXCEPT !.up = TRUE],
             files'[job[j].node].db, images')
    BY <1>2, <1>4, <2>1 DEF Fits, AllKinds
  <2>5. QED
    BY <1>2, <1>3, <2>3, <2>4
<1>6. CASE Stop(j)
  <2>1. job[j].kind \in {"stop", "upgrade", "restore", "reset"} /\ Mine(j) \in Boxes
    BY <1>6, Acting DEF Stop, Over, Path, AllKinds
  <2> DEFINE good == To(j, Stopped(job[j].kind))
             bad == To(j, IF job[j].kind = "upgrade" THEN "unload" ELSE "failed")
  <2>2. bad.pc # "done"
    BY <1>2
  <2>3. good.pc = "done" => /\ job[j].kind = "stop" /\ good.kind = "stop"
                            /\ good.node = job[j].node
    BY <1>2, <2>1 DEF Stopped
  <2>4. Docker(j, Exists(job[j].node), [Mine(j) EXCEPT !.up = FALSE], good, bad)
    BY <1>6 DEF Stop
  <2> HIDE DEF good, bad
  <2>5. /\ good.pc = "done" /\ job'[j] = good
        /\ box'[job[j].node] = [Mine(j) EXCEPT !.up = FALSE]
    BY <1>1, <2>2, <2>4, DockerFinish
  <2>6. Fits(good, [Mine(j) EXCEPT !.up = FALSE],
             files'[job[j].node].db, images')
    BY <1>4, <2>1, <2>3, <2>5 DEF Fits, AllKinds
  <2>7. QED
    BY <1>3, <2>3, <2>5, <2>6
<1>7. CASE Delete(j)
  <2>1. job[j].kind \in {"remove", "upgrade", "restore", "reset"}
    BY <1>7, Acting DEF Delete, Over, Path, AllKinds
  <2> DEFINE can == Mine(j).up => job[j].kind = "remove"
             good == To(j, Deleted(j))
             bad == To(j, IF job[j].kind = "upgrade" THEN "back" ELSE "failed")
  <2>2. bad.pc # "done"
    BY <1>2
  <2>3. good.pc = "done" => good.kind = "remove" /\ good.node = job[j].node
    BY <1>2, <2>1 DEF Deleted
  <2>4. Docker(j, can, NoBox, good, bad)
    BY <1>7 DEF Delete
  <2> HIDE DEF can, good, bad
  <2>5. good.pc = "done" /\ job'[j] = good /\ box'[job[j].node] = NoBox
    BY <1>1, <2>2, <2>4, DockerFinish
  <2>6. QED
    BY <1>3, <2>3, <2>5 DEF Fits, AllKinds
<1>8. CASE Run(j)
  <2>1. /\ job[j].pc = "run"
        /\ job[j].kind \in {"create", "upgrade", "restore", "reset"}
        /\ Mine(j) \in Boxes /\ StageOf(j, job[j], Mine(j), Db(j))
    BY <1>8, Acting DEF Run, Over, Path, AllKinds
  <2> DEFINE can == IF ById(job[j].kind) THEN Mine(j).id = <<j, "new">>
                                         ELSE Exists(job[j].node)
             good == To(j, CASE job[j].kind = "upgrade" -> "verify"
                             [] job[j].kind = "restore" -> "drop"
                             [] OTHER                   -> "done")
             bad == To(j, IF job[j].kind = "upgrade" THEN "discard" ELSE "failed")
  <2>2. bad.pc # "done"
    BY <1>2
  <2>3. good.pc = "done" => /\ job[j].kind \in {"create", "reset"}
                            /\ good.kind = job[j].kind /\ good.node = job[j].node
                            /\ good.tag = job[j].tag
    BY <1>2, <2>1
  <2>4. Docker(j, can, [Mine(j) EXCEPT !.up = TRUE], good, bad)
    BY <1>8 DEF Run
  <2> HIDE DEF can, good, bad
  <2>5. /\ good.pc = "done" /\ job'[j] = good /\ files' = files
        /\ box'[job[j].node] = [Mine(j) EXCEPT !.up = TRUE]
    BY <1>1, <2>2, <2>4, DockerFinish
  <2>6. Fits(good, [Mine(j) EXCEPT !.up = TRUE], Db(j), images')
    <3>1. CASE job[j].kind = "create"
      <4>1. Mine(j).tag = job[j].tag
        BY <2>1, <3>1 DEF StageOf
      <4>2. QED
        BY <1>4, <2>1, <2>3, <2>5, <3>1, <4>1 DEF Fits, AllKinds
    <3>2. CASE job[j].kind = "reset"
      <4>1. ~HasData(Db(j))
        BY <2>1, <3>2 DEF StageOf, Rebuild
      <4>2. Mine(j).fast
        BY <2>1, <3>2 DEF StageOf
      <4>3. QED
        BY <1>4, <2>1, <2>3, <2>5, <3>2, <4>1, <4>2 DEF Fits, AllKinds
    <3>3. QED
      BY <2>3, <2>5, <3>1, <3>2
  <2>7. QED
    BY <1>3, <2>3, <2>5, <2>6 DEF Db
<1>9. CASE Verify(j)
  <2>1. /\ job[j].pc = "verify"
        /\ job[j].kind = "upgrade" /\ StageOf(j, job[j], Mine(j), Db(j))
    BY <1>9, Acting DEF Verify, Over, Path, AllKinds
  <2>2. job'[j] = To(j, "done") /\ box' = box /\ Mine(j).up
    BY <1>1, <1>9, GotoFinish DEF Verify
  <2>3. Fits(To(j, "done"), Mine(j), files'[job[j].node].db, images')
    BY <1>2, <2>1, <2>2 DEF Fits, AllKinds, StageOf
  <2>4. QED
    BY <1>2, <1>3, <2>2, <2>3 DEF Mine
<1>10. CASE Drop(j)
  <2>1. /\ job[j].pc = "drop"
        /\ job[j].kind = "restore" /\ StageOf(j, job[j], Mine(j), Db(j))
    BY <1>10, Acting DEF Drop, Over, Path, AllKinds
  <2>2. Goto(j, "done") /\ box' = box /\ files'[job[j].node].db = Db(j)
    BY <1>1, <1>10 DEF Drop, Disk, Typed, TypeOK, Db
  <2>3. job'[j] = To(j, "done")
    BY <1>1, <2>2, GotoFinish
  <2>4. Fits(To(j, "done"), Mine(j), Db(j), images')
    BY <1>2, <2>1 DEF Fits, AllKinds, StageOf
  <2>5. QED
    BY <1>2, <1>3, <2>2, <2>3, <2>4 DEF Mine
<1>11. CASE RemoveImage(j)
  <2>1. At(j, {"untag"})
    BY <1>11 DEF RemoveImage
  <2>2. job[j].kind = "prune"
    BY <1>1, <2>1, Underway DEF Over, Path, AllKinds
  <2>3. CASE images' = images \ {job[j].tag} /\ Goto(j, "done")
    <3>1. job'[j] = To(j, "done")
      BY <1>1, <2>3, GotoFinish
    <3>2. Fits(To(j, "done"), box'[job[j].node], files'[job[j].node].db, images')
      BY <1>2, <2>2, <2>3 DEF Fits, AllKinds
    <3>3. QED
      BY <1>2, <1>3, <3>1, <3>2
  <2>4. CASE Goto(j, "failed")
    BY <1>1, <2>4, GotoFinish
  <2>5. QED
    BY <1>11, <2>3, <2>4 DEF RemoveImage
<1>12. QED
  BY <1>1, <1>5, <1>6, <1>7, <1>8, <1>9, <1>10, <1>11, Unfinished

\* What a command reports as done is done at that moment, whatever fails and
\* however often the agent dies, if each command for a node waits for the end of
\* the one before.
THEOREM Honest == Exclusive => (Spec => Truthful)
<1> SUFFICES ASSUME Exclusive PROVE Spec => Truthful
  OBVIOUS
<1>1. Orderly /\ [Next]_vars
        => [\A j \in Jobs : job[j].pc # "done" /\ job'[j].pc = "done"
                              => Achieved(j)']_vars
  BY Honesty DEF Finishes
<1>2. Orderly /\ [Next]_vars => Orderly'
  BY OrderlyStep
<1>3. QED
  BY <1>1, <1>2, OrderlyInit, PTL DEF Spec, Truthful

-----------------------------------------------------------------------------
(* What a step leaves alone *)

\* A step of one execution changes the record, the container and the directories
\* of that execution only, keeps its command and node, and what a restore has
\* found out; only a clean-up takes images away.
Confined(j) ==
  /\ job'[j].kind = job[j].kind /\ job'[j].node = job[j].node
  /\ job[j].pc # "preflight" =>
       job'[j].keep = job[j].keep /\ job'[j].had = job[j].had
  /\ \A i \in Jobs \ {j} : job'[i] = job[i]
  /\ \A n \in Nodes \ {job[j].node} : box'[n] = box[n] /\ files'[n] = files[n]
  /\ deaths' = deaths /\ late' = late /\ faults' \in {faults, faults + 1}
  /\ job[j].kind # "prune" => images \subseteq images'

\* What a record keeps when its execution moves on.
Same(r, s) == /\ r.kind = s.kind /\ r.node = s.node /\ r.tag = s.tag
              /\ r.keep = s.keep /\ r.had = s.had

\* Moving on changes the step.
LEMMA ToSame ==
  ASSUME Typed, NEW j \in Jobs, NEW pc
  PROVE  Same(To(j, pc), job[j]) /\ To(j, pc).pc = pc /\ To(j, pc).old = job[j].old
  BY DEF Typed, TypeOK, To, Same

\* What a request to Docker leads to.
LEMMA Requested ==
  ASSUME Typed, NEW j \in Jobs, NEW can, NEW after, NEW good, NEW bad,
         Docker(j, can, after, good, bad), Same(good, job[j]), Same(bad, job[j])
  PROVE  /\ Confined(j) /\ images' = images /\ files' = files
         /\ \/ can /\ job'[j] = good /\ box'[job[j].node] = after /\ faults' = faults
            \/ /\ ~can \/ j \in late
               /\ job'[j] = bad /\ box'[job[j].node] = Mine(j) /\ faults' = faults
            \/ /\ can /\ job'[j] = bad /\ faults' = faults + 1
               /\ box'[job[j].node] \in {after, Mine(j)}
<1>1. job[j].node \in Nodes
  BY DEF Typed, TypeOK
<1>2. /\ images' = images /\ files' = files /\ late' = late /\ deaths' = deaths
  BY DEF Docker
<1>3. \/ /\ can /\ box' = [box EXCEPT ![job[j].node] = after]
         /\ job' = [job EXCEPT ![j] = good] /\ faults' = faults
      \/ /\ ~can \/ j \in late
         /\ job' = [job EXCEPT ![j] = bad] /\ box' = box /\ faults' = faults
      \/ /\ can /\ faults' = faults + 1 /\ job' = [job EXCEPT ![j] = bad]
         /\ box' = box \/ box' = [box EXCEPT ![job[j].node] = after]
  BY DEF Docker, Fault
<1>4. /\ \/ can /\ job'[j] = good /\ box'[job[j].node] = after /\ faults' = faults
         \/ /\ ~can \/ j \in late
            /\ job'[j] = bad /\ box'[job[j].node] = Mine(j) /\ faults' = faults
         \/ /\ can /\ job'[j] = bad /\ faults' = faults + 1
            /\ box'[job[j].node] \in {after, Mine(j)}
      /\ \A i \in Jobs \ {j} : job'[i] = job[i]
      /\ \A n \in Nodes \ {job[j].node} : box'[n] = box[n]
  BY <1>1, <1>3 DEF Typed, TypeOK, Mine
<1>5. job'[j] = good \/ job'[j] = bad
  BY <1>4
<1>6. Same(job'[j], job[j])
  BY <1>5
<1>7. Confined(j)
  BY <1>2, <1>4, <1>6 DEF Confined, Same
<1> QED
  BY <1>2, <1>4, <1>7

\* What a step that moves on leads to.
LEMMA Gone ==
  ASSUME Typed, NEW j \in Jobs, NEW pc, Goto(j, pc), box' = box, late' = late,
         deaths' = deaths, faults' \in {faults, faults + 1},
         job[j].kind # "prune" => images \subseteq images',
         files' = files \/ \E d : files' = [files EXCEPT ![job[j].node] = d]
  PROVE  Confined(j) /\ job'[j] = To(j, pc)
<1>1. job'[j] = To(j, pc) /\ \A i \in Jobs \ {j} : job'[i] = job[i]
  BY DEF Goto, Typed, TypeOK
<1>2. Same(job'[j], job[j])
  BY <1>1, ToSame
<1>3. \A n \in Nodes \ {job[j].node} : files'[n] = files[n]
  BY DEF Typed, TypeOK
<1> QED
  BY <1>1, <1>2, <1>3 DEF Confined, Same

\* What an operation on files leads to.
LEMMA Stored ==
  ASSUME Typed, NEW j \in Jobs, NEW after, NEW good, NEW partial, NEW bad,
         Disk(j, after, good, partial, bad)
  PROVE  /\ Confined(j) /\ images' = images /\ box' = box
         /\ \/ /\ job'[j] = To(j, good) /\ files'[job[j].node] = after
               /\ faults' = faults
            \/ /\ job'[j] = To(j, bad) /\ files'[job[j].node] = partial
               /\ faults' = faults + 1
<1>1. job[j].node \in Nodes /\ files \in [Nodes -> Places]
  BY DEF Typed, TypeOK, Places
<1>2. images' = images /\ box' = box /\ late' = late /\ deaths' = deaths
  BY DEF Disk
<1>3. CASE files' = [files EXCEPT ![job[j].node] = after] /\ Goto(j, good)
           /\ faults' = faults
  <2>1. Confined(j) /\ job'[j] = To(j, good)
    BY <1>2, <1>3, Gone
  <2> QED
    BY <1>1, <1>2, <1>3, <2>1
<1>4. CASE files' = [files EXCEPT ![job[j].node] = partial] /\ Goto(j, bad)
           /\ faults' = faults + 1
  <2>1. Confined(j) /\ job'[j] = To(j, bad)
    BY <1>2, <1>4, Gone
  <2> QED
    BY <1>1, <1>2, <1>4, <2>1
<1> QED
  BY <1>3, <1>4 DEF Disk, Fault

\* Every step of an execution is confined.
LEMMA DockerConfined ==
  ASSUME Typed, NEW j \in Jobs, DockerStep(j)
  PROVE  Confined(j)
<1>1. \A pc : Same(To(j, pc), job[j])
  BY ToSame
<1>2. CASE Start(j)
  BY <1>1, <1>2, Requested DEF Start
<1>3. CASE Stop(j)
  BY <1>1, <1>3, Requested DEF Stop
<1>4. CASE Restart(j)
  BY <1>1, <1>4, Requested DEF Restart
<1>5. CASE Inspect(j)
  <2> DEFINE good == [job[j] EXCEPT
                        !.old = Mine(j).tag,
                        !.pc = IF job[j].kind = "upgrade" THEN "pull" ELSE "unload"]
  <2>1. Same(good, job[j])
    BY DEF Same, Typed, TypeOK
  <2>2. Docker(j, Exists(job[j].node), Mine(j), good, To(j, "failed"))
    BY <1>5 DEF Inspect
  <2> HIDE DEF good
  <2> QED
    BY <1>1, <2>1, <2>2, Requested
<1>6. CASE Pull(j)
  <2>1. PICK pc : Goto(j, pc)
    BY <1>6 DEF Pull
  <2>2. /\ box' = box /\ files' = files /\ late' = late /\ deaths' = deaths
        /\ faults' \in {faults, faults + 1} /\ images \subseteq images'
    BY <1>6 DEF Pull, Fault
  <2> QED
    BY <2>1, <2>2, Gone
<1>7. CASE Unload(j)
  BY <1>1, <1>7, Requested DEF Unload
<1>8. CASE Delete(j)
  BY <1>1, <1>8, Requested DEF Delete
<1>9. CASE Create(j)
  BY <1>1, <1>9, Requested DEF Create
<1>10. CASE Run(j)
  <2> DEFINE can == IF ById(job[j].kind) THEN Mine(j).id = <<j, "new">>
                                         ELSE Exists(job[j].node)
             good == CASE job[j].kind = "upgrade" -> "verify"
                       [] job[j].kind = "restore" -> "drop"
                       [] OTHER                   -> "done"
             bad == IF job[j].kind = "upgrade" THEN "discard" ELSE "failed"
  <2>1. Docker(j, can, [Mine(j) EXCEPT !.up = TRUE], To(j, good), To(j, bad))
    BY <1>10 DEF Run
  <2> HIDE DEF can, good, bad
  <2> QED
    BY <1>1, <2>1, Requested
<1> QED
  BY <1>2, <1>3, <1>4, <1>5, <1>6, <1>7, <1>8, <1>9, <1>10 DEF DockerStep

\* So is every step of an upgrade, a restore, a reset and a clean-up.
LEMMA OtherConfined ==
  ASSUME Typed, NEW j \in Jobs,
         UpgradeStep(j) \/ RestoreStep(j) \/ OtherStep(j)
  PROVE  Confined(j)
<1>1. \A pc : Same(To(j, pc), job[j])
  BY ToSame
<1>2. CASE Discard(j) \/ Rollback(j) \/ RunOld(j) \/ Resume(j)
  BY <1>1, <1>2, Requested DEF Discard, Rollback, RunOld, Resume
<1>3. CASE Verify(j) \/ GiveUp(j) \/ Extract(j) \/ Extracted(j) \/ ExtractFails(j)
  <2>1. PICK pc : Goto(j, pc)
    BY <1>3 DEF Verify, GiveUp, Extract, Extracted, ExtractFails
  <2>2. /\ box' = box /\ images' = images /\ late' = late /\ deaths' = deaths
        /\ faults' \in {faults, faults + 1}
    BY <1>3 DEF Verify, GiveUp, Extract, Extracted, ExtractFails, Fault
  <2>3. files' = files \/ \E d : files' = [files EXCEPT ![job[j].node] = d]
    <3>1. CASE Verify(j) \/ GiveUp(j)
      BY <3>1 DEF Verify, GiveUp
    <3>2. CASE Extract(j)
      BY <3>2 DEF Extract
    <3>3. CASE Extracted(j)
      BY <3>3 DEF Extracted
    <3>4. CASE ExtractFails(j)
      BY <3>4 DEF ExtractFails
    <3> QED
      BY <1>3, <3>1, <3>2, <3>3, <3>4
  <2> QED
    BY <2>1, <2>2, <2>3, Gone
<1>4. CASE Preflight(j)
  <2>1. CASE Goto(j, "failed")
    BY <1>4, <2>1, Gone DEF Preflight
  <2>2. CASE \E keep \in BOOLEAN :
               job' = [job EXCEPT ![j] =
                 [@ EXCEPT !.keep = keep, !.had = HasData(Db(j)), !.pc = "stop"]]
    <3>1. PICK keep \in BOOLEAN :
            job' = [job EXCEPT ![j] =
              [@ EXCEPT !.keep = keep, !.had = HasData(Db(j)), !.pc = "stop"]]
      BY <2>2
    <3>2. /\ job'[j] = [job[j] EXCEPT !.keep = keep, !.had = HasData(Db(j)),
                                      !.pc = "stop"]
          /\ \A i \in Jobs \ {j} : job'[i] = job[i]
      BY <3>1 DEF Typed, TypeOK
    <3>3. job'[j].kind = job[j].kind /\ job'[j].node = job[j].node
      BY <3>2 DEF Typed, TypeOK
    <3> QED
      BY <1>4, <3>2, <3>3 DEF Confined, Preflight, At
  <2> QED
    BY <1>4, <2>1, <2>2 DEF Preflight
<1>5. CASE ClearOld(j) \/ MakeDir(j) \/ Undo(j) \/ Clear(j)
  BY <1>5, Stored DEF ClearOld, MakeDir, Undo, Clear
<1>6. CASE Rotate(j)
  <2>1. CASE Goto(j, "resume") /\ UNCHANGED <<box, images, files, late, faults, deaths>>
    BY <2>1, Gone
  <2> QED
    BY <1>6, <2>1, Stored DEF Rotate
<1>7. CASE PutBack(j)
  <2>1. CASE Goto(j, "resume") /\ UNCHANGED <<box, images, files, late, faults, deaths>>
    BY <2>1, Gone
  <2> QED
    BY <1>7, <2>1, Stored DEF PutBack
<1>8. CASE Drop(j)
  <2>1. CASE Goto(j, "done") /\ UNCHANGED <<box, images, files, late, faults, deaths>>
    BY <2>1, Gone
  <2> QED
    BY <1>8, <2>1, Stored DEF Drop
<1>9. CASE ListImages(j)
  BY <1>9, Gone DEF ListImages
<1>10. CASE RemoveImage(j)
  <2>1. job[j].kind = "prune"
    <3>1. At(j, {"untag"})
      BY <1>10 DEF RemoveImage
    <3> QED
      BY <3>1, Underway DEF Over, Path, AllKinds
  <2>2. PICK pc : Goto(j, pc)
    BY <1>10 DEF RemoveImage
  <2> QED
    BY <1>10, <2>1, <2>2, Gone DEF RemoveImage
<1> QED
  BY <1>2, <1>3, <1>4, <1>5, <1>6, <1>7, <1>8, <1>9, <1>10
     DEF UpgradeStep, RestoreStep, OtherStep

-----------------------------------------------------------------------------
(* Survival *)

NoPrune == \A j \in Jobs : job[j].kind # "prune"

\* The tags an execution with the record r will create a container from are
\* among the images is, unless a pull has failed unnoticed.
Stock(r, is, fl) ==
  /\ r.kind = "upgrade" /\ r.pc \notin Over \cup {"inspect"} => r.old \in is
  /\ r.kind \in {"restore", "reset"} /\ r.pc \in {"unload", "delete", "create"} =>
       r.old \in is
  /\ r.kind \in {"create", "upgrade"} /\ r.pc \in {"stop", "unload", "delete", "create"} =>
       r.tag \in is \/ fl > 0

Stocked == /\ \A n \in Nodes : Exists(n) => box[n].tag \in images
           /\ \A j \in Jobs : Stock(job[j], images, faults)

\* A node without a container has an execution about to create one.
Rebuilder(n) == \E j \in Jobs : job[j].node = n /\ job[j].pc \in {"create", "back"}
Removable(n) == \E j \in Jobs : job[j].node = n /\ job[j].kind = "remove"
Survivors == faults = 0 /\ deaths = 0 =>
               \A n \in Nodes : Removable(n) \/ Exists(n) \/ Rebuilder(n)

\* Running out of time is a failure.
Spent == late # {} => faults > 0

\* The inductive invariant, of commands that may overlap.
Supplied == Typed /\ Spent /\ (NoPrune => Stocked /\ Survivors)

\* A confined step keeps it, if it leaves a container whose image is there, or
\* none and the execution about to create one.
LEMMA SupplyFrame ==
  ASSUME Supplied, Typed', NEW j \in Jobs, Confined(j), job[j].kind # "prune",
         NoPrune => /\ box'[job[j].node] # NoBox => box'[job[j].node].tag \in images'
                    /\ Stock(job'[j], images', faults'),
         NoPrune /\ faults' = 0 /\ box'[job[j].node] = NoBox =>
           \/ job'[j].pc \in {"create", "back"}
           \/ job[j].kind = "remove"
           \/ Mine(j) = NoBox /\ job[j].pc \notin {"create", "back"}
  PROVE  Supplied'
<1> DEFINE m == job[j].node
<1>1. /\ m \in Nodes /\ faults \in Nat /\ faults' \in Nat /\ faults <= faults'
      /\ images \subseteq images' /\ deaths' = deaths /\ late' = late
      /\ job'[j].kind = job[j].kind /\ job'[j].node = m
  BY DEF Supplied, Typed, TypeOK, Confined
<1>2. Spent'
  BY <1>1 DEF Supplied, Spent
<1>3. \A i \in Jobs : job'[i].kind = job[i].kind /\ job'[i].node = job[i].node
  BY <1>1 DEF Confined
<1>4. ASSUME NoPrune' PROVE NoPrune
  BY <1>3, <1>4 DEF NoPrune
<1>5. ASSUME NoPrune' PROVE Stocked'
  <2>1. Stocked
    BY <1>4, <1>5 DEF Supplied
  <2>2. ASSUME NEW n \in Nodes, box'[n] # NoBox PROVE box'[n].tag \in images'
    <3>1. CASE n = m
      BY <1>4, <1>5, <2>2, <3>1
    <3>2. CASE n # m
      BY <1>1, <2>1, <2>2, <3>2 DEF Confined, Stocked, Exists
    <3> QED
      BY <3>1, <3>2
  <2>3. ASSUME NEW i \in Jobs PROVE Stock(job'[i], images', faults')
    <3>1. CASE i = j
      BY <1>4, <1>5, <3>1
    <3>2. CASE i # j
      <4>1. job'[i] = job[i] /\ Stock(job[i], images, faults)
        BY <2>1, <3>2 DEF Confined, Stocked
      <4>2. faults > 0 => faults' > 0
        BY <1>1
      <4> QED
        BY <1>1, <4>1, <4>2 DEF Stock
    <3> QED
      BY <3>1, <3>2
  <2> QED
    BY <2>2, <2>3 DEF Stocked, Exists, Stock
<1>6. ASSUME NoPrune', faults' = 0, deaths' = 0, NEW n \in Nodes,
             \A i \in Jobs : job[i].node = n => job[i].kind # "remove",
             box'[n] = NoBox
      PROVE  \E i \in Jobs : job'[i].node = n /\ job'[i].pc \in {"create", "back"}
  <2>1. faults = 0 /\ deaths = 0 /\ Survivors
    BY <1>1, <1>4, <1>6 DEF Supplied
  <2>2. box[n] = NoBox => Rebuilder(n)
    BY <1>6, <2>1 DEF Survivors, Removable, Exists
  <2>3. CASE box[n] = NoBox /\ ~(n = m /\ job[j].pc \in {"create", "back"})
    <3>1. PICK i \in Jobs : job[i].node = n /\ job[i].pc \in {"create", "back"}
      BY <2>2, <2>3 DEF Rebuilder
    <3>2. i # j
      BY <2>3, <3>1
    <3>3. job'[i] = job[i]
      BY <3>2 DEF Confined
    <3> QED
      BY <3>1, <3>3
  <2>4. CASE box[n] # NoBox \/ (n = m /\ job[j].pc \in {"create", "back"})
    <3>1. n = m
      BY <1>6, <2>4 DEF Confined
    <3>2. job'[j].pc \in {"create", "back"}
      BY <1>4, <1>6, <2>4, <3>1 DEF Mine
    <3> QED
      BY <1>1, <3>1, <3>2
  <2> QED
    BY <2>3, <2>4
<1>7. ASSUME NoPrune' PROVE Survivors'
  BY <1>3, <1>6, <1>7 DEF Survivors, Removable, Rebuilder, Exists
<1> QED
  BY <1>2, <1>5, <1>7 DEF Supplied

\* So does a request to Docker.
LEMMA SupplyDocker ==
  ASSUME Supplied, Typed', NEW j \in Jobs, job[j].kind # "prune",
         NEW can, NEW after, NEW good, NEW bad,
         Docker(j, can, after, good, bad), Same(good, job[j]), Same(bad, job[j]),
         NoPrune => /\ can => Stock(good, images, faults)
                    /\ Stock(bad, images, faults)
                    /\ can /\ after # NoBox => after.tag \in images,
         NoPrune /\ faults = 0 /\ can /\ after = NoBox =>
           good.pc \in {"create", "back"} \/ job[j].kind = "remove",
         NoPrune /\ faults = 0 /\ ~can /\ Mine(j) = NoBox =>
           \/ bad.pc \in {"create", "back"}
           \/ job[j].kind = "remove"
           \/ job[j].pc \notin {"create", "back"}
  PROVE  Supplied'
<1>1. /\ Confined(j) /\ images' = images
      /\ \/ can /\ job'[j] = good /\ box'[job[j].node] = after /\ faults' = faults
         \/ /\ ~can \/ j \in late
            /\ job'[j] = bad /\ box'[job[j].node] = Mine(j) /\ faults' = faults
         \/ /\ can /\ job'[j] = bad /\ faults' = faults + 1
            /\ box'[job[j].node] \in {after, Mine(j)}
  BY Requested DEF Supplied
<1>2. faults \in Nat /\ job[j].node \in Nodes /\ (late # {} => faults > 0)
  BY DEF Supplied, Typed, TypeOK, Spent
<1>3. NoPrune /\ Mine(j) # NoBox => Mine(j).tag \in images
  BY <1>2 DEF Supplied, Stocked, Exists, Mine
<1>4. NoPrune => /\ box'[job[j].node] # NoBox => box'[job[j].node].tag \in images'
                 /\ Stock(job'[j], images', faults')
  <2>1. NoPrune => Stock(bad, images, faults + 1)
    BY <1>2 DEF Stock
  <2> QED
    BY <1>1, <1>3, <2>1
<1>5. NoPrune /\ faults' = 0 /\ box'[job[j].node] = NoBox =>
           \/ job'[j].pc \in {"create", "back"}
           \/ job[j].kind = "remove"
           \/ Mine(j) = NoBox /\ job[j].pc \notin {"create", "back"}
  <2>1. j \in late => faults # 0
    BY <1>2
  <2>2. faults + 1 # 0
    BY <1>2
  <2> QED
    BY <1>1, <2>1, <2>2
<1> QED
  BY <1>1, <1>4, <1>5, SupplyFrame

\* A step at which no container is created or removed, and none is about to be.
LEMMA SupplySwitch ==
  ASSUME Supplied, Typed', NEW j \in Jobs, job[j].kind # "prune",
         job[j].pc \notin {"create", "back"}, Mine(j) \in Boxes,
         NEW can, NEW v \in BOOLEAN, NEW good, NEW bad, can => Mine(j) # NoBox,
         Docker(j, can, [Mine(j) EXCEPT !.up = v], To(j, good), To(j, bad)),
         NoPrune => /\ Stock(To(j, good), images, faults)
                    /\ Stock(To(j, bad), images, faults)
  PROVE  Supplied'
<1> DEFINE after == [Mine(j) EXCEPT !.up = v]
<1>1. Same(To(j, good), job[j]) /\ Same(To(j, bad), job[j])
  BY ToSame DEF Supplied
<1>2. after.tag = Mine(j).tag /\ (Mine(j) # NoBox => after # NoBox)
  BY DEF Boxes, Box, NoBox
<1>3. job[j].node \in Nodes
  BY DEF Supplied, Typed, TypeOK
<1>4. NoPrune /\ Mine(j) # NoBox => Mine(j).tag \in images
  BY <1>3 DEF Supplied, Stocked, Exists, Mine
<1> HIDE DEF after
<1>5. NoPrune => (can /\ after # NoBox => after.tag \in images)
  BY <1>2, <1>4
<1>6. Docker(j, can, after, To(j, good), To(j, bad))
  BY DEF after
<1> QED
  BY <1>1, <1>2, <1>5, <1>6, SupplyDocker

\* What an execution about to go to a step it knows needs.
LEMMA StockAt ==
  ASSUME Supplied, NoPrune, NEW j \in Jobs
  PROVE  Stock(job[j], images, faults)
  BY DEF Supplied, Stocked

\* The steps that commands share keep it.
LEMMA SupplyDockerStep ==
  ASSUME Supplied, Typed', NEW j \in Jobs, DockerStep(j)
  PROVE  Supplied'
<1>1. Typed /\ faults \in Nat /\ job[j] \in Job
  BY DEF Supplied, Typed, TypeOK, Job
<1>2. \A pc : /\ To(j, pc).pc = pc /\ To(j, pc).kind = job[j].kind
              /\ To(j, pc).tag = job[j].tag /\ To(j, pc).old = job[j].old
              /\ Same(To(j, pc), job[j])
  BY <1>1, ToSame DEF Same
<1>3. NoPrune => Stock(job[j], images, faults)
  BY StockAt
<1>4. CASE Start(j) \/ Restart(j)
  <2>1. /\ job[j].kind \in {"start", "restart"} /\ job[j].pc \in {"start", "restart"}
        /\ Mine(j) \in Boxes
    <3>1. At(j, {"start", "restart"})
      BY <1>4 DEF Start, Restart, At
    <3> QED
      BY <1>1, <3>1, Underway DEF Over, Path, AllKinds
  <2>2. \A pc : Stock(To(j, pc), images, faults)
    BY <1>2, <2>1 DEF Stock
  <2>3. Exists(job[j].node) => Mine(j) # NoBox
    BY DEF Exists, Mine
  <2> QED
    BY <1>4, <2>1, <2>2, <2>3, SupplySwitch DEF Start, Restart
<1>5. CASE Stop(j)
  <2> DEFINE good == Stopped(job[j].kind)
             bad == IF job[j].kind = "upgrade" THEN "unload" ELSE "failed"
  <2>1. /\ job[j].kind \in {"stop", "upgrade", "restore", "reset"}
        /\ job[j].pc = "stop" /\ Mine(j) \in Boxes
    BY <1>1, <1>5, Underway DEF Stop, Path, AllKinds, Over
  <2>2. NoPrune => Stock(To(j, good), images, faults) /\ Stock(To(j, bad), images, faults)
    BY <1>2, <1>3, <2>1 DEF Stock, Stopped, Over
  <2>3. Exists(job[j].node) => Mine(j) # NoBox
    BY DEF Exists, Mine
  <2>4. Docker(j, Exists(job[j].node), [Mine(j) EXCEPT !.up = FALSE],
               To(j, good), To(j, bad))
    BY <1>5 DEF Stop
  <2> HIDE DEF good, bad
  <2> QED
    BY <2>1, <2>2, <2>3, <2>4, SupplySwitch
<1>6. CASE Inspect(j)
  <2> DEFINE good == [job[j] EXCEPT
                        !.old = Mine(j).tag,
                        !.pc = IF job[j].kind = "upgrade" THEN "pull" ELSE "unload"]
  <2>1. /\ job[j].kind \in {"upgrade", "restore", "reset"}
        /\ job[j].pc = "inspect" /\ Mine(j) \in Boxes /\ job[j].node \in Nodes
    BY <1>1, <1>6, Underway DEF Inspect, Path, AllKinds, Over
  <2>2. /\ Same(good, job[j]) /\ good.kind = job[j].kind /\ good.tag = job[j].tag
        /\ good.old = Mine(j).tag
        /\ good.pc = IF job[j].kind = "upgrade" THEN "pull" ELSE "unload"
    BY <1>1 DEF Same, Job
  <2>3. Docker(j, Exists(job[j].node), Mine(j), good, To(j, "failed"))
    BY <1>6 DEF Inspect
  <2> HIDE DEF good
  <2>4. NoPrune /\ Exists(job[j].node) => Mine(j).tag \in images
    BY <2>1 DEF Supplied, Stocked, Mine
  <2>5. NoPrune => /\ Exists(job[j].node) => Stock(good, images, faults)
                   /\ Stock(To(j, "failed"), images, faults)
    BY <1>2, <2>1, <2>2, <2>4 DEF Stock, Over
  <2>6. Exists(job[j].node) => Mine(j) # NoBox
    BY DEF Exists, Mine
  <2> QED
    BY <1>2, <2>1, <2>2, <2>3, <2>4, <2>5, <2>6, SupplyDocker
<1>7. CASE Pull(j)
  <2>1. /\ job[j].kind \in {"create", "upgrade"} /\ job[j].pc = "pull"
        /\ job[j].node \in Nodes
    BY <1>1, <1>7, Underway DEF Pull, Path, AllKinds, Over
  <2>2. PICK pc \in {"create", "stop", "failed"} :
          /\ Goto(j, pc) /\ (job[j].kind = "create" => pc # "stop")
          /\ pc # "failed" => job[j].tag \in images' \/ faults' > 0
    BY <1>1, <1>7, <2>1 DEF Pull, Fault
  <2>3. /\ box' = box /\ files' = files /\ late' = late /\ deaths' = deaths
        /\ faults' \in {faults, faults + 1} /\ images \subseteq images'
    BY <1>7 DEF Pull, Fault
  <2>4. Confined(j) /\ job'[j] = To(j, pc)
    BY <1>1, <2>2, <2>3, Gone
  <2>5. NoPrune => Stock(job'[j], images', faults')
    BY <1>2, <1>3, <2>1, <2>2, <2>3, <2>4 DEF Stock, Over
  <2>6. NoPrune /\ Mine(j) # NoBox => Mine(j).tag \in images
    BY <2>1 DEF Supplied, Stocked, Exists, Mine
  <2> QED
    BY <2>1, <2>3, <2>4, <2>5, <2>6, SupplyFrame DEF Mine
<1>8. CASE Unload(j)
  <2> DEFINE next == IF At(j, {"unload"}) THEN "delete" ELSE "discard2"
  <2>1. /\ job[j].kind \in {"remove", "upgrade", "restore", "reset"}
        /\ job[j].pc \in {"unload", "discard"} /\ Mine(j) \in Boxes
    BY <1>1, <1>8, Underway DEF Unload, Path, AllKinds, Over
  <2>2. NoPrune => Stock(To(j, next), images, faults)
    BY <1>2, <1>3, <2>1 DEF Stock, Over, At
  <2>3. Exists(job[j].node) => Mine(j) # NoBox
    BY DEF Exists, Mine
  <2>4. Docker(j, Exists(job[j].node), [Mine(j) EXCEPT !.up = FALSE],
               To(j, next), To(j, next))
    BY <1>8 DEF Unload
  <2> HIDE DEF next
  <2> QED
    BY <2>1, <2>2, <2>3, <2>4, SupplySwitch
<1>9. CASE Delete(j)
  <2> DEFINE can == Mine(j).up => job[j].kind = "remove"
             bad == IF job[j].kind = "upgrade" THEN "back" ELSE "failed"
  <2>1. /\ job[j].kind \in {"remove", "upgrade", "restore", "reset"}
        /\ job[j].pc = "delete"
    BY <1>1, <1>9, Underway DEF Delete, Path, AllKinds, Over
  <2>2. NoPrune => /\ Stock(To(j, Deleted(j)), images, faults)
                   /\ Stock(To(j, bad), images, faults)
    BY <1>2, <1>3, <2>1 DEF Stock, Over, Deleted
  <2>3. Docker(j, can, NoBox, To(j, Deleted(j)), To(j, bad))
    BY <1>9 DEF Delete
  <2>4. To(j, Deleted(j)).pc \in {"create", "back"} \/ job[j].kind = "remove"
    BY <1>2 DEF Deleted
  <2> HIDE DEF can, bad
  <2> QED
    BY <1>2, <2>1, <2>2, <2>3, <2>4, SupplyDocker
<1>10. CASE Create(j)
  <2> DEFINE can == CanCreate(j, NewBox(j))
             bad == IF job[j].kind = "upgrade" THEN "back" ELSE "failed"
  <2>1. /\ job[j].kind \in {"create", "upgrade", "restore", "reset"}
        /\ job[j].pc = "create"
    BY <1>1, <1>10, Underway DEF Create, Path, AllKinds, Over
  <2>2. NoPrune => /\ Stock(To(j, "run"), images, faults)
                   /\ Stock(To(j, bad), images, faults)
    BY <1>2, <1>3, <2>1 DEF Stock, Over
  <2>3. Docker(j, can, NewBox(j), To(j, "run"), To(j, bad))
    BY <1>10 DEF Create
  <2>4. NewBox(j).id = <<j, "new">> /\ NoBox.id = <<NoJob, "none">>
    BY DEF NewBox, NoBox
  <2>5. NewBox(j) # NoBox
    BY <2>4
  <2>6. can => NewBox(j).tag \in images
    BY DEF CanCreate
  <2>7. NoPrune /\ faults = 0 => NewBox(j).tag \in images
    BY <1>3, <2>1 DEF NewBox, Stock, Over
  <2>8. NoPrune /\ faults = 0 /\ ~can => Mine(j) # NoBox
    BY <2>7 DEF CanCreate, Exists, Mine
  <2> HIDE DEF can, bad
  <2> QED
    BY <1>2, <2>1, <2>2, <2>3, <2>5, <2>6, <2>8, SupplyDocker
<1>11. CASE Run(j)
  <2> DEFINE can == IF ById(job[j].kind) THEN Mine(j).id = <<j, "new">>
                                         ELSE Exists(job[j].node)
             good == CASE job[j].kind = "upgrade" -> "verify"
                       [] job[j].kind = "restore" -> "drop"
                       [] OTHER                   -> "done"
             bad == IF job[j].kind = "upgrade" THEN "discard" ELSE "failed"
  <2>1. /\ job[j].kind \in {"create", "upgrade", "restore", "reset"}
        /\ job[j].pc = "run" /\ Mine(j) \in Boxes
    BY <1>1, <1>11, Underway DEF Run, Path, AllKinds, Over
  <2>2. NoPrune => Stock(To(j, good), images, faults) /\ Stock(To(j, bad), images, faults)
    BY <1>2, <1>3, <2>1 DEF Stock, Over
  <2>3. can => Mine(j) # NoBox
    BY DEF Exists, Mine, NoBox
  <2>4. Docker(j, can, [Mine(j) EXCEPT !.up = TRUE], To(j, good), To(j, bad))
    BY <1>11 DEF Run
  <2> HIDE DEF can, good, bad
  <2> QED
    BY <2>1, <2>2, <2>3, <2>4, SupplySwitch
<1> QED
  BY <1>4, <1>5, <1>6, <1>7, <1>8, <1>9, <1>10, <1>11 DEF DockerStep

\* A step that touches no container and takes nothing from the images.
LEMMA SupplyQuiet ==
  ASSUME Supplied, Typed', NEW j \in Jobs, job[j].kind # "prune", Confined(j),
         box' = box, job[j].pc \notin {"create", "back"},
         NoPrune => Stock(job'[j], images', faults')
  PROVE  Supplied'
<1>1. job[j].node \in Nodes /\ images \subseteq images'
  BY DEF Supplied, Typed, TypeOK, Confined
<1>2. NoPrune /\ Mine(j) # NoBox => Mine(j).tag \in images
  BY <1>1 DEF Supplied, Stocked, Exists, Mine
<1> QED
  BY <1>1, <1>2, SupplyFrame DEF Mine

\* The steps of an upgrade of its own keep it.
LEMMA SupplyUpgradeStep ==
  ASSUME Supplied, Typed', NEW j \in Jobs, UpgradeStep(j)
  PROVE  Supplied'
<1>1. Typed /\ faults \in Nat /\ job[j] \in Job
  BY DEF Supplied, Typed, TypeOK, Job
<1>2. \A pc : /\ To(j, pc).pc = pc /\ To(j, pc).kind = job[j].kind
              /\ To(j, pc).tag = job[j].tag /\ To(j, pc).old = job[j].old
              /\ Same(To(j, pc), job[j])
  BY <1>1, ToSame DEF Same
<1>3. NoPrune => Stock(job[j], images, faults)
  BY StockAt
<1>4. job[j].kind = "upgrade" /\ job[j].pc \in {"verify", "discard2", "back", "rerun"}
      /\ Mine(j) \in Boxes
  <2>1. At(j, {"verify", "discard2", "back", "rerun"})
    BY DEF UpgradeStep, Verify, GiveUp, Discard, Rollback, RunOld, At
  <2> QED
    BY <1>1, <2>1, Underway DEF Over, Path, AllKinds
<1>5. NoPrune => \A pc : pc \notin {"stop", "unload", "delete", "create"} =>
                           Stock(To(j, pc), images, faults)
  BY <1>2, <1>3, <1>4 DEF Stock, Over
<1>6. CASE Verify(j) \/ GiveUp(j)
  <2>1. PICK pc \in {"done", "discard"} : Goto(j, pc)
    BY <1>6 DEF Verify, GiveUp
  <2>2. /\ box' = box /\ images' = images /\ files' = files /\ late' = late
        /\ deaths' = deaths /\ faults' \in {faults, faults + 1}
        /\ job[j].pc = "verify"
    BY <1>6 DEF Verify, GiveUp, Fault, At
  <2>3. Confined(j) /\ job'[j] = To(j, pc)
    BY <1>1, <2>1, <2>2, Gone
  <2>4. NoPrune => Stock(job'[j], images', faults')
    BY <1>2, <1>3, <1>4, <2>1, <2>2, <2>3 DEF Stock, Over
  <2> QED
    BY <1>4, <2>2, <2>3, <2>4, SupplyQuiet
<1>7. CASE Discard(j)
  <2>1. Docker(j, TRUE, NoBox, To(j, "back"), To(j, "back"))
    BY <1>7 DEF Discard
  <2> QED
    BY <1>2, <1>4, <1>5, <2>1, SupplyDocker
<1>8. CASE Rollback(j)
  <2> DEFINE can == CanCreate(j, OldBox(j))
  <2>1. Docker(j, can, OldBox(j), To(j, "rerun"), To(j, "failed")) /\ job[j].pc = "back"
    BY <1>8 DEF Rollback, At
  <2>2. OldBox(j).id = <<j, "back">> /\ NoBox.id = <<NoJob, "none">>
    BY DEF OldBox, NoBox
  <2>3. OldBox(j) # NoBox
    BY <2>2
  <2>4. can => OldBox(j).tag \in images
    BY DEF CanCreate
  <2>5. NoPrune => OldBox(j).tag \in images
    BY <1>3, <1>4, <2>1 DEF OldBox, Stock, Over
  <2>6. NoPrune /\ ~can => Mine(j) # NoBox
    BY <2>5 DEF CanCreate, Exists, Mine
  <2> HIDE DEF can
  <2> QED
    BY <1>2, <1>4, <1>5, <2>1, <2>3, <2>4, <2>6, SupplyDocker
<1>9. CASE RunOld(j)
  <2>1. Mine(j).id = <<j, "back">> => Mine(j) # NoBox
    BY DEF NoBox
  <2>2. Docker(j, Mine(j).id = <<j, "back">>, [Mine(j) EXCEPT !.up = TRUE],
               To(j, "failed"), To(j, "failed")) /\ job[j].pc = "rerun"
    BY <1>9 DEF RunOld, At
  <2> QED
    BY <1>4, <1>5, <2>1, <2>2, SupplySwitch
<1> QED
  BY <1>6, <1>7, <1>8, <1>9 DEF UpgradeStep

\* The steps on directories keep it.
LEMMA SupplyFileStep ==
  ASSUME Supplied, Typed', NEW j \in Jobs, RestoreStep(j) \/ Clear(j)
  PROVE  Supplied'
<1>1. Typed /\ faults \in Nat /\ job[j] \in Job
  BY DEF Supplied, Typed, TypeOK, Job
<1>2. \A pc : To(j, pc).pc = pc /\ To(j, pc).kind = job[j].kind
  BY <1>1, ToSame DEF Same
<1>3. /\ job[j].kind \in {"restore", "reset"} /\ job[j].pc \notin {"create", "back"}
      /\ Mine(j) \in Boxes
  <2>1. At(j, {"preflight", "clearold", "rotate", "mkdir", "download", "extract",
               "undo", "putback", "resume", "drop", "clear"})
    BY DEF RestoreStep, Preflight, ClearOld, Rotate, MakeDir, Extract, Extracted,
       ExtractFails, Undo, PutBack, Resume, Drop, Clear, At
  <2>2. job[j].pc \notin {"create", "back"}
    BY <2>1 DEF At
  <2> QED
    BY <1>1, <2>1, <2>2, Underway DEF Over, Path, AllKinds
<1>4. Confined(j)
  BY <1>1, OtherConfined DEF OtherStep
<1>5. CASE Resume(j)
  <2>1. Docker(j, Exists(job[j].node), [Mine(j) EXCEPT !.up = TRUE],
               To(j, "failed"), To(j, "failed"))
    BY <1>5 DEF Resume
  <2>2. Stock(To(j, "failed"), images, faults)
    BY <1>2, <1>3 DEF Stock
  <2>3. Exists(job[j].node) => Mine(j) # NoBox
    BY DEF Exists, Mine
  <2> QED
    BY <1>3, <2>1, <2>2, <2>3, SupplySwitch
<1>6. CASE ~Resume(j)
  <2>1. box' = box
    BY <1>6 DEF RestoreStep, Preflight, ClearOld, Rotate, MakeDir, Extract, Extracted,
       ExtractFails, Undo, PutBack, Drop, Clear, Disk
  <2>2. job'[j].pc \notin {"unload", "delete", "create"}
    <3>1. ASSUME NEW pc, Goto(j, pc), pc \notin {"unload", "delete", "create"}
          PROVE  job'[j].pc \notin {"unload", "delete", "create"}
      BY <1>1, <1>2, <3>1 DEF Goto, Typed, TypeOK
    <3>2. CASE Preflight(j) /\ ~Goto(j, "failed")
      <4>1. PICK keep \in BOOLEAN :
              job' = [job EXCEPT ![j] =
                [@ EXCEPT !.keep = keep, !.had = HasData(Db(j)), !.pc = "stop"]]
        BY <3>2 DEF Preflight
      <4>2. job'[j] = [job[j] EXCEPT !.keep = keep, !.had = HasData(Db(j)),
                                     !.pc = "stop"]
        BY <4>1 DEF Typed, TypeOK, Supplied
      <4>3. job'[j].pc = "stop"
        BY <1>1, <4>2 DEF Job
      <4> QED
        BY <4>3
    <3>3. CASE ~(Preflight(j) /\ ~Goto(j, "failed"))
      <4>1. \E pc : Goto(j, pc) /\ pc \notin {"unload", "delete", "create"}
        <5>1. CASE ClearOld(j) \/ MakeDir(j) \/ Undo(j) \/ Clear(j)
          BY <1>3, <5>1 DEF ClearOld, MakeDir, Undo, Clear, Disk, Undoing
        <5>2. CASE Rotate(j) \/ PutBack(j) \/ Drop(j)
          BY <5>2 DEF Rotate, PutBack, Drop, Disk
        <5>3. CASE Extract(j) \/ Extracted(j) \/ ExtractFails(j)
          BY <5>3 DEF Extract, Extracted, ExtractFails, Undoing
        <5>4. CASE Goto(j, "failed")
          BY <5>4
        <5> QED
          BY <1>6, <3>3, <5>1, <5>2, <5>3, <5>4 DEF RestoreStep
      <4> QED
        BY <3>1, <4>1
    <3> QED
      BY <3>2, <3>3
  <2>3. job'[j].kind \in {"restore", "reset"}
    BY <1>3, <1>4 DEF Confined
  <2>4. Stock(job'[j], images', faults')
    BY <2>2, <2>3 DEF Stock
  <2> QED
    BY <1>3, <1>4, <2>1, <2>4, SupplyQuiet
<1> QED
  BY <1>5, <1>6

\* So do an arrival, an expiry, a death, a bootstrap and an image clean-up.
LEMMA SupplyOther ==
  ASSUME Supplied, Typed', NEW j \in Jobs,
         \/ Begin(j) \/ Expire(j) \/ ListImages(j) \/ RemoveImage(j)
         \/ Die \/ (\E n \in Nodes : Bootstrap(n)) \/ UNCHANGED vars
  PROVE  Supplied'
<1>1. /\ Typed /\ Spent /\ faults \in Nat /\ deaths \in Nat /\ job[j] \in Job
      /\ faults' \in Nat
  BY DEF Supplied, Typed, TypeOK, Job
<1>2. CASE Begin(j)
  <2>1. PICK r : job' = [job EXCEPT ![j] = r]
                 /\ r.pc \notin Over
                 /\ (r.kind = "upgrade" => r.pc = "inspect")
                 /\ (r.kind \in {"restore", "reset"} => r.pc \in {"preflight", "stop"})
                 /\ (r.kind = "create" => r.pc = "pull")
    <3>1. PICK kind \in Kinds, n \in Nodes, t \in Tags :
             job' = [job EXCEPT ![j] =
               [Idle EXCEPT !.kind = kind, !.node = n, !.tag = t, !.pc = First(kind)]]
      BY <1>2 DEF Begin
    <3> DEFINE r == [Idle EXCEPT !.kind = kind, !.node = n, !.tag = t, !.pc = First(kind)]
    <3>2. r.kind = kind /\ r.pc = First(kind)
      BY DEF Idle
    <3>3. /\ kind = "upgrade" => First(kind) = "inspect"
          /\ kind = "restore" => First(kind) = "preflight"
          /\ kind = "reset" => First(kind) = "stop"
          /\ kind = "create" => First(kind) = "pull"
          /\ kind = "remove" => First(kind) = "unload"
          /\ kind = "prune" => First(kind) = "list"
          /\ kind \in {"start", "stop", "restart"} => First(kind) = kind
      BY DEF First
    <3>4. kind \in AllKinds
      BY HostAssumption
    <3>5. /\ First(kind) \notin Over
          /\ (kind = "upgrade" => First(kind) = "inspect")
          /\ (kind \in {"restore", "reset"} => First(kind) \in {"preflight", "stop"})
          /\ (kind = "create" => First(kind) = "pull")
      BY <3>3, <3>4 DEF AllKinds, Over
    <3> HIDE DEF r
    <3> QED
      BY <3>1, <3>2, <3>5 DEF r
  <2>2. job'[j] = r /\ \A i \in Jobs \ {j} : job'[i] = job[i]
    BY <1>1, <2>1 DEF Typed, TypeOK
  <2>3. UNCHANGED <<box, images, late, faults, deaths>> /\ job[j].pc = "idle"
    BY <1>2 DEF Begin
  <2>4. job[j].kind = "none"
    BY <1>1, <2>3, Paths DEF Typed, OnPath, Path, Over, AllKinds
  <2>5. Stock(r, images, faults)
    BY <2>1 DEF Stock
  <2>6. NoPrune' => NoPrune
    BY <2>2, <2>4 DEF NoPrune
  <2>7. NoPrune' => Stocked'
    BY <2>2, <2>3, <2>5, <2>6 DEF Supplied, Stocked, Exists
  <2>8. NoPrune' => Survivors'
    <3> SUFFICES ASSUME NoPrune', faults = 0, deaths = 0, NEW n \in Nodes,
                        ~Removable(n)', box[n] = NoBox
                 PROVE  Rebuilder(n)'
      BY <2>3 DEF Survivors, Exists
    <3>1. ~Removable(n)
      BY <2>2, <2>4 DEF Removable
    <3>2. Rebuilder(n)
      BY <2>6, <3>1 DEF Supplied, Survivors, Exists
    <3> QED
      BY <2>2, <2>3, <3>2 DEF Rebuilder
  <2> QED
    BY <1>1, <2>3, <2>7, <2>8 DEF Supplied, Spent
<1>3. CASE Expire(j)
  <2>1. faults' = faults + 1 /\ UNCHANGED <<box, images, job, deaths>>
    BY <1>3 DEF Expire, Fault
  <2>2. faults' > 0
    BY <1>1, <2>1
  <2>3. NoPrune' => Stocked'
    BY <2>1, <2>2 DEF Supplied, Stocked, Exists, Stock, NoPrune
  <2> QED
    BY <2>2, <2>3 DEF Supplied, Spent, Survivors
<1>4. CASE ListImages(j) \/ RemoveImage(j)
  <2>1. job[j].kind = "prune"
    <3>1. At(j, {"list", "untag"})
      BY <1>4 DEF ListImages, RemoveImage, At
    <3> QED
      BY <1>1, <3>1, Underway DEF Over, Path, AllKinds
  <2>2. Confined(j) /\ faults' = faults
    BY <1>1, <1>4, OtherConfined DEF OtherStep, ListImages, RemoveImage
  <2>3. ~NoPrune'
    BY <2>1, <2>2 DEF NoPrune, Confined
  <2>4. Spent'
    BY <1>1, <2>2 DEF Spent, Confined
  <2> QED
    BY <2>3, <2>4 DEF Supplied
<1>5. CASE Die
  <2>1. UNCHANGED <<box, images, late, faults>> /\ deaths' # 0
    BY <1>1, <1>5 DEF Die
  <2>2. \A i \in Jobs : job'[i] = job[i] \/ job'[i] = To(i, "lost")
    BY <1>5 DEF Die
  <2>3. \A i \in Jobs : To(i, "lost").kind = job[i].kind /\ To(i, "lost").pc = "lost"
    BY <1>1, ToSame DEF Same
  <2>4. \A i \in Jobs : job'[i].kind = job[i].kind
    BY <2>2, <2>3
  <2>5. NoPrune' => NoPrune
    BY <2>4 DEF NoPrune
  <2>6. \A i \in Jobs : Stock(To(i, "lost"), images, faults)
    BY <2>3 DEF Stock, Over
  <2>7. NoPrune' => Stocked'
    <3> SUFFICES ASSUME NoPrune' PROVE Stocked'
      OBVIOUS
    <3>1. Stocked
      BY <2>5 DEF Supplied
    <3>2. \A i \in Jobs : Stock(job'[i], images, faults)
      BY <2>2, <2>6, <3>1 DEF Stocked
    <3> QED
      BY <2>1, <3>1, <3>2 DEF Stocked, Exists
  <2> QED
    BY <1>1, <2>1, <2>7 DEF Supplied, Spent, Survivors
<1>6. CASE \E n \in Nodes : Bootstrap(n)
  <2>1. UNCHANGED <<box, images, job, late, faults, deaths>>
    BY <1>6 DEF Bootstrap
  <2> QED
    BY <2>1 DEF Supplied, Spent, NoPrune, Stocked, Exists, Survivors, Removable, Rebuilder
<1>7. CASE UNCHANGED vars
  BY <1>7 DEF Supplied, Spent, NoPrune, Stocked, Exists, Survivors, Removable, Rebuilder
<1> QED
  BY <1>2, <1>3, <1>4, <1>5, <1>6, <1>7

\* At first nothing is missing.
LEMMA SupplyInit == Init => Supplied
<1> SUFFICES ASSUME Init PROVE Supplied
  OBVIOUS
<1>1. Typed
  BY TypedInit
<1>2. Spent
  BY DEF Init, Spent
<1>3. Stocked
  BY DEF Init, Stocked, Stock, Idle
<1>4. \A n \in Nodes : box[n].id = <<NoJob, "first">> /\ NoBox.id = <<NoJob, "none">>
  BY DEF Init, NoBox
<1>5. Survivors
  BY <1>4 DEF Survivors, Exists
<1> QED
  BY <1>1, <1>2, <1>3, <1>5 DEF Supplied

\* No step makes anything missing.
LEMMA SupplyStep ==
  ASSUME Supplied, [Next]_vars
  PROVE  Supplied'
<1>1. Typed'
  BY TypedStep DEF Supplied
<1>2. CASE \E j \in Jobs : \/ Begin(j) \/ Expire(j) \/ DockerStep(j) \/ UpgradeStep(j)
                           \/ RestoreStep(j) \/ OtherStep(j)
  BY <1>1, <1>2, SupplyDockerStep, SupplyUpgradeStep, SupplyFileStep, SupplyOther
     DEF OtherStep
<1>3. CASE Die \/ (\E n \in Nodes : Bootstrap(n)) \/ UNCHANGED vars
  <2>1. CASE \E j \in Jobs : TRUE
    BY <1>1, <1>3, <2>1, SupplyOther
  <2>2. CASE ~\E j \in Jobs : TRUE
    <3>1. UNCHANGED <<box, images, late, faults, deaths>>
      BY <1>3, <2>2 DEF Die, Bootstrap
    <3> QED
      BY <1>1, <2>2, <3>1 DEF Supplied, Spent, NoPrune, Stocked, Exists, Survivors,
         Removable, Rebuilder
  <2> QED
    BY <2>1, <2>2
<1> QED
  BY <1>2, <1>3 DEF Next

\* Without failures, whatever commands overlap on a node, it has a container again
\* when they are all over, unless it was asked to be removed or images were cleaned
\* up meanwhile.
THEOREM Survival == Spec => []NodeSurvives
<1>1. Supplied => NodeSurvives
  <2> SUFFICES ASSUME Supplied, faults = 0, deaths = 0,
                      \A j \in Jobs : ~Running(j) /\ job[j].kind # "prune",
                      NEW n \in Nodes,
                      \A j \in Jobs : job[j].node = n => job[j].kind # "remove"
               PROVE  Exists(n)
    BY DEF NodeSurvives
  <2>1. ~Removable(n) /\ NoPrune
    BY DEF Removable, NoPrune
  <2>2. ~Rebuilder(n)
    BY DEF Rebuilder, Running, Over
  <2> QED
    BY <2>1, <2>2 DEF Supplied, Survivors
<1>2. Supplied /\ [Next]_vars => Supplied'
  BY SupplyStep
<1> QED
  BY <1>1, <1>2, SupplyInit, PTL DEF Spec

-----------------------------------------------------------------------------
(* What an upgrade leaves behind *)

\* What holds of the container b of its node when an upgrade with the record r is
\* at its step, after fl failures.
UpgradeAt(j, r, b, fl) ==
  r.kind = "upgrade" =>
    /\ r.pc \in {"pull", "stop", "unload", "delete", "run", "verify", "rerun"} => b # NoBox
    /\ r.pc = "delete" => ~b.up \/ fl > 0
    /\ r.pc = "create" => b = NoBox \/ fl > 0
    /\ r.pc = "run" => b.id = <<j, "new">>
    /\ r.pc = "verify" => b.up
    /\ r.pc \in {"discard", "discard2", "back", "rerun"} => fl > 0

Upgrades == NoPrune => \A j \in Jobs : UpgradeAt(j, job[j], box[job[j].node], faults)

Guarded == Orderly /\ Supplied /\ Upgrades

\* An execution that is not busy is at no step of an upgrade.
LEMMA NoUpgrade ==
  ASSUME Typed, NEW i \in Jobs, ~Busy(i), NEW b, NEW fl
  PROVE  UpgradeAt(i, job[i], b, fl)
  BY DEF Typed, OnPath, Busy, Running, Over, UpgradeAt, Path

\* A confined step keeps every upgrade in its place but that of its own.
LEMMA UpgradeFrame ==
  ASSUME Orderly, Upgrades, NEW j \in Jobs, Busy(j), Confined(j),
         NoPrune => UpgradeAt(j, job'[j], box'[job[j].node], faults')
  PROVE  Upgrades'
<1>1. job'[j].node = job[j].node /\ faults \in Nat /\ (faults > 0 => faults' > 0)
  BY DEF Confined, Orderly, Typed, TypeOK
<1>2. \A i \in Jobs : job'[i].kind = job[i].kind
  BY DEF Confined
<1> SUFFICES ASSUME NoPrune', NEW i \in Jobs
             PROVE  UpgradeAt(i, job'[i], box'[job'[i].node], faults')
  BY DEF Upgrades, UpgradeAt
<1>3. NoPrune
  BY <1>2 DEF NoPrune
<1>4. CASE i = j
  BY <1>1, <1>3, <1>4
<1>5. CASE i # j /\ Busy(i)
  <2>1. job'[i] = job[i] /\ job[i].node \in Nodes \ {job[j].node}
    BY <1>5 DEF Confined, Orderly, Alone, Typed, TypeOK
  <2>2. box'[job[i].node] = box[job[i].node]
    BY <2>1 DEF Confined
  <2>3. UpgradeAt(i, job[i], box[job[i].node], faults)
    BY <1>3 DEF Upgrades
  <2> QED
    BY <1>1, <2>1, <2>2, <2>3 DEF UpgradeAt
<1>6. CASE i # j /\ ~Busy(i)
  <2>1. job'[i] = job[i]
    BY <1>6 DEF Confined
  <2> QED
    BY <1>6, <2>1, NoUpgrade DEF Orderly
<1> QED
  BY <1>4, <1>5, <1>6

\* What is known of an upgrade at its step.
LEMMA Upgrading ==
  ASSUME Guarded, NEW j \in Jobs, job[j].kind = "upgrade", NoPrune
  PROVE  /\ job[j] \in Job /\ Mine(j) \in Boxes /\ faults \in Nat
         /\ UpgradeAt(j, job[j], Mine(j), faults)
         /\ (late # {} => faults > 0) /\ Stock(job[j], images, faults)
  BY DEF Guarded, Orderly, Supplied, Typed, TypeOK, Job, Boxes, Mine, Upgrades, Spent, Stocked

\* A request of an upgrade to Docker.
LEMMA UpgradeDocker ==
  ASSUME Guarded, NEW j \in Jobs, job[j].kind = "upgrade", Busy(j),
         NEW can, NEW after, NEW good, NEW bad,
         Docker(j, can, after, good, bad), Same(good, job[j]), Same(bad, job[j]),
         NoPrune => /\ can => UpgradeAt(j, good, after, faults)
                    /\ can => UpgradeAt(j, bad, after, faults + 1)
                    /\ UpgradeAt(j, bad, Mine(j), faults + 1)
                    /\ ~can => UpgradeAt(j, bad, Mine(j), faults)
  PROVE  Upgrades'
<1>1. /\ Confined(j) /\ images' = images
      /\ \/ can /\ job'[j] = good /\ box'[job[j].node] = after /\ faults' = faults
         \/ /\ ~can \/ j \in late
            /\ job'[j] = bad /\ box'[job[j].node] = Mine(j) /\ faults' = faults
         \/ /\ can /\ job'[j] = bad /\ faults' = faults + 1
            /\ box'[job[j].node] \in {after, Mine(j)}
  BY Requested DEF Guarded, Orderly
<1>2. NoPrune => UpgradeAt(j, job'[j], box'[job[j].node], faults')
  <2> SUFFICES ASSUME NoPrune PROVE UpgradeAt(j, job'[j], box'[job[j].node], faults')
    OBVIOUS
  <2>1. faults \in Nat /\ (j \in late => faults > 0)
    BY Upgrading
  <2>2. faults > 0 /\ UpgradeAt(j, bad, Mine(j), faults + 1)
          => UpgradeAt(j, bad, Mine(j), faults)
    BY <2>1 DEF UpgradeAt
  <2> QED
    BY <1>1, <2>1, <2>2
<1> QED
  BY <1>1, <1>2, UpgradeFrame DEF Guarded

\* The steps of an upgrade keep it in its place.
LEMMA UpgradeDockerStep ==
  ASSUME Guarded, NEW j \in Jobs, job[j].kind = "upgrade", DockerStep(j)
  PROVE  Upgrades'
<1>1. Orderly /\ Typed /\ faults \in Nat /\ job[j] \in Job
  BY DEF Guarded, Orderly, Typed, TypeOK, Job
<1>2. \A pc : /\ To(j, pc).pc = pc /\ To(j, pc).kind = "upgrade"
              /\ To(j, pc).tag = job[j].tag /\ To(j, pc).old = job[j].old
              /\ Same(To(j, pc), job[j])
  BY <1>1, ToSame DEF Same
<1>3. NoPrune => /\ UpgradeAt(j, job[j], Mine(j), faults)
                 /\ Stock(job[j], images, faults)
  BY Upgrading
<1>4. /\ Busy(j) /\ Mine(j) \in Boxes
      /\ job[j].pc \in {"stop", "inspect", "pull", "unload", "discard", "delete", "create", "run"}
  <2>1. At(j, {"start", "restart", "stop", "inspect", "pull", "unload", "discard",
               "delete", "create", "run"})
    BY DEF DockerStep, Start, Restart, Stop, Inspect, Pull, Unload, Delete, Create, Run, At
  <2> QED
    BY <1>1, <2>1, Acting DEF Over, Path
<1>5. \A v \in BOOLEAN : /\ Mine(j) # NoBox => [Mine(j) EXCEPT !.up = v] # NoBox
                         /\ [Mine(j) EXCEPT !.up = v].up = v
                         /\ [Mine(j) EXCEPT !.up = v].id = Mine(j).id
  BY <1>4 DEF Boxes, Box, NoBox
<1>6. CASE Stop(j)
  <2>1. Stopped("upgrade") = "unload"
    BY DEF Stopped
  <2>2. Docker(j, Exists(job[j].node), [Mine(j) EXCEPT !.up = FALSE],
               To(j, "unload"), To(j, "unload"))
    BY <1>6, <2>1 DEF Stop
  <2>3. NoPrune => Mine(j) # NoBox
    BY <1>3, <1>6 DEF UpgradeAt, Stop, At
  <2> DEFINE can == Exists(job[j].node)
             after == [Mine(j) EXCEPT !.up = FALSE]
  <2>4. NoPrune => /\ after # NoBox /\ Mine(j) # NoBox
    BY <1>5, <2>3
  <2> HIDE DEF can, after
  <2>5. NoPrune => /\ UpgradeAt(j, To(j, "unload"), after, faults)
                   /\ UpgradeAt(j, To(j, "unload"), after, faults + 1)
                   /\ UpgradeAt(j, To(j, "unload"), Mine(j), faults + 1)
                   /\ UpgradeAt(j, To(j, "unload"), Mine(j), faults)
    BY <1>2, <2>4 DEF UpgradeAt
  <2> QED
    BY <1>2, <1>4, <2>2, <2>5, UpgradeDocker DEF can, after
<1>7. CASE Inspect(j)
  <2> DEFINE good == [job[j] EXCEPT
                        !.old = Mine(j).tag,
                        !.pc = IF job[j].kind = "upgrade" THEN "pull" ELSE "unload"]
             can == Exists(job[j].node)
  <2>1. Same(good, job[j]) /\ good.kind = "upgrade" /\ good.pc = "pull"
    BY <1>1 DEF Same, Job
  <2>2. Docker(j, can, Mine(j), good, To(j, "failed"))
    BY <1>7 DEF Inspect
  <2>3. can => Mine(j) # NoBox
    BY DEF Exists, Mine
  <2> HIDE DEF good, can
  <2>4. can => UpgradeAt(j, good, Mine(j), faults)
    BY <2>1, <2>3 DEF UpgradeAt
  <2>5. \A b, fl : UpgradeAt(j, To(j, "failed"), b, fl)
    BY <1>2 DEF UpgradeAt
  <2> QED
    BY <1>2, <1>4, <2>1, <2>2, <2>4, <2>5, UpgradeDocker
<1>8. CASE Pull(j)
  <2>1. PICK pc \in {"stop", "failed"} : Goto(j, pc)
    BY <1>8 DEF Pull
  <2>2. /\ box' = box /\ files' = files /\ late' = late /\ deaths' = deaths
        /\ faults' \in {faults, faults + 1} /\ images \subseteq images'
        /\ job[j].pc = "pull"
    BY <1>8 DEF Pull, Fault, At
  <2>3. Confined(j) /\ job'[j] = To(j, pc)
    BY <1>1, <2>1, <2>2, Gone
  <2>4. NoPrune => UpgradeAt(j, job'[j], box'[job[j].node], faults')
    BY <1>2, <1>3, <2>1, <2>2, <2>3 DEF UpgradeAt, Mine
  <2> QED
    BY <1>4, <2>3, <2>4, UpgradeFrame DEF Guarded
<1>9. CASE Unload(j)
  <2> DEFINE next == IF At(j, {"unload"}) THEN "delete" ELSE "discard2"
             can == Exists(job[j].node)
             after == [Mine(j) EXCEPT !.up = FALSE]
  <2>1. Docker(j, can, after, To(j, next), To(j, next))
    BY <1>9 DEF Unload
  <2>2. \/ next = "delete" /\ job[j].pc = "unload"
        \/ next = "discard2" /\ job[j].pc = "discard"
    BY <1>9 DEF Unload, At
  <2>3. can <=> Mine(j) # NoBox
    BY DEF Exists, Mine
  <2>4. (Mine(j) # NoBox => after # NoBox) /\ ~after.up
    BY <1>5
  <2> HIDE DEF next, can, after
  <2>5. NoPrune => /\ can => UpgradeAt(j, To(j, next), after, faults)
                   /\ can => UpgradeAt(j, To(j, next), after, faults + 1)
                   /\ UpgradeAt(j, To(j, next), Mine(j), faults + 1)
                   /\ ~can => UpgradeAt(j, To(j, next), Mine(j), faults)
    BY <1>1, <1>2, <1>3, <2>2, <2>3, <2>4 DEF UpgradeAt
  <2> QED
    BY <1>2, <1>4, <2>1, <2>5, UpgradeDocker
<1>10. CASE Delete(j)
  <2> DEFINE can == Mine(j).up => job[j].kind = "remove"
  <2>1. Docker(j, can, NoBox, To(j, "create"), To(j, "back")) /\ job[j].pc = "delete"
    BY <1>10 DEF Delete, Deleted, At
  <2>2. ~can => Mine(j).up
    OBVIOUS
  <2> HIDE DEF can
  <2>3. NoPrune => /\ UpgradeAt(j, To(j, "create"), NoBox, faults)
                   /\ UpgradeAt(j, To(j, "back"), NoBox, faults + 1)
                   /\ UpgradeAt(j, To(j, "back"), Mine(j), faults + 1)
                   /\ ~can => UpgradeAt(j, To(j, "back"), Mine(j), faults)
    BY <1>1, <1>2, <1>3, <2>1, <2>2 DEF UpgradeAt
  <2> QED
    BY <1>2, <1>4, <2>1, <2>3, UpgradeDocker
<1>11. CASE Create(j)
  <2> DEFINE can == CanCreate(j, NewBox(j))
  <2>1. Docker(j, can, NewBox(j), To(j, "run"), To(j, "back")) /\ job[j].pc = "create"
    BY <1>11 DEF Create, At
  <2>2. NewBox(j).id = <<j, "new">> /\ NoBox.id = <<NoJob, "none">>
    BY DEF NewBox, NoBox
  <2>3. NewBox(j) # NoBox
    BY <2>2
  <2>4. NoPrune /\ ~can => faults > 0
    <3>1. NoPrune => job[j].tag \in images \/ faults > 0
      BY <1>3, <2>1 DEF Stock
    <3>2. NoPrune => Mine(j) = NoBox \/ faults > 0
      BY <1>3, <2>1 DEF UpgradeAt
    <3>3. NewBox(j).tag = job[j].tag
      BY DEF NewBox
    <3> QED
      BY <3>1, <3>2, <3>3 DEF CanCreate, Exists, Mine
  <2> HIDE DEF can
  <2>5. NoPrune => /\ UpgradeAt(j, To(j, "run"), NewBox(j), faults)
                   /\ \A b : UpgradeAt(j, To(j, "back"), b, faults + 1)
                   /\ ~can => UpgradeAt(j, To(j, "back"), Mine(j), faults)
    BY <1>1, <1>2, <2>2, <2>3, <2>4 DEF UpgradeAt
  <2> QED
    BY <1>2, <1>4, <2>1, <2>5, UpgradeDocker
<1>12. CASE Run(j)
  <2> DEFINE can == Mine(j).id = <<j, "new">>
             after == [Mine(j) EXCEPT !.up = TRUE]
  <2>1. Docker(j, can, after, To(j, "verify"), To(j, "discard")) /\ job[j].pc = "run"
    BY <1>12 DEF Run, ById, At
  <2>2. NoPrune => can /\ Mine(j) # NoBox
    BY <1>3, <2>1 DEF UpgradeAt
  <2>3. (Mine(j) # NoBox => after # NoBox) /\ after.up
    BY <1>5
  <2> HIDE DEF can, after
  <2>4. NoPrune => /\ UpgradeAt(j, To(j, "verify"), after, faults)
                   /\ \A b : UpgradeAt(j, To(j, "discard"), b, faults + 1)
                   /\ ~can => UpgradeAt(j, To(j, "discard"), Mine(j), faults)
    BY <1>1, <1>2, <2>2, <2>3 DEF UpgradeAt
  <2> QED
    BY <1>2, <1>4, <2>1, <2>4, UpgradeDocker
<1>13. CASE Start(j) \/ Restart(j)
  BY <1>4, <1>13 DEF Start, Restart, At
<1> QED
  BY <1>6, <1>7, <1>8, <1>9, <1>10, <1>11, <1>12, <1>13 DEF DockerStep

\* Its own steps keep what an upgrade relies on.
LEMMA UpgradeOwnStep ==
  ASSUME Guarded, NEW j \in Jobs, UpgradeStep(j)
  PROVE  Upgrades'
<1>1. Orderly /\ Typed /\ faults \in Nat /\ job[j] \in Job
  BY DEF Guarded, Orderly, Typed, TypeOK, Job
<1>2. /\ Busy(j) /\ Mine(j) \in Boxes /\ job[j].kind = "upgrade"
      /\ job[j].pc \in {"verify", "discard2", "back", "rerun"}
  <2>1. At(j, {"verify", "discard2", "back", "rerun"})
    BY DEF UpgradeStep, Verify, GiveUp, Discard, Rollback, RunOld, At
  <2> QED
    BY <1>1, <2>1, Acting DEF Over, Path, AllKinds
<1>3. \A pc : /\ To(j, pc).pc = pc /\ To(j, pc).kind = "upgrade"
              /\ Same(To(j, pc), job[j])
  BY <1>1, <1>2, ToSame DEF Same
<1>4. NoPrune => UpgradeAt(j, job[j], Mine(j), faults) /\ (late # {} => faults > 0)
  BY <1>2, Upgrading
<1>5. \A b, fl : \A pc \in {"done", "failed"} : UpgradeAt(j, To(j, pc), b, fl)
  BY <1>3 DEF UpgradeAt
<1>6. CASE Verify(j) \/ GiveUp(j)
  <2>1. PICK pc : /\ Goto(j, pc)
                  /\ \/ pc = "done"
                     \/ pc = "discard" /\ (~Mine(j).up \/ j \in late \/ faults' = faults + 1)
    BY <1>6 DEF Verify, GiveUp, Fault
  <2>2. /\ box' = box /\ images' = images /\ files' = files /\ late' = late
        /\ deaths' = deaths /\ faults' \in {faults, faults + 1}
        /\ job[j].pc = "verify"
    BY <1>6 DEF Verify, GiveUp, Fault, At
  <2>3. Confined(j) /\ job'[j] = To(j, pc)
    BY <1>1, <2>1, <2>2, Gone
  <2>4. NoPrune => (pc = "discard" => faults' > 0)
    BY <1>1, <1>2, <1>4, <2>1, <2>2 DEF UpgradeAt
  <2>5. NoPrune => UpgradeAt(j, job'[j], box'[job[j].node], faults')
    BY <1>3, <2>1, <2>3, <2>4 DEF UpgradeAt
  <2> QED
    BY <1>2, <2>3, <2>5, UpgradeFrame DEF Guarded
<1>7. CASE Discard(j)
  <2>1. Docker(j, TRUE, NoBox, To(j, "back"), To(j, "back")) /\ job[j].pc = "discard2"
    BY <1>7 DEF Discard, At
  <2>2. NoPrune => \A b : /\ UpgradeAt(j, To(j, "back"), b, faults)
                          /\ UpgradeAt(j, To(j, "back"), b, faults + 1)
    BY <1>1, <1>2, <1>3, <1>4, <2>1 DEF UpgradeAt
  <2> QED
    BY <1>2, <1>3, <2>1, <2>2, UpgradeDocker
<1>8. CASE Rollback(j)
  <2>1. Docker(j, CanCreate(j, OldBox(j)), OldBox(j), To(j, "rerun"), To(j, "failed"))
        /\ job[j].pc = "back"
    BY <1>8 DEF Rollback, At
  <2>2. OldBox(j).id = <<j, "back">> /\ NoBox.id = <<NoJob, "none">>
    BY DEF OldBox, NoBox
  <2>3. OldBox(j) # NoBox
    BY <2>2
  <2>4. NoPrune => UpgradeAt(j, To(j, "rerun"), OldBox(j), faults)
    BY <1>2, <1>3, <1>4, <2>1, <2>3 DEF UpgradeAt
  <2> QED
    BY <1>2, <1>3, <1>5, <2>1, <2>4, UpgradeDocker
<1>9. CASE RunOld(j)
  <2>1. Docker(j, Mine(j).id = <<j, "back">>, [Mine(j) EXCEPT !.up = TRUE],
               To(j, "failed"), To(j, "failed"))
    BY <1>9 DEF RunOld
  <2> QED
    BY <1>2, <1>3, <1>5, <2>1, UpgradeDocker
<1> QED
  BY <1>6, <1>7, <1>8, <1>9 DEF UpgradeStep

\* Every step keeps it.
LEMMA UpgradesStep ==
  ASSUME Guarded, [Next]_vars
  PROVE  Upgrades'
<1>1. Orderly /\ Typed /\ faults \in Nat
  BY DEF Guarded, Orderly, Typed, TypeOK
<1>2. ASSUME NEW j \in Jobs, Busy(j), Confined(j), job[j].kind # "upgrade"
      PROVE  Upgrades'
  <2>1. UpgradeAt(j, job'[j], box'[job[j].node], faults')
    BY <1>2 DEF UpgradeAt, Confined
  <2> QED
    BY <1>1, <1>2, <2>1, UpgradeFrame DEF Guarded
<1>3. ASSUME NEW j \in Jobs, DockerStep(j) PROVE Upgrades'
  <2>1. At(j, {"start", "restart", "stop", "inspect", "pull", "unload", "discard",
               "delete", "create", "run"})
    BY <1>3 DEF DockerStep, Start, Restart, Stop, Inspect, Pull, Unload, Delete, Create,
       Run, At
  <2>2. Busy(j)
    BY <1>1, <2>1, Acting DEF Over
  <2> QED
    BY <1>1, <1>2, <1>3, <2>2, UpgradeDockerStep, DockerConfined
<1>4. ASSUME NEW j \in Jobs, RestoreStep(j) \/ Clear(j) PROVE Upgrades'
  <2>1. At(j, {"preflight", "clearold", "rotate", "mkdir", "download", "extract",
               "undo", "putback", "resume", "drop", "clear"})
    BY <1>4 DEF RestoreStep, Preflight, ClearOld, Rotate, MakeDir, Extract, Extracted,
       ExtractFails, Undo, PutBack, Resume, Drop, Clear, At
  <2>2. Busy(j) /\ job[j].kind \in {"restore", "reset"}
    BY <1>1, <2>1, Acting DEF Over, Path, AllKinds
  <2> QED
    BY <1>1, <1>2, <1>4, <2>2, OtherConfined DEF OtherStep
<1>5. ASSUME NEW j \in Jobs, ListImages(j) \/ RemoveImage(j) PROVE Upgrades'
  <2>1. At(j, {"list", "untag"})
    BY <1>5 DEF ListImages, RemoveImage, At
  <2>2. job[j].kind = "prune"
    BY <1>1, <2>1, Underway DEF Over, Path, AllKinds
  <2>3. Confined(j)
    BY <1>1, <1>5, OtherConfined DEF OtherStep
  <2> QED
    BY <2>2, <2>3 DEF Upgrades, NoPrune, Confined
<1>6. ASSUME NEW j \in Jobs, Begin(j) PROVE Upgrades'
  <2>1. UNCHANGED <<box, faults>> /\ job[j].pc = "idle"
    BY <1>6 DEF Begin
  <2>2. job[j].kind = "none"
    BY <1>1, <2>1, Paths DEF Typed, OnPath, Path, Over, AllKinds
  <2>3. PICK kind \in Kinds, n \in Nodes, t \in Tags :
           job' = [job EXCEPT ![j] =
             [Idle EXCEPT !.kind = kind, !.node = n, !.tag = t, !.pc = First(kind)]]
    BY <1>6 DEF Begin
  <2> DEFINE r == [Idle EXCEPT !.kind = kind, !.node = n, !.tag = t, !.pc = First(kind)]
  <2>4. r.kind = "upgrade" => r.pc = "inspect"
    BY DEF Idle, First
  <2>5. job'[j] = r /\ \A i \in Jobs \ {j} : job'[i] = job[i]
    BY <1>1, <2>3 DEF Typed, TypeOK
  <2> HIDE DEF r
  <2>6. \A b, fl : UpgradeAt(j, job'[j], b, fl)
    BY <2>4, <2>5 DEF UpgradeAt
  <2>7. NoPrune' => NoPrune
    BY <2>2, <2>5 DEF NoPrune
  <2> SUFFICES ASSUME NoPrune', NEW i \in Jobs
               PROVE  UpgradeAt(i, job'[i], box[job'[i].node], faults)
    BY <2>1 DEF Upgrades, UpgradeAt
  <2>8. i # j => UpgradeAt(i, job[i], box[job[i].node], faults)
    BY <2>7 DEF Guarded, Upgrades
  <2> QED
    BY <2>5, <2>6, <2>8
<1>7. ASSUME NEW j \in Jobs, Expire(j) PROVE Upgrades'
  <2>1. UNCHANGED <<box, job>> /\ faults' > 0
    BY <1>1, <1>7 DEF Expire, Fault
  <2> QED
    BY <2>1 DEF Guarded, Upgrades, NoPrune, UpgradeAt
<1>8. CASE Die
  <2>1. UNCHANGED <<box, faults>>
        /\ \A i \in Jobs : job'[i] = IF Running(i) THEN To(i, "lost") ELSE job[i]
    BY <1>8 DEF Die
  <2>2. \A i \in Jobs : Same(To(i, "lost"), job[i]) /\ To(i, "lost").pc = "lost"
    BY <1>1, ToSame
  <2>3. NoPrune' => NoPrune
    BY <2>1, <2>2 DEF NoPrune, Same
  <2>4. \A i \in Jobs : \A b, fl : UpgradeAt(i, To(i, "lost"), b, fl)
    BY <2>2 DEF UpgradeAt
  <2> SUFFICES ASSUME NoPrune', NEW i \in Jobs
               PROVE  UpgradeAt(i, job'[i], box[job'[i].node], faults)
    BY <2>1 DEF Upgrades, UpgradeAt
  <2>5. UpgradeAt(i, job[i], box[job[i].node], faults)
    BY <2>3 DEF Guarded, Upgrades
  <2> QED
    BY <2>1, <2>4, <2>5
<1>9. CASE (\E n \in Nodes : Bootstrap(n)) \/ UNCHANGED vars
  <2>1. UNCHANGED <<box, job, faults>>
    BY <1>9 DEF Bootstrap
  <2> QED
    BY <2>1 DEF Guarded, Upgrades, NoPrune, UpgradeAt
<1> QED
  BY <1>3, <1>4, <1>5, <1>6, <1>7, <1>8, <1>9, UpgradeOwnStep DEF Next, OtherStep

\* An upgrade fails at its pull, or having started the old container again, or
\* having failed to create it.
LEMMA UpgradeFails ==
  ASSUME Guarded, [Next]_vars, NEW j \in Jobs, NoPrune,
         job[j].kind = "upgrade", job'[j].pc = "failed",
         job[j].pc \notin {"failed", "inspect"}, faults' <= 1, j \notin late
  PROVE  box'[job[j].node] # NoBox
<1>1. /\ Orderly /\ Typed /\ faults \in Nat /\ job[j] \in Job /\ job[j].node \in Nodes
      /\ UpgradeAt(j, job[j], Mine(j), faults) /\ Stock(job[j], images, faults)
      /\ Mine(j) \in Boxes
  BY Upgrading DEF Guarded, Orderly, Typed, TypeOK
<1>2. job[j].pc \in Path("upgrade") \cup Over
  BY <1>1 DEF Typed, OnPath
<1>3. \A pc : /\ To(j, pc).pc = pc /\ To(j, pc).kind = "upgrade"
              /\ Same(To(j, pc), job[j])
  BY <1>1, ToSame DEF Same
<1>4. ASSUME NEW i \in Jobs, Confined(i) PROVE i = j
  BY <1>4 DEF Confined
<1>5. CASE Pull(j)
  BY <1>1, <1>5 DEF Pull, UpgradeAt, At, Mine
<1>6. CASE Rollback(j)
  <2> DEFINE can == CanCreate(j, OldBox(j))
  <2>1. Docker(j, can, OldBox(j), To(j, "rerun"), To(j, "failed")) /\ job[j].pc = "back"
    BY <1>6 DEF Rollback, At
  <2>2. OldBox(j).tag \in images /\ faults > 0
    BY <1>1, <2>1 DEF Stock, OldBox, UpgradeAt, Over
  <2>3. ~can => Mine(j) # NoBox
    BY <2>2 DEF CanCreate, Exists, Mine
  <2> HIDE DEF can
  <2>4. \/ job'[j] = To(j, "rerun")
        \/ ~can /\ box'[job[j].node] = Mine(j)
        \/ faults' = faults + 1
    BY <1>1, <1>3, <2>1, Requested
  <2> QED
    BY <1>1, <1>3, <2>2, <2>3, <2>4
<1>7. CASE RunOld(j)
  <2> DEFINE can == Mine(j).id = <<j, "back">>
             after == [Mine(j) EXCEPT !.up = TRUE]
  <2>1. Docker(j, can, after, To(j, "failed"), To(j, "failed")) /\ job[j].pc = "rerun"
    BY <1>7 DEF RunOld, At
  <2>2. Mine(j) # NoBox /\ after # NoBox
    BY <1>1, <2>1 DEF UpgradeAt, Boxes, Box, NoBox
  <2> HIDE DEF can, after
  <2>3. box'[job[j].node] \in {after, Mine(j)}
    BY <1>1, <1>3, <2>1, Requested
  <2> QED
    BY <2>2, <2>3
<1>8. ASSUME NEW can, NEW after, NEW p, NEW q, p # "failed", q # "failed",
             Docker(j, can, after, To(j, p), To(j, q))
      PROVE  FALSE
  BY <1>1, <1>3, <1>8, Requested
<1>9. CASE Stop(j) \/ Unload(j) \/ Delete(j) \/ Create(j)
  <2>1. CASE Stop(j)
    BY <1>8, <2>1 DEF Stop, Stopped
  <2>2. CASE Unload(j)
    BY <1>8, <2>2 DEF Unload
  <2>3. CASE Delete(j)
    BY <1>8, <2>3 DEF Delete, Deleted
  <2>4. CASE Create(j)
    BY <1>8, <2>4 DEF Create
  <2> QED
    BY <1>9, <2>1, <2>2, <2>3, <2>4
<1>10. CASE Run(j)
  <2> DEFINE can == IF ById(job[j].kind) THEN Mine(j).id = <<j, "new">>
                                         ELSE Exists(job[j].node)
  <2>1. Docker(j, can, [Mine(j) EXCEPT !.up = TRUE], To(j, "verify"), To(j, "discard"))
    BY <1>10 DEF Run
  <2> HIDE DEF can
  <2> QED
    BY <1>8, <2>1
<1>11. CASE Discard(j)
  BY <1>8, <1>11 DEF Discard
<1>12. CASE Verify(j) \/ GiveUp(j)
  <2>1. PICK pc \in {"done", "discard"} : Goto(j, pc)
    BY <1>12 DEF Verify, GiveUp
  <2>2. job'[j] = To(j, pc)
    BY <1>1, <2>1 DEF Goto, Typed, TypeOK
  <2> QED
    BY <1>3, <2>1, <2>2
<1>13. CASE Start(j) \/ Restart(j) \/ Inspect(j)
  BY <1>2, <1>13 DEF Start, Restart, Inspect, At, Path, Over
<1>14. CASE RestoreStep(j) \/ OtherStep(j)
  <2>1. At(j, {"preflight", "clearold", "rotate", "mkdir", "download", "extract",
               "undo", "putback", "resume", "drop", "clear", "list", "untag"})
    BY <1>14 DEF RestoreStep, Preflight, ClearOld, Rotate, MakeDir, Extract, Extracted,
       ExtractFails, Undo, PutBack, Resume, Drop, OtherStep, Clear, ListImages,
       RemoveImage, At
  <2> QED
    BY <1>2, <2>1 DEF At, Path, Over
<1>15. ASSUME NEW i \in Jobs, DockerStep(i) \/ UpgradeStep(i) \/ RestoreStep(i) \/ OtherStep(i)
       PROVE  i = j
  BY <1>1, <1>4, <1>15, DockerConfined, OtherConfined
<1>16. ASSUME NEW i \in Jobs, Begin(i) PROVE FALSE
  <2>1. job[i].pc = "idle"
    BY <1>16 DEF Begin
  <2>2. i # j
    BY <1>2, <2>1 DEF Path, Over
  <2>3. job'[j] = job[j]
    <3>1. \E r : job' = [job EXCEPT ![i] = r]
      BY <1>16 DEF Begin
    <3> QED
      BY <1>1, <2>2, <3>1 DEF Typed, TypeOK
  <2> QED
    BY <2>3
<1>17. CASE job' = job
  BY <1>17
<1>18. CASE Die
  BY <1>3, <1>18 DEF Die
<1> QED
  BY <1>5, <1>6, <1>7, <1>9, <1>10, <1>11, <1>12, <1>13, <1>14, <1>15, <1>16, <1>17, <1>18
     DEF Next, DockerStep, UpgradeStep, Expire, Bootstrap

\* At first no upgrade is under way.
LEMMA GuardedInit == Init => Guarded
<1> SUFFICES ASSUME Init PROVE Guarded
  OBVIOUS
<1>1. \A j \in Jobs : job[j].kind = "none"
  BY DEF Init, Idle
<1>2. Upgrades
  BY <1>1 DEF Upgrades, UpgradeAt
<1> QED
  BY <1>2, OrderlyInit, SupplyInit DEF Guarded

\* Every step keeps what upgrades rely on.
LEMMA GuardedStep ==
  ASSUME Exclusive, Guarded, [Next]_vars
  PROVE  Guarded'
  BY OrderlyStep, SupplyStep, UpgradesStep DEF Guarded

\* An upgrade that one failure strikes, its deadline apart, leaves a container
\* behind, as long as nobody removes images and each command for a node waits for
\* the end of the one before.
THEOREM UpgradeLeavesNode == Exclusive => (Spec => UpgradeKeepsNode)
<1> SUFFICES ASSUME Exclusive PROVE Spec => UpgradeKeepsNode
  OBVIOUS
<1>1. Guarded /\ [Next]_vars
        => [\A j \in Jobs :
              /\ job[j].kind = "upgrade" /\ job'[j].pc = "failed" /\ job[j].pc \notin {"failed", "inspect"}
              /\ faults' <= 1 /\ j \notin late
              /\ \A i \in Jobs : job[i].kind # "prune"
              => box'[job[j].node] # NoBox]_vars
  BY UpgradeFails DEF NoPrune
<1>2. Guarded /\ [Next]_vars => Guarded'
  BY GuardedStep
<1> QED
  BY <1>1, <1>2, GuardedInit, PTL DEF Spec, UpgradeKeepsNode

-----------------------------------------------------------------------------
(* The complete copy *)

\* The steps of a restore at which its node's DB is neither the one it had nor a
\* whole new one.
AtRisk == {"mkdir", "download", "extract", "undo", "putback"}

\* What holds of the DB d and the copy o of its node when an execution with the
\* record r, that found room for both or nothing to keep, is at its step, after fl
\* failures.
CopyAt(r, d, o, fl) ==
  /\ r.pc \notin AtRisk => Complete(d)
  /\ r.pc \in AtRisk => Complete(o)
  /\ r.kind = "restore" /\ r.pc \in AtRisk \cup {"stop", "clearold", "rotate"} => r.had
  /\ r.pc \in {"mkdir", "putback"} => d.is = "none"
  /\ r.pc = "download" => d.is = "empty"
  /\ r.pc \in {"undo", "putback"} => fl > 0

Whole(n) ==
  OnlyKept(n) =>
    /\ \/ Complete(files[n].db)
       \/ \E j \in Jobs : job[j].node = n /\ job[j].pc \in AtRisk
    /\ \A j \in Jobs : job[j].node = n /\ Busy(j) =>
                         CopyAt(job[j], files[n].db, files[n].old, faults)

\* A restore finds out what there is to keep at its first step.
Fresh == \A j \in Jobs :
  job[j].kind = "restore" /\ job[j].pc = "preflight" => ~job[j].had

\* The inductive invariant, beside Orderly and Supplied.
Copies == Fresh /\ (deaths = 0 /\ faults <= 1 => \A n \in Nodes : Whole(n))

\* An execution that has found out nothing keeps what it knows.
Keeping(r) == r.kind # "reset" /\ (r.kind = "restore" => r.keep \/ ~r.had)

\* An execution that is not busy has no DB in its hands.
LEMMA NotAtRisk ==
  ASSUME Typed, NEW j \in Jobs, ~Busy(j)
  PROVE  job[j].pc \notin AtRisk
  BY DEF Typed, OnPath, Busy, Running, Path, Over, AtRisk

\* A confined step keeps every copy, if it keeps that of its own node.
LEMMA CopyFrame ==
  ASSUME Orderly, Copies, NEW j \in Jobs, Busy(j), Confined(j),
         job'[j].pc # "preflight",
         deaths = 0 /\ faults' <= 1 /\ Keeping(job'[j])
             /\ CopyAt(job[j], Db(j), Old(j), faults)
           => CopyAt(job'[j], files'[job[j].node].db, files'[job[j].node].old, faults')
  PROVE  Copies'
<1> DEFINE n == job[j].node
<1>1. /\ n \in Nodes /\ faults \in Nat /\ faults' \in {faults, faults + 1}
      /\ job'[j].node = n /\ job'[j].kind = job[j].kind /\ deaths' = deaths
      /\ \A i \in Jobs \ {j} : job'[i] = job[i]
      /\ \A m \in Nodes \ {n} : files'[m] = files[m]
  BY DEF Orderly, Typed, TypeOK, Confined
<1>2. Fresh'
  BY <1>1 DEF Copies, Fresh
<1>3. ASSUME deaths = 0, faults' <= 1, NEW m \in Nodes, OnlyKept(m)'
      PROVE  /\ Complete(files'[m].db)
                \/ \E i \in Jobs : job'[i].node = m /\ job'[i].pc \in AtRisk
             /\ \A i \in Jobs : job'[i].node = m /\ Busy(i)' =>
                   CopyAt(job'[i], files'[m].db, files'[m].old, faults')
  <2>1. faults <= 1 /\ (faults > 0 => faults' > 0)
    BY <1>1, <1>3
  <2>2. Keeping(job'[j]) \/ m # n
    BY <1>1, <1>3 DEF OnlyKept, Keeping
  <2>3. OnlyKept(m)
    <3> SUFFICES ASSUME NEW i \in Jobs, job[i].node = m
                 PROVE  /\ job[i].kind # "reset"
                        /\ job[i].kind = "restore" => job[i].keep \/ ~job[i].had
      BY DEF OnlyKept
    <3>1. CASE i # j
      BY <1>1, <1>3, <3>1 DEF OnlyKept
    <3>2. CASE i = j /\ job[j].pc # "preflight"
      BY <1>1, <1>3, <3>2 DEF OnlyKept, Confined
    <3>3. CASE i = j /\ job[j].pc = "preflight"
      BY <1>1, <1>3, <3>3 DEF OnlyKept, Copies, Fresh
    <3> QED
      BY <3>1, <3>2, <3>3
  <2>4. Whole(m)
    BY <1>3, <2>1 DEF Copies
  <2>5. CASE m # n
    <3>1. \A i \in Jobs : job'[i].node = m \/ job[i].node = m => i # j /\ job'[i] = job[i]
      BY <1>1, <2>5
    <3>2. ASSUME NEW i \in Jobs, CopyAt(job[i], files[m].db, files[m].old, faults)
          PROVE  CopyAt(job[i], files[m].db, files[m].old, faults')
      BY <2>1, <3>2 DEF CopyAt
    <3>3. files'[m] = files[m]
      BY <1>1, <2>5
    <3>4. \A i \in Jobs : job'[i] = job[i] => (Busy(i)' <=> Busy(i))
      BY DEF Busy, Running
    <3> QED
      BY <2>3, <2>4, <3>1, <3>2, <3>3, <3>4 DEF Whole
  <2>6. CASE m = n
    <3>1. CopyAt(job[j], Db(j), Old(j), faults)
      BY <2>3, <2>4, <2>6 DEF Whole, Db, Old
    <3>2. CopyAt(job'[j], files'[n].db, files'[n].old, faults')
      BY <1>3, <2>2, <2>6, <3>1
    <3>3. ASSUME NEW i \in Jobs, job'[i].node = n, Busy(i)' PROVE i = j
      BY <1>1, <3>3 DEF Orderly, Alone, Busy, Running
    <3> QED
      BY <1>1, <2>6, <3>2, <3>3 DEF CopyAt
  <2> QED
    BY <2>5, <2>6
<1>4. ASSUME deaths' = 0, faults' <= 1, NEW m \in Nodes PROVE Whole(m)'
  BY <1>1, <1>3, <1>4 DEF Whole
<1> QED
  BY <1>2, <1>4 DEF Copies

\* A step that leaves the directories alone and goes to none at which they are not
\* as they were.
LEMMA CopyKept ==
  ASSUME Orderly, Copies, NEW j \in Jobs, Busy(j), Confined(j), files' = files,
         job[j].pc \notin AtRisk, job'[j].pc \notin AtRisk \cup {"preflight"},
         job[j].kind = "restore" /\ job'[j].pc \in {"stop", "clearold", "rotate"} =>
           job'[j].had = job[j].had /\ job[j].pc \in {"stop", "clearold", "rotate"}
  PROVE  Copies'
<1>1. job'[j].kind = job[j].kind
  BY DEF Confined
<1>2. CopyAt(job[j], Db(j), Old(j), faults)
        => CopyAt(job'[j], files'[job[j].node].db, files'[job[j].node].old, faults')
  BY <1>1 DEF CopyAt, Db, Old, AtRisk
<1> QED
  BY <1>2, CopyFrame

\* Steps at which a node's directories are as they were.
Far(pc) == pc \notin AtRisk \cup {"preflight", "stop", "clearold", "rotate"}
LeftAlone(j) ==
  /\ files' = files /\ job'[j].pc \notin AtRisk \cup {"preflight"}
  /\ job[j].kind = "restore" /\ job'[j].pc \in {"stop", "clearold", "rotate"}
       => job'[j].had = job[j].had /\ job[j].pc = "stop"

\* The steps that ask something of Docker keep a complete copy.
LEMMA CopyDockerStep ==
  ASSUME Orderly, Copies, NEW j \in Jobs, DockerStep(j) \/ UpgradeStep(j) \/ Resume(j)
  PROVE  Copies'
<1>1. Typed /\ job[j] \in Job
  BY DEF Orderly, Typed, TypeOK, Job
<1>2. \A pc : To(j, pc).pc = pc /\ Same(To(j, pc), job[j])
  BY <1>1, ToSame
<1>3. Confined(j)
  BY <1>1, DockerConfined, OtherConfined DEF RestoreStep
<1>4. Busy(j) /\ job[j].pc \notin AtRisk \cup {"preflight", "clearold", "rotate"}
      /\ (job[j].pc = "pull" => job[j].kind # "restore")
  <2>1. At(j, {"start", "restart", "stop", "inspect", "pull", "unload", "discard",
               "delete", "create", "run", "verify", "discard2", "back", "rerun", "resume"})
    BY DEF DockerStep, Start, Restart, Stop, Inspect, Pull, Unload, Delete, Create,
       Run, UpgradeStep, Verify, GiveUp, Discard, Rollback, RunOld, Resume, At
  <2>2. Busy(j)
    BY <1>1, <2>1, Acting DEF Over
  <2>3. job[j].pc \notin AtRisk \cup {"preflight", "clearold", "rotate"}
    BY <2>1 DEF At, AtRisk
  <2>4. job[j].pc = "pull" => job[j].kind # "restore"
    BY <1>1 DEF Typed, OnPath, Path, Over
  <2> QED
    BY <2>2, <2>3, <2>4
<1>5. ASSUME NEW can, NEW after, NEW good, NEW bad, Far(good), Far(bad),
             Docker(j, can, after, To(j, good), To(j, bad))
      PROVE  LeftAlone(j)
  <2>1. files' = files /\ job'[j] \in {To(j, good), To(j, bad)}
    BY <1>1, <1>2, <1>5, Requested
  <2> QED
    BY <1>2, <1>5, <2>1 DEF LeftAlone, Far
<1>6. ASSUME Start(j) \/ Restart(j) \/ Unload(j) \/ Discard(j) \/ Rollback(j)
             \/ RunOld(j) \/ Resume(j)
      PROVE  LeftAlone(j)
  BY <1>5, <1>6 DEF Start, Restart, Unload, Discard, Rollback, RunOld, Resume, Far, AtRisk
<1>7. ASSUME Delete(j) \/ Create(j) PROVE LeftAlone(j)
  BY <1>5, <1>7 DEF Delete, Deleted, Create, Far, AtRisk
<1>8. ASSUME Run(j) PROVE LeftAlone(j)
  <2> DEFINE can == IF ById(job[j].kind) THEN Mine(j).id = <<j, "new">>
                                         ELSE Exists(job[j].node)
             good == CASE job[j].kind = "upgrade" -> "verify"
                       [] job[j].kind = "restore" -> "drop"
                       [] OTHER                   -> "done"
             bad == IF job[j].kind = "upgrade" THEN "discard" ELSE "failed"
  <2>1. Docker(j, can, [Mine(j) EXCEPT !.up = TRUE], To(j, good), To(j, bad))
    BY <1>8 DEF Run
  <2>2. Far(good) /\ Far(bad)
    BY DEF Far, AtRisk
  <2> HIDE DEF can, good, bad
  <2> QED
    BY <1>5, <2>1, <2>2
<1>9. ASSUME Stop(j) PROVE LeftAlone(j)
  <2> DEFINE good == Stopped(job[j].kind)
             bad == IF job[j].kind = "upgrade" THEN "unload" ELSE "failed"
             can == Exists(job[j].node)
             after == [Mine(j) EXCEPT !.up = FALSE]
  <2>1. Docker(j, can, after, To(j, good), To(j, bad)) /\ job[j].pc = "stop"
    BY <1>9 DEF Stop, At
  <2>2. job[j].kind \in {"stop", "upgrade", "restore", "reset"}
    BY <1>1, <1>9, Underway DEF Stop, Path, AllKinds, Over
  <2>3. /\ good \notin AtRisk \cup {"preflight"}
        /\ Far(bad)
    BY <2>2 DEF Stopped, Far, AtRisk
  <2> HIDE DEF can, after, good, bad
  <2>4. files' = files /\ job'[j] \in {To(j, good), To(j, bad)}
    BY <1>1, <1>2, <2>1, Requested
  <2> QED
    BY <1>2, <2>1, <2>3, <2>4 DEF Same, Far, LeftAlone
<1>10. ASSUME Inspect(j) PROVE LeftAlone(j)
  <2> DEFINE good == [job[j] EXCEPT
                        !.old = Mine(j).tag,
                        !.pc = IF job[j].kind = "upgrade" THEN "pull" ELSE "unload"]
             can == Exists(job[j].node)
  <2>1. Same(good, job[j]) /\ good.pc \in {"pull", "unload"}
    BY <1>1 DEF Same, Job
  <2>2. Docker(j, can, Mine(j), good, To(j, "failed"))
    BY <1>10 DEF Inspect
  <2> HIDE DEF good, can
  <2>3. files' = files /\ job'[j] \in {good, To(j, "failed")}
    BY <1>1, <1>2, <2>1, <2>2, Requested
  <2> QED
    BY <1>2, <2>1, <2>3 DEF LeftAlone, AtRisk
<1>11. ASSUME Pull(j) \/ Verify(j) \/ GiveUp(j) PROVE LeftAlone(j)
  <2>1. PICK pc \in {"create", "stop", "failed", "done", "discard"} :
           Goto(j, pc) /\ (pc = "stop" => Pull(j))
    BY <1>11 DEF Pull, Verify, GiveUp
  <2>2. files' = files
    BY <1>11 DEF Pull, Verify, GiveUp
  <2>3. job'[j] = To(j, pc)
    BY <1>1, <2>1 DEF Goto, Typed, TypeOK
  <2>4. Pull(j) => job[j].pc = "pull"
    BY DEF Pull, At
  <2> QED
    BY <1>2, <1>4, <2>1, <2>2, <2>3, <2>4 DEF LeftAlone, AtRisk
<1>12. LeftAlone(j)
  BY <1>6, <1>7, <1>8, <1>9, <1>10, <1>11 DEF DockerStep, UpgradeStep
<1> QED
  BY <1>3, <1>4, <1>12, CopyKept DEF LeftAlone

\* The steps of a restore keep a complete copy.
LEMMA CopyRestoreStep ==
  ASSUME Orderly, Spent, Copies, NEW j \in Jobs, RestoreStep(j)
  PROVE  Copies'
<1> DEFINE n == job[j].node
<1>1. /\ Typed /\ faults \in Nat /\ job[j] \in Job /\ n \in Nodes
      /\ files \in [Nodes -> Places]
  BY DEF Orderly, Typed, TypeOK, Job, Places
<1>2. \A pc : To(j, pc).pc = pc /\ Same(To(j, pc), job[j])
  BY <1>1, ToSame
<1>3. Confined(j) /\ job'[j].kind = job[j].kind /\ faults' \in {faults, faults + 1}
  BY <1>1, OtherConfined DEF Confined
<1>4. /\ Busy(j) /\ job[j].kind \in {"restore", "reset"}
      /\ StageOf(j, job[j], Mine(j), Db(j))
      /\ files[n] = [db |-> Db(j), old |-> Old(j)]
  <2>1. At(j, {"preflight", "clearold", "rotate", "mkdir", "download", "extract",
               "undo", "putback", "resume", "drop"})
    BY DEF RestoreStep, Preflight, ClearOld, Rotate, MakeDir, Extract, Extracted,
       ExtractFails, Undo, PutBack, Resume, Drop, At
  <2>2. files[n] \in Places /\ Db(j) = files[n].db /\ Old(j) = files[n].old
    BY <1>1 DEF Db, Old
  <2>3. files[n] = [db |-> Db(j), old |-> Old(j)]
    BY <2>2 DEF Places
  <2> QED
    BY <1>1, <2>1, <2>3, Acting DEF Over, Path, AllKinds
<1>5. \A pc : Goto(j, pc) => job'[j] = To(j, pc)
  BY <1>1 DEF Goto, Typed, TypeOK
<1>6. SUFFICES ASSUME ~Resume(j)
               PROVE  /\ job'[j].pc # "preflight"
                      /\ /\ deaths = 0 /\ faults' <= 1 /\ Keeping(job'[j])
                         /\ CopyAt(job[j], Db(j), Old(j), faults)
                         => CopyAt(job'[j], files'[n].db, files'[n].old, faults')
  BY <1>3, <1>4, CopyFrame, CopyDockerStep
<1>7. CASE Preflight(j)
  <2>1. /\ files' = files /\ faults' = faults /\ job[j].pc = "preflight"
        /\ job[j].kind = "restore"
    BY <1>1, <1>7, Underway DEF Preflight, At, Path, AllKinds, Over
  <2>2. CASE Goto(j, "failed")
    BY <1>2, <1>5, <2>1, <2>2 DEF CopyAt, AtRisk, Db, Old
  <2>3. CASE \E keep \in BOOLEAN :
               job' = [job EXCEPT ![j] =
                 [@ EXCEPT !.keep = keep, !.had = HasData(Db(j)), !.pc = "stop"]]
    <3>1. PICK keep \in BOOLEAN :
            job' = [job EXCEPT ![j] =
              [@ EXCEPT !.keep = keep, !.had = HasData(Db(j)), !.pc = "stop"]]
      BY <2>3
    <3>2. job'[j] = [job[j] EXCEPT !.keep = keep, !.had = HasData(Db(j)),
                                   !.pc = "stop"]
      BY <1>1, <3>1 DEF Typed, TypeOK
    <3>3. job'[j].pc = "stop" /\ job'[j].had = HasData(Db(j))
      BY <1>1, <3>2 DEF Job
    <3> QED
      BY <2>1, <3>3 DEF CopyAt, AtRisk, Db, Old, HasData, Complete
  <2> QED
    BY <1>7, <2>2, <2>3 DEF Preflight
<1>8. CASE ClearOld(j)
  <2> DEFINE next == IF job[j].had THEN "rotate" ELSE "mkdir"
             after == [db |-> Db(j), old |-> Dir("none")]
             partial == [db |-> Db(j),
                         old |-> IF HasData(Old(j)) THEN Dir("part") ELSE Old(j)]
  <2>1. Disk(j, after, next, partial, next) /\ job[j].pc = "clearold"
        /\ job[j].kind = "restore"
    BY <1>1, <1>8, Underway DEF ClearOld, At, Path, AllKinds, Over
  <2>2. after.db = Db(j) /\ partial.db = Db(j) /\ next # "preflight"
        /\ (job[j].had => next = "rotate")
    OBVIOUS
  <2> HIDE DEF next, after, partial
  <2>3. job'[j] = To(j, next) /\ files'[n] \in {after, partial}
    BY <1>1, <2>1, Stored
  <2>4. files'[n].db = Db(j) /\ job'[j].pc = next /\ job'[j].had = job[j].had
    BY <1>2, <2>2, <2>3 DEF Same
  <2> QED
    BY <1>4, <2>1, <2>2, <2>4 DEF CopyAt, AtRisk
<1>9. CASE Rotate(j)
  <2>1. job[j].pc = "rotate" /\ job[j].kind = "restore"
    BY <1>1, <1>9, Underway DEF Rotate, At, Path, AllKinds, Over
  <2>2. ASSUME job'[j] = To(j, "resume"), files'[n].db = Db(j)
        PROVE  CopyAt(job[j], Db(j), Old(j), faults)
                 => CopyAt(job'[j], files'[n].db, files'[n].old, faults')
    BY <1>2, <2>1, <2>2 DEF CopyAt, AtRisk
  <2>3. CASE Disk(j, [db |-> Dir("none"), old |-> Db(j)], "mkdir", files[n], "resume")
    <3>1. \/ job'[j] = To(j, "mkdir") /\ files'[n] = [db |-> Dir("none"), old |-> Db(j)]
          \/ job'[j] = To(j, "resume") /\ files'[n] = files[n]
      BY <1>1, <2>3, Stored
    <3>2. CASE job'[j] = To(j, "mkdir") /\ files'[n] = [db |-> Dir("none"), old |-> Db(j)]
      <4>1. /\ job'[j].pc = "mkdir" /\ job'[j].had = job[j].had
            /\ files'[n].db.is = "none" /\ files'[n].old = Db(j)
        BY <1>2, <3>2 DEF Same, Dir
      <4> QED
        BY <2>1, <4>1 DEF CopyAt, AtRisk
    <3>3. CASE job'[j] = To(j, "resume") /\ files'[n] = files[n]
      BY <1>2, <2>2, <3>3 DEF Db
    <3> QED
      BY <3>1, <3>2, <3>3
  <2>4. CASE Goto(j, "resume") /\ files' = files
    BY <1>2, <1>5, <2>2, <2>4 DEF Db
  <2>5. CASE /\ ~job[j].keep
             /\ Disk(j, [db |-> Dir("none"), old |-> Old(j)], "mkdir",
                        [db |-> Dir("part"), old |-> Old(j)], "resume")
    <3>1. job'[j] \in {To(j, "mkdir"), To(j, "resume")}
      BY <1>1, <2>5, Stored
    <3>2. /\ job'[j].pc # "preflight" /\ job'[j].kind = "restore"
          /\ job'[j].keep = job[j].keep /\ job'[j].had = job[j].had
      BY <1>2, <2>1, <3>1 DEF Same
    <3>3. Keeping(job'[j]) => ~job[j].had
      BY <2>5, <3>2 DEF Keeping
    <3>4. CopyAt(job[j], Db(j), Old(j), faults) => job[j].had
      BY <2>1 DEF CopyAt
    <3> QED
      BY <3>2, <3>3, <3>4
  <2> QED
    BY <1>9, <2>3, <2>4, <2>5 DEF Rotate
<1>10. CASE MakeDir(j)
  <2> DEFINE good == IF job[j].kind = "restore" THEN "download" ELSE "inspect"
             bad == IF job[j].kind = "reset" THEN "failed" ELSE Undoing(j)
             after == [db |-> MadeDb(Db(j)), old |-> Old(j)]
  <2>1. Disk(j, after, good, files[n], bad) /\ job[j].pc = "mkdir"
    BY <1>10 DEF MakeDir, At
  <2>2. /\ good \in {"download", "inspect"} /\ bad \in {"failed", "undo", "resume"}
        /\ after.db = MadeDb(Db(j)) /\ after.old = Old(j)
        /\ job[j].kind = "restore" =>
             good = "download" /\ bad = Undoing(j)
    BY DEF Undoing
  <2> HIDE DEF good, bad, after
  <2>3. \/ job'[j] = To(j, good) /\ files'[n] = after
        \/ job'[j] = To(j, bad) /\ files'[n] = files[n] /\ faults' = faults + 1
    BY <1>1, <2>1, Stored
  <2>4. job'[j].pc \in {good, bad} /\ Same(job'[j], job[j])
    BY <1>2, <2>3
  <2>5. ASSUME Keeping(job'[j]), CopyAt(job[j], Db(j), Old(j), faults)
        PROVE  CopyAt(job'[j], files'[n].db, files'[n].old, faults')
    <3>1. job[j].kind = "restore" /\ job[j].had /\ job[j].keep
          /\ Complete(Old(j)) /\ Db(j).is = "none"
      BY <1>4, <2>1, <2>4, <2>5 DEF Keeping, CopyAt, AtRisk, Same
    <3>2. Undoing(j) = "undo"
      BY <3>1 DEF Undoing, Moving
    <3>3. MadeDb(Db(j)).is = "empty"
      BY <3>1 DEF MadeDb, Dir
    <3>4. CASE job'[j] = To(j, good) /\ files'[n] = after
      <4>1. /\ job'[j].pc = "download" /\ job'[j].had
            /\ files'[n].db.is = "empty" /\ files'[n].old = Old(j)
        BY <1>2, <2>2, <3>1, <3>3, <3>4 DEF Same
      <4> QED
        BY <3>1, <4>1 DEF CopyAt, AtRisk
    <3>5. CASE job'[j] = To(j, bad) /\ files'[n] = files[n] /\ faults' = faults + 1
      <4>1. bad = "undo"
        BY <2>2, <3>1, <3>2
      <4>2. job'[j].pc = "undo" /\ job'[j].had = job[j].had
        BY <1>2, <3>5, <4>1 DEF Same
      <4>3. files'[n].old = Old(j)
        BY <3>5 DEF Old
      <4>4. faults' > 0
        BY <1>1, <3>5
      <4> QED
        BY <3>1, <4>2, <4>3, <4>4 DEF CopyAt, AtRisk
    <3> QED
      BY <2>3, <3>4, <3>5
  <2> QED
    BY <2>2, <2>4, <2>5
<1>11. CASE Extract(j)
  <2>1. job'[j] = To(j, "extract") /\ job[j].pc = "download"
    BY <1>5, <1>11 DEF Extract, At
  <2>2. files'[n].old = Old(j)
    BY <1>1, <1>11 DEF Extract, Old, Places
  <2>3. job'[j].pc = "extract" /\ job'[j].had = job[j].had
    BY <1>2, <2>1 DEF Same
  <2> QED
    BY <1>3, <2>1, <2>2, <2>3 DEF CopyAt, AtRisk
<1>12. CASE Extracted(j)
  <2>1. job'[j] = To(j, "inspect") /\ job[j].pc = "extract"
    BY <1>5, <1>12 DEF Extracted, At
  <2>2. Db(j).writers = {j}
    BY <1>4, <2>1, NoWriters DEF StageOf
  <2>3. files'[n].db.is = "snap"
    BY <1>1, <1>12, <2>2 DEF Extracted, Db, Places
  <2>4. job'[j].pc = "inspect"
    BY <1>2, <2>1
  <2> QED
    BY <2>3, <2>4 DEF CopyAt, AtRisk, Complete
<1>13. CASE ExtractFails(j)
  <2>1. job'[j] = To(j, Undoing(j)) /\ job[j].pc \in {"download", "extract"}
        /\ job[j].kind = "restore"
    BY <1>1, <1>5, <1>13, Underway DEF ExtractFails, At, Path, AllKinds, Over
  <2>2. files'[n].old = Old(j)
    BY <1>1, <1>13 DEF ExtractFails, Old, Places
  <2>3. faults' > 0
    BY <1>1, <1>13 DEF ExtractFails, Fault, Spent
  <2>4. job'[j].pc = Undoing(j) /\ Same(job'[j], job[j]) /\ Undoing(j) \in {"undo", "resume"}
    BY <1>2, <2>1 DEF Undoing
  <2>5. ASSUME Keeping(job'[j]), CopyAt(job[j], Db(j), Old(j), faults)
        PROVE  CopyAt(job'[j], files'[n].db, files'[n].old, faults')
    <3>1. job[j].had /\ job[j].keep /\ Complete(Old(j))
      BY <2>1, <2>4, <2>5 DEF Keeping, CopyAt, AtRisk, Same
    <3>2. job'[j].pc = "undo" /\ job'[j].had
      BY <2>4, <3>1 DEF Undoing, Moving, Same
    <3> QED
      BY <2>2, <2>3, <3>1, <3>2 DEF CopyAt, AtRisk
  <2> QED
    BY <2>4, <2>5
<1>14. CASE Undo(j)
  <2> DEFINE after == [db |-> Dir("none"), old |-> Old(j)]
             partial == [db |-> IF HasData(Db(j)) THEN Dir("part") ELSE Db(j), old |-> Old(j)]
  <2>1. Disk(j, after, "putback", partial, "putback") /\ job[j].pc = "undo"
    BY <1>14 DEF Undo, At
  <2>2. after.db.is = "none" /\ after.old = Old(j)
    BY DEF Dir
  <2> HIDE DEF after, partial
  <2>3. job'[j] = To(j, "putback")
        /\ ((files'[n] = after /\ faults' = faults) \/ faults' = faults + 1)
    BY <1>1, <2>1, Stored
  <2>4. job'[j].pc = "putback" /\ Same(job'[j], job[j])
    BY <1>2, <2>3
  <2>5. ASSUME faults' <= 1, CopyAt(job[j], Db(j), Old(j), faults)
        PROVE  CopyAt(job'[j], files'[n].db, files'[n].old, faults')
    <3>1. faults > 0 /\ Complete(Old(j)) /\ (job[j].kind = "restore" => job[j].had)
      BY <2>1, <2>5 DEF CopyAt, AtRisk
    <3>2. files'[n] = after /\ faults' = faults
      BY <1>1, <2>3, <2>5, <3>1
    <3> QED
      BY <2>2, <2>4, <3>1, <3>2 DEF CopyAt, AtRisk, Same
  <2> QED
    BY <2>4, <2>5
<1>15. CASE PutBack(j)
  <2>1. job[j].pc = "putback"
    BY <1>15 DEF PutBack, At
  <2>2. job'[j] = To(j, "resume")
    BY <1>1, <1>5, <1>15, Stored DEF PutBack
  <2>3. job'[j].pc = "resume"
    BY <1>2, <2>2
  <2>4. ASSUME faults' <= 1, CopyAt(job[j], Db(j), Old(j), faults)
        PROVE  Complete(files'[n].db)
    <3>1. faults > 0 /\ Complete(Old(j)) /\ Db(j).is = "none"
      BY <2>1, <2>4 DEF CopyAt, AtRisk
    <3>2. Old(j).is # "none" /\ Db(j).is \in {"none", "empty"}
      BY <3>1 DEF Complete
    <3>3. Disk(j, [db |-> Old(j), old |-> Dir("none")], "resume", files[n], "resume")
      BY <1>15, <3>2 DEF PutBack
    <3>4. files'[n] = [db |-> Old(j), old |-> Dir("none")] \/ faults' = faults + 1
      BY <1>1, <3>3, Stored
    <3>5. files'[n] = [db |-> Old(j), old |-> Dir("none")]
      BY <1>1, <2>4, <3>1, <3>4
    <3> QED
      BY <3>1, <3>5
  <2> QED
    BY <2>3, <2>4 DEF CopyAt, AtRisk
<1>16. CASE Drop(j)
  <2>1. job[j].pc = "drop"
    BY <1>16 DEF Drop, At
  <2>2. job'[j] = To(j, "done") /\ files'[n].db = Db(j)
    <3>1. CASE Moving(j)
      <4>1. Disk(j, [db |-> Db(j), old |-> Dir("none")], "done",
                    [db |-> Db(j), old |-> Dir("part")], "done")
        BY <1>16, <3>1 DEF Drop
      <4> QED
        BY <1>1, <4>1, Stored
    <3>2. CASE ~Moving(j)
      BY <1>5, <1>16, <3>2 DEF Drop, Db
    <3> QED
      BY <3>1, <3>2
  <2>3. job'[j].pc = "done"
    BY <1>2, <2>2
  <2> QED
    BY <2>1, <2>2, <2>3 DEF CopyAt, AtRisk
<1> QED
  BY <1>6, <1>7, <1>8, <1>9, <1>10, <1>11, <1>12, <1>13, <1>14, <1>15, <1>16
     DEF RestoreStep

\* A step that touches no directory and no execution but a clean-up keeps the copies.
LEMMA CopyQuiet ==
  ASSUME Typed, Copies, files' = files, deaths' = deaths, faults' \in {faults, faults + 1},
         \A i \in Jobs : \/ job'[i] = job[i]
                         \/ /\ job[i].kind = "prune" /\ job'[i].kind = "prune"
                            /\ job[i].pc \notin AtRisk
  PROVE  Copies'
<1>1. faults \in Nat
  BY DEF Typed, TypeOK
<1>2. Fresh'
  BY DEF Copies, Fresh
<1>3. ASSUME deaths = 0, faults' <= 1, NEW m \in Nodes, OnlyKept(m)'
      PROVE  /\ Complete(files[m].db)
                \/ \E i \in Jobs : job'[i].node = m /\ job'[i].pc \in AtRisk
             /\ \A i \in Jobs : job'[i].node = m /\ Busy(i)' =>
                   CopyAt(job'[i], files[m].db, files[m].old, faults')
  <2>1. faults <= 1 /\ (faults > 0 => faults' > 0)
    BY <1>1, <1>3
  <2>2. OnlyKept(m)
    BY <1>3 DEF OnlyKept
  <2>3. Whole(m)
    BY <1>3, <2>1 DEF Copies
  <2>4. ASSUME NEW i \in Jobs, Busy(i)' PROVE job'[i] = job[i] /\ Busy(i)
    BY <2>4 DEF Busy, Running
  <2>5. ASSUME NEW i \in Jobs, CopyAt(job[i], files[m].db, files[m].old, faults)
        PROVE  CopyAt(job[i], files[m].db, files[m].old, faults')
    BY <2>1, <2>5 DEF CopyAt
  <2>6. \A i \in Jobs : job[i].pc \in AtRisk => job'[i] = job[i]
    OBVIOUS
  <2> QED
    BY <2>2, <2>3, <2>4, <2>5, <2>6 DEF Whole
<1>4. ASSUME deaths' = 0, faults' <= 1, NEW m \in Nodes PROVE Whole(m)'
  BY <1>3, <1>4 DEF Whole
<1> QED
  BY <1>2, <1>4 DEF Copies

\* The other steps of executions keep a complete copy.
LEMMA CopyOtherStep ==
  ASSUME Orderly, Copies, NEW j \in Jobs, OtherStep(j) \/ Expire(j)
  PROVE  Copies'
<1>1. Typed /\ faults \in Nat
  BY DEF Orderly, Typed, TypeOK
<1>2. CASE Expire(j)
  BY <1>1, <1>2, CopyQuiet DEF Expire, Fault
<1>3. CASE ListImages(j) \/ RemoveImage(j)
  <2>1. job[j].pc \in {"list", "untag"} /\ job[j].kind = "prune"
    <3>1. At(j, {"list", "untag"})
      BY <1>3 DEF ListImages, RemoveImage, At
    <3> QED
      BY <1>1, <3>1, Underway DEF Over, Path, AllKinds
  <2>2. Confined(j)
    BY <1>1, <1>3, OtherConfined DEF OtherStep
  <2>3. files' = files
    BY <1>3 DEF ListImages, RemoveImage
  <2> QED
    BY <1>1, <2>1, <2>2, <2>3, CopyQuiet DEF Confined, AtRisk
<1>4. CASE Clear(j)
  <2>1. job[j].pc = "clear" /\ job[j].kind = "reset" /\ Busy(j)
    <3>1. At(j, {"clear"})
      BY <1>4 DEF Clear
    <3> QED
      BY <3>1, Acting DEF Over, Path, AllKinds
  <2>2. Confined(j)
    BY <1>1, <1>4, OtherConfined DEF OtherStep
  <2>3. \E pc \in {"mkdir", "failed"} : job'[j] = To(j, pc)
    BY <1>1, <1>4, Stored DEF Clear
  <2>4. job'[j].pc # "preflight"
    BY <1>1, <2>3, ToSame
  <2>5. ~Keeping(job'[j])
    BY <2>1, <2>2 DEF Confined, Keeping
  <2> QED
    BY <2>1, <2>2, <2>4, <2>5, CopyFrame
<1> QED
  BY <1>2, <1>3, <1>4 DEF OtherStep

\* A command that begins finds the node's DB complete, if it waits for the last one.
LEMMA CopyBegin ==
  ASSUME Exclusive, Orderly, Copies, NEW j \in Jobs, Begin(j)
  PROVE  Copies'
<1>1. PICK kind \in Kinds, n \in Nodes, t \in Tags :
        /\ kind # "prune" => \A i \in Jobs : Busy(i) => job[i].node # n
        /\ job' = [job EXCEPT ![j] = [Idle EXCEPT !.kind = kind, !.node = n,
                                                 !.tag = t, !.pc = First(kind)]]
  BY DEF Begin, Busy
<1> DEFINE r == [Idle EXCEPT !.kind = kind, !.node = n, !.tag = t, !.pc = First(kind)]
<1>2. Idle \in Job /\ Idle.had = FALSE
  BY HostAssumption DEF Idle, Job, Steps
<1>3. r.kind = kind /\ r.node = n /\ r.pc = First(kind) /\ r.had = FALSE
  BY <1>2 DEF Job
<1>4. /\ files' = files /\ faults' = faults /\ deaths' = deaths /\ job[j].pc = "idle"
      /\ job'[j] = r /\ \A i \in Jobs \ {j} : job'[i] = job[i]
  BY <1>1 DEF Begin, Orderly, Typed, TypeOK
<1>5. Typed /\ job[j].kind = "none" /\ ~Busy(j)
  <2>1. Typed
    BY DEF Orderly
  <2>2. job[j].kind = "none"
    BY <1>4, <2>1, Paths DEF Typed, OnPath, Path, Over, AllKinds
  <2> QED
    BY <1>4, <2>1, <2>2 DEF Busy, Running
<1>6. First(kind) \notin AtRisk /\ (kind = "restore" => First(kind) = "preflight")
  BY HostAssumption DEF First, AllKinds, AtRisk
<1> HIDE DEF r
<1>7. Fresh'
  BY <1>3, <1>4 DEF Copies, Fresh
<1>8. ASSUME deaths = 0, faults <= 1, NEW m \in Nodes, OnlyKept(m)'
      PROVE  /\ Complete(files[m].db)
                \/ \E i \in Jobs : job'[i].node = m /\ job'[i].pc \in AtRisk
             /\ \A i \in Jobs : job'[i].node = m /\ Busy(i)' =>
                   CopyAt(job'[i], files[m].db, files[m].old, faults)
  <2>1. OnlyKept(m)
    BY <1>4, <1>5, <1>8 DEF OnlyKept
  <2>2. Whole(m)
    BY <1>8 DEF Copies
  <2>3. job[j].pc \notin AtRisk
    BY <1>4 DEF AtRisk
  <2>4. /\ Complete(files[m].db)
           \/ \E i \in Jobs \ {j} : job[i].node = m /\ job[i].pc \in AtRisk
        /\ \A i \in Jobs : job[i].node = m /\ Busy(i) =>
              CopyAt(job[i], files[m].db, files[m].old, faults)
    BY <2>1, <2>2, <2>3 DEF Whole
  <2>5. ASSUME NEW i \in Jobs \ {j}, job'[i].node = m, Busy(i)'
        PROVE  CopyAt(job'[i], files[m].db, files[m].old, faults)
    <3>1. Busy(i)
      BY <1>4, <2>5 DEF Busy, Running
    <3> QED
      BY <1>4, <2>4, <2>5, <3>1
  <2>6. ASSUME job'[j].node = m, Busy(j)'
        PROVE  CopyAt(job'[j], files[m].db, files[m].old, faults)
    <3>1. kind # "prune" /\ m = n
      BY <1>3, <1>4, <2>6 DEF Busy
    <3>2. \A i \in Jobs : job[i].node = m => job[i].pc \notin AtRisk
      BY <1>1, <1>5, <3>1, NotAtRisk
    <3>3. Complete(files[m].db)
      BY <2>4, <3>2
    <3>4. job'[j].kind = kind /\ job'[j].pc = First(kind)
      BY <1>3, <1>4
    <3> QED
      BY <1>6, <3>3, <3>4 DEF CopyAt, AtRisk
  <2> QED
    BY <1>4, <2>4, <2>5, <2>6
<1>9. ASSUME deaths' = 0, faults' <= 1, NEW m \in Nodes PROVE Whole(m)'
  BY <1>4, <1>8, <1>9 DEF Whole
<1> QED
  BY <1>7, <1>9 DEF Copies

\* A node whose DB is not complete does not run while an execution has its copy.
LEMMA DownAtRisk ==
  ASSUME Orderly, NEW j \in Jobs, job[j].pc \in AtRisk, job[j].kind # "reset"
  PROVE  job[j].kind = "restore" /\ Busy(j) /\ ~Mine(j).up
<1>1. Typed
  BY DEF Orderly
<1>2. Busy(j)
  BY <1>1, NotAtRisk
<1>3. job[j].kind = "restore"
  BY <1>1, <1>2 DEF Typed, OnPath, Path, Over, AllKinds, AtRisk, Busy, Running
<1>4. StageOf(j, job[j], Mine(j), Db(j))
  BY DEF Orderly, Stages, Mine, Db
<1> QED
  BY <1>2, <1>3, <1>4 DEF StageOf, AtRisk, AtFiles

\* A node that fetches its data has lost no DB that was kept.
LEMMA CopyBoot ==
  ASSUME Orderly, Copies, NEW n \in Nodes, Bootstrap(n)
  PROVE  Copies'
<1>1. /\ job' = job /\ faults' = faults /\ deaths' = deaths
      /\ \A m \in Nodes \ {n} : files'[m] = files[m]
      /\ box[n].up /\ files[n].db.is \in {"none", "empty"}
  BY DEF Bootstrap, Orderly, Typed, TypeOK
<1>2. ASSUME OnlyKept(n), deaths = 0, faults <= 1 PROVE FALSE
  <2>1. ~Complete(files[n].db)
    BY <1>1 DEF Complete
  <2>2. PICK j \in Jobs : job[j].node = n /\ job[j].pc \in AtRisk
    BY <1>2, <2>1 DEF Copies, Whole
  <2>3. job[j].kind # "reset"
    BY <1>2, <2>2 DEF OnlyKept
  <2> QED
    BY <1>1, <2>2, <2>3, DownAtRisk DEF Mine
<1>3. ASSUME deaths' = 0, faults' <= 1, NEW m \in Nodes PROVE Whole(m)'
  <2>1. OnlyKept(m)' <=> OnlyKept(m)
    BY <1>1 DEF OnlyKept
  <2>2. CASE m = n
    BY <1>1, <1>2, <1>3, <2>1, <2>2 DEF Whole
  <2>3. CASE m # n
    <3>1. files'[m] = files[m] /\ Whole(m)
      BY <1>1, <1>3, <2>3 DEF Copies
    <3> QED
      BY <1>1, <2>1, <3>1 DEF Whole, Busy, Running
  <2> QED
    BY <2>2, <2>3
<1>4. Fresh'
  BY <1>1 DEF Copies, Fresh
<1> QED
  BY <1>3, <1>4 DEF Copies

\* When the agent dies nothing more is claimed.
LEMMA CopyDie ==
  ASSUME Typed, Copies, Die
  PROVE  Copies'
<1>1. deaths \in Nat /\ deaths' = deaths + 1
  BY DEF Typed, TypeOK, Die
<1>2. \A j \in Jobs : job'[j] = job[j] \/ job'[j] = To(j, "lost")
  BY DEF Die
<1>3. \A j \in Jobs : To(j, "lost").pc = "lost"
  BY ToSame
<1>4. Fresh'
  BY <1>2, <1>3 DEF Copies, Fresh
<1> QED
  BY <1>1, <1>4 DEF Copies

\* The inductive invariant of the copies.
Safe == Orderly /\ Spent /\ Copies

\* Only a failure makes an execution late.
LEMMA SpentStep ==
  ASSUME Typed, Spent, [Next]_vars
  PROVE  Spent'
<1>1. faults \in Nat
  BY DEF Typed, TypeOK
<1>2. ASSUME late' = late, faults' \in {faults, faults + 1} PROVE Spent'
  BY <1>1, <1>2 DEF Spent
<1>3. ASSUME NEW j \in Jobs,
             DockerStep(j) \/ UpgradeStep(j) \/ RestoreStep(j) \/ OtherStep(j)
      PROVE  Spent'
  BY <1>2, <1>3, DockerConfined, OtherConfined DEF Confined
<1>4. ASSUME NEW j \in Jobs, Expire(j) PROVE Spent'
  BY <1>1, <1>4 DEF Expire, Fault, Spent
<1>5. ASSUME Die \/ UNCHANGED vars \/ (\E n \in Nodes : Bootstrap(n)) \/ (\E j \in Jobs : Begin(j))
      PROVE  Spent'
  BY <1>2, <1>5 DEF Die, Bootstrap, Begin
<1> QED
  BY <1>3, <1>4, <1>5 DEF Next

\* Every step keeps the copies.
LEMMA SafeStep ==
  ASSUME Exclusive, Safe, [Next]_vars
  PROVE  Safe'
<1>1. Orderly /\ Spent /\ Copies /\ Typed
  BY DEF Safe, Orderly
<1>2. Orderly' /\ Spent'
  BY <1>1, OrderlyStep, SpentStep
<1>3. ASSUME UNCHANGED vars PROVE Copies'
  <2>1. files' = files /\ deaths' = deaths /\ faults' = faults /\ job' = job
    BY <1>3
  <2> QED
    BY <1>1, <2>1, CopyQuiet
<1>4. ASSUME NEW j \in Jobs, DockerStep(j) \/ UpgradeStep(j) \/ RestoreStep(j)
                              \/ OtherStep(j) \/ Expire(j) \/ Begin(j)
      PROVE  Copies'
  BY <1>1, <1>4, CopyDockerStep, CopyRestoreStep, CopyOtherStep, CopyBegin
<1>5. ASSUME NEW n \in Nodes, Bootstrap(n) PROVE Copies'
  BY <1>1, <1>5, CopyBoot
<1>6. ASSUME Die PROVE Copies'
  BY <1>1, <1>6, CopyDie
<1> QED
  <2>1. Copies'
    BY <1>3, <1>4, <1>5, <1>6 DEF Next
  <2> QED
    BY <1>2, <2>1 DEF Safe

\* At first every DB is complete.
LEMMA SafeInit == Init => Safe
<1> SUFFICES ASSUME Init PROVE Safe
  OBVIOUS
<1>1. /\ \A n \in Nodes : Complete(files[n].db)
      /\ \A j \in Jobs : job[j].kind = "none" /\ job[j].pc = "idle"
      /\ late = {}
  BY DEF Init, Dir, Complete, Idle
<1>2. \A n \in Nodes : Whole(n)
  BY <1>1 DEF Whole, Busy, Running
<1> QED
  BY <1>1, <1>2, OrderlyInit DEF Safe, Spent, Copies, Fresh

\* As long as the agent lives and no two things fail, the DB a node had or a new one
\* is there, complete, however many restores there are and wherever one fails, if
\* each command for a node waits for the end of the one before.
THEOREM CopySurvives == Exclusive => (Spec => []CompleteCopyAlive)
<1> SUFFICES ASSUME Exclusive PROVE Spec => []CompleteCopyAlive
  OBVIOUS
<1>1. Safe => CompleteCopyAlive
  <2> SUFFICES ASSUME Safe, deaths = 0, faults <= 1, NEW n \in Nodes, OnlyKept(n),
                      ~Complete(files[n].db)
               PROVE  Complete(files[n].old)
    BY DEF CompleteCopyAlive, CompleteCopy
  <2>1. Orderly /\ Whole(n)
    BY DEF Safe, Copies
  <2>2. PICK j \in Jobs : job[j].node = n /\ job[j].pc \in AtRisk
    BY <2>1 DEF Whole
  <2>3. Busy(j)
    BY <2>1, <2>2, NotAtRisk DEF Orderly
  <2> QED
    BY <2>1, <2>2, <2>3 DEF Whole, CopyAt
<1>2. Safe /\ [Next]_vars => Safe'
  BY SafeStep
<1> QED
  BY <1>1, <1>2, SafeInit, PTL DEF Spec

\* Under the same conditions a node whose DB a restore keeps never runs on one that
\* is not complete: a restore that fails puts the old one back first.
THEOREM NeverOnDamaged == Exclusive => (Spec => []NoDamagedStart)
<1> SUFFICES ASSUME Exclusive PROVE Spec => []NoDamagedStart
  OBVIOUS
<1>1. Safe => NoDamagedStart
  <2> SUFFICES ASSUME Safe, deaths = 0, faults <= 1, NEW n \in Nodes, OnlyKept(n),
                      box[n].up, files[n].db.is = "part"
               PROVE  FALSE
    BY DEF NoDamagedStart
  <2>1. Orderly /\ Whole(n) /\ ~Complete(files[n].db)
    BY DEF Safe, Copies, Complete
  <2>2. PICK j \in Jobs : job[j].node = n /\ job[j].pc \in AtRisk
    BY <2>1 DEF Whole
  <2>3. job[j].kind # "reset"
    BY <2>2 DEF OnlyKept
  <2> QED
    BY <2>1, <2>2, <2>3, DownAtRisk DEF Mine
<1>2. Safe /\ [Next]_vars => Safe'
  BY SafeStep
<1> QED
  BY <1>1, <1>2, SafeInit, PTL DEF Spec
=============================================================================
