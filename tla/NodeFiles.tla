----------------------------- MODULE NodeFiles -----------------------------
(***************************************************************************)
(* How a node comes to be and what is done to its files: provisioning      *)
(* (internal/agent/provisioner.go, handlers/provision.go), configuration   *)
(* (config_ops.go, config_upgrade.go, handlers/config.go, batchconfig.go,  *)
(* docker.go) and validator keys (key_ops.go, handlers/keys.go).           *)
(*                                                                         *)
(* One node name with its container and its data directory.  Of the        *)
(* configuration there are two files: "yaml", a system file that an        *)
(* upgrade replaces, and "toml", whose setting of the operator it carries  *)
(* over.  Either is a pair of the release its defaults are of and the      *)
(* operator's setting; "key" is the validator key, in the same directory.  *)
(***************************************************************************)
EXTENDS Integers, FiniteSets, Sequences

CONSTANTS
  Jobs,      \* commands, each used once
  Releases, Settings, Keys,
  Default,   \* the setting that comes with a release
  None, Torn,
  Stranger,  \* whoever made the container that there is at first
  MaxBeside, \* bound: commands given in a behaviour in which they may overlap
  MaxFaults  \* bound: operations on files and on Docker that fail where others
             \* do not, and deaths of the agent

ASSUME FilesAssumption ==
  /\ Default \in Settings
  /\ None # Torn /\ {None, Torn} \cap ((Releases \X Settings) \cup Keys) = {}
  /\ Stranger \notin Jobs
  /\ MaxBeside \in Nat /\ MaxFaults \in Nat

VARIABLES
  dir,     \* whether the data directory exists
  disk,    \* its files
  baks,    \* config/backups: copies of single files
  keybaks, \* config/key-backups
  dirs,    \* config/backups: copies of all files
  sec,     \* the second of the last copy
  box,     \* the container of the node's name
  job,
  apart,   \* whether the operator waits for the end of a command, and for the
           \* next second, before giving another; nothing in the code does
  wanted,  \* the setting and the key that the operator last asked for
  faults

vars == <<dir, disk, baks, keybaks, dirs, sec, box, job, apart, wanted, faults>>

Files == {"yaml", "toml", "key"}
Config == {"yaml", "toml"}
Contents == Releases \X Settings
Whole(c) == c \notin {None, Torn}

NoJob == [kind |-> "none", pc |-> "new", data |-> [f \in Files |-> None], todo |-> <<>>,
          from |-> None, user |-> None, key |-> FALSE, full |-> FALSE]
Over(kind, pc) == [NoJob EXCEPT !.kind = kind, !.pc = pc]
Running(j) == job[j].pc \notin {"new", "done", "failed"}
To(j, pc) == job' = [job EXCEPT ![j].pc = pc]
Ends(j, how) == job' = [job EXCEPT ![j] = Over(@.kind, how)]
OnlyTheJob == UNCHANGED <<dir, disk, baks, keybaks, dirs, sec, box, wanted, faults, apart>>
Fault == faults < MaxFaults /\ faults' = faults + 1

\* A node that runs from this directory, or none, or one of the same name
\* whose directory is elsewhere.
Init ==
  /\ \/ /\ dir = TRUE /\ box = [by |-> Stranger, here |-> TRUE, up |-> TRUE]
        /\ \E r \in Releases, k \in Keys :
             disk = [f \in Files |-> IF f = "key" THEN k ELSE <<r, Default>>]
     \/ /\ dir = FALSE /\ box \in {None, [by |-> Stranger, here |-> FALSE, up |-> TRUE]}
        /\ disk = [f \in Files |-> None]
  /\ baks = {} /\ keybaks = {} /\ dirs = {} /\ sec = 0
  /\ apart \in BOOLEAN
  /\ job = [j \in Jobs |-> NoJob]
  /\ wanted = [toml |-> IF dir THEN Default ELSE None, key |-> disk["key"]]
  /\ faults = 0

-----------------------------------------------------------------------------
(* The requests of the dashboard *)

\* A command for a node needs a row of it, which is there once it has a container.
Send(j, command) ==
  /\ job[j].pc = "new"
  /\ IF apart THEN \A i \in Jobs : ~Running(i)
     ELSE Cardinality({i \in Jobs : job[i].pc # "new"}) < MaxBeside
  /\ job' = [job EXCEPT ![j] = command]
  /\ OnlyTheJob
Known == box # None /\ box.here

\* The agent refuses to write a key like this (validateWriteExtension).
Write(j) ==
  \E f \in Config, c \in Contents, restart \in BOOLEAN :
    Send(j, [NoJob EXCEPT !.kind = "write", !.pc = "sent", !.data[f] = c, !.todo = <<f>>,
                          !.full = restart])
HandleWriteFile(j) == Known /\ Write(j)

\* The same content for several nodes, of which this is one: it may be offline
\* or unknown, and the push then goes on to the next.
HandleMultiPush(j) == Known /\ Write(j)

\* HandleApply first reads the file, which is YAML ...
HandleApply(j) ==
  /\ Known
  /\ \E s \in Settings, restart \in BOOLEAN :
       Send(j, [NoJob EXCEPT !.kind = "apply", !.pc = "read", !.todo = <<"yaml">>, !.user = s,
                             !.full = restart])

\* ... and sends back what it read with the one value changed, if it is there;
\* half of a file may have the value in it, or not.
Replaced(was, setting) ==
  IF Whole(was) THEN {<<was[1], setting>>} ELSE IF was = Torn THEN {Torn, None} ELSE {None}
ReadConfig(j) ==
  LET f == Head(job[j].todo) IN
  /\ job[j].pc = "read"
  /\ \E c \in Replaced(disk[f], job[j].user) :
       IF c = None THEN Ends(j, "failed")
       ELSE job' = [job EXCEPT ![j].pc = "sent", ![j].data[f] = c]
  /\ OnlyTheJob

HandleRestore(j) ==
  /\ Known
  /\ \E b \in baks : Send(j, [NoJob EXCEPT !.kind = "restore", !.pc = "sent", !.from = b.at,
                                           !.todo = <<b.of>>])

HandleConfigUpgrade(j) == Known /\ Send(j, [NoJob EXCEPT !.kind = "upgrade", !.pc = "sent"])

HandleConfigVersionRestore(j) ==
  /\ Known
  /\ \E d \in dirs : Send(j, [NoJob EXCEPT !.kind = "revert", !.pc = "sent", !.from = <<d.label, d.at>>])

HandleImportKey(j) ==
  /\ Known
  /\ \E k \in Keys : Send(j, [NoJob EXCEPT !.kind = "import", !.pc = "sent", !.data["key"] = k,
                                           !.todo = <<"key">>, !.key = TRUE])

HandleGenerateKey(j) ==
  /\ Known
  /\ Send(j, [NoJob EXCEPT !.kind = "generate", !.pc = "sent", !.todo = <<"key">>, !.key = TRUE])

HandleProvision(j) ==
  \E s \in Settings, key \in BOOLEAN, full \in BOOLEAN :
    Send(j, [NoJob EXCEPT !.kind = "provision", !.pc = "preflight", !.user = s,
                          !.key = key, !.full = full])

-----------------------------------------------------------------------------
(* One file, after a copy of what it was *)

WriteConfig(j) ==
  job[j].pc = "sent" /\ job[j].kind \in {"write", "apply"} /\ To(j, "stat") /\ OnlyTheJob

\* RestoreConfigBackup reads the copy it restores before it makes another.
RestoreConfig(j) ==
  /\ job[j].pc = "sent" /\ job[j].kind = "restore"
  /\ \E b \in baks : /\ b.of = Head(job[j].todo) /\ b.at = job[j].from
                     /\ job' = [job EXCEPT ![j].pc = "stat", ![j].data[b.of] = b.data]
  /\ OnlyTheJob

ImportKey(j) == job[j].pc = "sent" /\ job[j].kind = "import" /\ To(j, "stat") /\ OnlyTheJob

\* A container of its own generates the key, if it does.
GenerateKey(j) ==
  /\ job[j].pc = "sent" /\ job[j].kind = "generate"
  /\ \/ \E k \in Keys \ {disk["key"]} :
          job' = [job EXCEPT ![j].pc = "stat", ![j].data["key"] = k]
     \/ Ends(j, "failed")
  /\ OnlyTheJob

Stat(j) ==
  /\ job[j].pc = "stat"
  /\ To(j, IF disk[Head(job[j].todo)] = None THEN "open" ELSE "copy")
  /\ OnlyTheJob

\* A copy is named by the second, and takes the place of another of its name.
Seconds == IF apart THEN {sec + 1} ELSE {sec, sec + 1}
Put(copies, copy) == {c \in copies : c.at # copy.at \/ c.of # copy.of} \cup {copy}

\* The directory of the keys is one of its own.
Save(j, data) ==
  \E now \in Seconds :
    LET copy == [of |-> Head(job[j].todo), at |-> now, data |-> data] IN
    /\ sec' = now
    /\ IF job[j].key THEN keybaks' = Put(keybaks, copy) /\ baks' = baks
       ELSE baks' = Put(baks, copy) /\ keybaks' = keybaks

\* Bug for NothingLost: a copy is made of what is to be written.
Copy_TooLate(j) ==
  /\ job[j].pc = "copy" /\ To(j, "open")
  /\ Save(j, job[j].data[Head(job[j].todo)])
  /\ UNCHANGED <<dir, disk, dirs, box, wanted, faults, apart>>

\* BackupConfigFile and BackupKey.  One that fails ends the command.
Copy(j) ==
  /\ job[j].pc = "copy"
  /\ \/ Save(j, disk[Head(job[j].todo)]) /\ To(j, "open") /\ UNCHANGED faults
     \/ Save(j, Torn) /\ Fault /\ Ends(j, "failed")
  /\ UNCHANGED <<dir, disk, dirs, box, wanted, apart>>

-----------------------------------------------------------------------------
(* All files: UpgradeConfigs and RestoreConfigVersion *)

\* backupConfigsWithVersion copies what the directory has, the key included.
Label(j) == job[j].kind
CopyAll(j) ==
  LET put(now, data) ==
        dirs' = {d \in dirs : d.label # Label(j) \/ d.at # now}
                  \cup {[label |-> Label(j), at |-> now, data |-> data]} IN
  /\ job[j].pc = "sent" /\ job[j].kind \in {"upgrade", "revert"}
  /\ \E now \in Seconds :
       /\ sec' = now
       /\ \/ put(now, disk) /\ To(j, IF job[j].kind = "upgrade" THEN "values" ELSE "entries")
             /\ UNCHANGED faults
          \/ \E some \in SUBSET Files :
               /\ put(now, [f \in Files |-> IF f \in some THEN disk[f] ELSE None])
               /\ Fault /\ Ends(j, "failed")
  /\ UNCHANGED <<dir, disk, baks, keybaks, box, wanted, apart>>

\* Bug for SettingKept: the value that is to be carried over is not read.
ReadUserValues_None(j) ==
  /\ job[j].pc = "values"
  /\ job' = [job EXCEPT ![j].pc = "download", ![j].user = Default]
  /\ OnlyTheJob

\* The value that is to be carried over is read before the download.
ReadUserValues(j) ==
  /\ job[j].pc = "values"
  /\ job' = [job EXCEPT ![j].pc = "download",
                        ![j].user = IF Whole(disk["toml"]) THEN disk["toml"][2] ELSE Default]
  /\ OnlyTheJob

\* What a download leaves of "toml": the archive has it; the second source has
\* not, but the archive may have left half of it when it was cut off.
Toml(r, setting) == {<<r, setting>>, None, Torn}
CutOff(toml) == IF toml = Torn THEN Fault ELSE UNCHANGED faults

DownloadConfigs(j) ==
  /\ job[j].pc = "download"
  /\ \/ \E r \in Releases : \E toml \in Toml(r, job[j].user) :
          /\ job' = [job EXCEPT ![j].pc = "open", ![j].user = None,
                ![j].data = [NoJob.data EXCEPT !["yaml"] = <<r, Default>>, !["toml"] = toml],
                ![j].todo = IF toml = None THEN <<"yaml">> ELSE <<"yaml", "toml">>]
          /\ CutOff(toml)
     \/ Ends(j, "failed") /\ UNCHANGED faults
  /\ UNCHANGED <<dir, disk, baks, keybaks, dirs, sec, box, wanted, apart>>

\* The files of the copy, in the order of their names.
ReadEntries(j) ==
  /\ job[j].pc = "entries"
  /\ \E d \in dirs :
       /\ <<d.label, d.at>> = job[j].from
       /\ LET entry(f) == IF d.data[f] # None THEN <<f>> ELSE <<>>
              todo == entry("toml") \o entry("yaml") \o entry("key") IN
          IF todo = <<>> THEN Ends(j, "done")
          ELSE job' = [job EXCEPT ![j].pc = "open", ![j].data = d.data, ![j].todo = todo]
  /\ OnlyTheJob

-----------------------------------------------------------------------------
(* WriteFile truncates, then writes *)

Open(j) ==
  /\ job[j].pc = "open"
  /\ disk' = [disk EXCEPT ![Head(job[j].todo)] = Torn]
  /\ To(j, "writing")
  /\ UNCHANGED <<dir, baks, keybaks, dirs, sec, box, wanted, faults, apart>>

\* What the operator asks for: any setting but by an upgrade, and any key but
\* by a command on the configuration as a whole.
Asked(j, f) ==
  LET c == job[j].data[f] IN
  IF f = "toml" /\ job[j].kind # "upgrade" /\ Whole(c) THEN [wanted EXCEPT !.toml = c[2]]
  ELSE IF f = "key" /\ job[j].kind # "revert" THEN [wanted EXCEPT !.key = c]
  ELSE wanted

\* Who has opened the file after another, and ends after it, leaves a mixture
\* unless what it writes is the longer.
Written(f, data) == {data} \cup (IF disk[f] # Torn THEN {Torn} ELSE {})

\* Bug for TypeOK: the last file is taken for one of many.
Finish_Again(j) ==
  LET f == Head(job[j].todo) IN
  /\ job[j].pc = "writing"
  /\ \E c \in Written(f, job[j].data[f]) : disk' = [disk EXCEPT ![f] = c]
  /\ job' = [job EXCEPT ![j].pc = "open", ![j].todo = Tail(@)]
  /\ wanted' = Asked(j, f)
  /\ UNCHANGED <<dir, baks, keybaks, dirs, sec, box, faults, apart>>

Finish(j) ==
  LET f == Head(job[j].todo) IN
  /\ job[j].pc = "writing"
  /\ \/ /\ \E c \in Written(f, job[j].data[f]) : disk' = [disk EXCEPT ![f] = c]
        /\ wanted' = Asked(j, f)
        /\ IF Len(job[j].todo) > 1 THEN job' = [job EXCEPT ![j].pc = "open", ![j].todo = Tail(@)]
           ELSE IF job[j].kind \in {"write", "apply"} /\ job[j].full THEN To(j, "restart") ELSE Ends(j, "done")
        /\ UNCHANGED faults
     \/ Fault /\ Ends(j, "failed") /\ UNCHANGED <<disk, wanted>>
  /\ UNCHANGED <<dir, baks, keybaks, dirs, sec, box, apart>>

\* That the container does not restart is a remark in the output, no failure.
RestartContainer(j) ==
  /\ job[j].pc = "restart"
  /\ box' \in {box} \cup (IF box = None THEN {} ELSE {[box EXCEPT !.up = TRUE]})
  /\ Ends(j, "done")
  /\ UNCHANGED <<dir, disk, baks, keybaks, dirs, sec, wanted, faults, apart>>

-----------------------------------------------------------------------------
(* Provisioner *)

Steps(j) ==
  <<"preflight", "pull", "dirs", "config">>
    \o (IF job[j].full THEN <<"fulldb">> ELSE <<>>)
    \o (IF job[j].key THEN <<"genkey">> ELSE <<>>)
    \o <<"perm", "create", "start", "verify">>
At(j, pc) == job[j].kind = "provision" /\ job[j].pc = pc
Index(j) == CHOOSE i \in 1..Len(Steps(j)) : Steps(j)[i] = job[j].pc

\* Bug for FailedLeavesNone: the steps are counted as if all were asked for.
Cleanup_AllSteps(j) == IF Index(j) > 7 THEN To(j, "cleanup") ELSE Ends(j, "failed")

\* cleanup removes the container when the fifth step or a later one failed.
Cleanup(j) == IF Index(j) > 4 THEN To(j, "cleanup") ELSE Ends(j, "failed")

\* Any step may fail.
NextStep(j) == IF job[j].pc = "verify" THEN Ends(j, "done") ELSE To(j, Steps(j)[Index(j) + 1])
Ordinary(j, pc) == At(j, pc) /\ (NextStep(j) \/ Cleanup(j)) /\ OnlyTheJob

PullImage(j) == Ordinary(j, "pull")
DownloadFullDB(j) == Ordinary(j, "fulldb")
SetPermissions(j) == Ordinary(j, "perm")

Preflight(j) ==
  /\ At(j, "preflight")
  /\ (~dir /\ NextStep(j)) \/ Cleanup(j)
  /\ OnlyTheJob

CreateDirs(j) ==
  /\ At(j, "dirs")
  /\ dir' = TRUE
  /\ NextStep(j) \/ Cleanup(j)
  /\ UNCHANGED <<disk, baks, keybaks, dirs, sec, box, wanted, faults, apart>>

\* The operator's setting is written into "toml", if there is one.
DownloadConfig(j) ==
  /\ At(j, "config")
  /\ \E r \in Releases :
       \/ \E toml \in Toml(r, job[j].user) :
            /\ disk' = [disk EXCEPT !["yaml"] = <<r, Default>>, !["toml"] = IF toml = None THEN @ ELSE toml]
            /\ wanted' = IF Whole(toml) THEN [wanted EXCEPT !.toml = job[j].user] ELSE wanted
            /\ CutOff(toml) /\ NextStep(j)
       \/ \E some, half \in SUBSET Config :
            /\ disk' = [f \in Files |-> IF f \in half THEN Torn
                                      ELSE IF f \in some THEN <<r, Default>> ELSE disk[f]]
            /\ Cleanup(j) /\ UNCHANGED <<wanted, faults>>
  /\ UNCHANGED <<dir, baks, keybaks, dirs, sec, box, apart>>

\* GenerateKey keeps a copy of a key that is there.
GenerateValidatorKey(j) ==
  /\ At(j, "genkey")
  /\ \/ /\ \E k \in Keys : disk' = [disk EXCEPT !["key"] = k] /\ wanted' = [wanted EXCEPT !.key = k]
        /\ IF disk["key"] = None THEN UNCHANGED <<sec, keybaks>>
           ELSE \E now \in Seconds :
                  sec' = now /\ keybaks' = Put(keybaks, [of |-> "key", at |-> now, data |-> disk["key"]])
        /\ NextStep(j)
     \/ Cleanup(j) /\ UNCHANGED <<disk, wanted, sec, keybaks>>
  /\ UNCHANGED <<dir, baks, dirs, box, faults, apart>>

\* Docker refuses a name that is taken.  A container may be created whose
\* answer does not come back in time.
CreateContainer(j) ==
  /\ At(j, "create")
  /\ \/ box = None /\ box' = [by |-> j, here |-> TRUE, up |-> FALSE] /\ (NextStep(j) \/ Cleanup(j))
     \/ Cleanup(j) /\ box' = box
  /\ UNCHANGED <<dir, disk, baks, keybaks, dirs, sec, wanted, faults, apart>>

StartContainer(j) ==
  /\ At(j, "start")
  /\ \/ box # None /\ box' = [box EXCEPT !.up = TRUE] /\ NextStep(j)
     \/ Cleanup(j) /\ box' = box
  /\ UNCHANGED <<dir, disk, baks, keybaks, dirs, sec, wanted, faults, apart>>

Verify(j) ==
  /\ At(j, "verify")
  /\ (box # None /\ NextStep(j)) \/ Cleanup(j)
  /\ OnlyTheJob

\* By name, and by force; that it fails is ignored.
RemoveContainer(j) ==
  /\ At(j, "cleanup")
  /\ Ends(j, "failed")
  /\ \/ box' = None /\ UNCHANGED faults
     \/ box' = box /\ Fault
  /\ UNCHANGED <<dir, disk, baks, keybaks, dirs, sec, wanted, apart>>

-----------------------------------------------------------------------------
\* The agent dies, and every command with it.
Crash ==
  /\ \E j \in Jobs : Running(j)
  /\ Fault
  /\ job' = [j \in Jobs |-> IF Running(j) THEN Over(job[j].kind, "failed") ELSE job[j]]
  /\ UNCHANGED <<dir, disk, baks, keybaks, dirs, sec, box, wanted, apart>>

Handler(j) ==
  \/ HandleWriteFile(j) \/ HandleMultiPush(j) \/ HandleApply(j) \/ HandleRestore(j)
  \/ HandleConfigUpgrade(j) \/ HandleConfigVersionRestore(j) \/ HandleImportKey(j)
  \/ HandleGenerateKey(j) \/ HandleProvision(j)
Command(j) ==
  \/ ReadConfig(j) \/ WriteConfig(j) \/ RestoreConfig(j) \/ ImportKey(j) \/ GenerateKey(j)
  \/ Stat(j) \/ Copy(j) \/ CopyAll(j) \/ ReadUserValues(j) \/ DownloadConfigs(j)
  \/ ReadEntries(j) \/ Open(j) \/ Finish(j) \/ RestartContainer(j)
Provision(j) ==
  \/ Preflight(j) \/ PullImage(j) \/ CreateDirs(j) \/ DownloadConfig(j) \/ DownloadFullDB(j)
  \/ GenerateValidatorKey(j) \/ SetPermissions(j) \/ CreateContainer(j) \/ StartContainer(j)
  \/ Verify(j) \/ RemoveContainer(j)

Next == Crash \/ \E j \in Jobs : Handler(j) \/ Command(j) \/ Provision(j)

Spec == Init /\ [][Next]_vars

-----------------------------------------------------------------------------
(* Properties *)

Values(f) == IF f = "key" THEN Keys ELSE Contents
TypeOK ==
  /\ dir \in BOOLEAN
  /\ \A f \in Files : disk[f] \in Values(f) \cup {None, Torn}
  /\ \A b \in baks \cup keybaks : b.of \in Files /\ b.data \in Values(b.of) \cup {Torn}
  /\ \A d \in dirs : \A f \in Files : d.data[f] \in Values(f) \cup {None, Torn}
  /\ box = None \/ box \in [by : Jobs \cup {Stranger}, here : BOOLEAN, up : BOOLEAN]
  /\ \A j \in Jobs : job[j].pc \in {"open", "writing"} => job[j].todo # <<>>
  /\ apart => \A i, j \in Jobs : Running(i) /\ Running(j) => i = j
  /\ wanted.toml \in Settings \cup {None} /\ wanted.key \in Keys \cup {None, Torn}
  /\ faults \in 0..MaxFaults

Kept(f) == {c \in {disk[f]} \cup {b.data : b \in {b \in baks \cup keybaks : b.of = f}}
                  \cup {d.data[f] : d \in dirs} : Whole(c)}

\* Whatever is done to a node's configuration and key, and wherever it breaks
\* off, what a file has ever held whole is still there or in a copy
\* (config_ops.go:93-102, key_ops.go:190-199, config_upgrade.go:56) - the key
\* of a validator most of all.
NothingLost == [][apart => \A f \in Files : Kept(f) \subseteq Kept(f)']_vars

Idle == \A j \in Jobs : ~Running(j)

\* Without failures, the operator's setting is the one last asked for, whatever
\* sequence of upgrades, restores and edits went over it (config_upgrade.go:63),
\* and so is the key, as long as no version of the configuration was restored.
SettingKept ==
  apart /\ Idle /\ faults = 0 =>
    /\ wanted.toml # None => disk["toml"][2] = wanted.toml
    /\ (\A j \in Jobs : job[j].kind # "revert") => disk["key"] = wanted.key

\* A provisioning that failed has no container of its own left behind, with
\* whichever steps it was made of (provisioner.go:466).
FailedLeavesNone ==
  faults = 0 => \A j \in Jobs :
    job[j].kind = "provision" /\ job[j].pc = "failed" /\ box # None => box.by # j

\* "they must go through key.import so key material rotation is an explicit,
\* auditable action" (config_ops.go:236): the key is the one last imported,
\* generated or restored as such.
KeyIsTheOneAsked == apart /\ Idle /\ faults = 0 => disk["key"] = wanted.key

\* "If container was created (step 5+), try to remove it" (provisioner.go:466):
\* a provisioning removes no container but its own.
RemovesItsOwn == [][box # None /\ box' = None /\ apart => box.by \in Jobs]_vars
=============================================================================
