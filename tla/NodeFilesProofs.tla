-------------------------- MODULE NodeFilesProofs --------------------------
(***************************************************************************)
(* Theorems about NodeFiles, for any commands, releases, settings and      *)
(* keys, wherever files and Docker fail and the agent dies.                *)
(***************************************************************************)
EXTENDS NodeFiles, SequenceTheorems, TLAPS

-----------------------------------------------------------------------------
(* What a command is like at each of its steps *)

Ended == {"new", "done", "failed"}
Early == {"preflight", "pull", "dirs", "config"}
Late == {"fulldb", "genkey", "perm", "create", "start", "verify"}
Kinds == {"none", "write", "apply", "restore", "import", "generate", "upgrade", "revert",
          "provision"}
Pcs == Ended \cup Early \cup Late \cup {"cleanup", "read", "sent", "stat", "copy", "open",
                                        "writing", "restart", "values", "download", "entries"}
Labels == {"upgrade", "revert"}

\* The files that may be left to write, in the order in which they are.
Todos == {<<"yaml">>, <<"toml">>, <<"key">>, <<"yaml", "toml">>, <<"toml", "yaml">>,
          <<"toml", "key">>, <<"yaml", "key">>, <<"toml", "yaml", "key">>}
In(f, todo) == \E i \in DOMAIN todo : todo[i] = f

All == Contents \cup Keys \cup {None, Torn}
Froms == {None} \cup Nat \cup (Labels \X Nat)
JobSet == [kind : Kinds, pc : Pcs, data : [Files -> All], todo : Todos \cup {<<>>},
           from : Froms, user : Settings \cup {None}, key : BOOLEAN, full : BOOLEAN]

\* One file of the configuration, or the key, is written, and what with.
WriteShape(k) ==
  /\ k.kind = "write" /\ k.pc \in {"sent", "stat", "copy", "open", "writing", "restart"}
  /\ k.todo \in {<<"yaml">>, <<"toml">>} /\ ~k.key
  /\ \A f \in Config : In(f, k.todo) => k.data[f] \in Contents
ApplyShape(k) ==
  /\ k.kind = "apply"
  /\ k.pc \in {"read", "sent", "stat", "copy", "open", "writing", "restart"}
  /\ k.todo = <<"yaml">> /\ ~k.key /\ k.user \in Settings
  /\ k.pc # "read" => k.data["yaml"] \in Contents \cup {Torn}
RestoreShape(k) ==
  /\ k.kind = "restore" /\ k.pc \in {"sent", "stat", "copy", "open", "writing"}
  /\ k.todo \in {<<"yaml">>, <<"toml">>} /\ ~k.key
  /\ k.pc # "sent" => \A f \in Config : In(f, k.todo) => k.data[f] \in Contents \cup {Torn}
KeyShape(k) ==
  /\ k.kind \in {"import", "generate"} /\ k.pc \in {"sent", "stat", "copy", "open", "writing"}
  /\ k.todo = <<"key">> /\ k.key
  /\ ~(k.kind = "generate" /\ k.pc = "sent") => k.data["key"] \in Keys

\* All files are, from a download or from a copy.
UpgradeShape(k) ==
  /\ k.kind = "upgrade" /\ k.pc \in {"sent", "values", "download", "open", "writing"}
  /\ k.pc = "download" => k.user \in Settings
  /\ k.pc \in {"open", "writing"} =>
       /\ k.todo \in {<<"yaml">>, <<"toml">>, <<"yaml", "toml">>}
       /\ \A f \in Config : In(f, k.todo) => k.data[f] \in Contents \cup {Torn}
RevertShape(k) ==
  /\ k.kind = "revert" /\ k.pc \in {"sent", "entries", "open", "writing"}
  /\ k.pc \in {"open", "writing"} =>
       /\ k.todo # <<>>
       /\ \A f \in Files : In(f, k.todo) => k.data[f] \in Values(f) \cup {Torn}

ProvisionShape(k) ==
  /\ k.kind = "provision" /\ k.pc \in Early \cup Late \cup {"cleanup"} /\ k.user \in Settings
  /\ k.pc = "fulldb" => k.full
  /\ k.pc = "genkey" => k.key

Shape(k) ==
  /\ k.kind = "none" <=> k.pc = "new"
  /\ \/ k.pc \in Ended
     \/ WriteShape(k) \/ ApplyShape(k) \/ RestoreShape(k) \/ KeyShape(k)
     \/ UpgradeShape(k) \/ RevertShape(k) \/ ProvisionShape(k)

-----------------------------------------------------------------------------
(* The inductive invariant *)

Typed ==
  /\ dir \in BOOLEAN /\ apart \in BOOLEAN /\ faults \in 0 .. MaxFaults /\ sec \in Nat
  /\ disk \in [Files -> All] /\ \A f \in Files : disk[f] \in Values(f) \cup {None, Torn}
  /\ \A b \in baks : b.of \in Config /\ b.at \in Nat /\ b.data \in Contents \cup {Torn}
  /\ \A b \in keybaks : b.of = "key" /\ b.at \in Nat /\ b.data \in Keys \cup {Torn}
  /\ \A d \in dirs : /\ d.label \in Labels /\ d.at \in Nat /\ d.data \in [Files -> All]
                     /\ \A f \in Files : d.data[f] \in Values(f) \cup {None, Torn}
  /\ box \in {None} \cup [by : Jobs \cup {Stranger}, here : BOOLEAN, up : BOOLEAN]
  /\ wanted \in [toml : Settings \cup {None}, key : Keys \cup {None, Torn}]

Runs(k) == k.pc \notin Ended
Solo == apart => \A i, j \in Jobs : Runs(job[i]) /\ Runs(job[j]) => i = j

\* Without a directory there is nothing, and nobody works in it; and a file
\* that is there stays there.
Placed == (Known => dir) /\ (~dir => wanted.toml = None /\ \A f \in Files : disk[f] = None)
PlacedJob(k) ==
  /\ Runs(k) /\ k.pc \notin {"preflight", "pull", "dirs", "cleanup"} => dir
  /\ k.pc = "copy" => \A f \in Files : In(f, k.todo) => disk[f] # None

\* Where commands follow one another, no copy takes the place of another, and
\* what is still to be written over has been copied.
InCopies(f, c) ==
  (\E b \in baks \cup keybaks : b.of = f /\ b.data = c) \/ \E d \in dirs : d.data[f] = c
Copied(f) == Whole(disk[f]) => InCopies(f, disk[f])
Writes(k, f) == k.pc = "writing" /\ Head(k.todo) = f

Orderly == \A c \in baks \cup keybaks \cup dirs : c.at <= sec
OrderlyJob(k) ==
  /\ \A f \in Files : Writes(k, f) => disk[f] = Torn
  /\ k.pc \in {"values", "download", "entries"} => \A f \in Files : Copied(f)
  /\ k.pc \in {"open", "writing"} => \A f \in Files : In(f, k.todo) => Copied(f)
  /\ k.pc \in {"pull", "dirs", "config"} =>
       ~Known /\ wanted.toml = None /\ \A f \in Files : disk[f] = None

\* Where besides nothing fails, the setting and the key on disk are those last
\* asked for, or are just being written.
Calm == apart /\ faults = 0
Busy(k) == k.pc \notin Ended \cup Early \cup {"cleanup"}
Held == /\ \A b \in baks : b.of = "toml" => Whole(b.data)
        /\ \A d \in dirs : d.data["toml"] # Torn
AsAsked == Whole(disk["toml"]) /\ disk["toml"][2] = wanted.toml
Setting ==
  /\ Held
  /\ (Known \/ \E j \in Jobs : Busy(job[j])) /\ disk["toml"] = Torn =>
       \E j \in Jobs : Writes(job[j], "toml")
  /\ wanted.toml # None => AsAsked \/ \E j \in Jobs : Writes(job[j], "toml")
  /\ (\A j \in Jobs : job[j].kind # "revert") =>
       disk["key"] = wanted.key \/ \E j \in Jobs : Writes(job[j], "key")
SettingJob(k) ==
  /\ k.kind \in {"restore", "upgrade", "revert"} /\ k.pc \in {"stat", "copy", "open", "writing"}
       /\ In("toml", k.todo) => Whole(k.data["toml"])
  /\ k.kind = "upgrade" /\ wanted.toml # None =>
       /\ k.pc = "download" => k.user = wanted.toml
       /\ k.pc \in {"open", "writing"} /\ In("toml", k.todo) => k.data["toml"][2] = wanted.toml

\* A container is of a provisioning that has not failed.
OwnJob(j, k) ==
  faults = 0 /\ box # None /\ box.by = j =>
    k.kind = "provision" /\ k.pc \in {"start", "verify", "cleanup", "done"}

Fits(j, k) ==
  /\ k \in JobSet /\ Shape(k) /\ PlacedJob(k) /\ OwnJob(j, k)
  /\ apart => OrderlyJob(k)
  /\ Calm => SettingJob(k)

IInv ==
  /\ Typed /\ Solo /\ Placed
  /\ apart => Orderly
  /\ Calm => Setting
  /\ job \in [Jobs -> JobSet] /\ \A j \in Jobs : Fits(j, job[j])

-----------------------------------------------------------------------------
(* What is left to write *)

\* A sequence of files that begins with one and goes on with others.
First(todo, f) == Len(todo) = 1 /\ Head(todo) = f /\ todo # <<>> /\ \A g : In(g, todo) <=> g = f
Then(todo, f, rest) ==
  /\ Len(todo) > 1 /\ Head(todo) = f /\ todo # <<>> /\ Tail(todo) = rest /\ rest \in Todos
  /\ \A g : In(g, todo) <=> g = f \/ In(g, rest)
  /\ ~ In(f, rest)

\* One file is the first and the last.
LEMMA One == ASSUME NEW a, NEW t, t = <<a>> PROVE First(t, a)
  BY DEF In, First

\* Of two files the second is left after the first.
LEMMA Two ==
  ASSUME NEW a, NEW b, a # b, <<b>> \in Todos, NEW t, t = <<a, b>>
  PROVE  Then(t, a, <<b>>)
<1>1. Len(t) > 1 /\ Head(t) = a /\ Tail(t) = <<b>> /\ t # <<>>
  OBVIOUS
<1>2. DOMAIN t = {1, 2} /\ t[1] = a /\ t[2] = b
  OBVIOUS
<1>3. \A f : In(f, t) <=> f = a \/ f = b
  BY <1>2, t = <<a, b>> DEF In
<1>4. \A f : In(f, <<b>>) <=> f = b
  BY One DEF First
<1> QED
  BY ONLY <1>1, <1>3, <1>4, a # b, <<b>> \in Todos DEF Then

\* Of three files two are left after the first.
LEMMA Three ==
  ASSUME NEW a, NEW b, NEW c, a # b, a # c, <<b, c>> \in Todos, NEW t, t = <<a, b, c>>
  PROVE  Then(t, a, <<b, c>>)
<1>1. Len(t) > 1 /\ Head(t) = a /\ Tail(t) = <<b, c>> /\ t # <<>>
  OBVIOUS
<1>2. DOMAIN t = {1, 2, 3} /\ t[1] = a /\ t[2] = b /\ t[3] = c
  OBVIOUS
<1>3. \A f : In(f, t) <=> f = a \/ f = b \/ f = c
  BY <1>2 DEF In
<1>4. \A f : In(f, <<b, c>>) <=> f = b \/ f = c
  <2>1. PICK u : u = <<b, c>>
    OBVIOUS
  <2>2. DOMAIN u = {1, 2} /\ u[1] = b /\ u[2] = c
    BY <2>1
  <2> QED
    BY <2>1, <2>2 DEF In
<1> QED
  BY ONLY <1>1, <1>3, <1>4, a # b, a # c, <<b, c>> \in Todos DEF Then

\* What is left to write begins with a file, which is not there twice.
LEMMA Left ==
  ASSUME NEW todo \in Todos
  PROVE  \E f \in Files : First(todo, f) \/ Then(todo, f, Tail(todo))
<1>1. /\ "yaml" \in Files /\ "toml" \in Files /\ "key" \in Files
      /\ "yaml" # "toml" /\ "yaml" # "key" /\ "toml" # "key"
  BY DEF Files
<1>2. {<<"yaml">>, <<"toml">>, <<"key">>, <<"yaml", "key">>} \subseteq Todos
  BY DEF Todos
<1>3. \A f, rest : Then(todo, f, rest) => Then(todo, f, Tail(todo))
  BY DEF Then
<1>4. CASE todo \in {<<"yaml">>, <<"toml">>, <<"key">>}
  BY <1>1, <1>4, One
<1>5. CASE todo \in {<<"yaml", "toml">>, <<"toml", "yaml">>, <<"toml", "key">>, <<"yaml", "key">>}
  <2>1. ASSUME NEW a \in Files, NEW b \in Files, a # b, <<b>> \in Todos, todo = <<a, b>>
        PROVE  Then(todo, a, Tail(todo))
    BY <1>3, <2>1, Two
  <2> QED
    BY <1>1, <1>2, <1>5, <2>1
<1>6. CASE todo = <<"toml", "yaml", "key">>
  BY <1>1, <1>2, <1>3, <1>6, Three
<1> QED
  BY <1>4, <1>5, <1>6 DEF Todos

-----------------------------------------------------------------------------
(* The steps of a provisioning *)

\* What a sequence with another at its end holds.
Joined(t, s, u) ==
  /\ Len(t) = Len(s) + Len(u)
  /\ \A i \in 1 .. Len(s) + Len(u) : t[i] = IF i <= Len(s) THEN s[i] ELSE u[i - Len(s)]

\* Putting one sequence after another joins them.
LEMMA Join ==
  ASSUME NEW S, NEW s \in Seq(S), NEW u \in Seq(S), NEW t, t = s \o u
  PROVE  t \in Seq(S) /\ Joined(t, s, u)
  BY ConcatProperties DEF Joined

\* Where each step is: n of those that may be asked for are, after the first four.
Laid(s, n, full, key) ==
  /\ n \in 0 .. 2 /\ Len(s) = n + 8
  /\ s[1] = "preflight" /\ s[2] = "pull" /\ s[3] = "dirs" /\ s[4] = "config"
  /\ \A i \in 5 .. 4 + n : s[i] = "fulldb" \/ (s[i] = "genkey" /\ key)
  /\ \A i \in 5 .. 4 + n : s[i] = "fulldb" => full
  /\ full => n > 0 /\ s[5] = "fulldb"
  /\ key => n > 0 /\ s[4 + n] = "genkey"
  /\ s[n + 5] = "perm" /\ s[n + 6] = "create" /\ s[n + 7] = "start" /\ s[n + 8] = "verify"

\* The steps of a provisioning are laid out so, whichever were asked for.
LEMMA StepsLaid ==
  ASSUME NEW j, job[j].full \in BOOLEAN, job[j].key \in BOOLEAN
  PROVE  \E n \in 0 .. 2 : Laid(Steps(j), n, job[j].full, job[j].key)
<1> DEFINE S == Early \cup Late
<1>1. PICK full \in BOOLEAN, key \in BOOLEAN : full = job[j].full /\ key = job[j].key
  OBVIOUS
<1>2. PICK a, d, x, y : /\ a = <<"preflight", "pull", "dirs", "config">>
                        /\ d = <<"perm", "create", "start", "verify">>
                        /\ x = <<"fulldb">> /\ y = <<"genkey">>
  OBVIOUS
<1>3. /\ a \in Seq(S) /\ d \in Seq(S) /\ x \in Seq(S) /\ y \in Seq(S)
      /\ Len(a) = 4 /\ Len(d) = 4 /\ Len(x) = 1 /\ Len(y) = 1
      /\ a[1] = "preflight" /\ a[2] = "pull" /\ a[3] = "dirs" /\ a[4] = "config"
      /\ d[1] = "perm" /\ d[2] = "create" /\ d[3] = "start" /\ d[4] = "verify"
      /\ x[1] = "fulldb" /\ y[1] = "genkey"
  BY <1>2 DEF Early, Late
<1>4. PICK b : b = IF full THEN a \o x ELSE a
  OBVIOUS
<1>5. PICK c : c = IF key THEN b \o y ELSE b
  OBVIOUS
<1> HIDE DEF S
<1>6. PICK m \in 0 .. 1, n \in 0 .. 2 : /\ m = IF full THEN 1 ELSE 0
                                        /\ n = m + (IF key THEN 1 ELSE 0)
  OBVIOUS
<1>7. /\ b \in Seq(S) /\ Len(b) = 4 + m /\ \A i \in 1 .. 4 : b[i] = a[i]
      /\ full => b[5] = "fulldb"
  <2>1. CASE full
    <3>1. b \in Seq(S) /\ Joined(b, a, x)
      BY <1>3, <1>4, <2>1, Join
    <3>2. Len(b) = 5 /\ \A i \in 1 .. 5 : b[i] = IF i <= 4 THEN a[i] ELSE x[i - 4]
      BY <1>3, <3>1 DEF Joined
    <3> QED
      BY <1>3, <1>6, <2>1, <3>1, <3>2
  <2>2. CASE ~full
    BY <1>3, <1>4, <1>6, <2>2
  <2> QED
    BY <2>1, <2>2
<1>8. /\ c \in Seq(S) /\ Len(c) = 4 + n /\ \A i \in 1 .. 4 + m : c[i] = b[i]
      /\ key => c[5 + m] = "genkey"
  <2>1. CASE key
    <3>1. PICK q \in Nat : q = 4 + m
      BY <1>6
    <3>2. c \in Seq(S) /\ Joined(c, b, y) /\ Len(b) = q
      BY <1>3, <1>5, <1>7, <2>1, <3>1, Join
    <3>3. Len(c) = q + 1 /\ \A i \in 1 .. q + 1 : c[i] = IF i <= q THEN b[i] ELSE y[i - q]
      BY <1>3, <3>2 DEF Joined
    <3> QED
      BY <1>3, <1>6, <2>1, <3>1, <3>2, <3>3
  <2>2. CASE ~key
    BY <1>5, <1>6, <1>7, <2>2
  <2> QED
    BY <2>1, <2>2
<1>9. PICK s : s = Steps(j)
  OBVIOUS
<1>10. s = c \o d
  <2>1. a \o (IF full THEN x ELSE <<>>) = b
    BY <1>3, <1>4
  <2>2. b \o (IF key THEN y ELSE <<>>) = c
    BY <1>5, <1>7
  <2> QED
    BY <1>1, <1>2, <1>9, <2>1, <2>2, Zenon DEF Steps
<1>11. /\ Len(s) = n + 8 /\ \A i \in 1 .. 4 + n : s[i] = c[i]
       /\ s[n + 5] = "perm" /\ s[n + 6] = "create" /\ s[n + 7] = "start" /\ s[n + 8] = "verify"
  <2>1. PICK q \in Nat : q = 4 + n
    BY <1>6
  <2>2. Joined(s, c, d) /\ Len(c) = q
    BY <1>3, <1>8, <1>10, <2>1, Join
  <2>3. Len(s) = q + 4 /\ \A i \in 1 .. q + 4 : s[i] = IF i <= q THEN c[i] ELSE d[i - q]
    BY <1>3, <2>2 DEF Joined
  <2> QED
    BY <1>3, <2>1, <2>3
<1>12. s[1] = "preflight" /\ s[2] = "pull" /\ s[3] = "dirs" /\ s[4] = "config"
  BY <1>3, <1>6, <1>7, <1>8, <1>11
<1>13. full => n > 0 /\ s[5] = "fulldb"
  BY <1>6, <1>7, <1>8, <1>11
<1>14. key => n > 0 /\ s[4 + n] = "genkey"
  BY <1>6, <1>7, <1>8, <1>11
<1>15. \A i \in 5 .. 4 + n : (s[i] = "fulldb" /\ full) \/ (s[i] = "genkey" /\ key)
  BY <1>6, <1>7, <1>8, <1>11
<1>16. Laid(s, n, full, key)
  BY <1>11, <1>12, <1>13, <1>14, <1>15 DEF Laid
<1> QED
  BY <1>1, <1>9, <1>16

\* The step that comes after one.
Follows(p, q, full, key) ==
  \/ p = "preflight" /\ q = "pull"
  \/ p = "pull" /\ q = "dirs"
  \/ p = "dirs" /\ q = "config"
  \/ /\ p \in {"config", "fulldb", "genkey"} /\ q \in {"fulldb", "genkey", "perm"}
     /\ q = "fulldb" => full
     /\ q = "genkey" => key
  \/ p = "perm" /\ q = "create"
  \/ p = "create" /\ q = "start"
  \/ p = "start" /\ q = "verify"

\* The place of a step tells whether it is before the container, and what comes next.
LEMMA Order ==
  ASSUME NEW j, job[j].full \in BOOLEAN, job[j].key \in BOOLEAN, job[j].pc \in Early \cup Late,
         job[j].pc = "fulldb" => job[j].full, job[j].pc = "genkey" => job[j].key
  PROVE  /\ Index(j) \in Nat
         /\ job[j].pc \in Early <=> Index(j) <= 4
         /\ job[j].pc # "verify" =>
              Follows(job[j].pc, Steps(j)[Index(j) + 1], job[j].full, job[j].key)
<1>1. PICK full, key, p, s :
        /\ full \in BOOLEAN /\ key \in BOOLEAN
        /\ full = job[j].full /\ key = job[j].key /\ p = job[j].pc /\ s = Steps(j)
  OBVIOUS
<1>2. PICK n \in 0 .. 2 : Laid(s, n, full, key)
  BY <1>1, StepsLaid
<1>3. Len(s) = n + 8
  BY <1>2 DEF Laid
<1>4. p \in Early \cup Late /\ (p = "fulldb" => full) /\ (p = "genkey" => key)
  BY <1>1
<1>5. \E i \in 1 .. n + 8 : s[i] = p
  <2>1. \A i \in {1, 2, 3, 4, n + 5, n + 6, n + 7, n + 8} : i \in 1 .. n + 8
    OBVIOUS
  <2>2. (full => 5 \in 1 .. n + 8) /\ (key => 4 + n \in 1 .. n + 8)
    OBVIOUS
  <2>3. CASE p \in Early
    BY <1>2, <2>1, <2>3 DEF Early, Laid
  <2>4. CASE p \in {"perm", "create", "start", "verify"}
    BY <1>2, <2>1, <2>4 DEF Laid
  <2>5. CASE p \in {"fulldb", "genkey"}
    BY <1>2, <1>4, <2>2, <2>5 DEF Laid
  <2> QED
    BY <1>4, <2>3, <2>4, <2>5 DEF Late
<1>6. Index(j) = CHOOSE i \in 1 .. n + 8 : s[i] = p
  BY <1>1, <1>3, Zenon DEF Index
<1>7. PICK i \in 1 .. n + 8 : i = Index(j) /\ s[i] = p
  BY <1>5, <1>6
<1>8. \/ i \in 1 .. 4
      \/ i \in 5 .. 4 + n
      \/ i \in {n + 5, n + 6, n + 7, n + 8}
  OBVIOUS
<1>9. s[5 + n] = "perm" /\ s[n + 5] = "perm"
  BY <1>2 DEF Laid
<1>10. CASE i \in 1 .. 4
  <2>1. i \in {1, 2, 3, 4} /\ (i = 4 => (i + 1 \in 5 .. 4 + n \/ i + 1 = n + 5))
    BY <1>10
  <2>2. p \in Early /\ i <= 4
    BY <1>2, <1>7, <2>1 DEF Early, Laid
  <2>3. Follows(p, s[i + 1], full, key)
    <3>1. CASE i < 4
      BY <1>2, <1>7, <2>1, <3>1 DEF Follows, Laid
    <3>2. CASE i = 4
      <4>1. p = "config" /\ 4 + 1 = i + 1
        BY <1>2, <1>7, <3>2 DEF Laid
      <4>2. s[i + 1] \in {"fulldb", "genkey", "perm"} /\ (s[i + 1] = "fulldb" => full)
            /\ (s[i + 1] = "genkey" => key)
        BY <1>2, <1>9, <2>1, <3>2 DEF Laid
      <4> QED
        BY <4>1, <4>2 DEF Follows
    <3> QED
      BY <2>1, <3>1, <3>2
  <2> QED
    BY <1>1, <1>7, <2>2, <2>3
<1>11. CASE i \in 5 .. 4 + n
  <2>1. i > 4 /\ (i + 1 \in 5 .. 4 + n \/ i + 1 = n + 5)
    BY <1>11
  <2>2. p \in {"fulldb", "genkey"} /\ p \notin Early
    BY <1>2, <1>7, <1>11 DEF Early, Laid
  <2>3. s[i + 1] \in {"fulldb", "genkey", "perm"} /\ (s[i + 1] = "fulldb" => full)
        /\ (s[i + 1] = "genkey" => key)
    BY <1>2, <1>9, <2>1 DEF Laid
  <2>4. Follows(p, s[i + 1], full, key)
    BY <2>2, <2>3 DEF Follows
  <2> QED
    BY <1>1, <1>7, <2>1, <2>2, <2>4
<1>12. CASE i \in {n + 5, n + 6, n + 7, n + 8}
  <2>1. i > 4 /\ (i = n + 5 => i + 1 = n + 6) /\ (i = n + 6 => i + 1 = n + 7)
        /\ (i = n + 7 => i + 1 = n + 8)
    BY <1>12
  <2>2. p \in {"perm", "create", "start", "verify"} /\ p \notin Early
    BY <1>2, <1>7, <1>12 DEF Early, Laid
  <2>3. p # "verify" => Follows(p, s[i + 1], full, key)
    BY <1>2, <1>7, <1>12, <2>1 DEF Follows, Laid
  <2> QED
    BY <1>1, <1>7, <2>1, <2>2, <2>3
<1> QED
  BY <1>8, <1>10, <1>11, <1>12

-----------------------------------------------------------------------------
(* What one step of a command has to keep *)

\* What is true of the disk for the one command that may be at work.
SettingOf(k) ==
  /\ Held
  /\ (Known \/ Busy(k)) /\ disk["toml"] = Torn => Writes(k, "toml")
  /\ wanted.toml # None => AsAsked \/ Writes(k, "toml")
  /\ (\A i \in Jobs : job[i].kind # "revert") => disk["key"] = wanted.key \/ Writes(k, "key")

\* Where no other command runs, the disk is described by this one alone.
LEMMA Focus ==
  ASSUME NEW j \in Jobs, \A i \in Jobs \ {j} : ~Runs(job[i])
  PROVE  Setting <=> SettingOf(job[j])
<1>1. \A i \in Jobs \ {j} : ~Busy(job[i]) /\ \A f : ~Writes(job[i], f)
  BY DEF Busy, Writes, Runs, Ended
<1>2. (\E i \in Jobs : Busy(job[i])) <=> Busy(job[j])
  BY <1>1
<1>3. \A f : (\E i \in Jobs : Writes(job[i], f)) <=> Writes(job[j], f)
  BY <1>1
<1> QED
  BY <1>2, <1>3 DEF Setting, SettingOf

\* The same after a step of it.
LEMMA FocusNext ==
  ASSUME NEW j \in Jobs, NEW k, job \in [Jobs -> JobSet], job' = [job EXCEPT ![j] = k],
         \A i \in Jobs \ {j} : ~Runs(job[i]), SettingOf(k)'
  PROVE  Setting'
<1>1. job'[j] = k /\ \A i \in Jobs \ {j} : ~Runs(job'[i])
  BY DEF Runs
<1>2. \A i \in Jobs \ {j} : ~Busy(job'[i]) /\ \A f : ~Writes(job'[i], f)
  BY <1>1 DEF Busy, Writes, Runs, Ended
<1>3. (\E i \in Jobs : Busy(job'[i])) <=> Busy(k)
  BY <1>1, <1>2
<1>4. \A f : (\E i \in Jobs : Writes(job'[i], f)) <=> Writes(k, f)
  BY <1>1, <1>2
<1> QED
  BY <1>3, <1>4 DEF Setting, SettingOf, Busy, Writes

\* A command that does not run fits the world as long as no container is its.
LEMMA FitsEnded ==
  ASSUME NEW j, NEW k \in JobSet, k.pc \in Ended, k.kind = "none" <=> k.pc = "new", OwnJob(j, k)
  PROVE  Fits(j, k)
  BY DEF Fits, Ended, Shape, PlacedJob, Runs, OrderlyJob, Writes, SettingJob

\* A step of j, where k is what becomes of it, keeps the invariant when k fits
\* the world, nothing that is there goes away, no other command is given a
\* container, and where the operator waits no other one runs.
LEMMA Step ==
  ASSUME IInv, NEW j \in Jobs, NEW k, job' = [job EXCEPT ![j] = k],
         Fits(j, k)', Typed', Placed', (apart => Orderly)', (Calm => SettingOf(k))',
         apart' = apart, apart => \A i \in Jobs \ {j} : ~Runs(job[i]),
         dir => dir', \A f \in Files : disk[f] # None => disk'[f] # None,
         faults' = 0 => faults = 0,
         \A i \in Jobs \ {j} : box' # None /\ box'.by = i => box # None /\ box.by = i
  PROVE  IInv'
<1>1. job \in [Jobs -> JobSet] /\ \A i \in Jobs : Fits(i, job[i])
  BY DEF IInv
<1>2. k \in JobSet
  BY DEF Fits
<1>3. job' \in [Jobs -> JobSet] /\ job'[j] = k /\ \A i \in Jobs \ {j} : job'[i] = job[i]
  BY <1>1, <1>2
<1>4. Solo'
  BY <1>3 DEF Solo
<1>5. (Calm => Setting)'
  <2> SUFFICES ASSUME Calm' PROVE Setting'
    OBVIOUS
  <2>1. \A i \in Jobs \ {j} : ~Runs(job[i])
    BY DEF Calm
  <2> QED
    BY <1>1, <2>1, FocusNext
<1>6. ASSUME NEW i \in Jobs \ {j} PROVE Fits(i, job[i])'
  <2>1. PICK m : m = job[i]
    OBVIOUS
  <2>2. job'[i] = m /\ Fits(i, m)
    BY <1>1, <1>3, <2>1
  <2>3. PlacedJob(m)'
    BY <2>2 DEF Fits, PlacedJob
  <2>4. OwnJob(i, m)'
    BY <2>2 DEF Fits, OwnJob
  <2>5. (apart => OrderlyJob(m))'
    <3> SUFFICES ASSUME apart PROVE OrderlyJob(m)'
      OBVIOUS
    <3>1. m.pc \in Ended
      BY <2>1 DEF Runs
    <3> QED
      BY <3>1 DEF OrderlyJob, Writes, Ended
  <2>6. (Calm => SettingJob(m))'
    <3> SUFFICES ASSUME apart PROVE SettingJob(m)'
      BY DEF Calm
    <3>1. m.pc \in Ended
      BY <2>1 DEF Runs
    <3> QED
      BY <3>1 DEF SettingJob, Ended
  <2>7. Fits(i, m)'
    BY <2>2, <2>3, <2>4, <2>5, <2>6 DEF Fits
  <2> QED
    BY <2>2, <2>7 DEF Fits
<1>7. Fits(j, job[j])'
  BY <1>3 DEF Fits
<1> QED
  BY <1>3, <1>4, <1>5, <1>6, <1>7 DEF IInv

\* A step that changes nothing but its command.
LEMMA Quiet ==
  ASSUME IInv, NEW j \in Jobs, NEW k, job' = [job EXCEPT ![j] = k], OnlyTheJob, Fits(j, k),
         apart => \A i \in Jobs \ {j} : ~Runs(job[i]),
         job[j].pc # "writing", job[j].kind = "revert" => k.kind = "revert",
         Busy(k) => Known \/ Busy(job[j])
  PROVE  IInv'
<1> USE DEF OnlyTheJob
<1>1. Fits(j, k)'
  BY DEF Fits, PlacedJob, OwnJob, OrderlyJob, Copied, InCopies, Known, Calm, SettingJob
<1>2. Typed' /\ Placed' /\ (apart => Orderly)'
  BY DEF IInv, Typed, Placed, Known, Orderly
<1>3. (Calm => SettingOf(k))'
  <2> SUFFICES ASSUME Calm' PROVE SettingOf(k)'
    OBVIOUS
  <2>1. Calm /\ \A i \in Jobs \ {j} : ~Runs(job[i])
    BY DEF Calm
  <2>2. SettingOf(job[j])
    BY <2>1, Focus DEF IInv
  <2>3. \A f : ~Writes(job[j], f)
    BY DEF Writes
  <2>4. (\A i \in Jobs : job'[i].kind # "revert") => \A i \in Jobs : job[i].kind # "revert"
    BY DEF IInv
  <2>5. disk["toml"] = Torn => ~(Known \/ Busy(job[j]))
    BY <2>2, <2>3 DEF SettingOf
  <2>6. wanted.toml # None => AsAsked
    BY <2>2, <2>3 DEF SettingOf
  <2>7. (\A i \in Jobs : job[i].kind # "revert") => disk["key"] = wanted.key
    BY <2>2, <2>3 DEF SettingOf
  <2>8. Held
    BY <2>2 DEF SettingOf
  <2> QED
    BY <2>4, <2>5, <2>6, <2>7, <2>8 DEF SettingOf, Held, AsAsked, Known
<1> QED
  BY <1>1, <1>2, <1>3, Step

-----------------------------------------------------------------------------
(* The requests *)

\* Where the operator waits, no other command runs when one does.
LEMMA Alone ==
  ASSUME IInv, NEW j \in Jobs, Runs(job[j])
  PROVE  apart => \A i \in Jobs \ {j} : ~Runs(job[i])
  BY DEF IInv, Solo

\* The contents of files are neither nothing nor half of one.
LEMMA WholeContents ==
  ASSUME NEW c
  PROVE  /\ c \in Contents \/ c \in Keys => Whole(c)
         /\ c \in Contents => c[1] \in Releases /\ c[2] \in Settings
  BY FilesAssumption DEF Whole, Contents

\* The command that has not been given.
LEMMA NoJobTyped ==
  /\ NoJob \in JobSet /\ NoJob.data \in [Files -> All]
  /\ \A f \in Files : NoJob.data[f] = None
<1>1. [f \in Files |-> None] \in [Files -> All]
  BY DEF All
<1>2. <<>> \in Todos \cup {<<>>} /\ None \in Froms /\ "new" \in Pcs /\ "none" \in Kinds
  BY DEF Froms, Pcs, Kinds, Ended
<1> QED
  BY <1>1, <1>2 DEF NoJob, JobSet

\* The command that is over.
LEMMA OverTyped ==
  ASSUME NEW kind \in Kinds, NEW pc \in Pcs
  PROVE  /\ Over(kind, pc) \in JobSet /\ Over(kind, pc).kind = kind /\ Over(kind, pc).pc = pc
         /\ Over(kind, pc).todo = <<>>
  BY NoJobTyped DEF Over, JobSet, NoJob

\* A request begins a command, for a node that is known or by the first step
\* of a provisioning.
LEMMA Sent ==
  ASSUME IInv, NEW j \in Jobs, NEW k \in JobSet, Shape(k), k.pc \in {"sent", "read", "preflight"},
         k.pc = "preflight" \/ Known, Send(j, k)
  PROVE  IInv'
<1>1. job[j].pc = "new" /\ job' = [job EXCEPT ![j] = k] /\ OnlyTheJob
      /\ (apart => \A i \in Jobs : ~Running(i))
  BY DEF Send
<1>2. \A i \in Jobs : ~Running(i) => ~Runs(job[i])
  BY DEF Running, Runs, Ended
<1>3. Fits(j, job[j]) /\ Placed
  BY DEF IInv
<1>4. job[j].kind = "none"
  BY <1>1, <1>3 DEF Fits, Shape
<1>5. Fits(j, k)
  <2>1. PlacedJob(k)
    BY <1>3 DEF PlacedJob, Placed
  <2>2. OwnJob(j, k)
    BY <1>1, <1>3 DEF Fits, OwnJob
  <2>3. OrderlyJob(k) /\ SettingJob(k)
    BY DEF OrderlyJob, SettingJob, Writes
  <2> QED
    BY <2>1, <2>2, <2>3 DEF Fits
<1>6. Busy(k) => Known
  BY DEF Busy, Early
<1> QED
  BY <1>1, <1>2, <1>4, <1>5, <1>6, Quiet

\* A request of the dashboard.
LEMMA HandlerStep == ASSUME IInv, NEW j \in Jobs, Handler(j) PROVE IInv'
<1> USE NoJobTyped
<1>1. {<<"yaml">>, <<"toml">>, <<"key">>} \subseteq Todos
  BY DEF Todos
<1>2. {"sent", "read", "preflight"} \subseteq Pcs
  BY DEF Pcs, Early
<1>3. Contents \subseteq All /\ Keys \subseteq All
  BY DEF All
<1>4. \A f \in Config : f \in Files
  BY DEF Config, Files
<1>5. ASSUME Known, Write(j) PROVE IInv'
  <2>1. PICK f \in Config, c \in Contents, restart \in BOOLEAN :
          Send(j, [NoJob EXCEPT !.kind = "write", !.pc = "sent", !.data[f] = c, !.todo = <<f>>,
                                !.full = restart])
    BY <1>5 DEF Write
  <2>2. PICK k : k = [NoJob EXCEPT !.kind = "write", !.pc = "sent", !.data[f] = c, !.todo = <<f>>,
                                   !.full = restart]
    OBVIOUS
  <2>3. PICK data : data = [NoJob.data EXCEPT ![f] = c]
    OBVIOUS
  <2>4. data \in [Files -> All] /\ data[f] = c
    BY <1>3, <1>4, <2>3
  <2>5. k = [kind |-> "write", pc |-> "sent", data |-> data, todo |-> <<f>>, from |-> None,
             user |-> None, key |-> FALSE, full |-> restart]
    BY <2>2, <2>3 DEF NoJob
  <2>6. <<f>> \in {<<"yaml">>, <<"toml">>} /\ \A g : In(g, <<f>>) <=> g = f
    BY One DEF Config, First
  <2>7. k \in JobSet
    BY <1>1, <1>2, <2>4, <2>5, <2>6 DEF JobSet, Kinds, Froms
  <2>8. Shape(k)
    BY <2>4, <2>5, <2>6 DEF Shape, WriteShape
  <2> QED
    BY <1>5, <2>1, <2>2, <2>5, <2>7, <2>8, Sent
<1>6. ASSUME HandleApply(j) PROVE IInv'
  <2>1. PICK s \in Settings, restart \in BOOLEAN :
          Known /\ Send(j, [NoJob EXCEPT !.kind = "apply", !.pc = "read", !.todo = <<"yaml">>,
                                         !.user = s, !.full = restart])
    BY <1>6 DEF HandleApply
  <2>2. PICK k : k = [NoJob EXCEPT !.kind = "apply", !.pc = "read", !.todo = <<"yaml">>,
                                   !.user = s, !.full = restart]
    OBVIOUS
  <2>3. k = [kind |-> "apply", pc |-> "read", data |-> NoJob.data, todo |-> <<"yaml">>, from |-> None,
             user |-> s, key |-> FALSE, full |-> restart]
    BY <2>2 DEF NoJob
  <2>4. k \in JobSet
    BY <1>1, <1>2, <2>3 DEF JobSet, Kinds, Froms
  <2>5. Shape(k)
    BY <2>3 DEF Shape, ApplyShape
  <2> QED
    BY <1>6, <2>1, <2>2, <2>3, <2>4, <2>5, Sent
<1>7. ASSUME HandleRestore(j) PROVE IInv'
  <2>1. PICK b \in baks : Known /\ Send(j, [NoJob EXCEPT !.kind = "restore", !.pc = "sent",
                                                        !.from = b.at, !.todo = <<b.of>>])
    BY <1>7 DEF HandleRestore
  <2>2. PICK k : k = [NoJob EXCEPT !.kind = "restore", !.pc = "sent", !.from = b.at,
                                   !.todo = <<b.of>>]
    OBVIOUS
  <2>3. b.at \in Nat /\ <<b.of>> \in {<<"yaml">>, <<"toml">>}
    BY DEF IInv, Typed, Config
  <2>4. k = [kind |-> "restore", pc |-> "sent", data |-> NoJob.data, todo |-> <<b.of>>, from |-> b.at,
             user |-> None, key |-> FALSE, full |-> FALSE]
    BY <2>2 DEF NoJob
  <2>5. k \in JobSet
    BY <1>1, <1>2, <2>3, <2>4 DEF JobSet, Kinds, Froms
  <2>6. Shape(k)
    BY <2>3, <2>4 DEF Shape, RestoreShape
  <2> QED
    BY <1>7, <2>1, <2>2, <2>4, <2>5, <2>6, Sent
<1>8. ASSUME HandleConfigUpgrade(j) PROVE IInv'
  <2>1. Known /\ Send(j, [NoJob EXCEPT !.kind = "upgrade", !.pc = "sent"])
    BY <1>8 DEF HandleConfigUpgrade
  <2>2. PICK k : k = [NoJob EXCEPT !.kind = "upgrade", !.pc = "sent"]
    OBVIOUS
  <2>3. k = [kind |-> "upgrade", pc |-> "sent", data |-> NoJob.data, todo |-> <<>>, from |-> None,
             user |-> None, key |-> FALSE, full |-> FALSE]
    BY <2>2 DEF NoJob
  <2>4. k \in JobSet
    BY <1>1, <1>2, <2>3 DEF JobSet, Kinds, Froms
  <2>5. Shape(k)
    BY <2>3 DEF Shape, UpgradeShape
  <2> QED
    BY <1>8, <2>1, <2>2, <2>3, <2>4, <2>5, Sent
<1>9. ASSUME HandleConfigVersionRestore(j) PROVE IInv'
  <2>1. PICK d \in dirs : Known /\ Send(j, [NoJob EXCEPT !.kind = "revert", !.pc = "sent",
                                                        !.from = <<d.label, d.at>>])
    BY <1>9 DEF HandleConfigVersionRestore
  <2>2. PICK k : k = [NoJob EXCEPT !.kind = "revert", !.pc = "sent", !.from = <<d.label, d.at>>]
    OBVIOUS
  <2>3. <<d.label, d.at>> \in Labels \X Nat
    BY DEF IInv, Typed
  <2>4. k = [kind |-> "revert", pc |-> "sent", data |-> NoJob.data, todo |-> <<>>, from |-> <<d.label, d.at>>,
             user |-> None, key |-> FALSE, full |-> FALSE]
    BY <2>2 DEF NoJob
  <2>5. k \in JobSet
    BY <1>1, <1>2, <2>3, <2>4 DEF JobSet, Kinds, Froms
  <2>6. Shape(k)
    BY <2>3, <2>4 DEF Shape, RevertShape
  <2> QED
    BY <1>9, <2>1, <2>2, <2>4, <2>5, <2>6, Sent
<1>10. ASSUME HandleImportKey(j) PROVE IInv'
  <2>1. PICK c \in Keys : Known /\ Send(j, [NoJob EXCEPT !.kind = "import", !.pc = "sent",
                                         !.data["key"] = c, !.todo = <<"key">>, !.key = TRUE])
    BY <1>10 DEF HandleImportKey
  <2>2. PICK k : k = [NoJob EXCEPT !.kind = "import", !.pc = "sent", !.data["key"] = c,
                                   !.todo = <<"key">>, !.key = TRUE]
    OBVIOUS
  <2>3. PICK data : data = [NoJob.data EXCEPT !["key"] = c]
    OBVIOUS
  <2>4. data \in [Files -> All] /\ data["key"] = c /\ c \in Keys
    BY <1>3, <2>3 DEF Files
  <2>5. k = [kind |-> "import", pc |-> "sent", data |-> data, todo |-> <<"key">>, from |-> None,
             user |-> None, key |-> TRUE, full |-> FALSE]
    BY <2>2, <2>3 DEF NoJob
  <2>6. k \in JobSet
    BY <1>1, <1>2, <2>4, <2>5 DEF JobSet, Kinds, Froms
  <2>7. Shape(k)
    BY <2>4, <2>5 DEF Shape, KeyShape
  <2> QED
    BY <1>10, <2>1, <2>2, <2>5, <2>6, <2>7, Sent
<1>11. ASSUME HandleGenerateKey(j) PROVE IInv'
  <2>1. Known /\ Send(j, [NoJob EXCEPT !.kind = "generate", !.pc = "sent", !.todo = <<"key">>,
                                       !.key = TRUE])
    BY <1>11 DEF HandleGenerateKey
  <2>2. PICK k : k = [NoJob EXCEPT !.kind = "generate", !.pc = "sent", !.todo = <<"key">>,
                                   !.key = TRUE]
    OBVIOUS
  <2>3. k = [kind |-> "generate", pc |-> "sent", data |-> NoJob.data, todo |-> <<"key">>, from |-> None,
             user |-> None, key |-> TRUE, full |-> FALSE]
    BY <2>2 DEF NoJob
  <2>4. k \in JobSet
    BY <1>1, <1>2, <2>3 DEF JobSet, Kinds, Froms
  <2>5. Shape(k)
    BY <2>3 DEF Shape, KeyShape
  <2> QED
    BY <1>11, <2>1, <2>2, <2>3, <2>4, <2>5, Sent
<1>12. ASSUME HandleProvision(j) PROVE IInv'
  <2>1. PICK s \in Settings, key \in BOOLEAN, full \in BOOLEAN :
          Send(j, [NoJob EXCEPT !.kind = "provision", !.pc = "preflight", !.user = s,
                                !.key = key, !.full = full])
    BY <1>12 DEF HandleProvision
  <2>2. PICK k : k = [NoJob EXCEPT !.kind = "provision", !.pc = "preflight", !.user = s,
                                   !.key = key, !.full = full]
    OBVIOUS
  <2>3. k = [kind |-> "provision", pc |-> "preflight", data |-> NoJob.data, todo |-> <<>>, from |-> None,
             user |-> s, key |-> key, full |-> full]
    BY <2>2 DEF NoJob
  <2>4. k \in JobSet
    BY <1>1, <1>2, <2>3 DEF JobSet, Kinds, Froms
  <2>5. Shape(k)
    BY <2>3 DEF Shape, ProvisionShape, Early
  <2> QED
    BY <1>12, <2>1, <2>2, <2>3, <2>4, <2>5, Sent
<1>13. HandleWriteFile(j) \/ HandleMultiPush(j) => IInv'
  BY <1>5 DEF HandleWriteFile, HandleMultiPush
<1> QED
  BY <1>6, <1>7, <1>8, <1>9, <1>10, <1>11, <1>12, <1>13 DEF Handler

-----------------------------------------------------------------------------
(* How a command goes on and ends *)

\* What a step that only goes on leaves of its command.
Same(k, m) ==
  /\ k.kind = m.kind /\ k.data = m.data /\ k.todo = m.todo /\ k.from = m.from
  /\ k.user = m.user /\ k.key = m.key /\ k.full = m.full

\* A step that only goes on changes nothing of its command but where it is.
LEMMA Moved ==
  ASSUME IInv, NEW j \in Jobs, NEW pc \in Pcs, To(j, pc)
  PROVE  \E k \in JobSet : job' = [job EXCEPT ![j] = k] /\ k.pc = pc /\ Same(k, job[j])
<1>1. job[j] \in JobSet
  BY DEF IInv
<1>2. PICK k : k = [job[j] EXCEPT !.pc = pc]
  OBVIOUS
<1>3. k \in JobSet /\ k.pc = pc /\ Same(k, job[j])
  BY <1>1, <1>2 DEF JobSet, Same
<1> QED
  BY <1>2, <1>3 DEF To

\* What a step that ends it leaves.
LEMMA Ending ==
  ASSUME IInv, NEW j \in Jobs, NEW how \in {"done", "failed"}, Ends(j, how), Runs(job[j])
  PROVE  \E k \in JobSet : /\ job' = [job EXCEPT ![j] = k] /\ k.pc = how
                           /\ k.kind = job[j].kind /\ k.kind # "none"
<1>1. job[j] \in JobSet /\ Shape(job[j])
  BY DEF IInv, Fits
<1>2. job[j].kind \in Kinds /\ how \in Pcs
  BY <1>1 DEF JobSet, Pcs, Ended
<1>3. PICK k : k = Over(job[j].kind, how)
  OBVIOUS
<1>4. k \in JobSet /\ k.pc = how /\ k.kind = job[j].kind
  BY <1>2, <1>3, OverTyped
<1>5. job' = [job EXCEPT ![j] = k]
  BY <1>3 DEF Ends
<1>6. k.kind # "none"
  BY <1>1, <1>4 DEF Shape, Runs, Ended
<1> QED
  BY <1>4, <1>5, <1>6

\* A command ends that has no container, and nothing else changes.
LEMMA QuietEnd ==
  ASSUME IInv, NEW j \in Jobs, NEW how \in {"done", "failed"}, Ends(j, how), OnlyTheJob,
         Runs(job[j]), job[j].pc # "writing",
         how = "done" \/ job[j].pc \notin {"start", "verify", "cleanup"},
         job[j].kind = "provision" \/ job[j].pc \notin {"start", "verify", "cleanup"}
  PROVE  IInv'
<1>1. PICK k \in JobSet : /\ job' = [job EXCEPT ![j] = k] /\ k.pc = how
                          /\ k.kind = job[j].kind /\ k.kind # "none"
  BY Ending
<1>2. OwnJob(j, job[j])
  BY DEF IInv, Fits
<1>3. OwnJob(j, k)
  BY <1>1, <1>2 DEF OwnJob, Runs, Ended
<1>4. Fits(j, k)
  BY <1>1, <1>3, FitsEnded DEF Ended
<1>5. ~Busy(k)
  BY <1>1 DEF Busy, Ended
<1> QED
  BY <1>1, <1>4, <1>5, Alone, Quiet

-----------------------------------------------------------------------------
(* Steps that only change their command *)

\* What is left to write of one file.
LEMMA Single ==
  ASSUME NEW todo \in {<<"yaml">>, <<"toml">>, <<"key">>}
  PROVE  \E f \in Files : f = Head(todo) /\ First(todo, f)
<1>1. ASSUME NEW f \in Files, todo = <<f>> PROVE f = Head(todo) /\ First(todo, f)
  BY <1>1, One DEF First
<1> QED
  BY <1>1 DEF Files

\* WriteConfig and ImportKey: the request has all that is to be written.
LEMMA ToStat ==
  ASSUME IInv, NEW j \in Jobs, job[j].pc = "sent", job[j].kind \in {"write", "apply", "import"},
         To(j, "stat"), OnlyTheJob
  PROVE  IInv'
<1>1. PICK k \in JobSet : job' = [job EXCEPT ![j] = k] /\ k.pc = "stat" /\ Same(k, job[j])
  BY Moved DEF Pcs
<1>2. Runs(job[j]) /\ Fits(j, job[j])
  BY DEF IInv, Runs, Ended
<1>3. Shape(k)
  BY <1>1, <1>2 DEF Fits, Shape, Same, WriteShape, ApplyShape, RestoreShape, KeyShape, UpgradeShape,
                    RevertShape, ProvisionShape, Ended
<1>4. PlacedJob(k) /\ OwnJob(j, k) /\ OrderlyJob(k) /\ SettingJob(k)
  BY <1>1, <1>2 DEF Fits, Same, PlacedJob, OwnJob, OrderlyJob, SettingJob, Writes, Runs, Ended
<1>5. Fits(j, k)
  BY <1>3, <1>4 DEF Fits
<1>6. Busy(job[j])
  BY DEF Busy, Ended, Early
<1> QED
  BY <1>1, <1>2, <1>5, <1>6, Alone, Quiet DEF Same

\* HandleApply has read the file, or has not found the value in it.
LEMMA ReadConfigStep == ASSUME IInv, NEW j \in Jobs, ReadConfig(j) PROVE IInv'
<1>1. job[j].pc = "read" /\ OnlyTheJob /\ Runs(job[j]) /\ Fits(j, job[j])
  BY DEF ReadConfig, IInv, Runs, Ended
<1>2. job[j] \in JobSet /\ ApplyShape(job[j])
  BY <1>1 DEF Fits, Shape, WriteShape, RestoreShape, KeyShape, UpgradeShape,
              RevertShape, ProvisionShape, Ended, Early, Late
<1>3. Head(job[j].todo) = "yaml" /\ job[j].user \in Settings
  BY <1>2, One DEF First, ApplyShape
<1>4. PICK c \in Replaced(disk["yaml"], job[j].user) :
        IF c = None THEN Ends(j, "failed")
        ELSE job' = [job EXCEPT ![j].pc = "sent", ![j].data["yaml"] = c]
  BY <1>3 DEF ReadConfig
<1>5. CASE c = None
  BY <1>1, <1>4, <1>5, QuietEnd
<1>6. CASE c # None
  <2>1. c \in Contents \cup {Torn}
    <3>1. disk["yaml"] \in Contents \cup {None, Torn}
      BY DEF IInv, Typed, Files, Values
    <3> QED
      BY <1>3, <1>6, <3>1 DEF Replaced, Whole, Contents
  <2>2. PICK data : data = [job[j].data EXCEPT !["yaml"] = c]
    OBVIOUS
  <2>3. data \in [Files -> All] /\ data["yaml"] = c
    BY <1>2, <2>1, <2>2 DEF JobSet, All, Files
  <2>4. PICK k : k = [job[j] EXCEPT !.pc = "sent", !.data = data]
    OBVIOUS
  <2>5. /\ k \in JobSet /\ k.pc = "sent" /\ k.data = data /\ k.kind = job[j].kind
        /\ k.todo = job[j].todo /\ k.key = job[j].key /\ k.user = job[j].user
    BY <1>2, <2>3, <2>4 DEF JobSet, Pcs
  <2>6. job' = [job EXCEPT ![j] = k]
    BY <1>2, <1>4, <1>6, <2>2, <2>4 DEF IInv, JobSet
  <2>7. Shape(k)
    BY <1>2, <2>1, <2>3, <2>5 DEF Shape, ApplyShape
  <2>8. PlacedJob(k) /\ OwnJob(j, k) /\ OrderlyJob(k) /\ SettingJob(k)
    BY <1>1, <1>2, <2>5 DEF Fits, PlacedJob, OwnJob, OrderlyJob, SettingJob, Writes, Runs, Ended,
                            ApplyShape
  <2>9. Fits(j, k)
    BY <2>5, <2>7, <2>8 DEF Fits
  <2>10. Busy(job[j])
    BY <1>1 DEF Busy, Ended, Early
  <2> QED
    BY <1>1, <1>2, <2>5, <2>6, <2>9, <2>10, Alone, Quiet DEF ApplyShape
<1> QED
  BY <1>5, <1>6

\* RestoreConfigBackup has read the copy it is to restore.
LEMMA RestoreConfigStep == ASSUME IInv, NEW j \in Jobs, RestoreConfig(j) PROVE IInv'
<1>1. /\ job[j].pc = "sent" /\ job[j].kind = "restore" /\ OnlyTheJob /\ Runs(job[j])
      /\ Fits(j, job[j])
  BY DEF RestoreConfig, IInv, Runs, Ended
<1>2. job[j] \in JobSet /\ RestoreShape(job[j])
  BY <1>1 DEF Fits, Shape, WriteShape, ApplyShape, KeyShape, UpgradeShape,
              RevertShape, ProvisionShape, Ended
<1>3. PICK b \in baks : /\ b.of = Head(job[j].todo)
                        /\ job' = [job EXCEPT ![j].pc = "stat", ![j].data[b.of] = b.data]
  BY DEF RestoreConfig
<1>4. b.of \in Config /\ b.data \in Contents \cup {Torn}
  BY DEF IInv, Typed
<1>5. First(job[j].todo, b.of)
  BY <1>2, <1>3, Single DEF RestoreShape, First
<1>6. PICK data : data = [job[j].data EXCEPT ![b.of] = b.data]
  OBVIOUS
<1>7. data \in [Files -> All] /\ data[b.of] = b.data
  BY <1>2, <1>4, <1>6 DEF JobSet, All, Files, Config
<1>8. PICK k : k = [job[j] EXCEPT !.pc = "stat", !.data = data]
  OBVIOUS
<1>9. /\ k \in JobSet /\ k.pc = "stat" /\ k.data = data /\ k.kind = job[j].kind
      /\ k.todo = job[j].todo /\ k.key = job[j].key
  BY <1>2, <1>7, <1>8 DEF JobSet, Pcs
<1>10. job' = [job EXCEPT ![j] = k]
  BY <1>2, <1>3, <1>6, <1>8 DEF IInv, JobSet
<1>11. \A f : In(f, k.todo) => k.data[f] = b.data /\ f = b.of
  BY <1>5, <1>7, <1>9 DEF First
<1>12. Shape(k)
  BY <1>2, <1>4, <1>9, <1>11 DEF Shape, RestoreShape
<1>13. PlacedJob(k) /\ OwnJob(j, k) /\ OrderlyJob(k)
  BY <1>1, <1>2, <1>9 DEF Fits, PlacedJob, OwnJob, OrderlyJob, Writes, Runs, Ended
<1>14. Calm => SettingJob(k)
  BY <1>1, <1>9, <1>11 DEF IInv, Setting, Held, SettingJob
<1>15. Fits(j, k)
  BY <1>9, <1>12, <1>13, <1>14 DEF Fits
<1>16. Busy(job[j])
  BY <1>1 DEF Busy, Ended, Early
<1> QED
  BY <1>1, <1>9, <1>10, <1>15, <1>16, Alone, Quiet

\* A key was generated, or the command failed.
LEMMA GenerateKeyStep == ASSUME IInv, NEW j \in Jobs, GenerateKey(j) PROVE IInv'
<1>1. /\ job[j].pc = "sent" /\ job[j].kind = "generate" /\ OnlyTheJob /\ Runs(job[j])
      /\ Fits(j, job[j])
  BY DEF GenerateKey, IInv, Runs, Ended
<1>2. job[j] \in JobSet /\ KeyShape(job[j])
  BY <1>1 DEF Fits, Shape, WriteShape, ApplyShape, RestoreShape, UpgradeShape,
              RevertShape, ProvisionShape, Ended
<1>3. CASE Ends(j, "failed")
  BY <1>1, <1>3, QuietEnd
<1>4. CASE \E c \in Keys \ {disk["key"]} :
             job' = [job EXCEPT ![j].pc = "stat", ![j].data["key"] = c]
  <2>1. PICK c \in Keys : job' = [job EXCEPT ![j].pc = "stat", ![j].data["key"] = c]
    BY <1>4
  <2>2. PICK data : data = [job[j].data EXCEPT !["key"] = c]
    OBVIOUS
  <2>3. data \in [Files -> All] /\ data["key"] = c
    BY <1>2, <2>2 DEF JobSet, All, Files
  <2>4. PICK k : k = [job[j] EXCEPT !.pc = "stat", !.data = data]
    OBVIOUS
  <2>5. /\ k \in JobSet /\ k.pc = "stat" /\ k.data = data /\ k.kind = job[j].kind
        /\ k.todo = job[j].todo /\ k.key = job[j].key
    BY <1>2, <2>3, <2>4 DEF JobSet, Pcs
  <2>6. job' = [job EXCEPT ![j] = k]
    BY <1>2, <2>1, <2>2, <2>4 DEF IInv, JobSet
  <2>7. Shape(k)
    BY <1>2, <2>3, <2>5 DEF Shape, KeyShape
  <2>8. PlacedJob(k) /\ OwnJob(j, k) /\ OrderlyJob(k) /\ SettingJob(k)
    BY <1>1, <2>5 DEF Fits, PlacedJob, OwnJob, OrderlyJob, SettingJob, Writes, Runs, Ended
  <2>9. Fits(j, k)
    BY <2>5, <2>7, <2>8 DEF Fits
  <2>10. Busy(job[j])
    BY <1>1 DEF Busy, Ended, Early
  <2> QED
    BY <1>1, <2>5, <2>6, <2>9, <2>10, Alone, Quiet
<1> QED
  BY <1>3, <1>4 DEF GenerateKey

\* A file that is not there needs no copy, and has nothing to lose.
LEMMA StatStep == ASSUME IInv, NEW j \in Jobs, Stat(j) PROVE IInv'
<1>1. job[j].pc = "stat" /\ OnlyTheJob /\ Runs(job[j]) /\ Fits(j, job[j])
  BY DEF Stat, IInv, Runs, Ended
<1>2. /\ job[j] \in JobSet /\ job[j].todo \in {<<"yaml">>, <<"toml">>, <<"key">>}
      /\ job[j].kind \in {"write", "apply", "restore", "import", "generate"}
  BY <1>1 DEF Fits, Shape, WriteShape, ApplyShape, RestoreShape, KeyShape, UpgradeShape,
              RevertShape, ProvisionShape, Ended, Early, Late
<1>3. PICK f \in Files : f = Head(job[j].todo) /\ First(job[j].todo, f)
  BY <1>2, Single
<1>4. PICK pc \in {"open", "copy"} : To(j, pc) /\ (pc = "open" <=> disk[f] = None)
  BY <1>3 DEF Stat
<1>5. PICK k \in JobSet : job' = [job EXCEPT ![j] = k] /\ k.pc = pc /\ Same(k, job[j])
  BY <1>4, Moved DEF Pcs
<1>6. Shape(k)
  BY <1>1, <1>2, <1>4, <1>5 DEF Fits, Shape, Same, WriteShape, ApplyShape, RestoreShape, KeyShape,
                    UpgradeShape, RevertShape, ProvisionShape, Ended
<1>7. PlacedJob(k)
  BY <1>1, <1>3, <1>4, <1>5 DEF Fits, Same, PlacedJob, Runs, First
<1>8. OwnJob(j, k)
  BY <1>1, <1>2, <1>5 DEF Fits, Same, OwnJob
<1>9. OrderlyJob(k)
  BY <1>3, <1>4, <1>5 DEF OrderlyJob, Same, Writes, Copied, Whole, First
<1>10. Calm => SettingJob(k)
  BY <1>1, <1>2, <1>4, <1>5 DEF Fits, Same, SettingJob
<1>11. Fits(j, k)
  BY <1>6, <1>7, <1>8, <1>9, <1>10 DEF Fits
<1>12. Busy(job[j])
  BY <1>1 DEF Busy, Ended, Early
<1> QED
  BY <1>1, <1>5, <1>11, <1>12, Alone, Quiet DEF Same

\* The value that an upgrade carries over is the one last asked for.
LEMMA ReadUserValuesStep == ASSUME IInv, NEW j \in Jobs, ReadUserValues(j) PROVE IInv'
<1>1. job[j].pc = "values" /\ OnlyTheJob /\ Runs(job[j]) /\ Fits(j, job[j])
  BY DEF ReadUserValues, IInv, Runs, Ended
<1>2. job[j] \in JobSet /\ UpgradeShape(job[j])
  BY <1>1 DEF Fits, Shape, WriteShape, ApplyShape, RestoreShape, KeyShape,
              RevertShape, ProvisionShape, Ended, Early, Late
<1>3. PICK user : user = IF Whole(disk["toml"]) THEN disk["toml"][2] ELSE Default
  OBVIOUS
<1>4. user \in Settings
  <2>1. Whole(disk["toml"]) => disk["toml"] \in Releases \X Settings
    BY DEF IInv, Typed, Files, Values, Whole, Contents
  <2> QED
    BY <1>3, <2>1, FilesAssumption
<1>5. PICK k : k = [job[j] EXCEPT !.pc = "download", !.user = user]
  OBVIOUS
<1>6. /\ k \in JobSet /\ k.pc = "download" /\ k.user = user /\ k.kind = "upgrade"
  BY <1>2, <1>4, <1>5 DEF JobSet, Pcs, UpgradeShape
<1>7. job' = [job EXCEPT ![j] = k]
  BY <1>2, <1>3, <1>5 DEF ReadUserValues, IInv, JobSet
<1>8. Shape(k)
  BY <1>4, <1>6 DEF Shape, UpgradeShape
<1>9. PlacedJob(k) /\ OwnJob(j, k) /\ (apart => OrderlyJob(k))
  BY <1>1, <1>6 DEF Fits, PlacedJob, OwnJob, OrderlyJob, Writes, Runs, Ended
<1>10. ASSUME Calm, wanted.toml # None PROVE k.user = wanted.toml
  <2>1. SettingOf(job[j])
    BY <1>1, <1>10, Alone, Focus DEF IInv, Calm
  <2> QED
    BY <1>1, <1>3, <1>6, <1>10, <2>1 DEF SettingOf, AsAsked, Writes
<1>11. Fits(j, k)
  BY <1>6, <1>8, <1>9, <1>10 DEF Fits, SettingJob
<1>12. Busy(job[j]) /\ job[j].kind = "upgrade"
  BY <1>1, <1>2 DEF Busy, Ended, Early, UpgradeShape
<1> QED
  BY <1>1, <1>7, <1>11, <1>12, Alone, Quiet

\* The names of the files of a copy, in their order.
LEMMA Entries ==
  ASSUME NEW data, NEW s, NEW t, NEW u,
         s = (IF data["toml"] # None THEN <<"toml">> ELSE <<>>),
         t = (IF data["yaml"] # None THEN <<"yaml">> ELSE <<>>),
         u = (IF data["key"] # None THEN <<"key">> ELSE <<>>),
         s \o t \o u # <<>>
  PROVE  /\ s \o t \o u \in Todos
         /\ \A f \in Files : In(f, s \o t \o u) => data[f] # None
<1>1. s \in Seq(Files) /\ t \in Seq(Files) /\ u \in Seq(Files)
  <2>1. \A a \in Files : <<a>> \in Seq(Files)
    OBVIOUS
  <2>2. <<"toml">> \in Seq(Files) /\ <<"yaml">> \in Seq(Files) /\ <<"key">> \in Seq(Files)
    BY <2>1 DEF Files
  <2> QED
    BY <2>2, EmptySeq
<1>2. PICK v : v = s \o t
  OBVIOUS
<1>3. v \in Seq(Files) /\ Joined(v, s, t)
  BY <1>1, <1>2, Join
<1>4. PICK w : w = v \o u
  OBVIOUS
<1>5. w \in Seq(Files) /\ Joined(w, v, u) /\ w = s \o t \o u /\ w # <<>>
  BY <1>1, <1>2, <1>3, <1>4, Join
<1>6. /\ s # <<>> => Len(s) = 1 /\ s[1] = "toml" /\ data["toml"] # None
      /\ t # <<>> => Len(t) = 1 /\ t[1] = "yaml" /\ data["yaml"] # None
      /\ u # <<>> => Len(u) = 1 /\ u[1] = "key" /\ data["key"] # None
      /\ (s = <<>> => Len(s) = 0) /\ (t = <<>> => Len(t) = 0) /\ (u = <<>> => Len(u) = 0)
  OBVIOUS
<1>7. DOMAIN w = 1 .. Len(w) /\ Len(w) \in 1 .. 3
  <2>1. DOMAIN w = 1 .. Len(w) /\ Len(w) \in Nat
    BY <1>5, LenProperties
  <2>2. Len(w) <= 3
    BY <1>3, <1>5, <1>6 DEF Joined
  <2>3. Len(w) # 0
    BY <1>5, EmptySeq
  <2> QED
    BY <2>1, <2>2, <2>3
<1>8. \A i \in 1 .. Len(w) : data[w[i]] # None
  BY <1>3, <1>5, <1>6 DEF Joined
<1>9. \A x \in Todos : x \in Seq(Files)
  <2>1. \A a, b, c \in Files : {<<a>>, <<a, b>>, <<a, b, c>>} \subseteq Seq(Files)
    OBVIOUS
  <2>2. "toml" \in Files /\ "yaml" \in Files /\ "key" \in Files
    BY DEF Files
  <2> QED
    BY <2>1, <2>2 DEF Todos
<1>10. w \in Todos
  <2>1. ASSUME NEW x \in Todos, Len(w) = Len(x), \A i \in 1 .. Len(w) : w[i] = x[i] PROVE w \in Todos
    BY <1>5, <1>9, <2>1, SeqEqual
  <2>2. /\ Len(s) \in {0, 1} /\ (Len(s) = 1 => s[1] = "toml")
        /\ Len(t) \in {0, 1} /\ (Len(t) = 1 => t[1] = "yaml")
        /\ Len(u) \in {0, 1} /\ (Len(u) = 1 => u[1] = "key")
        /\ Len(v) = Len(s) + Len(t) /\ Len(w) = Len(v) + Len(u)
    BY <1>3, <1>5, <1>6 DEF Joined
  <2>3. /\ Len(s) = 1 => v[1] = "toml"
        /\ Len(t) = 1 => v[Len(s) + 1] = "yaml"
    BY <1>3, <2>2 DEF Joined
  <2>4. /\ Len(s) = 1 => w[1] = "toml"
        /\ Len(t) = 1 => w[Len(s) + 1] = "yaml"
        /\ Len(u) = 1 => w[Len(v) + 1] = "key"
    BY <1>5, <2>2, <2>3 DEF Joined
  <2>5. CASE Len(w) = 1
    <3>1. w[1] \in {"toml", "yaml", "key"}
      BY <2>2, <2>4, <2>5
    <3> QED
      BY <2>1, <2>5, <3>1 DEF Todos
  <2>6. CASE Len(w) = 2
    <3>1. \/ w[1] = "toml" /\ w[2] = "yaml"
          \/ w[1] = "toml" /\ w[2] = "key"
          \/ w[1] = "yaml" /\ w[2] = "key"
      BY <2>2, <2>4, <2>6
    <3> QED
      BY <2>1, <2>6, <3>1 DEF Todos
  <2>7. CASE Len(w) = 3
    <3>1. w[1] = "toml" /\ w[2] = "yaml" /\ w[3] = "key"
      BY <2>2, <2>4, <2>7
    <3> QED
      BY <2>1, <2>7, <3>1 DEF Todos
  <2> QED
    BY <1>7, <2>5, <2>6, <2>7
<1> QED
  BY <1>5, <1>7, <1>8, <1>10 DEF In

\* The files of a version are read, or there are none.
LEMMA ReadEntriesStep == ASSUME IInv, NEW j \in Jobs, ReadEntries(j) PROVE IInv'
<1>1. job[j].pc = "entries" /\ OnlyTheJob /\ Runs(job[j]) /\ Fits(j, job[j])
  BY DEF ReadEntries, IInv, Runs, Ended
<1>2. job[j] \in JobSet /\ RevertShape(job[j])
  BY <1>1 DEF Fits, Shape, WriteShape, ApplyShape, RestoreShape, KeyShape, UpgradeShape,
              ProvisionShape, Ended, Early, Late
<1>3. PICK d \in dirs :
        LET entry(f) == IF d.data[f] # None THEN <<f>> ELSE <<>>
            todo == entry("toml") \o entry("yaml") \o entry("key") IN
        IF todo = <<>> THEN Ends(j, "done")
        ELSE job' = [job EXCEPT ![j].pc = "open", ![j].data = d.data, ![j].todo = todo]
  BY DEF ReadEntries
<1>4. PICK s, t, u : /\ s = (IF d.data["toml"] # None THEN <<"toml">> ELSE <<>>)
                    /\ t = (IF d.data["yaml"] # None THEN <<"yaml">> ELSE <<>>)
                    /\ u = (IF d.data["key"] # None THEN <<"key">> ELSE <<>>)
  OBVIOUS
<1>5. IF s \o t \o u = <<>> THEN Ends(j, "done")
      ELSE job' = [job EXCEPT ![j].pc = "open", ![j].data = d.data, ![j].todo = s \o t \o u]
  BY <1>3, <1>4
<1>6. PICK todo : todo = s \o t \o u
  OBVIOUS
<1>7. CASE todo = <<>>
  BY <1>1, <1>5, <1>6, <1>7, QuietEnd
<1>8. CASE todo # <<>>
  <2>1. todo \in Todos /\ \A f \in Files : In(f, todo) => d.data[f] # None
    <3>1. s \o t \o u # <<>>
      BY <1>6, <1>8
    <3> QED
      BY <1>4, <1>6, <3>1, Entries
  <2>2. d.data \in [Files -> All] /\ \A f \in Files : d.data[f] \in Values(f) \cup {None, Torn}
    BY DEF IInv, Typed
  <2>3. PICK k : k = [job[j] EXCEPT !.pc = "open", !.data = d.data, !.todo = todo]
    OBVIOUS
  <2>4. /\ k \in JobSet /\ k.pc = "open" /\ k.data = d.data /\ k.kind = "revert" /\ k.todo = todo
    BY <1>2, <2>1, <2>2, <2>3 DEF JobSet, Pcs, RevertShape
  <2>5. job' = [job EXCEPT ![j] = k]
    BY <1>2, <1>5, <1>6, <1>8, <2>3 DEF IInv, JobSet
  <2>6. Shape(k)
    BY <1>8, <2>1, <2>2, <2>4 DEF Shape, RevertShape
  <2>7. PlacedJob(k) /\ OwnJob(j, k)
    BY <1>1, <1>2, <2>4 DEF Fits, PlacedJob, OwnJob, Runs, Ended, RevertShape
  <2>8. apart => OrderlyJob(k)
    BY <1>1, <2>4 DEF Fits, OrderlyJob, Writes
  <2>9. Calm => SettingJob(k)
    BY <2>1, <2>4 DEF IInv, Setting, Held, SettingJob, Whole, Files
  <2>10. Fits(j, k)
    BY <2>4, <2>6, <2>7, <2>8, <2>9 DEF Fits
  <2>11. Busy(job[j])
    BY <1>1 DEF Busy, Ended, Early
  <2> QED
    BY <1>1, <2>4, <2>5, <2>10, <2>11, Alone, Quiet
<1> QED
  BY <1>7, <1>8

-----------------------------------------------------------------------------
(* The steps of a provisioning that leave everything else as it is *)

\* What a provisioning is at one of its steps.
LEMMA AtStep ==
  ASSUME IInv, NEW j \in Jobs, NEW pc \in Early \cup Late \cup {"cleanup"}, At(j, pc)
  PROVE  /\ job[j].pc = pc /\ job[j].kind = "provision" /\ Runs(job[j]) /\ Fits(j, job[j])
         /\ job[j] \in JobSet /\ ProvisionShape(job[j])
         /\ pc # "cleanup" =>
              /\ Index(j) \in Nat /\ (pc \in Early <=> Index(j) <= 4)
              /\ pc # "verify" => Follows(pc, Steps(j)[Index(j) + 1], job[j].full, job[j].key)
<1>1. /\ job[j].pc = pc /\ job[j].kind = "provision" /\ Runs(job[j]) /\ Fits(j, job[j])
  BY DEF At, IInv, Runs, Ended, Early, Late
<1>2. job[j] \in JobSet /\ ProvisionShape(job[j])
  BY <1>1 DEF Fits, Shape, WriteShape, ApplyShape, RestoreShape, KeyShape, UpgradeShape,
              RevertShape, Runs
<1>3. job[j].full \in BOOLEAN /\ job[j].key \in BOOLEAN
  BY <1>2 DEF JobSet
<1>4. pc # "cleanup" =>
         /\ Index(j) \in Nat /\ (pc \in Early <=> Index(j) <= 4)
         /\ pc # "verify" => Follows(pc, Steps(j)[Index(j) + 1], job[j].full, job[j].key)
  BY <1>1, <1>2, <1>3, Order DEF ProvisionShape
<1> QED
  BY <1>1, <1>2, <1>4

\* What becomes of it when it is given up.
GivenUp(k, pc) ==
  /\ k \in JobSet /\ k.kind = "provision" /\ Shape(k)
  /\ IF pc \in Early THEN k.pc = "failed" ELSE k.pc = "cleanup"

\* A provisioning that gives up ends, or removes its container.
LEMMA GivesUp ==
  ASSUME IInv, NEW j \in Jobs, NEW pc \in Early \cup Late, At(j, pc), Cleanup(j)
  PROVE  \E k : GivenUp(k, pc) /\ job' = [job EXCEPT ![j] = k]
<1>1. /\ job[j].pc = pc /\ job[j].kind = "provision" /\ Runs(job[j])
      /\ ProvisionShape(job[j]) /\ (pc \in Early <=> Index(j) <= 4) /\ Index(j) \in Nat
  <2>1. pc # "cleanup"
    BY DEF Early, Late
  <2> QED
    BY <2>1, AtStep
<1>2. CASE pc \in Early
  <2>1. Ends(j, "failed")
    BY <1>1, <1>2 DEF Cleanup
  <2>2. PICK k \in JobSet : job' = [job EXCEPT ![j] = k] /\ k.pc = "failed" /\ k.kind = "provision"
    BY <1>1, <2>1, Ending
  <2> QED
    BY <1>2, <2>2 DEF GivenUp, Shape, Ended
<1>3. CASE pc \notin Early
  <2>1. To(j, "cleanup")
    BY <1>1, <1>3 DEF Cleanup
  <2>2. PICK k \in JobSet : job' = [job EXCEPT ![j] = k] /\ k.pc = "cleanup" /\ Same(k, job[j])
    BY <2>1, Moved DEF Pcs
  <2> QED
    BY <1>1, <1>3, <2>2 DEF GivenUp, Shape, Same, ProvisionShape
<1> QED
  BY <1>2, <1>3

\* What becomes of it when it goes on.
GoneOn(k, pc) ==
  /\ k \in JobSet /\ k.kind = "provision" /\ Shape(k)
  /\ IF pc = "verify" THEN k.pc = "done"
     ELSE k.pc \in (Early \cup Late) \ {"preflight"} /\ Follows(pc, k.pc, k.full, k.key)

\* A provisioning that goes on takes its next step, or is done.
LEMMA GoesOn ==
  ASSUME IInv, NEW j \in Jobs, NEW pc \in Early \cup Late, At(j, pc), NextStep(j)
  PROVE  \E k : GoneOn(k, pc) /\ job' = [job EXCEPT ![j] = k]
<1>1. /\ job[j].pc = pc /\ job[j].kind = "provision" /\ Runs(job[j])
      /\ ProvisionShape(job[j])
      /\ pc # "verify" => Follows(pc, Steps(j)[Index(j) + 1], job[j].full, job[j].key)
  BY AtStep DEF Early, Late
<1>2. CASE pc = "verify"
  <2>1. PICK k \in JobSet : job' = [job EXCEPT ![j] = k] /\ k.pc = "done" /\ k.kind = "provision"
    BY <1>1, <1>2, Ending DEF NextStep
  <2> QED
    BY <1>2, <2>1 DEF GoneOn, Shape, Ended
<1>3. CASE pc # "verify"
  <2>1. PICK q : q = Steps(j)[Index(j) + 1]
    OBVIOUS
  <2>2. To(j, q)
    BY <1>1, <1>3, <2>1 DEF NextStep
  <2>3. Follows(pc, q, job[j].full, job[j].key) /\ q \in (Early \cup Late) \ {"preflight"} /\ q \in Pcs
    BY <1>1, <1>3, <2>1 DEF Follows, Pcs, Early, Late
  <2>4. PICK k \in JobSet : job' = [job EXCEPT ![j] = k] /\ k.pc = q /\ Same(k, job[j])
    BY <2>2, <2>3, Moved
  <2>5. ProvisionShape(k)
    BY <1>1, <2>3, <2>4 DEF ProvisionShape, Same, Follows, Early, Late
  <2>6. Shape(k)
    BY <2>3, <2>4, <2>5, <1>1 DEF Shape, Same, Early, Late
  <2> QED
    BY <1>1, <1>3, <2>3, <2>4, <2>6 DEF GoneOn, Same
<1> QED
  BY <1>2, <1>3

\* Giving up fits, whatever else the step did to files.
LEMMA GivenUpFits ==
  ASSUME IInv, NEW j \in Jobs, NEW pc \in Early \cup Late, At(j, pc), NEW k, GivenUp(k, pc)
  PROVE  Fits(j, k) /\ ~Busy(k) /\ k.kind = "provision" /\ \A f : ~Writes(k, f)
<1>1. OwnJob(j, job[j]) /\ job[j].pc = pc
  BY AtStep DEF Fits
<1>2. k.pc \in {"failed", "cleanup"} /\ k.kind = "provision" /\ Shape(k) /\ k \in JobSet
      /\ (pc \in Early => k.pc = "failed") /\ (pc \notin Early => k.pc = "cleanup")
  BY DEF GivenUp
<1>3. OwnJob(j, k)
  BY <1>1, <1>2 DEF OwnJob, Early, Late
<1>4. PlacedJob(k) /\ OrderlyJob(k) /\ SettingJob(k) /\ ~Busy(k) /\ \A f : ~Writes(k, f)
  BY <1>2 DEF PlacedJob, OrderlyJob, SettingJob, Busy, Writes, Runs, Ended
<1> QED
  BY <1>2, <1>3, <1>4 DEF Fits

\* A step that did nothing but give up.
LEMMA QuietGiveUp ==
  ASSUME IInv, NEW j \in Jobs, NEW pc \in Early \cup Late, At(j, pc), Cleanup(j), OnlyTheJob
  PROVE  IInv'
<1>1. PICK k : GivenUp(k, pc) /\ job' = [job EXCEPT ![j] = k]
  BY GivesUp
<1>2. Fits(j, k) /\ ~Busy(k) /\ k.kind = "provision"
  BY <1>1, GivenUpFits
<1>3. job[j].pc = pc /\ pc # "writing" /\ Runs(job[j]) /\ job[j].kind = "provision"
  BY AtStep DEF Early, Late
<1> QED
  BY <1>1, <1>2, <1>3, Alone, Quiet

\* A step that did nothing but go on: the first of them found no directory, and
\* those that make one or put files into it are not of them.
LEMMA QuietGoOn ==
  ASSUME IInv, NEW j \in Jobs, NEW pc \in (Early \cup Late) \ {"dirs", "config", "create"},
         At(j, pc), NextStep(j), OnlyTheJob, pc = "preflight" => ~dir
  PROVE  IInv'
<1>1. PICK k : GoneOn(k, pc) /\ job' = [job EXCEPT ![j] = k]
  BY GoesOn
<1>2. /\ job[j].pc = pc /\ pc # "writing" /\ Runs(job[j]) /\ Fits(j, job[j])
      /\ job[j].kind = "provision"
  BY AtStep DEF Early, Late
<1>3. k \in JobSet /\ k.kind = "provision" /\ Shape(k)
  BY <1>1 DEF GoneOn
<1>4. \/ pc = "preflight" /\ k.pc = "pull"
      \/ pc = "pull" /\ k.pc = "dirs"
      \/ pc \in {"fulldb", "genkey"} /\ k.pc \in {"fulldb", "genkey", "perm"}
      \/ pc = "perm" /\ k.pc = "create"
      \/ pc = "start" /\ k.pc = "verify"
      \/ pc = "verify" /\ k.pc = "done"
  BY <1>1 DEF GoneOn, Follows, Early, Late
<1>5. PlacedJob(k)
  BY <1>2, <1>4 DEF Fits, PlacedJob, Runs, Ended
<1>6. OwnJob(j, k)
  BY <1>2, <1>3, <1>4 DEF Fits, OwnJob
<1>7. apart => OrderlyJob(k)
  BY <1>2, <1>4 DEF IInv, Placed, Fits, OrderlyJob, Writes
<1>8. SettingJob(k)
  BY <1>3 DEF SettingJob
<1>9. Fits(j, k)
  BY <1>3, <1>5, <1>6, <1>7, <1>8 DEF Fits
<1>10. Busy(k) => Busy(job[j])
  BY <1>2, <1>4 DEF Busy, Ended, Early
<1> QED
  BY <1>1, <1>2, <1>3, <1>9, <1>10, Alone, Quiet

\* The steps that look, load an image or a database, or set permissions.
LEMMA QuietProvision ==
  ASSUME IInv, NEW j \in Jobs,
         PullImage(j) \/ DownloadFullDB(j) \/ SetPermissions(j) \/ Preflight(j) \/ Verify(j)
  PROVE  IInv'
<1>1. {"pull", "fulldb", "perm", "preflight", "verify"} \subseteq
        (Early \cup Late) \ {"dirs", "config", "create"}
  BY DEF Early, Late
<1>2. CASE PullImage(j)
  BY <1>1, <1>2, QuietGiveUp, QuietGoOn DEF PullImage, Ordinary
<1>3. CASE DownloadFullDB(j)
  BY <1>1, <1>3, QuietGiveUp, QuietGoOn DEF DownloadFullDB, Ordinary
<1>4. CASE SetPermissions(j)
  BY <1>1, <1>4, QuietGiveUp, QuietGoOn DEF SetPermissions, Ordinary
<1>5. CASE Preflight(j)
  BY <1>1, <1>5, QuietGiveUp, QuietGoOn DEF Preflight
<1>6. CASE Verify(j)
  BY <1>1, <1>6, QuietGiveUp, QuietGoOn DEF Verify
<1> QED
  BY <1>2, <1>3, <1>4, <1>5, <1>6

-----------------------------------------------------------------------------
(* Steps that change the directory or the container *)

\* The directory is there from now on.
LEMMA CreateDirsStep == ASSUME IInv, NEW j \in Jobs, CreateDirs(j) PROVE IInv'
<1>1. /\ At(j, "dirs") /\ dir' /\ (NextStep(j) \/ Cleanup(j))
      /\ UNCHANGED <<disk, baks, keybaks, dirs, sec, box, wanted, faults, apart>>
  BY DEF CreateDirs
<1>2. "dirs" \in Early /\ "dirs" \in Early \cup Late
  BY DEF Early
<1>3. /\ job[j].pc = "dirs" /\ Runs(job[j]) /\ Fits(j, job[j]) /\ job[j].kind = "provision"
  BY <1>1, <1>2, AtStep
<1>4. PICK k : /\ job' = [job EXCEPT ![j] = k] /\ k \in JobSet /\ k.kind = "provision" /\ Shape(k)
               /\ k.pc \in {"failed", "config"}
  <2>1. CASE Cleanup(j)
    BY <1>1, <1>2, <2>1, GivesUp DEF GivenUp
  <2>2. CASE NextStep(j)
    BY <1>1, <1>2, <2>2, GoesOn DEF GoneOn, Follows
  <2> QED
    BY <1>1, <2>1, <2>2
<1>5. Typed' /\ Placed' /\ (apart => Orderly)'
  BY <1>1 DEF IInv, Typed, Placed, Orderly, Known
<1>6. Fits(j, k)'
  <2>1. PlacedJob(k)' /\ OwnJob(j, k)'
    BY <1>1, <1>3, <1>4 DEF Fits, PlacedJob, OwnJob
  <2>2. (apart => OrderlyJob(k))'
    BY <1>1, <1>3, <1>4 DEF Fits, OrderlyJob, Writes, Known
  <2> QED
    BY <1>4, <2>1, <2>2 DEF Fits, SettingJob
<1>7. (Calm => SettingOf(k))'
  <2> SUFFICES ASSUME Calm' PROVE SettingOf(k)'
    OBVIOUS
  <2>1. SettingOf(job[j])
    BY <1>1, <1>3, Alone, Focus DEF IInv, Calm
  <2>2. (\A i \in Jobs : job'[i].kind # "revert") => \A i \in Jobs : job[i].kind # "revert"
    BY <1>3, <1>4 DEF IInv
  <2> QED
    BY <1>1, <1>3, <1>4, <2>1, <2>2 DEF SettingOf, Held, AsAsked, Known, Busy, Writes, Ended, Early
<1> QED
  BY <1>1, <1>3, <1>4, <1>5, <1>6, <1>7, Alone, Step

\* That the container runs again takes nothing from anyone.
LEMMA RestartContainerStep == ASSUME IInv, NEW j \in Jobs, RestartContainer(j) PROVE IInv'
<1>1. /\ job[j].pc = "restart" /\ Ends(j, "done")
      /\ box' \in {box} \cup (IF box = None THEN {} ELSE {[box EXCEPT !.up = TRUE]})
      /\ UNCHANGED <<dir, disk, baks, keybaks, dirs, sec, wanted, faults, apart>>
  BY DEF RestartContainer
<1>2. Runs(job[j]) /\ Fits(j, job[j])
  BY <1>1 DEF IInv, Runs, Ended
<1>3. PICK k \in JobSet : /\ job' = [job EXCEPT ![j] = k] /\ k.pc = "done"
                          /\ k.kind = job[j].kind /\ k.kind # "none"
  BY <1>1, <1>2, Ending
<1>4. /\ box' \in {None} \cup [by : Jobs \cup {Stranger}, here : BOOLEAN, up : BOOLEAN]
      /\ Known' => Known
      /\ \A i : box' # None /\ box'.by = i => box # None /\ box.by = i
  <2>1. box \in {None} \cup [by : Jobs \cup {Stranger}, here : BOOLEAN, up : BOOLEAN]
    BY DEF IInv, Typed
  <2>2. CASE box' = box
    BY <2>1, <2>2 DEF Known
  <2>3. CASE box # None /\ box' = [box EXCEPT !.up = TRUE]
    <3>1. /\ box' \in [by : Jobs \cup {Stranger}, here : BOOLEAN, up : BOOLEAN]
          /\ box'.by = box.by /\ box'.here = box.here
      BY <2>1, <2>3
    <3> QED
      BY <2>3, <3>1 DEF Known
  <2> QED
    BY <1>1, <2>2, <2>3
<1>5. Typed' /\ Placed' /\ (apart => Orderly)'
  BY <1>1, <1>4 DEF IInv, Typed, Placed, Orderly
<1>6. Fits(j, k)'
  <2>1. PlacedJob(k)' /\ Shape(k)
    BY <1>3 DEF PlacedJob, Shape, Runs, Ended
  <2>2. OwnJob(j, k)'
    BY <1>1, <1>2, <1>4 DEF Fits, OwnJob
  <2>3. OrderlyJob(k)' /\ SettingJob(k)'
    BY <1>3 DEF OrderlyJob, SettingJob, Writes
  <2> QED
    BY <1>3, <2>1, <2>2, <2>3 DEF Fits
<1>7. (Calm => SettingOf(k))'
  <2> SUFFICES ASSUME Calm' PROVE SettingOf(k)'
    OBVIOUS
  <2>1. SettingOf(job[j])
    BY <1>1, <1>2, Alone, Focus DEF IInv, Calm
  <2>2. (\A i \in Jobs : job'[i].kind # "revert") => \A i \in Jobs : job[i].kind # "revert"
    BY <1>3 DEF IInv
  <2> QED
    BY <1>1, <1>3, <1>4, <2>1, <2>2 DEF SettingOf, Held, AsAsked, Busy, Writes, Ended, Early
<1> QED
  BY <1>1, <1>2, <1>3, <1>4, <1>5, <1>6, <1>7, Alone, Step

\* The container is this command's, whether or not its answer came in time.
LEMMA CreateContainerStep == ASSUME IInv, NEW j \in Jobs, CreateContainer(j) PROVE IInv'
<1>1. /\ At(j, "create")
      /\ UNCHANGED <<dir, disk, baks, keybaks, dirs, sec, wanted, faults, apart>>
  BY DEF CreateContainer
<1>2. "create" \in Early \cup Late /\ "create" \notin Early
  BY DEF Early, Late
<1>3. /\ job[j].pc = "create" /\ Runs(job[j]) /\ Fits(j, job[j]) /\ job[j].kind = "provision"
  BY <1>1, <1>2, AtStep
<1>4. CASE Cleanup(j) /\ box' = box
  BY <1>1, <1>2, <1>4, QuietGiveUp DEF OnlyTheJob
<1>5. CASE /\ box = None /\ box' = [by |-> j, here |-> TRUE, up |-> FALSE]
           /\ NextStep(j) \/ Cleanup(j)
  <2>1. PICK k : /\ job' = [job EXCEPT ![j] = k] /\ k \in JobSet /\ k.kind = "provision" /\ Shape(k)
                 /\ k.pc \in {"cleanup", "start"}
    <3>1. CASE Cleanup(j)
      BY <1>1, <1>2, <3>1, GivesUp DEF GivenUp
    <3>2. CASE NextStep(j)
      BY <1>1, <1>2, <3>2, GoesOn DEF GoneOn, Follows
    <3> QED
      BY <1>5, <3>1, <3>2
  <2>2. dir
    BY <1>3 DEF Fits, PlacedJob
  <2>3. Typed' /\ Placed' /\ (apart => Orderly)'
    BY <1>1, <1>5, <2>2 DEF IInv, Typed, Placed, Orderly
  <2>4. Fits(j, k)'
    <3>1. PlacedJob(k)' /\ OwnJob(j, k)'
      BY <1>1, <2>1, <2>2 DEF PlacedJob, OwnJob
    <3>2. OrderlyJob(k)' /\ SettingJob(k)'
      BY <2>1 DEF OrderlyJob, SettingJob, Writes
    <3> QED
      BY <2>1, <3>1, <3>2 DEF Fits
  <2>5. (Calm => SettingOf(k))'
    <3> SUFFICES ASSUME Calm' PROVE SettingOf(k)'
      OBVIOUS
    <3>1. SettingOf(job[j])
      BY <1>1, <1>3, Alone, Focus DEF IInv, Calm
    <3>2. (\A i \in Jobs : job'[i].kind # "revert") => \A i \in Jobs : job[i].kind # "revert"
      BY <1>3, <2>1 DEF IInv
    <3>3. Busy(job[j]) /\ \A f : ~Writes(job[j], f)
      BY <1>3 DEF Busy, Writes, Ended, Early
    <3> QED
      BY <1>1, <3>1, <3>2, <3>3 DEF SettingOf, Held, AsAsked
  <2>6. \A i \in Jobs \ {j} : ~(box' # None /\ box'.by = i)
    BY <1>5
  <2> QED
    BY <1>1, <1>3, <2>1, <2>3, <2>4, <2>5, <2>6, Alone, Step
<1> QED
  BY <1>4, <1>5 DEF CreateContainer

\* The container is started.
LEMMA StartContainerStep == ASSUME IInv, NEW j \in Jobs, StartContainer(j) PROVE IInv'
<1>1. /\ At(j, "start")
      /\ UNCHANGED <<dir, disk, baks, keybaks, dirs, sec, wanted, faults, apart>>
  BY DEF StartContainer
<1>2. "start" \in Early \cup Late /\ "start" \notin Early
  BY DEF Early, Late
<1>3. /\ job[j].pc = "start" /\ Runs(job[j]) /\ Fits(j, job[j]) /\ job[j].kind = "provision"
  BY <1>1, <1>2, AtStep
<1>4. CASE Cleanup(j) /\ box' = box
  BY <1>1, <1>2, <1>4, QuietGiveUp DEF OnlyTheJob
<1>5. CASE box # None /\ box' = [box EXCEPT !.up = TRUE] /\ NextStep(j)
  <2>1. PICK k : /\ job' = [job EXCEPT ![j] = k] /\ k \in JobSet /\ k.kind = "provision" /\ Shape(k)
                 /\ k.pc = "verify"
    BY <1>1, <1>2, <1>5, GoesOn DEF GoneOn, Follows
  <2>2. /\ box' \in [by : Jobs \cup {Stranger}, here : BOOLEAN, up : BOOLEAN]
        /\ box'.by = box.by /\ box'.here = box.here
    BY <1>5 DEF IInv, Typed
  <2>3. Known' => Known
    BY <1>5, <2>2 DEF Known
  <2>4. Typed' /\ Placed' /\ (apart => Orderly)'
    BY <1>1, <2>2, <2>3 DEF IInv, Typed, Placed, Orderly
  <2>5. Fits(j, k)'
    <3>1. PlacedJob(k)' /\ OwnJob(j, k)'
      BY <1>1, <1>3, <2>1 DEF Fits, PlacedJob, OwnJob
    <3>2. OrderlyJob(k)' /\ SettingJob(k)'
      BY <2>1 DEF OrderlyJob, SettingJob, Writes
    <3> QED
      BY <2>1, <3>1, <3>2 DEF Fits
  <2>6. (Calm => SettingOf(k))'
    <3> SUFFICES ASSUME Calm' PROVE SettingOf(k)'
      OBVIOUS
    <3>1. SettingOf(job[j])
      BY <1>1, <1>3, Alone, Focus DEF IInv, Calm
    <3>2. (\A i \in Jobs : job'[i].kind # "revert") => \A i \in Jobs : job[i].kind # "revert"
      BY <1>3, <2>1 DEF IInv
    <3>3. Busy(job[j]) /\ \A f : ~Writes(job[j], f)
      BY <1>3 DEF Busy, Writes, Ended, Early
    <3> QED
      BY <1>1, <3>1, <3>2, <3>3 DEF SettingOf, Held, AsAsked
  <2>7. \A i \in Jobs \ {j} : box' # None /\ box'.by = i => box # None /\ box.by = i
    BY <1>5, <2>2
  <2> QED
    BY <1>1, <1>3, <2>1, <2>4, <2>5, <2>6, <2>7, Alone, Step
<1> QED
  BY <1>4, <1>5 DEF StartContainer

\* The container is gone, unless Docker failed.
LEMMA RemoveContainerStep == ASSUME IInv, NEW j \in Jobs, RemoveContainer(j) PROVE IInv'
<1>1. /\ At(j, "cleanup") /\ Ends(j, "failed")
      /\ (box' = None /\ UNCHANGED faults) \/ (box' = box /\ Fault)
      /\ UNCHANGED <<dir, disk, baks, keybaks, dirs, sec, wanted, apart>>
  BY DEF RemoveContainer
<1>2. /\ job[j].pc = "cleanup" /\ Runs(job[j]) /\ Fits(j, job[j]) /\ job[j].kind = "provision"
  BY <1>1, AtStep
<1>3. PICK k \in JobSet : /\ job' = [job EXCEPT ![j] = k] /\ k.pc = "failed"
                          /\ k.kind = "provision"
  BY <1>1, <1>2, Ending
<1>4. faults \in Nat /\ (faults' = faults \/ (faults' = faults + 1 /\ faults < MaxFaults))
      /\ faults' \in 0 .. MaxFaults /\ (faults' = 0 => faults = 0 /\ box' = None)
  BY <1>1, FilesAssumption DEF IInv, Typed, Fault
<1>5. Typed' /\ Placed' /\ (apart => Orderly)'
  BY <1>1, <1>4 DEF IInv, Typed, Placed, Orderly, Known
<1>6. Fits(j, k)'
  <2>1. PlacedJob(k)' /\ Shape(k)
    BY <1>3 DEF PlacedJob, Shape, Runs, Ended
  <2>2. OwnJob(j, k)'
    BY <1>4 DEF OwnJob
  <2>3. OrderlyJob(k)' /\ SettingJob(k)'
    BY <1>3 DEF OrderlyJob, SettingJob, Writes
  <2> QED
    BY <1>3, <2>1, <2>2, <2>3 DEF Fits
<1>7. (Calm => SettingOf(k))'
  <2> SUFFICES ASSUME Calm' PROVE SettingOf(k)'
    OBVIOUS
  <2>1. SettingOf(job[j]) /\ ~Known'
    BY <1>1, <1>2, <1>4, Alone, Focus DEF IInv, Calm, Known
  <2>2. (\A i \in Jobs : job'[i].kind # "revert") => \A i \in Jobs : job[i].kind # "revert"
    BY <1>2, <1>3 DEF IInv
  <2>3. ~Busy(k) /\ \A f : ~Writes(job[j], f)
    BY <1>2, <1>3 DEF Busy, Writes, Ended
  <2> QED
    BY <1>1, <2>1, <2>2, <2>3 DEF SettingOf, Held, AsAsked
<1>8. \A i \in Jobs \ {j} : box' # None /\ box'.by = i => box # None /\ box.by = i
  BY <1>1
<1> QED
  BY <1>1, <1>2, <1>3, <1>4, <1>5, <1>6, <1>7, <1>8, Alone, Step

-----------------------------------------------------------------------------
(* Copies *)

\* What an operation on files that fails leaves of the invariant.
LEMMA Faulty ==
  ASSUME IInv, Fault
  PROVE  faults' \in 0 .. MaxFaults /\ faults' # 0
  BY FilesAssumption DEF IInv, Typed, Fault

\* A command that ends in a fault fits the world.
LEMMA FaultyFits ==
  ASSUME IInv, Fault, NEW j, NEW k \in JobSet, k.pc = "failed", k.kind # "none"
  PROVE  Fits(j, k)' /\ ~Calm'
<1>1. faults' # 0
  BY Faulty
<1>2. Shape(k) /\ PlacedJob(k)' /\ OrderlyJob(k)'
  BY DEF Shape, PlacedJob, OrderlyJob, Writes, Runs, Ended
<1> QED
  BY <1>1, <1>2 DEF Fits, OwnJob, Calm

\* The second of a copy.
LEMMA Time ==
  ASSUME IInv, NEW now \in Seconds
  PROVE  now \in Nat /\ (apart => now = sec + 1) /\ sec <= now
  BY DEF IInv, Typed, Seconds

\* What a copy of one file keeps.
LEMMA Saved ==
  ASSUME IInv, NEW j \in Jobs, NEW f, NEW data, Save(j, data), f = Head(job[j].todo),
         data \in Values(f) \cup {Torn},
         job[j].key \in BOOLEAN, IF job[j].key THEN f = "key" ELSE f \in Config
  PROVE  /\ sec' \in Nat
         /\ \A b \in baks' : b.of \in Config /\ b.at \in Nat /\ b.data \in Contents \cup {Torn}
         /\ \A b \in keybaks' : b.of = "key" /\ b.at \in Nat /\ b.data \in Keys \cup {Torn}
         /\ apart /\ dirs' = dirs => Orderly'
         /\ \E b \in baks' \cup keybaks' : b.of = f /\ b.data = data
         /\ apart => baks \subseteq baks' /\ keybaks \subseteq keybaks'
         /\ \A b \in baks' : b \in baks \/ (b.of = f /\ b.data = data)
<1>1. PICK now \in Seconds :
       LET copy == [of |-> f, at |-> now, data |-> data] IN
       /\ sec' = now
       /\ IF job[j].key THEN keybaks' = Put(keybaks, copy) /\ baks' = baks
          ELSE baks' = Put(baks, copy) /\ keybaks' = keybaks
  BY DEF Save
<1>2. PICK c : c = [of |-> f, at |-> now, data |-> data]
  OBVIOUS
<1>3. /\ now \in Seconds /\ c = [of |-> f, at |-> now, data |-> data] /\ sec' = now
      /\ IF job[j].key THEN keybaks' = Put(keybaks, c) /\ baks' = baks
         ELSE baks' = Put(baks, c) /\ keybaks' = keybaks
  BY <1>1, <1>2
<1>4. now \in Nat /\ (apart => now = sec + 1) /\ sec <= now
  BY Time
<1>5. c.of = f /\ c.at = now /\ c.data = data
  BY <1>3
<1>6. \A s, x : x \in Put(s, c) => x \in s \/ x = c
  BY DEF Put
<1>7. \A s : c \in Put(s, c)
  BY DEF Put
<1>8. \A b \in baks' : b \in baks \/ (b = c /\ ~job[j].key)
  BY <1>3, <1>6
<1>9. \A b \in keybaks' : b \in keybaks \/ (b = c /\ job[j].key)
  BY <1>3, <1>6
<1>10. c \in baks' \cup keybaks'
  BY <1>3, <1>7
<1>11. f \in Config => Values(f) = Contents
  BY DEF Values, Config
<1>12. Values("key") = Keys
  BY DEF Values
<1>13. ASSUME apart PROVE \A x \in baks \cup keybaks \cup dirs : x.at \in Nat /\ x.at <= sec
  BY <1>13 DEF IInv, Orderly, Typed
<1>14. ASSUME apart PROVE baks \subseteq baks' /\ keybaks \subseteq keybaks'
  <2>1. sec \in Nat
    BY DEF IInv, Typed
  <2>2. \A x \in baks \cup keybaks : x.at # now
    BY <1>4, <1>13, <1>14, <2>1
  <2>3. \A s : (\A x \in s : x.at # now) => s \subseteq Put(s, c)
    BY <1>5 DEF Put
  <2> QED
    BY <1>3, <2>2, <2>3
<1>15. ASSUME apart, dirs' = dirs PROVE Orderly'
  <2>1. sec \in Nat
    BY DEF IInv, Typed
  <2>2. \A x \in baks' \cup keybaks' \cup dirs' : x.at <= now
    BY <1>4, <1>5, <1>8, <1>9, <1>13, <1>15, <2>1
  <2> QED
    BY <1>3, <2>2 DEF Orderly
<1>16. \A b \in baks' : b.of \in Config /\ b.at \in Nat /\ b.data \in Contents \cup {Torn}
  BY <1>4, <1>5, <1>8, <1>11 DEF IInv, Typed
<1>17. \A b \in keybaks' : b.of = "key" /\ b.at \in Nat /\ b.data \in Keys \cup {Torn}
  BY <1>4, <1>5, <1>9, <1>12 DEF IInv, Typed
<1>18. sec' \in Nat
  BY <1>3, <1>4
<1>19. \E b \in baks' \cup keybaks' : b.of = f /\ b.data = data
  BY <1>5, <1>10
<1>20. \A b \in baks' : b \in baks \/ (b.of = f /\ b.data = data)
  BY <1>5, <1>8
<1> QED
  BY ONLY <1>14, <1>15, <1>16, <1>17, <1>18, <1>19, <1>20

\* What the command is that makes one.
LEMMA Copying ==
  ASSUME IInv, NEW j \in Jobs, job[j].pc = "copy"
  PROVE  /\ Runs(job[j]) /\ Fits(j, job[j]) /\ dir /\ job[j].key \in BOOLEAN
         /\ job[j].kind \in {"write", "apply", "restore", "import", "generate"}
         /\ \E f \in Files : /\ f = Head(job[j].todo) /\ First(job[j].todo, f)
                             /\ IF job[j].key THEN f = "key" ELSE f \in Config
                             /\ disk[f] # None /\ disk[f] \in Values(f) \cup {Torn}
<1>1. Runs(job[j]) /\ Fits(j, job[j])
  BY DEF IInv, Runs, Ended
<1>2. /\ job[j].kind \in {"write", "apply", "restore", "import", "generate"}
      /\ job[j].todo \in {<<"yaml">>, <<"toml">>, <<"key">>}
      /\ IF job[j].key THEN job[j].todo = <<"key">> ELSE job[j].todo \in {<<"yaml">>, <<"toml">>}
      /\ dir /\ job[j] \in JobSet
  BY <1>1 DEF Fits, PlacedJob, Shape, WriteShape, ApplyShape, RestoreShape, KeyShape, UpgradeShape,
              RevertShape, ProvisionShape, Ended, Early, Late
<1>3. PICK f \in Files : f = Head(job[j].todo) /\ First(job[j].todo, f)
  BY <1>2, Single
<1>4. IF job[j].key THEN f = "key" ELSE f \in Config
  BY <1>2, <1>3, One DEF First, Config
<1>5. disk[f] # None
  BY <1>1, <1>3 DEF Fits, PlacedJob, First
<1>6. disk[f] \in Values(f) \cup {Torn}
  BY <1>5 DEF IInv, Typed
<1>7. job[j].key \in BOOLEAN
  BY <1>2 DEF JobSet
<1> QED
  BY <1>1, <1>2, <1>3, <1>4, <1>5, <1>6, <1>7

\* A copy of one file is made, or breaks off.
LEMMA CopyStep == ASSUME IInv, NEW j \in Jobs, Copy(j) PROVE IInv'
<1>1. job[j].pc = "copy" /\ UNCHANGED <<dir, disk, dirs, box, wanted, apart>>
  BY DEF Copy
<1>2. /\ Runs(job[j]) /\ Fits(j, job[j]) /\ dir /\ job[j].key \in BOOLEAN
      /\ job[j].kind \in {"write", "apply", "restore", "import", "generate"}
  BY <1>1, Copying
<1>3. PICK f \in Files : /\ f = Head(job[j].todo) /\ First(job[j].todo, f)
                         /\ IF job[j].key THEN f = "key" ELSE f \in Config
                         /\ disk[f] # None /\ disk[f] \in Values(f) \cup {Torn}
  BY <1>1, Copying
<1>4. Known' = Known /\ Placed'
  BY <1>1 DEF IInv, Placed, Known
<1>5. ASSUME Save(j, disk[f]), To(j, "open"), UNCHANGED faults PROVE IInv'
  <2>1. PICK k \in JobSet : job' = [job EXCEPT ![j] = k] /\ k.pc = "open" /\ Same(k, job[j])
    BY <1>5, Moved DEF Pcs
  <2>2. PICK data : data = disk[f]
    OBVIOUS
  <2>3. /\ sec' \in Nat
        /\ \A b \in baks' : b.of \in Config /\ b.at \in Nat /\ b.data \in Contents \cup {Torn}
        /\ \A b \in keybaks' : b.of = "key" /\ b.at \in Nat /\ b.data \in Keys \cup {Torn}
        /\ apart /\ dirs' = dirs => Orderly'
        /\ \E b \in baks' \cup keybaks' : b.of = f /\ b.data = data
        /\ \A b \in baks' : b \in baks \/ (b.of = f /\ b.data = data)
    BY <1>2, <1>3, <1>5, <2>2, Saved
  <2>4. Typed'
    BY <1>1, <1>5, <2>3 DEF IInv, Typed
  <2>5. (apart => Orderly)'
    BY <1>1, <2>3
  <2>6. Shape(k)
    BY <1>1, <1>2, <2>1 DEF Fits, Shape, Same, WriteShape, ApplyShape, RestoreShape, KeyShape,
                    UpgradeShape, RevertShape, ProvisionShape, Ended
  <2>7. PlacedJob(k)' /\ OwnJob(j, k)'
    BY <1>1, <1>2, <1>5, <2>1 DEF Fits, Same, PlacedJob, OwnJob
  <2>8. OrderlyJob(k)'
    <3>1. \A g : In(g, k.todo) => g = f
      BY <1>3, <2>1 DEF Same, First
    <3>2. Copied(f)'
      BY <1>1, <2>2, <2>3 DEF Copied, InCopies
    <3> QED
      BY <2>1, <3>1, <3>2 DEF OrderlyJob, Writes
  <2>9. (Calm => SettingJob(k))'
    BY <1>1, <1>2, <1>5, <2>1 DEF Fits, Same, SettingJob, Calm
  <2>10. Fits(j, k)'
    BY <2>6, <2>7, <2>8, <2>9 DEF Fits
  <2>11. (Calm => SettingOf(k))'
    <3> SUFFICES ASSUME Calm' PROVE SettingOf(k)'
      OBVIOUS
    <3>1. SettingOf(job[j])
      BY <1>1, <1>2, <1>5, Alone, Focus DEF IInv, Calm
    <3>2. (\A i \in Jobs : job'[i].kind # "revert") => \A i \in Jobs : job[i].kind # "revert"
      BY <1>2, <2>1 DEF IInv, Same
    <3>3. Busy(job[j]) /\ \A g : ~Writes(job[j], g)
      BY <1>1 DEF Busy, Writes, Ended, Early
    <3>4. disk["toml"] # Torn
      BY <3>1, <3>3 DEF SettingOf
    <3>5. Held'
      BY <1>1, <1>3, <2>2, <2>3, <3>1, <3>4 DEF SettingOf, Held, Whole
    <3> QED
      BY <1>1, <3>1, <3>2, <3>3, <3>4, <3>5 DEF SettingOf, AsAsked
  <2> QED
    BY <1>1, <1>2, <1>4, <1>5, <2>1, <2>4, <2>5, <2>10, <2>11, Alone, Step
<1>6. ASSUME Save(j, Torn), Ends(j, "failed"), Fault PROVE IInv'
  <2>1. PICK k \in JobSet : /\ job' = [job EXCEPT ![j] = k] /\ k.pc = "failed"
                            /\ k.kind = job[j].kind /\ k.kind # "none"
    BY <1>2, <1>6, Ending
  <2>2. PICK data : data = Torn /\ data \in Values(f) \cup {Torn} /\ Save(j, data)
    BY <1>6
  <2>3. /\ sec' \in Nat
        /\ \A b \in baks' : b.of \in Config /\ b.at \in Nat /\ b.data \in Contents \cup {Torn}
        /\ \A b \in keybaks' : b.of = "key" /\ b.at \in Nat /\ b.data \in Keys \cup {Torn}
        /\ apart /\ dirs' = dirs => Orderly'
    BY <1>2, <1>3, <2>2, Saved
  <2>4. Typed'
    BY <1>1, <1>6, <2>3, Faulty DEF IInv, Typed
  <2>5. Fits(j, k)' /\ ~Calm' /\ faults' # 0
    BY <1>6, <2>1, FaultyFits, Faulty
  <2>6. (apart => Orderly)'
    BY <1>1, <2>3
  <2> QED
    BY <1>1, <1>2, <1>4, <2>1, <2>4, <2>5, <2>6, Alone, Step
<1> QED
  BY <1>3, <1>5, <1>6 DEF Copy

\* A copy of all files is made, or breaks off.
LEMMA CopyAllStep == ASSUME IInv, NEW j \in Jobs, CopyAll(j) PROVE IInv'
<1>1. /\ job[j].pc = "sent" /\ job[j].kind \in Labels
      /\ UNCHANGED <<dir, disk, baks, keybaks, box, wanted, apart>>
  BY DEF CopyAll, Labels
<1>2. Runs(job[j]) /\ Fits(j, job[j]) /\ dir /\ job[j] \in JobSet
  BY <1>1 DEF IInv, Fits, PlacedJob, Runs, Ended
<1>3. PICK now \in Seconds :
        LET put(data) == dirs' = {c \in dirs : c.label # job[j].kind \/ c.at # now}
                                  \cup {[label |-> job[j].kind, at |-> now, data |-> data]} IN
        /\ sec' = now
        /\ \/ /\ put(disk) /\ UNCHANGED faults
              /\ To(j, IF job[j].kind = "upgrade" THEN "values" ELSE "entries")
           \/ /\ \E some \in SUBSET Files :
                   put([f \in Files |-> IF f \in some THEN disk[f] ELSE None])
              /\ Fault /\ Ends(j, "failed")
  BY DEF CopyAll, Label
<1>4. PICK data :
        /\ dirs' = {c \in dirs : c.label # job[j].kind \/ c.at # now}
                     \cup {[label |-> job[j].kind, at |-> now, data |-> data]}
        /\ \/ /\ data = disk /\ UNCHANGED faults
              /\ To(j, IF job[j].kind = "upgrade" THEN "values" ELSE "entries")
           \/ /\ \E some \in SUBSET Files :
                   data = [f \in Files |-> IF f \in some THEN disk[f] ELSE None]
              /\ Fault /\ Ends(j, "failed")
  BY <1>3
<1>5. PICK d : d = [label |-> job[j].kind, at |-> now, data |-> data]
  OBVIOUS
<1>6. /\ sec' = now /\ d = [label |-> job[j].kind, at |-> now, data |-> data]
      /\ dirs' = {c \in dirs : c.label # job[j].kind \/ c.at # now} \cup {d}
      /\ \/ /\ To(j, IF job[j].kind = "upgrade" THEN "values" ELSE "entries")
            /\ UNCHANGED faults /\ data = disk
         \/ /\ Fault /\ Ends(j, "failed")
            /\ \E some \in SUBSET Files :
                 data = [f \in Files |-> IF f \in some THEN disk[f] ELSE None]
  BY <1>3, <1>4, <1>5
<1>7. now \in Nat /\ (apart => now = sec + 1) /\ sec <= now
  BY Time
<1>8. data \in [Files -> All] /\ \A f \in Files : data[f] \in Values(f) \cup {None, Torn}
  <2>1. disk \in [Files -> All] /\ \A f \in Files : disk[f] \in Values(f) \cup {None, Torn}
    BY DEF IInv, Typed
  <2> QED
    BY <1>6, <2>1 DEF All
<1>9. d.label = job[j].kind /\ d.at = now /\ d.data = data /\ d \in dirs'
  BY <1>6
<1>10. \A c \in dirs' : c \in dirs \/ c = d
  BY <1>6
<1>11. Placed'
  BY <1>1 DEF IInv, Placed, Known
<1>12. faults' \in 0 .. MaxFaults /\ sec' \in Nat
  BY <1>6, <1>7, Faulty DEF IInv, Typed
<1>13. \A c \in dirs' : /\ c.label \in Labels /\ c.at \in Nat /\ c.data \in [Files -> All]
                        /\ \A f \in Files : c.data[f] \in Values(f) \cup {None, Torn}
  BY <1>1, <1>7, <1>8, <1>9, <1>10 DEF IInv, Typed
<1>14. Typed'
  BY <1>1, <1>12, <1>13 DEF IInv, Typed
<1>15. (apart => Orderly)'
  <2> SUFFICES ASSUME apart PROVE Orderly'
    BY <1>1
  <2>1. sec \in Nat /\ \A x \in baks \cup keybaks \cup dirs : x.at \in Nat /\ x.at <= sec
    BY DEF IInv, Orderly, Typed
  <2>2. \A x \in baks' \cup keybaks' \cup dirs' : x.at <= now
    BY <1>1, <1>7, <1>9, <1>10, <2>1
  <2> QED
    BY <1>6, <2>2 DEF Orderly
<1>16. CASE Fault /\ Ends(j, "failed")
  <2>1. PICK k \in JobSet : /\ job' = [job EXCEPT ![j] = k] /\ k.pc = "failed"
                            /\ k.kind = job[j].kind /\ k.kind # "none"
    BY <1>2, <1>16, Ending
  <2>2. Fits(j, k)' /\ ~Calm' /\ faults' # 0
    BY <1>16, <2>1, FaultyFits, Faulty
  <2> QED
    BY <1>1, <1>2, <1>11, <1>14, <1>15, <2>1, <2>2, Alone, Step
<1>17. CASE /\ To(j, IF job[j].kind = "upgrade" THEN "values" ELSE "entries")
            /\ UNCHANGED faults /\ data = disk
  <2>1. PICK pc \in Pcs : /\ pc = IF job[j].kind = "upgrade" THEN "values" ELSE "entries"
                          /\ To(j, pc)
    BY <1>17 DEF Pcs
  <2>2. PICK k \in JobSet : job' = [job EXCEPT ![j] = k] /\ k.pc = pc /\ Same(k, job[j])
    BY <2>1, Moved
  <2>3. Shape(k)
    BY <1>1, <2>1, <2>2 DEF Labels, Shape, Same, UpgradeShape, RevertShape
  <2>4. PlacedJob(k)' /\ OwnJob(j, k)'
    BY <1>1, <1>2, <1>17, <2>1, <2>2 DEF Fits, Same, PlacedJob, OwnJob, Labels
  <2>5. OrderlyJob(k)'
    <3>1. \A f \in Files : Copied(f)'
      BY <1>1, <1>9, <1>17 DEF Copied, InCopies
    <3> QED
      BY <2>1, <2>2, <3>1 DEF OrderlyJob, Writes
  <2>6. SettingJob(k)'
    BY <2>1, <2>2 DEF SettingJob
  <2>7. Fits(j, k)'
    BY <2>3, <2>4, <2>5, <2>6 DEF Fits
  <2>8. (Calm => SettingOf(k))'
    <3> SUFFICES ASSUME Calm' PROVE SettingOf(k)'
      OBVIOUS
    <3>1. SettingOf(job[j])
      BY <1>1, <1>2, <1>17, Alone, Focus DEF IInv, Calm
    <3>2. (\A i \in Jobs : job'[i].kind # "revert") => \A i \in Jobs : job[i].kind # "revert"
      BY <1>2, <2>2 DEF IInv, Same
    <3>3. Busy(job[j]) /\ \A g : ~Writes(job[j], g)
      BY <1>1 DEF Busy, Writes, Ended, Early
    <3>4. disk["toml"] # Torn
      BY <3>1, <3>3 DEF SettingOf
    <3>5. Held'
      BY <1>1, <1>9, <1>10, <1>17, <3>1, <3>4 DEF SettingOf, Held
    <3> QED
      BY <1>1, <3>1, <3>2, <3>3, <3>4, <3>5 DEF SettingOf, AsAsked
  <2> QED
    BY <1>1, <1>2, <1>11, <1>14, <1>15, <1>17, <2>2, <2>7, <2>8, Alone, Step
<1> QED
  BY <1>6, <1>16, <1>17

-----------------------------------------------------------------------------
(* Files *)

\* What an upgrade or a restore has still to write.
LEMMA Contained ==
  /\ \A r \in Releases, s \in Settings : <<r, s>> \in Contents /\ Whole(<<r, s>>)
  /\ \A c \in Contents : Whole(c) /\ c[2] \in Settings
  /\ \A c \in Keys : Whole(c)
  /\ Values("key") = Keys /\ \A f \in Config : Values(f) = Contents /\ f # "key" /\ f \in Files
  /\ "toml" \in Config /\ "yaml" \in Config /\ "key" \in Files
  /\ Default \in Settings /\ ~Whole(None) /\ ~Whole(Torn) /\ None # Torn
<1>1. \A r \in Releases, s \in Settings : <<r, s>> \in Contents /\ Whole(<<r, s>>)
  BY FilesAssumption DEF Contents, Whole
<1>2. \A c \in Contents : Whole(c) /\ c[2] \in Settings
  BY FilesAssumption DEF Contents, Whole
<1>3. \A c \in Keys : Whole(c)
  BY FilesAssumption DEF Whole
<1>4. Values("key") = Keys /\ \A f \in Config : Values(f) = Contents /\ f # "key" /\ f \in Files
  BY DEF Values, Config, Files
<1>5. "toml" \in Config /\ "yaml" \in Config /\ "key" \in Files
  BY DEF Config, Files
<1>6. Default \in Settings /\ ~Whole(None) /\ ~Whole(Torn) /\ None # Torn
  BY FilesAssumption DEF Whole
<1> QED
  BY <1>1, <1>2, <1>3, <1>4, <1>5, <1>6

\* An upgrade has its files, whose setting is the one carried over.
LEMMA DownloadConfigsStep == ASSUME IInv, NEW j \in Jobs, DownloadConfigs(j) PROVE IInv'
<1> USE Contained
<1>1. /\ job[j].pc = "download"
      /\ UNCHANGED <<dir, disk, baks, keybaks, dirs, sec, box, wanted, apart>>
  BY DEF DownloadConfigs
<1>2. Runs(job[j]) /\ Fits(j, job[j]) /\ job[j] \in JobSet /\ UpgradeShape(job[j])
  BY <1>1 DEF IInv, Runs, Fits, Shape, WriteShape, ApplyShape, RestoreShape, KeyShape,
              RevertShape, ProvisionShape, Ended, Early, Late
<1>3. job[j].kind = "upgrade" /\ job[j].user \in Settings /\ dir
  BY <1>1, <1>2 DEF UpgradeShape, Fits, PlacedJob
<1>4. CASE Ends(j, "failed") /\ UNCHANGED faults
  BY <1>1, <1>2, <1>4, QuietEnd DEF OnlyTheJob
<1>5. ASSUME NEW r \in Releases, NEW toml \in Toml(r, job[j].user), CutOff(toml),
             job' = [job EXCEPT ![j].pc = "open", ![j].user = None,
                ![j].data = [NoJob.data EXCEPT !["yaml"] = <<r, Default>>, !["toml"] = toml],
                ![j].todo = IF toml = None THEN <<"yaml">> ELSE <<"yaml", "toml">>]
      PROVE  IInv'
  <2>1. PICK data, todo :
          /\ data = [NoJob.data EXCEPT !["yaml"] = <<r, Default>>, !["toml"] = toml]
          /\ todo = IF toml = None THEN <<"yaml">> ELSE <<"yaml", "toml">>
    OBVIOUS
  <2>2. toml = <<r, job[j].user>> \/ toml = None \/ toml = Torn
    BY DEF Toml
  <2>3. toml \in Contents \cup {None, Torn} /\ <<r, Default>> \in Contents
    BY <1>3, <2>2
  <2>4. data \in [Files -> All] /\ data["yaml"] = <<r, Default>> /\ data["toml"] = toml
    BY <2>1, <2>3, NoJobTyped DEF All, Files
  <2>5. todo \in {<<"yaml">>, <<"yaml", "toml">>} /\ todo \in Todos
        /\ (todo # <<"yaml">> => toml # None)
    BY <2>1 DEF Todos
  <2>6. In("toml", todo) => toml # None
    <3>1. todo = <<"yaml">> => \A g : In(g, todo) <=> g = "yaml"
      BY One DEF First
    <3> QED
      BY <2>5, <3>1
  <2>7. PICK k : k = [job[j] EXCEPT !.pc = "open", !.user = None, !.data = data, !.todo = todo]
    OBVIOUS
  <2>8. /\ k \in JobSet /\ k.pc = "open" /\ k.kind = "upgrade" /\ k.data = data /\ k.todo = todo
    BY <1>2, <1>3, <2>4, <2>5, <2>7 DEF JobSet, Pcs
  <2>9. job' = [job EXCEPT ![j] = k]
    BY <1>2, <1>5, <2>1, <2>7 DEF IInv, JobSet
  <2>10. Shape(k)
    <3>1. \A f \in Config : f = "yaml" \/ f = "toml"
      BY DEF Config
    <3>2. \A f \in Config : In(f, k.todo) => k.data[f] \in Contents \cup {Torn}
      BY <2>3, <2>4, <2>6, <2>8, <3>1
    <3> QED
      BY <2>5, <2>8, <3>2 DEF Shape, UpgradeShape
  <2>11. PlacedJob(k)' /\ OwnJob(j, k)'
    <3>1. faults' = 0 => faults = 0
      BY <1>5, Faulty DEF CutOff
    <3> QED
      BY <1>1, <1>2, <1>3, <2>8, <3>1 DEF Fits, PlacedJob, OwnJob
  <2>12. (apart => OrderlyJob(k))'
    <3>1. apart => \A f \in Files : Copied(f)'
      BY <1>1, <1>2 DEF Fits, OrderlyJob, Copied, InCopies
    <3> QED
      BY <1>1, <2>8, <3>1 DEF OrderlyJob, Writes
  <2>13. faults' \in 0 .. MaxFaults /\ (faults' = 0 => faults = 0 /\ toml # Torn)
    BY <1>5, Faulty DEF CutOff, IInv, Typed
  <2>14. (Calm => SettingJob(k))'
    <3> SUFFICES ASSUME Calm' PROVE SettingJob(k)'
      OBVIOUS
    <3>1. Calm /\ toml # Torn
      BY <1>1, <2>13 DEF Calm
    <3>2. wanted.toml # None => job[j].user = wanted.toml
      BY <1>1, <1>2, <1>3, <3>1 DEF Fits, SettingJob
    <3>3. In("toml", k.todo) => Whole(k.data["toml"]) /\ k.data["toml"][2] = job[j].user
      BY <1>3, <2>2, <2>4, <2>6, <2>8, <3>1
    <3> QED
      BY <1>1, <2>8, <3>2, <3>3 DEF SettingJob
  <2>15. Fits(j, k)'
    BY <2>8, <2>10, <2>11, <2>12, <2>14 DEF Fits
  <2>16. Typed' /\ Placed' /\ (apart => Orderly)'
    BY <1>1, <2>13 DEF IInv, Typed, Placed, Orderly, Known
  <2>17. (Calm => SettingOf(k))'
    <3> SUFFICES ASSUME Calm' PROVE SettingOf(k)'
      OBVIOUS
    <3>1. SettingOf(job[j])
      BY <1>1, <1>2, <2>13, Alone, Focus DEF IInv, Calm
    <3>2. (\A i \in Jobs : job'[i].kind # "revert") => \A i \in Jobs : job[i].kind # "revert"
      BY <1>3, <2>8, <2>9 DEF IInv
    <3>3. Busy(job[j]) /\ \A g : ~Writes(job[j], g)
      BY <1>1 DEF Busy, Writes, Ended, Early
    <3> QED
      BY <1>1, <3>1, <3>2, <3>3 DEF SettingOf, Held, AsAsked
  <2> QED
    BY <1>1, <1>2, <2>9, <2>13, <2>15, <2>16, <2>17, Alone, Step
<1> QED
  BY <1>4, <1>5 DEF DownloadConfigs

\* What a command is that opens a file or writes it.
LEMMA Writing ==
  ASSUME IInv, NEW j \in Jobs, job[j].pc \in {"open", "writing"}
  PROVE  /\ Runs(job[j]) /\ Fits(j, job[j]) /\ job[j] \in JobSet /\ dir /\ Busy(job[j])
         /\ \/ WriteShape(job[j]) \/ ApplyShape(job[j]) \/ RestoreShape(job[j])
            \/ KeyShape(job[j]) \/ UpgradeShape(job[j]) \/ RevertShape(job[j])
         /\ \E f \in Files :
              /\ f = Head(job[j].todo) /\ In(f, job[j].todo)
              /\ First(job[j].todo, f) \/ Then(job[j].todo, f, Tail(job[j].todo))
              /\ job[j].data[f] \in Values(f) \cup {Torn}
<1>1. Runs(job[j]) /\ Fits(j, job[j]) /\ Busy(job[j])
  BY DEF IInv, Runs, Busy, Ended, Early
<1>2. job[j] \in JobSet /\ dir /\ Shape(job[j]) /\ job[j].pc \notin Ended \cup Early \cup Late
  BY <1>1 DEF Fits, PlacedJob, Ended, Early, Late
<1>3. \/ WriteShape(job[j]) \/ ApplyShape(job[j]) \/ RestoreShape(job[j])
      \/ KeyShape(job[j]) \/ UpgradeShape(job[j]) \/ RevertShape(job[j])
  BY <1>2 DEF Shape, ProvisionShape
<1>4. job[j].todo \in Todos
  BY <1>2, <1>3 DEF JobSet, Todos, WriteShape, ApplyShape, RestoreShape, KeyShape, UpgradeShape,
                    RevertShape
<1>5. PICK f \in Files : First(job[j].todo, f) \/ Then(job[j].todo, f, Tail(job[j].todo))
  BY <1>4, Left
<1>6. f = Head(job[j].todo) /\ In(f, job[j].todo)
  BY <1>5 DEF First, Then
<1>7. job[j].data[f] \in Values(f) \cup {Torn}
  <2>1. f \in Config \/ f = "key"
    BY DEF Files, Config
  <2>2. ~KeyShape(job[j]) /\ ~RevertShape(job[j]) => f # "key"
    <3>1. <<"yaml", "toml">> \in Todos /\ {<<"yaml">>, <<"toml">>} \subseteq Todos
      BY DEF Todos
    <3>2. PICK todo : todo = job[j].todo
      OBVIOUS
    <3>3. todo \in {<<"yaml">>, <<"toml">>, <<"yaml", "toml">>} => Head(todo) # "key"
      OBVIOUS
    <3> QED
      BY <1>3, <1>6, <3>2, <3>3 DEF WriteShape, ApplyShape, RestoreShape, UpgradeShape
  <2>3. KeyShape(job[j]) => f = "key"
    BY <1>6, One DEF KeyShape, First
  <2>4. WriteShape(job[j]) \/ ApplyShape(job[j]) \/ RestoreShape(job[j]) \/ UpgradeShape(job[j])
          => (f \in Config => job[j].data[f] \in Contents \cup {Torn})
    BY <1>6, One DEF WriteShape, ApplyShape, RestoreShape, UpgradeShape, First
  <2>5. KeyShape(job[j]) => job[j].data["key"] \in Keys
    BY DEF KeyShape
  <2>6. RevertShape(job[j]) => job[j].data[f] \in Values(f) \cup {Torn}
    BY <1>6 DEF RevertShape
  <2> QED
    BY <1>3, <2>1, <2>2, <2>3, <2>4, <2>5, <2>6, Contained
<1> QED
  BY <1>1, <1>2, <1>3, <1>5, <1>6, <1>7

\* A file is truncated, of which there is a copy.
LEMMA OpenStep == ASSUME IInv, NEW j \in Jobs, Open(j) PROVE IInv'
<1>1. /\ job[j].pc = "open" /\ To(j, "writing")
      /\ UNCHANGED <<dir, baks, keybaks, dirs, sec, box, wanted, faults, apart>>
  BY DEF Open
<1>2. Runs(job[j]) /\ Fits(j, job[j]) /\ job[j] \in JobSet /\ dir /\ Busy(job[j])
  BY <1>1, Writing
<1>3. PICK f \in Files : f = Head(job[j].todo) /\ In(f, job[j].todo)
  BY <1>1, Writing
<1>4. disk' = [disk EXCEPT ![f] = Torn]
  BY <1>3 DEF Open
<1>5. PICK k \in JobSet : job' = [job EXCEPT ![j] = k] /\ k.pc = "writing" /\ Same(k, job[j])
  BY <1>1, Moved DEF Pcs
<1>6. Shape(k)
  <2>1. \/ WriteShape(job[j]) \/ ApplyShape(job[j]) \/ RestoreShape(job[j])
        \/ KeyShape(job[j]) \/ UpgradeShape(job[j]) \/ RevertShape(job[j])
    BY <1>1, Writing
  <2>2. \/ WriteShape(k) \/ ApplyShape(k) \/ RestoreShape(k)
        \/ KeyShape(k) \/ UpgradeShape(k) \/ RevertShape(k)
    BY <1>1, <1>5, <2>1 DEF Same, WriteShape, ApplyShape, RestoreShape, KeyShape, UpgradeShape,
                            RevertShape
  <2>3. k.kind # "none"
    BY <2>2 DEF WriteShape, ApplyShape, RestoreShape, KeyShape, UpgradeShape, RevertShape
  <2> QED
    BY <1>5, <2>2, <2>3 DEF Shape
<1>7. disk \in [Files -> All] /\ \A g \in Files : disk[g] \in Values(g) \cup {None, Torn}
  BY DEF IInv, Typed
<1>8. /\ disk' \in [Files -> All] /\ disk'[f] = Torn
      /\ \A g \in Files \ {f} : disk'[g] = disk[g]
  BY <1>4, <1>7 DEF All
<1>9. Typed' /\ Placed' /\ (apart => Orderly)'
  BY <1>1, <1>2, <1>7, <1>8 DEF IInv, Typed, Placed, Orderly
<1>10. \A g : Writes(k, g) <=> g = f
  BY <1>3, <1>5 DEF Writes, Same
<1>11. PlacedJob(k)' /\ OwnJob(j, k)'
  BY <1>1, <1>2, <1>5 DEF Fits, Same, PlacedJob, OwnJob
<1>12. (apart => OrderlyJob(k))'
  <2> SUFFICES ASSUME apart PROVE OrderlyJob(k)'
    BY <1>1
  <2>1. ASSUME NEW g \in Files, In(g, k.todo) PROVE Copied(g)'
    <3>1. CASE g = f
      BY <1>8, <3>1, Contained DEF Copied
    <3>2. CASE g # f
      <4>1. Copied(g)
        BY <1>1, <1>2, <1>5, <2>1 DEF Fits, OrderlyJob, Same
      <4> QED
        BY <1>1, <1>8, <3>2, <4>1 DEF Copied, InCopies
    <3> QED
      BY <3>1, <3>2
  <2> QED
    BY <1>5, <1>8, <1>10, <2>1 DEF OrderlyJob, Writes
<1>13. (Calm => SettingJob(k))'
  BY <1>1, <1>2, <1>5 DEF Fits, Same, SettingJob, Calm
<1>14. Fits(j, k)'
  BY <1>5, <1>6, <1>11, <1>12, <1>13 DEF Fits
<1>15. (Calm => SettingOf(k))'
  <2> SUFFICES ASSUME Calm' PROVE SettingOf(k)'
    OBVIOUS
  <2>1. SettingOf(job[j])
    BY <1>1, <1>2, Alone, Focus DEF IInv, Calm
  <2>2. (\A i \in Jobs : job'[i].kind # "revert") => \A i \in Jobs : job[i].kind # "revert"
    BY <1>2, <1>5 DEF IInv, Same
  <2>3. \A g : ~Writes(job[j], g)
    BY <1>1 DEF Writes
  <2>4. "toml" \in Files /\ "key" \in Files
    BY DEF Files
  <2>5. "toml" # f => disk'["toml"] = disk["toml"] /\ disk["toml"] # Torn
    BY <1>2, <1>8, <2>1, <2>3, <2>4 DEF SettingOf
  <2>6. "key" # f => disk'["key"] = disk["key"]
    BY <1>8, <2>4
  <2>7. Held'
    BY <1>1, <2>1 DEF SettingOf, Held
  <2> QED
    BY <1>1, <1>10, <2>1, <2>2, <2>3, <2>5, <2>6, <2>7 DEF SettingOf, AsAsked
<1>16. \A g \in Files : disk[g] # None => disk'[g] # None
  BY <1>8, Contained
<1> QED
  BY <1>1, <1>2, <1>5, <1>9, <1>14, <1>15, <1>16, Alone, Step

\* What becomes of a command that has written a file.
Wrote(k, m) ==
  /\ k \in JobSet /\ Shape(k) /\ k.kind = m.kind /\ k.kind # "provision"
  /\ \/ /\ k.pc = "open" /\ k.data = m.data /\ k.kind \in {"upgrade", "revert"}
        /\ Then(m.todo, Head(m.todo), k.todo)
     \/ k.pc \in {"restart", "done"}

\* After a file comes the next, the container, or the end.
LEMMA Wrotes ==
  ASSUME IInv, NEW j \in Jobs, job[j].pc = "writing",
         IF Len(job[j].todo) > 1 THEN job' = [job EXCEPT ![j].pc = "open", ![j].todo = Tail(@)]
         ELSE IF job[j].kind \in {"write", "apply"} /\ job[j].full THEN To(j, "restart")
         ELSE Ends(j, "done")
  PROVE  \E k : Wrote(k, job[j]) /\ job' = [job EXCEPT ![j] = k]
<1>1. /\ Runs(job[j]) /\ job[j] \in JobSet
      /\ \/ WriteShape(job[j]) \/ ApplyShape(job[j]) \/ RestoreShape(job[j])
         \/ KeyShape(job[j]) \/ UpgradeShape(job[j]) \/ RevertShape(job[j])
  BY Writing
<1>2. PICK f \in Files : /\ f = Head(job[j].todo)
                         /\ First(job[j].todo, f) \/ Then(job[j].todo, f, Tail(job[j].todo))
  BY Writing
<1>3. job[j].kind # "provision" /\ job[j].kind # "none"
  BY <1>1 DEF WriteShape, ApplyShape, RestoreShape, KeyShape, UpgradeShape, RevertShape
<1>4. CASE Then(job[j].todo, f, Tail(job[j].todo))
  <2>1. Len(job[j].todo) > 1 /\ Tail(job[j].todo) \in Todos
        /\ \A g : In(g, Tail(job[j].todo)) => In(g, job[j].todo)
    BY <1>4 DEF Then
  <2>2. PICK rest \in Todos : rest = Tail(job[j].todo)
    BY <2>1
  <2>3. PICK k : k = [job[j] EXCEPT !.pc = "open", !.todo = rest]
    OBVIOUS
  <2>4. /\ k \in JobSet /\ k.pc = "open" /\ k.todo = rest /\ k.data = job[j].data
        /\ k.kind = job[j].kind
    BY <1>1, <2>3 DEF JobSet, Pcs
  <2>5. job' = [job EXCEPT ![j] = k]
    BY <1>1, <2>1, <2>2, <2>3 DEF IInv, JobSet
  <2>6. ASSUME NEW t \in {<<"yaml">>, <<"toml">>, <<"key">>} PROVE ~(Len(t) > 1)
    <3>1. PICK g \in Files : First(t, g)
      BY Single
    <3> QED
      BY <3>1 DEF First
  <2>7. UpgradeShape(job[j]) \/ RevertShape(job[j])
    BY <1>1, <2>1, <2>6 DEF WriteShape, ApplyShape, RestoreShape, KeyShape
  <2>8. ASSUME UpgradeShape(job[j]) PROVE UpgradeShape(k)
    <3>1. PICK t : t = job[j].todo
      OBVIOUS
    <3>2. t = <<"yaml", "toml">>
      BY <2>1, <2>6, <2>8, <3>1 DEF UpgradeShape
    <3>3. rest = <<"toml">>
      BY <2>2, <3>1, <3>2
    <3>4. \A g : In(g, rest) => In(g, job[j].todo)
      BY <2>1, <2>2
    <3> QED
      BY <2>4, <2>8, <3>3, <3>4 DEF UpgradeShape
  <2>9. ASSUME RevertShape(job[j]) PROVE RevertShape(k)
    <3>1. rest # <<>>
      BY Left DEF First, Then
    <3>2. \A g : In(g, rest) => In(g, job[j].todo)
      BY <2>1, <2>2
    <3> QED
      BY <2>4, <2>9, <3>1, <3>2 DEF RevertShape
  <2>10. Shape(k) /\ k.kind \in {"upgrade", "revert"}
    BY <1>3, <2>4, <2>7, <2>8, <2>9 DEF Shape, UpgradeShape, RevertShape
  <2> QED
    BY <1>2, <1>3, <1>4, <2>2, <2>4, <2>5, <2>10 DEF Wrote
<1>5. CASE First(job[j].todo, f)
  <2>1. ~(Len(job[j].todo) > 1)
    BY <1>5 DEF First
  <2>2. CASE job[j].kind \in {"write", "apply"} /\ job[j].full
    <3>1. PICK k \in JobSet : job' = [job EXCEPT ![j] = k] /\ k.pc = "restart" /\ Same(k, job[j])
      BY <2>1, <2>2, Moved DEF Pcs
    <3>2. Shape(k)
      BY <1>1, <2>2, <3>1 DEF Shape, Same, WriteShape, ApplyShape, RestoreShape, KeyShape,
                              UpgradeShape, RevertShape
    <3> QED
      BY <1>3, <3>1, <3>2 DEF Wrote, Same
  <2>3. CASE ~(job[j].kind \in {"write", "apply"} /\ job[j].full)
    <3>1. PICK k \in JobSet : /\ job' = [job EXCEPT ![j] = k] /\ k.pc = "done"
                              /\ k.kind = job[j].kind /\ k.kind # "none"
      BY <1>1, <2>1, <2>3, Ending
    <3> QED
      BY <1>3, <3>1 DEF Wrote, Shape, Ended
  <2> QED
    BY <2>2, <2>3
<1> QED
  BY <1>2, <1>4, <1>5

\* A file has been written, as it was asked for, or the writing failed.
LEMMA FinishStep == ASSUME IInv, NEW j \in Jobs, Finish(j) PROVE IInv'
<1> USE Contained
<1>1. /\ job[j].pc = "writing"
      /\ UNCHANGED <<dir, baks, keybaks, dirs, sec, box, apart>>
  BY DEF Finish
<1>2. Runs(job[j]) /\ Fits(j, job[j]) /\ job[j] \in JobSet /\ dir /\ Busy(job[j])
  BY <1>1, Writing
<1>3. CASE Fault /\ Ends(j, "failed") /\ UNCHANGED <<disk, wanted>>
  <2>1. PICK k \in JobSet : /\ job' = [job EXCEPT ![j] = k] /\ k.pc = "failed"
                            /\ k.kind = job[j].kind /\ k.kind # "none"
    BY <1>2, <1>3, Ending
  <2>2. Fits(j, k)' /\ ~Calm' /\ faults' # 0
    BY <1>3, <2>1, FaultyFits, Faulty
  <2>3. Typed' /\ Placed' /\ (apart => Orderly)'
    BY <1>1, <1>3, Faulty DEF IInv, Typed, Placed, Orderly, Known
  <2> QED
    BY <1>1, <1>2, <1>3, <2>1, <2>2, <2>3, Alone, Step
<1>4. ASSUME NEW f \in Files, f = Head(job[j].todo), NEW c \in Written(f, job[j].data[f]),
             disk' = [disk EXCEPT ![f] = c], wanted' = Asked(j, f), UNCHANGED faults,
             NEW k, Wrote(k, job[j]), job' = [job EXCEPT ![j] = k]
      PROVE  IInv'
  <2>1. job[j].data[f] \in Values(f) \cup {Torn} /\ In(f, job[j].todo)
    BY <1>1, <1>4, Writing
  <2>2. c \in Values(f) \cup {Torn} /\ (disk[f] = Torn => c = job[j].data[f])
    BY <1>4, <2>1 DEF Written
  <2>3. disk \in [Files -> All] /\ \A g \in Files : disk[g] \in Values(g) \cup {None, Torn}
    BY DEF IInv, Typed
  <2>4. c \in All /\ c # None
    <3>1. f \in Config \/ f = "key"
      BY DEF Files, Config
    <3>2. Values(f) \subseteq All /\ Torn \in All
      BY <3>1 DEF All
    <3> QED
      BY <2>2, <3>1, <3>2 DEF Whole
  <2>5. /\ disk' \in [Files -> All] /\ disk'[f] = c
        /\ \A g \in Files \ {f} : disk'[g] = disk[g]
        /\ \A g \in Files : disk'[g] \in Values(g) \cup {None, Torn}
    BY <1>4, <2>2, <2>3, <2>4
  <2>6. PICK d : d = job[j].data[f]
    OBVIOUS
  <2>7. /\ wanted'.toml = IF f = "toml" /\ job[j].kind # "upgrade" /\ Whole(d) THEN d[2] ELSE wanted.toml
        /\ wanted'.key = IF f = "key" /\ job[j].kind # "revert" THEN d ELSE wanted.key
        /\ wanted' \in [toml : Settings \cup {None}, key : Keys \cup {None, Torn}]
    <3>1. wanted \in [toml : Settings \cup {None}, key : Keys \cup {None, Torn}]
      BY DEF IInv, Typed
    <3>2. f = "toml" /\ Whole(d) => d[2] \in Settings
      BY <2>1, <2>6
    <3>3. f = "key" => d \in Keys \cup {None, Torn}
      BY <2>1, <2>6
    <3>4. wanted' = IF f = "toml" /\ job[j].kind # "upgrade" /\ Whole(d) THEN [wanted EXCEPT !.toml = d[2]]
                    ELSE IF f = "key" /\ job[j].kind # "revert" THEN [wanted EXCEPT !.key = d]
                    ELSE wanted
      BY <1>4, <2>6 DEF Asked
    <3> QED
      BY <3>1, <3>2, <3>3, <3>4
  <2>8. Typed' /\ Placed' /\ (apart => Orderly)'
    BY <1>1, <1>2, <1>4, <2>5, <2>7 DEF IInv, Typed, Placed, Orderly
  <2>9. /\ k \in JobSet /\ Shape(k) /\ k.kind = job[j].kind /\ k.kind # "provision"
        /\ k.pc \in {"open", "restart", "done"}
        /\ k.pc = "open" => /\ k.data = job[j].data /\ k.kind \in {"upgrade", "revert"}
                            /\ \A g : In(g, k.todo) => In(g, job[j].todo) /\ g # f
    BY <1>4 DEF Wrote, Then
  <2>10. PlacedJob(k)' /\ OwnJob(j, k)'
    BY <1>1, <1>2, <1>4, <2>9 DEF Fits, PlacedJob, OwnJob
  <2>11. (apart => OrderlyJob(k))'
    <3> SUFFICES ASSUME apart PROVE OrderlyJob(k)'
      BY <1>1
    <3>1. ASSUME NEW g \in Files, k.pc = "open", In(g, k.todo) PROVE Copied(g)'
      <4>1. Copied(g) /\ g # f
        BY <1>1, <1>2, <2>9, <3>1 DEF Fits, OrderlyJob
      <4> QED
        BY <1>1, <2>5, <4>1 DEF Copied, InCopies
    <3> QED
      BY <2>9, <3>1 DEF OrderlyJob, Writes
  <2>12. ASSUME Calm' PROVE SettingOf(k)' /\ SettingJob(k)'
    <3>1. Calm /\ apart
      BY <1>1, <1>4, <2>12 DEF Calm
    <3>2. SettingOf(job[j]) /\ SettingJob(job[j]) /\ OrderlyJob(job[j])
      BY <1>2, <3>1, Alone, Focus DEF IInv, Calm, Fits
    <3>3. \A g : Writes(job[j], g) <=> g = f
      BY <1>1, <1>4 DEF Writes
    <3>4. c = d /\ disk[f] = Torn
      BY <2>2, <2>6, <3>2, <3>3 DEF OrderlyJob
    <3>5. f = "toml" => Whole(d)
      <4> SUFFICES ASSUME f = "toml" PROVE Whole(d)
        OBVIOUS
      <4>1. job[j].kind \in {"restore", "upgrade", "revert"} => Whole(d)
        BY <1>1, <2>1, <2>6, <3>2 DEF SettingJob
      <4>2. WriteShape(job[j]) => Whole(d)
        BY <2>1, <2>6 DEF WriteShape
      <4>3. ~ApplyShape(job[j]) /\ ~KeyShape(job[j])
        BY <1>4, One DEF ApplyShape, KeyShape, First
      <4> QED
        BY <1>1, <4>1, <4>2, <4>3, Writing DEF RestoreShape, UpgradeShape, RevertShape
    <3>6. ASSUME f = "toml", job[j].kind = "upgrade", wanted.toml # None PROVE d[2] = wanted.toml
      BY <1>1, <2>1, <2>6, <3>2, <3>6 DEF SettingJob
    <3>7. disk'["toml"] # Torn
      <4>1. CASE f = "toml"
        BY <2>5, <3>4, <3>5, <4>1
      <4>2. CASE f # "toml"
        BY <1>2, <2>5, <3>2, <3>3, <4>2 DEF SettingOf
      <4> QED
        BY <4>1, <4>2
    <3>8. wanted'.toml # None => AsAsked'
      <4>1. CASE f = "toml"
        BY <2>5, <2>7, <3>4, <3>5, <3>6, <4>1 DEF AsAsked
      <4>2. CASE f # "toml"
        BY <2>5, <2>7, <3>2, <3>3, <4>2 DEF SettingOf, AsAsked
      <4> QED
        BY <4>1, <4>2
    <3>9. (\A i \in Jobs : job'[i].kind # "revert") => disk'["key"] = wanted'.key
      <4> SUFFICES ASSUME \A i \in Jobs : job'[i].kind # "revert" PROVE disk'["key"] = wanted'.key
        OBVIOUS
      <4>1. \A i \in Jobs : job[i].kind # "revert"
        BY <1>4, <2>9 DEF IInv
      <4>2. CASE f = "key"
        BY <2>5, <2>7, <3>4, <4>1, <4>2
      <4>3. CASE f # "key"
        BY <2>5, <2>7, <3>2, <3>3, <4>1, <4>3 DEF SettingOf
      <4> QED
        BY <4>2, <4>3
    <3>10. Held'
      BY <1>1, <3>2 DEF SettingOf, Held
    <3>11. SettingOf(k)'
      BY <3>7, <3>8, <3>9, <3>10 DEF SettingOf
    <3>12. job[j].kind = "upgrade" => wanted'.toml = wanted.toml
      BY <2>7
    <3>13. SettingJob(k)'
      BY <1>1, <2>9, <3>2, <3>12 DEF SettingJob
    <3> QED
      BY <3>11, <3>13
  <2>13. Fits(j, k)'
    BY <2>9, <2>10, <2>11, <2>12 DEF Fits
  <2>14. \A g \in Files : disk[g] # None => disk'[g] # None
    BY <2>4, <2>5
  <2> QED
    BY <1>1, <1>2, <1>4, <2>8, <2>12, <2>13, <2>14, Alone, Step
<1>5. PICK f \in Files : f = Head(job[j].todo)
  BY <1>1, Writing
<1> QED
  BY <1>1, <1>3, <1>4, <1>5, Wrotes DEF Finish

\* A provisioning writes where there was nothing, where no command overlaps it.
LEMMA DownloadConfigStep == ASSUME IInv, NEW j \in Jobs, DownloadConfig(j) PROVE IInv'
<1> USE Contained
<1>1. At(j, "config") /\ UNCHANGED <<dir, baks, keybaks, dirs, sec, box, apart>>
  BY DEF DownloadConfig
<1>2. "config" \in Early /\ "config" \in Early \cup Late
  BY DEF Early
<1>3. /\ job[j].pc = "config" /\ Runs(job[j]) /\ Fits(j, job[j]) /\ job[j].kind = "provision"
      /\ job[j].user \in Settings
  BY <1>1, <1>2, AtStep DEF ProvisionShape
<1>4. dir /\ disk \in [Files -> All] /\ \A g \in Files : disk[g] \in Values(g) \cup {None, Torn}
  BY <1>3 DEF Fits, PlacedJob, IInv, Typed
<1>5. wanted \in [toml : Settings \cup {None}, key : Keys \cup {None, Torn}]
  BY DEF IInv, Typed
<1>6. \A f \in Files : f = "yaml" \/ f = "toml" \/ f = "key"
  BY DEF Files
<1>7. ASSUME NEW r \in Releases, NEW toml \in Toml(r, job[j].user), CutOff(toml), NextStep(j),
             disk' = [disk EXCEPT !["yaml"] = <<r, Default>>, !["toml"] = IF toml = None THEN @ ELSE toml],
             wanted' = IF Whole(toml) THEN [wanted EXCEPT !.toml = job[j].user] ELSE wanted
      PROVE  IInv'
  <2>1. PICK k : GoneOn(k, "config") /\ job' = [job EXCEPT ![j] = k]
    BY <1>1, <1>2, <1>7, GoesOn
  <2>2. /\ k \in JobSet /\ k.kind = "provision" /\ Shape(k) /\ k.pc \in {"fulldb", "genkey", "perm"}
    BY <2>1 DEF GoneOn, Follows
  <2>3. toml = <<r, job[j].user>> \/ toml = None \/ toml = Torn
    BY DEF Toml
  <2>4. faults' \in 0 .. MaxFaults /\ (faults' = 0 => faults = 0 /\ toml # Torn)
    BY <1>7, Faulty DEF CutOff, IInv, Typed
  <2>5. PICK t : t = IF toml = None THEN disk["toml"] ELSE toml
    OBVIOUS
  <2>6. disk' = [disk EXCEPT !["yaml"] = <<r, Default>>, !["toml"] = t]
    BY <1>4, <1>7, <2>5
  <2>7. t \in Contents \cup {None, Torn} /\ t \in All /\ (disk["toml"] # None => t # None)
    BY <1>3, <1>4, <2>3, <2>5 DEF All
  <2>8. /\ disk'["toml"] = t /\ disk'["key"] = disk["key"] /\ disk'["yaml"] = <<r, Default>>
        /\ disk' \in [Files -> All]
    BY <1>4, <1>6, <2>6, <2>7 DEF All
  <2>9. \A g \in Files : /\ disk'[g] \in Values(g) \cup {None, Torn}
                         /\ disk[g] # None => disk'[g] # None
    BY <1>4, <1>6, <2>7, <2>8
  <2>10. /\ wanted' \in [toml : Settings \cup {None}, key : Keys \cup {None, Torn}]
         /\ wanted'.key = wanted.key
         /\ wanted'.toml = IF Whole(toml) THEN job[j].user ELSE wanted.toml
    BY <1>3, <1>5, <1>7
  <2>11. Typed' /\ Placed' /\ (apart => Orderly)'
    BY <1>1, <1>4, <2>4, <2>8, <2>9, <2>10 DEF IInv, Typed, Placed, Orderly
  <2>12. Fits(j, k)'
    <3>1. PlacedJob(k)' /\ OwnJob(j, k)'
      BY <1>1, <1>3, <1>4, <2>2, <2>4 DEF Fits, PlacedJob, OwnJob
    <3>2. OrderlyJob(k)' /\ SettingJob(k)'
      BY <2>2 DEF OrderlyJob, SettingJob, Writes
    <3> QED
      BY <2>2, <3>1, <3>2 DEF Fits
  <2>13. (Calm => SettingOf(k))'
    <3> SUFFICES ASSUME Calm' PROVE SettingOf(k)'
      OBVIOUS
    <3>1. SettingOf(job[j]) /\ OrderlyJob(job[j]) /\ toml # Torn
      BY <1>1, <1>3, <2>4, Alone, Focus DEF IInv, Calm, Fits
    <3>2. wanted.toml = None /\ disk["toml"] = None
      BY <1>3, <3>1 DEF OrderlyJob
    <3>3. (\A i \in Jobs : job'[i].kind # "revert") => \A i \in Jobs : job[i].kind # "revert"
      BY <1>3, <2>1, <2>2 DEF IInv
    <3>4. \A g : ~Writes(job[j], g)
      BY <1>3 DEF Writes
    <3>5. disk'["toml"] # Torn
      BY <1>3, <2>3, <2>5, <2>8, <3>1, <3>2
    <3>6. wanted'.toml # None => AsAsked'
      <4> SUFFICES ASSUME wanted'.toml # None PROVE AsAsked'
        OBVIOUS
      <4>1. Whole(toml)
        BY <2>10, <3>2
      <4>2. toml = <<r, job[j].user>> /\ t = toml
        BY <2>3, <2>5, <4>1
      <4> QED
        BY <2>8, <2>10, <4>1, <4>2 DEF AsAsked
    <3>7. Held'
      BY <1>1, <3>1 DEF SettingOf, Held
    <3> QED
      BY <2>8, <2>10, <3>1, <3>3, <3>4, <3>5, <3>6, <3>7 DEF SettingOf
  <2> QED
    BY <1>1, <1>3, <2>1, <2>4, <2>9, <2>11, <2>12, <2>13, Alone, Step
<1>8. ASSUME NEW r \in Releases, NEW some \in SUBSET Config, NEW half \in SUBSET Config, Cleanup(j),
             disk' = [f \in Files |-> IF f \in half THEN Torn
                                      ELSE IF f \in some THEN <<r, Default>> ELSE disk[f]],
             UNCHANGED <<wanted, faults>>
      PROVE  IInv'
  <2>1. PICK k : GivenUp(k, "config") /\ job' = [job EXCEPT ![j] = k]
    BY <1>1, <1>2, <1>8, GivesUp
  <2>2. k \in JobSet /\ k.kind = "provision" /\ Shape(k) /\ k.pc = "failed"
    BY <1>2, <2>1 DEF GivenUp
  <2>3. /\ disk' \in [Files -> All] /\ disk'["key"] = disk["key"]
        /\ \A g \in Files : /\ disk'[g] \in Values(g) \cup {None, Torn}
                            /\ disk[g] # None => disk'[g] # None
    <3>1. \A f \in Files : disk'[f] = IF f \in half THEN Torn
                                      ELSE IF f \in some THEN <<r, Default>> ELSE disk[f]
      BY <1>8
    <3>2. "key" \notin half /\ "key" \notin some
      BY <1>8
    <3>3. \A g \in Files : /\ disk'[g] \in Values(g) \cup {None, Torn}
                           /\ disk[g] # None => disk'[g] # None
      BY <1>4, <3>1
    <3>4. \A g \in Files : Values(g) \subseteq All /\ None \in All /\ Torn \in All
      BY <1>6 DEF All
    <3> QED
      BY <1>8, <3>1, <3>2, <3>3, <3>4
  <2>4. Typed' /\ Placed' /\ (apart => Orderly)'
    BY <1>1, <1>4, <1>8, <2>3 DEF IInv, Typed, Placed, Orderly
  <2>5. Fits(j, k)'
    <3>1. PlacedJob(k)' /\ OwnJob(j, k)'
      BY <1>1, <1>3, <1>8, <2>2 DEF Fits, PlacedJob, OwnJob, Runs, Ended
    <3>2. OrderlyJob(k)' /\ SettingJob(k)'
      BY <2>2 DEF OrderlyJob, SettingJob, Writes
    <3> QED
      BY <2>2, <3>1, <3>2 DEF Fits
  <2>6. (Calm => SettingOf(k))'
    <3> SUFFICES ASSUME Calm' PROVE SettingOf(k)'
      OBVIOUS
    <3>1. SettingOf(job[j]) /\ OrderlyJob(job[j])
      BY <1>1, <1>3, <1>8, Alone, Focus DEF IInv, Calm, Fits
    <3>2. wanted.toml = None /\ ~Known'
      BY <1>1, <1>3, <3>1 DEF OrderlyJob, Known
    <3>3. (\A i \in Jobs : job'[i].kind # "revert") => \A i \in Jobs : job[i].kind # "revert"
      BY <1>3, <2>1, <2>2 DEF IInv
    <3>4. ~Busy(k) /\ \A g : ~Writes(job[j], g)
      BY <1>3, <2>2 DEF Writes, Busy, Ended
    <3>5. Held'
      BY <1>1, <3>1 DEF SettingOf, Held
    <3> QED
      BY <1>8, <2>3, <3>1, <3>2, <3>3, <3>4, <3>5 DEF SettingOf
  <2> QED
    BY <1>1, <1>3, <1>8, <2>1, <2>3, <2>4, <2>5, <2>6, Alone, Step
<1> QED
  BY <1>7, <1>8 DEF DownloadConfig

\* A provisioning made a key, and kept the one that was there.
LEMMA GenerateValidatorKeyStep == ASSUME IInv, NEW j \in Jobs, GenerateValidatorKey(j) PROVE IInv'
<1> USE Contained
<1>1. At(j, "genkey") /\ UNCHANGED <<dir, baks, dirs, box, faults, apart>>
  BY DEF GenerateValidatorKey
<1>2. "genkey" \in Early \cup Late /\ "genkey" \notin Early
  BY DEF Early, Late
<1>3. /\ job[j].pc = "genkey" /\ Runs(job[j]) /\ Fits(j, job[j]) /\ job[j].kind = "provision"
  BY <1>1, <1>2, AtStep
<1>4. CASE Cleanup(j) /\ UNCHANGED <<disk, wanted, sec, keybaks>>
  BY <1>1, <1>2, <1>4, QuietGiveUp DEF OnlyTheJob
<1>5. ASSUME NEW c \in Keys, disk' = [disk EXCEPT !["key"] = c], wanted' = [wanted EXCEPT !.key = c],
             NextStep(j),
             IF disk["key"] = None THEN UNCHANGED <<sec, keybaks>>
             ELSE \E now \in Seconds :
                    sec' = now /\ keybaks' = Put(keybaks, [of |-> "key", at |-> now, data |-> disk["key"]])
      PROVE  IInv'
  <2>1. PICK k : GoneOn(k, "genkey") /\ job' = [job EXCEPT ![j] = k]
    BY <1>1, <1>2, <1>5, GoesOn
  <2>2. k \in JobSet /\ k.kind = "provision" /\ Shape(k) /\ k.pc \in {"fulldb", "genkey", "perm"}
    BY <2>1 DEF GoneOn, Follows
  <2>3. dir /\ disk \in [Files -> All] /\ \A g \in Files : disk[g] \in Values(g) \cup {None, Torn}
    BY <1>3 DEF Fits, PlacedJob, IInv, Typed
  <2>4. /\ disk' \in [Files -> All] /\ disk'["key"] = c /\ disk'["toml"] = disk["toml"]
        /\ \A g \in Files : /\ disk'[g] \in Values(g) \cup {None, Torn}
                            /\ disk[g] # None => disk'[g] # None
    <3>1. c \in All /\ c # None
      BY DEF All
    <3> QED
      BY <1>5, <2>3, <3>1
  <2>5. /\ wanted' \in [toml : Settings \cup {None}, key : Keys \cup {None, Torn}]
        /\ wanted'.key = c /\ wanted'.toml = wanted.toml
    BY <1>5 DEF IInv, Typed
  <2>6. /\ sec' \in Nat
        /\ \A b \in keybaks' : b.of = "key" /\ b.at \in Nat /\ b.data \in Keys \cup {Torn}
        /\ apart => Orderly'
    <3>1. sec \in Nat /\ \A b \in keybaks : b.of = "key" /\ b.at \in Nat /\ b.data \in Keys \cup {Torn}
      BY DEF IInv, Typed
    <3>2. CASE disk["key"] = None
      BY <1>1, <1>5, <3>1, <3>2 DEF IInv, Orderly
    <3>3. CASE disk["key"] # None
      <4>1. PICK now \in Seconds :
              sec' = now /\ keybaks' = Put(keybaks, [of |-> "key", at |-> now, data |-> disk["key"]])
        BY <1>5, <3>3
      <4>2. PICK b : b = [of |-> "key", at |-> now, data |-> disk["key"]]
        OBVIOUS
      <4>3. now \in Nat /\ (apart => now = sec + 1) /\ sec <= now
        BY Time
      <4>4. \A x \in keybaks' : x \in keybaks \/ x = b
        BY <4>1, <4>2 DEF Put
      <4>5. b.of = "key" /\ b.at = now /\ b.data \in Keys \cup {Torn}
        BY <2>3, <3>3, <4>2
      <4>6. ASSUME apart PROVE Orderly'
        <5>1. \A x \in baks \cup keybaks \cup dirs : x.at \in Nat /\ x.at <= sec
          BY <4>6 DEF IInv, Orderly, Typed
        <5>2. \A x \in baks' \cup keybaks' \cup dirs' : x.at <= now
          BY <1>1, <3>1, <4>3, <4>4, <4>5, <5>1
        <5> QED
          BY <4>1, <5>2 DEF Orderly
      <4>7. \A x \in keybaks' : x.of = "key" /\ x.at \in Nat /\ x.data \in Keys \cup {Torn}
        BY <3>1, <4>3, <4>4, <4>5
      <4> QED
        BY <4>1, <4>3, <4>6, <4>7
    <3> QED
      BY <3>2, <3>3
  <2>7. Typed' /\ Placed' /\ (apart => Orderly)'
    BY <1>1, <2>3, <2>4, <2>5, <2>6 DEF IInv, Typed, Placed
  <2>8. Fits(j, k)'
    <3>1. PlacedJob(k)' /\ OwnJob(j, k)'
      BY <1>1, <1>3, <2>2, <2>3 DEF Fits, PlacedJob, OwnJob
    <3>2. OrderlyJob(k)' /\ SettingJob(k)'
      BY <2>2 DEF OrderlyJob, SettingJob, Writes
    <3> QED
      BY <2>2, <3>1, <3>2 DEF Fits
  <2>9. (Calm => SettingOf(k))'
    <3> SUFFICES ASSUME Calm' PROVE SettingOf(k)'
      OBVIOUS
    <3>1. SettingOf(job[j])
      BY <1>1, <1>3, Alone, Focus DEF IInv, Calm
    <3>2. Busy(job[j]) /\ \A g : ~Writes(job[j], g)
      BY <1>3 DEF Busy, Writes, Ended, Early
    <3>3. Held'
      BY <1>1, <3>1 DEF SettingOf, Held
    <3> QED
      BY <2>4, <2>5, <3>1, <3>2, <3>3 DEF SettingOf, AsAsked
  <2> QED
    BY <1>1, <1>3, <2>1, <2>4, <2>7, <2>8, <2>9, Alone, Step
<1> QED
  BY <1>4, <1>5 DEF GenerateValidatorKey

-----------------------------------------------------------------------------
(* The invariant *)

\* The agent dies, and its commands with it.
LEMMA CrashStep == ASSUME IInv, Crash PROVE IInv'
<1>1. /\ Fault
      /\ job' = [j \in Jobs |-> IF Running(j) THEN Over(job[j].kind, "failed") ELSE job[j]]
      /\ UNCHANGED <<dir, disk, baks, keybaks, dirs, sec, box, wanted, apart>>
  BY DEF Crash
<1>2. faults' \in 0 .. MaxFaults /\ faults' # 0
  BY <1>1, Faulty
<1>3. ASSUME NEW j \in Jobs PROVE Fits(j, job[j])' /\ ~Runs(job'[j]) /\ job'[j] \in JobSet
  <2>1. job[j] \in JobSet /\ Shape(job[j])
    BY DEF IInv, Fits
  <2>2. PICK k : k = job'[j]
    OBVIOUS
  <2>3. k \in JobSet /\ k.pc \in Ended /\ Shape(k)
    <3>1. CASE Running(j)
      <4>1. job[j].kind \in Kinds /\ "failed" \in Pcs /\ job[j].kind # "none"
        BY <2>1, <3>1 DEF JobSet, Pcs, Ended, Shape, Running
      <4>2. k = Over(job[j].kind, "failed")
        BY <1>1, <2>2, <3>1
      <4> QED
        BY <4>1, <4>2, OverTyped DEF Shape, Ended
    <3>2. CASE ~Running(j)
      BY <1>1, <2>1, <2>2, <3>2 DEF Running, Ended
    <3> QED
      BY <3>1, <3>2
  <2>4. PlacedJob(k)' /\ OrderlyJob(k)' /\ OwnJob(j, k)' /\ ~Calm'
    BY <1>2, <2>3 DEF PlacedJob, OrderlyJob, OwnJob, Calm, Writes, Runs, Ended
  <2>5. Fits(j, k)'
    BY <2>3, <2>4 DEF Fits
  <2> QED
    BY <2>2, <2>3, <2>5 DEF Fits, Runs
<1>4. Typed' /\ Placed' /\ (apart => Orderly)' /\ ~Calm'
  BY <1>1, <1>2 DEF IInv, Typed, Placed, Orderly, Known, Calm
<1>5. Solo'
  BY <1>3 DEF Solo
<1>6. job' \in [Jobs -> JobSet]
  BY <1>1, <1>3
<1> QED
  BY <1>3, <1>4, <1>5, <1>6 DEF IInv

\* The invariant holds at first.
LEMMA Begins == Init => IInv
<1> SUFFICES ASSUME Init PROVE IInv
  OBVIOUS
<1> USE Contained
<1>1. \A j \in Jobs : job[j] = NoJob /\ NoJob \in JobSet /\ NoJob.pc = "new" /\ NoJob.kind = "none"
  BY NoJobTyped DEF Init, NoJob
<1>2. \A f \in Files : f \in Config \/ f = "key"
  BY DEF Files, Config
<1>3. /\ disk \in [Files -> All] /\ \A f \in Files : disk[f] \in Values(f) \cup {None}
      /\ dir \in BOOLEAN
      /\ IF dir THEN disk["toml"] \in Contents /\ disk["toml"][2] = Default
         ELSE \A f \in Files : disk[f] = None
  <2>1. CASE dir
    <3>1. PICK r \in Releases, c \in Keys :
            disk = [f \in Files |-> IF f = "key" THEN c ELSE <<r, Default>>]
      BY <2>1 DEF Init
    <3>2. disk["toml"] = <<r, Default>> /\ <<r, Default>> \in Contents /\ <<r, Default>>[2] = Default
      BY <3>1
    <3>3. \A f \in Files : disk[f] \in Values(f)
      BY <1>2, <3>1
    <3>4. disk \in [Files -> All]
      BY <3>1, <3>2 DEF All
    <3> QED
      BY <2>1, <3>2, <3>3, <3>4 DEF Init
  <2>2. CASE ~dir
    <3>1. disk = [f \in Files |-> None] /\ dir = FALSE
      BY <2>2 DEF Init
    <3> QED
      BY <3>1 DEF All
  <2> QED
    BY <2>1, <2>2
<1>4. wanted.toml = (IF dir THEN Default ELSE None) /\ wanted.key = disk["key"]
      /\ wanted = [toml |-> IF dir THEN Default ELSE None, key |-> disk["key"]]
  BY DEF Init
<1>5. /\ box \in {None} \cup [by : Jobs \cup {Stranger}, here : BOOLEAN, up : BOOLEAN]
      /\ box # None => box.by = Stranger /\ (box.here => dir)
  <2>1. ASSUME NEW h \in BOOLEAN, box = [by |-> Stranger, here |-> h, up |-> TRUE]
        PROVE  /\ box \in [by : Jobs \cup {Stranger}, here : BOOLEAN, up : BOOLEAN]
               /\ box.by = Stranger /\ box.here = h
    BY <2>1
  <2>2. \/ dir /\ box = [by |-> Stranger, here |-> TRUE, up |-> TRUE]
        \/ box = None
        \/ box = [by |-> Stranger, here |-> FALSE, up |-> TRUE]
    BY DEF Init
  <2> QED
    BY <2>1, <2>2
<1>6. Typed
  <2>1. disk["key"] \in Keys \cup {None}
    BY <1>3
  <2>2. wanted \in [toml : Settings \cup {None}, key : Keys \cup {None, Torn}]
    BY <1>4, <2>1
  <2>3. faults \in 0 .. MaxFaults /\ sec \in Nat /\ apart \in BOOLEAN
    BY FilesAssumption DEF Init
  <2> QED
    BY <1>3, <1>5, <2>2, <2>3 DEF Init, Typed
<1>7. Solo /\ Placed /\ Orderly
  BY <1>1, <1>3, <1>4, <1>5 DEF Init, Solo, Placed, Orderly, Runs, Ended, Known
<1>8. Setting
  BY <1>3, <1>4, <1>5 DEF Init, Setting, Held, AsAsked
<1>9. ASSUME NEW j \in Jobs PROVE Fits(j, NoJob)
  <2>1. OwnJob(j, NoJob)
    BY <1>5, FilesAssumption DEF OwnJob
  <2> QED
    BY <1>1, <2>1, FitsEnded DEF Ended
<1>10. job \in [Jobs -> JobSet]
  BY <1>1 DEF Init
<1> QED
  BY <1>1, <1>6, <1>7, <1>8, <1>9, <1>10 DEF IInv

\* Every step of a command on files.
LEMMA CommandStep == ASSUME IInv, NEW j \in Jobs, Command(j) PROVE IInv'
  BY ReadConfigStep, RestoreConfigStep, GenerateKeyStep, StatStep, CopyStep, CopyAllStep,
     ReadUserValuesStep, DownloadConfigsStep, ReadEntriesStep, OpenStep, FinishStep,
     RestartContainerStep, ToStat DEF Command, WriteConfig, ImportKey

\* Every step of a provisioning.
LEMMA ProvisionStep == ASSUME IInv, NEW j \in Jobs, Provision(j) PROVE IInv'
  BY QuietProvision, CreateDirsStep, DownloadConfigStep, GenerateValidatorKeyStep,
     CreateContainerStep, StartContainerStep, RemoveContainerStep DEF Provision

\* A step in which nothing changes.
LEMMA StutterStep == ASSUME IInv, UNCHANGED vars PROVE IInv'
<1> USE DEF vars
<1>1. Typed' /\ Solo' /\ Placed' /\ (apart => Orderly)'
  BY DEF IInv, Typed, Solo, Placed, Orderly, Known
<1>2. (Calm => Setting)'
  BY DEF IInv, Calm, Setting, Held, AsAsked, Known
<1>3. ASSUME NEW j \in Jobs PROVE Fits(j, job[j])'
  <2>1. PICK k : k = job[j]
    OBVIOUS
  <2>2. Fits(j, k) /\ job'[j] = k
    BY <2>1 DEF IInv
  <2>3. Fits(j, k)'
    BY <2>2 DEF Fits, PlacedJob, OwnJob, OrderlyJob, Copied, InCopies, Known, Calm, SettingJob
  <2> QED
    BY <2>2, <2>3 DEF Fits
<1> QED
  BY <1>1, <1>2, <1>3 DEF IInv

\* The invariant holds in every behaviour.
THEOREM Invariant == Spec => []IInv
<1>1. IInv /\ [Next]_vars => IInv'
  BY HandlerStep, CommandStep, ProvisionStep, CrashStep, StutterStep DEF Next
<1> QED
  BY Begins, <1>1, PTL DEF Spec

-----------------------------------------------------------------------------
(* What it implies *)

\* The types, and that nothing is opened that is not left to write.
THEOREM Typing == Spec => []TypeOK
<1>1. ASSUME IInv PROVE TypeOK
  <2>1. \A f \in Files : f \in Config => Values(f) = Contents
    BY Contained
  <2>2. "key" \in Files /\ Values("key") = Keys /\ Config \subseteq Files
    BY Contained
  <2>3. \A b \in baks \cup keybaks : b.of \in Files /\ b.data \in Values(b.of) \cup {Torn}
    BY <1>1, <2>1, <2>2 DEF IInv, Typed
  <2>4. \A j \in Jobs : job[j].pc \in {"open", "writing"} => job[j].todo # <<>>
    BY <1>1, Writing DEF First, Then
  <2>5. apart => \A i, j \in Jobs : Running(i) /\ Running(j) => i = j
    BY <1>1 DEF IInv, Solo, Running, Runs, Ended
  <2>6. wanted.toml \in Settings \cup {None} /\ wanted.key \in Keys \cup {None, Torn}
    BY <1>1 DEF IInv, Typed
  <2> QED
    BY <1>1, <2>3, <2>4, <2>5, <2>6 DEF IInv, Typed, TypeOK
<1> QED
  BY Invariant, <1>1, PTL

\* Without failures, and where the operator waits for the end of a command, the
\* setting and the key are those last asked for (config_upgrade.go:63).
THEOREM AsLastAsked == Spec => []SettingKept
<1>1. ASSUME IInv, apart, Idle, faults = 0
      PROVE  /\ wanted.toml # None => disk["toml"][2] = wanted.toml
             /\ (\A j \in Jobs : job[j].kind # "revert") => disk["key"] = wanted.key
  <2>1. Setting
    BY <1>1 DEF IInv, Calm
  <2>2. \A j \in Jobs : \A f : ~Writes(job[j], f)
    BY <1>1 DEF Idle, Running, Writes
  <2> QED
    BY <2>1, <2>2 DEF Setting, AsAsked
<1> QED
  BY Invariant, <1>1, PTL DEF SettingKept

\* A provisioning that failed leaves no container, with whichever steps it was
\* made of (provisioner.go:466).
THEOREM Cleaned == Spec => []FailedLeavesNone
<1>1. ASSUME IInv PROVE FailedLeavesNone
  BY <1>1 DEF IInv, Fits, OwnJob, FailedLeavesNone
<1> QED
  BY Invariant, <1>1, PTL

\* What no step takes from a file: it leaves it, or what the file holds is no
\* whole content, or is in a copy.
CopiedThen(f, c) ==
  (\E b \in baks' \cup keybaks' : b.of = f /\ b.data = c) \/ \E d \in dirs' : d.data[f] = c
Spared(f) == disk'[f] = disk[f] \/ ~Whole(disk[f]) \/ CopiedThen(f, disk[f])
Stay == baks \subseteq baks' /\ keybaks \subseteq keybaks' /\ dirs \subseteq dirs'

\* Of a file that is spared nothing is lost.
LEMMA KeptSo ==
  ASSUME Stay, NEW f \in Files, Spared(f)
  PROVE  Kept(f) \subseteq Kept(f)'
<1> SUFFICES ASSUME NEW c \in Kept(f) PROVE c \in Kept(f)'
  OBVIOUS
<1>1. Whole(c) /\ (c = disk[f] \/ InCopies(f, c))
  BY DEF Kept, InCopies
<1>2. c = disk'[f] \/ CopiedThen(f, c)
  BY <1>1 DEF Spared, Stay, InCopies, CopiedThen
<1> QED
  BY <1>1, <1>2 DEF Kept, CopiedThen

\* What has been copied is spared.
LEMMA CopiedSpared ==
  ASSUME Stay, NEW f, Copied(f)
  PROVE  Spared(f)
  BY DEF Stay, Copied, InCopies, CopiedThen, Spared

\* Where each is made in a second of its own, a copy takes the place of none.
LEMMA Fresh ==
  ASSUME IInv, apart, NEW now \in Seconds
  PROVE  \A x \in baks \cup keybaks \cup dirs : x.at # now
<1>1. sec \in Nat /\ \A x \in baks \cup keybaks \cup dirs : x.at \in Nat /\ x.at <= sec
  BY DEF IInv, Orderly, Typed
<1>2. now = sec + 1
  BY Time
<1> QED
  BY <1>1, <1>2

\* A copy of a second of its own comes to the others.
LEMMA PutStays ==
  ASSUME IInv, apart, NEW now \in Seconds, NEW x, x.at = now, NEW s,
         s \subseteq baks \cup keybaks
  PROVE  s \subseteq Put(s, x) /\ x \in Put(s, x)
  BY Fresh DEF Put

\* Where the operator waits, no step takes a copy away, or a whole content that
\* is in none.
LEMMA Spares ==
  ASSUME IInv, apart, Next
  PROVE  Stay /\ \A f \in Files : Spared(f)
<1> USE DEF Stay, Spared
<1>1. ASSUME UNCHANGED <<disk, baks, keybaks, dirs>> PROVE Stay /\ \A f \in Files : Spared(f)
  BY <1>1
<1>2. ASSUME Crash PROVE Stay /\ \A f \in Files : Spared(f)
  BY <1>1, <1>2 DEF Crash
<1>3. ASSUME NEW j \in Jobs, Handler(j) PROVE Stay /\ \A f \in Files : Spared(f)
  <2>1. UNCHANGED <<disk, baks, keybaks, dirs>>
    BY <1>3 DEF Handler, HandleWriteFile, HandleMultiPush, HandleApply, HandleRestore,
         HandleConfigUpgrade, HandleConfigVersionRestore, HandleImportKey, HandleGenerateKey,
         HandleProvision, Write, Send, OnlyTheJob
  <2> QED
    BY <1>1, <2>1
<1>4. ASSUME NEW j \in Jobs, Copy(j) PROVE Stay /\ \A f \in Files : Spared(f)
  <2>1. PICK data : Save(j, data)
    BY <1>4 DEF Copy
  <2>2. PICK now \in Seconds :
          LET copy == [of |-> Head(job[j].todo), at |-> now, data |-> data] IN
          IF job[j].key THEN keybaks' = Put(keybaks, copy) /\ baks' = baks
          ELSE baks' = Put(baks, copy) /\ keybaks' = keybaks
    BY <2>1 DEF Save
  <2>3. PICK x : x = [of |-> Head(job[j].todo), at |-> now, data |-> data]
    OBVIOUS
  <2>4. x.at = now /\ IF job[j].key THEN keybaks' = Put(keybaks, x) /\ baks' = baks
                      ELSE baks' = Put(baks, x) /\ keybaks' = keybaks
    BY <2>2, <2>3
  <2>5. keybaks \subseteq Put(keybaks, x) /\ baks \subseteq Put(baks, x)
    BY <2>4, PutStays
  <2>6. UNCHANGED <<disk, dirs>>
    BY <1>4 DEF Copy
  <2> QED
    BY <2>4, <2>5, <2>6
<1>5. ASSUME NEW j \in Jobs, CopyAll(j) PROVE Stay /\ \A f \in Files : Spared(f)
  <2>1. UNCHANGED <<disk, baks, keybaks>>
    BY <1>5 DEF CopyAll
  <2>2. PICK now \in Seconds :
          {d \in dirs : d.label # job[j].kind \/ d.at # now} \subseteq dirs'
    BY <1>5 DEF CopyAll, Label
  <2>3. \A d \in dirs : d.at # now
    BY Fresh
  <2> QED
    BY <2>1, <2>2, <2>3
<1>6. ASSUME NEW j \in Jobs, Open(j) PROVE Stay /\ \A f \in Files : Spared(f)
  <2>1. job[j].pc = "open" /\ UNCHANGED <<baks, keybaks, dirs>>
    BY <1>6 DEF Open
  <2>2. PICK f \in Files : f = Head(job[j].todo) /\ In(f, job[j].todo)
    BY <2>1, Writing
  <2>3. Copied(f)
    BY <2>1, <2>2, Writing DEF Fits, OrderlyJob
  <2>4. \A g \in Files : g # f => disk'[g] = disk[g]
    BY <1>6, <2>2 DEF Open, IInv, Typed
  <2> QED
    BY <2>1, <2>3, <2>4, CopiedSpared
<1>7. ASSUME NEW j \in Jobs, Finish(j) PROVE Stay /\ \A f \in Files : Spared(f)
  <2>1. job[j].pc = "writing" /\ UNCHANGED <<baks, keybaks, dirs>>
    BY <1>7 DEF Finish
  <2>2. PICK f \in Files : f = Head(job[j].todo)
    BY <2>1, Writing
  <2>3. ~Whole(disk[f])
    <3>1. OrderlyJob(job[j])
      BY <2>1, Writing DEF Fits
    <3> QED
      BY <2>1, <2>2, <3>1, Contained DEF OrderlyJob, Writes
  <2>4. \A g \in Files : g # f => disk'[g] = disk[g]
    BY <1>7, <2>2 DEF Finish, IInv, Typed
  <2> QED
    BY <2>1, <2>3, <2>4
<1>8. ASSUME NEW j \in Jobs, DownloadConfig(j) PROVE Stay /\ \A f \in Files : Spared(f)
  <2>1. At(j, "config") /\ UNCHANGED <<baks, keybaks, dirs>>
    BY <1>8 DEF DownloadConfig
  <2>2. "config" \in Early \cup Late
    BY DEF Early
  <2>3. OrderlyJob(job[j]) /\ job[j].pc = "config"
    BY <2>1, <2>2, AtStep DEF Fits
  <2>4. \A f \in Files : ~Whole(disk[f])
    BY <2>3, Contained DEF OrderlyJob
  <2> QED
    BY <2>1, <2>4
<1>9. ASSUME NEW j \in Jobs, GenerateValidatorKey(j) PROVE Stay /\ \A f \in Files : Spared(f)
  <2>1. UNCHANGED <<baks, dirs>>
    BY <1>9 DEF GenerateValidatorKey
  <2>2. \A g \in Files : g # "key" => disk'[g] = disk[g]
    BY <1>9 DEF GenerateValidatorKey, IInv, Typed
  <2>3. CASE UNCHANGED keybaks /\ (disk["key"] = None \/ UNCHANGED disk)
    BY <2>1, <2>2, <2>3, Contained
  <2>4. CASE \E now \in Seconds :
               keybaks' = Put(keybaks, [of |-> "key", at |-> now, data |-> disk["key"]])
    <3>1. PICK now \in Seconds :
            keybaks' = Put(keybaks, [of |-> "key", at |-> now, data |-> disk["key"]])
      BY <2>4
    <3>2. PICK x : x = [of |-> "key", at |-> now, data |-> disk["key"]]
      OBVIOUS
    <3>3. x.of = "key" /\ x.at = now /\ x.data = disk["key"]
      BY <3>2
    <3>4. keybaks \subseteq keybaks' /\ x \in keybaks'
      BY <3>1, <3>2, <3>3, PutStays
    <3>5. CopiedThen("key", disk["key"])
      BY <3>3, <3>4 DEF CopiedThen
    <3> QED
      BY <2>1, <2>2, <3>4, <3>5
  <2> QED
    BY <1>9, <2>3, <2>4 DEF GenerateValidatorKey
<1>10. ASSUME NEW j \in Jobs, Command(j) PROVE Stay /\ \A f \in Files : Spared(f)
  <2>1. \/ UNCHANGED <<disk, baks, keybaks, dirs>>
        \/ Copy(j) \/ CopyAll(j) \/ Open(j) \/ Finish(j)
    BY <1>10 DEF Command, ReadConfig, WriteConfig, RestoreConfig, ImportKey, GenerateKey, Stat,
         ReadUserValues, DownloadConfigs, ReadEntries, RestartContainer, OnlyTheJob
  <2> QED
    BY <1>1, <1>4, <1>5, <1>6, <1>7, <2>1
<1>11. ASSUME NEW j \in Jobs, Provision(j) PROVE Stay /\ \A f \in Files : Spared(f)
  <2>1. \/ UNCHANGED <<disk, baks, keybaks, dirs>>
        \/ DownloadConfig(j) \/ GenerateValidatorKey(j)
    BY <1>11 DEF Provision, Preflight, PullImage, CreateDirs, DownloadFullDB, SetPermissions,
         CreateContainer, StartContainer, Verify, RemoveContainer, Ordinary, OnlyTheJob
  <2> QED
    BY <1>1, <1>8, <1>9, <2>1
<1> QED
  BY <1>2, <1>3, <1>10, <1>11 DEF Next

\* Where the operator waits, what a file has ever held whole is still there or
\* in a copy (config_ops.go:93-102, key_ops.go:190-199, config_upgrade.go:56).
THEOREM Preserved == Spec => NothingLost
<1>1. ASSUME IInv, [Next]_vars, apart, NEW f \in Files PROVE Kept(f) \subseteq Kept(f)'
  <2>1. CASE UNCHANGED vars
    BY <2>1 DEF vars, Kept
  <2>2. CASE Next
    BY <1>1, <2>2, Spares, KeptSo
  <2> QED
    BY <1>1, <2>1, <2>2
<1>2. IInv /\ [Next]_vars => [apart => \A f \in Files : Kept(f) \subseteq Kept(f)']_vars
  BY <1>1
<1> QED
  BY Invariant, <1>2, PTL DEF Spec, NothingLost
=============================================================================
