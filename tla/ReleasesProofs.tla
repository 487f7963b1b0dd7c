---------------------------- MODULE ReleasesProofs ----------------------------
(***************************************************************************)
(* Proofs about Releases: what lies at the path of an agent's executable,  *)
(* and what an operator is told of an update.                              *)
(***************************************************************************)
EXTENDS Releases, FiniteSetTheorems, WellFoundedInduction, TLAPS

Blobs == Contents \cup {None}

DlSet == [pc : {"idle", "write", "index"}, ver : Versions \cup {None},
          data : Builds \cup {None}]

ReqSet == [kind : {"none", "update", "restart"},
           pc : {"new", "next", "read", "send", "wait", "end"},
           want : Versions \cup {None}, todo : Seq(Servers),
           ver : Versions \cup {None}, sum : Builds \cup {None}, data : Blobs]

Pcs == {"none", "sent", "fetch", "serve", "verify", "write", "writing", "rename",
        "undo", "undoing", "restart", "result", "drain", "gone"}

JobSet == [kind : {"none", "update", "restart"}, pc : Pcs,
           sum : Builds \cup {None}, ver : Versions \cup {None}, data : Blobs,
           hand : {"none", "tmp", "exe", "lost"}, heard : BOOLEAN, ok : BOOLEAN,
           res : {"none", "queued", "writing"}]

Typed ==
  /\ files \in [Versions -> Blobs]
  /\ entries \in Entries /\ (index = Torn \/ index \in Entries)
  /\ dl \in DlSet /\ uploads \in 0 .. MaxUploads
  /\ req \in [Reqs -> ReqSet]
  /\ told \in [Jobs -> {"none", "ok", "failed"}]
  /\ tokens \subseteq Jobs
  /\ link \in [Servers -> BOOLEAN] /\ cap \in [Servers -> BOOLEAN]
  /\ job \in [Jobs -> JobSet]
  /\ exe \in [Servers -> Contents] /\ running \in [Servers -> Contents]
  /\ tmp \in [Servers -> Blobs] /\ backup \in [Servers -> Blobs]
  /\ busy \in [Servers -> BOOLEAN]
  /\ installed \in [Servers -> SUBSET Blobs]
  /\ overlapped \subseteq Servers
  /\ row \in [Servers -> Builds \cup {None}]
  /\ info \in [Servers -> Builds \cup {None}]
  /\ signed \subseteq Servers

\* The store: what is known has a file, in memory and in the index, and no
\* entry is newer than the number of binaries that were stored.
Shelves ==
  /\ dl.pc # "idle" => dl.ver \in Versions /\ dl.data \in Builds
  /\ dl.pc = "write" => uploads > 0
  /\ \A v \in Versions :
       /\ entries[v] # None =>
            /\ files[v] # None
            /\ entries[v].at <= uploads
            /\ dl.pc = "write" => entries[v].at < uploads
       /\ index # Torn /\ index[v] # None =>
            files[v] # None /\ index[v].at <= uploads

\* The servers that request q has still to speak to.
Ahead(q) == IF req[q].pc = "wait" THEN 2 .. Len(req[q].todo)
            ELSE 1 .. Len(req[q].todo)

\* A request goes over its servers once: of those ahead of it nothing is told
\* yet, and they have been sent nothing for it.
Loop(q) ==
  /\ req[q].todo = <<>> <=> req[q].pc \in {"new", "end"}
  /\ \A m, n \in 1 .. Len(req[q].todo) : req[q].todo[m] = req[q].todo[n] => m = n
  /\ \A n \in 1 .. Len(req[q].todo) : told[<<q, req[q].todo[n]>>] = "none"
  /\ \A n \in Ahead(q) : job[<<q, req[q].todo[n]>>].kind = "none"
  /\ req[q].pc = "new" =>
       \A s \in Servers : told[<<q, s>>] = "none" /\ job[<<q, s>>].kind = "none"
  /\ req[q].todo # <<>> => req[q].kind \in {"update", "restart"}
  /\ req[q].pc = "read" => req[q].ver \in Versions /\ req[q].kind = "update"
  /\ req[q].pc \in {"read", "send"} /\ req[q].kind = "update" => req[q].sum \in Builds

\* A command.
Deed(j) ==
  /\ job[j].kind = "none" <=> job[j].pc = "none"
  /\ j \in tokens => job[j].kind = "update"
  /\ job[j].kind = "update" => job[j].sum \in Builds /\ job[j].pc # "restart"
  /\ job[j].kind = "restart" => job[j].pc \in {"sent", "restart", "result", "drain", "gone"}
  /\ job[j].pc \in {"write", "writing", "rename"} => job[j].data = job[j].sum
  /\ job[j].pc = "serve" => job[j].ver \in Versions
  /\ job[j].ok => job[j].pc \in {"result", "drain"}
  /\ job[j].pc \in {"write", "writing", "rename", "undo", "undoing"} =>
       backup[j[2]] \in Contents

Active(j) == job[j].kind = "update" /\ job[j].pc \notin {"none", "gone"}

\* What is so at a server that has been given one update after the other: the
\* executable may be written again only when the agent that runs it is one
\* that has just replaced it, and has nothing left to do but to restart.
Orderly(s) ==
  /\ \A i \in At(s), j \in At(s) : Active(i) /\ Active(j) => i = j
  /\ exe[s] \in Announced(s)
  /\ \A j \in At(s) :
       /\ job[j].pc # "undoing"
       /\ job[j].pc = "writing" => job[j].hand = "tmp"
       /\ job[j].pc = "rename" => tmp[s] = job[j].sum
       /\ job[j].kind = "update" /\ job[j].ok => job[j].sum \in installed[s]
       /\ job[j].kind = "update" /\ told[j] = "ok" => job[j].sum \in installed[s]
  /\ ~busy[s] => \E j \in At(s) :
                   Active(j) /\ job[j].ok /\ job[j].pc \in {"result", "drain"}

IInv ==
  /\ Typed /\ Shelves
  /\ \A q \in Reqs : Loop(q)
  /\ \A j \in Jobs : Deed(j)
  /\ \A s \in Servers \ overlapped : Orderly(s)

-----------------------------------------------------------------------------
(* The operators.                                                          *)

\* A nonempty set of numbers up to k has a largest one.
LEMMA Largest ==
  ASSUME NEW k \in Nat, NEW S, S \subseteq 0 .. k, S # {}
  PROVE  \E n \in S : \A m \in S : m <= n
<1> DEFINE T == {k - n : n \in S}
<1>1. T \subseteq Nat /\ T # {}
  <2>1. \A n \in S : n \in 0 .. k /\ k - n \in Nat
    OBVIOUS
  <2>2. PICK n \in S : TRUE
    OBVIOUS
  <2>3. k - n \in T
    OBVIOUS
  <2> QED
    BY <2>1, <2>3
<1>2. PICK x \in T : \A y \in T : ~ (<<y, x>> \in OpToRel(<, Nat))
  BY <1>1, NatLessThanWellFounded, WFMin
<1>3. PICK n \in S : x = k - n
  OBVIOUS
<1>4. \A m \in S : m <= n
  <2> SUFFICES ASSUME NEW m \in S, n < m PROVE FALSE
    OBVIOUS
  <2>1. k - m \in T
    OBVIOUS
  <2>2. k - m \in Nat /\ k - n \in Nat /\ k - m < k - n
    OBVIOUS
  <2>3. <<k - m, k - n>> \in OpToRel(<, Nat)
    <3> DEFINE u == k - m  v == k - n
    <3>1. u \in Nat /\ v \in Nat /\ u < v
      BY <2>2
    <3> HIDE DEF u, v
    <3>2. <<u, v>> \in Nat \X Nat /\ <<u, v>>[1] < <<u, v>>[2]
      BY <3>1
    <3>3. <<u, v>> \in OpToRel(<, Nat)
      BY <3>2, Zenon DEF OpToRel
    <3> QED
      BY <3>3 DEF u, v
  <2> QED
    BY <1>2, <1>3, <2>1, <2>3
<1> QED
  BY <1>4

\* The servers as a sequence: each of them once.
LEMMA AllServers ==
  ASSUME ReleasesAssumption
  PROVE  /\ SetToSeq(Servers) \in Seq(Servers)
         /\ SetToSeq(Servers) # <<>>
         /\ \A m, n \in 1 .. Len(SetToSeq(Servers)) :
              SetToSeq(Servers)[m] = SetToSeq(Servers)[n] => m = n
<1> DEFINE c == Cardinality(Servers)
           f == SetToSeq(Servers)
<1>1. c \in Nat /\ ExistsBijection(1 .. c, Servers)
  BY FS_CardinalityType DEF ReleasesAssumption
<1>2. \E g \in [1 .. c -> Servers] : IsInjective(g)
  BY <1>1 DEF ExistsBijection, Bijection, Injection, IsInjective
<1>3. f \in [1 .. c -> Servers] /\ IsInjective(f)
  BY <1>2 DEF SetToSeq
<1>4. c # 0
  BY FS_EmptySet DEF ReleasesAssumption
<1>5. f \in Seq(Servers) /\ Len(f) = c
  BY <1>1, <1>3
<1>6. DOMAIN f = 1 .. c
  BY <1>3
<1> QED
  BY <1>1, <1>3, <1>4, <1>5, <1>6 DEF IsInjective

-----------------------------------------------------------------------------
(* What a step of one command keeps.                                       *)

\* A job is a request and a server.
LEMMA Pairs ==
  /\ \A j \in Jobs : j[1] \in Reqs /\ j[2] \in Servers /\ j = <<j[1], j[2]>>
  /\ \A q \in Reqs, s \in Servers : <<q, s>> \in Jobs /\ <<q, s>>[2] = s
  /\ \A s \in Servers : At(s) \subseteq Jobs /\ \A j \in At(s) : j[2] = s
  /\ \A j \in Jobs : j \in At(j[2])
BY DEF Jobs, At

\* The other commands are what they were, and so is what this one announced.
LEMMA OneJob ==
  ASSUME IInv, NEW j \in Jobs, NEW k \in JobSet, job' = [job EXCEPT ![j] = k],
         k.kind = job[j].kind, k.sum = job[j].sum, UNCHANGED <<storeVars, req, told>>,
         tokens' \subseteq tokens, Deed(j)',
         \A s \in Servers : backup[s] \in Contents => backup'[s] \in Contents
  PROVE  /\ job' \in [Jobs -> JobSet]
         /\ Shelves'
         /\ \A q \in Reqs : Loop(q)'
         /\ \A i \in Jobs : Deed(i)'
<1>1. job \in [Jobs -> JobSet] /\ job' \in [Jobs -> JobSet]
  BY DEF IInv, Typed
<1>2. job'[j] = k /\ \A i \in Jobs : i # j => job'[i] = job[i]
  BY <1>1
<1>3. \A i \in Jobs : job'[i].kind = job[i].kind
  BY <1>2
<1>4. Shelves'
  BY DEF IInv, Shelves, storeVars
<1>5. ASSUME NEW q \in Reqs PROVE Loop(q)'
  <2>1. Loop(q) /\ req' = req /\ told' = told
    BY DEF IInv
  <2>2. req[q].todo \in Seq(Servers)
    BY DEF IInv, Typed, ReqSet
  <2>3. \A n \in 1 .. Len(req[q].todo) : <<q, req[q].todo[n]>> \in Jobs
    BY <2>2, Pairs
  <2>4. Ahead(q)' = Ahead(q) /\ Ahead(q) \subseteq 1 .. Len(req[q].todo)
    BY <2>1, <2>2 DEF Ahead
  <2>5. \A n \in Ahead(q) : job'[<<q, req[q].todo[n]>>].kind = "none"
    BY <1>3, <2>1, <2>3, <2>4 DEF Loop
  <2>6. req[q].pc = "new" => \A s \in Servers : job'[<<q, s>>].kind = "none"
    BY <1>3, <2>1, Pairs DEF Loop
  <2> QED
    BY <2>1, <2>4, <2>5, <2>6 DEF Loop
<1>6. ASSUME NEW i \in Jobs, i # j PROVE Deed(i)'
  BY <1>2, <1>6, Pairs DEF IInv, Deed
<1> QED
  BY <1>1, <1>4, <1>5, <1>6

\* An agent's commands announce what they announced.
LEMMA SameAnnounced ==
  ASSUME NEW s \in Servers,
         \A i \in At(s) : job'[i].kind = job[i].kind /\ job'[i].sum = job[i].sum
  PROVE  Announced(s)' = Announced(s)
BY Pairs DEF Announced, At

\* A server at which nothing has happened.
LEMMA SameServer ==
  ASSUME NEW s \in Servers, Orderly(s),
         \A i \in At(s) : job'[i] = job[i] /\ told'[i] = told[i],
         exe'[s] = exe[s], tmp'[s] = tmp[s], busy'[s] = busy[s], installed'[s] = installed[s]
  PROVE  Orderly(s)'
<1>1. Announced(s)' = Announced(s)
  BY SameAnnounced
<1>2. At(s)' = At(s)
  BY DEF At
<1>3. \A i \in At(s) : Active(i)' <=> Active(i)
  BY DEF Active
<1> QED
  BY <1>1, <1>2, <1>3 DEF Orderly

\* A command makes a step at a server.
LEMMA OneOrder ==
  ASSUME IInv, NEW j \in Jobs, j[2] \notin overlapped,
         NEW k \in JobSet, job' = [job EXCEPT ![j] = k],
         k.kind = job[j].kind, k.sum = job[j].sum, 
         k.kind = "update" /\ k.pc \notin {"none", "gone"} => Active(j),
         exe'[j[2]] = exe[j[2]], busy'[j[2]] = busy[j[2]], installed' = installed,
         \A i \in Jobs : told'[i] = "ok" => told[i] = "ok" \/ (i = j /\ job[j].ok),
         tmp'[j[2]] = tmp[j[2]] \/ Active(j),
         k.pc # "undoing", k.pc = "writing" => k.hand = "tmp",
         k.pc = "rename" => tmp'[j[2]] = k.sum,
         k.kind = "update" /\ k.ok => job[j].ok,
         job[j].ok /\ Active(j) /\ job[j].pc \in {"result", "drain"} =>
           k.ok /\ k.pc \in {"result", "drain"}
  PROVE  Orderly(j[2])'
<1> DEFINE s == j[2]
<1>1. s \in Servers /\ j \in At(s) /\ At(s)' = At(s) /\ At(s) \subseteq Jobs
  BY Pairs DEF At
<1>2. job'[j] = k /\ \A i \in Jobs : i # j => job'[i] = job[i]
  BY DEF IInv, Typed
<1>3. Orderly(s) /\ \A i \in Jobs : Deed(i)
  BY <1>1 DEF IInv
<1>4. Announced(s)' = Announced(s)
  BY <1>1, <1>2, SameAnnounced
<1>5. \A i \in At(s) : Active(i)' => Active(i)
  BY <1>1, <1>2 DEF Active
<1>6. ASSUME NEW i \in At(s), job[i].pc = "rename" PROVE Active(i)
  <2>1. job[i].kind \in {"none", "update", "restart"}
    BY <1>1 DEF IInv, Typed, JobSet
  <2> QED
    BY <1>1, <1>3, <1>6, <2>1 DEF Deed, Active
<1>7. ASSUME NEW m \in At(s), NEW n \in At(s), Active(m)', Active(n)' PROVE m = n
  <2>1. Active(m) /\ Active(n)
    BY <1>5, <1>7
  <2> QED
    BY <1>3, <2>1 DEF Orderly
<1>8. exe'[s] \in Announced(s)'
  BY <1>3, <1>4 DEF Orderly
<1>9. ASSUME NEW i \in At(s)
      PROVE  /\ job'[i].pc # "undoing"
             /\ job'[i].pc = "writing" => job'[i].hand = "tmp"
             /\ job'[i].pc = "rename" => tmp'[s] = job'[i].sum
             /\ job'[i].kind = "update" /\ job'[i].ok => job'[i].sum \in installed'[s]
             /\ job'[i].kind = "update" /\ told'[i] = "ok" => job'[i].sum \in installed'[s]
  <2>1. CASE i = j
    BY <1>1, <1>2, <1>3, <2>1 DEF Orderly
  <2>2. CASE i # j
    <3>1. job[i].pc = "rename" => tmp'[s] = tmp[s]
      BY <1>1, <1>3, <1>6, <2>2 DEF Orderly
    <3>2. job'[i] = job[i] /\ (told'[i] = "ok" => told[i] = "ok")
      BY <1>1, <1>2, <2>2
    <3> QED
      BY <1>3, <3>1, <3>2 DEF Orderly
  <2> QED
    BY <2>1, <2>2
<1>10. ASSUME ~busy'[s]
       PROVE  \E i \in At(s) : Active(i)' /\ job'[i].ok /\ job'[i].pc \in {"result", "drain"}
  <2>1. PICK i \in At(s) : Active(i) /\ job[i].ok /\ job[i].pc \in {"result", "drain"}
    BY <1>3, <1>10 DEF Orderly
  <2>2. CASE i = j
    <3>1. job'[i].ok /\ job'[i].pc \in {"result", "drain"} /\ job'[i].kind = job[i].kind
      BY <1>2, <2>1, <2>2
    <3> QED
      BY <2>1, <3>1 DEF Active
  <2>3. CASE i # j
    BY <1>1, <1>2, <2>1, <2>3 DEF Active
  <2> QED
    BY <2>2, <2>3
<1> QED
  BY <1>1, <1>7, <1>8, <1>9, <1>10 DEF Orderly

\* ... and the other servers are as they were.
LEMMA OneOrders ==
  ASSUME IInv, NEW j \in Jobs, NEW k \in JobSet, job' = [job EXCEPT ![j] = k],
         overlapped' = overlapped, installed' = installed,
         \A i \in Jobs : i[2] # j[2] => told'[i] = told[i],
         \A s \in Servers : s # j[2] => /\ exe'[s] = exe[s] /\ tmp'[s] = tmp[s]
                                        /\ busy'[s] = busy[s],
         j[2] \notin overlapped => Orderly(j[2])'
  PROVE  \A s \in Servers \ overlapped' : Orderly(s)'
<1> SUFFICES ASSUME NEW s \in Servers \ overlapped, s # j[2]
             PROVE  Orderly(s)'
  OBVIOUS
<1>1. \A i \in At(s) : job'[i] = job[i] /\ told'[i] = told[i]
  BY Pairs DEF IInv, Typed
<1> QED
  BY <1>1, SameServer DEF IInv

-----------------------------------------------------------------------------
(* The steps of a command that change its own record only.                 *)

\* What the failure of a command makes of it.
Failed(j) == [job[j] EXCEPT !.pc = "result", !.ver = None, !.data = None, !.hand = "none"]

\* A failure ends the command and claims nothing.
LEMMA FailsOne ==
  ASSUME IInv, NEW j \in Jobs, Fails(j)
  PROVE  /\ Failed(j) \in JobSet /\ job' = [job EXCEPT ![j] = Failed(j)]
         /\ Failed(j).pc = "result"
         /\ Failed(j).kind = job[j].kind /\ Failed(j).sum = job[j].sum
         /\ Failed(j).ok = job[j].ok
<1>1. job \in [Jobs -> JobSet] /\ job[j] \in JobSet
  BY DEF IInv, Typed
<1>2. Failed(j) \in JobSet
  BY <1>1 DEF JobSet, Pcs, Failed, Blobs
<1> QED
  BY <1>1, <1>2 DEF Fails, Failed, JobSet

\* What a command does apart from its own record: nothing at the agent, or the
\* copy of the binary.
Apart == UNCHANGED <<storeVars, req, told, netVars, exe, tmp, running, busy, installed,
                     overlapped, rowVars>>

\* The steps before the binary is touched, and those after.
LEMMA QuietStep ==
  ASSUME IInv, NEW j \in Jobs, NEW k \in JobSet, job' = [job EXCEPT ![j] = k], Apart,
         tokens' \subseteq tokens, backup' \in [Servers -> Blobs],
         \A s \in Servers : backup[s] \in Contents => backup'[s] \in Contents,
         k.kind = job[j].kind, k.sum = job[j].sum,
         job[j].pc \notin {"none", "gone"}, k.pc # "none",
         k.pc \notin {"undoing", "writing", "rename"},
         k.kind = "update" => k.pc # "restart",
         k.kind = "restart" => k.pc \in {"restart", "result", "drain", "gone"},
         k.pc = "write" => k.data = k.sum /\ backup'[j[2]] \in Contents,
         k.pc # "undo",
         k.pc = "serve" => k.ver \in Versions,
         k.kind = "update" /\ k.ok => job[j].ok,
         job[j].ok => k.ok, k.ok => k.pc \in {"result", "drain"}
  PROVE  IInv'
<1> USE DEF Apart
<1>1. job'[j] = k
  BY DEF IInv, Typed
<1>2. Deed(j) /\ Deed(j)'
  BY <1>1 DEF IInv, Deed
<1>3. /\ job' \in [Jobs -> JobSet] /\ Shelves'
      /\ \A q \in Reqs : Loop(q)'
      /\ \A i \in Jobs : Deed(i)'
  BY <1>2, OneJob
<1>4. Typed'
  BY <1>3 DEF IInv, Typed, storeVars, netVars, rowVars
<1>5. k.kind = "update" /\ k.pc \notin {"none", "gone"} => Active(j)
  BY DEF Active
<1>6. j[2] \notin overlapped => Orderly(j[2])'
  BY <1>5, OneOrder DEF netVars
<1>7. \A s \in Servers \ overlapped' : Orderly(s)'
  BY <1>6, OneOrders
<1> QED
  BY <1>3, <1>4, <1>7 DEF IInv

\* A failure is such a step, wherever the command has got to.
LEMMA QuietFailure ==
  ASSUME IInv, NEW j \in Jobs, Fails(j), Apart, tokens' \subseteq tokens,
         backup' \in [Servers -> Blobs],
         \A s \in Servers : backup[s] \in Contents => backup'[s] \in Contents,
         job[j].pc \notin {"none", "gone", "drain"}
  PROVE  IInv'
BY FailsOne, QuietStep

\* A command that is at an agent is not over.
LEMMA ReceiveStep ==
  ASSUME IInv, NEW j \in Jobs, Receive(j) PROVE IInv'
<1> DEFINE to == IF job[j].kind = "restart" THEN "restart"
                 ELSE IF j \in tokens THEN "fetch" ELSE "verify"
           k == [job[j] EXCEPT !.pc = to]
<1>1. job[j] \in JobSet /\ Deed(j) /\ job[j].pc = "sent" /\ job' = [job EXCEPT ![j] = k]
  BY DEF IInv, Typed, Receive, Step
<1>6. ~job[j].ok
  BY <1>1 DEF Deed
<1>2. to \in {"restart", "fetch", "verify"} /\ (to = "restart" <=> job[j].kind = "restart")
  OBVIOUS
<1>3. k \in JobSet
  BY <1>1, <1>2 DEF JobSet, Pcs
<1>4. k.pc = to /\ k.kind = job[j].kind /\ k.sum = job[j].sum /\ k.ok = job[j].ok
  BY <1>1 DEF JobSet
<1>5. Apart /\ tokens' = tokens /\ backup' = backup /\ backup \in [Servers -> Blobs]
  BY DEF Receive, Apart, opVars, binVars, IInv, Typed
<1> HIDE DEF to, k
<1> QED
  BY <1>1, <1>2, <1>3, <1>4, <1>5, <1>6, QuietStep

\* A download begins, or fails.
LEMMA DownloadStep ==
  ASSUME IInv, NEW j \in Jobs, Download(j) PROVE IInv'
<1> DEFINE k == [job[j] EXCEPT !.pc = "serve"]
<1>1. job[j] \in JobSet /\ Deed(j) /\ job[j].pc = "fetch" /\ ~job[j].ok
  BY DEF IInv, Typed, Download, Deed
<1>2. Apart /\ tokens' \subseteq tokens /\ backup' = backup /\ backup \in [Servers -> Blobs]
  BY DEF Download, Apart, binVars, IInv, Typed
<1>3. CASE /\ j \in tokens /\ job[j].ver \in Known
           /\ job' = [job EXCEPT ![j].pc = "serve"]
  <2>1. job' = [job EXCEPT ![j] = k] /\ job[j].ver \in Versions /\ job[j].kind = "update"
    BY <1>1, <1>3 DEF Known, Deed
  <2>2. k \in JobSet
    BY <1>1 DEF JobSet, Pcs
  <2>3. /\ k.pc = "serve" /\ k.kind = job[j].kind /\ k.sum = job[j].sum
        /\ k.ok = job[j].ok /\ k.ver = job[j].ver
    BY <1>1 DEF JobSet
  <2> HIDE DEF k
  <2> QED
    BY <1>1, <1>2, <2>1, <2>2, <2>3, QuietStep
<1>4. CASE Fails(j)
  BY <1>1, <1>2, <1>4, QuietFailure
<1> QED
  BY <1>3, <1>4 DEF Download

\* What is served is what the store's file is by now.
LEMMA ServeStep ==
  ASSUME IInv, NEW j \in Jobs, Serve(j) PROVE IInv'
<1> DEFINE k == [job[j] EXCEPT !.pc = "verify", !.data = files[job[j].ver], !.ver = None]
<1>1. job[j] \in JobSet /\ Deed(j) /\ job[j].pc = "serve" /\ ~job[j].ok
  BY DEF IInv, Typed, Serve, Deed
<1>2. Apart /\ tokens' = tokens /\ backup' = backup /\ backup \in [Servers -> Blobs]
  BY DEF Serve, Apart, opVars, binVars, IInv, Typed
<1>3. CASE job' = [job EXCEPT ![j].pc = "verify", ![j].data = files[job[j].ver],
                              ![j].ver = None]
  <2>1. job' = [job EXCEPT ![j] = k] /\ files[job[j].ver] \in Blobs /\ job[j].kind # "restart"
    BY <1>1, <1>3 DEF Deed, IInv, Typed
  <2>2. k \in JobSet
    BY <1>1, <2>1 DEF JobSet, Pcs
  <2>3. /\ k.pc = "verify" /\ k.kind = job[j].kind /\ k.sum = job[j].sum
        /\ k.ok = job[j].ok
    BY <1>1 DEF JobSet
  <2> HIDE DEF k
  <2> QED
    BY <1>1, <1>2, <2>1, <2>2, <2>3, QuietStep
<1>4. CASE Fails(j)
  BY <1>1, <1>2, <1>4, QuietFailure
<1> QED
  BY <1>3, <1>4 DEF Serve

\* The bytes are those that were announced, or that is the end of it.
LEMMA VerifyStep ==
  ASSUME IInv, NEW j \in Jobs, Verify(j) PROVE IInv'
<1> DEFINE k == [job[j] EXCEPT !.pc = "write"]
<1>1. job[j] \in JobSet /\ Deed(j) /\ job[j].pc = "verify" /\ ~job[j].ok
  BY DEF IInv, Typed, Verify, Deed
<1>2. Apart /\ tokens' = tokens
  BY DEF Verify, Apart, opVars, binVars
<1>3. backup \in [Servers -> Blobs] /\ exe \in [Servers -> Contents] /\ j[2] \in Servers
  BY Pairs DEF IInv, Typed
<1>4. /\ backup' \in [Servers -> Blobs]
      /\ \A s \in Servers : backup[s] \in Contents => backup'[s] \in Contents
  <2>1. exe[j[2]] \in Blobs
    BY <1>3 DEF Blobs
  <2> QED
    BY <1>3, <2>1 DEF Verify
<1>5. CASE /\ job[j].data = job[j].sum
           /\ job' = [job EXCEPT ![j].pc = "write"]
           /\ backup' = [backup EXCEPT ![j[2]] = exe[j[2]]]
  <2>1. job' = [job EXCEPT ![j] = k] /\ job[j].kind # "restart"
    BY <1>1, <1>5 DEF Deed
  <2>2. k \in JobSet
    BY <1>1 DEF JobSet, Pcs
  <2>3. /\ k.pc = "write" /\ k.kind = job[j].kind /\ k.sum = job[j].sum
        /\ k.ok = job[j].ok /\ k.data = job[j].data
    BY <1>1 DEF JobSet
  <2>4. backup'[j[2]] \in Contents
    BY <1>3, <1>5
  <2> HIDE DEF k
  <2> QED
    BY <1>1, <1>2, <1>4, <1>5, <2>1, <2>2, <2>3, <2>4, QuietStep
<1>6. CASE Fails(j)
  BY <1>1, <1>2, <1>4, <1>6, QuietFailure
<1> QED
  BY <1>5, <1>6 DEF Verify

\* A restart is announced as done before it is.
LEMMA RestartCommandStep ==
  ASSUME IInv, NEW j \in Jobs, RestartCommand(j) PROVE IInv'
<1> DEFINE k == [job[j] EXCEPT !.pc = "result", !.ok = TRUE]
<1>1. job[j] \in JobSet /\ Deed(j) /\ job[j].pc = "restart" /\ job' = [job EXCEPT ![j] = k]
  BY DEF IInv, Typed, RestartCommand
<1>2. k \in JobSet
  BY <1>1 DEF JobSet, Pcs
<1>3. /\ k.pc = "result" /\ k.kind = job[j].kind /\ k.sum = job[j].sum /\ k.ok = TRUE
      /\ job[j].kind # "update"
  BY <1>1 DEF JobSet, Deed
<1>4. Apart /\ tokens' = tokens /\ backup' = backup /\ backup \in [Servers -> Blobs]
  BY DEF RestartCommand, Apart, opVars, binVars, IInv, Typed
<1> HIDE DEF k
<1> QED
  BY <1>1, <1>2, <1>3, <1>4, QuietStep

\* The result is queued: a success has the restart before it, a failure is over.
LEMMA ResultStep ==
  ASSUME IInv, NEW j \in Jobs, Result(j) PROVE IInv'
<1> DEFINE to == IF job[j].ok THEN "drain" ELSE "gone"
           out == IF job[j].heard THEN "queued" ELSE "none"
           k == [job[j] EXCEPT !.pc = to, !.res = out]
<1>1. job[j] \in JobSet /\ Deed(j) /\ job[j].pc = "result" /\ job' = [job EXCEPT ![j] = k]
  BY DEF IInv, Typed, Result
<1>2. to \in {"drain", "gone"} /\ out \in {"queued", "none"} /\ (job[j].ok => to = "drain")
  OBVIOUS
<1>3. k \in JobSet
  BY <1>1, <1>2 DEF JobSet, Pcs
<1>4. /\ k.pc = to /\ k.kind = job[j].kind /\ k.sum = job[j].sum /\ k.ok = job[j].ok
  BY <1>1 DEF JobSet
<1>5. Apart /\ tokens' = tokens /\ backup' = backup /\ backup \in [Servers -> Blobs]
  BY DEF Result, Apart, opVars, binVars, IInv, Typed
<1> HIDE DEF to, k, out
<1> QED
  BY <1>1, <1>2, <1>3, <1>4, <1>5, QuietStep

\* The writer takes a result from the queue.
LEMMA WriteResultStep ==
  ASSUME IInv, NEW j \in Jobs, WriteResult(j) PROVE IInv'
<1> DEFINE k == [job[j] EXCEPT !.res = "writing"]
<1>1. job[j] \in JobSet /\ Deed(j) /\ job' = [job EXCEPT ![j] = k]
  BY DEF IInv, Typed, WriteResult
<1>2. k \in JobSet
  BY <1>1 DEF JobSet
<1>3. /\ k.kind = job[j].kind /\ k.sum = job[j].sum /\ k.ok = job[j].ok /\ k.pc = job[j].pc
      /\ k.data = job[j].data /\ k.ver = job[j].ver /\ k.hand = job[j].hand
  BY <1>1 DEF JobSet
<1>4. Apart /\ tokens' = tokens /\ backup' = backup
  BY DEF WriteResult, Apart, opVars, binVars
<1> HIDE DEF k
<1>5. job'[j] = k
  BY <1>1 DEF IInv, Typed
<1>6. Deed(j)'
  BY <1>1, <1>3, <1>4, <1>5 DEF Deed
<1>7. /\ job' \in [Jobs -> JobSet] /\ Shelves'
      /\ \A q \in Reqs : Loop(q)'
      /\ \A i \in Jobs : Deed(i)'
  BY <1>1, <1>2, <1>3, <1>4, <1>6, OneJob DEF Apart
<1>8. Typed'
  BY <1>4, <1>7 DEF Apart, IInv, Typed, storeVars, netVars, rowVars
<1>9. ASSUME j[2] \notin overlapped PROVE Orderly(j[2])'
  <2>1. Orderly(j[2]) /\ j \in At(j[2])
    BY <1>9, Pairs DEF IInv
  <2>2. /\ k.kind = "update" /\ k.pc \notin {"none", "gone"} => Active(j)
        /\ k.pc # "undoing" /\ (k.pc = "writing" => k.hand = "tmp")
        /\ (k.pc = "rename" => tmp[j[2]] = k.sum)
    BY <1>3, <2>1 DEF Active, Orderly
  <2> QED
    BY <1>1, <1>2, <1>3, <1>4, <1>9, <2>2, OneOrder DEF Apart
<1>10. \A s \in Servers \ overlapped' : Orderly(s)'
  BY <1>1, <1>2, <1>4, <1>9, OneOrders DEF Apart
<1> QED
  BY <1>7, <1>8, <1>10 DEF IInv

\* The file beside the executable is opened, and what it held is gone.
LEMMA OpenTmpStep ==
  ASSUME IInv, NEW j \in Jobs, OpenTmp(j) PROVE IInv'
<1> DEFINE k == [job[j] EXCEPT !.pc = "writing", !.hand = "tmp"]
<1>1. /\ job[j] \in JobSet /\ Deed(j) /\ job[j].pc = "write" /\ job' = [job EXCEPT ![j] = k]
      /\ ~job[j].ok /\ job[j].kind = "update"
  BY DEF IInv, Typed, OpenTmp, Deed, JobSet
<1>2. k \in JobSet
  BY <1>1 DEF JobSet, Pcs
<1>3. /\ k.kind = job[j].kind /\ k.sum = job[j].sum /\ k.ok = job[j].ok /\ k.pc = "writing"
      /\ k.data = job[j].data /\ k.hand = "tmp"
  BY <1>1 DEF JobSet
<1>4. UNCHANGED <<storeVars, opVars, netVars, exe, backup, running, busy, installed,
                  overlapped, rowVars>>
  BY DEF OpenTmp
<1>5. tmp' \in [Servers -> Blobs] /\ \A s \in Servers : s # j[2] => tmp'[s] = tmp[s]
  BY Pairs DEF OpenTmp, IInv, Typed, Blobs, Contents
<1> HIDE DEF k
<1>6. Deed(j)'
  <2>1. job'[j] = k
    BY <1>1 DEF IInv, Typed
  <2> QED
    BY <1>1, <1>3, <1>4, <2>1 DEF Deed, opVars
<1>7. /\ job' \in [Jobs -> JobSet] /\ Shelves'
      /\ \A q \in Reqs : Loop(q)'
      /\ \A i \in Jobs : Deed(i)'
  BY <1>1, <1>2, <1>3, <1>4, <1>6, OneJob DEF opVars
<1>8. Typed'
  BY <1>4, <1>5, <1>7 DEF IInv, Typed, storeVars, netVars, rowVars, opVars
<1>9. ASSUME j[2] \notin overlapped PROVE Orderly(j[2])'
  <2>1. Active(j)
    BY <1>1 DEF Active
  <2> QED
    BY <1>1, <1>2, <1>3, <1>4, <1>9, <2>1, OneOrder DEF opVars
<1>10. \A s \in Servers \ overlapped' : Orderly(s)'
  BY <1>1, <1>2, <1>4, <1>5, <1>9, OneOrders DEF opVars
<1> QED
  BY <1>7, <1>8, <1>10 DEF IInv

\* The new binary is written to its end, or not.
LEMMA WriteTmpStep ==
  ASSUME IInv, NEW j \in Jobs, WriteTmp(j) PROVE IInv'
<1> DEFINE s == j[2]
           to == job'[j].pc
           k == [job[j] EXCEPT !.pc = to, !.hand = "none"]
<1>1. /\ job[j] \in JobSet /\ Deed(j) /\ job[j].pc = "writing"
      /\ ~job[j].ok /\ job[j].kind = "update" /\ job[j].data = job[j].sum
      /\ job[j].sum \in Builds
  BY DEF IInv, Typed, WriteTmp, Deed, JobSet
<1>2. \/ /\ job' = [job EXCEPT ![j].pc = "rename", ![j].hand = "none"] 
         /\ tmp' = IF job[j].hand = "tmp" THEN [tmp EXCEPT ![s] = job[j].data] ELSE tmp
         /\ exe' = IF job[j].hand = "exe" THEN [exe EXCEPT ![s] = job[j].data] ELSE exe
      \/ /\ job' = [job EXCEPT ![j].pc = "undo", ![j].hand = "none"]
         /\ tmp' = tmp /\ exe' = exe
  BY DEF WriteTmp
<1>3. to \in {"rename", "undo"} /\ job' = [job EXCEPT ![j] = k]
  <2>1. ASSUME NEW w, job' = [job EXCEPT ![j].pc = w, ![j].hand = "none"]
        PROVE  to = w /\ job' = [job EXCEPT ![j] = k]
    <3>1. to = w
      BY <1>1, <2>1 DEF IInv, Typed, JobSet
    <3> HIDE DEF to
    <3> QED
      BY <2>1, <3>1
  <2> QED
    BY <1>2, <2>1
<1>4. k \in JobSet
  BY <1>1, <1>3 DEF JobSet, Pcs
<1>5. /\ k.kind = job[j].kind /\ k.sum = job[j].sum /\ k.ok = job[j].ok /\ k.pc = to
      /\ k.data = job[j].data /\ k.hand = "none"
  BY <1>1 DEF JobSet
<1>6. UNCHANGED <<storeVars, opVars, netVars, backup, running, busy, installed,
                  overlapped, rowVars>>
  BY DEF WriteTmp
<1>7. /\ tmp' \in [Servers -> Blobs] /\ exe' \in [Servers -> Contents]
      /\ \A r \in Servers : r # s => tmp'[r] = tmp[r] /\ exe'[r] = exe[r]
  <2>1. /\ tmp \in [Servers -> Blobs] /\ exe \in [Servers -> Contents] /\ s \in Servers
        /\ job[j].data \in Contents /\ job[j].data \in Blobs
    BY <1>1, Pairs DEF IInv, Typed, Blobs, Contents
  <2>2. tmp' = tmp \/ tmp' = [tmp EXCEPT ![s] = job[j].data]
    BY <1>2
  <2>3. exe' = exe \/ exe' = [exe EXCEPT ![s] = job[j].data]
    BY <1>2
  <2> HIDE DEF s
  <2>4. tmp' \in [Servers -> Blobs] /\ \A r \in Servers : r # s => tmp'[r] = tmp[r]
    BY <2>1, <2>2
  <2>5. exe' \in [Servers -> Contents] /\ \A r \in Servers : r # s => exe'[r] = exe[r]
    BY <2>1, <2>3
  <2> QED
    BY <2>4, <2>5
<1>8. s \notin overlapped => exe'[s] = exe[s] /\ (to = "rename" => tmp'[s] = job[j].sum)
  <2> SUFFICES ASSUME s \notin overlapped
               PROVE  exe'[s] = exe[s] /\ (to = "rename" => tmp'[s] = job[j].sum)
    OBVIOUS
  <2>1. job[j].hand = "tmp"
    BY <1>1, Pairs DEF IInv, Orderly
  <2>2. exe' = exe
    BY <1>2, <2>1
  <2>3. to = "rename" => tmp' = [tmp EXCEPT ![s] = job[j].data]
    BY <1>1, <1>2, <2>1 DEF IInv, Typed, JobSet
  <2> QED
    BY <1>1, <2>2, <2>3, Pairs DEF IInv, Typed
<1>9. Deed(j)'
  <2>1. job'[j] = k
    BY <1>3 DEF IInv, Typed
  <2> HIDE DEF k, to
  <2> QED
    BY <1>1, <1>3, <1>5, <1>6, <2>1 DEF Deed, opVars
<1> HIDE DEF k, to
<1>10. /\ job' \in [Jobs -> JobSet] /\ Shelves'
       /\ \A q \in Reqs : Loop(q)'
       /\ \A i \in Jobs : Deed(i)'
  BY <1>3, <1>4, <1>5, <1>6, <1>9, OneJob DEF opVars
<1>11. Typed'
  BY <1>6, <1>7, <1>10 DEF IInv, Typed, storeVars, netVars, rowVars, opVars
<1>12. ASSUME s \notin overlapped PROVE Orderly(s)'
  <2>1. Active(j)
    BY <1>1 DEF Active
  <2> QED
    BY <1>1, <1>3, <1>4, <1>5, <1>6, <1>8, <1>12, <2>1, OneOrder DEF opVars
<1>13. \A r \in Servers \ overlapped' : Orderly(r)'
  BY <1>3, <1>4, <1>6, <1>7, <1>12, OneOrders DEF opVars
<1> QED
  BY <1>10, <1>11, <1>13 DEF IInv

\* The copy may be written over the executable only once that has been moved.
LEMMA OpenExeStep ==
  ASSUME IInv, NEW j \in Jobs, OpenExe(j) PROVE IInv'
<1> DEFINE s == j[2]
           k == [job[j] EXCEPT !.pc = "undoing"]
<1>1. /\ job[j] \in JobSet /\ Deed(j) /\ job[j].pc = "undo"
      /\ ~job[j].ok /\ job[j].kind = "update"
  BY DEF IInv, Typed, OpenExe, Deed, JobSet
<1>2. UNCHANGED <<storeVars, opVars, netVars, tmp, backup, running, busy, installed,
                  overlapped, rowVars>>
  BY DEF OpenExe
<1>3. CASE Fails(j) /\ exe' = exe
  <2>1. Apart /\ tokens' = tokens /\ backup' = backup /\ backup \in [Servers -> Blobs]
    BY <1>2, <1>3 DEF Apart, opVars, IInv, Typed
  <2> QED
    BY <1>1, <1>3, <2>1, QuietFailure
<1>4. CASE ~busy[s] /\ job' = [job EXCEPT ![j].pc = "undoing"] /\ exe' = [exe EXCEPT ![s] = Torn]
  <2>1. job' = [job EXCEPT ![j] = k] /\ k \in JobSet
    BY <1>1, <1>4 DEF JobSet, Pcs
  <2>2. k.kind = job[j].kind /\ k.sum = job[j].sum /\ k.ok = job[j].ok /\ k.pc = "undoing"
    BY <1>1 DEF JobSet
  <2>3. /\ exe' \in [Servers -> Contents] 
        /\ \A r \in Servers : r # s => exe'[r] = exe[r]
    BY <1>4, Pairs DEF IInv, Typed, Contents
  <2> HIDE DEF k
  <2>4. Deed(j)'
    <3>1. job'[j] = k
      BY <2>1 DEF IInv, Typed
    <3> QED
      BY <1>1, <1>2, <2>2, <3>1 DEF Deed, opVars
  <2>5. /\ job' \in [Jobs -> JobSet] /\ Shelves'
        /\ \A q \in Reqs : Loop(q)'
        /\ \A i \in Jobs : Deed(i)'
    BY <1>2, <2>1, <2>2, <2>4, OneJob DEF opVars
  <2>6. Typed'
    BY <1>2, <2>3, <2>5 DEF IInv, Typed, storeVars, netVars, rowVars, opVars
  <2>7. s \in overlapped
    <3> SUFFICES ASSUME s \notin overlapped PROVE FALSE
      OBVIOUS
    <3>1. Orderly(s) /\ j \in At(s)
      BY Pairs DEF IInv
    <3>2. PICK i \in At(s) : Active(i) /\ job[i].pc \in {"result", "drain"}
      BY <1>4, <3>1 DEF Orderly
    <3>3. Active(j)
      BY <1>1 DEF Active
    <3>4. i = j
      BY <3>1, <3>2, <3>3 DEF Orderly
    <3> QED
      BY <1>1, <3>2, <3>4
  <2>8. \A r \in Servers \ overlapped' : Orderly(r)'
    BY <1>2, <2>1, <2>3, <2>7, OneOrders DEF opVars
  <2> QED
    BY <2>5, <2>6, <2>8 DEF IInv
<1> QED
  BY <1>3, <1>4 DEF OpenExe

\* The copy is written: never where updates come one after the other.
LEMMA UndoStep ==
  ASSUME IInv, NEW j \in Jobs, Undo(j) PROVE IInv'
<1> DEFINE s == j[2]
           k == Failed(j)
<1>1. /\ job[j] \in JobSet /\ Deed(j) /\ job[j].pc = "undoing"
      /\ ~job[j].ok /\ job[j].kind = "update"
  BY DEF IInv, Typed, Undo, Deed, JobSet
<1>2. UNCHANGED <<storeVars, opVars, netVars, tmp, backup, running, busy, installed,
                  overlapped, rowVars>>
  BY DEF Undo
<1>3. /\ k \in JobSet /\ job' = [job EXCEPT ![j] = k] /\ k.pc = "result"
      /\ k.kind = job[j].kind /\ k.sum = job[j].sum /\ k.ok = job[j].ok
  BY FailsOne DEF Undo
<1> HIDE DEF k
<1>4. Deed(j)'
  <2>1. job'[j] = k
    BY <1>3 DEF IInv, Typed
  <2> QED
    BY <1>1, <1>2, <1>3, <2>1 DEF Deed, opVars
<1>5. /\ job' \in [Jobs -> JobSet] /\ Shelves'
      /\ \A q \in Reqs : Loop(q)'
      /\ \A i \in Jobs : Deed(i)'
  BY <1>2, <1>3, <1>4, OneJob DEF opVars
<1>6. s \in overlapped
  BY <1>1, Pairs DEF IInv, Orderly
<1>7. /\ \A r \in Servers : r # s => exe'[r] = exe[r]
      /\ exe' = [exe EXCEPT ![s] = backup[s]]
  BY Pairs DEF IInv, Typed, Undo
<1>8. \A r \in Servers \ overlapped' : Orderly(r)'
  BY <1>2, <1>3, <1>6, <1>7, OneOrders DEF opVars
<1>9. backup[s] \in Contents
  BY <1>1, Pairs DEF Deed
<1>10. Typed'
  BY <1>2, <1>5, <1>7, <1>9 DEF IInv, Typed, storeVars, netVars, rowVars, opVars
<1> QED
  BY <1>5, <1>8, <1>10 DEF IInv

-----------------------------------------------------------------------------
(* The steps of a request.                                                 *)

\* A request that nothing has happened to.
LEMMA SameLoop ==
  ASSUME NEW p \in Reqs, Loop(p), req[p] \in ReqSet, req'[p] = req[p],
         \A s \in Servers : /\ told'[<<p, s>>] = told[<<p, s>>]
                            /\ job'[<<p, s>>].kind = job[<<p, s>>].kind
  PROVE  Loop(p)'
<1>1. req[p].todo \in Seq(Servers)
  BY DEF ReqSet
<1>2. \A n \in 1 .. Len(req[p].todo) : req[p].todo[n] \in Servers
  BY <1>1
<1>3. Ahead(p)' = Ahead(p) /\ Ahead(p) \subseteq 1 .. Len(req[p].todo)
  BY <1>1 DEF Ahead
<1> QED
  BY <1>2, <1>3 DEF Loop

\* What the jobs and the files are told does not depend on the requests.
LEMMA NoJobTouched ==
  ASSUME IInv, UNCHANGED <<storeVars, tokens, netVars, job, binVars, rowVars>>,
         req' \in [Reqs -> ReqSet], told' \in [Jobs -> {"none", "ok", "failed"}],
         \A q \in Reqs : Loop(q)',
         \A i \in Jobs : told'[i] = "ok" => told[i] = "ok" \/ job[i].ok
  PROVE  IInv'
<1>1. Typed' /\ Shelves'
  BY DEF IInv, Typed, Shelves, storeVars, netVars, binVars, rowVars
<1>2. \A i \in Jobs : Deed(i)'
  BY DEF IInv, Deed, binVars
<1>3. ASSUME NEW s \in Servers \ overlapped' PROVE Orderly(s)'
  <2>1. Orderly(s) /\ overlapped' = overlapped
    BY <1>3 DEF IInv, binVars
  <2>2. Announced(s)' = Announced(s)
    BY SameAnnounced
  <2>3. \A i \in At(s) : (Active(i)' <=> Active(i)) /\ i \in Jobs
    BY DEF Active, At
  <2>4. At(s)' = At(s)
    BY DEF At
  <2> QED
    BY <2>1, <2>2, <2>3, <2>4 DEF Orderly, binVars
<1> QED
  BY <1>1, <1>2, <1>3 DEF IInv

\* What is left of a sequence.
LEMMA Tails ==
  ASSUME NEW S, NEW t \in Seq(S), t # <<>>
  PROVE  /\ Head(t) \in S /\ Head(t) = t[1] /\ 1 \in 1 .. Len(t)
         /\ Tail(t) \in Seq(S)
         /\ \A n \in 1 .. Len(Tail(t)) : Tail(t)[n] = t[n + 1] /\ n + 1 \in 1 .. Len(t)
         /\ Len(t) # 1 => Tail(t) # <<>>
         /\ Len(t) \in Nat /\ Len(Tail(t)) = Len(t) - 1
<1>1. Len(t) \in Nat /\ Len(t) # 0
  OBVIOUS
<1>2. Tail(t) \in Seq(S) /\ Len(Tail(t)) = Len(t) - 1
  OBVIOUS
<1>3. \A n \in 1 .. Len(Tail(t)) : Tail(t)[n] = t[n + 1]
  OBVIOUS
<1>4. \A n \in 1 .. Len(Tail(t)) : n + 1 \in 1 .. Len(t)
  BY <1>1, <1>2
<1>5. 1 \in 1 .. Len(t)
  BY <1>1
<1>6. Head(t) = t[1] /\ t[1] \in S
  BY <1>5
<1>7. Len(t) # 1 => Tail(t) # <<>>
  <2>1. PICK u : u = Tail(t)
    OBVIOUS
  <2>2. Len(u) = Len(t) - 1
    BY <1>2, <2>1
  <2>3. u = <<>> => Len(u) = 0
    OBVIOUS
  <2> QED
    BY <1>1, <2>1, <2>2, <2>3
<1> QED
  BY <1>1, <1>2, <1>3, <1>4, <1>5, <1>6, <1>7

\* A request goes on to the next server, or ends.
LEMMA ReportStep ==
  ASSUME IInv, NEW q \in Reqs, req[q].todo # <<>>, NEW what \in {"ok", "failed"},
         Report(q, what), \A i \in Jobs : job'[i].kind = job[i].kind
  PROVE  /\ req' \in [Reqs -> ReqSet] /\ told' \in [Jobs -> {"none", "ok", "failed"}]
         /\ \A p \in Reqs : Loop(p)'
         /\ <<q, Now(q)>> \in Jobs /\ told'[<<q, Now(q)>>] = what
         /\ \A i \in Jobs : i # <<q, Now(q)>> => told'[i] = told[i]
<1> DEFINE t == req[q].todo
<1>1. req[q] \in ReqSet /\ t \in Seq(Servers) /\ Loop(q)
  BY DEF IInv, Typed, ReqSet
<1>2. /\ Now(q) \in Servers /\ Now(q) = t[1] /\ Tail(t) \in Seq(Servers)
      /\ \A n \in 1 .. Len(Tail(t)) : Tail(t)[n] = t[n + 1] /\ n + 1 \in 1 .. Len(t)
      /\ (Len(t) # 1 => Tail(t) # <<>>) /\ 1 \in 1 .. Len(t)
      /\ Len(t) \in Nat /\ Len(Tail(t)) = Len(t) - 1
  BY <1>1, Tails DEF Now
<1>3. <<q, Now(q)>> \in Jobs
  BY <1>2, Pairs
<1>4. /\ told' \in [Jobs -> {"none", "ok", "failed"}]
      /\ told'[<<q, Now(q)>>] = what
      /\ \A i \in Jobs : i # <<q, Now(q)>> => told'[i] = told[i]
  BY <1>3 DEF IInv, Typed, Report
<1>5. /\ req' = [req EXCEPT ![q] = Rest(q)] /\ req \in [Reqs -> ReqSet]
  BY DEF IInv, Typed, Report
<1> DEFINE next == [NoReq EXCEPT !.kind = req[q].kind, !.want = req[q].want,
                                 !.todo = Tail(t), !.pc = "next"]
<1>6. Ended \in ReqSet /\ Ended.pc = "end" /\ Ended.todo = <<>>
  <2>1. <<>> \in Seq(Servers)
    OBVIOUS
  <2>2. NoReq \in ReqSet
    BY <2>1 DEF NoReq, ReqSet, Blobs
  <2> QED
    BY <2>1, <2>2 DEF Ended, NoReq, ReqSet
<1>7. next \in ReqSet /\ next.pc = "next" /\ next.todo = Tail(t) /\ next.kind = req[q].kind
  BY <1>1, <1>2 DEF NoReq, ReqSet, Blobs
<1>8. Rest(q) = Ended \/ (Len(t) # 1 /\ Rest(q) = next)
  BY DEF Rest
<1> HIDE DEF next
<1>9. req' \in [Reqs -> ReqSet] /\ req'[q] = Rest(q)
  BY <1>5, <1>6, <1>7, <1>8
<1>10. ASSUME NEW p \in Reqs, p # q PROVE Loop(p)'
  <2>1. req'[p] = req[p] /\ req[p] \in ReqSet /\ Loop(p)
    BY <1>5, <1>10 DEF IInv
  <2>2. \A s \in Servers : <<p, s>> \in Jobs /\ <<p, s>> # <<q, Now(q)>>
    BY <1>10, Pairs
  <2> QED
    BY <1>4, <2>1, <2>2, SameLoop
<1>11. Loop(q)'
  <2>1. CASE Rest(q) = Ended
    <3>1. req'[q].pc = "end" /\ req'[q].todo = <<>>
      BY <1>6, <1>9, <2>1
    <3>2. 1 .. Len(req'[q].todo) = {} /\ Ahead(q)' = {}
      BY <3>1 DEF Ahead
    <3> QED
      BY <3>1, <3>2 DEF Loop
  <2>2. CASE Len(t) # 1 /\ Rest(q) = next
    <3>1. req'[q].pc = "next" /\ req'[q].todo = Tail(t) /\ req'[q].kind = req[q].kind
      BY <1>7, <1>9, <2>2
    <3>2. Ahead(q)' = 1 .. Len(Tail(t))
      BY <3>1 DEF Ahead
    <3>3. ASSUME NEW n \in 1 .. Len(Tail(t))
          PROVE  /\ Tail(t)[n] = t[n + 1] /\ n + 1 \in 1 .. Len(t) /\ n + 1 # 1
                 /\ <<q, t[n + 1]>> \in Jobs /\ n + 1 \in Ahead(q)
                 /\ <<q, t[n + 1]>> # <<q, Now(q)>>
      <4>1. Tail(t)[n] = t[n + 1] /\ n + 1 \in 1 .. Len(t) /\ n + 1 # 1
        BY <1>2
      <4>2. t[n + 1] # t[1]
        BY <1>1, <1>2, <4>1 DEF Loop
      <4>3. t[n + 1] \in Servers
        BY <1>1, <4>1
      <4>4. n + 1 \in Ahead(q)
        BY <1>2, <4>1 DEF Ahead
      <4> QED
        BY <1>2, <4>1, <4>2, <4>3, <4>4, Pairs
    <3>4. \A n \in 1 .. Len(Tail(t)) : told'[<<q, Tail(t)[n]>>] = "none"
      <4> SUFFICES ASSUME NEW n \in 1 .. Len(Tail(t))
                   PROVE  told'[<<q, Tail(t)[n]>>] = "none"
        OBVIOUS
      <4>1. told[<<q, t[n + 1]>>] = "none"
        BY <1>1, <3>3 DEF Loop
      <4> QED
        BY <1>4, <3>3, <4>1
    <3>5. \A n \in 1 .. Len(Tail(t)) : job'[<<q, Tail(t)[n]>>].kind = "none"
      BY <1>1, <3>3 DEF Loop
    <3>6. \A m, n \in 1 .. Len(Tail(t)) : Tail(t)[m] = Tail(t)[n] => m = n
      <4> SUFFICES ASSUME NEW m \in 1 .. Len(Tail(t)), NEW n \in 1 .. Len(Tail(t)),
                          Tail(t)[m] = Tail(t)[n]
                   PROVE  m = n
        OBVIOUS
      <4>1. t[m + 1] = t[n + 1] /\ m + 1 \in 1 .. Len(t) /\ n + 1 \in 1 .. Len(t)
        BY <3>3
      <4>2. m + 1 = n + 1
        BY <1>1, <4>1 DEF Loop
      <4> QED
        BY <4>2
    <3>7. req[q].kind \in {"update", "restart"}
      BY <1>1 DEF Loop
    <3> QED
      BY <1>2, <2>2, <3>1, <3>2, <3>4, <3>5, <3>6, <3>7 DEF Loop
  <2> QED
    BY <1>8, <2>1, <2>2
<1> QED
  BY <1>3, <1>4, <1>9, <1>10, <1>11

\* A request that has been spoken for gives up.
LEMMA TimesOutStep ==
  ASSUME IInv, NEW q \in Reqs, TimesOut(q) PROVE IInv'
<1>1. req[q].todo # <<>>
  BY DEF TimesOut, IInv, Loop
<1>2. Report(q, "failed") /\ UNCHANGED <<storeVars, tokens, netVars, job, binVars, rowVars>>
  BY DEF TimesOut
<1>3. /\ req' \in [Reqs -> ReqSet] /\ told' \in [Jobs -> {"none", "ok", "failed"}]
      /\ \A p \in Reqs : Loop(p)'
      /\ \A i \in Jobs : told'[i] = "ok" => told[i] = "ok"
  BY <1>1, <1>2, ReportStep
<1> QED
  BY <1>2, <1>3, NoJobTouched

\* A request with a record of its own, of which nothing is told.
LEMMA OneRequest ==
  ASSUME IInv, NEW q \in Reqs, NEW r \in ReqSet, req' = [req EXCEPT ![q] = r],
         UNCHANGED <<storeVars, told, tokens, netVars, job, binVars, rowVars>>, Loop(q)'
  PROVE  IInv'
<1>1. req' \in [Reqs -> ReqSet]
  BY DEF IInv, Typed
<1>2. ASSUME NEW p \in Reqs, p # q PROVE Loop(p)'
  <2>1. req'[p] = req[p] /\ req[p] \in ReqSet /\ Loop(p)
    BY <1>2 DEF IInv, Typed
  <2> QED
    BY <2>1, SameLoop
<1>3. told' \in [Jobs -> {"none", "ok", "failed"}]
  BY DEF IInv, Typed
<1> QED
  BY <1>1, <1>2, <1>3, NoJobTouched

\* A request's record changes, but not the servers it goes over.
LEMMA OnTheWay ==
  ASSUME NEW q \in Reqs, NEW r \in ReqSet, IInv, req' = [req EXCEPT ![q] = r],
         UNCHANGED <<told, job>>, req[q].pc \in {"next", "read", "send"},
         r.pc \in {"read", "send"}, r.todo = req[q].todo, r.kind = req[q].kind,
         r.pc = "read" => r.ver \in Versions /\ r.kind = "update",
         r.kind = "update" => r.sum \in Builds
  PROVE  Loop(q)'
<1>1. req'[q] = r /\ Loop(q) /\ req[q].todo # <<>>
  BY DEF IInv, Typed, Loop
<1>2. Ahead(q)' = Ahead(q)
  BY <1>1 DEF Ahead
<1> QED
  BY <1>1, <1>2 DEF Loop

\* An operator asks for the update of one server or of all.
LEMMA AskStep ==
  ASSUME IInv, ReleasesAssumption, NEW q \in Reqs, Ask(q) PROVE IInv'
<1>1. UNCHANGED <<storeVars, told, tokens, netVars, job, binVars, rowVars>>
  BY DEF Ask
<1>2. ASSUME NEW kind \in {"update", "restart"}, NEW want \in Versions \cup {None},
             NEW t \in Seq(Servers), t # <<>>,
             \A m, n \in 1 .. Len(t) : t[m] = t[n] => m = n,
             NEW r, r = [NoReq EXCEPT !.kind = kind, !.pc = "next", !.want = want, !.todo = t],
             req' = [req EXCEPT ![q] = r], req[q].pc = "new"
      PROVE  IInv'
  <2>1. r \in ReqSet /\ r.pc = "next" /\ r.kind = kind /\ r.todo = t
    BY <1>2 DEF NoReq, ReqSet, Blobs
  <2>2. req'[q] = r /\ Ahead(q)' = 1 .. Len(t)
    BY <1>2, <2>1 DEF IInv, Typed, Ahead
  <2>3. \A s \in Servers : told'[<<q, s>>] = "none" /\ job'[<<q, s>>].kind = "none"
    BY <1>1, <1>2 DEF IInv, Loop
  <2>4. \A n \in 1 .. Len(t) : t[n] \in Servers
    BY <1>2
  <2>5. Loop(q)'
    <3>1. /\ req'[q].pc = "next" /\ req'[q].kind = kind /\ req'[q].todo = t
          /\ req'[q].todo # <<>>
      BY <1>2, <2>1, <2>2
    <3>2. \A m, n \in 1 .. Len(req'[q].todo) : req'[q].todo[m] = req'[q].todo[n] => m = n
      BY <1>2, <3>1
    <3>3. /\ \A n \in 1 .. Len(req'[q].todo) : told'[<<q, req'[q].todo[n]>>] = "none"
          /\ \A n \in Ahead(q)' : job'[<<q, req'[q].todo[n]>>].kind = "none"
      BY <2>2, <2>3, <2>4, <3>1
    <3> QED
      BY <3>1, <3>2, <3>3 DEF Loop
  <2> QED
    BY <1>1, <1>2, <2>1, <2>5, OneRequest
<1>3. CASE \E s \in Servers, want \in Versions \cup {None}, kind \in {"update", "restart"} :
             req' = [req EXCEPT ![q] = [NoReq EXCEPT !.kind = kind, !.pc = "next",
                                                     !.want = want, !.todo = <<s>>]]
  <2>1. PICK s \in Servers, want \in Versions \cup {None}, kind \in {"update", "restart"} :
          req' = [req EXCEPT ![q] = [NoReq EXCEPT !.kind = kind, !.pc = "next",
                                                  !.want = want, !.todo = <<s>>]]
    BY <1>3
  <2>2. PICK t : t = <<s>>
    OBVIOUS
  <2>3. t \in Seq(Servers) /\ t # <<>> /\ Len(t) = 1
    BY <2>2
  <2>4. \A m, n \in 1 .. Len(t) : m = n
    BY <2>3
  <2>5. PICK r : r = [NoReq EXCEPT !.kind = kind, !.pc = "next", !.want = want, !.todo = t]
    OBVIOUS
  <2>6. req' = [req EXCEPT ![q] = r]
    BY <2>1, <2>2, <2>5
  <2>7. req[q].pc = "new" /\ (\A m, n \in 1 .. Len(t) : t[m] = t[n] => m = n)
    BY <2>4 DEF Ask
  <2> QED
    BY <1>2, <2>3, <2>5, <2>6, <2>7
<1>4. CASE \E want \in Versions \cup {None} :
             req' = [req EXCEPT ![q] = [NoReq EXCEPT !.kind = "update", !.pc = "next",
                                          !.want = want, !.todo = SetToSeq(Servers)]]
  BY <1>2, <1>4, AllServers DEF Ask
<1> QED
  BY <1>3, <1>4 DEF Ask

\* The entry of the binary is taken.
LEMMA GetBinaryStep ==
  ASSUME IInv, NEW q \in Reqs, GetBinary(q) PROVE IInv'
<1>1. /\ UNCHANGED <<storeVars, tokens, netVars, job, binVars, rowVars>>
      /\ req[q].pc = "next" /\ req[q] \in ReqSet /\ Loop(q)
  BY DEF GetBinary, IInv, Typed
<1>2. CASE Report(q, "failed")
  <2>1. req[q].todo # <<>>
    BY <1>1 DEF Loop
  <2>2. /\ req' \in [Reqs -> ReqSet] /\ told' \in [Jobs -> {"none", "ok", "failed"}]
        /\ \A p \in Reqs : Loop(p)'
        /\ \A i \in Jobs : told'[i] = "ok" => told[i] = "ok"
    BY <1>1, <1>2, <2>1, ReportStep
  <2> QED
    BY <1>1, <2>2, NoJobTouched
<1>3. CASE /\ req[q].kind = "restart"
           /\ req' = [req EXCEPT ![q].pc = "send"] /\ told' = told
  <2> DEFINE r == [req[q] EXCEPT !.pc = "send"]
  <2>1. r \in ReqSet /\ r.pc = "send" /\ r.kind = "restart" /\ r.todo = req[q].todo
    BY <1>1, <1>3 DEF ReqSet
  <2>2. req' = [req EXCEPT ![q] = r]
    BY <1>3
  <2> HIDE DEF r
  <2>3. Loop(q)'
    BY <1>1, <1>3, <2>1, <2>2, OnTheWay
  <2> QED
    BY <1>1, <1>3, <2>1, <2>2, <2>3, OneRequest
<1>4. CASE /\ req[q].kind # "restart"
           /\ \E v \in Known :
                /\ req' = [req EXCEPT ![q].pc = "read", ![q].ver = v, ![q].sum = entries[v].sum,
                         ![q].want = IF Len(req[q].todo) = 1 THEN None ELSE @]
                /\ told' = told
  <2>1. PICK v \in Known :
          req' = [req EXCEPT ![q].pc = "read", ![q].ver = v, ![q].sum = entries[v].sum,
                         ![q].want = IF Len(req[q].todo) = 1 THEN None ELSE @]
    BY <1>4
  <2> DEFINE w == IF Len(req[q].todo) = 1 THEN None ELSE req[q].want
             r == [req[q] EXCEPT !.pc = "read", !.ver = v, !.sum = entries[v].sum,
                                 !.want = w]
  <2>2. v \in Versions /\ entries[v].sum \in Builds
    BY DEF Known, IInv, Typed, Entries
  <2>3. req[q].kind = "update" /\ w \in Versions \cup {None}
    BY <1>1, <1>4 DEF Loop, ReqSet
  <2>4. req' = [req EXCEPT ![q] = r]
    BY <2>1
  <2> HIDE DEF w
  <2>5. r \in ReqSet
    BY <1>1, <2>2, <2>3 DEF ReqSet
  <2>6. /\ r.pc = "read" /\ r.kind = "update" /\ r.todo = req[q].todo
        /\ r.ver = v /\ r.sum = entries[v].sum
    BY <1>1, <2>3 DEF ReqSet
  <2> HIDE DEF r
  <2>7. Loop(q)'
    BY <1>1, <1>4, <2>2, <2>3, <2>4, <2>5, <2>6, OnTheWay
  <2> QED
    BY <1>1, <1>4, <2>4, <2>5, <2>7, OneRequest
<1> QED
  <2>1. ASSUME NEW found, found \subseteq Known,
               \E v \in found :
                 /\ req' = [req EXCEPT ![q].pc = "read", ![q].ver = v, ![q].sum = entries[v].sum,
                         ![q].want = IF Len(req[q].todo) = 1 THEN None ELSE @]
                 /\ told' = told,
               req[q].kind # "restart"
        PROVE  IInv'
    BY <1>4, <2>1
  <2>2. Latest \subseteq Known
    BY DEF Latest
  <2> QED
    BY <1>2, <1>3, <2>1, <2>2 DEF GetBinary

\* The file is read when the entry may have changed.
LEMMA ReadFileStep ==
  ASSUME IInv, NEW q \in Reqs, ReadFile(q) PROVE IInv'
<1> DEFINE r == [req[q] EXCEPT !.pc = "send", !.data = files[req[q].ver]]
<1>1. /\ UNCHANGED <<storeVars, told, tokens, netVars, job, binVars, rowVars>>
      /\ req[q].pc = "read" /\ req[q] \in ReqSet /\ Loop(q)
      /\ req' = [req EXCEPT ![q] = r]
  BY DEF ReadFile, IInv, Typed
<1>2. files[req[q].ver] \in Blobs /\ (req[q].kind = "update" => req[q].sum \in Builds)
  BY <1>1 DEF Loop, IInv, Typed
<1>3. r \in ReqSet
  BY <1>1, <1>2 DEF ReqSet
<1>4. r.pc = "send" /\ r.kind = req[q].kind /\ r.todo = req[q].todo /\ r.sum = req[q].sum
  BY <1>1 DEF ReqSet
<1> HIDE DEF r
<1>5. Loop(q)'
  BY <1>1, <1>2, <1>3, <1>4, OnTheWay
<1> QED
  BY <1>1, <1>3, <1>5, OneRequest

\* A result has come in for the request that waits for it, or for nobody.
LEMMA HandleResultStep ==
  ASSUME IInv, NEW j \in Jobs, HandleResult(j) PROVE IInv'
<1> DEFINE k == [job[j] EXCEPT !.res = "none"]
<1>1. job[j] \in JobSet /\ Deed(j) /\ job' = [job EXCEPT ![j] = k]
  BY DEF IInv, Typed, HandleResult
<1>2. k \in JobSet
  BY <1>1 DEF JobSet
<1>3. /\ k.kind = job[j].kind /\ k.sum = job[j].sum /\ k.ok = job[j].ok /\ k.pc = job[j].pc
      /\ k.data = job[j].data /\ k.ver = job[j].ver /\ k.hand = job[j].hand
  BY <1>1 DEF JobSet
<1>4. UNCHANGED <<storeVars, tokens, netVars, binVars, rowVars>>
  BY DEF HandleResult
<1> HIDE DEF k
<1>5. /\ job' \in [Jobs -> JobSet] /\ job'[j] = k
      /\ \A i \in Jobs : i # j => job'[i] = job[i]
  BY <1>1, <1>2 DEF IInv, Typed
<1>6. \A i \in Jobs : job'[i].kind = job[i].kind
  BY <1>3, <1>5
<1>7. /\ req' \in [Reqs -> ReqSet] /\ told' \in [Jobs -> {"none", "ok", "failed"}]
      /\ \A q \in Reqs : Loop(q)'
      /\ \A i \in Jobs : i # j => told'[i] = told[i]
      /\ told'[j] = told[j] \/ (told'[j] = "ok" => job[j].ok)
  <2>1. CASE Waiting(j) /\ Report(j[1], IF job[j].ok THEN "ok" ELSE "failed")
    <3> DEFINE q == j[1]
               what == IF job[j].ok THEN "ok" ELSE "failed"
    <3>1. q \in Reqs /\ req[q].todo # <<>> /\ <<q, Now(q)>> = j
      BY <2>1, Pairs DEF Waiting, IInv, Loop
    <3>2. what \in {"ok", "failed"} /\ (what = "ok" => job[j].ok) /\ Report(q, what)
      BY <2>1
    <3> HIDE DEF q, what
    <3> QED
      BY <1>6, <3>1, <3>2, ReportStep
  <2>2. CASE UNCHANGED <<req, told>>
    <3>1. ASSUME NEW q \in Reqs PROVE Loop(q)'
      <4>1. Loop(q) /\ req[q] \in ReqSet /\ req'[q] = req[q] /\ told' = told
        BY <2>2 DEF IInv, Typed
      <4> QED
        BY <1>6, <4>1, Pairs, SameLoop
    <3> QED
      BY <2>2, <3>1 DEF IInv, Typed
  <2> QED
    BY <2>1, <2>2 DEF HandleResult
<1>8. \A i \in Jobs : Deed(i)'
  <2>1. Deed(j)'
    BY <1>1, <1>3, <1>4, <1>5 DEF Deed, binVars
  <2>2. ASSUME NEW i \in Jobs, i # j PROVE Deed(i)'
    BY <1>4, <1>5, <2>2 DEF IInv, Deed, binVars
  <2> QED
    BY <2>1, <2>2
<1>9. Typed' /\ Shelves'
  BY <1>4, <1>5, <1>7 DEF IInv, Typed, Shelves, storeVars, netVars, rowVars, binVars
<1>10. ASSUME j[2] \notin overlapped PROVE Orderly(j[2])'
  <2>1. Orderly(j[2]) /\ j \in At(j[2])
    BY <1>10, Pairs DEF IInv
  <2>2. /\ k.kind = "update" /\ k.pc \notin {"none", "gone"} => Active(j)
        /\ k.pc # "undoing" /\ (k.pc = "writing" => k.hand = "tmp")
        /\ (k.pc = "rename" => tmp[j[2]] = k.sum)
    BY <1>3, <2>1 DEF Active, Orderly
  <2>3. \A i \in Jobs : told'[i] = "ok" => told[i] = "ok" \/ (i = j /\ job[j].ok)
    BY <1>7
  <2>4. /\ exe'[j[2]] = exe[j[2]] /\ busy'[j[2]] = busy[j[2]] /\ installed' = installed
        /\ tmp'[j[2]] = tmp[j[2]]
    BY <1>4 DEF binVars
  <2> QED
    BY <1>1, <1>2, <1>3, <1>10, <2>2, <2>3, <2>4, OneOrder
<1>11. \A s \in Servers \ overlapped' : Orderly(s)'
  BY <1>1, <1>2, <1>4, <1>7, <1>10, OneOrders DEF binVars
<1> QED
  BY <1>7, <1>8, <1>9, <1>11 DEF IInv

\* The new binary is moved to the path of the executable, or cannot be.
LEMMA RenameStep ==
  ASSUME IInv, NEW j \in Jobs, Rename(j) PROVE IInv'
<1> DEFINE s == j[2]
<1>1. /\ job[j] \in JobSet /\ Deed(j) /\ job[j].pc = "rename"
      /\ ~job[j].ok /\ job[j].kind = "update" /\ job[j].data = job[j].sum
      /\ job[j].sum \in Builds /\ s \in Servers /\ j \in At(s)
  BY Pairs DEF IInv, Typed, Rename, Deed, JobSet
<1>2. /\ UNCHANGED <<storeVars, opVars, netVars, backup, running, overlapped, rowVars>>
      /\ tmp' = [tmp EXCEPT ![s] = None]
  BY DEF Rename
<1> DEFINE k == [job[j] EXCEPT !.pc = "result", !.data = None, !.ok = TRUE]
           u == [job[j] EXCEPT !.pc = "undo"]
           Moved(to, h) == [i \in Jobs |->
             IF i = j THEN to
             ELSE IF i[2] = s /\ job[i].hand = "tmp" THEN [job[i] EXCEPT !.hand = h]
             ELSE job[i]]
<1>3. k \in JobSet /\ u \in JobSet
  BY <1>1 DEF JobSet, Pcs, Blobs
<1>4. /\ k.kind = "update" /\ k.sum = job[j].sum /\ k.pc = "result" /\ k.ok = TRUE
      /\ u.kind = "update" /\ u.sum = job[j].sum /\ u.pc = "undo" /\ u.ok = FALSE
  BY <1>1 DEF JobSet
<1> HIDE DEF k, u
\* The others: only where they would write may have changed.
<1>5. ASSUME NEW to \in JobSet, NEW h \in {"exe", "lost"}, job' = Moved(to, h),
             to.kind = "update", to.sum = job[j].sum, to.pc \in {"result", "undo"},
             to.ok => to.pc = "result"
      PROVE  /\ job' \in [Jobs -> JobSet] /\ job'[j] = to
             /\ \A i \in Jobs : i # j =>
                  /\ job'[i].kind = job[i].kind /\ job'[i].sum = job[i].sum
                  /\ job'[i].pc = job[i].pc /\ job'[i].data = job[i].data
                  /\ job'[i].ver = job[i].ver /\ job'[i].ok = job[i].ok
             /\ \A i \in Jobs : i # j /\ i[2] # s => job'[i] = job[i]
             /\ \A q \in Reqs : Loop(q)'
             /\ \A i \in Jobs : Deed(i)'
  <2>1. job'[j] = to
    BY <1>5
  <2>2. ASSUME NEW i \in Jobs, i # j
        PROVE  /\ job'[i].kind = job[i].kind /\ job'[i].sum = job[i].sum
               /\ job'[i].pc = job[i].pc /\ job'[i].data = job[i].data
               /\ job'[i].ver = job[i].ver /\ job'[i].ok = job[i].ok
               /\ job'[i] \in JobSet
               /\ i[2] # s => job'[i] = job[i]
    <3> DEFINE m == [job[i] EXCEPT !.hand = h]
    <3>1. job[i] \in JobSet
      BY DEF IInv, Typed
    <3>2. m \in JobSet
      BY <3>1 DEF JobSet
    <3>3. /\ m.kind = job[i].kind /\ m.sum = job[i].sum /\ m.pc = job[i].pc
          /\ m.data = job[i].data /\ m.ver = job[i].ver /\ m.ok = job[i].ok
      BY <3>1 DEF JobSet
    <3>4. job'[i] = job[i] \/ (i[2] = s /\ job'[i] = m)
      BY <1>5, <2>2
    <3> HIDE DEF m
    <3> QED
      BY <3>1, <3>2, <3>3, <3>4
  <2>3. job' \in [Jobs -> JobSet]
    <3>1. \A i \in Jobs : job'[i] \in JobSet
      BY <2>1, <2>2
    <3>2. job' = [i \in Jobs |-> job'[i]]
      BY <1>5
    <3> QED
      BY <3>1, <3>2
  <2>4. \A i \in Jobs : job'[i].kind = job[i].kind
    BY <1>1, <1>5, <2>1, <2>2
  <2>5. ASSUME NEW q \in Reqs PROVE Loop(q)'
    <3>1. Loop(q) /\ req[q] \in ReqSet /\ req'[q] = req[q] /\ told' = told
      BY <1>2 DEF IInv, Typed, opVars
    <3> QED
      BY <2>4, <3>1, Pairs, SameLoop
  <2>6. ASSUME NEW i \in Jobs PROVE Deed(i)'
    <3>1. CASE i = j
      BY <1>1, <1>2, <1>5, <2>1, <3>1 DEF Deed, opVars
    <3>2. CASE i # j
      BY <1>2, <2>2, <3>2 DEF IInv, Deed, opVars
    <3> QED
      BY <3>1, <3>2
  <2> QED
    BY <2>1, <2>2, <2>3, <2>5, <2>6
\* The other servers.
<1>6. ASSUME \A i \in Jobs : i # j /\ i[2] # s => job'[i] = job[i],
             \A r \in Servers : r # s => /\ exe'[r] = exe[r] /\ busy'[r] = busy[r]
                                         /\ installed'[r] = installed[r]
      PROVE  \A r \in Servers \ overlapped' : r # s => Orderly(r)'
  <2> SUFFICES ASSUME NEW r \in Servers \ overlapped, r # s PROVE Orderly(r)'
    BY <1>2
  <2>1. \A i \in At(r) : job'[i] = job[i] /\ told'[i] = told[i]
    BY <1>2, <1>6, Pairs DEF opVars
  <2>2. tmp'[r] = tmp[r]
    BY <1>2 DEF IInv, Typed
  <2>3. Orderly(r)
    BY DEF IInv
  <2> QED
    BY <1>6, <2>1, <2>2, <2>3, SameServer
\* At this server no other command is an update that is under way.
<1>7. ASSUME s \notin overlapped
      PROVE  /\ Orderly(s) /\ tmp[s] = job[j].sum
             /\ \A i \in At(s) : i # j =>
                  i \in Jobs /\ ~Active(i)
                  /\ job[i].pc \notin {"undoing", "writing", "rename"}
  <2>1. Orderly(s) /\ Active(j)
    BY <1>1, <1>7 DEF IInv, Active
  <2>2. tmp[s] = job[j].sum
    BY <1>1, <2>1 DEF Orderly
  <2>3. ASSUME NEW i \in At(s), i # j
        PROVE  i \in Jobs /\ ~Active(i) /\ job[i].pc \notin {"undoing", "writing", "rename"}
    <3>1. i \in Jobs /\ ~Active(i)
      BY <1>1, <2>1, <2>3, Pairs DEF Orderly
    <3>2. Deed(i) /\ job[i].kind \in {"none", "update", "restart"}
      BY <3>1 DEF IInv, Typed, JobSet
    <3> QED
      BY <3>1, <3>2 DEF Active, Deed
  <2> QED
    BY <2>1, <2>2, <2>3
<1>8. tmp' \in [Servers -> Blobs]
  BY <1>2 DEF IInv, Typed, Blobs
<1>9. CASE /\ tmp[s] # None
           /\ exe' = [exe EXCEPT ![s] = tmp[s]] /\ busy' = [busy EXCEPT ![s] = FALSE]
           /\ installed' = [installed EXCEPT ![s] = @ \cup {tmp[s]}]
           /\ job' = Moved(k, "exe")
  <2>1. /\ job' \in [Jobs -> JobSet] /\ job'[j] = k
        /\ \A i \in Jobs : i # j =>
                  /\ job'[i].kind = job[i].kind /\ job'[i].sum = job[i].sum
                  /\ job'[i].pc = job[i].pc /\ job'[i].data = job[i].data
                  /\ job'[i].ver = job[i].ver /\ job'[i].ok = job[i].ok
        /\ \A i \in Jobs : i # j /\ i[2] # s => job'[i] = job[i]
        /\ \A q \in Reqs : Loop(q)'
        /\ \A i \in Jobs : Deed(i)'
    BY <1>3, <1>4, <1>5, <1>9
  <2>2. /\ exe' \in [Servers -> Contents] /\ busy' \in [Servers -> BOOLEAN]
        /\ installed' \in [Servers -> SUBSET Blobs]
    <3>1. tmp[s] \in Contents /\ tmp[s] \in Blobs /\ installed[s] \cup {tmp[s]} \in SUBSET Blobs
      BY <1>1, <1>9 DEF IInv, Typed, Blobs
    <3> QED
      BY <1>9, <3>1 DEF IInv, Typed
  <2>3. /\ \A r \in Servers : r # s => /\ exe'[r] = exe[r] /\ busy'[r] = busy[r]
                                       /\ installed'[r] = installed[r]
        /\ exe'[s] = tmp[s] /\ installed'[s] = installed[s] \cup {tmp[s]}
    BY <1>1, <1>9 DEF IInv, Typed
  <2>4. Typed' /\ Shelves'
    BY <1>2, <1>8, <2>1, <2>2 DEF IInv, Typed, Shelves, storeVars, netVars, rowVars, opVars
  <2>5. ASSUME s \notin overlapped PROVE Orderly(s)'
    <3>1. /\ Orderly(s) /\ tmp[s] = job[j].sum
          /\ \A i \in At(s) : i # j =>
                  i \in Jobs /\ ~Active(i)
                  /\ job[i].pc \notin {"undoing", "writing", "rename"}
      BY <1>7, <2>5
    <3>2. At(s)' = At(s)
      BY DEF At
    <3>3. \A i \in At(s) : i # j => ~(Active(i)')
      BY <2>1, <3>1 DEF Active
    <3>4. exe'[s] \in Announced(s)'
      <4>1. job'[j].sum = tmp[s] /\ job'[j].kind = "update"
        BY <1>4, <2>1, <3>1
      <4> QED
        BY <1>1, <2>3, <3>2, <4>1 DEF Announced
    <3>5. ASSUME NEW i \in At(s)
          PROVE  /\ job'[i].pc # "undoing"
                 /\ job'[i].pc = "writing" => job'[i].hand = "tmp"
                 /\ job'[i].pc = "rename" => tmp'[s] = job'[i].sum
                 /\ job'[i].kind = "update" /\ job'[i].ok => job'[i].sum \in installed'[s]
                 /\ job'[i].kind = "update" /\ told'[i] = "ok" => job'[i].sum \in installed'[s]
      <4>1. CASE i = j
        BY <1>4, <2>1, <2>3, <3>1, <4>1
      <4>2. CASE i # j
        <5>1. /\ job[i].kind = "update" /\ job[i].ok => job[i].sum \in installed[s]
              /\ job[i].kind = "update" /\ told[i] = "ok" => job[i].sum \in installed[s]
          BY <3>1 DEF Orderly
        <5> QED
          BY <1>2, <2>1, <2>3, <3>1, <4>2, <5>1 DEF opVars
      <4> QED
        BY <4>1, <4>2
    <3>6. Active(j)' /\ job'[j].ok /\ job'[j].pc \in {"result", "drain"}
      BY <1>4, <2>1 DEF Active
    <3> QED
      BY <1>1, <3>2, <3>3, <3>4, <3>5, <3>6 DEF Orderly
  <2>6. \A r \in Servers \ overlapped' : Orderly(r)'
    BY <1>2, <1>6, <2>1, <2>3, <2>5
  <2> QED
    BY <2>1, <2>4, <2>6 DEF IInv
<1>10. CASE job' = Moved(u, "lost") /\ UNCHANGED <<exe, busy, installed>>
  <2>1. /\ job' \in [Jobs -> JobSet] /\ job'[j] = u
        /\ \A i \in Jobs : i # j =>
                  /\ job'[i].kind = job[i].kind /\ job'[i].sum = job[i].sum
                  /\ job'[i].pc = job[i].pc /\ job'[i].data = job[i].data
                  /\ job'[i].ver = job[i].ver /\ job'[i].ok = job[i].ok
        /\ \A i \in Jobs : i # j /\ i[2] # s => job'[i] = job[i]
        /\ \A q \in Reqs : Loop(q)'
        /\ \A i \in Jobs : Deed(i)'
    BY <1>3, <1>4, <1>5, <1>10
  <2>2. Typed' /\ Shelves'
    BY <1>2, <1>8, <1>10, <2>1 DEF IInv, Typed, Shelves, storeVars, netVars, rowVars, opVars
  <2>3. ASSUME s \notin overlapped PROVE Orderly(s)'
    <3>1. /\ Orderly(s)
          /\ \A i \in At(s) : i # j =>
                  i \in Jobs /\ ~Active(i)
                  /\ job[i].pc \notin {"undoing", "writing", "rename"}
      BY <1>7, <2>3
    <3>2. At(s)' = At(s) /\ \A i \in At(s) : i \in Jobs
      BY DEF At
    <3>3. \A i \in At(s) : Active(i)' => i = j
      BY <2>1, <3>1 DEF Active
    <3>4. Announced(s)' = Announced(s)
      <4>1. \A i \in At(s) : job'[i].kind = job[i].kind /\ job'[i].sum = job[i].sum
        BY <1>1, <1>4, <2>1, <3>2
      <4> QED
        BY <1>1, <4>1, SameAnnounced
    <3>5. ASSUME NEW i \in At(s)
          PROVE  /\ job'[i].pc # "undoing"
                 /\ job'[i].pc = "writing" => job'[i].hand = "tmp"
                 /\ job'[i].pc = "rename" => tmp'[s] = job'[i].sum
                 /\ job'[i].kind = "update" /\ job'[i].ok => job'[i].sum \in installed'[s]
                 /\ job'[i].kind = "update" /\ told'[i] = "ok" => job'[i].sum \in installed'[s]
      <4>1. /\ job[i].kind = "update" /\ job[i].ok => job[i].sum \in installed[s]
            /\ job[i].kind = "update" /\ told[i] = "ok" => job[i].sum \in installed[s]
        BY <3>1 DEF Orderly
      <4>2. CASE i = j
        BY <1>1, <1>2, <1>4, <1>10, <2>1, <4>1, <4>2 DEF opVars
      <4>3. CASE i # j
        BY <1>2, <1>10, <2>1, <3>1, <4>1, <4>3 DEF opVars
      <4> QED
        BY <4>2, <4>3
    <3>6. busy'[s] = TRUE
      <4>1. Active(j) /\ busy' = busy /\ busy[s] \in BOOLEAN
        BY <1>1, <1>10 DEF Active, IInv, Typed
      <4> QED
        BY <1>1, <3>1, <4>1 DEF Orderly
    <3>7. exe'[s] \in Announced(s)'
      BY <1>10, <3>1, <3>4 DEF Orderly
    <3> QED
      BY <3>2, <3>3, <3>5, <3>6, <3>7 DEF Orderly
  <2>4. \A r \in Servers \ overlapped' : Orderly(r)'
    BY <1>2, <1>6, <1>10, <2>1, <2>3
  <2> QED
    BY <2>1, <2>2, <2>4 DEF IInv
<1> QED
  BY <1>9, <1>10 DEF Rename, k, u

\* A command is sent: to a server that is at no other update, or to one that
\* counts as overlapped from now on.
LEMMA SendStep ==
  ASSUME IInv, NEW q \in Reqs, Send(q) PROVE IInv'
<1>1. /\ UNCHANGED <<storeVars, netVars, exe, tmp, backup, running, busy, installed, rowVars>>
      /\ req[q].pc = "send" /\ req[q] \in ReqSet /\ Loop(q)
  BY DEF Send, IInv, Typed
<1>2. req[q].todo # <<>> /\ req[q].todo \in Seq(Servers)
  BY <1>1 DEF Loop, ReqSet
<1>5. PICK s \in Servers : s = Now(q)
  BY <1>2, Tails DEF Now
<1>6. PICK j \in Jobs : j = <<q, s>>
  BY Pairs
<1> DEFINE r == [req[q] EXCEPT !.pc = "wait", !.data = None, !.ver = None, !.sum = None]
           ver == IF cap[s] THEN req[q].ver ELSE None
           data == IF cap[s] THEN None ELSE req[q].data
           k == [NoJob EXCEPT !.kind = req[q].kind, !.pc = "sent", !.sum = req[q].sum,
                              !.heard = TRUE, !.ver = ver, !.data = data]
<1>3. CASE Report(q, "failed") /\ UNCHANGED <<job, tokens, overlapped>>
  <2>1. /\ req' \in [Reqs -> ReqSet] /\ told' \in [Jobs -> {"none", "ok", "failed"}]
        /\ \A p \in Reqs : Loop(p)'
        /\ \A i \in Jobs : told'[i] = "ok" => told[i] = "ok"
    BY <1>2, <1>3, ReportStep
  <2> QED
    BY <1>1, <1>3, <2>1, NoJobTouched DEF binVars
<1>4. CASE /\ req' = [req EXCEPT ![q].pc = "wait", ![q].data = None,
                                          ![q].ver = None, ![q].sum = None]
           /\ told' = told
           /\ job' = [job EXCEPT ![j] =
               [NoJob EXCEPT !.kind = req[q].kind, !.pc = "sent", !.sum = req[q].sum, !.heard = TRUE,
                             !.ver  = IF cap[s] THEN req[q].ver ELSE None,
                             !.data = IF cap[s] THEN None ELSE req[q].data]]
           /\ tokens' = IF req[q].kind = "update" /\ cap[s] THEN tokens \cup {j} ELSE tokens
           /\ overlapped' = IF req[q].kind = "update" /\ Updating(s) THEN overlapped \cup {s}
                            ELSE overlapped
  <2>1. /\ s \in Servers /\ s = req[q].todo[1] /\ 1 \in 1 .. Len(req[q].todo)
        /\ Len(req[q].todo) \in Nat /\ j \in Jobs
    BY <1>2, <1>5, <1>6, Tails, Pairs DEF Now
  <2>2. req[q].kind \in {"update", "restart"} /\ (req[q].kind = "update" => req[q].sum \in Builds)
    BY <1>1, <1>2 DEF Loop
  <2>3. job[j].kind = "none" /\ told[j] = "none" /\ job[j].pc = "none"
    <3>1. 1 \in Ahead(q)
      BY <1>1, <2>1 DEF Ahead
    <3>2. job[j].kind = "none" /\ told[j] = "none"
      BY <1>1, <1>6, <2>1, <3>1 DEF Loop
    <3> QED
      BY <2>1, <3>2 DEF IInv, Deed
  <2>4. /\ req' = [req EXCEPT ![q] = r] /\ job' = [job EXCEPT ![j] = k]
    BY <1>4
  <2>5. /\ r \in ReqSet /\ r.pc = "wait" /\ r.todo = req[q].todo /\ r.kind = req[q].kind
    BY <1>1 DEF ReqSet, Blobs
  <2>6. ver \in Versions \cup {None} /\ data \in Blobs
    BY <1>1 DEF ReqSet, Blobs
  <2> HIDE DEF ver, data
  <2>7. k \in JobSet
    BY <1>1, <2>2, <2>6 DEF NoJob, JobSet, ReqSet, Pcs
  <2>8. /\ k.kind = req[q].kind /\ k.pc = "sent" /\ k.sum = req[q].sum /\ k.ok = FALSE
    BY DEF NoJob
  <2> HIDE DEF r, k
  <2>9. /\ req' \in [Reqs -> ReqSet] /\ req'[q] = r
        /\ \A p \in Reqs : p # q => req'[p] = req[p]
    BY <2>4, <2>5 DEF IInv, Typed
  <2>10. /\ job' \in [Jobs -> JobSet] /\ job'[j] = k
         /\ \A i \in Jobs : i # j => job'[i] = job[i]
    BY <2>1, <2>4, <2>7 DEF IInv, Typed
  <2>11. ASSUME NEW p \in Reqs PROVE Loop(p)'
    <3>1. CASE p # q
      <4>1. Loop(p) /\ req[p] \in ReqSet /\ req'[p] = req[p]
        BY <2>9, <3>1 DEF IInv, Typed
      <4>2. \A x \in Servers : <<p, x>> \in Jobs /\ <<p, x>> # j
        BY <1>6, <3>1, Pairs
      <4> QED
        BY <1>4, <2>10, <4>1, <4>2, SameLoop
    <3>2. CASE p = q
      <4> DEFINE t == req[q].todo
      <4>1. /\ req'[q].pc = "wait" /\ req'[q].todo = t /\ req'[q].kind = req[q].kind
        BY <2>5, <2>9
      <4>2. Ahead(q)' = 2 .. Len(t) /\ Ahead(q) = 1 .. Len(t)
        BY <1>1, <4>1 DEF Ahead
      <4>3. ASSUME NEW n \in 2 .. Len(t) PROVE job'[<<q, t[n]>>].kind = "none"
        <5>1. n \in 1 .. Len(t) /\ n # 1
          BY <2>1
        <5>2. t[n] # s /\ t[n] \in Servers
          BY <1>1, <1>2, <2>1, <5>1 DEF Loop
        <5>3. <<q, t[n]>> \in Jobs /\ <<q, t[n]>> # j
          BY <1>6, <5>2, Pairs
        <5>4. job[<<q, t[n]>>].kind = "none"
          BY <1>1, <4>2, <5>1 DEF Loop
        <5> QED
          BY <2>10, <5>3, <5>4
      <4>4. \A n \in Ahead(q)' : job'[<<q, req'[q].todo[n]>>].kind = "none"
        BY <4>1, <4>2, <4>3
      <4>5. \A n \in 1 .. Len(req'[q].todo) : told'[<<q, req'[q].todo[n]>>] = "none"
        BY <1>1, <1>4, <4>1 DEF Loop
      <4>6. \A m, n \in 1 .. Len(req'[q].todo) : req'[q].todo[m] = req'[q].todo[n] => m = n
        BY <1>1, <4>1 DEF Loop
      <4> QED
        BY <1>2, <2>2, <3>2, <4>1, <4>4, <4>5, <4>6 DEF Loop
    <3> QED
      BY <3>1, <3>2
  <2>12. tokens' \subseteq tokens \cup {j} /\ (j \in tokens' => k.kind = "update")
    <3>1. j \notin tokens
      BY <2>1, <2>3 DEF IInv, Deed
    <3> QED
      BY <1>4, <2>8, <3>1
  <2>13. ASSUME NEW i \in Jobs PROVE Deed(i)'
    <3>1. CASE i = j
      BY <2>2, <2>8, <2>10, <2>12, <3>1 DEF Deed
    <3>2. CASE i # j
      <4>1. job'[i] = job[i] /\ Deed(i) /\ (i \in tokens' => i \in tokens) /\ backup' = backup
        BY <1>1, <2>10, <2>12, <3>2 DEF IInv
      <4> QED
        BY <4>1 DEF Deed
    <3> QED
      BY <3>1, <3>2
  <2>14. tokens' \subseteq Jobs /\ overlapped' \subseteq Servers
    BY <1>4, <2>1 DEF IInv, Typed
  <2>15. Typed' /\ Shelves'
    BY <1>1, <1>4, <2>9, <2>10, <2>14 DEF IInv, Typed, Shelves, storeVars, netVars, rowVars
  <2>16. overlapped \subseteq overlapped'
    BY <1>4
  <2>17. ASSUME NEW x \in Servers \ overlapped', x # s PROVE Orderly(x)'
    <3>1. Orderly(x) /\ \A i \in At(x) : i \in Jobs /\ i # j
      BY <1>6, <2>1, <2>16, <2>17, Pairs DEF IInv
    <3>2. \A i \in At(x) : job'[i] = job[i] /\ told'[i] = told[i]
      BY <1>4, <2>10, <3>1
    <3> QED
      BY <1>1, <3>1, <3>2, SameServer
  <2>18. ASSUME s \notin overlapped' PROVE Orderly(s)'
    <3>1. Orderly(s) /\ At(s)' = At(s) /\ j \in At(s) /\ \A i \in At(s) : i \in Jobs
      <4>1. j[2] = s
        BY <1>6
      <4> QED
        BY <2>1, <2>16, <2>18, <4>1, Pairs DEF IInv, At
    <3>2. ASSUME NEW i \in At(s), Active(i), req[q].kind = "update" PROVE FALSE
      <4>1. i[1] \in Reqs /\ i = <<i[1], s>>
        BY Pairs
      <4>2. Updating(s)
        BY <3>2, <4>1 DEF Updating, Active
      <4> QED
        BY <1>4, <2>18, <3>2, <4>2
    <3>3. \A i \in At(s) : i # j => (Active(i)' <=> Active(i))
      BY <2>10, <3>1 DEF Active
    <3>4. Active(j)' <=> req[q].kind = "update"
      BY <2>8, <2>10 DEF Active
    <3>5. ASSUME NEW m \in At(s), NEW n \in At(s), Active(m)', Active(n)' PROVE m = n
      <4>1. CASE m # j /\ n # j
        BY <3>1, <3>3, <3>5, <4>1 DEF Orderly
      <4>2. CASE m = j /\ n # j
        BY <3>2, <3>3, <3>4, <3>5, <4>2
      <4>3. CASE m # j /\ n = j
        BY <3>2, <3>3, <3>4, <3>5, <4>3
      <4> QED
        BY <4>1, <4>2, <4>3
    <3>6. exe'[s] \in Announced(s)'
      <4>1. exe[s] = Origin \/ \E i \in At(s) : job[i].kind = "update" /\ exe[s] = job[i].sum
        BY <3>1 DEF Orderly, Announced
      <4>2. CASE exe[s] = Origin
        BY <1>1, <4>2 DEF Announced
      <4>3. ASSUME NEW i \in At(s), job[i].kind = "update", exe[s] = job[i].sum
            PROVE  exe'[s] \in Announced(s)'
        <5>1. i # j /\ job'[i] = job[i]
          BY <2>3, <2>10, <3>1, <4>3
        <5> QED
          BY <1>1, <3>1, <4>3, <5>1 DEF Announced
      <4> QED
        BY <4>1, <4>2, <4>3
    <3>7. ASSUME NEW i \in At(s)
          PROVE  /\ job'[i].pc # "undoing"
                 /\ job'[i].pc = "writing" => job'[i].hand = "tmp"
                 /\ job'[i].pc = "rename" => tmp'[s] = job'[i].sum
                 /\ job'[i].kind = "update" /\ job'[i].ok => job'[i].sum \in installed'[s]
                 /\ job'[i].kind = "update" /\ told'[i] = "ok" => job'[i].sum \in installed'[s]
      <4>1. CASE i = j
        BY <1>4, <2>3, <2>8, <2>10, <4>1
      <4>2. CASE i # j
        <5>1. job'[i] = job[i] /\ told' = told /\ tmp' = tmp /\ installed' = installed
          BY <1>1, <1>4, <2>10, <3>1, <4>2
        <5> QED
          BY <3>1, <5>1 DEF Orderly
      <4> QED
        BY <4>1, <4>2
    <3>8. ASSUME ~busy'[s]
          PROVE  \E i \in At(s) : Active(i)' /\ job'[i].ok /\ job'[i].pc \in {"result", "drain"}
      <4>1. PICK i \in At(s) : Active(i) /\ job[i].ok /\ job[i].pc \in {"result", "drain"}
        BY <1>1, <3>1, <3>8 DEF Orderly
      <4>2. i # j /\ job'[i] = job[i]
        BY <2>3, <2>10, <3>1, <4>1
      <4> QED
        BY <3>3, <4>1, <4>2
    <3> QED
      BY <3>1, <3>5, <3>6, <3>7, <3>8 DEF Orderly
  <2>19. \A x \in Servers \ overlapped' : Orderly(x)'
    BY <2>17, <2>18
  <2> QED
    BY <2>11, <2>13, <2>15, <2>19 DEF IInv
<1> QED
  BY <1>3, <1>4, <1>5, <1>6 DEF Send

-----------------------------------------------------------------------------
(* The steps of the store.                                                 *)

\* The store is nobody's business but its own.
LEMMA StoreOnly ==
  ASSUME IInv, UNCHANGED <<opVars, netVars, job, binVars, rowVars>>,
         files' \in [Versions -> Blobs], entries' \in Entries,
         index' = Torn \/ index' \in Entries, dl' \in DlSet, uploads' \in 0 .. MaxUploads,
         Shelves'
  PROVE  IInv'
<1>1. Typed'
  BY DEF IInv, Typed, opVars, netVars, binVars, rowVars
<1>2. \A q \in Reqs : Loop(q)'
  BY SameLoop DEF IInv, Typed, opVars
<1>3. \A i \in Jobs : Deed(i)'
  BY DEF IInv, Deed, binVars, opVars
<1>4. \A s \in Servers \ overlapped' : Orderly(s)'
  BY SameServer DEF IInv, opVars, binVars
<1> QED
  BY <1>1, <1>2, <1>3, <1>4 DEF IInv

LEMMA BeginStep ==
  ASSUME IInv, ReleasesAssumption, NEW v \in Versions, NEW b \in Builds, Begin(v, b) PROVE IInv'
<1>1. /\ uploads' = uploads + 1 /\ uploads < MaxUploads /\ dl.pc = "idle"
      /\ dl' = [pc |-> "write", ver |-> v, data |-> b]
      /\ files' = [files EXCEPT ![v] = Torn]
      /\ UNCHANGED <<entries, index, opVars, netVars, job, binVars, rowVars>>
  BY DEF Begin, Locked
<1>2. uploads \in Nat /\ MaxUploads \in Nat
  BY DEF IInv, Typed, ReleasesAssumption
<1>3. uploads' \in 0 .. MaxUploads /\ uploads' > 0
  BY <1>1, <1>2
<1>4. dl' \in DlSet /\ dl'.pc = "write" /\ dl'.ver = v /\ dl'.data = b
  BY <1>1 DEF DlSet
<1>5. files' \in [Versions -> Blobs] /\ \A w \in Versions : files[w] # None => files'[w] # None
  BY <1>1 DEF IInv, Typed, Blobs, Contents, ReleasesAssumption
<1>6. ASSUME NEW w \in Versions
      PROVE  /\ entries[w] # None => entries[w].at < uploads'
             /\ index # Torn /\ index[w] # None => index[w].at <= uploads'
  <2>1. entries[w] # None => entries[w].at \in Nat /\ entries[w].at <= uploads
    BY DEF IInv, Typed, Shelves, Entries
  <2>2. index # Torn /\ index[w] # None => index[w].at \in Nat /\ index[w].at <= uploads
    BY DEF IInv, Typed, Shelves, Entries
  <2> QED
    BY <1>1, <1>2, <2>1, <2>2
<1>7. Shelves'
  <2>1. \A w \in Versions : entries[w] # None => entries[w].at <= uploads'
    <3> SUFFICES ASSUME NEW w \in Versions, entries[w] # None PROVE entries[w].at <= uploads'
      OBVIOUS
    <3>1. entries[w].at \in Nat
      BY DEF IInv, Typed, Entries
    <3> QED
      BY <1>2, <1>3, <1>6, <3>1
  <2> QED
    BY <1>1, <1>3, <1>4, <1>5, <1>6, <2>1 DEF IInv, Shelves
<1> QED
  BY <1>1, <1>3, <1>4, <1>5, <1>7, StoreOnly DEF IInv, Typed

\* The last time is one of those of the entries, or none.
LEMMA LastTime ==
  ASSUME IInv, ReleasesAssumption
  PROVE  LastAt \in Nat /\ (LastAt = 0 \/ \E v \in Known : LastAt = entries[v].at)
<1> DEFINE S == {entries[v].at : v \in Known}
<1>1. CASE Known = {}
  BY <1>1 DEF LastAt
<1>2. CASE Known # {}
  <2>1. S \subseteq 0 .. MaxUploads /\ MaxUploads \in Nat
    BY DEF Known, IInv, Typed, Entries, ReleasesAssumption
  <2>2. S # {}
    BY <1>2
  <2>3. PICK n \in S : \A m \in S : m <= n
    BY <2>1, <2>2, Largest
  <2>4. \E x \in S : \A v \in Known : entries[v].at <= x
    BY <2>3
  <2>5. LastAt = CHOOSE x \in S : \A v \in Known : entries[v].at <= x
    BY <1>2 DEF LastAt
  <2>6. LastAt \in S
    BY <2>4, <2>5
  <2> QED
    BY <2>1, <2>6
<1> QED
  BY <1>1, <1>2

LEMMA StoreFileStep ==
  ASSUME IInv, ReleasesAssumption, StoreFile PROVE IInv'
<1>1. PICK now \in {LastAt, LastAt + 1} :
        entries' = [entries EXCEPT ![dl.ver] = [sum |-> dl.data, at |-> now]]
  BY DEF StoreFile
<1>2. /\ dl.pc = "write" /\ dl.ver \in Versions /\ dl.data \in Builds
      /\ files' = [files EXCEPT ![dl.ver] = dl.data]
      /\ dl' = [dl EXCEPT !.pc = "index"] /\ index' = Torn
      /\ UNCHANGED <<uploads, opVars, netVars, job, binVars, rowVars>>
  BY DEF StoreFile, IInv, Shelves
<1>3. /\ uploads \in Nat /\ MaxUploads \in Nat /\ uploads <= MaxUploads /\ uploads > 0
      /\ dl \in DlSet /\ entries \in Entries /\ files \in [Versions -> Blobs]
  BY <1>2 DEF IInv, Typed, ReleasesAssumption, Shelves
<1>4. LastAt \in Nat /\ LastAt < uploads
  <2>1. \A v \in Known : entries[v].at < uploads
    BY <1>2 DEF IInv, Shelves, Known
  <2> QED
    BY <1>3, <2>1, LastTime
<1>5. now \in 0 .. MaxUploads /\ now <= uploads
  BY <1>3, <1>4
<1> DEFINE e == [sum |-> dl.data, at |-> now]
<1>6. e \in [sum : Builds, at : 0 .. MaxUploads] /\ e.at = now
  BY <1>2, <1>5
<1>7. entries' = [entries EXCEPT ![dl.ver] = e]
  BY <1>1
<1> HIDE DEF e
<1>8. entries' \in Entries
  BY <1>2, <1>3, <1>6, <1>7 DEF Entries
<1>9. files' \in [Versions -> Blobs] /\ dl.data # None
  BY <1>2, <1>3 DEF Blobs, Contents, ReleasesAssumption
<1>10. dl' \in DlSet /\ dl'.pc = "index" /\ dl'.ver = dl.ver /\ dl'.data = dl.data
  BY <1>2, <1>3 DEF DlSet
<1>11. ASSUME NEW v \in Versions, entries'[v] # None
       PROVE  files'[v] # None /\ entries'[v].at <= uploads
  <2>1. CASE v = dl.ver
    BY <1>2, <1>3, <1>5, <1>6, <1>7, <1>9, <2>1 DEF Entries
  <2>2. CASE v # dl.ver
    <3>1. entries'[v] = entries[v] /\ files'[v] = files[v]
      BY <1>2, <1>3, <1>7, <2>2 DEF Entries
    <3> QED
      BY <1>11, <3>1 DEF IInv, Shelves
  <2> QED
    BY <2>1, <2>2
<1>12. Shelves'
  BY <1>2, <1>10, <1>11 DEF Shelves
<1> QED
  BY <1>2, <1>3, <1>8, <1>9, <1>10, <1>12, StoreOnly DEF IInv, Typed

LEMMA StoreEndsStep ==
  ASSUME IInv, ReleasesAssumption, StoreFails \/ SaveIndex PROVE IInv'
<1>1. NoStore \in DlSet /\ NoStore.pc = "idle"
  BY DEF NoStore, DlSet
<1>2. /\ dl' = NoStore /\ index' \in {index, entries, Torn}
      /\ UNCHANGED <<files, entries, uploads, opVars, netVars, job, binVars, rowVars>>
  BY DEF StoreFails, SaveIndex
<1>3. Shelves'
  <2>1. \A v \in Versions : entries[v] # None => files[v] # None /\ entries[v].at <= uploads
    BY DEF IInv, Shelves
  <2>2. \A v \in Versions : index' # Torn /\ index'[v] # None =>
          files[v] # None /\ index'[v].at <= uploads
    BY <1>2, <2>1 DEF IInv, Shelves
  <2> QED
    BY <1>1, <1>2, <2>1, <2>2 DEF Shelves
<1> QED
  BY <1>1, <1>2, <1>3, StoreOnly DEF IInv, Typed

-----------------------------------------------------------------------------
(* Connections, restarts and deaths.                                       *)

\* What a setback makes of a command: it is over, or as it was but for what
\* the connection carried.
Cut(i) ==
  /\ job'[i].kind = job[i].kind /\ job'[i].sum = job[i].sum
  /\ \/ /\ job'[i].pc = "gone" /\ ~job'[i].ok /\ job[i].pc # "none"
     \/ /\ job'[i].pc = job[i].pc /\ job'[i].data = job[i].data
        /\ job'[i].ver = job[i].ver /\ job'[i].ok = job[i].ok /\ job'[i].hand = job[i].hand

LEMMA Setback ==
  ASSUME IInv, \A i \in Jobs : Cut(i),
         UNCHANGED <<exe, tmp, backup, installed, overlapped, told>>,
         tokens' \subseteq tokens,
         \A s \in Servers : \/ busy'[s] = TRUE
                            \/ /\ busy'[s] = busy[s]
                               /\ \A i \in At(s) : job[i].pc \in {"result", "drain"} =>
                                    job'[i].pc = job[i].pc
  PROVE  /\ \A i \in Jobs : Deed(i)'
         /\ \A s \in Servers \ overlapped' : Orderly(s)'
<1>1. ASSUME NEW i \in Jobs PROVE Deed(i)'
  BY <1>1 DEF IInv, Deed, Cut
<1>2. ASSUME NEW s \in Servers \ overlapped' PROVE Orderly(s)'
  <2>1. Orderly(s) /\ At(s)' = At(s) /\ \A i \in At(s) : i \in Jobs
    BY <1>2 DEF IInv, At
  <2>2. \A i \in At(s) : Active(i)' => Active(i)
    BY <2>1 DEF Active, Cut
  <2>3. ASSUME NEW m \in At(s), NEW n \in At(s), Active(m)', Active(n)' PROVE m = n
    <3>1. Active(m) /\ Active(n)
      BY <2>2, <2>3
    <3> QED
      BY <2>1, <3>1 DEF Orderly
  <2>4. exe'[s] \in Announced(s)'
    <3>1. Announced(s)' = Announced(s)
      BY <1>2, <2>1, SameAnnounced DEF Cut
    <3> QED
      BY <2>1, <3>1 DEF Orderly
  <2>5. ASSUME NEW i \in At(s)
        PROVE  /\ job'[i].pc # "undoing"
               /\ job'[i].pc = "writing" => job'[i].hand = "tmp"
               /\ job'[i].pc = "rename" => tmp'[s] = job'[i].sum
               /\ job'[i].kind = "update" /\ job'[i].ok => job'[i].sum \in installed'[s]
               /\ job'[i].kind = "update" /\ told'[i] = "ok" => job'[i].sum \in installed'[s]
    BY <2>1 DEF Orderly, Cut
  <2>6. ASSUME ~busy'[s]
        PROVE  \E i \in At(s) : Active(i)' /\ job'[i].ok /\ job'[i].pc \in {"result", "drain"}
    <3>1. /\ busy'[s] = busy[s]
          /\ \A i \in At(s) : job[i].pc \in {"result", "drain"} => job'[i].pc = job[i].pc
      BY <1>2, <2>6
    <3>2. PICK i \in At(s) : Active(i) /\ job[i].ok /\ job[i].pc \in {"result", "drain"}
      BY <2>1, <2>6, <3>1 DEF Orderly
    <3>3. job'[i].pc = job[i].pc /\ job'[i].ok /\ job'[i].kind = job[i].kind
      BY <2>1, <3>1, <3>2 DEF Cut
    <3> QED
      BY <3>2, <3>3 DEF Active
  <2> QED
    BY <2>1, <2>3, <2>4, <2>5, <2>6 DEF Orderly
<1> QED
  BY <1>1, <1>2

\* The connection carries nothing on; what is not yet read is never read.
LEMMA LostJobs ==
  ASSUME IInv, NEW jobs, job' = Lost(jobs)
  PROVE  /\ job' \in [Jobs -> JobSet] /\ \A i \in Jobs : Cut(i)
         /\ \A i \in Jobs : job[i].pc \in {"result", "drain"} => job'[i].pc = job[i].pc
<1>1. ASSUME NEW i \in Jobs
      PROVE  /\ job'[i] \in JobSet /\ Cut(i)
             /\ job[i].pc \in {"result", "drain"} => job'[i].pc = job[i].pc
  <2> DEFINE to == IF job[i].pc = "sent" THEN "gone" ELSE job[i].pc
             k == [job[i] EXCEPT !.heard = FALSE, !.res = "none", !.pc = to]
  <2>1. job[i] \in JobSet /\ Deed(i)
    BY DEF IInv, Typed
  <2>2. to \in Pcs /\ (to = job[i].pc \/ (to = "gone" /\ job[i].pc = "sent"))
    BY <2>1 DEF JobSet, Pcs
  <2>3. job'[i] = k \/ job'[i] = job[i]
    BY DEF Lost
  <2> HIDE DEF to
  <2>4. k \in JobSet
    BY <2>1, <2>2 DEF JobSet
  <2>5. /\ k.kind = job[i].kind /\ k.sum = job[i].sum /\ k.pc = to /\ k.data = job[i].data
        /\ k.ver = job[i].ver /\ k.ok = job[i].ok /\ k.hand = job[i].hand
    BY <2>1 DEF JobSet
  <2> HIDE DEF k
  <2>6. job[i].pc = "sent" => ~job[i].ok
    BY <2>1 DEF Deed
  <2> QED
    BY <2>1, <2>2, <2>3, <2>4, <2>5, <2>6 DEF Cut
<1>2. job' = [i \in Jobs |-> job'[i]]
  BY DEF Lost
<1>3. \A i \in Jobs : job'[i] \in JobSet
  BY <1>1
<1> QED
  BY <1>1, <1>2, <1>3

\* With the process its commands are gone.
LEMMA KilledJobs ==
  ASSUME IInv, NEW jobs, job' = Killed(jobs)
  PROVE  job' \in [Jobs -> JobSet] /\ \A i \in Jobs : Cut(i)
<1>1. ASSUME NEW i \in Jobs PROVE job'[i] \in JobSet /\ Cut(i)
  <2> DEFINE k == [NoJob EXCEPT !.kind = job[i].kind, !.sum = job[i].sum, !.pc = "gone"]
  <2>1. job[i] \in JobSet
    BY DEF IInv, Typed
  <2>2. job'[i] = job[i] \/ (job[i].pc # "none" /\ job'[i] = k)
    BY DEF Killed
  <2>3. k \in JobSet
    BY <2>1 DEF JobSet, Pcs, NoJob, Blobs
  <2>4. k.kind = job[i].kind /\ k.sum = job[i].sum /\ k.pc = "gone" /\ k.ok = FALSE
    BY DEF NoJob
  <2> HIDE DEF k
  <2> QED
    BY <2>1, <2>2, <2>3, <2>4 DEF Cut
<1>2. job' = [i \in Jobs |-> job'[i]]
  BY DEF Killed
<1>3. \A i \in Jobs : job'[i] \in JobSet
  BY <1>1
<1> QED
  BY <1>1, <1>2, <1>3

\* Nothing is connected, and nothing said, at the servers concerned.
LEMMA CutOff ==
  ASSUME IInv, NEW servers, Offline(servers), info' = Unsaid(servers)
  PROVE  /\ link' \in [Servers -> BOOLEAN] /\ cap' \in [Servers -> BOOLEAN]
         /\ info' \in [Servers -> Builds \cup {None}]
<1>1. info' \in [Servers -> Builds \cup {None}]
  BY DEF IInv, Typed, Unsaid
<1>2. link' \in [Servers -> BOOLEAN]
  BY DEF Offline
<1>3. cap' \in [Servers -> BOOLEAN]
  BY DEF Offline
<1> QED
  BY <1>1, <1>2, <1>3

\* What is executed now is what lies at the path.
LEMMA ReplacedStep ==
  ASSUME IInv, NEW s \in Servers, Replaced(s) PROVE IInv'
<1>1. /\ running' = [running EXCEPT ![s] = exe[s]] /\ busy' = [busy EXCEPT ![s] = TRUE]
      /\ job' = Killed(At(s)) /\ Offline({s}) /\ info' = Unsaid({s})
      /\ UNCHANGED <<storeVars, opVars, exe, tmp, backup, installed, overlapped, row, signed>>
  BY DEF Replaced
<1>2. job' \in [Jobs -> JobSet] /\ \A i \in Jobs : Cut(i)
  BY <1>1, KilledJobs
<1>3. /\ link' \in [Servers -> BOOLEAN] /\ cap' \in [Servers -> BOOLEAN]
      /\ info' \in [Servers -> Builds \cup {None}]
  BY <1>1, CutOff
<1>4. running' \in [Servers -> Contents] /\ busy' \in [Servers -> BOOLEAN]
  BY <1>1 DEF IInv, Typed
<1>5. ASSUME NEW r \in Servers
      PROVE  \/ busy'[r] = TRUE
             \/ /\ busy'[r] = busy[r]
                /\ \A i \in At(r) : job[i].pc \in {"result", "drain"} => job'[i].pc = job[i].pc
  <2>1. CASE r = s
    BY <1>1, <2>1 DEF IInv, Typed
  <2>2. CASE r # s
    <3>1. busy'[r] = busy[r]
      BY <1>1, <2>2 DEF IInv, Typed
    <3>2. \A i \in At(r) : job'[i] = job[i]
      BY <1>1, <2>2 DEF Killed, At
    <3> QED
      BY <3>1, <3>2
  <2> QED
    BY <2>1, <2>2
<1>6. /\ \A i \in Jobs : Deed(i)'
      /\ \A r \in Servers \ overlapped' : Orderly(r)'
  BY <1>1, <1>2, <1>5, Setback DEF opVars
<1>7. ASSUME NEW q \in Reqs PROVE Loop(q)'
  <2>1. Loop(q) /\ req[q] \in ReqSet /\ req' = req /\ told' = told
    BY <1>1 DEF IInv, Typed, opVars
  <2> QED
    BY <1>2, <2>1, Pairs, SameLoop DEF Cut
<1>8. Typed' /\ Shelves'
  BY <1>1, <1>2, <1>3, <1>4 DEF IInv, Typed, Shelves, storeVars, opVars
<1> QED
  BY <1>6, <1>7, <1>8 DEF IInv

LEMMA DropStep ==
  ASSUME IInv, NEW s \in Servers, Drop(s) PROVE IInv'
<1>1. /\ job' = Lost(At(s)) /\ Offline({s}) /\ info' = Unsaid({s})
      /\ UNCHANGED <<storeVars, opVars, binVars, row, signed>>
  BY DEF Drop
<1>2. /\ job' \in [Jobs -> JobSet] /\ \A i \in Jobs : Cut(i)
      /\ \A i \in Jobs : job[i].pc \in {"result", "drain"} => job'[i].pc = job[i].pc
  BY <1>1, LostJobs
<1>3. /\ link' \in [Servers -> BOOLEAN] /\ cap' \in [Servers -> BOOLEAN]
      /\ info' \in [Servers -> Builds \cup {None}]
  BY <1>1, CutOff
<1>4. /\ \A i \in Jobs : Deed(i)'
      /\ \A r \in Servers \ overlapped' : Orderly(r)'
  BY <1>1, <1>2, Setback, Pairs DEF opVars, binVars
<1>5. ASSUME NEW q \in Reqs PROVE Loop(q)'
  <2>1. Loop(q) /\ req[q] \in ReqSet /\ req' = req /\ told' = told
    BY <1>1 DEF IInv, Typed, opVars
  <2> QED
    BY <1>2, <2>1, Pairs, SameLoop DEF Cut
<1>6. Typed' /\ Shelves'
  BY <1>1, <1>2, <1>3 DEF IInv, Typed, Shelves, storeVars, opVars, binVars
<1> QED
  BY <1>4, <1>5, <1>6 DEF IInv

\* The dashboard knows again what the index says; no request goes on.
LEMMA DashboardRestartsStep ==
  ASSUME IInv, DashboardRestarts PROVE IInv'
<1>1. /\ entries' = IF index = Torn THEN [v \in Versions |-> None] ELSE index
      /\ dl' = NoStore /\ tokens' = {}
      /\ req' = [q \in Reqs |-> IF req[q].pc = "new" THEN NoReq ELSE Ended]
      /\ Offline(Servers) /\ job' = Lost(Jobs)
      /\ info' = Unsaid(Servers)
      /\ UNCHANGED <<files, index, uploads, told, binVars, row, signed>>
  BY DEF DashboardRestarts
<1>2. /\ job' \in [Jobs -> JobSet] /\ \A i \in Jobs : Cut(i)
      /\ \A i \in Jobs : job[i].pc \in {"result", "drain"} => job'[i].pc = job[i].pc
  BY <1>1, LostJobs
<1>3. /\ link' \in [Servers -> BOOLEAN] /\ cap' \in [Servers -> BOOLEAN]
      /\ info' \in [Servers -> Builds \cup {None}]
  BY <1>1, CutOff
<1>4. /\ \A i \in Jobs : Deed(i)'
      /\ \A r \in Servers \ overlapped' : Orderly(r)'
  BY <1>1, <1>2, Setback, Pairs DEF binVars
<1>5. /\ NoReq \in ReqSet /\ NoReq.pc = "new" /\ NoReq.todo = <<>>
      /\ Ended \in ReqSet /\ Ended.pc = "end" /\ Ended.todo = <<>>
  <2>1. <<>> \in Seq(Servers)
    OBVIOUS
  <2>2. NoReq \in ReqSet /\ NoReq.pc = "new" /\ NoReq.todo = <<>>
    BY <2>1 DEF NoReq, ReqSet, Blobs
  <2> QED
    BY <2>1, <2>2 DEF Ended, NoReq, ReqSet
<1>6. req' \in [Reqs -> ReqSet]
  BY <1>1, <1>5
<1>7. ASSUME NEW q \in Reqs PROVE Loop(q)'
  <2>1. /\ req'[q].todo = <<>> /\ req'[q].pc \in {"new", "end"}
        /\ req'[q].pc = "new" => req[q].pc = "new"
    BY <1>1, <1>5
  <2>2. 1 .. Len(req'[q].todo) = {} /\ Ahead(q)' = {}
    BY <2>1 DEF Ahead
  <2>3. req'[q].pc = "new" =>
          \A s \in Servers : told'[<<q, s>>] = "none" /\ job'[<<q, s>>].kind = "none"
    BY <1>1, <1>2, <2>1, Pairs DEF IInv, Loop, Cut
  <2> QED
    BY <2>1, <2>2, <2>3 DEF Loop
<1>8. entries' \in Entries
  <2>1. CASE index = Torn
    BY <1>1, <2>1 DEF Entries
  <2>2. CASE index # Torn
    BY <1>1, <2>2 DEF IInv, Typed
  <2> QED
    BY <2>1, <2>2
<1>9. NoStore \in DlSet /\ NoStore.pc = "idle"
  BY DEF NoStore, DlSet
<1>10. Typed'
  BY <1>1, <1>2, <1>3, <1>6, <1>8, <1>9 DEF IInv, Typed, binVars
<1>11. Shelves'
  <2>1. \A v \in Versions : entries'[v] # None => index # Torn /\ entries'[v] = index[v]
    BY <1>1
  <2> QED
    BY <1>1, <1>9, <2>1 DEF IInv, Shelves
<1> QED
  BY <1>4, <1>7, <1>10, <1>11 DEF IInv

LEMMA ConnectStep ==
  ASSUME IInv, NEW s \in Servers, Connect(s) \/ AgentInfo(s) PROVE IInv'
<1>1. UNCHANGED <<storeVars, opVars, job, binVars>>
  BY DEF Connect, AgentInfo
<1>2. /\ link' \in [Servers -> BOOLEAN] /\ cap' \in [Servers -> BOOLEAN]
      /\ row' \in [Servers -> Builds \cup {None}] /\ signed' \subseteq Servers
      /\ info' \in [Servers -> Builds \cup {None}]
  <2>1. CASE Connect(s)
    <3>1. running[s] \in Builds
      BY <2>1 DEF Connect, IInv, Typed, Contents
    <3> QED
      BY <2>1, <3>1 DEF Connect, IInv, Typed
  <2>2. CASE AgentInfo(s)
    BY <2>2 DEF AgentInfo, IInv, Typed
  <2> QED
    BY <2>1, <2>2
<1>3. Typed' /\ Shelves'
  BY <1>1, <1>2 DEF IInv, Typed, Shelves, storeVars, opVars, binVars
<1>4. \A q \in Reqs : Loop(q)'
  BY <1>1, SameLoop DEF IInv, Typed, opVars
<1>5. \A i \in Jobs : Deed(i)'
  BY <1>1 DEF IInv, Deed, binVars, opVars
<1>6. \A r \in Servers \ overlapped' : Orderly(r)'
  BY <1>1, SameServer DEF IInv, opVars, binVars
<1> QED
  BY <1>3, <1>4, <1>5, <1>6 DEF IInv

-----------------------------------------------------------------------------
(* The invariant, and what follows.                                        *)

LEMMA Initially ==
  ASSUME ReleasesAssumption, Init PROVE IInv
<1>1. /\ files = Stored /\ uploads = 0 /\ dl = NoStore /\ index = entries
      /\ entries = [v \in Versions |->
                      IF Stored[v] = None THEN None ELSE [sum |-> Stored[v], at |-> 0]]
  BY DEF Init
<1>2. Stored \in [Versions -> Blobs] /\ MaxUploads \in Nat /\ Origin \in Contents
  BY DEF ReleasesAssumption, Blobs, Contents
<1>3. ASSUME NEW v \in Versions
      PROVE  /\ entries[v] \in [sum : Builds, at : 0 .. MaxUploads] \cup {None}
             /\ entries[v] # None => files[v] # None /\ entries[v].at = 0
  <2>1. CASE Stored[v] = None
    BY <1>1, <2>1
  <2>2. CASE Stored[v] # None
    <3>1. entries[v] = [sum |-> Stored[v], at |-> 0]
      BY <1>1, <2>2
    <3>2. Stored[v] \in Builds
      BY <2>2 DEF ReleasesAssumption
    <3> QED
      BY <1>1, <1>2, <2>2, <3>1, <3>2
  <2> QED
    BY <2>1, <2>2
<1>4. entries \in Entries
  BY <1>1, <1>3 DEF Entries
<1>5. NoStore \in DlSet /\ NoStore.pc = "idle"
  BY DEF NoStore, DlSet
<1>6. NoReq \in ReqSet /\ NoReq.pc = "new" /\ NoReq.todo = <<>>
  <2>1. <<>> \in Seq(Servers)
    OBVIOUS
  <2> QED
    BY <2>1 DEF NoReq, ReqSet, Blobs
<1>7. /\ NoJob \in JobSet /\ NoJob.kind = "none" /\ NoJob.pc = "none" /\ NoJob.ok = FALSE
      /\ NoJob.sum = None
  BY DEF NoJob, JobSet, Pcs, Blobs
<1>8. /\ req = [q \in Reqs |-> NoReq] /\ told = [j \in Jobs |-> "none"] /\ tokens = {}
      /\ job = [j \in Jobs |-> NoJob]
      /\ exe = [s \in Servers |-> Origin] /\ running = exe
      /\ tmp = [s \in Servers |-> None] /\ backup = tmp
      /\ overlapped = {} /\ signed = {}
  BY DEF Init
<1>9. /\ busy = [s \in Servers |-> TRUE] /\ installed = [s \in Servers |-> {Origin}]
      /\ link = [s \in Servers |-> FALSE] /\ cap = [s \in Servers |-> FALSE]
      /\ row = [s \in Servers |-> None] /\ info = [s \in Servers |-> None]
  BY DEF Init
<1>10. /\ tmp \in [Servers -> Blobs] /\ {Origin} \in SUBSET Blobs
       /\ busy \in [Servers -> BOOLEAN] /\ link \in [Servers -> BOOLEAN]
       /\ cap \in [Servers -> BOOLEAN]
  <2>1. None \in Blobs /\ Origin \in Blobs
    BY <1>2 DEF Blobs
  <2> QED
    BY <1>8, <1>9, <2>1
<1>11. Typed
  BY <1>1, <1>2, <1>4, <1>5, <1>6, <1>7, <1>8, <1>9, <1>10 DEF Typed
<1>12. Shelves
  BY <1>1, <1>3, <1>5 DEF Shelves
<1>13. ASSUME NEW q \in Reqs PROVE Loop(q)
  <2>1. req[q].todo = <<>> /\ req[q].pc = "new"
    BY <1>6, <1>8
  <2>2. 1 .. Len(req[q].todo) = {} /\ Ahead(q) = {}
    BY <2>1 DEF Ahead
  <2>3. \A s \in Servers : told[<<q, s>>] = "none" /\ job[<<q, s>>].kind = "none"
    BY <1>7, <1>8, Pairs
  <2> QED
    BY <2>1, <2>2, <2>3 DEF Loop
<1>14. \A j \in Jobs : Deed(j)
  BY <1>7, <1>8 DEF Deed
<1>15. ASSUME NEW s \in Servers PROVE Orderly(s)
  <2>1. At(s) \subseteq Jobs
    BY DEF At
  <2>2. \A i \in At(s) : job[i] = NoJob /\ ~Active(i) /\ told[i] = "none"
    BY <1>7, <1>8, <2>1 DEF Active
  <2>3. exe[s] \in Announced(s) /\ busy[s]
    BY <1>8, <1>9 DEF Announced
  <2> QED
    BY <1>7, <2>2, <2>3 DEF Orderly
<1> QED
  BY <1>11, <1>12, <1>13, <1>14, <1>15 DEF IInv

LEMMA Stutter ==
  ASSUME IInv, UNCHANGED vars PROVE IInv'
<1>1. UNCHANGED <<storeVars, opVars, netVars, job, binVars, rowVars>>
  BY DEF vars
<1> QED
  BY <1>1, StoreOnly DEF IInv, Typed, Shelves, storeVars

LEMMA Inductive ==
  ASSUME ReleasesAssumption, IInv, [Next]_vars PROVE IInv'
<1>1. CASE Store
  <2>1. CASE Upload \/ DownloadFromRelease \/ DownloadReleaseAuto \/ DownloadCustom
    <3>1. \E v \in Versions, b \in Builds : Begin(v, b)
      BY <2>1 DEF Upload, DownloadFromRelease, DownloadReleaseAuto, DownloadCustom,
                  ReleasesAssumption
    <3> QED
      BY <3>1, BeginStep
  <2>2. CASE StoreFile
    BY <2>2, StoreFileStep
  <2>3. CASE StoreFails \/ SaveIndex
    BY <2>3, StoreEndsStep
  <2> QED
    BY <1>1, <2>1, <2>2, <2>3 DEF Store
<1>2. CASE DashboardRestarts
  BY <1>2, DashboardRestartsStep
<1>3. ASSUME NEW q \in Reqs, Request(q) PROVE IInv'
  BY <1>3, AskStep, GetBinaryStep, ReadFileStep, SendStep, TimesOutStep DEF Request
<1>4. ASSUME NEW j \in Jobs, Command(j) PROVE IInv'
  <2>1. CASE Receive(j) \/ Download(j) \/ Serve(j) \/ Verify(j) \/ OpenTmp(j) \/ WriteTmp(j)
    BY <2>1, ReceiveStep, DownloadStep, ServeStep, VerifyStep, OpenTmpStep, WriteTmpStep
  <2>2. CASE \/ Rename(j) \/ OpenExe(j) \/ Undo(j) \/ RestartCommand(j) \/ Result(j)
             \/ WriteResult(j) \/ HandleResult(j)
    BY <2>2, RenameStep, OpenExeStep, UndoStep, RestartCommandStep, ResultStep,
       WriteResultStep, HandleResultStep
  <2>3. CASE Restart(j)
    BY <2>3, Pairs, ReplacedStep DEF Restart
  <2> QED
    BY <1>4, <2>1, <2>2, <2>3 DEF Command
<1>5. ASSUME NEW s \in Servers, Agent(s) PROVE IInv'
  <2>1. CASE Crash(s)
    BY <2>1, ReplacedStep DEF Crash
  <2>2. CASE Connect(s) \/ AgentInfo(s)
    BY <2>2, ConnectStep
  <2>3. CASE Drop(s)
    BY <2>3, DropStep
  <2> QED
    BY <1>5, <2>1, <2>2, <2>3 DEF Agent
<1>6. CASE UNCHANGED vars
  BY <1>6, Stutter
<1> QED
  BY <1>1, <1>2, <1>3, <1>4, <1>5, <1>6 DEF Next

\* The invariant holds in every state.
THEOREM Invariant == Spec => []IInv
<1>1. Init => IInv
  BY ReleasesAssumption, Initially
<1>2. IInv /\ [Next]_vars => IInv'
  BY ReleasesAssumption, Inductive
<1> QED
  BY <1>1, <1>2, PTL DEF Spec

\* Every variable has its type: what the store knows has a file, no entry is
\* newer than the number of binaries stored (UpdateStore), a request that is
\* not over has a server before it (HandleUpdateAll), and what is executed is
\* a build or the remains of one.
THEOREM Typing == Spec => []TypeOK
<1>1. IInv => TypeOK
  <2> SUFFICES ASSUME IInv PROVE TypeOK
    OBVIOUS
  <2>1. files \in [Versions -> Contents \cup {None}]
    BY DEF IInv, Typed, Blobs
  <2>2. dl.pc \in {"idle", "write", "index"} /\ dl.data \in Builds \cup {None}
    BY DEF IInv, Typed, DlSet
  <2>3. \A v \in Known : files[v] # None
    BY DEF IInv, Shelves, Known
  <2>4. ASSUME NEW q \in Reqs
        PROVE  /\ req[q].pc \in {"new", "next", "read", "send", "wait", "end"}
               /\ req[q].todo = <<>> <=> req[q].pc \in {"new", "end"}
               /\ req[q].data \in Contents \cup {None}
    BY DEF IInv, Typed, ReqSet, Loop, Blobs
  <2>5. tokens \subseteq {j \in Jobs : job[j].kind = "update"}
    BY DEF IInv, Typed, Deed
  <2>6. ASSUME NEW j \in Jobs
        PROVE  /\ job[j].kind \in {"none", "update", "restart"}
               /\ job[j].pc \in Pcs
               /\ job[j].hand \in {"none", "tmp", "exe", "lost"}
               /\ job[j].res \in {"none", "queued", "writing"}
               /\ job[j].data \in Contents \cup {None}
    BY DEF IInv, Typed, JobSet, Blobs
  <2> QED
    BY <2>1, <2>2, <2>3, <2>4, <2>5, <2>6 DEF TypeOK, IInv, Typed, Pcs, Blobs
<1> QED
  BY <1>1, Invariant, PTL

\* What lies at the path of an agent's executable is a whole binary that was
\* announced to that agent with its checksum, or the one it was installed
\* with, wherever anything is cut off: as long as the agent was given one
\* update after the other (VerifyAndReplaceBinary, RollbackBinary).
THEOREM Sound == Spec => []SoundExecutable
<1>1. IInv => SoundExecutable
  BY DEF IInv, Orderly, SoundExecutable
<1> QED
  BY <1>1, Invariant, PTL

\* What an operator is told was done has been done: the binary of an update
\* that is reported as a success has been installed at that agent
\* (HandleUpdateAgent, HandleUpdateAll).
THEOREM Truthful == Spec => []NoFalseSuccess
<1>1. IInv => NoFalseSuccess
  <2> SUFFICES ASSUME IInv, NEW j \in Jobs, told[j] = "ok", job[j].kind = "update",
                      j[2] \notin overlapped
               PROVE  job[j].sum \in installed[j[2]]
    BY DEF NoFalseSuccess
  <2>1. Orderly(j[2]) /\ j \in At(j[2])
    BY Pairs DEF IInv
  <2> QED
    BY <2>1 DEF Orderly
<1> QED
  BY <1>1, Invariant, PTL
=============================================================================
