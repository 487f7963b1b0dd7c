---------------------------- MODULE AccessProofs ----------------------------
(***************************************************************************)
(* Theorems about Access, for any number of requests, tokens, passwords    *)
(* and passkeys, any interleaving of the handlers, and deaths and refused  *)
(* writes wherever they come.                                              *)
(***************************************************************************)
EXTENDS Access, FiniteSetTheorems, SequenceTheorems, WellFoundedInduction, TLAPS

USE DEF vars, bootVars

\* A request is a record of these fields, and one that proves a token names one.
RequestFields == {"kind", "pc", "tok", "val", "snap", "alone"}
TokenKinds == Ceremonies \cup {"link", "wallet", "enrol"}
Shape ==
  /\ DOMAIN req = Reqs /\ DOMAIN mem = Fields /\ DOMAIN saved = Fields
  /\ \A r \in Reqs :
       /\ DOMAIN req[r] = RequestFields
       /\ req[r].pc = "prove" /\ req[r].kind \in TokenKinds => req[r].tok \in Tokens

\* What is still good has never been used.
TokenOf == [map : {"none", "gone", "session", "challenge", "registration"},
            for : Addresses \cup {None} \cup Ceremonies, late : BOOLEAN]
Unused ==
  /\ tok \in [Tokens -> TokenOf] /\ granted \in [Tokens -> {0, 1}]
  /\ \A t \in Tokens : tok[t].map # "gone" => granted[t] = 0
  /\ \A t \in Tokens : tok[t].map = "none" => tok[t] = Unknown

\* Nothing is under way while the dashboard is down.  A request that changed a
\* field while no other was storing it, and has not been overtaken, is the only
\* one that is storing it, and stores what memory has; and as long as nothing
\* else has happened to a field, whoever stores it is such a request.
Alone(f) == \A r \in Storing(f) : req[r].alone =>
  /\ Storing(f) = {r}
  /\ f # "passkeys" => req[r].snap = {mem[f]}
  /\ f = "passkeys" /\ req[r].pc = "save" => req[r].snap = mem[f]
Storings ==
  /\ ~Up => \A r \in Reqs : req[r].pc \in {"idle", "end"}
  /\ \A r \in Reqs : req[r].pc = "snapshot" => FieldOf(r) = "passkeys"
  /\ \A f \in Fields : /\ Alone(f)
                       /\ f \notin raced => \A r \in Storing(f) : req[r].alone
                       /\ Up /\ f \notin raced /\ Storing(f) = {} => saved[f] = mem[f]

AccessInv == Shape /\ Unused /\ Storings

-----------------------------------------------------------------------------
(* What most steps do to the requests, and what the others do to tokens *)

\* A request goes on to a step that neither proves nor stores anything.
Quiet(r) ==
  /\ req[r].pc \notin {"snapshot", "save"}
  /\ req' = [req EXCEPT ![r] = req'[r]]
  /\ DOMAIN req'[r] = RequestFields /\ req'[r].pc \notin {"snapshot", "save"}
  /\ req'[r].pc = "prove" /\ req'[r].kind \in TokenKinds => req'[r].tok \in Tokens
  /\ Up /\ UNCHANGED <<mem, saved, raced, boot>>

\* A token is spent, whether or not it was any good ...
Spent(t) ==
  /\ t \in Tokens /\ granted' = granted
  /\ tok' = tok \/ (tok[t] # Unknown /\ tok' = [tok EXCEPT ![t] = Gone])

\* ... or accepted.
Accepted(t) ==
  /\ t \in LiveTokens /\ granted' = [granted EXCEPT ![t] = 1]
  /\ tok' = [tok EXCEPT ![t] = Gone]

USE DEF RequestFields, TokenKinds, TokenOf, Unknown, Gone

\* A handler spends at most one token, or accepts one that is good.
LEMMA TokenMoves ==
  ASSUME AccessInv, NEW r \in Reqs, Handler(r)
  PROVE  UNCHANGED <<tok, granted>> \/ \E t \in Tokens : Spent(t) \/ Accepted(t)
<1> USE DEF AccessInv
<1>1. ASSUME NEW t \in Tokens, NEW map \in {"session", "challenge", "registration"},
             Spend(t, map), NEW ok \in BOOLEAN, ok => Good(t, map), Accept(t, ok)
      PROVE  Spent(t) \/ Accepted(t)
  <2>1. tok[t].map = map => tok[t] # Unknown
    OBVIOUS
  <2>2. CASE ok
    <3>1. tok[t].map = map /\ ~tok[t].late /\ granted[t] = 0
      BY <1>1, <2>2 DEF Good, Unused
    <3>2. granted' = [granted EXCEPT ![t] = 1]
      BY <1>1, <2>2, <3>1 DEF Accept
    <3>3. QED
      BY <1>1, <3>1, <3>2 DEF Spend, Accepted, LiveTokens
  <2>3. CASE ~ok
    BY <1>1, <2>1, <2>3 DEF Spend, Accept, Spent
  <2>4. QED
    BY <2>2, <2>3
<1>2. ASSUME NEW t \in Tokens, NEW map \in {"session", "challenge", "registration"},
             Spend(t, map), granted' = granted
      PROVE  Spent(t)
  BY <1>2 DEF Spend, Spent
<1>3. ASSUME VerifySignature(r) \/ VerifySetupSignature(r)
      PROVE  \E t \in Tokens : Spent(t) \/ Accepted(t)
  <2>1. req[r].pc = "prove" /\ req[r].kind \in TokenKinds
    BY <1>3 DEF VerifySignature, VerifySetupSignature
  <2>2. PICK t \in Tokens : t = req[r].tok
    BY <2>1 DEF Shape
  <2>3. \/ Spend(t, "challenge") /\ granted' = granted
        \/ UNCHANGED <<tok, granted>>
        \/ Good(t, "challenge") /\ \E ok \in BOOLEAN : Spend(t, "challenge") /\ Accept(t, ok)
    <3>1. CASE VerifySignature(r)
      BY <2>2, <3>1 DEF VerifySignature
    <3>2. CASE VerifySetupSignature(r)
      BY <2>2, <3>2 DEF VerifySetupSignature
    <3>3. QED
      BY <1>3, <3>1, <3>2
  <2>4. QED
    BY <1>1, <1>2, <2>3 DEF Spent
<1>4. ASSUME Validate(r)
      PROVE  \E t \in Tokens : Spent(t) \/ Accepted(t)
  <2>1. PICK t \in Tokens : t = req[r].tok
    BY <1>4 DEF Shape, Validate
  <2>2. Spend(t, "registration") /\ Accept(t, Good(t, "registration"))
    BY <1>4, <2>1 DEF Validate
  <2>3. CASE Good(t, "registration")
    BY <1>1, <2>2, <2>3 DEF Accept
  <2>4. CASE ~Good(t, "registration")
    BY <1>2, <2>2, <2>4 DEF Accept
  <2>5. QED
    BY <2>3, <2>4
<1>5. ASSUME FinishRegistration(r) \/ FinishLogin(r)
      PROVE  \E t \in Tokens : Spent(t) \/ Accepted(t)
  <2>1. req[r].pc = "prove" /\ req[r].kind \in TokenKinds
    BY <1>5 DEF FinishRegistration, FinishLogin, Ceremonies
  <2>2. PICK t \in Tokens : t = req[r].tok
    BY <2>1 DEF Shape
  <2>3. \E ok \in BOOLEAN : Spend(t, "session") /\ (ok => Good(t, "session")) /\ Accept(t, ok)
    <3>1. CASE FinishRegistration(r)
      BY <2>2, <3>1 DEF FinishRegistration
    <3>2. CASE FinishLogin(r)
      BY <2>2, <3>2 DEF FinishLogin
    <3>3. QED
      BY <1>5, <3>1, <3>2
  <2>4. QED
    BY <1>1, <2>3
<1>6. ASSUME ~(VerifySignature(r) \/ VerifySetupSignature(r)), ~Validate(r),
             ~(FinishRegistration(r) \/ FinishLogin(r))
      PROVE  UNCHANGED <<tok, granted>>
  BY <1>6 DEF Handler, Allow, RecordFailure, Reset, CheckSetup, Verify, SetPassword, SetAddress,
     RemoveAddress, DeletePasskey, Credentials, Save, Issue, Refresh, Recover, CreateServer
<1>7. QED
  BY <1>3, <1>4, <1>5, <1>6

\* A restart brings back what the last handler has set, once it has stored it;
\* with the invariant that the theorem after this one rests on too.
THEOREM SettingsDurable == Spec => [](Durable /\ AccessInv)
<1>1. Init => AccessInv
  <2>1. Init => Shape
    BY DEF Init, Shape, Blank, Configured, Fields, Idle, RequestFields
  <2>2. Init => Unused
    BY DEF Init, Unused, TokenOf, Unknown
  <2>3. Init => Storings
    BY DEF Init, BootInit, Storings, Alone, Storing, Idle, Up
  <2>4. QED
    BY <2>1, <2>2, <2>3 DEF AccessInv
<1>2. ASSUME AccessInv, [Next]_vars PROVE AccessInv'
  <2> USE <1>2 DEF AccessInv
  <2>1. ASSUME NEW r \in Reqs, Quiet(r) PROVE Shape' /\ Storings'
    <3>1. /\ DOMAIN req' = Reqs
          /\ \A o \in Reqs \ {r} : req'[o] = req[o]
      BY <2>1 DEF Quiet, Shape
    <3>2. Shape'
      BY <2>1, <3>1 DEF Quiet, Shape
    <3>3. \A f \in Fields : Storing(f)' = Storing(f) /\ r \notin Storing(f)
      BY <2>1, <3>1 DEF Quiet, Storing, FieldOf
    <3>4. \A f \in Fields : \A o \in Storing(f) :
             req'[o] = req[o] /\ FieldOf(o)' = FieldOf(o)
      BY <3>1, <3>3 DEF Storing, FieldOf
    <3>5. \A f \in Fields : Alone(f)'
      BY <2>1, <3>3, <3>4 DEF Quiet, Storings, Alone
    <3>6. \A o \in Reqs : req'[o].pc = "snapshot" => FieldOf(o)' = "passkeys"
      BY <2>1, <3>1 DEF Quiet, Storings, FieldOf
    <3>7. Up'
      BY <2>1 DEF Quiet, Up
    <3>8. QED
      BY <2>1, <3>2, <3>3, <3>4, <3>5, <3>6, <3>7 DEF Quiet, Storings
  <2>2. ASSUME NEW t, Spent(t) PROVE Unused'
    <3>1. Gone \in TokenOf /\ Gone.map = "gone"
      OBVIOUS
    <3>2. CASE tok' = tok
      BY <2>2, <3>2 DEF Spent, Unused
    <3>3. CASE tok' = [tok EXCEPT ![t] = Gone]
      BY <2>2, <3>1, <3>3 DEF Spent, Unused
    <3>4. QED
      BY <2>2, <3>2, <3>3 DEF Spent
  <2>3. ASSUME NEW t, Accepted(t) PROVE Unused'
    BY <2>3 DEF Accepted, Unused, Gone, Unknown, TokenOf, LiveTokens
  <2>4. UNCHANGED <<tok, granted>> => Unused'
    BY DEF Unused
  <2>5. \A r \in Reqs : req[r].pc \notin {"idle", "end"} => Up
    BY DEF Storings
  <2>6. ASSUME NEW r \in Reqs, NEW value, NEW pc \in {"snapshot", "save"}, Change(r, value, pc),
               req[r].pc \in {"set", "prove"}, UNCHANGED <<saved, boot>>,
               pc = "snapshot" <=> FieldOf(r) = "passkeys"
        PROVE  Shape' /\ Storings'
    <3>0. PICK g \in Fields : g = FieldOf(r)
      <4>1. FieldOf(r) \in Fields
        BY DEF FieldOf, Fields, Ceremonies
      <4>2. QED
        BY <4>1
    <3>1. /\ DOMAIN req' = Reqs /\ DOMAIN mem' = Fields
          /\ mem'[g] = value /\ \A f \in Fields \ {g} : mem'[f] = mem[f]
          /\ \A o \in Reqs \ {r} : o \notin Storing(g) => req'[o] = req[o]
          /\ \A o \in Storing(g) \ {r} : req'[o] = [req[o] EXCEPT !.alone = FALSE]
          /\ req'[r] = [Idle EXCEPT !.kind = req[r].kind, !.pc = pc, !.alone = Storing(g) = {},
                                    !.snap = IF g = "passkeys" THEN {} ELSE {value}]
      <4>1. /\ mem' = [mem EXCEPT ![g] = value]
            /\ req' = [o \in Reqs |->
                 IF o = r THEN [Idle EXCEPT !.kind = req[r].kind, !.pc = pc, !.alone = Storing(g) = {},
                                            !.snap = IF g = "passkeys" THEN {} ELSE {value}]
                 ELSE IF o \in Storing(g) THEN [req[o] EXCEPT !.alone = FALSE] ELSE req[o]]
        BY <2>6, <3>0 DEF Change
      <4>2. Storing(g) \subseteq Reqs /\ DOMAIN mem = Fields
        BY DEF Storing, Shape
      <4>3. DOMAIN mem' = Fields /\ mem'[g] = value /\ \A f \in Fields \ {g} : mem'[f] = mem[f]
        BY <4>1, <4>2, <3>0
      <4>4. QED
        BY <4>1, <4>2, <4>3, <2>6
    <3>2. g = FieldOf(r) /\ r \notin Storing(g) /\ Storing(g) \subseteq Reqs
      BY <2>6, <3>0 DEF Storing
    <3>3. /\ req'[r].kind = req[r].kind /\ req'[r].pc = pc /\ (Storing(g) = {} => req'[r].alone)
          /\ Storing(g) # {} => ~req'[r].alone
          /\ req'[r].snap = IF g = "passkeys" THEN {} ELSE {value}
          /\ DOMAIN req'[r] = RequestFields
      BY <3>1 DEF Idle, RequestFields
    <3>4. \A o \in Reqs \ {r} : /\ req'[o].kind = req[o].kind /\ req'[o].pc = req[o].pc
                                /\ req'[o].snap = req[o].snap /\ req'[o].tok = req[o].tok
                                /\ DOMAIN req'[o] = RequestFields
                                /\ o \notin Storing(g) => req'[o].alone = req[o].alone
                                /\ o \in Storing(g) => req'[o].alone = FALSE
      <4> SUFFICES ASSUME NEW o \in Reqs \ {r}
                   PROVE  /\ req'[o].kind = req[o].kind /\ req'[o].pc = req[o].pc
                          /\ req'[o].snap = req[o].snap /\ req'[o].tok = req[o].tok
                          /\ DOMAIN req'[o] = RequestFields
                          /\ o \notin Storing(g) => req'[o].alone = req[o].alone
                          /\ o \in Storing(g) => req'[o].alone = FALSE
        OBVIOUS
      <4>1. DOMAIN req[o] = RequestFields
        BY DEF Shape
      <4>2. CASE o \in Storing(g)
        <5>1. req'[o] = [req[o] EXCEPT !.alone = FALSE]
          BY <3>1, <4>2
        <5>2. QED
          BY <4>1, <4>2, <5>1
      <4>3. CASE o \notin Storing(g)
        BY <3>1, <4>1, <4>3
      <4>4. QED
        BY <4>2, <4>3
    <3>5. Shape'
      <4>1. DOMAIN req' = Reqs /\ DOMAIN mem' = Fields /\ DOMAIN saved' = Fields
        BY <2>6, <3>1 DEF Shape
      <4>2. DOMAIN req'[r] = RequestFields /\ req'[r].pc # "prove"
        BY <2>6, <3>3
      <4>3. \A o \in Reqs \ {r} :
              /\ DOMAIN req'[o] = RequestFields
              /\ req'[o].pc = "prove" /\ req'[o].kind \in TokenKinds => req'[o].tok \in Tokens
        BY <3>4 DEF Shape
      <4>4. QED
        BY <4>1, <4>2, <4>3 DEF Shape
    <3>6. \A o \in Reqs : FieldOf(o)' = FieldOf(o)
      BY <3>3, <3>4 DEF FieldOf
    <3>7. /\ \A f \in Fields \ {g} : Storing(f)' = Storing(f)
          /\ Storing(g)' = Storing(g) \cup {r}
      BY <2>6, <3>0, <3>3, <3>4, <3>6 DEF Storing
    <3>10. \A f \in Fields : Alone(f)'
      <4>1. \A f \in Fields \ {g} : r \notin Storing(f) /\ Storing(f) \cap Storing(g) = {}
        BY <2>6, <3>0 DEF Storing
      <4>2. \A f \in Fields \ {g} : Alone(f)'
        BY <3>1, <3>4, <3>7, <4>1 DEF Storings, Alone, Storing
      <4>3. Alone(g)'
        <5>1. CASE Storing(g) = {}
          <6>1. Storing(g)' = {r} /\ (g = "passkeys" => req'[r].pc = "snapshot")
            BY <2>6, <3>2, <3>3, <3>7, <5>1
          <6>2. QED
            BY <3>1, <3>3, <6>1 DEF Alone
        <5>2. CASE Storing(g) # {}
          BY <3>2, <3>3, <3>4, <3>7, <5>2 DEF Alone
        <5>3. QED
          BY <5>1, <5>2
      <4>4. QED
        BY <4>2, <4>3
    <3>11. \A o \in Reqs : req'[o].pc = "snapshot" => FieldOf(o)' = "passkeys"
      BY <2>6, <3>0, <3>3, <3>4, <3>6 DEF Storings
    <3>12. raced' = IF Storing(g) = {} THEN raced ELSE raced \cup {g}
      BY <2>6, <3>0 DEF Change
    <3>13. Up' /\ Up
      BY <2>5, <2>6 DEF Up
    <3>14. ASSUME NEW f \in Fields, f \notin raced'
           PROVE  /\ \A o \in Storing(f)' : req'[o].alone
                  /\ Storing(f)' = {} => saved'[f] = mem'[f]
      <4>1. f \notin raced
        BY <3>12, <3>14
      <4>2. CASE f = g
        <5>1. Storing(g) = {}
          BY <3>12, <3>14, <4>2
        <5>2. QED
          BY <3>3, <3>7, <4>2, <5>1
      <4>3. CASE f # g
        <5>1. \A o \in Storing(f) : o # r /\ o \in Reqs /\ o \notin Storing(g)
          BY <2>6, <3>0, <4>3 DEF Storing
        <5>2. QED
          BY <2>6, <3>0, <3>1, <3>4, <3>7, <3>13, <3>14, <4>1, <4>3, <5>1 DEF Storings
      <4>4. QED
        BY <4>2, <4>3
    <3>15. QED
      BY <3>5, <3>10, <3>11, <3>13, <3>14 DEF Storings
  \* Steps of the requests.
  <2>10. ASSUME NEW r \in Reqs, Quiet(r), UNCHANGED <<tok, granted>> PROVE AccessInv'
    BY <2>1, <2>4, <2>10
  <2>11. ASSUME NEW r \in Reqs, Ask(r) PROVE AccessInv'
    <3>0. PICK k \in Kinds : \E v \in Vals(k), t \in Toks(k) :
             req' = [req EXCEPT ![r] = [Idle EXCEPT !.kind = k, !.pc = First(k), !.tok = t, !.val = v]]
      BY <2>11 DEF Ask
    <3>1. PICK v \in Vals(k), t \in Toks(k) :
             req' = [req EXCEPT ![r] = [Idle EXCEPT !.kind = k, !.pc = First(k), !.tok = t, !.val = v]]
      BY <3>0
    <3>2. k \in TokenKinds => t \in Tokens
      BY <3>1 DEF Toks
    <3>3. First(k) \notin {"snapshot", "save"}
      BY DEF First
    <3>4. req'[r] = [Idle EXCEPT !.kind = k, !.pc = First(k), !.tok = t, !.val = v]
      BY <3>1 DEF Shape
    <3>5. DOMAIN req'[r] = RequestFields /\ req'[r].kind = k /\ req'[r].pc = First(k) /\ req'[r].tok = t
      BY <3>4 DEF Idle
    <3>6. Quiet(r)
      BY <2>11, <3>1, <3>2, <3>3, <3>4, <3>5 DEF Quiet, Ask
    <3>7. QED
      BY <2>10, <2>11, <3>6 DEF Ask
  <2>12. ASSUME NEW r \in Reqs, NEW pc, pc \notin {"prove", "snapshot", "save"}, Up,
                req[r].pc \notin {"snapshot", "save"},
                \/ req' = [req EXCEPT ![r].pc = pc] \/ req' = At(r, pc)
                \/ req' = [req EXCEPT ![r] = Idle] \/ req' = End(r),
                UNCHANGED <<mem, saved, raced, boot>>
         PROVE  Quiet(r)
    <3>1. DOMAIN req = Reqs /\ DOMAIN req[r] = RequestFields
      BY DEF Shape
    <3>2. CASE req' = [req EXCEPT ![r].pc = pc]
      <4>1. req'[r] = [req[r] EXCEPT !.pc = pc] /\ req' = [req EXCEPT ![r] = req'[r]]
        BY <3>1, <3>2
      <4>2. QED
        BY <2>12, <3>1, <4>1 DEF Quiet
    <3>3. ASSUME NEW x, DOMAIN x = RequestFields, x.pc \notin {"prove", "snapshot", "save"},
                 req' = [req EXCEPT ![r] = x]
          PROVE  Quiet(r)
      <4>1. req'[r] = x /\ req' = [req EXCEPT ![r] = req'[r]]
        BY <3>1, <3>3
      <4>2. QED
        BY <2>12, <3>3, <4>1 DEF Quiet
    <3>4. CASE req' = At(r, pc)
      <4> DEFINE x == [Idle EXCEPT !.kind = req[r].kind, !.pc = pc,
                                   !.val = IF pc = "set" THEN req[r].val ELSE None]
      <4>1. DOMAIN x = RequestFields /\ x.pc = pc
        BY DEF Idle
      <4> HIDE DEF x
      <4>2. QED
        BY <2>12, <3>3, <3>4, <4>1 DEF At, x
    <3>5. CASE req' = [req EXCEPT ![r] = Idle]
      <4>1. DOMAIN Idle = RequestFields /\ Idle.pc = "idle"
        BY DEF Idle
      <4>2. QED
        BY <3>3, <3>5, <4>1
    <3>6. CASE req' = End(r)
      <4> DEFINE x == [Idle EXCEPT !.pc = IF req[r].kind \in Attempts THEN "idle" ELSE "end"]
      <4>1. DOMAIN x = RequestFields /\ x.pc \in {"idle", "end"}
        BY DEF Idle
      <4> HIDE DEF x
      <4>2. QED
        BY <3>3, <3>6, <4>1 DEF End, x
    <3>7. QED
      BY <2>12, <3>2, <3>4, <3>5, <3>6
  <2>13. ASSUME NEW r \in Reqs, Handler(r) PROVE Unused'
    BY <2>2, <2>3, <2>4, <2>13, TokenMoves
  <2>15. ASSUME NEW r \in Reqs,
                Allow(r) \/ RecordFailure(r) \/ Reset(r) \/ CheckSetup(r) \/ Verify(r)
                  \/ Issue(r) \/ Refresh(r) \/ Recover(r) \/ CreateServer(r)
         PROVE  AccessInv'
    <3>1. Up /\ req[r].pc \notin {"snapshot", "save"} /\ UNCHANGED <<mem, saved, raced, boot, tok, granted>>
      BY <2>5, <2>15 DEF Allow, RecordFailure, Reset, CheckSetup, Verify, Issue, Refresh, Recover,
         CreateServer, Granted, Refused
    <3>2. \E pc \in {"verify", "issue", "set", "reset", "fail"} :
            \/ req' = [req EXCEPT ![r].pc = pc] \/ req' = At(r, pc)
            \/ req' = [req EXCEPT ![r] = Idle] \/ req' = End(r)
      <4>1. CASE Allow(r)
        BY <4>1 DEF Allow
      <4>2. CASE RecordFailure(r)
        BY <4>2 DEF RecordFailure
      <4>3. CASE Reset(r)
        BY <4>3 DEF Reset
      <4>4. CASE CheckSetup(r)
        BY <4>4 DEF CheckSetup
      <4>5. CASE Verify(r)
        BY <4>5 DEF Verify
      <4>6. CASE Issue(r)
        BY <4>6 DEF Issue
      <4>7. CASE Refresh(r)
        BY <4>7 DEF Refresh
      <4>8. CASE Recover(r)
        BY <4>8 DEF Recover
      <4>9. CASE CreateServer(r)
        BY <4>9 DEF CreateServer
      <4>10. QED
        BY <2>15, <4>1, <4>2, <4>3, <4>4, <4>5, <4>6, <4>7, <4>8, <4>9
    <3>3. Quiet(r)
      BY <2>12, <3>1, <3>2
    <3>4. QED
      BY <2>10, <3>1, <3>3
  <2>16. ASSUME NEW r \in Reqs, VerifySignature(r) \/ VerifySetupSignature(r) \/ Validate(r)
         PROVE  AccessInv'
    <3>1. /\ Up /\ req[r].pc = "prove" /\ req[r].kind \in TokenKinds
          /\ UNCHANGED <<mem, saved, raced, boot>>
      BY <2>5, <2>16 DEF VerifySignature, VerifySetupSignature, Validate
    <3>3. \E pc \in {"issue", "set", "row"} : req' = At(r, pc) \/ req' = End(r)
      <4>1. CASE VerifySignature(r)
        BY <4>1 DEF VerifySignature
      <4>2. CASE VerifySetupSignature(r)
        BY <4>2 DEF VerifySetupSignature
      <4>3. CASE Validate(r)
        BY <4>3 DEF Validate
      <4>4. QED
        BY <2>16, <4>1, <4>2, <4>3
    <3>4. Quiet(r)
      BY <2>12, <3>1, <3>3
    <3>5. QED
      BY <2>1, <2>13, <2>16, <3>4 DEF Handler
  \* Steps that change a field.
  <2>17. ASSUME NEW r \in Reqs, SetPassword(r) \/ SetAddress(r) \/ RemoveAddress(r)
         PROVE  AccessInv'
    <3>1. /\ req[r].pc = "set" /\ UNCHANGED <<saved, boot, tok, granted>>
          /\ FieldOf(r) # "passkeys" /\ \E value : Change(r, value, "save")
      BY <2>17 DEF SetPassword, SetAddress, RemoveAddress, FieldOf, Ceremonies
    <3>2. PICK value : Change(r, value, "save")
      BY <3>1
    <3>3. Shape' /\ Storings'
      BY <2>6, <3>1, <3>2
    <3>4. QED
      BY <2>4, <3>1, <3>3
  <2>18. ASSUME NEW r \in Reqs, DeletePasskey(r) PROVE AccessInv'
    <3>1. /\ req[r].pc = "set" /\ UNCHANGED <<saved, boot, tok, granted>> /\ FieldOf(r) = "passkeys"
      BY <2>18 DEF DeletePasskey, FieldOf, Ceremonies
    <3>2. \/ Change(r, mem.passkeys \ {req[r].val}, "snapshot")
          \/ req' = End(r) /\ UNCHANGED <<mem, raced>>
      BY <2>18 DEF DeletePasskey
    <3>3. CASE Change(r, mem.passkeys \ {req[r].val}, "snapshot")
      BY <2>4, <2>6, <3>1, <3>3
    <3>4. CASE req' = End(r) /\ UNCHANGED <<mem, raced>>
      BY <2>5, <2>10, <2>12, <3>1, <3>4
    <3>5. QED
      BY <3>2, <3>3, <3>4
  <2>19. ASSUME NEW r \in Reqs, FinishRegistration(r) \/ FinishLogin(r) PROVE AccessInv'
    <3>1. /\ req[r].pc = "prove" /\ req[r].kind \in TokenKinds /\ UNCHANGED <<saved, boot>>
          /\ FieldOf(r) = "passkeys"
      BY <2>19 DEF FinishRegistration, FinishLogin, FieldOf, Ceremonies
    <3>2. Unused'
      BY <2>13, <2>19 DEF Handler
    <3>3. \/ \E value : Change(r, value, "snapshot")
          \/ req' = End(r) /\ UNCHANGED <<mem, raced>>
      <4>1. CASE FinishRegistration(r)
        BY <4>1 DEF FinishRegistration
      <4>2. CASE FinishLogin(r)
        BY <4>2 DEF FinishLogin
      <4>3. QED
        BY <2>19, <4>1, <4>2
    <3>4. CASE \E value : Change(r, value, "snapshot")
      BY <2>6, <3>1, <3>2, <3>4
    <3>5. CASE req' = End(r) /\ UNCHANGED <<mem, raced>>
      BY <2>1, <2>5, <2>12, <3>1, <3>2, <3>5
    <3>6. QED
      BY <3>3, <3>4, <3>5
  <2>20. ASSUME NEW r \in Reqs, Credentials(r) PROVE AccessInv'
    <3>1. /\ req[r].pc = "snapshot" /\ FieldOf(r) = "passkeys" /\ Up
          /\ UNCHANGED <<boot, mem, saved, raced, tok, granted>>
          /\ req' = [req EXCEPT ![r].snap = mem.passkeys, ![r].pc = "save"]
      BY <2>5, <2>20 DEF Credentials, Storings
    <3>2. /\ DOMAIN req' = Reqs /\ \A o \in Reqs \ {r} : req'[o] = req[o]
          /\ req'[r] = [req[r] EXCEPT !.snap = mem.passkeys, !.pc = "save"]
      BY <3>1 DEF Shape
    <3>3. /\ DOMAIN req'[r] = RequestFields /\ req'[r].kind = req[r].kind
          /\ req'[r].alone = req[r].alone
          /\ req'[r].snap = mem.passkeys /\ req'[r].pc = "save"
      BY <3>2 DEF Shape
    <3>4. \A o \in Reqs : FieldOf(o)' = FieldOf(o)
      BY <3>2, <3>3 DEF FieldOf
    <3>5. \A f \in Fields : Storing(f)' = Storing(f)
      BY <3>1, <3>2, <3>3, <3>4 DEF Storing
    <3>6. \A f \in Fields : r \in Storing(f) => f = "passkeys"
      BY <3>1 DEF Storing
    <3>7. \A f \in Fields : Alone(f)'
      BY <3>1, <3>2, <3>3, <3>5, <3>6 DEF Storings, Alone, Storing
    <3>8. Shape'
      BY <3>1, <3>2, <3>3 DEF Shape
    <3>9. Storings'
      <4>1. \A o \in Reqs : req'[o].pc = "snapshot" => FieldOf(o)' = "passkeys"
        <5> SUFFICES ASSUME NEW o \in Reqs, req'[o].pc = "snapshot" PROVE FieldOf(o)' = "passkeys"
          OBVIOUS
        <5>1. o # r /\ req[o].pc = "snapshot"
          BY <3>2, <3>3
        <5>2. QED
          BY <3>4, <5>1 DEF Storings
      <4>2. \A f \in Fields : f \notin raced' => \A o \in Storing(f)' : req'[o].alone
        BY <3>1, <3>2, <3>3, <3>5 DEF Storings, Storing
      <4>3. QED
        BY <3>1, <3>5, <3>7, <4>1, <4>2 DEF Storings, Up
    <3>10. QED
      BY <2>4, <3>1, <3>8, <3>9
  <2>21. ASSUME NEW r \in Reqs, Save(r) PROVE AccessInv'
    <3>0. PICK g \in Fields : g = FieldOf(r)
      BY DEF FieldOf, Fields, Ceremonies
    <3>1. /\ req[r].pc = "save" /\ Up /\ UNCHANGED <<boot, mem, tok, granted>>
          /\ \/ /\ saved' = [saved EXCEPT ![g] = Stored(r)]
                /\ raced' = IF req[r].alone THEN raced \ {g} ELSE raced
             \/ saved' = saved /\ raced' = raced \cup {g}
      BY <2>5, <2>21, <3>0 DEF Save
    <3>2. /\ req' = [req EXCEPT ![r] = req'[r]] /\ DOMAIN req'[r] = RequestFields
          /\ req'[r].pc \in {"issue", "idle", "end"}
      <4>1. req' = At(r, "issue") \/ req' = End(r)
        BY <2>21 DEF Save
      <4>2. CASE req' = At(r, "issue")
        BY <4>2 DEF At, Shape, Idle
      <4>3. CASE req' = End(r)
        BY <4>3 DEF End, Shape, Idle
      <4>4. QED
        BY <4>1, <4>2, <4>3
    <3>3. DOMAIN req' = Reqs /\ \A o \in Reqs \ {r} : req'[o] = req[o]
      BY <3>2 DEF Shape
    <3>4. Shape'
      BY <3>1, <3>2, <3>3 DEF Shape
    <3>5. /\ \A f \in Fields \ {g} : Storing(f)' = Storing(f) /\ r \notin Storing(f)
          /\ Storing(g)' = Storing(g) \ {r} /\ r \in Storing(g)
      BY <3>0, <3>1, <3>2, <3>3 DEF Storing, FieldOf
    <3>6. \A f \in Fields : Alone(f)'
      BY <3>1, <3>3, <3>5 DEF Storings, Alone, Storing
    <3>7. \A o \in Reqs : req'[o].pc = "snapshot" => FieldOf(o)' = "passkeys"
      BY <3>2, <3>3 DEF Storings, FieldOf
    <3>8. ASSUME NEW f \in Fields, f \notin raced'
          PROVE  /\ \A o \in Storing(f)' : req'[o].alone
                 /\ Storing(f)' = {} => saved'[f] = mem'[f]
      <4>1. CASE f # g
        <5>1. f \notin raced /\ saved'[f] = saved[f]
          BY <3>1, <3>8, <4>1 DEF Shape
        <5>2. QED
          BY <3>1, <3>3, <3>5, <4>1, <5>1 DEF Storings, Storing
      <4>2. CASE f = g
        <5>1. /\ saved' = [saved EXCEPT ![g] = Stored(r)]
              /\ req[r].alone
          BY <3>1, <3>5, <3>8, <4>2 DEF Storings
        <5>2. Storing(g) = {r} /\ req[r].snap = IF g = "passkeys" THEN mem[g] ELSE {mem[g]}
          BY <3>1, <3>5, <5>1 DEF Storings, Alone
        <5>3. Stored(r) = mem[g]
          BY <3>0, <5>2 DEF Stored
        <5>4. saved'[g] = mem[g]
          BY <5>1, <5>3 DEF Shape
        <5>5. QED
          BY <3>1, <3>5, <4>2, <5>2, <5>4
      <4>3. QED
        BY <4>1, <4>2
    <3>9. Storings'
      BY <3>1, <3>6, <3>7, <3>8 DEF Storings, Up
    <3>10. QED
      BY <2>4, <3>1, <3>4, <3>9
  \* Steps of the rest of the dashboard.
  <2>22. ASSUME NEW t \in Tokens, NEW map \in {"session", "challenge", "registration"},
                NEW for \in Addresses \cup {None} \cup Ceremonies, Give(t, map, for)
         PROVE  AccessInv'
    <3>1. UNCHANGED <<boot, mem, saved, req, granted, raced>>
      BY <2>22 DEF Give
    <3>2. tok' \in [Tokens -> TokenOf] /\ \A o \in Tokens : tok'[o] = Gone \/ tok'[o] = tok[o] \/ tok'[o].map = map
      BY <2>22 DEF Give, Prune, Unused
    <3>3. \A o \in Tokens : tok'[o].map # "gone" => tok[o].map # "gone"
      BY <2>22 DEF Give, Prune, Unused
    <3>4. Unused'
      BY <3>1, <3>2, <3>3 DEF Unused
    <3>5. Shape' /\ Storings'
      BY <3>1 DEF Shape, Storings, Alone, Storing, Stored, FieldOf, Up
    <3>6. QED
      BY <3>4, <3>5
  <2>23. ASSUME NEW t \in Tokens, Expire(t) PROVE AccessInv'
    <3>1. UNCHANGED <<boot, mem, saved, req, granted, raced>>
      BY <2>23 DEF Expire
    <3>2. Unused'
      BY <2>23 DEF Expire, Unused
    <3>3. Shape' /\ Storings'
      BY <3>1 DEF Shape, Storings, Alone, Storing, Stored, FieldOf, Up
    <3>4. QED
      BY <3>2, <3>3
  <2>24. ASSUME UNCHANGED <<boot, mem, saved, req, tok, granted, raced>> PROVE AccessInv'
    BY <2>24 DEF Unused, Shape, Storings, Alone, Storing, Stored, FieldOf, Up
  <2>25. ASSUME Start PROVE AccessInv'
    <3>1. boot # "up" /\ boot' # "up"
      BY <2>25 DEF Start, BootStep, Begin, LoadOrCreateEncryptionKey, LoadOrCreateJWTKey,
         LoadOrCreateInstanceID, LoadOrCreate, LoadCA, SaveCACert, SaveCAKey, LoadOrCreateCodes,
         LoadOrCreateVAPID, SaveVAPID
    <3>2. UNCHANGED <<mem, saved, req, tok, granted, raced>>
      BY <2>25 DEF Start
    <3>3. QED
      BY <3>1, <3>2 DEF Unused, Shape, Storings, Alone, Storing, Stored, FieldOf, Up
  <2>26. ASSUME Load PROVE AccessInv'
    <3>1. ~Up /\ Up' /\ mem' = saved /\ raced' = {} /\ UNCHANGED <<saved, req, tok, granted>>
      BY <2>26 DEF Load, Serve, Up
    <3>2. \A f \in Fields : Storing(f)' = {}
      BY <3>1 DEF Storings, Storing
    <3>3. Storings'
      BY <3>1, <3>2 DEF Storings, Alone
    <3>4. QED
      BY <2>4, <3>1, <3>3 DEF Shape
  <2>27. ASSUME Crash PROVE AccessInv'
    <3>1. /\ mem' = Blank /\ boot' = "down" /\ UNCHANGED <<saved, granted>>
          /\ req' = [r \in Reqs |-> IF req[r].pc = "idle" THEN Idle ELSE End(r)[r]]
          /\ tok' = [t \in Tokens |-> IF tok[t] = Unknown THEN Unknown ELSE Gone]
      BY <2>27 DEF Crash, Die
    <3>2. Unused'
      BY <3>1 DEF Unused
    <3>3. \A r \in Reqs : DOMAIN req'[r] = RequestFields /\ req'[r].pc \in {"idle", "end"}
      BY <3>1 DEF End, Idle, Shape
    <3>4. Shape'
      BY <3>1, <3>3 DEF Shape, Blank, Fields
    <3>5. \A f \in Fields : Storing(f)' = {}
      BY <3>3 DEF Storing
    <3>6. Storings'
      BY <3>1, <3>3, <3>5 DEF Storings, Alone, Up
    <3>7. QED
      BY <3>2, <3>4, <3>6
  <2>28. ASSUME Handing PROVE AccessInv'
    <3>1. PICK t \in Tokens :
            \/ BeginRegistration(t) \/ BeginLogin(t) \/ Generate(t) \/ Expire(t)
            \/ \E a \in Addresses : CreateChallenge(t, a) \/ CreateSetupChallenge(t, a)
      BY <2>28 DEF Handing
    <3>2. \/ Expire(t)
          \/ \E map \in {"session", "challenge", "registration"},
                for \in Addresses \cup {None} \cup Ceremonies : Give(t, map, for)
      BY <3>1 DEF BeginRegistration, BeginLogin, Generate, CreateChallenge, CreateSetupChallenge,
         Ceremonies
    <3>3. QED
      BY <2>22, <2>23, <3>2
  <2>29. Tick => AccessInv'
    BY <2>24 DEF Tick
  <2>30. UNCHANGED vars => AccessInv'
    BY <2>24
  <2>31. ASSUME NEW r \in Reqs, Handler(r) PROVE AccessInv'
    BY <2>15, <2>16, <2>17, <2>18, <2>19, <2>20, <2>21, <2>31 DEF Handler
  <2>32. QED
    BY <1>2, <2>11, <2>25, <2>26, <2>27, <2>28, <2>29, <2>30, <2>31 DEF Next
<1>3. AccessInv => Durable
  BY DEF AccessInv, Storings, Durable
<1>4. QED
  BY <1>1, <1>2, <1>3, PTL DEF Spec

\* Challenges, ceremonies and registration tokens are accepted at most once, and
\* not after they ran out or the dashboard was restarted: every behaviour is one
\* of OneUse.
THEOREM TokensUsedOnce == Spec => UsedOnce
<1>1. Init => Once!Init
  BY DEF Init, Once!Init, LiveTokens, Unknown
<1>2. ASSUME AccessInv, [Next]_vars PROVE [Once!Next]_Once!vars
  <2> USE <1>2 DEF AccessInv, Once!Next, Once!vars
  <2>1. UNCHANGED <<tok, granted>> => UNCHANGED Once!vars
    BY DEF LiveTokens
  <2>2. ASSUME NEW t, Spent(t) PROVE Once!Forget \/ UNCHANGED Once!vars
    <3>1. CASE tok' = tok
      BY <2>1, <2>2, <3>1 DEF Spent
    <3>2. CASE tok[t] # Unknown /\ tok' = [tok EXCEPT ![t] = Gone]
      BY <2>2, <3>2 DEF Spent, Once!Forget, LiveTokens, Unused
    <3>3. QED
      BY <2>2, <3>1, <3>2 DEF Spent
  <2>3. ASSUME NEW t, Accepted(t) PROVE Once!Use(t) /\ t \in Tokens
    BY <2>3 DEF Accepted, Once!Use, LiveTokens, Unused
  <2>4. ASSUME NEW r \in Reqs, Handler(r) PROVE [Once!Next]_Once!vars
    BY <2>1, <2>2, <2>3, <2>4, TokenMoves
  <2>5. ASSUME NEW t \in Tokens, NEW map \in {"session", "challenge", "registration"}, NEW for,
               Give(t, map, for)
        PROVE  Once!Give(t)
    <3>1. /\ tok[t] = Unknown /\ granted' = granted
          /\ tok' = [Prune(map) EXCEPT ![t] = [map |-> map, for |-> for, late |-> FALSE]]
      BY <2>5 DEF Give
    <3>2. /\ tok'[t] # Unknown /\ t \in LiveTokens'
          /\ t \notin LiveTokens
      BY <3>1 DEF LiveTokens, Prune
    <3>3. \A o \in Tokens \ {t} :
            \/ tok'[o] = tok[o]
            \/ tok[o].map = map /\ tok[o].late /\ tok'[o] = Gone
      BY <3>1 DEF Prune
    <3>4. LiveTokens' = LiveTokens \cup {t}
      BY <3>2, <3>3 DEF LiveTokens
    <3>5. \A o \in Tokens \ {t} : tok'[o] # Unknown <=> tok[o] # Unknown
      BY <3>3
    <3>6. QED
      BY <3>1, <3>2, <3>4, <3>5 DEF Once!Give
  <2>6. ASSUME NEW t \in Tokens, Expire(t) PROVE Once!Forget
    <3>1. /\ tok[t].map \in {"challenge", "registration"} /\ granted' = granted
          /\ tok' = [tok EXCEPT ![t].late = TRUE]
      BY <2>6 DEF Expire
    <3>2. /\ tok'[t].late = TRUE /\ tok[t] # Unknown /\ tok'[t] # Unknown
          /\ \A o \in Tokens \ {t} : tok'[o] = tok[o]
      BY <3>1 DEF Unused
    <3>3. LiveTokens' = LiveTokens \ {t}
      BY <3>2 DEF LiveTokens
    <3>4. QED
      BY <3>1, <3>2, <3>3 DEF Once!Forget, LiveTokens
  <2>7. ASSUME Handing PROVE [Once!Next]_Once!vars
    <3>1. PICK t \in Tokens :
            \/ Expire(t)
            \/ \E map \in {"session", "challenge", "registration"} : \E for : Give(t, map, for)
      BY <2>7 DEF Handing, BeginRegistration, BeginLogin, Generate, CreateChallenge,
         CreateSetupChallenge
    <3>2. QED
      BY <2>5, <2>6, <3>1
  <2>8. ASSUME Crash PROVE Once!Forget
    BY <2>8 DEF Crash, Once!Forget, LiveTokens, Unused
  <2>9. ASSUME NEW r \in Reqs, Ask(r) PROVE UNCHANGED <<tok, granted>>
    BY <2>9 DEF Ask
  <2>10. Start \/ Load \/ Tick \/ UNCHANGED vars => UNCHANGED <<tok, granted>>
    BY DEF Start, Load, Tick
  <2>11. QED
    BY <2>1, <2>4, <2>7, <2>8, <2>9, <2>10 DEF Next
<1>3. QED
  BY <1>1, <1>2, SettingsDurable, PTL DEF Spec, UsedOnce, Once!Spec

-----------------------------------------------------------------------------
(* The first run *)

\* The steps of a start that come after the certificate authority.
CALoaded == {"jwt_signing_key", "instance_id", "codes", "vapid", "vapid.private", "up"}

\* The keys in memory are those in the settings and files from the step of the
\* start on that brings them in; and no key a token or certificate was made with
\* is ever replaced there.
KeysInv ==
  /\ deaths \in Nat
  /\ boot \in {"down", "encryption_key", "ca", "ca.key"} \cup CALoaded
  /\ DOMAIN disk = DOMAIN Empty /\ DOMAIN keys = DOMAIN NoKeys
  /\ disk.encryption_key \in Nat
  /\ boot \notin {"down", "encryption_key"} =>
       keys.encryption_key = disk.encryption_key /\ disk.encryption_key # Missing
  /\ boot = "ca.key" => disk.cert = Life /\ disk.key = Missing
  /\ boot \in CALoaded => /\ keys.ca = disk.cert /\ disk.cert # Missing
                          /\ disk.key = disk.encryption_key
  /\ boot \in CALoaded \ {"jwt_signing_key"} =>
       keys.jwt_signing_key = disk.jwt_signing_key /\ disk.jwt_signing_key # Missing
  /\ \A u \in used :
       \/ u = <<"jwt_signing_key", disk.jwt_signing_key>> /\ disk.jwt_signing_key # Missing
       \/ /\ u = <<"ca", disk.cert>> /\ disk.cert # Missing
          /\ disk.key = disk.encryption_key /\ disk.encryption_key # Missing

\* A password is never taken away, and neither is the last passkey: not in
\* memory, and so not by what is on its way from there to the settings.
Bearing == {"check", "allow", "verify", "set"}
Sensible(r) ==
  /\ req[r].kind \in {"setup", "change"} /\ req[r].pc \in Bearing => req[r].val \in Passwords
  /\ r \in Storing("password") => \E p \in Passwords : req[r].snap = {p}
  /\ req[r].pc = "save" /\ FieldOf(r) = "passkeys" => req[r].snap # {}
SetUpInv ==
  /\ \A r \in Reqs : Sensible(r)
  /\ Storing("password") # {} => mem.password # None
  /\ Storing("passkeys") # {} => mem.passkeys # {}
  /\ setUp => saved.password # None \/ saved.passkeys # {}
  /\ Up => /\ saved.password # None => mem.password # None
           /\ saved.passkeys # {} => mem.passkeys # {}

\* The start, a death and what is handed out leave the keys as they should be.
LEMMA KeysKept == ASSUME AccessInv, KeysInv, [Next]_vars PROVE KeysInv'
<1> USE DEF KeysInv, Life, Missing
<1>1. ASSUME UNCHANGED <<boot, disk, keys, deaths, used>> PROVE KeysInv'
  BY <1>1
<1>2. ASSUME Start PROVE KeysInv'
  <2> USE DEF CALoaded, Empty, NoKeys
  <2>1. used' = used /\ deaths' = deaths /\ BootStep
    <3>1. used' = used /\ BootStep
      BY <1>2 DEF Start
    <3>2. QED
      BY <3>1 DEF BootStep, Begin, LoadOrCreateEncryptionKey, LoadOrCreateJWTKey,
         LoadOrCreateInstanceID, LoadOrCreate, LoadCA, SaveCACert, SaveCAKey, LoadOrCreateCodes,
         LoadOrCreateVAPID, SaveVAPID
  <2>2. CASE Begin
    BY <2>1, <2>2 DEF Begin
  <2>3. CASE LoadOrCreateEncryptionKey
    BY <2>1, <2>3 DEF LoadOrCreateEncryptionKey, LoadOrCreate
  <2>4. CASE LoadCA
    BY <2>1, <2>4 DEF LoadCA, CALoads
  <2>5. CASE SaveCACert
    BY <2>1, <2>5 DEF SaveCACert
  <2>6. CASE SaveCAKey
    BY <2>1, <2>6 DEF SaveCAKey
  <2>7. CASE LoadOrCreateJWTKey
    BY <2>1, <2>7 DEF LoadOrCreateJWTKey, LoadOrCreate
  <2>8. CASE LoadOrCreateInstanceID
    BY <2>1, <2>8 DEF LoadOrCreateInstanceID, LoadOrCreate
  <2>9. CASE LoadOrCreateCodes
    BY <2>1, <2>9 DEF LoadOrCreateCodes
  <2>10. CASE LoadOrCreateVAPID
    BY <2>1, <2>10 DEF LoadOrCreateVAPID
  <2>11. CASE SaveVAPID
    BY <2>1, <2>11 DEF SaveVAPID
  <2>12. QED
    BY <2>1, <2>2, <2>3, <2>4, <2>5, <2>6, <2>7, <2>8, <2>9, <2>10, <2>11 DEF BootStep
<1>3. ASSUME Load PROVE KeysInv'
  BY <1>3 DEF Load, Serve, CALoaded
<1>4. ASSUME Crash PROVE KeysInv'
  <2>1. /\ used' = used /\ deaths' = deaths + 1 /\ boot' = "down" /\ keys' = NoKeys
        /\ disk' = disk \/ (boot = "ca.key" /\ disk' = [disk EXCEPT !.key = Torn])
    BY <1>4 DEF Crash, Die
  <2>2. QED
    BY <2>1 DEF CALoaded, Empty
<1>5. ASSUME NEW r \in Reqs, Issue(r) \/ CreateServer(r) PROVE KeysInv'
  <2>1. Up /\ UNCHANGED <<boot, disk, keys, deaths>>
    BY <1>5 DEF Issue, CreateServer, AccessInv, Storings
  <2>2. \/ used' = used
        \/ used' = used \cup {<<"jwt_signing_key", keys.jwt_signing_key>>}
        \/ used' = used \cup {<<"ca", keys.ca>>}
    BY <1>5 DEF Issue, CreateServer
  <2>3. /\ keys.jwt_signing_key = disk.jwt_signing_key /\ disk.jwt_signing_key # Missing
        /\ keys.ca = disk.cert /\ disk.cert # Missing
        /\ disk.key = disk.encryption_key /\ disk.encryption_key # Missing
    BY <2>1 DEF Up, CALoaded
  <2>4. \A u \in used' :
       \/ u = <<"jwt_signing_key", disk.jwt_signing_key>> /\ disk.jwt_signing_key # Missing
       \/ /\ u = <<"ca", disk.cert>> /\ disk.cert # Missing
          /\ disk.key = disk.encryption_key /\ disk.encryption_key # Missing
    BY <2>2, <2>3
  <2>5. QED
    BY <2>1, <2>4
<1>6. ASSUME NEW r \in Reqs, Handler(r), ~Issue(r), ~CreateServer(r)
      PROVE  UNCHANGED <<boot, disk, keys, deaths, used>>
  BY <1>6 DEF Handler, Allow, RecordFailure, Reset, CheckSetup, Verify, SetPassword, SetAddress,
     RemoveAddress, DeletePasskey, FinishRegistration, FinishLogin, VerifySignature,
     VerifySetupSignature, Credentials, Save, Refresh, Recover, Validate
<1>7. ASSUME Handing \/ Tick \/ (\E r \in Reqs : Ask(r)) \/ UNCHANGED vars
      PROVE  UNCHANGED <<boot, disk, keys, deaths, used>>
  BY <1>7 DEF Handing, Tick, Ask, BeginRegistration, BeginLogin, Generate, Expire, CreateChallenge,
     CreateSetupChallenge, Give
<1>8. QED
  BY <1>1, <1>2, <1>3, <1>4, <1>5, <1>6, <1>7 DEF Next

\* So do the handlers with what is set up.
LEMMA SetUpKept == ASSUME AccessInv, SetUpInv, [Next]_vars PROVE SetUpInv'
<1> USE DEF SetUpInv
<1>0. /\ DOMAIN req = Reqs /\ \A r \in Reqs : DOMAIN req[r] = RequestFields
      /\ DOMAIN mem = Fields /\ DOMAIN saved = Fields
      /\ \A r \in Reqs : req[r].pc \notin {"idle", "end"} => Up
  BY DEF AccessInv, Shape, Storings
<1>f. \A r \in Reqs : /\ FieldOf(r) = "password" <=> req[r].kind \in {"setup", "change"}
                      /\ FieldOf(r) = "passkeys" <=> req[r].kind \in Ceremonies \cup {"unregister"}
  BY DEF FieldOf, Ceremonies
<1>g. \A r \in Reqs : /\ FieldOf(r)' = "password" <=> req'[r].kind \in {"setup", "change"}
                      /\ FieldOf(r)' = "passkeys" <=> req'[r].kind \in Ceremonies \cup {"unregister"}
  BY DEF FieldOf, Ceremonies
\* Steps of one request that store nothing.
<1>1. ASSUME NEW r \in Reqs, NEW k, req' = [req EXCEPT ![r] = k],
             k.pc \notin {"snapshot", "save"},
             k.kind \in {"setup", "change"} /\ k.pc \in Bearing => k.val \in Passwords,
             UNCHANGED <<boot, mem, saved, setUp>>
      PROVE  SetUpInv'
  <2>1. /\ req'[r] = k /\ \A o \in Reqs \ {r} : req'[o] = req[o]
    BY <1>0, <1>1
  <2>2. \A o \in Reqs \ {r} : FieldOf(o)' = FieldOf(o)
    BY <2>1 DEF FieldOf
  <2>3. \A f \in Fields : Storing(f)' = Storing(f) \ {r}
    BY <1>1, <2>1, <2>2 DEF Storing
  <2>4. Sensible(r)'
    BY <1>1, <2>1 DEF Sensible, Storing
  <2>5. ASSUME NEW o \in Reqs \ {r} PROVE Sensible(o)'
    BY <2>1, <2>2, <2>3 DEF Sensible, Fields
  <2>6. QED
    BY <1>1, <2>3, <2>4, <2>5 DEF Up, Fields
<1>2. ASSUME NEW r \in Reqs, NEW pc, pc \notin {"snapshot", "save"},
             req' = At(r, pc) \/ req' = End(r), UNCHANGED <<boot, mem, saved, setUp>>,
             pc \in Bearing => pc = "set" /\ req[r].pc \in Bearing \cup {"prove"},
             pc \in Bearing /\ req[r].pc = "prove" => req[r].kind \notin {"setup", "change"}
      PROVE  SetUpInv'
  <2>1. CASE req' = At(r, pc)
    <3> DEFINE k == [Idle EXCEPT !.kind = req[r].kind, !.pc = pc,
                                 !.val = IF pc = "set" THEN req[r].val ELSE None]
    <3>1. k.kind = req[r].kind /\ k.pc = pc /\ (pc = "set" => k.val = req[r].val)
      BY DEF Idle
    <3>2. req' = [req EXCEPT ![r] = k]
      BY <2>1 DEF At
    <3> HIDE DEF k
    <3>3. k.kind \in {"setup", "change"} /\ k.pc \in Bearing => k.val \in Passwords
      BY <1>2, <3>1 DEF Sensible
    <3>4. QED
      BY <1>1, <1>2, <3>1, <3>2, <3>3
  <2>2. CASE req' = End(r)
    <3> DEFINE k == [Idle EXCEPT !.pc = IF req[r].kind \in Attempts THEN "idle" ELSE "end"]
    <3>1. k.kind = "none" /\ k.pc \in {"idle", "end"}
      BY DEF Idle
    <3>2. req' = [req EXCEPT ![r] = k]
      BY <2>2 DEF End
    <3> HIDE DEF k
    <3>3. QED
      BY <1>1, <1>2, <3>1, <3>2
  <2>3. QED
    BY <1>2, <2>1, <2>2
<1>3. ASSUME NEW r \in Reqs, Ask(r) PROVE SetUpInv'
  <2>1. PICK k \in Kinds : \E v \in Vals(k), t \in Toks(k) :
          req' = [req EXCEPT ![r] = [Idle EXCEPT !.kind = k, !.pc = First(k), !.tok = t, !.val = v]]
    BY <1>3 DEF Ask
  <2>2. PICK v \in Vals(k), t \in Toks(k) :
          req' = [req EXCEPT ![r] = [Idle EXCEPT !.kind = k, !.pc = First(k), !.tok = t, !.val = v]]
    BY <2>1
  <2>3. First(k) \notin {"snapshot", "save"}
    BY DEF First
  <2>4. k \in {"setup", "change"} => v \in Passwords
    BY <2>2 DEF Vals
  <2> DEFINE q == [Idle EXCEPT !.kind = k, !.pc = First(k), !.tok = t, !.val = v]
  <2>5. q.kind = k /\ q.pc = First(k) /\ q.val = v
    BY DEF Idle
  <2>6. req' = [req EXCEPT ![r] = q]
    BY <2>2
  <2> HIDE DEF q
  <2>7. UNCHANGED <<boot, mem, saved, setUp>>
    BY <1>3 DEF Ask
  <2>8. QED
    BY <1>1, <2>3, <2>4, <2>5, <2>6, <2>7
<1>4. ASSUME NEW r \in Reqs, Allow(r) \/ RecordFailure(r) \/ Reset(r) PROVE SetUpInv'
  <2>1. UNCHANGED <<boot, mem, saved, setUp>> /\ req[r].pc \in {"allow", "fail", "reset"}
    BY <1>4 DEF Allow, RecordFailure, Reset
  <2>2. \/ req' = [req EXCEPT ![r] = Idle]
        \/ req[r].pc = "allow" /\ req' = [req EXCEPT ![r] = [req[r] EXCEPT !.pc = "verify"]]
        \/ req' = [req EXCEPT ![r] = [req[r] EXCEPT !.pc = "issue"]]
    <3>1. CASE Allow(r)
      BY <3>1 DEF Allow
    <3>2. CASE RecordFailure(r)
      BY <3>2 DEF RecordFailure
    <3>3. CASE Reset(r)
      BY <3>3 DEF Reset
    <3>4. QED
      BY <1>4, <3>1, <3>2, <3>3
  <2>3. CASE req' = [req EXCEPT ![r] = Idle]
    <3>1. Idle.kind = "none" /\ Idle.pc = "idle"
      BY DEF Idle
    <3>2. QED
      BY <1>1, <2>1, <2>3, <3>1
  <2>4. ASSUME NEW pc \in {"verify", "issue"}, pc = "verify" => req[r].pc = "allow",
               req' = [req EXCEPT ![r] = [req[r] EXCEPT !.pc = pc]]
        PROVE  SetUpInv'
    <3> DEFINE k == [req[r] EXCEPT !.pc = pc]
    <3>1. k.kind = req[r].kind /\ k.pc = pc /\ k.val = req[r].val
      BY <1>0
    <3>2. req' = [req EXCEPT ![r] = k]
      BY <2>4
    <3> HIDE DEF k
    <3>3. k.kind \in {"setup", "change"} /\ k.pc \in Bearing => k.val \in Passwords
      BY <2>4, <3>1 DEF Sensible, Bearing
    <3>4. QED
      BY <1>1, <2>1, <2>4, <3>1, <3>2, <3>3
  <2>5. QED
    BY <2>2, <2>3, <2>4
<1>5. ASSUME NEW r \in Reqs,
             \/ CheckSetup(r) \/ Verify(r) \/ Issue(r) \/ Refresh(r) \/ Recover(r) \/ Validate(r)
             \/ CreateServer(r) \/ VerifySignature(r) \/ VerifySetupSignature(r)
      PROVE  SetUpInv'
  <2>1. UNCHANGED <<boot, mem, saved, setUp>>
    BY <1>5 DEF CheckSetup, Verify, Issue, Refresh, Recover, Validate, CreateServer,
       VerifySignature, VerifySetupSignature
  <2>2. \E pc \in {"set", "reset", "fail", "issue", "row"} :
          /\ req' = At(r, pc) \/ req' = End(r)
          /\ pc = "set" => \/ req[r].pc \in Bearing
                           \/ req[r].pc = "prove" /\ req[r].kind \notin {"setup", "change"}
    <3> USE DEF Bearing
    <3>1. CASE CheckSetup(r)
      BY <3>1 DEF CheckSetup
    <3>2. CASE Verify(r)
      BY <3>2 DEF Verify
    <3>3. CASE Issue(r)
      BY <3>3 DEF Issue
    <3>4. CASE Refresh(r)
      BY <3>4 DEF Refresh
    <3>5. CASE Recover(r)
      BY <3>5 DEF Recover
    <3>6. CASE Validate(r)
      BY <3>6 DEF Validate
    <3>7. CASE CreateServer(r)
      BY <3>7 DEF CreateServer
    <3>8. CASE VerifySignature(r)
      BY <3>8 DEF VerifySignature
    <3>9. CASE VerifySetupSignature(r)
      BY <3>9 DEF VerifySetupSignature
    <3>10. QED
      BY <1>5, <3>1, <3>2, <3>3, <3>4, <3>5, <3>6, <3>7, <3>8, <3>9
  <2>3. QED
    BY <1>2, <2>1, <2>2 DEF Bearing
\* Steps that change a field.
<1>6. ASSUME NEW r \in Reqs, NEW value, NEW pc \in {"snapshot", "save"}, Change(r, value, pc),
             UNCHANGED <<boot, saved, setUp>>, FieldOf(r) = "passkeys" => pc = "snapshot",
             FieldOf(r) = "password" => value \in Passwords,
             FieldOf(r) = "passkeys" => value # {}
      PROVE  SetUpInv'
  <2>0. PICK f \in Fields : f = FieldOf(r)
    BY DEF FieldOf, Fields, Ceremonies
  <2>1. /\ mem' = [mem EXCEPT ![f] = value]
        /\ req' = [o \in Reqs |->
             IF o = r THEN [Idle EXCEPT !.kind = req[r].kind, !.pc = pc, !.alone = Storing(f) = {},
                                        !.snap = IF f = "passkeys" THEN {} ELSE {value}]
             ELSE IF o \in Storing(f) THEN [req[o] EXCEPT !.alone = FALSE] ELSE req[o]]
    BY <1>6, <2>0 DEF Change
  <2>2. req'[r] = [Idle EXCEPT !.kind = req[r].kind, !.pc = pc, !.alone = Storing(f) = {},
                               !.snap = IF f = "passkeys" THEN {} ELSE {value}]
    BY <2>1
  <2>3. /\ req'[r].kind = req[r].kind /\ req'[r].pc = pc
        /\ f # "passkeys" => req'[r].snap = {value}
    BY <2>2 DEF Idle
  <2>4. ASSUME NEW o \in Reqs \ {r}
        PROVE  /\ req'[o].kind = req[o].kind /\ req'[o].pc = req[o].pc
               /\ req'[o].val = req[o].val /\ req'[o].snap = req[o].snap
    <3>1. req'[o] = [req[o] EXCEPT !.alone = FALSE] \/ req'[o] = req[o]
      BY <2>1
    <3>2. DOMAIN req[o] = RequestFields
      BY <1>0
    <3>3. QED
      BY <3>1, <3>2
  <2>5. \A o \in Reqs : FieldOf(o)' = FieldOf(o)
    BY <2>3, <2>4 DEF FieldOf
  <2>6. \A g \in Fields : Storing(g)' = IF g = f THEN Storing(g) \cup {r} ELSE Storing(g) \ {r}
    <3>1. \A o \in Reqs : (req'[o].pc \in {"snapshot", "save"}) <=>
                            (o = r \/ req[o].pc \in {"snapshot", "save"})
      BY <2>3, <2>4
    <3>2. QED
      BY <2>0, <2>5, <3>1 DEF Storing
  <2>7. mem'[f] = value /\ \A g \in Fields \ {f} : mem'[g] = mem[g]
    BY <1>0, <2>1
  <2>8. Sensible(r)'
    <3>1. f = "password" => \E p \in Passwords : req'[r].snap = {p}
      BY <1>6, <2>0, <2>3
    <3>2. req'[r].pc \notin Bearing
      BY <2>3 DEF Bearing
    <3>3. r \in Storing("password")' => f = "password"
      BY <2>0, <2>5 DEF Storing
    <3>4. f = "passkeys" => req'[r].pc = "snapshot"
      BY <1>6, <2>0, <2>3
    <3>5. QED
      BY <2>0, <2>5, <3>1, <3>2, <3>3, <3>4 DEF Sensible
  <2>9. ASSUME NEW o \in Reqs \ {r} PROVE Sensible(o)'
    <3>1. o \in Storing("password")' => o \in Storing("password")
      BY <2>6 DEF Fields
    <3>2. QED
      BY <2>4, <2>5, <3>1 DEF Sensible
  <2>10. Passwords \cap {None} = {}
    BY AccessAssumption
  <2>11. mem'["password"] # None \/ (mem'["password"] = mem["password"] /\ f # "password")
    BY <1>6, <2>0, <2>7, <2>10 DEF Fields
  <2>12. mem'["passkeys"] # {} \/ (mem'["passkeys"] = mem["passkeys"] /\ f # "passkeys")
    BY <1>6, <2>0, <2>7 DEF Fields
  <2>13. Storing("password")' # {} => mem'.password # None
    BY <2>6, <2>11 DEF Fields
  <2>14. Storing("passkeys")' # {} => mem'.passkeys # {}
    BY <2>6, <2>12 DEF Fields
  <2>15. Up' => /\ saved'.password # None => mem'.password # None
                /\ saved'.passkeys # {} => mem'.passkeys # {}
    BY <1>6, <2>11, <2>12 DEF Up
  <2>16. QED
    BY <1>6, <2>8, <2>9, <2>13, <2>14, <2>15
<1>7. ASSUME NEW r \in Reqs, SetPassword(r) \/ SetAddress(r) \/ RemoveAddress(r) PROVE SetUpInv'
  <2>1. CASE SetPassword(r)
    <3>1. Change(r, req[r].val, "save") /\ FieldOf(r) = "password" /\ UNCHANGED <<boot, saved, setUp>>
      BY <1>f, <2>1 DEF SetPassword
    <3>2. req[r].val \in Passwords
      BY <2>1 DEF SetPassword, Sensible, Bearing
    <3>3. QED
      BY <1>6, <3>1, <3>2
  <2>2. CASE SetAddress(r) \/ RemoveAddress(r)
    <3>1. /\ UNCHANGED <<boot, saved, setUp>> /\ \E v : Change(r, v, "save")
          /\ FieldOf(r) # "password" /\ FieldOf(r) # "passkeys"
      BY <1>f, <2>2 DEF SetAddress, RemoveAddress, Ceremonies
    <3>2. QED
      BY <1>6, <3>1
  <2>3. QED
    BY <1>7, <2>1, <2>2
<1>8. ASSUME NEW r \in Reqs, DeletePasskey(r) PROVE SetUpInv'
  <2>1. /\ FieldOf(r) = "passkeys" /\ UNCHANGED <<boot, saved, setUp>> /\ req[r].pc = "set"
        /\ IF Cardinality(mem.passkeys) > 1 /\ req[r].val \in mem.passkeys
           THEN Change(r, mem.passkeys \ {req[r].val}, "snapshot")
           ELSE req' = End(r) /\ UNCHANGED <<mem, raced>>
    BY <1>f, <1>8 DEF DeletePasskey
  <2>2. CASE Cardinality(mem.passkeys) > 1 /\ req[r].val \in mem.passkeys
    <3>1. mem.passkeys \ {req[r].val} # {}
      <4> SUFFICES ASSUME mem.passkeys \ {req[r].val} = {} PROVE FALSE
        OBVIOUS
      <4>1. mem.passkeys = {req[r].val}
        BY <2>2
      <4>2. Cardinality(mem.passkeys) = 1
        BY <4>1, FS_Singleton
      <4>3. QED
        BY <2>2, <4>2
    <3>2. Change(r, mem.passkeys \ {req[r].val}, "snapshot")
      BY <2>1, <2>2
    <3>3. QED
      BY <1>6, <2>1, <3>1, <3>2
  <2>3. CASE ~(Cardinality(mem.passkeys) > 1 /\ req[r].val \in mem.passkeys)
    BY <1>2, <2>1, <2>3 DEF Bearing
  <2>4. QED
    BY <2>2, <2>3
<1>9. ASSUME NEW r \in Reqs, FinishRegistration(r) \/ FinishLogin(r) PROVE SetUpInv'
  <2>1. /\ FieldOf(r) = "passkeys" /\ UNCHANGED <<boot, saved, setUp>> /\ req[r].pc = "prove"
        /\ \/ \E v : v # {} /\ Change(r, v, "snapshot")
           \/ req' = End(r) /\ UNCHANGED <<mem, raced>>
    <3>1. CASE FinishRegistration(r)
      <4>1. \/ Change(r, mem.passkeys \cup {req[r].val}, "snapshot")
            \/ req' = End(r) /\ UNCHANGED <<mem, raced>>
        BY <3>1 DEF FinishRegistration
      <4>2. mem.passkeys \cup {req[r].val} # {}
        OBVIOUS
      <4>3. QED
        BY <1>f, <3>1, <4>1, <4>2 DEF FinishRegistration, Ceremonies
    <3>2. CASE FinishLogin(r)
      <4>1. \/ Change(r, mem.passkeys, "snapshot") /\ req[r].val \in mem.passkeys
            \/ req' = End(r) /\ UNCHANGED <<mem, raced>>
        BY <3>2 DEF FinishLogin
      <4>2. QED
        BY <1>f, <3>2, <4>1 DEF FinishLogin, Ceremonies
    <3>3. QED
      BY <1>9, <3>1, <3>2
  <2>2. QED
    BY <1>2, <1>6, <2>1 DEF Bearing
<1>10. ASSUME NEW r \in Reqs, Credentials(r) PROVE SetUpInv'
  <2>1. /\ req[r].pc = "snapshot" /\ FieldOf(r) = "passkeys" /\ r \in Storing("passkeys")
        /\ UNCHANGED <<boot, mem, saved, setUp>>
        /\ req' = [req EXCEPT ![r].snap = mem.passkeys, ![r].pc = "save"]
    BY <1>10 DEF Credentials, AccessInv, Storings, Storing
  <2>2. /\ \A o \in Reqs \ {r} : req'[o] = req[o]
        /\ req'[r] = [req[r] EXCEPT !.snap = mem.passkeys, !.pc = "save"]
    BY <1>0, <2>1
  <2>3. req'[r].kind = req[r].kind /\ req'[r].snap = mem.passkeys /\ req'[r].pc = "save"
    BY <1>0, <2>2
  <2>4. \A o \in Reqs : FieldOf(o)' = FieldOf(o)
    BY <2>2, <2>3 DEF FieldOf
  <2>5. \A f \in Fields : Storing(f)' = Storing(f)
    BY <2>1, <2>2, <2>3, <2>4 DEF Storing
  <2>6. Sensible(r)'
    <3>1. FieldOf(r)' = "passkeys" /\ req'[r].pc \notin Bearing /\ req'[r].snap # {}
      BY <2>1, <2>3, <2>4 DEF Bearing
    <3>2. r \notin Storing("password")'
      BY <3>1 DEF Storing
    <3>3. QED
      BY <3>1, <3>2 DEF Sensible
  <2>7. ASSUME NEW o \in Reqs \ {r} PROVE Sensible(o)'
    BY <2>2, <2>4, <2>5 DEF Sensible, Fields
  <2>8. QED
    BY <2>1, <2>5, <2>6, <2>7 DEF Up, Fields
<1>11. ASSUME NEW r \in Reqs, Save(r) PROVE SetUpInv'
  <2>0. PICK f \in Fields : f = FieldOf(r)
    BY DEF FieldOf, Fields, Ceremonies
  <2>1. /\ req[r].pc = "save" /\ Up /\ r \in Storing(f) /\ UNCHANGED <<boot, mem>>
        /\ \/ /\ saved' = [saved EXCEPT ![f] = Stored(r)]
              /\ setUp' = (setUp \/ req[r].kind \in {"setup", "register"})
           \/ saved' = saved /\ setUp' = setUp
    BY <1>0, <1>11, <2>0 DEF Save, Storing
  <2>2. f = "password" => Stored(r) \in Passwords /\ mem.password # None
    <3> HAVE f = "password"
    <3>1. PICK p \in Passwords : req[r].snap = {p}
      BY <2>1 DEF Sensible
    <3>2. QED
      BY <2>0, <2>1, <3>1 DEF Stored
  <2>3. f = "passkeys" => Stored(r) # {} /\ mem.passkeys # {}
    BY <2>0, <2>1 DEF Stored, Sensible
  <2>4. None \notin Passwords
    BY AccessAssumption
  <2>5. /\ saved'.password = saved.password \/ (f = "password" /\ saved'.password # None)
        /\ saved'.passkeys = saved.passkeys \/ (f = "passkeys" /\ saved'.passkeys # {})
    BY <1>0, <2>1, <2>2, <2>3, <2>4 DEF Fields
  <2>6. setUp' => saved'.password # None \/ saved'.passkeys # {}
    <3>1. CASE saved' = saved /\ setUp' = setUp
      BY <3>1
    <3>2. CASE setUp /\ saved' = [saved EXCEPT ![f] = Stored(r)]
      BY <2>5, <3>2
    <3>3. CASE ~setUp /\ req[r].kind \in {"setup", "register"}
               /\ saved' = [saved EXCEPT ![f] = Stored(r)]
      <4>1. f \in {"password", "passkeys"}
        BY <1>f, <2>0, <3>3 DEF Ceremonies
      <4>2. saved'[f] = Stored(r)
        BY <1>0, <3>3
      <4>3. QED
        BY <2>2, <2>3, <2>4, <4>1, <4>2
    <3>4. CASE ~setUp'
      BY <3>4
    <3>5. QED
      BY <2>1, <3>1, <3>2, <3>3, <3>4
  <2>7. /\ saved'.password # None => mem.password # None
        /\ saved'.passkeys # {} => mem.passkeys # {}
    BY <2>1, <2>2, <2>3, <2>5
  <2>8. ASSUME NEW k, req' = [req EXCEPT ![r] = k],
               k.pc \notin {"snapshot", "save"}, k.pc \notin Bearing
        PROVE  SetUpInv'
    <3>1. req'[r] = k /\ \A o \in Reqs \ {r} : req'[o] = req[o]
      BY <1>0, <2>8
    <3>2. \A o \in Reqs \ {r} : FieldOf(o)' = FieldOf(o)
      BY <3>1 DEF FieldOf
    <3>3. \A g \in Fields : Storing(g)' = Storing(g) \ {r}
      BY <2>8, <3>1, <3>2 DEF Storing
    <3>4. Sensible(r)'
      BY <2>8, <3>1 DEF Sensible, Bearing, Storing
    <3>5. ASSUME NEW o \in Reqs \ {r} PROVE Sensible(o)'
      BY <3>1, <3>2, <3>3 DEF Sensible, Fields
    <3>6. QED
      BY <2>1, <2>6, <2>7, <3>3, <3>4, <3>5 DEF Fields
  <2>9. CASE req' = At(r, "issue")
    <3> DEFINE k == [Idle EXCEPT !.kind = req[r].kind, !.pc = "issue",
                                 !.val = IF "issue" = "set" THEN req[r].val ELSE None]
    <3>1. k.pc = "issue"
      BY DEF Idle
    <3>2. req' = [req EXCEPT ![r] = k]
      BY <2>9 DEF At
    <3> HIDE DEF k
    <3>3. QED
      BY <2>8, <3>1, <3>2 DEF Bearing
  <2>10. CASE req' = End(r)
    <3> DEFINE k == [Idle EXCEPT !.pc = IF req[r].kind \in Attempts THEN "idle" ELSE "end"]
    <3>1. k.pc \in {"idle", "end"}
      BY DEF Idle
    <3>2. req' = [req EXCEPT ![r] = k]
      BY <2>10 DEF End
    <3> HIDE DEF k
    <3>3. QED
      BY <2>8, <3>1, <3>2 DEF Bearing
  <2>11. QED
    BY <1>11, <2>9, <2>10 DEF Save
\* The rest of the dashboard.
<1>12. ASSUME UNCHANGED <<mem, saved, req, setUp>>, Up' => Up PROVE SetUpInv'
  BY <1>12 DEF Sensible, Storing, FieldOf
<1>13. ASSUME Start PROVE SetUpInv'
  <2>1. boot' # "up"
    BY <1>13 DEF Start, BootStep, Begin, LoadOrCreateEncryptionKey, LoadOrCreateJWTKey,
       LoadOrCreateInstanceID, LoadOrCreate, LoadCA, SaveCACert, SaveCAKey, LoadOrCreateCodes,
       LoadOrCreateVAPID, SaveVAPID
  <2>2. QED
    BY <1>12, <1>13, <2>1 DEF Start, Up
<1>14. ASSUME Load PROVE SetUpInv'
  <2>1. ~Up /\ mem' = saved /\ UNCHANGED <<saved, req, setUp>>
    BY <1>14 DEF Load, Serve, Up
  <2>2. \A f \in Fields : Storing(f) = {} /\ Storing(f)' = {}
    BY <1>0, <2>1 DEF Storing, FieldOf
  <2>3. \A r \in Reqs : FieldOf(r)' = FieldOf(r)
    BY <2>1 DEF FieldOf
  <2>4. \A r \in Reqs : Sensible(r)'
    BY <2>1, <2>2, <2>3 DEF Sensible, Fields
  <2>5. QED
    BY <2>1, <2>2, <2>4 DEF Fields
<1>15. ASSUME Crash PROVE SetUpInv'
  <2>1. /\ boot' = "down" /\ UNCHANGED <<saved, setUp>>
        /\ req' = [r \in Reqs |-> IF req[r].pc = "idle" THEN Idle ELSE End(r)[r]]
    BY <1>15 DEF Crash, Die
  <2>2. \A r \in Reqs : req'[r].pc \in {"idle", "end"}
    BY <1>0, <2>1 DEF End, Idle
  <2>3. \A r \in Reqs : Sensible(r)'
    BY <2>2 DEF Sensible, Bearing, Storing
  <2>4. \A f \in Fields : Storing(f)' = {}
    BY <2>2 DEF Storing
  <2>5. QED
    BY <2>1, <2>3, <2>4 DEF Up, Fields
<1>16. Handing \/ Tick \/ UNCHANGED vars => SetUpInv'
  BY <1>12 DEF Handing, Tick, Up, BeginRegistration, BeginLogin, Generate, Expire, CreateChallenge,
     CreateSetupChallenge, Give
<1>17. ASSUME NEW r \in Reqs, Handler(r) PROVE SetUpInv'
  BY <1>4, <1>5, <1>7, <1>8, <1>9, <1>10, <1>11, <1>17 DEF Handler
<1>18. QED
  BY <1>3, <1>13, <1>14, <1>15, <1>16, <1>17 DEF Next

\* The first run happens once.  When a set-up has been reported there is a way
\* to log in after every later start, and the keys that tokens and certificates
\* in other hands were made with are those that every later start loads,
\* wherever the earlier ones were cut off and whatever was refused.
THEOREM FirstRunHappensOnce == Spec => []FirstRunSticks
<1>1. Init => KeysInv /\ SetUpInv
  <2>1. Init => KeysInv
    BY DEF Init, BootInit, KeysInv, CALoaded, Empty, Settled, NoKeys, Missing
  <2>2. Init => SetUpInv
    BY DEF Init, BootInit, SetUpInv, Sensible, Bearing, Storing, Idle, Up
  <2>3. QED
    BY <2>1, <2>2
<1>2. AccessInv /\ KeysInv /\ SetUpInv /\ [Next]_vars => (KeysInv /\ SetUpInv)'
  BY KeysKept, SetUpKept
<1>3. KeysInv /\ SetUpInv => FirstRunSticks
  <2> SUFFICES ASSUME KeysInv, SetUpInv, Up PROVE FirstRunSticks
    BY DEF FirstRunSticks
  <2>1. setUp => HasPassword \/ mem.passkeys # {}
    BY DEF SetUpInv, HasPassword
  <2>2. /\ keys.jwt_signing_key = disk.jwt_signing_key
        /\ keys.ca = disk.cert
    BY DEF KeysInv, Up, CALoaded
  <2>3. \A u \in used : keys[u[1]] = u[2]
    <3> SUFFICES ASSUME NEW u \in used PROVE keys[u[1]] = u[2]
      OBVIOUS
    <3>1. u = <<"jwt_signing_key", keys.jwt_signing_key>> \/ u = <<"ca", keys.ca>>
      BY <2>2 DEF KeysInv
    <3>2. QED
      BY <3>1
  <2>4. QED
    BY <2>1, <2>3 DEF FirstRunSticks
<1>4. QED
  BY <1>1, <1>2, <1>3, SettingsDurable, PTL DEF Spec

-----------------------------------------------------------------------------
(* Kinds, and the limiter *)

\* A request is at one of the steps of its kind, with what that step reads.
Steps == {"idle", "check", "allow", "verify", "fail", "reset", "set", "prove",
          "snapshot", "save", "issue", "row", "end"}
Proper(q) ==
  /\ q.kind \in Kinds \cup {"none"} /\ q.pc \in Steps /\ q.tok \in Tokens \cup {None}
  /\ q.pc \in Bearing \cup {"prove"} => q.val \in Vals(q.kind)
  /\ q.pc \in {"allow", "fail"} => q.kind \in Attempts
  /\ q.pc = "save" =>
       IF q.kind \in Ceremonies \cup {"unregister"} THEN q.snap \subseteq Passkeys
       ELSE IF q.kind \in {"setup", "change"} THEN \E p \in Passwords : q.snap = {p}
       ELSE \E a \in Addresses \cup {None} : q.snap = {a}
Typed ==
  /\ BootTypeOK /\ mem \in Values /\ saved \in Values
  /\ \A r \in Reqs : Proper(req[r])
  /\ setUp \in BOOLEAN /\ raced \subseteq Fields

\* A failure is recorded for an attempt that was let in, and every attempt is let
\* in on fewer failures than the limit.
Past == {r \in Reqs : req[r].pc \in {"verify", "fail"} /\ req[r].kind \in Attempts}
Counted ==
  /\ fails \in Seq(0..(Window - 1))
  /\ Len(fails) + Cardinality(Past) < MaxFails + Cardinality(Reqs)

\* Induction over the numbers, by the least one outside a set.
LEMMA FromZero ==
  ASSUME NEW S, 0 \in S, \A n \in Nat : n \in S => n + 1 \in S
  PROVE  Nat \subseteq S
<1> DEFINE T == Nat \ S
<1> SUFFICES ASSUME T # {} PROVE FALSE
  OBVIOUS
<1>1. PICK x \in T : \A y \in T : ~ (<<y, x>> \in OpToRel(<, Nat))
  <2>1. T \subseteq Nat
    OBVIOUS
  <2> HIDE DEF T
  <2>2. QED
    BY <2>1, NatLessThanWellFounded, WFMin
<1>2. x \in Nat /\ x # 0
  OBVIOUS
<1>3. x - 1 \in Nat /\ x = (x - 1) + 1
  BY <1>2
<1>4. PICK y \in Nat : y = x - 1
  BY <1>3
<1>5. y \in T
  BY <1>3, <1>4
<1>6. <<y, x>> \in OpToRel(<, Nat)
  <2>1. <<y, x>> \in Nat \X Nat /\ <<y, x>>[1] < <<y, x>>[2]
    BY <1>2, <1>4
  <2>2. QED
    BY <2>1, Zenon DEF OpToRel
<1>7. QED
  BY <1>1, <1>5, <1>6

\* What Recent computes, up to the nth age.
Keeps(ages, n, kept) ==
  kept = [m \in 0..n |->
            IF m = 0 THEN <<>>
            ELSE IF ages[m] < Window THEN Append(kept[m - 1], ages[m]) ELSE kept[m - 1]]

\* The recursive function in Recent exists.
LEMMA Kept == ASSUME NEW ages, NEW n \in Nat PROVE \E kept : Keeps(ages, n, kept)
<1> DEFINE S == {m \in Nat : \E kept : Keeps(ages, m, kept)}
<1>1. 0 \in S
  <2>1. Keeps(ages, 0, [m \in 0..0 |-> <<>>])
    BY DEF Keeps
  <2>2. QED
    BY <2>1
<1>2. ASSUME NEW m \in Nat, m \in S PROVE m + 1 \in S
  <2>1. PICK kept : Keeps(ages, m, kept)
    BY <1>2
  <2> DEFINE more == [i \in 0..(m + 1) |->
                        IF i <= m THEN kept[i]
                        ELSE IF ages[i] < Window THEN Append(kept[m], ages[i]) ELSE kept[m]]
  <2>2. \A i \in 0..(m + 1) :
          more[i] = IF i = 0 THEN <<>>
                    ELSE IF ages[i] < Window THEN Append(more[i - 1], ages[i]) ELSE more[i - 1]
    <3> SUFFICES ASSUME NEW i \in 0..(m + 1)
                 PROVE  more[i] = IF i = 0 THEN <<>>
                          ELSE IF ages[i] < Window THEN Append(more[i - 1], ages[i]) ELSE more[i - 1]
      OBVIOUS
    <3>1. CASE i = 0
      BY <2>1, <3>1 DEF Keeps
    <3>2. CASE i \in 1..m
      <4>1. i \in 0..m /\ i - 1 \in 0..m /\ i - 1 \in 0..(m + 1) /\ i - 1 <= m /\ i # 0 /\ i <= m
        BY <3>2
      <4>2. kept[i] = IF ages[i] < Window THEN Append(kept[i - 1], ages[i]) ELSE kept[i - 1]
        BY <2>1, <4>1 DEF Keeps
      <4>3. more[i] = kept[i] /\ more[i - 1] = kept[i - 1]
        BY <4>1
      <4> HIDE DEF more
      <4>4. QED
        BY <4>1, <4>2, <4>3
    <3>3. CASE i = m + 1
      <4>1. i - 1 = m /\ ~(i <= m) /\ i # 0 /\ m \in 0..(m + 1) /\ m <= m
        BY <3>3
      <4>2. /\ more[i] = IF ages[i] < Window THEN Append(kept[m], ages[i]) ELSE kept[m]
            /\ more[m] = kept[m]
        BY <4>1
      <4> HIDE DEF more
      <4>3. QED
        BY <4>1, <4>2
    <3>4. QED
      BY <3>1, <3>2, <3>3
  <2>3. Keeps(ages, m + 1, more)
    <3>1. more = [i \in 0..(m + 1) |-> more[i]]
      OBVIOUS
    <3> HIDE DEF more
    <3>2. QED
      BY <2>2, <3>1, Zenon DEF Keeps
  <2>4. QED
    BY <2>3
<1> HIDE DEF S
<1>3. Nat \subseteq S
  BY <1>1, <1>2, FromZero
<1>4. QED
  BY <1>3 DEF S

\* What is left of some failures are no more than them, and all within the window.
LEMMA RecentAges ==
  ASSUME NEW ages \in Seq(Nat)
  PROVE  Recent(ages) \in Seq(0..(Window - 1)) /\ Len(Recent(ages)) <= Len(ages)
<1>0. Len(ages) \in Nat
  OBVIOUS
<1>1. PICK kept : Keeps(ages, Len(ages), kept) /\ Recent(ages) = kept[Len(ages)]
  <2>1. \E kept : Keeps(ages, Len(ages), kept)
    BY <1>0, Kept
  <2>2. QED
    BY <2>1, Zenon DEF Recent, Keeps
<1> DEFINE S == {m \in Nat : m <= Len(ages) =>
                               kept[m] \in Seq(0..(Window - 1)) /\ Len(kept[m]) <= m}
<1>2. 0 \in S
  <2>1. kept[0] = <<>>
    BY <1>0, <1>1 DEF Keeps
  <2>2. <<>> \in Seq(0..(Window - 1))
    OBVIOUS
  <2>3. Len(<<>>) <= 0
    OBVIOUS
  <2>4. QED
    BY <2>1, <2>2, <2>3
<1>3. ASSUME NEW m \in Nat, m \in S PROVE m + 1 \in S
  <2> SUFFICES ASSUME m + 1 <= Len(ages)
               PROVE  kept[m + 1] \in Seq(0..(Window - 1)) /\ Len(kept[m + 1]) <= m + 1
    OBVIOUS
  <2>1. PICK q : q = kept[m] /\ q \in Seq(0..(Window - 1)) /\ Len(q) <= m
    BY <1>0, <1>3
  <2>2. m + 1 \in 0..Len(ages) /\ (m + 1) - 1 = m /\ m + 1 # 0 /\ m + 1 \in 1..Len(ages)
    BY <1>0
  <2>3. kept[m + 1] = IF ages[m + 1] < Window THEN Append(q, ages[m + 1]) ELSE q
    BY <1>1, <2>1, <2>2 DEF Keeps
  <2>4. ages[m + 1] \in Nat
    BY <2>2
  <2>5. CASE ages[m + 1] < Window
    <3>1. ages[m + 1] \in 0..(Window - 1)
      BY <2>4, <2>5, AccessAssumption
    <3>2. Append(q, ages[m + 1]) \in Seq(0..(Window - 1)) /\ Len(Append(q, ages[m + 1])) = Len(q) + 1
      BY <2>1, <3>1
    <3>3. QED
      BY <2>1, <2>3, <2>5, <3>2
  <2>6. CASE ~(ages[m + 1] < Window)
    BY <2>1, <2>3, <2>6
  <2>7. QED
    BY <2>5, <2>6
<1> HIDE DEF S
<1>4. Nat \subseteq S
  BY <1>2, <1>3, FromZero
<1>5. Len(ages) \in S
  BY <1>0, <1>4
<1>6. QED
  BY <1>0, <1>1, <1>5 DEF S

\* The start and a death keep the settings, files and keys of their kinds.
LEMMA BootKept ==
  ASSUME BootTypeOK, BootStep \/ Serve \/ Die PROVE BootTypeOK'
<1> USE BootAssumption DEF BootTypeOK, Lives, Life, Missing, Torn, Granted, Refused
<1>1. CASE Begin \/ Serve
  BY <1>1 DEF Begin, Serve
<1>2. ASSUME NEW name \in {"encryption_key", "jwt_signing_key", "instance_id"},
             NEW then \in {"ca", "instance_id", "codes"}, LoadOrCreate(name, then)
      PROVE  BootTypeOK'
  <2>1. /\ boot' \in {"down", "ca", "instance_id", "codes"} /\ UNCHANGED <<codes, deaths>>
        /\ refusals' = refusals \/ (refusals' = refusals + 1 /\ refusals < MaxRefusals)
        /\ disk' = disk \/ disk' = [disk EXCEPT ![name] = Life]
        /\ keys' = [keys EXCEPT ![name] = disk'[name]]
    <3> HIDE DEF BootTypeOK, Life, Lives
    <3>1. QED
      BY <1>2 DEF LoadOrCreate
  <2>2. disk' \in [encryption_key : Lives, jwt_signing_key : Lives, instance_id : Lives,
                   cert : Lives, key : Lives \cup {Torn}, codes : BOOLEAN,
                   vapid : {"none", "public", "both"}]
    BY <2>1
  <2>3. disk'[name] \in Lives
    <3>1. CASE name = "encryption_key"
      BY <2>2, <3>1
    <3>2. CASE name = "jwt_signing_key"
      BY <2>2, <3>2
    <3>3. CASE name = "instance_id"
      BY <2>2, <3>3
    <3>4. QED
      BY <3>1, <3>2, <3>3
  <2>4. QED
    BY <2>1, <2>2, <2>3
<1>3. CASE LoadOrCreateEncryptionKey \/ LoadOrCreateJWTKey \/ LoadOrCreateInstanceID
  BY <1>2, <1>3 DEF LoadOrCreateEncryptionKey, LoadOrCreateJWTKey, LoadOrCreateInstanceID
<1>4. CASE LoadCA
  BY <1>4 DEF LoadCA
<1>5. CASE SaveCACert
  BY <1>5 DEF SaveCACert
<1>6. CASE SaveCAKey
  <2>1. \/ /\ disk' = [disk EXCEPT !.key = keys.encryption_key]
           /\ keys' = [keys EXCEPT !.ca = deaths + 1]
        \/ disk' = disk /\ keys' = keys
    BY <1>6 DEF SaveCAKey
  <2>2. keys.encryption_key \in 0..(MaxDeaths + 1) /\ deaths + 1 \in 0..(MaxDeaths + 1)
    OBVIOUS
  <2>3. QED
    BY <1>6, <2>1, <2>2 DEF SaveCAKey
<1>7. CASE LoadOrCreateCodes
  <2>1. /\ boot' = "vapid" /\ codes' = TRUE /\ UNCHANGED <<keys, deaths>>
        /\ disk' = disk \/ disk' = [disk EXCEPT !.codes = TRUE]
        /\ refusals' \in 0..MaxRefusals
    BY <1>7 DEF LoadOrCreateCodes
  <2>2. QED
    BY <2>1
<1>8. CASE LoadOrCreateVAPID
  BY <1>8 DEF LoadOrCreateVAPID
<1>9. CASE SaveVAPID
  BY <1>9 DEF SaveVAPID
<1>10. CASE Die
  <2>1. /\ boot' = "down" /\ codes' = FALSE /\ keys' = NoKeys /\ refusals' = refusals
        /\ disk' = disk \/ disk' = [disk EXCEPT !.key = Torn]
        /\ deaths' \in 0..MaxDeaths
    BY <1>10 DEF Die
  <2>2. keys' \in [encryption_key : Lives, jwt_signing_key : Lives, instance_id : Lives, ca : Lives]
    BY <2>1 DEF NoKeys
  <2>3. disk' \in [encryption_key : Lives, jwt_signing_key : Lives, instance_id : Lives,
                   cert : Lives, key : Lives \cup {Torn}, codes : BOOLEAN,
                   vapid : {"none", "public", "both"}]
    BY <2>1
  <2>4. QED
    BY <2>1, <2>2, <2>3
<1>11. QED
  BY <1>1, <1>3, <1>4, <1>5, <1>6, <1>7, <1>8, <1>9, <1>10 DEF BootStep

\* The steps of the handlers are of their kinds.
LEMMA TypedKept == ASSUME AccessInv, KeysInv, Typed, [Next]_vars PROVE Typed'
<1> USE DEF Typed
<1>0. /\ DOMAIN req = Reqs /\ \A r \in Reqs : DOMAIN req[r] = RequestFields
      /\ DOMAIN mem = Fields /\ DOMAIN saved = Fields
  BY DEF AccessInv, Shape
<1>b. UNCHANGED bootVars => BootTypeOK'
  BY DEF BootTypeOK, bootVars
<1>r. Refused \/ Granted => refusals' \in 0..MaxRefusals
  BY BootAssumption DEF BootTypeOK, Refused, Granted
<1>f. \A r \in Reqs : /\ FieldOf(r) = "password" <=> req[r].kind \in {"setup", "change"}
                      /\ FieldOf(r) = "passkeys" <=> req[r].kind \in Ceremonies \cup {"unregister"}
  BY DEF FieldOf, Ceremonies
<1>k. "none" \notin Attempts \cup Ceremonies
  BY DEF Attempts, Ceremonies
\* Steps of one request that change no field.
<1>1. ASSUME NEW r \in Reqs, NEW k, req' = [req EXCEPT ![r] = k], Proper(k)
      PROVE  \A o \in Reqs : Proper(req'[o])
  BY <1>0, <1>1
<1>2. Proper(Idle)
  BY <1>k DEF Proper, Idle, Steps, Bearing
<1>3. ASSUME NEW r \in Reqs, NEW pc \in {"set", "reset", "fail", "issue", "row"},
             req' = At(r, pc) \/ req' = End(r),
             pc = "set" => req[r].pc \in Bearing \cup {"prove"},
             pc = "fail" => req[r].kind \in Attempts
      PROVE  \A o \in Reqs : Proper(req'[o])
  <2>1. CASE req' = At(r, pc)
    <3> DEFINE k == [Idle EXCEPT !.kind = req[r].kind, !.pc = pc,
                                 !.val = IF pc = "set" THEN req[r].val ELSE None]
    <3>1. k.kind = req[r].kind /\ k.pc = pc /\ k.tok = None /\ (pc = "set" => k.val = req[r].val)
      BY DEF Idle
    <3>2. req' = [req EXCEPT ![r] = k]
      BY <2>1 DEF At
    <3> HIDE DEF k
    <3>3. Proper(req[r])
      OBVIOUS
    <3>4. Proper(k)
      BY <1>3, <3>1, <3>3 DEF Proper, Steps, Bearing
    <3>5. QED
      BY <1>1, <3>2, <3>4
  <2>2. CASE req' = End(r)
    <3> DEFINE k == [Idle EXCEPT !.pc = IF req[r].kind \in Attempts THEN "idle" ELSE "end"]
    <3>1. k.kind = "none" /\ k.pc \in {"idle", "end"} /\ k.tok = None
      BY DEF Idle
    <3>2. req' = [req EXCEPT ![r] = k]
      BY <2>2 DEF End
    <3> HIDE DEF k
    <3>3. Proper(k)
      BY <3>1 DEF Proper, Steps, Bearing
    <3>4. QED
      BY <1>1, <3>2, <3>3
  <2>3. QED
    BY <1>3, <2>1, <2>2
<1>4. ASSUME NEW r \in Reqs, Ask(r) PROVE Typed'
  <2>1. PICK k \in Kinds : \E v \in Vals(k), t \in Toks(k) :
          req' = [req EXCEPT ![r] = [Idle EXCEPT !.kind = k, !.pc = First(k), !.tok = t, !.val = v]]
    BY <1>4 DEF Ask
  <2>2. PICK v \in Vals(k), t \in Toks(k) :
          req' = [req EXCEPT ![r] = [Idle EXCEPT !.kind = k, !.pc = First(k), !.tok = t, !.val = v]]
    BY <2>1
  <2>3. /\ First(k) \in {"check", "verify", "allow", "set", "prove"}
        /\ First(k) = "allow" => k \in Attempts
    BY DEF First
  <2>4. t \in Tokens \cup {None}
    BY <2>2 DEF Toks
  <2> DEFINE q == [Idle EXCEPT !.kind = k, !.pc = First(k), !.tok = t, !.val = v]
  <2>5. q.kind = k /\ q.pc = First(k) /\ q.val = v /\ q.tok = t
    BY DEF Idle
  <2>6. req' = [req EXCEPT ![r] = q]
    BY <2>2
  <2> HIDE DEF q
  <2>7. Proper(q)
    BY <2>2, <2>3, <2>4, <2>5 DEF Proper, Steps
  <2>8. QED
    BY <1>1, <1>4, <1>b, <2>6, <2>7 DEF Ask
<1>5. ASSUME NEW r \in Reqs, Allow(r) \/ RecordFailure(r) \/ Reset(r) PROVE Typed'
  <2>1. UNCHANGED <<bootVars, mem, saved, setUp, raced>>
    BY <1>5 DEF Allow, RecordFailure, Reset
  <2>2. \/ req' = [req EXCEPT ![r] = Idle]
        \/ req[r].pc = "allow" /\ req' = [req EXCEPT ![r] = [req[r] EXCEPT !.pc = "verify"]]
        \/ req' = [req EXCEPT ![r] = [req[r] EXCEPT !.pc = "issue"]]
    <3>1. CASE Allow(r)
      BY <3>1 DEF Allow
    <3>2. CASE RecordFailure(r)
      BY <3>2 DEF RecordFailure
    <3>3. CASE Reset(r)
      BY <3>3 DEF Reset
    <3>4. QED
      BY <1>5, <3>1, <3>2, <3>3
  <2>3. ASSUME NEW pc \in {"verify", "issue"}, pc = "verify" => req[r].pc = "allow",
               req' = [req EXCEPT ![r] = [req[r] EXCEPT !.pc = pc]]
        PROVE  \A o \in Reqs : Proper(req'[o])
    <3> DEFINE k == [req[r] EXCEPT !.pc = pc]
    <3>1. k.kind = req[r].kind /\ k.pc = pc /\ k.val = req[r].val /\ k.tok = req[r].tok
      BY <1>0
    <3>2. req' = [req EXCEPT ![r] = k]
      BY <2>3
    <3> HIDE DEF k
    <3>3. Proper(req[r])
      OBVIOUS
    <3>4. Proper(k)
      BY <2>3, <3>1, <3>3 DEF Proper, Steps, Bearing
    <3>5. QED
      BY <1>1, <3>2, <3>4
  <2>4. QED
    BY <1>1, <1>2, <1>b, <2>1, <2>2, <2>3
<1>6. ASSUME NEW r \in Reqs,
             \/ CheckSetup(r) \/ Verify(r) \/ Issue(r) \/ Refresh(r) \/ Recover(r) \/ Validate(r)
             \/ CreateServer(r) \/ VerifySignature(r) \/ VerifySetupSignature(r)
      PROVE  Typed'
  <2>1. UNCHANGED <<mem, saved, setUp, raced>>
    BY <1>6 DEF CheckSetup, Verify, Issue, Refresh, Recover, Validate, CreateServer,
       VerifySignature, VerifySetupSignature
  <2>2. \E pc \in {"set", "reset", "fail", "issue", "row"} :
          /\ req' = At(r, pc) \/ req' = End(r)
          /\ pc = "set" => req[r].pc \in Bearing \cup {"prove"}
          /\ pc = "fail" => req[r].kind \in Attempts
    <3> USE DEF Bearing
    <3>1. CASE CheckSetup(r)
      BY <3>1 DEF CheckSetup
    <3>2. CASE Verify(r)
      BY <3>2 DEF Verify
    <3>3. CASE Issue(r)
      BY <3>3 DEF Issue
    <3>4. CASE Refresh(r)
      BY <3>4 DEF Refresh
    <3>5. CASE Recover(r)
      BY <3>5 DEF Recover
    <3>6. CASE Validate(r)
      BY <3>6 DEF Validate
    <3>7. CASE CreateServer(r)
      BY <3>7 DEF CreateServer
    <3>8. CASE VerifySignature(r)
      BY <3>8 DEF VerifySignature
    <3>9. CASE VerifySetupSignature(r)
      BY <3>9 DEF VerifySetupSignature
    <3>10. QED
      BY <1>6, <3>1, <3>2, <3>3, <3>4, <3>5, <3>6, <3>7, <3>8, <3>9
  <2>3. BootTypeOK'
    <3>1. CASE Recover(r)
      <4>1. codes' \in BOOLEAN /\ UNCHANGED <<boot, disk, keys, deaths, refusals>>
        BY <3>1 DEF Recover
      <4>2. QED
        BY <4>1 DEF BootTypeOK
    <3>2. CASE CreateServer(r)
      <4>1. refusals' \in 0..MaxRefusals /\ UNCHANGED <<boot, disk, keys, codes, deaths>>
        BY <1>r, <3>2 DEF CreateServer
      <4>2. QED
        BY <4>1 DEF BootTypeOK
    <3>3. CASE ~Recover(r) /\ ~CreateServer(r)
      BY <1>6, <1>b, <3>3 DEF CheckSetup, Verify, Issue, Refresh, Validate, VerifySignature,
         VerifySetupSignature
    <3>4. QED
      BY <3>1, <3>2, <3>3
  <2>4. QED
    BY <1>3, <2>1, <2>2, <2>3
\* Steps that change a field.
<1>7. ASSUME NEW r \in Reqs, NEW value, NEW pc \in {"snapshot", "save"}, Change(r, value, pc),
             UNCHANGED <<bootVars, saved, setUp>>, FieldOf(r) = "passkeys" => pc = "snapshot",
             FieldOf(r) # "passkeys" => pc = "save",
             FieldOf(r) = "password" => value \in Passwords,
             FieldOf(r) = "passkeys" => value \subseteq Passkeys,
             FieldOf(r) = "address" => value \in Addresses \cup {None}
      PROVE  Typed'
  <2>0. PICK f \in Fields : f = FieldOf(r)
    BY DEF FieldOf, Fields, Ceremonies
  <2>1. /\ mem' = [mem EXCEPT ![f] = value]
        /\ req' = [o \in Reqs |->
             IF o = r THEN [Idle EXCEPT !.kind = req[r].kind, !.pc = pc, !.alone = Storing(f) = {},
                                        !.snap = IF f = "passkeys" THEN {} ELSE {value}]
             ELSE IF o \in Storing(f) THEN [req[o] EXCEPT !.alone = FALSE] ELSE req[o]]
        /\ raced' = IF Storing(f) = {} THEN raced ELSE raced \cup {f}
    BY <1>7, <2>0 DEF Change
  <2>2. req'[r] = [Idle EXCEPT !.kind = req[r].kind, !.pc = pc, !.alone = Storing(f) = {},
                               !.snap = IF f = "passkeys" THEN {} ELSE {value}]
    BY <2>1
  <2>3. /\ req'[r].kind = req[r].kind /\ req'[r].pc = pc /\ req'[r].tok = None
        /\ f # "passkeys" => req'[r].snap = {value}
    BY <2>2 DEF Idle
  <2>4. ASSUME NEW o \in Reqs \ {r} PROVE Proper(req'[o])
    <3>1. req'[o] = [req[o] EXCEPT !.alone = FALSE] \/ req'[o] = req[o]
      BY <2>1
    <3>2. /\ req'[o].kind = req[o].kind /\ req'[o].pc = req[o].pc /\ req'[o].tok = req[o].tok
          /\ req'[o].val = req[o].val /\ req'[o].snap = req[o].snap
      BY <1>0, <3>1
    <3>3. Proper(req[o])
      OBVIOUS
    <3>4. QED
      BY <3>2, <3>3 DEF Proper
  <2>5. Proper(req'[r])
    <3>1. req'[r].kind \in Kinds \cup {"none"} /\ req'[r].tok \in Tokens \cup {None}
      BY <2>3 DEF Proper
    <3>2. req'[r].pc \in Steps /\ req'[r].pc \notin Bearing \cup {"prove"}
      BY <2>3 DEF Steps, Bearing
    <3>3. pc = "save" /\ req[r].kind \in {"setup", "change"} => \E p \in Passwords : req'[r].snap = {p}
      BY <1>7, <1>f, <2>0, <2>3
    <3>4. pc = "save" => req[r].kind \notin Ceremonies \cup {"unregister"}
      BY <1>7, <1>f
    <3>5. pc = "save" /\ req[r].kind \notin {"setup", "change"} =>
            \E a \in Addresses \cup {None} : req'[r].snap = {a}
      <4>1. pc = "save" /\ req[r].kind \notin {"setup", "change"} => f = "address"
        BY <1>f, <2>0, <3>4 DEF Fields
      <4>2. QED
        BY <1>7, <2>0, <2>3, <4>1
    <3>6. QED
      BY <2>3, <3>1, <3>2, <3>3, <3>4, <3>5 DEF Proper
  <2>6. mem' \in Values
    BY <1>7, <2>0, <2>1 DEF Values, Fields
  <2>7. raced' \subseteq Fields
    BY <2>1
  <2>8. QED
    BY <1>7, <1>b, <2>4, <2>5, <2>6, <2>7
<1>8. ASSUME NEW r \in Reqs, SetPassword(r) \/ SetAddress(r) \/ RemoveAddress(r) PROVE Typed'
  <2>0. Proper(req[r])
    OBVIOUS
  <2>1. CASE SetPassword(r)
    <3>1. Change(r, req[r].val, "save") /\ FieldOf(r) = "password"
          /\ UNCHANGED <<bootVars, saved, setUp>>
      BY <1>f, <2>1 DEF SetPassword
    <3>2. req[r].val \in Passwords
      BY <2>0, <2>1 DEF SetPassword, Proper, Bearing, Vals
    <3>3. QED
      BY <1>7, <3>1, <3>2
  <2>2. CASE SetAddress(r)
    <3>1. /\ UNCHANGED <<bootVars, saved, setUp>> /\ Change(r, req[r].val, "save")
          /\ FieldOf(r) # "password" /\ FieldOf(r) # "passkeys"
      BY <1>f, <2>2 DEF SetAddress, Ceremonies
    <3>2. req[r].val \in Addresses
      BY <2>0, <2>2 DEF SetAddress, Proper, Bearing, Vals
    <3>3. QED
      BY <1>7, <3>1, <3>2
  <2>3. CASE RemoveAddress(r)
    <3>1. /\ UNCHANGED <<bootVars, saved, setUp>> /\ Change(r, None, "save")
          /\ FieldOf(r) # "password" /\ FieldOf(r) # "passkeys"
      BY <1>f, <2>3 DEF RemoveAddress, Ceremonies
    <3>2. QED
      BY <1>7, <3>1
  <2>4. QED
    BY <1>8, <2>1, <2>2, <2>3
<1>9. ASSUME NEW r \in Reqs, req' = End(r), UNCHANGED <<bootVars, mem, saved, setUp, raced>>
      PROVE  Typed'
  <2>1. \A o \in Reqs : Proper(req'[o])
    BY <1>3, <1>9
  <2>2. QED
    BY <1>9, <1>b, <2>1
<1>10. ASSUME NEW r \in Reqs, DeletePasskey(r) \/ FinishRegistration(r) \/ FinishLogin(r)
       PROVE  Typed'
  <2>0. Proper(req[r]) /\ mem.passkeys \subseteq Passkeys
    BY DEF Values
  <2>1. /\ FieldOf(r) = "passkeys" /\ UNCHANGED <<bootVars, saved, setUp>>
        /\ \/ Change(r, mem.passkeys \ {req[r].val}, "snapshot")
           \/ Change(r, mem.passkeys, "snapshot")
           \/ req[r].val \in Passkeys /\ Change(r, mem.passkeys \cup {req[r].val}, "snapshot")
           \/ req' = End(r) /\ UNCHANGED <<mem, raced>>
    <3>1. CASE DeletePasskey(r)
      BY <1>f, <3>1 DEF DeletePasskey
    <3>2. CASE FinishRegistration(r)
      <4>1. req[r].val \in Passkeys
        BY <2>0, <3>2 DEF FinishRegistration, Proper, Vals
      <4>2. \/ Change(r, mem.passkeys \cup {req[r].val}, "snapshot")
            \/ req' = End(r) /\ UNCHANGED <<mem, raced>>
        BY <3>2 DEF FinishRegistration
      <4>3. QED
        BY <1>f, <3>2, <4>1, <4>2 DEF FinishRegistration, Ceremonies
    <3>3. CASE FinishLogin(r)
      <4>1. \/ Change(r, mem.passkeys, "snapshot")
            \/ req' = End(r) /\ UNCHANGED <<mem, raced>>
        BY <3>3 DEF FinishLogin
      <4>2. QED
        BY <1>f, <3>3, <4>1 DEF FinishLogin, Ceremonies
    <3>4. QED
      BY <1>10, <3>1, <3>2, <3>3
  <2>2. mem.passkeys \ {req[r].val} \subseteq Passkeys
    BY <2>0
  <2>3. req[r].val \in Passkeys => mem.passkeys \cup {req[r].val} \subseteq Passkeys
    BY <2>0
  <2>4. CASE Change(r, mem.passkeys \ {req[r].val}, "snapshot")
    BY <1>7, <2>1, <2>2, <2>4
  <2>5. CASE Change(r, mem.passkeys, "snapshot")
    BY <1>7, <2>0, <2>1, <2>5
  <2>6. CASE req[r].val \in Passkeys /\ Change(r, mem.passkeys \cup {req[r].val}, "snapshot")
    BY <1>7, <2>1, <2>3, <2>6
  <2>7. CASE req' = End(r) /\ UNCHANGED <<mem, raced>>
    BY <1>9, <2>1, <2>7
  <2>8. QED
    BY <2>1, <2>4, <2>5, <2>6, <2>7
<1>11. ASSUME NEW r \in Reqs, Credentials(r) PROVE Typed'
  <2>1. /\ FieldOf(r) = "passkeys" /\ UNCHANGED <<bootVars, mem, saved, setUp, raced>>
        /\ req' = [req EXCEPT ![r].snap = mem.passkeys, ![r].pc = "save"]
    BY <1>11 DEF Credentials, AccessInv, Storings
  <2>2. /\ \A o \in Reqs \ {r} : req'[o] = req[o]
        /\ req'[r] = [req[r] EXCEPT !.snap = mem.passkeys, !.pc = "save"]
    BY <1>0, <2>1
  <2>3. /\ req'[r].kind = req[r].kind /\ req'[r].snap = mem.passkeys /\ req'[r].pc = "save"
        /\ req'[r].tok = req[r].tok
    BY <1>0, <2>2
  <2>4. mem.passkeys \subseteq Passkeys /\ req[r].kind \in Ceremonies \cup {"unregister"}
        /\ Proper(req[r])
    BY <1>f, <2>1 DEF Values
  <2>5. Proper(req'[r])
    BY <2>3, <2>4 DEF Proper, Steps, Bearing
  <2>6. QED
    BY <1>b, <2>1, <2>2, <2>5
<1>12. ASSUME NEW r \in Reqs, req[r].pc = "save"
       PROVE  Stored(r) \in IF FieldOf(r) = "passkeys" THEN SUBSET Passkeys
                            ELSE IF FieldOf(r) = "password" THEN Passwords ELSE Addresses \cup {None}
  <2>1. Proper(req[r])
    OBVIOUS
  <2>2. CASE FieldOf(r) = "passkeys"
    BY <1>12, <1>f, <2>1, <2>2 DEF Proper, Stored
  <2>3. CASE FieldOf(r) = "password"
    <3>1. PICK p \in Passwords : req[r].snap = {p}
      BY <1>12, <1>f, <2>1, <2>3 DEF Proper
    <3>2. QED
      BY <2>3, <3>1 DEF Stored
  <2>4. CASE FieldOf(r) # "passkeys" /\ FieldOf(r) # "password"
    <3>1. PICK a \in Addresses \cup {None} : req[r].snap = {a}
      BY <1>12, <1>f, <2>1, <2>4 DEF Proper
    <3>2. QED
      BY <2>4, <3>1 DEF Stored
  <2>5. QED
    BY <2>2, <2>3, <2>4
<1>13. ASSUME NEW r \in Reqs, Save(r) PROVE Typed'
  <2>0. PICK f \in Fields : f = FieldOf(r)
    BY DEF FieldOf, Fields, Ceremonies
  <2>1. /\ req[r].pc = "save" /\ UNCHANGED <<boot, disk, keys, codes, deaths, mem>>
        /\ saved' = saved \/ saved' = [saved EXCEPT ![f] = Stored(r)]
        /\ setUp' \in BOOLEAN /\ raced' \in {raced, raced \cup {f}, raced \ {f}}
        /\ Granted \/ Refused
        /\ req' = At(r, "issue") \/ req' = End(r)
    BY <1>13, <2>0 DEF Save
  <2>2. BootTypeOK'
    BY <1>r, <2>1 DEF BootTypeOK
  <2>3. saved' \in Values
    BY <1>12, <2>0, <2>1 DEF Values, Fields
  <2>4. \A o \in Reqs : Proper(req'[o])
    BY <1>3, <2>1
  <2>5. raced' \subseteq Fields
    BY <2>0, <2>1
  <2>6. QED
    BY <2>1, <2>2, <2>3, <2>4, <2>5
\* The rest of the dashboard.
<1>14. ASSUME Start PROVE Typed'
  <2>1. UNCHANGED <<mem, saved, req, setUp, raced>> /\ BootStep
    BY <1>14 DEF Start
  <2>2. QED
    BY <2>1, BootKept
<1>15. ASSUME Load PROVE Typed'
  <2>1. mem' = saved /\ UNCHANGED <<saved, req, setUp>> /\ raced' = {} /\ Serve
    BY <1>15 DEF Load
  <2>2. QED
    BY <2>1, BootKept
<1>16. ASSUME Crash PROVE Typed'
  <2>1. /\ mem' = Blank /\ raced' = {} /\ UNCHANGED <<saved, setUp>> /\ Die
        /\ req' = [r \in Reqs |-> IF req[r].pc = "idle" THEN Idle ELSE End(r)[r]]
    BY <1>16 DEF Crash
  <2>2. \A r \in Reqs : /\ req'[r].pc \in {"idle", "end"} /\ req'[r].kind = "none"
                        /\ req'[r].tok = None
    BY <1>0, <2>1 DEF End, Idle
  <2>3. \A r \in Reqs : Proper(req'[r])
    BY <2>2 DEF Proper, Steps, Bearing
  <2>4. mem' \in Values
    BY <2>1 DEF Blank, Values
  <2>5. QED
    BY <2>1, <2>3, <2>4, BootKept
<1>17. ASSUME Handing \/ Tick \/ UNCHANGED vars PROVE Typed'
  <2>1. UNCHANGED <<bootVars, mem, saved, req, setUp, raced>>
    BY <1>17 DEF Handing, Tick, BeginRegistration, BeginLogin, Generate, Expire,
       CreateChallenge, CreateSetupChallenge, Give
  <2>2. QED
    BY <1>b, <2>1
<1>18. ASSUME NEW r \in Reqs, Handler(r) PROVE Typed'
  BY <1>5, <1>6, <1>8, <1>10, <1>11, <1>13, <1>18 DEF Handler
<1>19. QED
  BY <1>4, <1>14, <1>15, <1>16, <1>17, <1>18 DEF Next

\* Past can only grow by an attempt that was let in, and a failure more on the
\* limiter's list is an attempt less that may still add one.
LEMMA CountedKept == ASSUME AccessInv, Typed, Counted, [Next]_vars PROVE Counted'
<1> USE DEF Counted
<1>0. /\ DOMAIN req = Reqs /\ \A r \in Reqs : DOMAIN req[r] = RequestFields
      /\ MaxFails \in Nat /\ Window \in Nat /\ IsFiniteSet(Reqs)
      /\ \A r \in Reqs : Proper(req[r])
  BY AccessAssumption DEF AccessInv, Shape, Typed
<1>1. IsFiniteSet(Past) /\ Cardinality(Past) \in Nat /\ Cardinality(Reqs) \in Nat
  <2>1. Past \subseteq Reqs
    BY DEF Past
  <2>2. QED
    BY <1>0, <2>1, FS_Subset, FS_CardinalityType
<1>2. ASSUME NEW ages \in Seq(0..Window)
      PROVE  Recent(ages) \in Seq(0..(Window - 1)) /\ Len(Recent(ages)) <= Len(ages)
  <2>1. ages \in Seq(Nat)
    <3>1. 0..Window \subseteq Nat
      BY <1>0
    <3>2. QED
      BY <3>1, SeqMonotonic
  <2>2. QED
    BY <2>1, RecentAges
<1>3. fails \in Seq(0..Window) /\ Len(fails) \in Nat
  <2>1. 0..(Window - 1) \subseteq 0..Window
    BY <1>0
  <2>2. QED
    BY <2>1, SeqMonotonic, LenProperties
\* Most steps let nobody in.
<1>4. ASSUME Past' \subseteq Past, fails' \in Seq(0..(Window - 1)), Len(fails') <= Len(fails)
      PROVE  Counted'
  <2>1. Cardinality(Past') \in Nat /\ Cardinality(Past') <= Cardinality(Past)
    BY <1>1, <1>4, FS_Subset, FS_CardinalityType
  <2>2. Len(fails') \in Nat
    BY <1>4
  <2>3. QED
    BY <1>0, <1>1, <1>3, <1>4, <2>1, <2>2
<1>5. ASSUME NEW r \in Reqs, NEW k, req' = [req EXCEPT ![r] = k],
             k.pc \in {"verify", "fail"} /\ k.kind \in Attempts =>
               req[r].pc \in {"verify", "fail"} /\ req[r].kind \in Attempts
      PROVE  Past' \subseteq Past
  <2>1. req'[r] = k /\ \A o \in Reqs \ {r} : req'[o] = req[o]
    BY <1>0, <1>5
  <2>2. QED
    BY <1>5, <2>1 DEF Past
<1>6. ASSUME NEW r \in Reqs, NEW pc \in {"set", "reset", "fail", "issue", "row"},
             req' = At(r, pc) \/ req' = End(r),
             pc = "fail" => req[r].pc = "verify"
      PROVE  Past' \subseteq Past
  <2>1. CASE req' = At(r, pc)
    <3> DEFINE k == [Idle EXCEPT !.kind = req[r].kind, !.pc = pc,
                                 !.val = IF pc = "set" THEN req[r].val ELSE None]
    <3>1. k.kind = req[r].kind /\ k.pc = pc
      BY DEF Idle
    <3>2. req' = [req EXCEPT ![r] = k]
      BY <2>1 DEF At
    <3> HIDE DEF k
    <3>3. QED
      BY <1>5, <1>6, <3>1, <3>2
  <2>2. CASE req' = End(r)
    <3> DEFINE k == [Idle EXCEPT !.pc = IF req[r].kind \in Attempts THEN "idle" ELSE "end"]
    <3>1. k.pc \in {"idle", "end"}
      BY DEF Idle
    <3>2. req' = [req EXCEPT ![r] = k]
      BY <2>2 DEF End
    <3> HIDE DEF k
    <3>3. QED
      BY <1>5, <3>1, <3>2
  <2>3. QED
    BY <1>6, <2>1, <2>2
<1>7. ASSUME NEW r \in Reqs, Ask(r) PROVE Past' \subseteq Past /\ fails' = fails
  <2>1. PICK k \in Kinds : \E v \in Vals(k), t \in Toks(k) :
          req' = [req EXCEPT ![r] = [Idle EXCEPT !.kind = k, !.pc = First(k), !.tok = t, !.val = v]]
    BY <1>7 DEF Ask
  <2>2. PICK v \in Vals(k), t \in Toks(k) :
          req' = [req EXCEPT ![r] = [Idle EXCEPT !.kind = k, !.pc = First(k), !.tok = t, !.val = v]]
    BY <2>1
  <2>3. k \in Attempts => First(k) = "allow"
    BY DEF First, Attempts
  <2> DEFINE q == [Idle EXCEPT !.kind = k, !.pc = First(k), !.tok = t, !.val = v]
  <2>4. q.kind = k /\ q.pc = First(k)
    BY DEF Idle
  <2>5. req' = [req EXCEPT ![r] = q]
    BY <2>2
  <2> HIDE DEF q
  <2>6. QED
    BY <1>5, <1>7, <2>3, <2>4, <2>5 DEF Ask
\* The limiter.
<1>8. ASSUME NEW r \in Reqs, Allow(r) PROVE Counted'
  <2>1. /\ fails' = Recent(fails)
        /\ req' = [req EXCEPT ![r] = IF Len(Recent(fails)) < MaxFails
                                     THEN [req[r] EXCEPT !.pc = "verify"] ELSE Idle]
    BY <1>8 DEF Allow
  <2>2. fails' \in Seq(0..(Window - 1)) /\ Len(fails') <= Len(fails)
    BY <1>2, <1>3, <2>1
  <2>3. CASE Len(Recent(fails)) < MaxFails
    <3>1. Past' \subseteq Reqs
      BY DEF Past
    <3>2. Cardinality(Past') \in Nat /\ Cardinality(Past') <= Cardinality(Reqs)
      BY <1>0, <3>1, FS_Subset, FS_CardinalityType
    <3>3. Len(fails') \in Nat /\ Len(fails') < MaxFails
      BY <2>1, <2>2, <2>3
    <3>4. QED
      BY <1>0, <1>1, <2>2, <3>2, <3>3
  <2>4. CASE ~(Len(Recent(fails)) < MaxFails)
    <3>1. req' = [req EXCEPT ![r] = Idle] /\ Idle.pc = "idle"
      BY <2>1, <2>4 DEF Idle
    <3>2. QED
      BY <1>4, <1>5, <2>2, <3>1
  <2>5. QED
    BY <2>3, <2>4
<1>9. ASSUME NEW r \in Reqs, RecordFailure(r) PROVE Counted'
  <2>1. req[r].pc = "fail" /\ fails' = Append(Recent(fails), 0) /\ req' = [req EXCEPT ![r] = Idle]
    BY <1>9 DEF RecordFailure
  <2>2. PICK q : q = Recent(fails) /\ q \in Seq(0..(Window - 1)) /\ Len(q) <= Len(fails)
    BY <1>2, <1>3
  <2>3. 0 \in 0..(Window - 1)
    BY AccessAssumption
  <2>4. fails' \in Seq(0..(Window - 1)) /\ Len(fails') = Len(q) + 1 /\ Len(q) \in Nat
    BY <2>1, <2>2, <2>3
  <2>5. r \in Past
    BY <1>0, <2>1 DEF Past, Proper
  <2>6. Past' \subseteq Past \ {r}
    <3>1. req'[r].pc = "idle" /\ \A o \in Reqs \ {r} : req'[o] = req[o]
      BY <1>0, <2>1 DEF Idle
    <3>2. QED
      BY <3>1 DEF Past
  <2>7. /\ Cardinality(Past \ {r}) = Cardinality(Past) - 1
        /\ IsFiniteSet(Past \ {r})
    BY <1>1, <2>5, FS_RemoveElement
  <2>8. Cardinality(Past') \in Nat /\ Cardinality(Past') <= Cardinality(Past) - 1
    BY <2>6, <2>7, FS_Subset, FS_CardinalityType
  <2>9. QED
    BY <1>0, <1>1, <1>3, <2>2, <2>4, <2>8
<1>10. ASSUME NEW r \in Reqs, Reset(r) PROVE Counted'
  <2>1. /\ fails' = <<>> /\ req[r].pc = "reset"
        /\ \/ req' = [req EXCEPT ![r] = Idle]
           \/ req' = [req EXCEPT ![r] = [req[r] EXCEPT !.pc = "issue"]]
    BY <1>10 DEF Reset
  <2>2. Idle.pc = "idle" /\ [req[r] EXCEPT !.pc = "issue"].pc = "issue"
    BY <1>0 DEF Idle
  <2>3. Past' \subseteq Past
    BY <1>5, <2>1, <2>2
  <2>4. <<>> \in Seq(0..(Window - 1)) /\ Len(<<>>) = 0
    OBVIOUS
  <2>5. QED
    BY <1>3, <1>4, <2>1, <2>3, <2>4
<1>11. ASSUME Tick PROVE Counted'
  <2>1. fails' = Recent([i \in DOMAIN fails |-> fails[i] + 1]) /\ req' = req
    BY <1>11 DEF Tick
  <2> DEFINE older == [i \in DOMAIN fails |-> fails[i] + 1]
  <2>2. older \in Seq(0..Window) /\ Len(older) = Len(fails)
    <3>1. /\ fails \in [1..Len(fails) -> 0..(Window - 1)] /\ Len(fails) \in Nat
          /\ DOMAIN fails = 1..Len(fails)
      BY LenProperties
    <3>2. older \in [1..Len(fails) -> 0..Window]
      BY <1>0, <3>1
    <3>3. PICK n \in Nat : n = Len(fails)
      BY <3>1
    <3> HIDE DEF older
    <3>4. ASSUME NEW S, NEW f \in [1..n -> S] PROVE f \in Seq(S) /\ Len(f) = n
      BY ONLY <3>4, n \in Nat
    <3>5. QED
      BY <3>2, <3>3, <3>4
  <2>3. fails' = Recent(older)
    BY <2>1
  <2> HIDE DEF older
  <2>4. Past' = Past
    BY <2>1 DEF Past
  <2>5. QED
    BY <1>2, <1>4, <2>2, <2>3, <2>4
\* The handlers' other steps.
<1>12. ASSUME NEW r \in Reqs,
              \/ CheckSetup(r) \/ Verify(r) \/ Issue(r) \/ Refresh(r) \/ Recover(r) \/ Validate(r)
              \/ CreateServer(r) \/ VerifySignature(r) \/ VerifySetupSignature(r) \/ Save(r)
       PROVE  Past' \subseteq Past /\ fails' = fails
  <2>1. fails' = fails
    BY <1>12 DEF CheckSetup, Verify, Issue, Refresh, Recover, Validate, CreateServer,
       VerifySignature, VerifySetupSignature, Save
  <2>2. \E pc \in {"set", "reset", "fail", "issue", "row"} :
          /\ req' = At(r, pc) \/ req' = End(r)
          /\ pc = "fail" => req[r].pc = "verify"
    <3>1. CASE CheckSetup(r)
      BY <3>1 DEF CheckSetup
    <3>2. CASE Verify(r)
      BY <3>2 DEF Verify
    <3>3. CASE Issue(r)
      BY <3>3 DEF Issue
    <3>4. CASE Refresh(r)
      BY <3>4 DEF Refresh
    <3>5. CASE Recover(r)
      BY <3>5 DEF Recover
    <3>6. CASE Validate(r)
      BY <3>6 DEF Validate
    <3>7. CASE CreateServer(r)
      BY <3>7 DEF CreateServer
    <3>8. CASE VerifySignature(r)
      BY <3>8 DEF VerifySignature
    <3>9. CASE VerifySetupSignature(r)
      BY <3>9 DEF VerifySetupSignature
    <3>10. CASE Save(r)
      BY <3>10 DEF Save
    <3>11. QED
      BY <1>12, <3>1, <3>2, <3>3, <3>4, <3>5, <3>6, <3>7, <3>8, <3>9, <3>10
  <2>3. QED
    BY <1>6, <2>1, <2>2
<1>13. ASSUME NEW r \in Reqs, NEW value, NEW pc \in {"snapshot", "save"}, Change(r, value, pc)
       PROVE  Past' \subseteq Past
  <2>1. PICK f : req' = [o \in Reqs |->
             IF o = r THEN [Idle EXCEPT !.kind = req[r].kind, !.pc = pc, !.alone = Storing(f) = {},
                                        !.snap = IF f = "passkeys" THEN {} ELSE {value}]
             ELSE IF o \in Storing(f) THEN [req[o] EXCEPT !.alone = FALSE] ELSE req[o]]
    BY <1>13 DEF Change
  <2>2. req'[r].pc = pc
    BY <2>1 DEF Idle
  <2>3. ASSUME NEW o \in Reqs \ {r} PROVE req'[o].pc = req[o].pc /\ req'[o].kind = req[o].kind
    <3>1. req'[o] = [req[o] EXCEPT !.alone = FALSE] \/ req'[o] = req[o]
      BY <2>1
    <3>2. QED
      BY <1>0, <3>1
  <2>4. QED
    BY <1>13, <2>2, <2>3 DEF Past
<1>14. ASSUME NEW r \in Reqs,
              \/ SetPassword(r) \/ SetAddress(r) \/ RemoveAddress(r) \/ DeletePasskey(r)
              \/ FinishRegistration(r) \/ FinishLogin(r)
       PROVE  Past' \subseteq Past /\ fails' = fails
  <2>1. fails' = fails
    BY <1>14 DEF SetPassword, SetAddress, RemoveAddress, DeletePasskey, FinishRegistration,
       FinishLogin
  <2>2. (\E value : \E pc \in {"snapshot", "save"} : Change(r, value, pc)) \/ req' = End(r)
    <3>1. CASE SetPassword(r)
      BY <3>1 DEF SetPassword
    <3>2. CASE SetAddress(r)
      BY <3>2 DEF SetAddress
    <3>3. CASE RemoveAddress(r)
      BY <3>3 DEF RemoveAddress
    <3>4. CASE DeletePasskey(r)
      BY <3>4 DEF DeletePasskey
    <3>5. CASE FinishRegistration(r)
      BY <3>5 DEF FinishRegistration
    <3>6. CASE FinishLogin(r)
      BY <3>6 DEF FinishLogin
    <3>7. QED
      BY <1>14, <3>1, <3>2, <3>3, <3>4, <3>5, <3>6
  <2>3. QED
    BY <1>6, <1>13, <2>1, <2>2
<1>15. ASSUME NEW r \in Reqs, Credentials(r) PROVE Past' \subseteq Past /\ fails' = fails
  <2>1. /\ fails' = fails /\ req' = [req EXCEPT ![r].snap = mem.passkeys, ![r].pc = "save"]
    BY <1>15 DEF Credentials
  <2>2. /\ \A o \in Reqs \ {r} : req'[o] = req[o]
        /\ req'[r] = [req[r] EXCEPT !.snap = mem.passkeys, !.pc = "save"]
    BY <1>0, <2>1
  <2>3. req'[r].pc = "save"
    BY <1>0, <2>2
  <2>4. QED
    BY <2>1, <2>2, <2>3 DEF Past
\* The rest of the dashboard.
<1>16. Start \/ Load \/ Handing \/ UNCHANGED vars => Past' = Past /\ fails' = fails
  BY DEF Past, Start, Load, Handing, BeginRegistration, BeginLogin, Generate, Expire,
     CreateChallenge, CreateSetupChallenge, Give
<1>17. ASSUME Crash PROVE Counted'
  <2>1. /\ fails' = <<>>
        /\ req' = [r \in Reqs |-> IF req[r].pc = "idle" THEN Idle ELSE End(r)[r]]
    BY <1>17 DEF Crash
  <2>2. \A r \in Reqs : req'[r].pc \in {"idle", "end"}
    BY <1>0, <2>1 DEF End, Idle
  <2>3. Past' \subseteq Past
    BY <2>2 DEF Past
  <2>4. <<>> \in Seq(0..(Window - 1)) /\ Len(<<>>) = 0
    OBVIOUS
  <2>5. QED
    BY <1>3, <1>4, <2>1, <2>3, <2>4
<1>18. ASSUME Past' \subseteq Past, fails' = fails PROVE Counted'
  BY <1>3, <1>4, <1>18
<1>19. ASSUME NEW r \in Reqs, Handler(r) PROVE Counted'
  BY <1>8, <1>9, <1>10, <1>12, <1>14, <1>15, <1>18, <1>19 DEF Handler
<1>20. QED
  BY <1>7, <1>11, <1>16, <1>17, <1>18, <1>19 DEF Next

\* Whatever is asked, refused and cut off, everything is of its kind, and the
\* limiter's count and the attempts that were let in stay within their bound.
THEOREM AccessInvariant == Spec => [](AccessInv /\ KeysInv /\ Typed /\ Counted)
<1>1. Init => KeysInv /\ Typed /\ Counted
  <2>0. /\ (CHOOSE p \in Passwords : TRUE) \in Passwords
        /\ (CHOOSE k \in Passkeys : TRUE) \in Passkeys
        /\ (CHOOSE a \in Addresses : TRUE) \in Addresses
    BY AccessAssumption
  <2>1. Init => KeysInv
    BY DEF Init, BootInit, KeysInv, CALoaded, Empty, Settled, NoKeys, Missing
  <2>2. ASSUME Init PROVE Typed
    <3>1. BootTypeOK
      <4>1. 0 \in Lives /\ 1 \in Lives /\ 0 \in 0..MaxDeaths /\ 0 \in 0..MaxRefusals
        BY BootAssumption DEF Lives
      <4>2. /\ Empty \in [encryption_key : Lives, jwt_signing_key : Lives, instance_id : Lives,
                          cert : Lives, key : Lives \cup {Torn}, codes : BOOLEAN,
                          vapid : {"none", "public", "both"}]
            /\ Settled \in [encryption_key : Lives, jwt_signing_key : Lives, instance_id : Lives,
                            cert : Lives, key : Lives \cup {Torn}, codes : BOOLEAN,
                            vapid : {"none", "public", "both"}]
            /\ NoKeys \in [encryption_key : Lives, jwt_signing_key : Lives, instance_id : Lives,
                           ca : Lives]
        BY <4>1 DEF Empty, Settled, NoKeys, Missing
      <4>3. QED
        BY <2>2, <4>1, <4>2 DEF Init, BootInit, BootTypeOK
    <3>2. Blank \in Values /\ Configured \in Values
      BY <2>0 DEF Blank, Configured, Values
    <3>3. Idle.kind = "none" /\ Idle.pc = "idle" /\ Idle.tok = None
      BY DEF Idle
    <3>4. Proper(Idle)
      BY <3>3 DEF Proper, Steps, Bearing
    <3>5. QED
      BY <2>2, <3>1, <3>2, <3>4 DEF Init, Typed
  <2>3. ASSUME Init PROVE Counted
    <3>1. Idle.pc = "idle"
      BY DEF Idle
    <3>2. Past = {}
      BY <2>3, <3>1 DEF Init, Past
    <3>3. <<>> \in Seq(0..(Window - 1)) /\ Len(<<>>) = 0
      OBVIOUS
    <3>4. Cardinality({}) = 0 /\ Cardinality(Reqs) \in Nat
      BY AccessAssumption, FS_EmptySet, FS_CardinalityType
    <3>5. QED
      BY <2>3, <3>2, <3>3, <3>4, AccessAssumption DEF Init, Counted
  <2>4. QED
    BY <2>1, <2>2, <2>3
<1>2. AccessInv /\ KeysInv /\ Typed /\ Counted /\ [Next]_vars => (KeysInv /\ Typed /\ Counted)'
  BY KeysKept, TypedKept, CountedKept
<1>3. QED
  BY <1>1, <1>2, SettingsDurable, PTL DEF Spec

\* The dashboard's state is of its kind through every step, death and refusal.
THEOREM AccessTyping == Spec => []TypeOK
<1>1. ASSUME AccessInv, KeysInv, Typed, Counted PROVE TypeOK
  <2> USE <1>1
  <2>1. ASSUME NEW r \in Reqs
        PROVE  /\ req[r].kind \in Kinds \cup {"none"}
               /\ req[r].pc \in {"idle", "check", "allow", "verify", "fail", "reset", "set", "prove",
                                 "snapshot", "save", "issue", "row", "end"}
               /\ req[r].tok \in Tokens \cup {None}
               /\ req[r].pc = "save" => Stored(r) \in
                    IF FieldOf(r) = "passkeys" THEN SUBSET Passkeys
                    ELSE IF FieldOf(r) = "password" THEN Passwords ELSE Addresses \cup {None}
    <3>1. Proper(req[r])
      BY DEF Typed
    <3>2. /\ FieldOf(r) = "password" <=> req[r].kind \in {"setup", "change"}
          /\ FieldOf(r) = "passkeys" <=> req[r].kind \in Ceremonies \cup {"unregister"}
      BY DEF FieldOf, Ceremonies
    <3>3. ASSUME req[r].pc = "save"
          PROVE  Stored(r) \in IF FieldOf(r) = "passkeys" THEN SUBSET Passkeys
                               ELSE IF FieldOf(r) = "password" THEN Passwords
                               ELSE Addresses \cup {None}
      <4>1. CASE FieldOf(r) = "passkeys"
        BY <3>1, <3>2, <3>3, <4>1 DEF Proper, Stored
      <4>2. CASE FieldOf(r) = "password"
        <5>1. PICK p \in Passwords : req[r].snap = {p}
          BY <3>1, <3>2, <3>3, <4>2 DEF Proper
        <5>2. QED
          BY <4>2, <5>1 DEF Stored
      <4>3. CASE FieldOf(r) # "passkeys" /\ FieldOf(r) # "password"
        <5>1. PICK a \in Addresses \cup {None} : req[r].snap = {a}
          BY <3>1, <3>2, <3>3, <4>3 DEF Proper
        <5>2. QED
          BY <4>3, <5>1 DEF Stored
      <4>4. QED
        BY <4>1, <4>2, <4>3
    <3>4. QED
      BY <3>1, <3>3 DEF Proper, Steps
  <2>2. \A i \in DOMAIN fails : fails[i] \in 0..(Window - 1)
    BY LenProperties, ElementOfSeq DEF Counted
  <2>3. used \subseteq {"jwt_signing_key", "ca"} \X Lives
    <3> SUFFICES ASSUME NEW u \in used PROVE u \in {"jwt_signing_key", "ca"} \X Lives
      OBVIOUS
    <3>1. disk.jwt_signing_key \in Lives /\ disk.cert \in Lives
      BY DEF Typed, BootTypeOK
    <3>2. u = <<"jwt_signing_key", disk.jwt_signing_key>> \/ u = <<"ca", disk.cert>>
      BY DEF KeysInv
    <3>3. QED
      BY <3>1, <3>2
  <2>4. tok \in [Tokens -> TokenOf] /\ granted \in [Tokens -> 0..2]
    BY DEF AccessInv, Unused
  <2>5. QED
    BY <2>1, <2>2, <2>3, <2>4 DEF TypeOK, Typed
<1>2. QED
  BY <1>1, AccessInvariant, PTL

\* Attempts that overlap are all let in before the first of them has failed, but
\* the limiter is exceeded by fewer than the requests that can be under way.
THEOREM LimiterHolds == Spec => []FailuresBounded
<1>1. ASSUME Counted PROVE FailuresBounded
  <2>1. Cardinality(Past) \in Nat /\ Cardinality(Reqs) \in Nat /\ MaxFails \in Nat
    <3>1. Past \subseteq Reqs
      BY DEF Past
    <3>2. QED
      BY <3>1, AccessAssumption, FS_Subset, FS_CardinalityType
  <2>2. Len(fails) \in Nat
    BY <1>1 DEF Counted
  <2>3. QED
    BY <1>1, <2>1, <2>2 DEF Counted, FailuresBounded
<1>2. QED
  BY <1>1, AccessInvariant, PTL
=============================================================================
