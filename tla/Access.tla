------------------------------- MODULE Access -------------------------------
(***************************************************************************)
(* How an operator gets into the dashboard, and a server too:              *)
(* internal/dashboard/handlers/auth.go on the managers of internal/auth,   *)
(* and the registration of agents (internal/dashboard/registration.go).    *)
(*                                                                         *)
(* The managers hold the password, the passkeys and the wallet address in  *)
(* memory, each under a lock of its own, and a handler stores what it has  *)
(* changed afterwards, without one.  Challenges, ceremonies, registration  *)
(* tokens and failed attempts are in memory only.  Hashes and signatures   *)
(* are ideal: whether one is right is a choice.                            *)
(***************************************************************************)
EXTENDS Boot, Sequences, FiniteSets

CONSTANTS
  Reqs,      \* HTTP requests under way; all but log-ins are used once
  Kinds,     \* what they ask for
  Tokens,    \* challenges, ceremonies and registration tokens, each random
  Passwords, Passkeys, Addresses,
  None,
  MaxFails, Window \* the limiter: failures of one client, and for how long

Attempts == {"login", "export"}
Passwordish == {"setup", "change"} \cup Attempts
Ceremonies == {"register", "passkey"}
AllKinds == Passwordish \cup Ceremonies \cup
            {"unregister", "link", "unlink", "wallet", "recover", "refresh", "enrol"}

ASSUME AccessAssumption ==
  /\ Kinds \subseteq AllKinds
  /\ None \notin Passwords \cup Passkeys \cup Addresses \cup Tokens
  /\ Passwords # {} /\ Passkeys # {} /\ Addresses # {} /\ IsFiniteSet(Reqs)
  /\ MaxFails \in Nat \ {0} /\ Window \in Nat \ {0}

VARIABLES
  mem,     \* password, passkeys and address in memory
  saved,   \* and in the settings
  req,     \* the requests
  tok,     \* the maps of challenges, sessions and tokens
  fails,   \* the limiter's failures of one client: their ages
  granted, \* how often each token has been accepted
  used,    \* keys that a token or certificate handed out depends on
  setUp,   \* whether a set-up has been reported and stored
  raced    \* what two handlers changed at once, or the database refused

vars == <<bootVars, mem, saved, req, tok, fails, granted, used, setUp, raced>>

Fields == {"password", "passkeys", "address"}
Blank == [password |-> None, passkeys |-> {}, address |-> None]
Configured == [password |-> CHOOSE p \in Passwords : TRUE,
               passkeys |-> {CHOOSE k \in Passkeys : TRUE},
               address |-> CHOOSE a \in Addresses : TRUE]
Idle == [kind |-> "none", pc |-> "idle", tok |-> None, val |-> None,
         snap |-> {}, alone |-> FALSE]
Unknown == [map |-> "none", for |-> None, late |-> FALSE]
Gone == [Unknown EXCEPT !.map = "gone"]

Init ==
  /\ BootInit
  /\ mem = Blank
  /\ saved \in IF disk = Empty THEN {Blank} ELSE {Blank, Configured}
  /\ req = [r \in Reqs |-> Idle]
  /\ tok = [t \in Tokens |-> Unknown]
  /\ fails = <<>>
  /\ granted = [t \in Tokens |-> 0]
  /\ used = {} /\ setUp = FALSE /\ raced = {}

Up == boot = "up"
HasPassword == mem.password # None

-----------------------------------------------------------------------------
(* What is handed out *)

Prune(map) == [t \in Tokens |-> IF tok[t].map = map /\ tok[t].late THEN Gone ELSE tok[t]]

Give(t, map, for) ==
  /\ Up /\ tok[t] = Unknown
  /\ tok' = [Prune(map) EXCEPT ![t] = [map |-> map, for |-> for, late |-> FALSE]]
  /\ UNCHANGED <<bootVars, mem, saved, req, fails, granted, used, setUp, raced>>

BeginRegistration(t) == Give(t, "session", "register")
BeginLogin(t) == mem.passkeys # {} /\ Give(t, "session", "passkey")

\* For the address that is registered; to link one, for any.
CreateChallenge(t, a) == mem.address = a /\ Give(t, "challenge", a)
CreateSetupChallenge(t, a) == Give(t, "challenge", a)
Generate(t) == Give(t, "registration", None)

\* A challenge is good for five minutes and a registration token for an hour;
\* a ceremony does not run out.
Expire(t) ==
  /\ Up /\ tok[t].map \in {"challenge", "registration"} /\ ~tok[t].late
  /\ tok' = [tok EXCEPT ![t].late = TRUE]
  /\ UNCHANGED <<bootVars, mem, saved, req, fails, granted, used, setUp, raced>>

\* Each map knows only its own.
Spend(t, map) == tok' = IF tok[t].map = map THEN [tok EXCEPT ![t] = Gone] ELSE tok
Good(t, map) == tok[t].map = map /\ ~tok[t].late
Accept(t, good) ==
  granted' = IF good /\ granted[t] < 2 THEN [granted EXCEPT ![t] = @ + 1] ELSE granted

-----------------------------------------------------------------------------
(* The limiter *)

\* pruneExpired: the failures that are not too old, in their order.
Recent(ages) ==
  LET kept[n \in 0..Len(ages)] ==
        IF n = 0 THEN <<>>
        ELSE IF ages[n] < Window THEN Append(kept[n - 1], ages[n]) ELSE kept[n - 1]
  IN  kept[Len(ages)]

\* Bug for LockoutEnds: an attempt that is turned away starts the time anew.
Allow_Counts(r) ==
  /\ req[r].pc = "allow"
  /\ IF Len(Recent(fails)) < MaxFails
     THEN fails' = Recent(fails) /\ req' = [req EXCEPT ![r].pc = "verify"]
     ELSE fails' = [i \in DOMAIN Recent(fails) |-> 0] /\ req' = [req EXCEPT ![r] = Idle]
  /\ UNCHANGED <<bootVars, mem, saved, tok, granted, used, setUp, raced>>

\* Allow, before the password is looked at.
Allow(r) ==
  /\ req[r].pc = "allow"
  /\ fails' = Recent(fails)
  /\ req' = [req EXCEPT ![r] = IF Len(Recent(fails)) < MaxFails
                               THEN [@ EXCEPT !.pc = "verify"] ELSE Idle]
  /\ UNCHANGED <<bootVars, mem, saved, tok, granted, used, setUp, raced>>

\* Bug for TypeOK: a failure is recorded as of the end of the window.
RecordFailure_NoTime(r) ==
  /\ req[r].pc = "fail"
  /\ fails' = Append(Recent(fails), Window)
  /\ req' = [req EXCEPT ![r] = Idle]
  /\ UNCHANGED <<bootVars, mem, saved, tok, granted, used, setUp, raced>>

\* Bug for FailuresBounded: a wrong password may be tried again at once.
RecordFailure_Retries(r) ==
  /\ req[r].pc = "fail"
  /\ fails' = Append(Recent(fails), 0)
  /\ req' = [req EXCEPT ![r].pc = "verify"]
  /\ UNCHANGED <<bootVars, mem, saved, tok, granted, used, setUp, raced>>

\* RecordFailure, after it was found wrong.
RecordFailure(r) ==
  /\ req[r].pc = "fail"
  /\ fails' = Append(Recent(fails), 0)
  /\ req' = [req EXCEPT ![r] = Idle]
  /\ UNCHANGED <<bootVars, mem, saved, tok, granted, used, setUp, raced>>

\* Reset, after it was found right.
Reset(r) ==
  /\ req[r].pc = "reset"
  /\ fails' = <<>>
  /\ req' = [req EXCEPT ![r] = IF req[r].kind = "login" THEN [@ EXCEPT !.pc = "issue"] ELSE Idle]
  /\ UNCHANGED <<bootVars, mem, saved, tok, granted, used, setUp, raced>>

Tick ==
  /\ fails # <<>>
  /\ fails' = Recent([i \in DOMAIN fails |-> fails[i] + 1])
  /\ UNCHANGED <<bootVars, mem, saved, req, tok, granted, used, setUp, raced>>

-----------------------------------------------------------------------------
(* The handlers: what they change, and how they store it *)

FieldOf(r) == CASE req[r].kind \in {"setup", "change"}           -> "password"
                [] req[r].kind \in Ceremonies \cup {"unregister"} -> "passkeys"
                [] OTHER                                         -> "address"
First(k) == CASE k = "setup"                         -> "check"
              [] k \in {"change"}                    -> "verify"
              [] k \in Attempts                      -> "allow"
              [] k \in {"unregister", "unlink"}      -> "set"
              [] OTHER                               -> "prove"
\* Of a request only what its next steps read is kept.
At(r, pc) == [req EXCEPT ![r] = [Idle EXCEPT !.kind = req[r].kind, !.pc = pc,
                                             !.val = IF pc = "set" THEN req[r].val ELSE None]]
End(r) == [req EXCEPT ![r] = [Idle EXCEPT !.pc = IF req[r].kind \in Attempts THEN "idle" ELSE "end"]]

Vals(k) == CASE k \in {"setup", "change"}                     -> Passwords
             [] k \in {"register", "passkey", "unregister"}   -> Passkeys
             [] k \in {"link", "wallet"}                      -> Addresses
             [] OTHER                                         -> {None}
Toks(k) == IF k \in Ceremonies \cup {"link", "wallet", "enrol"}
           THEN {t \in Tokens : tok[t] # Unknown} ELSE {None}

\* A request comes in; what it sends may be old, another's, or used before.
Ask(r) ==
  /\ Up /\ req[r].pc = "idle"
  /\ \E k \in Kinds : \E v \in Vals(k), t \in Toks(k) :
       /\ k = "export" => HasPassword
       /\ req' = [req EXCEPT ![r] = [Idle EXCEPT !.kind = k, !.pc = First(k), !.tok = t, !.val = v]]
  /\ UNCHANGED <<bootVars, mem, saved, tok, fails, granted, used, setUp, raced>>

\* HandleSetupPassword: only as long as there is none.
CheckSetup(r) ==
  /\ req[r].pc = "check"
  /\ req' = IF HasPassword THEN End(r) ELSE At(r, "set")
  /\ UNCHANGED <<bootVars, mem, saved, tok, fails, granted, used, setUp, raced>>

\* PasswordManager.Verify.  Without a password none is right.
Verify(r) ==
  /\ req[r].pc = "verify"
  /\ \E right \in IF HasPassword THEN BOOLEAN ELSE {FALSE} :
       req' = IF req[r].kind \in Attempts THEN At(r, IF right THEN "reset" ELSE "fail")
              ELSE IF right THEN At(r, "set") ELSE End(r)
  /\ UNCHANGED <<bootVars, mem, saved, tok, fails, granted, used, setUp, raced>>

\* Requests that have changed a field and not stored it yet.
Storing(f) == {r \in Reqs : req[r].pc \in {"snapshot", "save"} /\ FieldOf(r) = f}

\* A field changes in memory, in the lock of its manager.
Change(r, value, pc) ==
  LET f == FieldOf(r) IN
  /\ mem' = [mem EXCEPT ![f] = value]
  /\ req' = [o \in Reqs |->
       IF o = r THEN [Idle EXCEPT !.kind = req[r].kind, !.pc = pc, !.alone = Storing(f) = {},
                                  !.snap = IF f = "passkeys" THEN {} ELSE {value}]
       ELSE IF o \in Storing(f) THEN [req[o] EXCEPT !.alone = FALSE] ELSE req[o]]
  /\ raced' = IF Storing(f) = {} THEN raced ELSE raced \cup {f}

SetPassword(r) ==
  /\ req[r].pc = "set" /\ req[r].kind \in {"setup", "change"}
  /\ Change(r, req[r].val, "save")
  /\ UNCHANGED <<bootVars, saved, tok, fails, granted, used, setUp>>

SetAddress(r) ==
  /\ req[r].pc = "set" /\ req[r].kind = "link"
  /\ Change(r, req[r].val, "save")
  /\ UNCHANGED <<bootVars, saved, tok, fails, granted, used, setUp>>

RemoveAddress(r) ==
  /\ req[r].pc = "set" /\ req[r].kind = "unlink"
  /\ Change(r, None, "save")
  /\ UNCHANGED <<bootVars, saved, tok, fails, granted, used, setUp>>

\* The last passkey stays.
DeletePasskey(r) ==
  /\ req[r].pc = "set" /\ req[r].kind = "unregister"
  /\ IF Cardinality(mem.passkeys) > 1 /\ req[r].val \in mem.passkeys
     THEN Change(r, mem.passkeys \ {req[r].val}, "snapshot")
     ELSE req' = End(r) /\ UNCHANGED <<mem, raced>>
  /\ UNCHANGED <<bootVars, saved, tok, fails, granted, used, setUp>>

\* A ceremony ends with the first answer to it, of whichever kind.  An
\* authenticator makes a new passkey each time.
FinishRegistration(r) ==
  /\ req[r].pc = "prove" /\ req[r].kind = "register"
  /\ Spend(req[r].tok, "session")
  /\ \E ok \in BOOLEAN :
       /\ ok => Good(req[r].tok, "session") /\ tok[req[r].tok].for = "register"
                /\ req[r].val \notin mem.passkeys
       /\ Accept(req[r].tok, ok)
       /\ IF ok THEN Change(r, mem.passkeys \cup {req[r].val}, "snapshot")
          ELSE req' = End(r) /\ UNCHANGED <<mem, raced>>
  /\ UNCHANGED <<bootVars, saved, fails, used, setUp>>

\* The passkey's counter changes, which is stored as any change of them is.
FinishLogin(r) ==
  /\ req[r].pc = "prove" /\ req[r].kind = "passkey"
  /\ Spend(req[r].tok, "session")
  /\ \E ok \in BOOLEAN :
       /\ ok => Good(req[r].tok, "session") /\ tok[req[r].tok].for = "passkey"
                /\ req[r].val \in mem.passkeys
       /\ Accept(req[r].tok, ok)
       /\ IF ok THEN Change(r, mem.passkeys, "snapshot")
          ELSE req' = End(r) /\ UNCHANGED <<mem, raced>>
  /\ UNCHANGED <<bootVars, saved, fails, used, setUp>>

\* Bug for UsedOnce: a challenge is spent only by a wrong signature.
VerifySignature_Keeps(r) ==
  /\ req[r].pc = "prove" /\ req[r].kind = "wallet"
  /\ \E ok \in IF Good(req[r].tok, "challenge") /\ tok[req[r].tok].for = req[r].val
               THEN BOOLEAN ELSE {FALSE} :
       /\ IF ok THEN tok' = tok ELSE Spend(req[r].tok, "challenge")
       /\ Accept(req[r].tok, ok)
       /\ req' = IF ok THEN At(r, "issue") ELSE End(r)
  /\ UNCHANGED <<bootVars, mem, saved, fails, used, setUp, raced>>

\* A challenge for another address, or one no longer registered, is kept; any
\* other is spent, and the signature looked at afterwards.
VerifySignature(r) ==
  LET t == req[r].tok IN
  /\ req[r].pc = "prove" /\ req[r].kind = "wallet"
  /\ IF ~Good(t, "challenge") THEN Spend(t, "challenge") /\ granted' = granted /\ req' = End(r)
     ELSE IF tok[t].for # req[r].val \/ mem.address # req[r].val
     THEN UNCHANGED <<tok, granted>> /\ req' = End(r)
     ELSE \E ok \in BOOLEAN :
            Spend(t, "challenge") /\ Accept(t, ok) /\ req' = IF ok THEN At(r, "issue") ELSE End(r)
  /\ UNCHANGED <<bootVars, mem, saved, fails, used, setUp, raced>>

VerifySetupSignature(r) ==
  LET t == req[r].tok IN
  /\ req[r].pc = "prove" /\ req[r].kind = "link"
  /\ IF ~Good(t, "challenge") THEN Spend(t, "challenge") /\ granted' = granted /\ req' = End(r)
     ELSE IF tok[t].for # req[r].val THEN UNCHANGED <<tok, granted>> /\ req' = End(r)
     ELSE \E ok \in BOOLEAN :
            Spend(t, "challenge") /\ Accept(t, ok) /\ req' = IF ok THEN At(r, "set") ELSE End(r)
  /\ UNCHANGED <<bootVars, mem, saved, fails, used, setUp, raced>>

\* Credentials: the passkeys as they are by now.
Credentials(r) ==
  /\ req[r].pc = "snapshot"
  /\ req' = [req EXCEPT ![r].snap = mem.passkeys, ![r].pc = "save"]
  /\ UNCHANGED <<bootVars, mem, saved, tok, fails, granted, used, setUp, raced>>

Stored(r) == IF FieldOf(r) = "passkeys" THEN req[r].snap ELSE CHOOSE v \in req[r].snap : TRUE

\* Bug for Durable: the last passkeys stored win over fewer.
Save_OnlyGrows(r) ==
  /\ req[r].pc = "save"
  /\ Granted
  /\ saved' = [saved EXCEPT ![FieldOf(r)] =
       IF FieldOf(r) = "passkeys" THEN @ \cup Stored(r) ELSE Stored(r)]
  /\ raced' = IF req[r].alone THEN raced \ {FieldOf(r)} ELSE raced
  /\ req' = IF req[r].kind \in Ceremonies \cup {"setup"} THEN At(r, "issue") ELSE End(r)
  /\ UNCHANGED <<boot, disk, keys, codes, deaths, mem, tok, fails, granted, used, setUp>>

\* The callbacks of main.go.  That the database refuses is logged, and the
\* handler goes on.
Save(r) ==
  LET f == FieldOf(r) IN
  /\ req[r].pc = "save"
  /\ \/ /\ Granted
        /\ saved' = [saved EXCEPT ![f] = Stored(r)]
        /\ raced' = IF req[r].alone THEN raced \ {f} ELSE raced
        /\ setUp' = (setUp \/ req[r].kind \in {"setup", "register"})
     \/ Refused /\ saved' = saved /\ raced' = raced \cup {f} /\ setUp' = setUp
  /\ req' = IF req[r].kind \in Ceremonies \cup {"setup"} THEN At(r, "issue") ELSE End(r)
  /\ UNCHANGED <<boot, disk, keys, codes, deaths, mem, tok, fails, granted, used>>

\* IssueTokenPair: nothing of a token is kept but the key it is signed with.
Issue(r) ==
  /\ req[r].pc = "issue"
  /\ used' = used \cup {<<"jwt_signing_key", keys.jwt_signing_key>>}
  /\ req' = End(r)
  /\ UNCHANGED <<bootVars, mem, saved, tok, fails, granted, setUp, raced>>

\* RefreshTokenPair: a token signed with the key, if it has not run out.
Refresh(r) ==
  /\ req[r].pc = "prove" /\ req[r].kind = "refresh"
  /\ \E good \in {FALSE, <<"jwt_signing_key", keys.jwt_signing_key>> \in used} :
       req' = IF good THEN At(r, "issue") ELSE End(r)
  /\ UNCHANGED <<bootVars, mem, saved, tok, fails, granted, used, setUp, raced>>

\* RecoveryManager.Verify marks the code in memory.
Recover(r) ==
  /\ req[r].pc = "prove" /\ req[r].kind = "recover"
  /\ \E good \in {FALSE, codes} :
       /\ codes' = (codes /\ ~good)
       /\ req' = IF good THEN At(r, "issue") ELSE End(r)
  /\ UNCHANGED <<boot, disk, keys, deaths, refusals, mem, saved, tok, fails, granted, used,
                 setUp, raced>>

\* HandleRegisterAgent spends the token ...
Validate(r) ==
  /\ req[r].pc = "prove" /\ req[r].kind = "enrol"
  /\ Spend(req[r].tok, "registration")
  /\ Accept(req[r].tok, Good(req[r].tok, "registration"))
  /\ req' = IF Good(req[r].tok, "registration") THEN At(r, "row") ELSE End(r)
  /\ UNCHANGED <<bootVars, mem, saved, fails, used, setUp, raced>>

\* ... and then makes the server's certificate and row.
CreateServer(r) ==
  /\ req[r].pc = "row"
  /\ \/ Granted /\ used' = used \cup {<<"ca", keys.ca>>}
     \/ Refused /\ used' = used
  /\ req' = End(r)
  /\ UNCHANGED <<boot, disk, keys, codes, deaths, mem, saved, tok, fails, granted, setUp, raced>>

-----------------------------------------------------------------------------
(* The process *)

Load ==
  /\ Serve
  /\ mem' = saved
  /\ raced' = {}
  /\ UNCHANGED <<saved, req, tok, fails, granted, used, setUp>>

Start == BootStep /\ UNCHANGED <<mem, saved, req, tok, fails, granted, used, setUp, raced>>

Crash ==
  /\ Die
  /\ mem' = Blank /\ fails' = <<>> /\ raced' = {}
  /\ req' = [r \in Reqs |-> IF req[r].pc = "idle" THEN Idle ELSE End(r)[r]]
  /\ tok' = [t \in Tokens |-> IF tok[t] = Unknown THEN Unknown ELSE Gone]
  /\ UNCHANGED <<saved, granted, used, setUp>>

Handing == \E t \in Tokens :
  \/ BeginRegistration(t) \/ BeginLogin(t) \/ Generate(t) \/ Expire(t)
  \/ \E a \in Addresses : CreateChallenge(t, a) \/ CreateSetupChallenge(t, a)

Handler(r) ==
  \/ Allow(r) \/ RecordFailure(r) \/ Reset(r) \/ CheckSetup(r) \/ Verify(r)
  \/ SetPassword(r) \/ SetAddress(r) \/ RemoveAddress(r) \/ DeletePasskey(r)
  \/ FinishRegistration(r) \/ FinishLogin(r) \/ VerifySignature(r)
  \/ VerifySetupSignature(r) \/ Credentials(r) \/ Save(r) \/ Issue(r) \/ Refresh(r)
  \/ Recover(r) \/ Validate(r) \/ CreateServer(r)

Next ==
  \/ Start \/ Load \/ Crash \/ Tick \/ Handing
  \/ \E r \in Reqs : Ask(r) \/ Handler(r)

\* Time passes.  Nothing else is needed for the property below: requests may
\* be as slow, and as many, as they like.
Fairness == WF_vars(Tick)

Spec == Init /\ [][Next]_vars /\ Fairness

-----------------------------------------------------------------------------
(* Properties *)

Values == [password : Passwords \cup {None}, passkeys : SUBSET Passkeys,
           address : Addresses \cup {None}]

TypeOK ==
  /\ BootTypeOK
  /\ mem \in Values /\ saved \in Values
  /\ \A r \in Reqs :
       /\ req[r].kind \in Kinds \cup {"none"}
       /\ req[r].pc \in {"idle", "check", "allow", "verify", "fail", "reset", "set", "prove",
                         "snapshot", "save", "issue", "row", "end"}
       /\ req[r].tok \in Tokens \cup {None}
       /\ req[r].pc = "save" => Stored(r) \in
            IF FieldOf(r) = "passkeys" THEN SUBSET Passkeys
            ELSE IF FieldOf(r) = "password" THEN Passwords ELSE Addresses \cup {None}
  /\ tok \in [Tokens -> [map : {"none", "gone", "session", "challenge", "registration"},
                         for : Addresses \cup {None} \cup Ceremonies,
                         late : BOOLEAN]]
  /\ \A i \in DOMAIN fails : fails[i] \in 0..(Window - 1)
  /\ granted \in [Tokens -> 0..2]
  /\ used \subseteq {"jwt_signing_key", "ca"} \X Lives
  /\ setUp \in BOOLEAN /\ raced \subseteq Fields

\* A restart brings back what the last handler has set, once it has stored it:
\* memory and settings agree on every field nobody is storing, unless two
\* handlers changed it at once, and the older write came last, or the database
\* refused one (main.go:333-350).
Durable == Up => \A f \in Fields \ raced : Storing(f) = {} => saved[f] = mem[f]

\* Attempts that overlap are all let in before the first of them has failed,
\* but no more than that: the limiter is exceeded by fewer than the requests
\* that can be under way at once (auth/ratelimit.go:26, handlers/auth.go:113).
FailuresBounded == Len(fails) < MaxFails + Cardinality(Reqs)

\* A client that has been turned away is let in again, however often it tries
\* meanwhile.
LockoutEnds == []<>(Len(fails) < MaxFails)

\* The first run happens once.  When a set-up has been reported there is a way
\* to log in after every later start, and the keys that tokens and certificates
\* in other hands were made with are those that every later start loads,
\* wherever the earlier ones were cut off.
FirstRunSticks ==
  Up => /\ setUp => HasPassword \/ mem.passkeys # {}
        /\ \A u \in used : keys[u[1]] = u[2]

\* Challenges, ceremonies and registration tokens are accepted at most once,
\* and not after they ran out or the dashboard was restarted.
LiveTokens == {t \in Tokens : tok[t].map \notin {"none", "gone"} /\ ~tok[t].late}
Once == INSTANCE OneUse WITH
  good <- LiveTokens,
  void <- {t \in Tokens : tok[t] # Unknown} \ LiveTokens,
  uses <- granted
UsedOnce == Once!Spec
=============================================================================
