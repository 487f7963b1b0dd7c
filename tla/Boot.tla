-------------------------------- MODULE Boot --------------------------------
(***************************************************************************)
(* The start of the dashboard as far as it depends on what earlier starts  *)
(* have left behind (cmd/dashboard/main.go): the keys in the settings      *)
(* table, the certificate authority in two files (internal/crypto/ca.go),  *)
(* the recovery codes and the key pair for web push.  What is missing is   *)
(* made and stored, one write after the other, and the process may die     *)
(* between any two of them, or within the last of the two files.           *)
(***************************************************************************)
EXTENDS Integers

CONSTANTS
  MaxDeaths,  \* bound: deaths of the dashboard
  MaxRefusals \* bound: writes that the database or the disk refuses

ASSUME BootAssumption == MaxDeaths \in Nat /\ MaxRefusals \in Nat

VARIABLES
  boot,    \* the step the start is at, "down", or "up"
  disk,    \* the settings and files; a key is named after the life it is of
  keys,    \* the keys in memory
  codes,   \* whether a recovery code is still unused, in memory
  deaths,
  refusals

bootVars == <<boot, disk, keys, codes, deaths, refusals>>

Life == deaths + 1
Lives == 0..(MaxDeaths + 1)

Missing == 0
Torn == -1   \* a key file that was not written to its end

Refused == refusals < MaxRefusals /\ refusals' = refusals + 1
Granted == UNCHANGED refusals

NoKeys == [encryption_key |-> Missing, jwt_signing_key |-> Missing,
           instance_id |-> Missing, ca |-> Missing]
Empty == [encryption_key |-> Missing, jwt_signing_key |-> Missing, instance_id |-> Missing,
          cert |-> Missing, key |-> Missing, codes |-> FALSE, vapid |-> "none"]
Settled == [encryption_key |-> 1, jwt_signing_key |-> 1, instance_id |-> 1,
            cert |-> 1, key |-> 1, codes |-> TRUE, vapid |-> "both"]

BootInit ==
  /\ boot = "down"
  /\ disk \in {Empty, Settled}
  /\ keys = NoKeys /\ codes = FALSE
  /\ deaths = 0 /\ refusals = 0

Begin == boot = "down" /\ boot' = "encryption_key" /\ UNCHANGED <<disk, keys, codes, deaths, refusals>>

\* Bug for FirstRunSticks: a key that could not be stored is used all the same.
LoadOrCreate_LogsOnly(name, then) ==
  /\ boot = name
  /\ \/ disk[name] # Missing /\ Granted /\ disk' = disk
     \/ disk[name] = Missing /\ Granted /\ disk' = [disk EXCEPT ![name] = Life]
     \/ disk[name] = Missing /\ Refused /\ disk' = disk
  /\ keys' = [keys EXCEPT ![name] = IF disk'[name] = Missing THEN Life ELSE disk'[name]]
  /\ boot' = then
  /\ UNCHANGED <<codes, deaths>>

\* A key is loaded, or made and stored; the start is given up when it cannot be.
LoadOrCreate(name, then) ==
  /\ boot = name
  /\ \/ disk[name] # Missing /\ Granted /\ boot' = then /\ disk' = disk
     \/ disk[name] = Missing /\ Granted /\ boot' = then /\ disk' = [disk EXCEPT ![name] = Life]
     \/ disk[name] = Missing /\ Refused /\ boot' = "down" /\ disk' = disk
  /\ keys' = [keys EXCEPT ![name] = disk'[name]]
  /\ UNCHANGED <<codes, deaths>>

LoadOrCreateEncryptionKey == LoadOrCreate("encryption_key", "ca")
LoadOrCreateJWTKey        == LoadOrCreate("jwt_signing_key", "instance_id")
LoadOrCreateInstanceID    == LoadOrCreate("instance_id", "codes")

\* LoadCAFromDir: both files, the second decrypted with the key in memory.
CALoads == disk.cert # Missing /\ disk.key = keys.encryption_key

\* A CA that cannot be loaded is replaced only if it has no key file.
LoadCA ==
  /\ boot = "ca"
  /\ CALoads \/ disk.key # Missing
  /\ boot' = IF CALoads THEN "jwt_signing_key" ELSE "down"
  /\ keys' = [keys EXCEPT !.ca = IF CALoads THEN disk.cert ELSE Missing]
  /\ UNCHANGED <<disk, codes, deaths, refusals>>

\* SaveToDir: the certificate, then the key.
SaveCACert ==
  /\ boot = "ca" /\ ~CALoads /\ disk.key = Missing
  /\ \/ Granted /\ boot' = "ca.key" /\ disk' = [disk EXCEPT !.cert = Life]
     \/ Refused /\ boot' = "down" /\ disk' = disk
  /\ UNCHANGED <<keys, codes, deaths>>

SaveCAKey ==
  /\ boot = "ca.key"
  /\ \/ /\ Granted /\ boot' = "jwt_signing_key"
        /\ disk' = [disk EXCEPT !.key = keys.encryption_key]
        /\ keys' = [keys EXCEPT !.ca = Life]
     \/ Refused /\ boot' = "down" /\ UNCHANGED <<disk, keys>>
  /\ UNCHANGED <<codes, deaths>>

\* The codes are loaded without a mark of those used, or made; a failure to
\* store them is logged.
LoadOrCreateCodes ==
  /\ boot = "codes"
  /\ boot' = "vapid" /\ codes' = TRUE
  /\ \/ Granted /\ disk' = [disk EXCEPT !.codes = TRUE]
     \/ ~disk.codes /\ Refused /\ disk' = disk
  /\ UNCHANGED <<keys, deaths>>

\* Web push has a pair of keys, stored one after the other; half a pair is
\* made again.  The last step before requests are served.
LoadOrCreateVAPID ==
  /\ boot = "vapid" /\ disk.vapid # "both"
  /\ \/ Granted /\ boot' = "vapid.private" /\ disk' = [disk EXCEPT !.vapid = "public"]
     \/ Refused /\ boot' = "down" /\ disk' = disk
  /\ UNCHANGED <<keys, codes, deaths>>

SaveVAPID ==
  /\ boot = "vapid.private"
  /\ \/ Granted /\ boot' = "vapid" /\ disk' = [disk EXCEPT !.vapid = "both"]
     \/ Refused /\ boot' = "down" /\ disk' = disk
  /\ UNCHANGED <<keys, codes, deaths>>

Serve ==
  /\ boot = "vapid" /\ disk.vapid = "both"
  /\ boot' = "up"
  /\ UNCHANGED <<disk, keys, codes, deaths, refusals>>

\* The process dies, and everything in memory with it.
Die ==
  /\ boot # "down"
  /\ deaths < MaxDeaths /\ deaths' = deaths + 1
  /\ boot' = "down" /\ keys' = NoKeys /\ codes' = FALSE
  /\ \/ disk' = disk
     \/ boot = "ca.key" /\ disk' = [disk EXCEPT !.key = Torn]
  /\ UNCHANGED refusals

BootStep ==
  \/ Begin \/ LoadOrCreateEncryptionKey \/ LoadCA \/ SaveCACert \/ SaveCAKey
  \/ LoadOrCreateJWTKey \/ LoadOrCreateInstanceID \/ LoadOrCreateCodes
  \/ LoadOrCreateVAPID \/ SaveVAPID

BootTypeOK ==
  /\ boot \in {"down", "encryption_key", "ca", "ca.key", "jwt_signing_key", "instance_id",
               "codes", "vapid", "vapid.private", "up"}
  /\ disk \in [encryption_key : Lives, jwt_signing_key : Lives, instance_id : Lives,
               cert : Lives, key : Lives \cup {Torn}, codes : BOOLEAN,
               vapid : {"none", "public", "both"}]
  /\ keys \in [encryption_key : Lives, jwt_signing_key : Lives, instance_id : Lives, ca : Lives]
  /\ codes \in BOOLEAN
  /\ deaths \in 0..MaxDeaths /\ refusals \in 0..MaxRefusals
=============================================================================
