--------------------------- MODULE SystemSettings ---------------------------
(***************************************************************************)
(* The system_settings table: the pair of JWT keys that every backend      *)
(* loads, or makes, when it starts; the key that applications linked to    *)
(* each other get from Kubarr while they are deployed; and the settings an *)
(* administrator edits.  Transactions run at READ COMMITTED.               *)
(***************************************************************************)
CONSTANTS
  Backends,  \* processes that start; the name of one also names the pair it generates
  Apps,      \* applications that take part in one managed key
  Editors,   \* administrators that edit one setting
  Unset      \* a row that is missing or empty, a process without keys

Halves == {"private", "public"}
Old == "old"   \* a pair, or a half of one, that is there from before
Values == {"true", "other"}
Default == "true"

VARIABLES
  pair,      \* the two rows of the JWT keys: whose half each of them holds
  starting,  \* what a starting backend has read of them
  keys,      \* the pair a backend signs and verifies with
  shared,    \* the row of the managed key: who generated it
  deploying, \* where the deployment of an app is, and the key it has in hand
  secrets,   \* the key in the Secret of each app's namespace
  setting,   \* the row of the setting, UNSET when there is none
  editing    \* what an editor has in hand

settingVars == <<pair, starting, keys, shared, deploying, secrets, setting, editing>>
keyVars == <<pair, starting, keys>>
linkVars == <<shared, deploying, secrets>>
editVars == <<setting, editing>>

Halted == [at |-> "down", saw |-> [h \in Halves |-> Unset]]
NoDeploy == [at |-> "idle", key |-> Unset]

\* The table is empty, holds a pair, or holds one half of it.
Init ==
  /\ pair \in [Halves -> {Unset, Old}]
  /\ starting = [b \in Backends |-> Halted]
  /\ keys = [b \in Backends |-> [h \in Halves |-> Unset]]
  /\ shared = Unset
  /\ deploying = [a \in Apps |-> NoDeploy]
  /\ secrets = [a \in Apps |-> Unset]
  /\ setting = Unset
  /\ editing = [e \in Editors |-> "idle"]

-----------------------------------------------------------------------------
(* The JWT keys.  The rows are read one after the other, so a pair stored  *)
(* in between is seen by half.  The upserts lock the rows until the commit *)
(* and read them back under that lock: together they are one step.         *)

ReadHalf(b, h, from, to) ==
  /\ starting[b].at = from
  /\ starting' = [starting EXCEPT ![b] = [at |-> to, saw |-> [@.saw EXCEPT ![h] = pair[h]]]]
  /\ UNCHANGED <<pair, keys, linkVars, editVars>>

ReadPrivate(b) == ReadHalf(b, "private", "down", "public")
ReadPublic(b) == ReadHalf(b, "public", "public", "deciding")

Found(saw) == {h \in Halves : saw[h] # Unset}

\* Both rows are there: they are the keys.
LoadKeys(b) ==
  /\ starting[b].at = "deciding"
  /\ Found(starting[b].saw) = Halves
  /\ keys' = [keys EXCEPT ![b] = starting[b].saw]
  /\ starting' = [starting EXCEPT ![b] = [Halted EXCEPT !.at = "up"]]
  /\ UNCHANGED <<pair, linkVars, editVars>>

\* Mutant of the next: a half-set pair is completed.
NeverReplace(saw) == FALSE

\* Exactly one is set: the pair is unusable.
ReplaceBoth(saw) == \E h \in Halves : Found(saw) = {h}

\* What the upserts leave: they fill empty rows, or all of them.
Upserted(b) ==
  [h \in Halves |-> IF pair[h] = Unset \/ ReplaceBoth(starting[b].saw) THEN b ELSE pair[h]]

PersistKeys(b) ==
  /\ starting[b].at = "deciding"
  /\ Found(starting[b].saw) # Halves
  /\ pair' = Upserted(b)
  /\ keys' = [keys EXCEPT ![b] = Upserted(b)]
  /\ starting' = [starting EXCEPT ![b] = [Halted EXCEPT !.at = "up"]]
  /\ UNCHANGED <<linkVars, editVars>>

\* A statement fails: the process comes up without keys, with a warning.
StartWithoutKeys(b) ==
  /\ starting[b].at \in {"public", "deciding"}
  /\ starting' = [starting EXCEPT ![b] = [Halted EXCEPT !.at = "up"]]
  /\ UNCHANGED <<pair, keys, linkVars, editVars>>

Restart(b) ==
  /\ starting[b].at = "up"
  /\ starting' = [starting EXCEPT ![b] = Halted]
  /\ keys' = [keys EXCEPT ![b] = [h \in Halves |-> Unset]]
  /\ UNCHANGED <<pair, linkVars, editVars>>

-----------------------------------------------------------------------------
(* The managed key of a deployment: find it, else insert a candidate that  *)
(* gives way to a stored one, and read back; then write the Secret.        *)

FindKey(a) ==
  /\ deploying[a].at = "idle"
  /\ deploying' = [deploying EXCEPT ![a] =
       IF shared = Unset THEN [at |-> "inserting", key |-> Unset]
                         ELSE [at |-> "secret", key |-> shared]]
  /\ UNCHANGED <<shared, secrets, keyVars, editVars>>

InsertKey(a) ==
  /\ deploying[a].at = "inserting"
  /\ shared' = IF shared = Unset THEN a ELSE shared
  /\ deploying' = [deploying EXCEPT ![a] = [at |-> "reading", key |-> a]]
  /\ UNCHANGED <<secrets, keyVars, editVars>>

\* Mutant of the next: the candidate is used without reading back what was stored.
KeepCandidate(a) ==
  /\ deploying[a].at = "reading"
  /\ deploying' = [deploying EXCEPT ![a].at = "secret"]
  /\ UNCHANGED <<shared, secrets, keyVars, editVars>>

ReadBackKey(a) ==
  /\ deploying[a].at = "reading"
  /\ deploying' = [deploying EXCEPT ![a] = [at |-> "secret", key |-> shared]]
  /\ UNCHANGED <<shared, secrets, keyVars, editVars>>

EnsureSecret(a) ==
  /\ deploying[a].at = "secret"
  /\ secrets' = [secrets EXCEPT ![a] = deploying[a].key]
  /\ deploying' = [deploying EXCEPT ![a] = NoDeploy]
  /\ UNCHANGED <<shared, keyVars, editVars>>

\* Any of these calls fails and the deployment with it, or the worker stops.
FailDeploy(a) ==
  /\ deploying[a].at # "idle"
  /\ deploying' = [deploying EXCEPT ![a] = NoDeploy]
  /\ UNCHANGED <<shared, secrets, keyVars, editVars>>

-----------------------------------------------------------------------------
(* An edit finds the row, then updates it or inserts one.  An insert that  *)
(* meets a row somebody else inserted fails.                               *)

FindSetting(e) ==
  /\ editing[e] = "idle"
  /\ editing' = [editing EXCEPT ![e] = IF setting = Unset THEN "insert" ELSE "update"]
  /\ UNCHANGED <<setting, keyVars, linkVars>>

StoreSetting(e, v) ==
  /\ editing[e] # "idle"
  /\ setting' = IF editing[e] = "insert" /\ setting # Unset THEN setting ELSE v
  /\ editing' = [editing EXCEPT ![e] = "idle"]
  /\ UNCHANGED <<keyVars, linkVars>>

\* What readers of a setting get: the row, else the default. A boolean one is true
\* for a few spellings, and registration reads it that way.
GetSettingValue == IF setting = Unset THEN Default ELSE setting
GetSettingBool == GetSettingValue = "true"

Next ==
  \/ \E b \in Backends : \/ ReadPrivate(b) \/ ReadPublic(b) \/ LoadKeys(b)
                         \/ PersistKeys(b) \/ StartWithoutKeys(b) \/ Restart(b)
  \/ \E a \in Apps : \/ FindKey(a) \/ InsertKey(a) \/ ReadBackKey(a)
                     \/ EnsureSecret(a) \/ FailDeploy(a)
  \/ \E e \in Editors : FindSetting(e) \/ \E v \in Values : StoreSetting(e, v)

Spec == Init /\ [][Next]_settingVars

-----------------------------------------------------------------------------
Makers == Backends \cup {Old, Unset}

\* Types of the variables.
TypeOK ==
  /\ pair \in [Halves -> Makers]
  /\ starting \in [Backends -> [at : {"down", "public", "deciding", "up"}, saw : [Halves -> Makers]]]
  /\ keys \in [Backends -> [Halves -> Makers]]
  /\ shared \in Apps \cup {Unset}
  /\ deploying \in [Apps -> [at : {"idle", "inserting", "reading", "secret"}, key : Apps \cup {Unset}]]
  /\ secrets \in [Apps -> Apps \cup {Unset}]
  /\ setting \in Values \cup {Unset}
  /\ editing \in [Editors -> {"idle", "insert", "update"}]

\* What Kubarr generated fits together, whoever else was starting or deploying: the
\* stored JWT halves are one pair as soon as both are there, and all linked apps hold the
\* one stored key. (persist_or_load_jwt_keys, api_key: "every caller then reads back what
\* was stored".)
GeneratedKeysFit ==
  /\ Found(pair) = Halves => pair["private"] = pair["public"]
  /\ \A a \in Apps : secrets[a] # Unset => secrets[a] = shared

\* Every step keeps these: half a pair is there only from before, and every backend that
\* reads sees it,
PairInv ==
  /\ pair \in [Halves -> Makers]
  /\ starting \in [Backends -> [at : {"down", "public", "deciding", "up"}, saw : [Halves -> Makers]]]
  /\ Found(pair) \notin {{}, Halves} =>
       \A b \in Backends :
         /\ starting[b].at \in {"public", "deciding"} =>
              starting[b].saw["private"] = pair["private"]
         /\ starting[b].at = "deciding" => starting[b].saw["public"] = pair["public"]
  /\ Found(pair) = Halves => pair["private"] = pair["public"]

\* and a deployment has the stored key in hand.
LinkInv ==
  /\ DOMAIN deploying = Apps /\ DOMAIN secrets = Apps
  /\ \A a \in Apps : deploying[a].at = "secret" => deploying[a].key \in {shared, Unset}
  /\ \A a \in Apps : secrets[a] # Unset => secrets[a] = shared

KeysInv == PairInv /\ LinkInv
=============================================================================
