----------------------------- MODULE RecordsProofs ----------------------------
(***************************************************************************)
(* Proofs about what is stored and kept (AccountEdits, AuditTrail,         *)
(* SystemSettings, Domains, StateVersions, ChartMirror), and the tests an  *)
(* administrator runs (VpnTests, StorageValidation), for all values of the *)
(* constants of MCControlPlane.  A step of MCControlPlane is one of the    *)
(* component that was chosen, so each invariant is proved of the           *)
(* component's own Next, and then of Spec.                                 *)
(***************************************************************************)
EXTENDS MCControlPlane, Sequences, FiniteSetTheorems, TLAPS

\* No step changes which component the behaviour is of.
LEMMA PartIsKept == [Next]_vars => part' = part
  BY DEF Next, vars

-----------------------------------------------------------------------------
(* AccountEdits.                                                           *)

row == v1
theme == v2
doing == v3
latest == v6

\* The account as it was registered.
LEMMA EditsInitially == Edi!Init => Edi!EditsInv
<1> SUFFICES ASSUME Edi!Init PROVE Edi!EditsInv
  OBVIOUS
<1> USE DEF row, theme, doing, latest
<1>1. DOMAIN row = Edi!Columns /\ row # <<>>
  BY DEF Edi!Init, Edi!Columns
<1>2. /\ DOMAIN latest = Edi!Columns \cup {"theme"}
      /\ \A c \in Edi!Columns : latest[c] = row[c]
      /\ latest["theme"] = Unset /\ theme = Unset
  BY DEF Edi!Init, Edi!Columns
<1>3. DOMAIN doing = Callers /\ \A c \in Callers : doing[c].op = "rest"
  BY DEF Edi!Init, Edi!Resting
<1> QED
  BY <1>1, <1>2, <1>3 DEF Edi!EditsInv, Edi!EditsKept, Edi!Present

\* Every step of AccountEdits keeps EditsInv: an update writes the columns it changes, and
\* so does `latest`.
LEMMA EditsKeptByAll == Edi!EditsInv /\ [Edi!Next]_(Edi!editVars) => Edi!EditsInv'
<1> SUFFICES ASSUME Edi!EditsInv, [Edi!Next]_(Edi!editVars) PROVE Edi!EditsInv'
  OBVIOUS
<1> USE DEF row, theme, doing, latest
<1>1. /\ Edi!Present => DOMAIN row = Edi!Columns
      /\ DOMAIN latest = Edi!Columns \cup {"theme"}
      /\ DOMAIN doing = Callers
      /\ \A c \in Callers : doing[c].op = "edit" => DOMAIN doing[c].changes \subseteq Edi!Columns
      /\ Edi!Present => (\A c \in Edi!Columns : row[c] = latest[c]) /\ theme = latest["theme"]
      /\ ~Edi!Present => theme = Unset
  BY DEF Edi!EditsInv, Edi!EditsKept
<1>2. ASSUME UNCHANGED <<row, theme, latest>>, NEW c \in Callers, NEW r,
             doing' = [doing EXCEPT ![c] = r], r.op = "edit" => DOMAIN r.changes \subseteq Edi!Columns
      PROVE  Edi!EditsInv'
  BY <1>1, <1>2 DEF Edi!EditsInv, Edi!EditsKept, Edi!Present
<1>3. ASSUME UNCHANGED <<row, theme, latest, doing>> PROVE Edi!EditsInv'
  BY <1>1, <1>3 DEF Edi!EditsInv, Edi!EditsKept, Edi!Present
<1>4. CASE UNCHANGED Edi!editVars
  BY <1>3, <1>4 DEF Edi!editVars
<1>5. ASSUME NEW c \in Callers, NEW action, NEW columns \in SUBSET Edi!Columns, NEW value,
             Edi!Edit(c, action, Edi!ToChange(columns, value)), UNCHANGED <<row, theme, latest>>
      PROVE  Edi!EditsInv'
  BY <1>2, <1>5 DEF Edi!Edit, Edi!Hold, Edi!ToChange
<1>6. ASSUME NEW c \in Callers,
             \/ Edi!UpdateOwnProfile(c) \/ Edi!UpdateUser(c) \/ Edi!ApproveUser(c)
             \/ Edi!ChangeOwnPassword(c) \/ Edi!AdminResetPassword(c)
      PROVE  Edi!EditsInv'
  <2>1. UNCHANGED <<row, theme, latest>>
    BY <1>6 DEF Edi!UpdateOwnProfile, Edi!UpdateUser, Edi!ApproveUser, Edi!ChangeOwnPassword,
      Edi!AdminResetPassword
  <2>2. /\ {"email"} \subseteq Edi!Columns /\ {"password"} \subseteq Edi!Columns
        /\ {"active", "approved"} \subseteq Edi!Columns
    BY DEF Edi!Columns
  <2>3. ASSUME NEW e, Edi!Edit(c, "UserUpdated", Edi!ToChange({"email"}, e)) PROVE Edi!EditsInv'
    BY <1>5, <2>1, <2>2, <2>3
  <2>4. CASE Edi!UpdateOwnProfile(c)
    BY <2>3, <2>4 DEF Edi!UpdateOwnProfile
  <2>5. CASE Edi!UpdateUser(c)
    <3>1. CASE \E e \in Entries : Edi!Edit(c, "UserUpdated", Edi!ToChange({"email"}, e))
      BY <2>3, <3>1
    <3>2. CASE \E columns \in SUBSET {"active", "approved"}, b \in BOOLEAN :
                 Edi!Edit(c, "UserUpdated", Edi!ToChange(columns, b))
      BY <1>5, <2>1, <2>2, <3>2
    <3> QED
      BY <2>5, <3>1, <3>2 DEF Edi!UpdateUser
  <2>6. CASE Edi!ApproveUser(c)
    BY <1>5, <2>1, <2>2, <2>6 DEF Edi!ApproveUser
  <2>7. ASSUME NEW new, Edi!Edit(c, "PasswordChanged", Edi!ToChange({"password"}, new))
        PROVE  Edi!EditsInv'
    BY <1>5, <2>1, <2>2, <2>7
  <2>8. CASE Edi!ChangeOwnPassword(c)
    BY <1>3, <2>1, <2>7, <2>8 DEF Edi!ChangeOwnPassword
  <2>9. CASE Edi!AdminResetPassword(c)
    BY <2>7, <2>9 DEF Edi!AdminResetPassword
  <2> QED
    BY <1>6, <2>4, <2>5, <2>6, <2>8, <2>9
<1>7. ASSUME NEW c \in Callers, Edi!StoreEdit(c) PROVE Edi!EditsInv'
  <2>1. PICK edited : edited = doing[c].changes
    OBVIOUS
  <2>2. /\ doing[c].op = "edit" /\ doing' = [doing EXCEPT ![c] = Edi!Resting] /\ theme' = theme
        /\ Edi!Present => row' = Edi!Merged(row, edited) /\ latest' = Edi!Merged(latest, edited)
        /\ ~Edi!Present => UNCHANGED <<row, latest>>
    BY <1>7, <2>1 DEF Edi!StoreEdit, Edi!Leave, Edi!Hold, Edi!Updated
  <2>3. CASE Edi!Present
    <3>1. /\ DOMAIN row' = Edi!Columns /\ DOMAIN latest' = Edi!Columns \cup {"theme"}
          /\ \A x \in Edi!Columns : row'[x] = latest'[x]
      BY <1>1, <2>2, <2>3 DEF Edi!Merged
    <3>2. "theme" \notin DOMAIN edited
      BY <1>1, <2>1, <2>2 DEF Edi!Columns
    <3>3. latest'["theme"] = latest["theme"]
      BY <1>1, <2>2, <2>3, <3>2 DEF Edi!Merged
    <3>4. row' # <<>>
      BY <3>1 DEF Edi!Columns
    <3> QED
      BY <1>1, <2>2, <2>3, <3>1, <3>3, <3>4 DEF Edi!EditsInv, Edi!EditsKept, Edi!Present, Edi!Resting
  <2>4. CASE ~Edi!Present
    BY <1>2, <2>2, <2>4 DEF Edi!Resting
  <2> QED
    BY <2>3, <2>4
<1>8. ASSUME NEW c \in Callers, Edi!FailEdit(c) PROVE Edi!EditsInv'
  BY <1>2, <1>8 DEF Edi!FailEdit, Edi!Leave, Edi!Hold, Edi!Resting
<1>9. ASSUME NEW c \in Callers, Edi!UpdateMyPreferences(c) PROVE Edi!EditsInv'
  BY <1>2, <1>9 DEF Edi!UpdateMyPreferences, Edi!Hold
<1>10. ASSUME NEW c \in Callers, doing' = [doing EXCEPT ![c] = Edi!Resting], row' = row,
              Edi!Present, NEW t, Edi!Stored(t)
       PROVE  Edi!EditsInv'
  <2>1. theme' = t /\ latest' = [latest EXCEPT !["theme"] = t]
    BY <1>10 DEF Edi!Stored
  <2>2. /\ DOMAIN latest' = DOMAIN latest /\ latest'["theme"] = t
        /\ \A x \in Edi!Columns : latest'[x] = latest[x]
    BY <1>1, <2>1 DEF Edi!Columns
  <2> QED
    BY <1>1, <1>10, <2>1, <2>2 DEF Edi!EditsInv, Edi!EditsKept, Edi!Present, Edi!Resting
<1>11. ASSUME NEW c \in Callers, Edi!InsertPreferences(c) PROVE Edi!EditsInv'
  <2>1. doing' = [doing EXCEPT ![c] = Edi!Resting] /\ row' = row
    BY <1>11 DEF Edi!InsertPreferences, Edi!Leave, Edi!Hold
  <2>2. \/ UNCHANGED <<theme, latest>>
        \/ Edi!Present /\ \E t : Edi!Stored(t)
    BY <1>11 DEF Edi!InsertPreferences
  <2> QED
    BY <1>2, <1>10, <2>1, <2>2 DEF Edi!Resting
<1>12. ASSUME NEW c \in Callers, Edi!UpdatePreferences(c) PROVE Edi!EditsInv'
  <2>1. doing' = [doing EXCEPT ![c] = Edi!Resting] /\ row' = row
    BY <1>12 DEF Edi!UpdatePreferences, Edi!Leave, Edi!Hold
  <2>2. \/ UNCHANGED <<theme, latest>>
        \/ theme # Unset /\ \E t : Edi!Stored(t)
    BY <1>12 DEF Edi!UpdatePreferences
  <2> QED
    BY <1>1, <1>2, <1>10, <2>1, <2>2 DEF Edi!Resting
<1>13. CASE Edi!DeleteUser
  <2>1. row' = <<>> /\ theme' = Unset /\ UNCHANGED <<doing, latest>>
    BY <1>13 DEF Edi!DeleteUser
  <2> QED
    BY <1>1, <2>1 DEF Edi!EditsInv, Edi!EditsKept, Edi!Present
<1> QED
  BY <1>4, <1>6, <1>7, <1>8, <1>9, <1>11, <1>12, <1>13 DEF Edi!Next

-----------------------------------------------------------------------------
(* AuditTrail.                                                             *)

log == v1
unlogged == v2
clearing == v3
cleared == v4

\* The log is empty.
LEMMA AuditInitially == Aud!Init => Aud!AuditInv
<1> SUFFICES ASSUME Aud!Init PROVE Aud!AuditInv
  OBVIOUS
<1> USE DEF log, unlogged, clearing, cleared
<1>1. DOMAIN log = {} /\ cleared = {} /\ clearing = [c \in Clearers |-> Aud!Idle]
  BY DEF Aud!Init
<1>2. Aud!Records = {} /\ Aud!Gone = {}
  BY <1>1 DEF Aud!Records, Aud!Gone
<1> QED
  BY <1>1, <1>2 DEF Aud!AuditInv, Aud!EveryDeletionRecorded

\* Every step of AuditTrail keeps AuditInv: who deletes rows leaves one new record of just
\* those, and nobody else is deleting them.
LEMMA AuditKept == Aud!AuditInv /\ [Aud!Next]_(Aud!auditVars) => Aud!AuditInv'
<1> SUFFICES ASSUME Aud!AuditInv, [Aud!Next]_(Aud!auditVars) PROVE Aud!AuditInv'
  OBVIOUS
<1> USE DEF log, unlogged, clearing, cleared
<1> DEFINE Deletes(c) == clearing[c].deletes
<1>1. /\ DOMAIN clearing = Clearers
      /\ DOMAIN log \cap unlogged = {}
      /\ \A g \in cleared : g = <<g[1], g[2]>> /\ g[1] \notin unlogged \cup DOMAIN log
      /\ \A c \in Clearers : clearing[c] # Aud!Idle => Deletes(c) \subseteq DOMAIN log
      /\ \A c, d \in Clearers : clearing[c] # Aud!Idle /\ clearing[d] # Aud!Idle /\ c # d =>
           Deletes(c) \cap Deletes(d) = {}
  BY DEF Aud!AuditInv
<1>2. /\ Aud!Gone = UNION {r[2] : r \in Aud!Records}
      /\ \A r, s \in Aud!Records : r # s => r[2] \cap s[2] = {}
  BY DEF Aud!AuditInv, Aud!EveryDeletionRecorded
<1>3. ASSUME UNCHANGED cleared, Aud!Records' = Aud!Records PROVE Aud!EveryDeletionRecorded'
  BY <1>2, <1>3 DEF Aud!EveryDeletionRecorded, Aud!Gone
<1>4. CASE UNCHANGED Aud!auditVars
  BY <1>1, <1>3, <1>4 DEF Aud!auditVars, Aud!AuditInv, Aud!Records
<1>5. ASSUME NEW id \in Events, Aud!LogEvent(id) PROVE Aud!AuditInv'
  <2>1. /\ id \in unlogged /\ unlogged' = unlogged \ {id} /\ UNCHANGED <<clearing, cleared>>
        /\ DOMAIN log' = DOMAIN log \cup {id}
        /\ \A e \in DOMAIN log : log'[e] = log[e]
        /\ log'[id].says = {}
    BY <1>1, <1>5 DEF Aud!LogEvent, Aud!With
  <2>2. Aud!Records' = Aud!Records \cup {<<id, {}>>}
    <3>1. {<<e, log'[e].says>> : e \in DOMAIN log'}
            = {<<e, log[e].says>> : e \in DOMAIN log} \cup {<<id, {}>>}
      <4>1. \A e \in DOMAIN log : <<e, log'[e].says>> = <<e, log[e].says>>
        BY <2>1
      <4>2. <<id, log'[id].says>> = <<id, {}>>
        BY <2>1
      <4>3. DOMAIN log' = DOMAIN log \cup {id}
        BY <2>1
      <4> QED
        BY <4>1, <4>2, <4>3
    <3> QED
      BY <2>1, <3>1 DEF Aud!Records
  <2>3. Aud!EveryDeletionRecorded'
    BY <1>2, <2>1, <2>2 DEF Aud!EveryDeletionRecorded, Aud!Gone
  <2> QED
    BY <1>1, <2>1, <2>3 DEF Aud!AuditInv
<1>6. ASSUME NEW id \in Events, Aud!GrowOld(id) PROVE Aud!AuditInv'
  <2>1. /\ UNCHANGED <<unlogged, clearing, cleared>> /\ DOMAIN log' = DOMAIN log
        /\ \A e \in DOMAIN log : log'[e].says = log[e].says
    BY <1>6 DEF Aud!GrowOld
  <2>2. Aud!Records' = Aud!Records
    BY <2>1 DEF Aud!Records
  <2> QED
    BY <1>1, <1>3, <2>1, <2>2 DEF Aud!AuditInv
<1>7. ASSUME NEW c \in Clearers, NEW days, Aud!ClearOldLogs(c, days) PROVE Aud!AuditInv'
  <2>1. /\ clearing' = [clearing EXCEPT ![c] = [op |-> "clearing", deletes |-> Aud!OldRows]]
        /\ clearing[c] = Aud!Idle /\ UNCHANGED <<log, unlogged, cleared>>
        /\ Aud!OldRows \subseteq DOMAIN log
    BY <1>7 DEF Aud!ClearOldLogs, Aud!OldRows
  <2>2. \A d \in Clearers : clearing[d] # Aud!Idle => Deletes(d) \cap Aud!OldRows = {}
    BY <1>7 DEF Aud!ClearOldLogs, Aud!Locked
  <2>3. Aud!Records' = Aud!Records
    BY <2>1 DEF Aud!Records
  <2> QED
    BY <1>1, <1>3, <2>1, <2>2, <2>3 DEF Aud!AuditInv
<1>8. ASSUME NEW c \in Clearers, NEW id \in Events, Aud!RecordAndCommit(c, id)
      PROVE  Aud!AuditInv'
  <2>1. PICK D : D = Deletes(c)
    OBVIOUS
  <2>2. /\ clearing[c] # Aud!Idle /\ clearing' = [clearing EXCEPT ![c] = Aud!Idle]
        /\ id \in unlogged /\ unlogged' = unlogged \ {id}
        /\ cleared' = cleared \cup {<<e, log[e].says>> : e \in D}
        /\ log' = [e \in (DOMAIN log \cup {id}) \ D |->
                     IF e = id THEN [old |-> FALSE, says |-> D] ELSE log[e]]
    BY <1>8, <2>1 DEF Aud!RecordAndCommit
  <2>3. D \subseteq DOMAIN log /\ id \notin D /\ id \notin DOMAIN log
    BY <1>1, <2>1, <2>2
  <2>4. /\ DOMAIN log' = (DOMAIN log \cup {id}) \ D
        /\ \A e \in DOMAIN log \ D : log'[e] = log[e]
        /\ log'[id].says = D
    BY <2>2, <2>3
  <2>5. Aud!Records' = Aud!Records \cup {<<id, D>>}
    BY <2>2, <2>3, <2>4 DEF Aud!Records
  <2>6. Aud!Gone' = Aud!Gone \cup D
    <3>1. \A e \in D : <<e, log[e].says>>[1] = e
      OBVIOUS
    <3> QED
      BY <2>2, <3>1, ZenonT(60) DEF Aud!Gone
  <2>7. Aud!Gone \cap D = {}
    BY <1>1, <2>3 DEF Aud!Gone
  <2>8. \A r \in Aud!Records : r[2] \cap D = {}
    BY <1>2, <2>7
  <2>9. Aud!EveryDeletionRecorded'
    <3>1. <<id, D>>[2] = D
      OBVIOUS
    <3>2. Aud!Gone' = UNION {r[2] : r \in Aud!Records'}
      BY <1>2, <2>5, <2>6, <3>1
    <3>3. ASSUME NEW r \in Aud!Records', NEW s \in Aud!Records', r # s PROVE r[2] \cap s[2] = {}
      BY <1>2, <2>5, <2>8, <3>1, <3>3
    <3> QED
      BY <3>2, <3>3 DEF Aud!EveryDeletionRecorded
  <2> QED
    BY <1>1, <2>1, <2>2, <2>3, <2>4, <2>9 DEF Aud!AuditInv
<1>9. ASSUME NEW c \in Clearers, Aud!Abort(c) PROVE Aud!AuditInv'
  <2>1. clearing' = [clearing EXCEPT ![c] = Aud!Idle] /\ UNCHANGED <<log, unlogged, cleared>>
    BY <1>9 DEF Aud!Abort
  <2>2. Aud!Records' = Aud!Records
    BY <2>1 DEF Aud!Records
  <2> QED
    BY <1>1, <1>3, <2>1, <2>2 DEF Aud!AuditInv
<1> QED
  BY <1>4, <1>5, <1>6, <1>7, <1>8, <1>9 DEF Aud!Next

\* Spec: what is gone from the audit log is what its records say, each row in one of them.
THEOREM DeletionsRecorded == Spec => []EveryDeletionRecorded
<1> DEFINE Inv == part = "audit" => Aud!AuditInv
<1>1. Init => Inv
  BY AuditInitially DEF Init
<1>2. Inv /\ [Next]_vars => Inv'
  <2>1. part = "audit" /\ [Next]_vars => [Aud!Next]_(Aud!auditVars)
    BY DEF Next, vars, Aud!auditVars
  <2> QED
    BY <2>1, PartIsKept, AuditKept
<1>3. Inv => EveryDeletionRecorded
  BY DEF Aud!AuditInv, EveryDeletionRecorded
<1> QED
  BY <1>1, <1>2, <1>3, PTL DEF Spec

-----------------------------------------------------------------------------
(* SystemSettings.                                                         *)

pair == v1
starting == v2
shared == v4
deploying == v5
secrets == v6

\* The table as it is found: nothing, a pair or half of one.
LEMMA KeysInitially == Set!Init => Set!KeysInv
<1> SUFFICES ASSUME Set!Init PROVE Set!KeysInv
  OBVIOUS
<1> USE DEF pair, starting, shared, deploying, secrets
<1>1. /\ pair \in [Set!Halves -> Set!Makers] /\ \A h \in Set!Halves : pair[h] \in {Unset, Set!Old}
      /\ starting = [b \in Backends |-> Set!Halted]
      /\ Set!Halted \in [at : {"down", "public", "deciding", "up"}, saw : [Set!Halves -> Set!Makers]]
      /\ Set!Halted.at = "down"
  BY DEF Set!Init, Set!Makers, Set!Halted
<1>2. Set!PairInv
  BY <1>1 DEF Set!PairInv, Set!Found, Set!Halves
<1>3. Set!LinkInv
  BY DEF Set!Init, Set!LinkInv, Set!NoDeploy
<1> QED
  BY <1>2, <1>3 DEF Set!KeysInv

\* Every start of a backend keeps PairInv: who finds half a pair replaces both halves, and
\* who finds none fills both unless somebody has.
LEMMA PairKept ==
  ASSUME Set!PairInv, [Set!Next]_(Set!settingVars) PROVE Set!PairInv'
<1> USE DEF pair, starting
<1> DEFINE Half == Set!Found(pair) \notin {{}, Set!Halves}
           Steps == {"down", "public", "deciding", "up"}
           Saw(b) == starting[b].saw
<1>1. /\ pair \in [Set!Halves -> Set!Makers]
      /\ starting \in [Backends -> [at : Steps, saw : [Set!Halves -> Set!Makers]]]
      /\ Set!Found(pair) = Set!Halves => pair["private"] = pair["public"]
  BY DEF Set!PairInv
<1>2. /\ \A b \in Backends : Half /\ starting[b].at \in {"public", "deciding"} =>
           Saw(b)["private"] = pair["private"]
      /\ \A b \in Backends : Half /\ starting[b].at = "deciding" =>
           Saw(b)["public"] = pair["public"]
  BY DEF Set!PairInv
<1>3. CASE UNCHANGED <<pair, starting>>
  BY <1>3 DEF Set!PairInv, Set!Found
<1>4. ASSUME pair' = pair, NEW b \in Backends, NEW at \in Steps,
             NEW saw \in [Set!Halves -> Set!Makers],
             starting' = [starting EXCEPT ![b] = [at |-> at, saw |-> saw]],
             Half /\ at \in {"public", "deciding"} => saw["private"] = pair["private"],
             Half /\ at = "deciding" => saw["public"] = pair["public"]
      PROVE  Set!PairInv'
  <2>1. starting' \in [Backends -> [at : Steps, saw : [Set!Halves -> Set!Makers]]]
    BY <1>1, <1>4
  <2>2. /\ starting'[b].at = at /\ starting'[b].saw = saw
        /\ \A d \in Backends \ {b} : starting'[d] = starting[d]
    BY <1>1, <1>4
  <2>3. Half => \A d \in Backends :
          /\ starting'[d].at \in {"public", "deciding"} =>
               starting'[d].saw["private"] = pair["private"]
          /\ starting'[d].at = "deciding" => starting'[d].saw["public"] = pair["public"]
    <3> SUFFICES ASSUME Half, NEW d \in Backends
                 PROVE  /\ starting'[d].at \in {"public", "deciding"} =>
                             starting'[d].saw["private"] = pair["private"]
                        /\ starting'[d].at = "deciding" =>
                             starting'[d].saw["public"] = pair["public"]
      OBVIOUS
    <3>1. CASE d = b
      BY <1>4, <2>2, <3>1
    <3>2. CASE d # b
      BY <1>2, <2>2, <3>2
    <3> QED
      BY <3>1, <3>2
  <2> QED
    BY <1>1, <1>4, <2>1, <2>3 DEF Set!PairInv, Set!Found
<1>5. \A b \in Backends : b \in Set!Makers
  BY DEF Set!Makers
<1>6. [h \in Set!Halves |-> Unset] \in [Set!Halves -> Set!Makers]
  BY DEF Set!Makers
<1>7. ASSUME NEW b \in Backends, Set!ReadPrivate(b) PROVE Set!PairInv'
  <2>1. /\ pair' = pair /\ starting' = [starting EXCEPT ![b] =
             [at |-> "public", saw |-> [Saw(b) EXCEPT !["private"] = pair["private"]]]]
    BY <1>7 DEF Set!ReadPrivate, Set!ReadHalf
  <2>2. PICK saw : saw = [Saw(b) EXCEPT !["private"] = pair["private"]]
    OBVIOUS
  <2>3. saw \in [Set!Halves -> Set!Makers] /\ saw["private"] = pair["private"]
    BY <1>1, <2>2 DEF Set!Halves
  <2>4. starting' = [starting EXCEPT ![b] = [at |-> "public", saw |-> saw]]
    BY <2>1, <2>2
  <2> QED
    BY <1>4, <2>1, <2>3, <2>4
<1>8. ASSUME NEW b \in Backends, Set!ReadPublic(b) PROVE Set!PairInv'
  <2>1. /\ pair' = pair /\ starting[b].at = "public" /\ starting' = [starting EXCEPT ![b] =
             [at |-> "deciding", saw |-> [Saw(b) EXCEPT !["public"] = pair["public"]]]]
    BY <1>8 DEF Set!ReadPublic, Set!ReadHalf
  <2>2. PICK saw : saw = [Saw(b) EXCEPT !["public"] = pair["public"]]
    OBVIOUS
  <2>3. /\ saw \in [Set!Halves -> Set!Makers] /\ saw["public"] = pair["public"]
        /\ saw["private"] = Saw(b)["private"]
    BY <1>1, <2>2 DEF Set!Halves
  <2>4. starting' = [starting EXCEPT ![b] = [at |-> "deciding", saw |-> saw]]
    BY <2>1, <2>2
  <2>5. Half => saw["private"] = pair["private"]
    BY <1>2, <2>1, <2>3
  <2> QED
    BY <1>4, <2>1, <2>3, <2>4, <2>5
<1>9. ASSUME NEW b \in Backends, Set!LoadKeys(b) \/ Set!StartWithoutKeys(b) \/ Set!Restart(b)
      PROVE  Set!PairInv'
  <2>1. pair' = pair /\ starting' \in {[starting EXCEPT ![b] = [Set!Halted EXCEPT !.at = "up"]],
                                       [starting EXCEPT ![b] = Set!Halted]}
    BY <1>9 DEF Set!LoadKeys, Set!StartWithoutKeys, Set!Restart
  <2>2. /\ [Set!Halted EXCEPT !.at = "up"] = [at |-> "up", saw |-> [h \in Set!Halves |-> Unset]]
        /\ Set!Halted = [at |-> "down", saw |-> [h \in Set!Halves |-> Unset]]
    BY DEF Set!Halted
  <2> QED
    BY <1>4, <1>6, <2>1, <2>2
<1>10. ASSUME NEW b \in Backends, Set!PersistKeys(b) PROVE Set!PairInv'
  <2>1. /\ starting[b].at = "deciding" /\ Set!Found(Saw(b)) # Set!Halves
        /\ pair' = [h \in Set!Halves |-> IF pair[h] = Unset \/ Set!ReplaceBoth(Saw(b)) THEN b ELSE pair[h]]
        /\ starting' = [starting EXCEPT ![b] = [Set!Halted EXCEPT !.at = "up"]]
    BY <1>10 DEF Set!PersistKeys, Set!Upserted
  <2>2. pair' \in [Set!Halves -> Set!Makers]
    BY <1>1, <1>5, <2>1
  <2>3. starting' \in [Backends -> [at : Steps, saw : [Set!Halves -> Set!Makers]]]
    BY <1>1, <1>6, <2>1 DEF Set!Halted
  <2>4. ASSUME Half PROVE Set!ReplaceBoth(Saw(b))
    <3>1. Set!Found(Saw(b)) = Set!Found(pair)
      BY <1>2, <2>1, <2>4 DEF Set!Found, Set!Halves
    <3>2. Set!Found(pair) = {"private"} \/ Set!Found(pair) = {"public"}
      BY <2>4 DEF Set!Found, Set!Halves
    <3> QED
      BY <3>1, <3>2 DEF Set!ReplaceBoth, Set!Halves
  <2>5. pair'["private"] = pair'["public"]
    <3>1. CASE Set!ReplaceBoth(Saw(b)) \/ Set!Found(pair) = {}
      BY <2>1, <3>1 DEF Set!Found, Set!Halves
    <3>2. CASE ~Set!ReplaceBoth(Saw(b)) /\ Set!Found(pair) = Set!Halves
      BY <1>1, <2>1, <3>2 DEF Set!Found, Set!Halves
    <3> QED
      BY <2>4, <3>1, <3>2
  <2>6. Set!Found(pair') \in {{}, Set!Halves}
    BY <2>5 DEF Set!Found, Set!Halves
  <2> QED
    BY <2>2, <2>3, <2>5, <2>6 DEF Set!PairInv, Set!Found
<1> QED
  BY <1>3, <1>7, <1>8, <1>9, <1>10 DEF Set!Next, Set!settingVars, Set!FindKey, Set!InsertKey,
    Set!ReadBackKey, Set!EnsureSecret, Set!FailDeploy, Set!FindSetting, Set!StoreSetting,
    Set!keyVars

\* Every deployment keeps LinkInv: the key is stored once, and read back before it is used.
LEMMA LinkKept ==
  ASSUME Set!LinkInv, [Set!Next]_(Set!settingVars) PROVE Set!LinkInv'
<1> USE DEF shared, deploying, secrets
<1>1. CASE UNCHANGED <<shared, deploying, secrets>>
  BY <1>1 DEF Set!LinkInv
<1>2. ASSUME NEW a \in Apps, Set!FindKey(a) PROVE Set!LinkInv'
  BY <1>2 DEF Set!FindKey, Set!LinkInv
<1>3. ASSUME NEW a \in Apps, Set!InsertKey(a) PROVE Set!LinkInv'
  BY <1>3 DEF Set!InsertKey, Set!LinkInv
<1>4. ASSUME NEW a \in Apps, Set!ReadBackKey(a) PROVE Set!LinkInv'
  BY <1>4 DEF Set!ReadBackKey, Set!LinkInv
<1>5. ASSUME NEW a \in Apps, Set!EnsureSecret(a) PROVE Set!LinkInv'
  BY <1>5 DEF Set!EnsureSecret, Set!LinkInv, Set!NoDeploy
<1>6. ASSUME NEW a \in Apps, Set!FailDeploy(a) PROVE Set!LinkInv'
  BY <1>6 DEF Set!FailDeploy, Set!LinkInv, Set!NoDeploy
<1> QED
  BY <1>1, <1>2, <1>3, <1>4, <1>5, <1>6 DEF Set!Next, Set!settingVars, Set!ReadPrivate,
    Set!ReadPublic, Set!ReadHalf, Set!LoadKeys, Set!PersistKeys, Set!StartWithoutKeys,
    Set!Restart, Set!FindSetting, Set!StoreSetting, Set!linkVars

\* Spec: the stored halves are one pair, and all linked apps hold the one stored key.
THEOREM KeysFit == Spec => []GeneratedKeysFit
<1> DEFINE Inv == part = "settings" => Set!KeysInv
<1>1. Init => Inv
  BY KeysInitially DEF Init
<1>2. Inv /\ [Next]_vars => Inv'
  <2>1. part = "settings" /\ [Next]_vars => [Set!Next]_(Set!settingVars)
    BY DEF Next, vars, Set!settingVars, Set!keyVars, Set!linkVars, Set!editVars
  <2> QED
    BY <2>1, PartIsKept, PairKept, LinkKept DEF Set!KeysInv
<1>3. Inv => GeneratedKeysFit
  BY DEF Set!KeysInv, Set!PairInv, Set!LinkInv, GeneratedKeysFit, Set!GeneratedKeysFit
<1> QED
  BY <1>1, <1>2, <1>3, PTL DEF Spec

-----------------------------------------------------------------------------
(* Domains.                                                                *)

domains == v1
stored == v2
profiles == v3
token == v4
dropped == v5
filing == v6

\* A row has what the request asked for (RowsAsStored), and what may be in flight.
Follows(r, a) ==
  /\ r.dns = a.dns /\ r.tls = a.tls
  /\ r.primary => a.primary
  /\ r.secret \in {a.secret, "issued"}
  /\ r.ddns => a.dns = "dynamic_dns"
  /\ r.le => a.tls = "letsencrypt"
Sound(f) ==
  /\ f.op = "put" =>
       /\ {"op", "id", "asked"} \subseteq DOMAIN f
       /\ f.id \in DomainIds /\ f.asked \in Dom!Asked
  /\ f.op = "delete_profile" => f.profile \in Dom!Profiles
  /\ f.op = "put_profile" => (f.stored = Dom!Redacted => dropped)

\* The invariant in these words.
LEMMA DomainsInvIs ==
  Dom!DomainsInv <=>
    /\ domains \in [DomainIds -> Dom!Row \cup {Dom!NoDomain}]
    /\ DOMAIN stored = DomainIds /\ DOMAIN filing = Editors
    /\ \A e \in Editors : Sound(filing[e])
    /\ dropped \in BOOLEAN
    /\ token = Dom!NoToken => dropped
    /\ token = Dom!Redacted => dropped
    /\ \A d \in DomainIds : domains[d] # Dom!NoDomain => Follows(domains[d], stored[d])
  BY DEF Dom!DomainsInv, Dom!EditsSurvive, Dom!RowsAsStored, Dom!TokenAsTyped, Dom!Rows,
    Follows, Sound, domains, stored, token, dropped, filing

LEMMA NoDomainIsNoRow == Dom!NoDomain \notin Dom!Row
  BY DEF Dom!NoDomain, Dom!Row

\* A row that is inserted, and one that an edit writes, is as it was asked for.
LEMMA NewRowFollows ==
  ASSUME NEW a \in Dom!Asked PROVE Dom!NewRow(a) \in Dom!Row /\ Follows(Dom!NewRow(a), a)
<1>1. /\ a.primary \in BOOLEAN /\ a.dns \in {"manual", "dynamic_dns"}
      /\ a.tls \in {"manual", "letsencrypt"} /\ a.secret \in {"own", "unset"}
  BY DEF Dom!Asked
<1>2. PICK fields : fields = Dom!Fields(a)
  OBVIOUS
<1>3. /\ DOMAIN fields = {"primary", "dns", "tls", "secret", "ddns", "le"}
      /\ fields.primary = a.primary /\ fields.dns = a.dns /\ fields.tls = a.tls
      /\ fields.secret = a.secret
      /\ fields.ddns = (a.dns = "dynamic_dns") /\ fields.le = (a.tls = "letsencrypt")
  BY <1>2 DEF Dom!Fields
<1>4. PICK r : r = Dom!NewRow(a)
  OBVIOUS
<1>5. r = [f \in {"primary", "dns", "tls", "secret", "ddns", "le", "dns_status",
                  "certificate_status"} |-> IF f \in DOMAIN fields THEN fields[f] ELSE "unknown"]
  BY <1>2, <1>4 DEF Dom!NewRow
<1>6. /\ r.primary = fields.primary /\ r.dns = fields.dns /\ r.tls = fields.tls
      /\ r.secret = fields.secret /\ r.ddns = fields.ddns /\ r.le = fields.le
      /\ r.dns_status = "unknown" /\ r.certificate_status = "unknown"
  BY <1>3, <1>5
<1>7. r \in Dom!Row
  BY <1>1, <1>3, <1>5, <1>6 DEF Dom!Row
<1> QED
  BY <1>3, <1>4, <1>6, <1>7 DEF Follows

LEMMA EditedFollows ==
  ASSUME NEW a \in Dom!Asked, NEW row0 \in Dom!Row, NEW read
  PROVE  LET r == Dom!UpdateModel(row0, read, Dom!Fields(a))
         IN r \in Dom!Row /\ Follows(r, a)
<1>1. /\ a.primary \in BOOLEAN /\ a.dns \in {"manual", "dynamic_dns"}
      /\ a.tls \in {"manual", "letsencrypt"} /\ a.secret \in {"own", "unset"}
  BY DEF Dom!Asked
<1>2. PICK fields : fields = Dom!Fields(a)
  OBVIOUS
<1>3. /\ DOMAIN fields = {"primary", "dns", "tls", "secret", "ddns", "le"}
      /\ fields.primary = a.primary /\ fields.dns = a.dns /\ fields.tls = a.tls
      /\ fields.secret = a.secret
      /\ fields.ddns = (a.dns = "dynamic_dns") /\ fields.le = (a.tls = "letsencrypt")
  BY <1>2 DEF Dom!Fields
<1>4. PICK r : r = Dom!UpdateModel(row0, read, Dom!Fields(a))
  OBVIOUS
<1>5. r = [f \in DOMAIN row0 |-> IF f \in DOMAIN fields THEN fields[f] ELSE row0[f]]
  BY <1>2, <1>4 DEF Dom!UpdateModel
<1>6. DOMAIN row0 = {"primary", "dns", "tls", "secret", "ddns", "le", "dns_status",
                     "certificate_status"}
  BY DEF Dom!Row
<1>7. /\ r.primary = fields.primary /\ r.dns = fields.dns /\ r.tls = fields.tls
      /\ r.secret = fields.secret /\ r.ddns = fields.ddns /\ r.le = fields.le
      /\ r.dns_status = row0.dns_status /\ r.certificate_status = row0.certificate_status
  BY <1>3, <1>5, <1>6
<1>8. r \in Dom!Row
  BY <1>1, <1>3, <1>5, <1>6, <1>7 DEF Dom!Row
<1> QED
  BY <1>3, <1>4, <1>7, <1>8 DEF Follows

\* A report of the reconciler, and a primary that is taken away, leave the rest of the row.
LEMMA ReportedFollows ==
  ASSUME NEW a, NEW row0 \in Dom!Row, Follows(row0, a), NEW read,
         NEW set \in {[primary |-> FALSE], [dns_status |-> "reported"],
                      [certificate_status |-> "reported"],
                      [certificate_status |-> "reported", secret |-> "issued"]}
  PROVE  LET r == Dom!UpdateModel(row0, read, set)
         IN r \in Dom!Row /\ Follows(r, a)
<1>1. PICK r : r = Dom!UpdateModel(row0, read, set)
  OBVIOUS
<1>2. r = [f \in DOMAIN row0 |-> IF f \in DOMAIN set THEN set[f] ELSE row0[f]]
  BY <1>1 DEF Dom!UpdateModel
<1>3. DOMAIN row0 = {"primary", "dns", "tls", "secret", "ddns", "le", "dns_status",
                     "certificate_status"}
  BY DEF Dom!Row
<1>4. /\ DOMAIN set \subseteq {"primary", "dns_status", "certificate_status", "secret"}
      /\ "primary" \in DOMAIN set => set.primary = FALSE
      /\ "secret" \in DOMAIN set => set.secret = "issued"
      /\ "dns_status" \in DOMAIN set => set.dns_status = "reported"
      /\ "certificate_status" \in DOMAIN set => set.certificate_status = "reported"
  OBVIOUS
<1>5. /\ r.dns = row0.dns /\ r.tls = row0.tls /\ r.ddns = row0.ddns /\ r.le = row0.le
      /\ r.primary \in {row0.primary, FALSE} /\ r.secret \in {row0.secret, "issued"}
      /\ r.dns_status \in {row0.dns_status, "reported"}
      /\ r.certificate_status \in {row0.certificate_status, "reported"}
  BY <1>2, <1>3, <1>4
<1>6. r \in Dom!Row
  BY <1>2, <1>3, <1>5 DEF Dom!Row
<1>7. Follows(r, a)
  BY <1>5 DEF Follows
<1> QED
  BY <1>1, <1>6, <1>7

\* A profile that is deleted is no longer used.
LEMMA UnusedFollows ==
  ASSUME NEW a, NEW row0 \in Dom!Row, Follows(row0, a), NEW p \in Dom!Profiles
  PROVE  [row0 EXCEPT ![p] = FALSE] \in Dom!Row /\ Follows([row0 EXCEPT ![p] = FALSE], a)
<1>1. CASE p = "ddns"
  BY <1>1 DEF Dom!Row, Follows
<1>2. CASE p = "le"
  BY <1>2 DEF Dom!Row, Follows
<1> QED
  BY <1>1, <1>2 DEF Dom!Profiles

\* There is a domain already, or none.
LEMMA DomainsInitially == Dom!Init => Dom!DomainsInv
<1> SUFFICES ASSUME Dom!Init PROVE Dom!DomainsInv
  OBVIOUS
<1> USE DEF domains, stored, profiles, token, dropped, filing
<1>1. PICK a \in Dom!Asked, D \in SUBSET DomainIds :
        /\ domains = [d \in DomainIds |-> IF d \in D THEN Dom!NewRow(a) ELSE Dom!NoDomain]
        /\ stored = [d \in DomainIds |-> IF d \in D THEN a ELSE Dom!NoDomain]
  BY DEF Dom!Init
<1>2. domains \in [DomainIds -> Dom!Row \cup {Dom!NoDomain}]
  BY <1>1, NewRowFollows
<1>3. \A d \in DomainIds : domains[d] # Dom!NoDomain => Follows(domains[d], stored[d])
  BY <1>1, NewRowFollows
<1>4. /\ DOMAIN stored = DomainIds /\ filing = [e \in Editors |-> Dom!Idle]
      /\ dropped = FALSE /\ token \in Tokens
  BY <1>1 DEF Dom!Init
<1>5. token # Dom!NoToken /\ token # Dom!Redacted
  BY <1>4, DomTokensAssumption DEF Dom!TokensAssumption
<1>6. Sound(Dom!Idle)
  BY DEF Sound, Dom!Idle
<1> QED
  BY <1>2, <1>3, <1>4, <1>5, <1>6, DomainsInvIs

\* Every step of Domains keeps DomainsInv: a row that is updated keeps the columns the
\* update does not set, and a form has no placeholder unless there was a credential.
LEMMA DomainsKept == Dom!DomainsInv /\ [Dom!Next]_(Dom!domainVars) => Dom!DomainsInv'
<1> SUFFICES ASSUME Dom!DomainsInv, [Dom!Next]_(Dom!domainVars) PROVE Dom!DomainsInv'
  OBVIOUS
<1> USE DEF domains, stored, profiles, token, dropped, filing
<1> DEFINE Row0 == Dom!Row \cup {Dom!NoDomain}
           Held == /\ domains' \in [DomainIds -> Row0] /\ DOMAIN stored' = DomainIds
                   /\ \A d \in DomainIds :
                        domains'[d] # Dom!NoDomain => Follows(domains'[d], stored'[d])
           Filed == DOMAIN filing' = Editors /\ \A e \in Editors : Sound(filing[e])'
           Typed == /\ dropped' \in BOOLEAN
                    /\ token' = Dom!NoToken => dropped'
                    /\ token' = Dom!Redacted => dropped'
<1>1. /\ domains \in [DomainIds -> Row0]
      /\ DOMAIN stored = DomainIds /\ DOMAIN filing = Editors
      /\ \A e \in Editors : Sound(filing[e])
      /\ dropped \in BOOLEAN
      /\ token = Dom!NoToken => dropped
      /\ token = Dom!Redacted => dropped
      /\ \A d \in DomainIds : domains[d] # Dom!NoDomain => Follows(domains[d], stored[d])
  BY DomainsInvIs
<1>2. ASSUME Held, Filed, Typed PROVE Dom!DomainsInv'
  <2>1. (Dom!DomainsInv <=>
          /\ domains \in [DomainIds -> Dom!Row \cup {Dom!NoDomain}]
          /\ DOMAIN stored = DomainIds /\ DOMAIN filing = Editors
          /\ \A e \in Editors : Sound(filing[e])
          /\ dropped \in BOOLEAN
          /\ token = Dom!NoToken => dropped
          /\ token = Dom!Redacted => dropped
          /\ \A d \in DomainIds : domains[d] # Dom!NoDomain => Follows(domains[d], stored[d]))'
    BY DomainsInvIs, PTL
  <2> QED
    BY <1>2, <2>1
<1>3. UNCHANGED <<domains, stored>> => Held
  BY <1>1
<1>4. UNCHANGED <<filing, dropped>> => Filed
  BY <1>1 DEF Sound
<1>5. UNCHANGED <<token, dropped>> => Typed
  BY <1>1
<1>6. ASSUME NEW e \in Editors, NEW f, filing' = [filing EXCEPT ![e] = f], dropped' = dropped,
             Sound(f)
      PROVE  Filed
  BY <1>1, <1>6 DEF Sound
<1>7. Sound(Dom!Idle)
  BY DEF Sound, Dom!Idle
<1>8. ASSUME NEW d \in DomainIds, NEW r \in Row0, domains' = [domains EXCEPT ![d] = r],
             stored' = stored, r # Dom!NoDomain => Follows(r, stored[d])
      PROVE  Held
  BY <1>1, <1>8
<1>9. ASSUME NEW d \in DomainIds, domains[d] # Dom!NoDomain, NEW read, stored' = stored,
             NEW set \in {[primary |-> FALSE], [dns_status |-> "reported"],
                          [certificate_status |-> "reported"],
                          [certificate_status |-> "reported", secret |-> "issued"]},
             domains' = [domains EXCEPT ![d] = Dom!UpdateModel(domains[d], read, set)]
      PROVE  Held
  <2>1. domains[d] \in Dom!Row /\ Follows(domains[d], stored[d])
    BY <1>1, <1>9
  <2>2. PICK r : r = Dom!UpdateModel(domains[d], read, set)
    OBVIOUS
  <2>3. r \in Dom!Row /\ Follows(r, stored[d])
    BY <2>1, <2>2, ReportedFollows
  <2> QED
    BY <1>8, <1>9, <2>2, <2>3
<1>10. CASE UNCHANGED Dom!domainVars
  BY <1>2, <1>3, <1>4, <1>5, <1>10 DEF Dom!domainVars
<1>11. ASSUME NEW e \in Editors, NEW d \in DomainIds, NEW a \in Dom!Asked, Dom!BeginPut(e, d, a)
       PROVE  Dom!DomainsInv'
  <2>1. PICK f : f = [op |-> "put", id |-> d, asked |-> a, new |-> domains[d] = Dom!NoDomain,
                      clear |-> {}, found |-> ~a.primary]
    OBVIOUS
  <2>2. Sound(f)
    BY <2>1 DEF Sound
  <2>3. UNCHANGED <<domains, stored, token, dropped>> /\ filing' = [filing EXCEPT ![e] = f]
    BY <1>11, <2>1 DEF Dom!BeginPut, Dom!Begin, Dom!Set
  <2> QED
    BY <1>2, <1>3, <1>5, <1>6, <2>2, <2>3
<1>12. ASSUME NEW e \in Editors, NEW d \in DomainIds, Dom!DeleteDomain(e, d) PROVE Dom!DomainsInv'
  <2>1. /\ UNCHANGED <<stored, token, dropped, filing>>
        /\ domains' = [domains EXCEPT ![d] = Dom!NoDomain]
    BY <1>12 DEF Dom!DeleteDomain
  <2>2. Held
    BY <1>8, <2>1
  <2> QED
    BY <1>2, <1>4, <1>5, <2>1, <2>2
<1>13. ASSUME NEW e \in Editors, Dom!FindPrimary(e) PROVE Dom!DomainsInv'
  <2>1. PICK c : c = {<<d, domains[d]>> : d \in {x \in Dom!Rows : domains[x].primary}}
    OBVIOUS
  <2>2. PICK f : f = [filing[e] EXCEPT !.found = TRUE, !.clear = c]
    OBVIOUS
  <2>3. filing[e].op = "put" /\ Sound(filing[e])
    BY <1>1, <1>13 DEF Dom!FindPrimary
  <2>4. Sound(f)
    BY <2>2, <2>3 DEF Sound
  <2>5. UNCHANGED <<domains, stored, token, dropped>> /\ filing' = [filing EXCEPT ![e] = f]
    BY <1>13, <2>1, <2>2 DEF Dom!FindPrimary, Dom!Set
  <2> QED
    BY <1>2, <1>3, <1>5, <1>6, <2>4, <2>5
<1>14. ASSUME NEW e \in Editors, Dom!ClearPrimary(e) PROVE Dom!DomainsInv'
  <2>1. filing[e].op = "put" /\ Sound(filing[e]) /\ UNCHANGED <<stored, token, dropped>>
    BY <1>1, <1>14 DEF Dom!ClearPrimary
  <2>2. PICK c \in filing[e].clear :
          IF c[1] \in Dom!Rows
          THEN /\ domains' = [domains EXCEPT ![c[1]] =
                                Dom!UpdateModel(domains[c[1]], c[2], [primary |-> FALSE])]
               /\ filing' = [filing EXCEPT ![e] = [filing[e] EXCEPT !.clear = @ \ {c}]]
          ELSE filing' = [filing EXCEPT ![e] = Dom!Idle] /\ UNCHANGED domains
    BY <1>14 DEF Dom!ClearPrimary, Dom!Set
  <2>3. CASE c[1] \in Dom!Rows
    <3>1. PICK f : f = [filing[e] EXCEPT !.clear = @ \ {c}]
      OBVIOUS
    <3>2. Sound(f)
      BY <2>1, <3>1 DEF Sound
    <3>3. c[1] \in DomainIds /\ domains[c[1]] # Dom!NoDomain
      BY <2>3 DEF Dom!Rows
    <3>4. PICK set : set = [primary |-> FALSE]
      OBVIOUS
    <3>5. domains' = [domains EXCEPT ![c[1]] = Dom!UpdateModel(domains[c[1]], c[2], set)]
      BY <2>2, <2>3, <3>4
    <3>6. Held
      BY <1>9, <2>1, <3>3, <3>4, <3>5
    <3> QED
      BY <1>2, <1>5, <1>6, <2>1, <2>2, <2>3, <3>1, <3>2, <3>6
  <2>4. CASE c[1] \notin Dom!Rows
    BY <1>2, <1>3, <1>5, <1>6, <1>7, <2>1, <2>2, <2>4
  <2> QED
    BY <2>3, <2>4
<1>15. ASSUME NEW e \in Editors, Dom!StorePut(e) PROVE Dom!DomainsInv'
  <2>1. PICK d, a : d = filing[e].id /\ a = filing[e].asked
    OBVIOUS
  <2>2. d \in DomainIds /\ a \in Dom!Asked
    BY <1>1, <1>15, <2>1 DEF Dom!StorePut, Sound
  <2>3. /\ UNCHANGED <<token, dropped>> /\ filing' = [filing EXCEPT ![e] = Dom!Idle]
        /\ IF Dom!Storable(e)
           THEN /\ domains' = [domains EXCEPT ![d] =
                     IF filing[e].new THEN Dom!NewRow(a)
                     ELSE Dom!UpdateModel(domains[d], domains[d], Dom!Fields(a))]
                /\ stored' = [stored EXCEPT ![d] = a]
           ELSE UNCHANGED <<domains, stored>>
    BY <1>15, <2>1 DEF Dom!StorePut, Dom!Set
  <2>4. ASSUME NEW r, r \in Dom!Row, Follows(r, a), domains' = [domains EXCEPT ![d] = r],
               stored' = [stored EXCEPT ![d] = a]
        PROVE  Held
    BY <1>1, <2>2, <2>4
  <2>5. CASE Dom!Storable(e) /\ filing[e].new
    <3>1. PICK r : r = Dom!NewRow(a)
      OBVIOUS
    <3>2. r \in Dom!Row /\ Follows(r, a)
      BY <2>2, <3>1, NewRowFollows
    <3>3. Held
      BY <2>3, <2>4, <2>5, <3>1, <3>2
    <3> QED
      BY <1>2, <1>5, <1>6, <1>7, <2>3, <3>3
  <2>6. CASE Dom!Storable(e) /\ ~filing[e].new
    <3>1. PICK r : r = Dom!UpdateModel(domains[d], domains[d], Dom!Fields(a))
      OBVIOUS
    <3>2. domains[d] \in Dom!Row
      BY <1>1, <2>1, <2>2, <2>6 DEF Dom!Storable, Dom!Rows
    <3>3. r \in Dom!Row /\ Follows(r, a)
      BY <2>2, <3>1, <3>2, EditedFollows
    <3>4. Held
      BY <2>3, <2>4, <2>6, <3>1, <3>3
    <3> QED
      BY <1>2, <1>5, <1>6, <1>7, <2>3, <3>4
  <2>7. CASE ~Dom!Storable(e)
    BY <1>2, <1>3, <1>5, <1>6, <1>7, <2>3, <2>7
  <2> QED
    BY <2>5, <2>6, <2>7
<1>16. ASSUME NEW e \in Editors, NEW p \in Dom!Profiles, Dom!BeginDeleteProfile(e, p)
       PROVE  Dom!DomainsInv'
  <2>1. PICK f : f = [op |-> "delete_profile", profile |-> p]
    OBVIOUS
  <2>2. Sound(f)
    BY <2>1 DEF Sound
  <2>3. UNCHANGED <<domains, stored, token, dropped>> /\ filing' = [filing EXCEPT ![e] = f]
    BY <1>16, <2>1 DEF Dom!BeginDeleteProfile, Dom!Begin, Dom!Set
  <2> QED
    BY <1>2, <1>3, <1>5, <1>6, <2>2, <2>3
<1>17. ASSUME NEW e \in Editors, Dom!CommitDeleteProfile(e) PROVE Dom!DomainsInv'
  <2>1. PICK p : p = filing[e].profile
    OBVIOUS
  <2>2. p \in Dom!Profiles
    BY <1>1, <1>17, <2>1 DEF Dom!CommitDeleteProfile, Sound
  <2>3. /\ UNCHANGED <<stored, token, dropped>> /\ filing' = [filing EXCEPT ![e] = Dom!Idle]
        /\ domains' = [d \in DomainIds |-> IF d \in Dom!Rows THEN [domains[d] EXCEPT ![p] = FALSE]
                                           ELSE Dom!NoDomain]
    BY <1>17, <2>1 DEF Dom!CommitDeleteProfile, Dom!Set
  <2>4. \A d \in Dom!Rows : /\ [domains[d] EXCEPT ![p] = FALSE] \in Dom!Row
                            /\ Follows([domains[d] EXCEPT ![p] = FALSE], stored[d])
    BY <1>1, <2>2, UnusedFollows DEF Dom!Rows
  <2>5. Held
    BY <1>1, <2>3, <2>4
  <2> QED
    BY <1>2, <1>5, <1>6, <1>7, <2>3, <2>5
<1>18. ASSUME NEW e \in Editors, Dom!GetProfile(e) PROVE Dom!DomainsInv'
  <2>1. PICK f : f = [op |-> "form", shown |-> IF token = Dom!NoToken THEN Dom!NoToken
                                               ELSE Dom!Redacted]
    OBVIOUS
  <2>2. Sound(f)
    BY <2>1 DEF Sound
  <2>3. UNCHANGED <<domains, stored, token, dropped>> /\ filing' = [filing EXCEPT ![e] = f]
    BY <1>18, <2>1 DEF Dom!GetProfile, Dom!Begin, Dom!Set
  <2> QED
    BY <1>2, <1>3, <1>5, <1>6, <2>2, <2>3
<1>19. ASSUME NEW e \in Editors, NEW t, Dom!BeginPutProfile(e, t) PROVE Dom!DomainsInv'
  <2>1. PICK f : f = [op |-> "put_profile", sent |-> t, stored |-> Dom!MergeConfig(t, token)]
    OBVIOUS
  <2>2. Dom!MergeConfig(t, token) = Dom!Redacted => dropped
    BY <1>1 DEF Dom!MergeConfig
  <2>3. Sound(f)
    BY <2>1, <2>2 DEF Sound
  <2>4. UNCHANGED <<domains, stored, token, dropped>> /\ filing' = [filing EXCEPT ![e] = f]
    BY <1>19, <2>1 DEF Dom!BeginPutProfile, Dom!Set
  <2> QED
    BY <1>2, <1>3, <1>5, <1>6, <2>3, <2>4
<1>20. ASSUME NEW e \in Editors, Dom!StoreProfile(e) PROVE Dom!DomainsInv'
  <2>1. /\ UNCHANGED <<domains, stored>> /\ filing' = [filing EXCEPT ![e] = Dom!Idle]
        /\ filing[e].stored = Dom!Redacted => dropped
        /\ \/ token' = filing[e].stored /\ dropped' = (dropped \/ filing[e].stored = Dom!NoToken)
           \/ UNCHANGED <<token, dropped>>
    BY <1>1, <1>20 DEF Dom!StoreProfile, Dom!Set, Sound
  <2>2. dropped => dropped'
    BY <2>1
  <2>3. Filed
    BY <1>1, <1>7, <2>1, <2>2 DEF Sound
  <2>4. Typed
    BY <1>1, <2>1
  <2> QED
    BY <1>2, <1>3, <2>1, <2>3, <2>4
<1>21. CASE Dom!BeginPass \/ Dom!BeginCertificates \/ Dom!EndPass
  <2>1. UNCHANGED <<domains, stored, token, dropped, filing>>
    BY <1>21 DEF Dom!BeginPass, Dom!BeginCertificates, Dom!EndPass
  <2> QED
    BY <1>2, <1>3, <1>4, <1>5, <2>1
<1>22. ASSUME NEW s, UNCHANGED <<stored, token, dropped, filing>>,
              NEW set \in {[dns_status |-> "reported"], [certificate_status |-> "reported"],
                           [certificate_status |-> "reported", secret |-> "issued"]},
              Dom!Report(s, set)
       PROVE  Dom!DomainsInv'
  <2>1. CASE s[1] \in Dom!Rows
    <3>1. s[1] \in DomainIds /\ domains[s[1]] # Dom!NoDomain
      BY <2>1 DEF Dom!Rows
    <3>2. domains' = [domains EXCEPT ![s[1]] = Dom!UpdateModel(domains[s[1]], s[2], set)]
      BY <1>22, <2>1 DEF Dom!Report
    <3>3. Held
      BY <1>9, <1>22, <3>1, <3>2
    <3> QED
      BY <1>2, <1>4, <1>5, <1>22, <3>3
  <2>2. CASE s[1] \notin Dom!Rows
    BY <1>2, <1>3, <1>4, <1>5, <1>22, <2>2 DEF Dom!Report
  <2> QED
    BY <2>1, <2>2
<1>23. CASE Dom!ReconcileRecord
  BY <1>22, <1>23 DEF Dom!ReconcileRecord
<1>24. CASE Dom!ReconcileCertificate
  BY <1>22, <1>24 DEF Dom!ReconcileCertificate
<1> QED
  BY <1>10, <1>11, <1>12, <1>13, <1>14, <1>15, <1>16, <1>17, <1>18, <1>19, <1>20, <1>21, <1>23,
    <1>24 DEF Dom!Next

\* Spec: what was stored stays, of a domain and of an account, whoever else writes the row.
THEOREM EditsAllSurvive == Spec => []EditsSurvive
<1> DEFINE Inv == /\ part = "domains" => Dom!DomainsInv
                  /\ part = "edits" => Edi!EditsInv
<1>1. Init => Inv
  BY DomainsInitially, EditsInitially DEF Init
<1>2. Inv /\ [Next]_vars => Inv'
  <2>1. part = "domains" /\ [Next]_vars => [Dom!Next]_(Dom!domainVars)
    BY DEF Next, vars, Dom!domainVars
  <2>2. part = "edits" /\ [Next]_vars => [Edi!Next]_(Edi!editVars)
    BY DEF Next, vars, Edi!editVars
  <2> QED
    BY <2>1, <2>2, PartIsKept, DomainsKept, EditsKeptByAll
<1>3. Inv => EditsSurvive
  BY DEF Dom!DomainsInv, Edi!EditsInv, EditsSurvive
<1> QED
  BY <1>1, <1>2, <1>3, PTL DEF Spec

-----------------------------------------------------------------------------
(* StateVersions: v1 is the row, v2 the operations queued, v3 the calls.   *)

LEMMA VersionBounds ==
  /\ Nothing \notin Versions \cup 1..MaxOperations \cup Ver!Rows \cup Ver!Refreshes \cup Ver!Upserts
  /\ MaxOperations \in Nat
  BY NothingAssumption, BoundAssumption DEF Ver!Rows, Rows, Ver!Refreshes, Refreshes,
    Ver!Upserts, Upserts, Ver!Seen, Seen, Ver!Ids, Ids

\* What a row may be compared with is of the type of a call's reading.
LEMMA ReadingType ==
  ASSUME NEW r \in Ver!Rows
  PROVE  /\ Ver!Compared(r) \in [installed : Ver!Seen, available : Ver!Seen]
         /\ Ver!Observed(r) \in [operation : Ver!Ids, available : Ver!Seen] \cup {Nothing}
  BY DEF Ver!Rows, Ver!Compared, Ver!Observed

\* A call that refreshes writes a row of the type, whose flag fits it.
LEMMA RefreshedFits ==
  ASSUME NEW c \in Ver!Refreshes, v1 \in Ver!Rows, Ver!Compared(v1) = c.before
  PROVE  /\ Ver!Refreshed(c) \in Ver!Rows
         /\ Ver!Refreshed(c).update
              = Ver!VersionsDiffer(Ver!Refreshed(c).installed, Ver!Refreshed(c).available)
         /\ v1.available # Nothing => Ver!Refreshed(c).available # Nothing
<1> DEFINE available == IF c.found = Nothing THEN c.before.available ELSE c.found
           flag == Ver!VersionsDiffer(c.before.installed, available)
<1>1. available \in Ver!Seen /\ c.before.installed = v1.installed
      /\ c.before.available = v1.available
  BY DEF Ver!Refreshes, Ver!Compared
<1>2. flag \in BOOLEAN
  BY DEF Ver!VersionsDiffer
<1>3. Ver!Refreshed(c) = [v1 EXCEPT !.available = available, !.update = flag]
  BY DEF Ver!Refreshed
<1> HIDE DEF available, flag
<1>4. /\ Ver!Refreshed(c) \in Ver!Rows
      /\ Ver!Refreshed(c).installed = v1.installed
      /\ Ver!Refreshed(c).available = available
      /\ Ver!Refreshed(c).update = flag
  BY <1>1, <1>2, <1>3 DEF Ver!Rows
<1> QED
  BY <1>1, <1>4 DEF available, flag

\* An inserted row is of the type and its flag fits.
LEMMA InsertedFits ==
  ASSUME NEW i \in Ver!Seen, NEW a \in Ver!Seen, NEW o \in Ver!Ids,
         NEW new, new = [installed |-> i, available |-> a, update |-> Ver!VersionsDiffer(i, a),
                         operation |-> o]
  PROVE  new \in Ver!Rows /\ new.update = Ver!VersionsDiffer(new.installed, new.available)
<1>1. Ver!VersionsDiffer(i, a) \in BOOLEAN
  BY DEF Ver!VersionsDiffer
<1> QED
  BY <1>1 DEF Ver!Rows

\* A row that a call has read is there: rows are never deleted.
ReadRowIsThere ==
  \A p \in Callers :
    v3[p] # Nothing /\ (v3[p].does = "refresh" \/ v3[p].before # Nothing)
      => v1 # Nothing

VersionInv == Ver!TypeOK /\ Ver!FlagFits /\ ReadRowIsThere

LEMMA VersionsInitially == Ver!Init => VersionInv
  BY VersionBounds DEF Ver!Init, VersionInv, Ver!TypeOK, Ver!FlagFits, ReadRowIsThere

\* A step keeps the types, the flag, and an available version that is known.
RowFits ==
  /\ v1' \in Ver!Rows \cup {Nothing}
  /\ Ver!FlagFits'
  /\ v1 # Nothing => v1' # Nothing
  /\ (v1 # Nothing /\ v1.available # Nothing) => v1'.available # Nothing

\* A step keeps the types of the queue and of the calls.
CallsTyped ==
  /\ v2' \in 0..MaxOperations
  /\ v3' \in [Callers -> Ver!Refreshes \cup Ver!Upserts \cup {Nothing}]
  /\ ReadRowIsThere'

\* A process that leaves its call, or reads the row again, keeps the calls of the type.
LEMMA CallMade ==
  ASSUME VersionInv, v2' = v2, NEW p \in Callers,
         NEW c \in Ver!Refreshes \cup Ver!Upserts \cup {Nothing}, v3' = [v3 EXCEPT ![p] = c],
         v1 # Nothing => v1' # Nothing,
         c # Nothing /\ (c.does = "refresh" \/ c.before # Nothing) => v1' # Nothing
  PROVE  CallsTyped
  BY DEF CallsTyped, VersionInv, Ver!TypeOK, ReadRowIsThere

\* A step that leaves the row alone keeps what is said of it.
LEMMA RowLeft == VersionInv /\ v1' = v1 => RowFits
  BY DEF VersionInv, Ver!TypeOK, Ver!FlagFits, RowFits

LEMMA VersionStep == VersionInv /\ [Ver!Next]_(Ver!versionVars) => RowFits /\ CallsTyped
<1> SUFFICES ASSUME VersionInv, [Ver!Next]_(Ver!versionVars) PROVE RowFits /\ CallsTyped
  OBVIOUS
<1>0. Ver!TypeOK /\ Ver!FlagFits /\ ReadRowIsThere /\ MaxOperations \in Nat
  BY VersionBounds DEF VersionInv
<1>1. CASE Ver!QueueOperation
  <2>1. v2' \in 1..MaxOperations /\ v2' \in 0..MaxOperations /\ v3' = v3
    BY <1>0, <1>1 DEF Ver!QueueOperation, Ver!TypeOK
  <2>2. CASE v1 = Nothing
    <3>1. PICK found \in Ver!Seen :
            v1' = [installed |-> Nothing, available |-> found, update |-> FALSE,
                    operation |-> v2']
      BY <1>1, <2>2 DEF Ver!QueueOperation
    <3>2. v1' \in Ver!Rows
      BY <2>1, <3>1 DEF Ver!Rows, Ver!Ids, Ver!Seen
    <3>3. v1'.update = Ver!VersionsDiffer(v1'.installed, v1'.available)
      BY <3>1 DEF Ver!VersionsDiffer
    <3> QED
      BY <1>0, <2>1, <2>2, <3>2, <3>3, VersionBounds
      DEF RowFits, CallsTyped, Ver!FlagFits, Ver!TypeOK, ReadRowIsThere
  <2>3. CASE v1 # Nothing
    <3>1. v1 \in Ver!Rows /\ v1' = [v1 EXCEPT !.operation = v2']
      BY <1>0, <1>1, <2>3 DEF Ver!QueueOperation, Ver!TypeOK
    <3>2. /\ v1' \in Ver!Rows
          /\ v1'.installed = v1.installed /\ v1'.available = v1.available
          /\ v1'.update = v1.update
      BY <2>1, <3>1 DEF Ver!Rows, Ver!Ids
    <3> QED
      BY <1>0, <2>1, <2>3, <3>2, VersionBounds
      DEF RowFits, CallsTyped, Ver!FlagFits, Ver!TypeOK, ReadRowIsThere
  <2> QED
    BY <2>2, <2>3
<1>2. ASSUME NEW p \in Callers, Ver!BeginRefresh(p) PROVE RowFits /\ CallsTyped
  <2>1. v1 \in Ver!Rows /\ v1 # Nothing /\ v1' = v1 /\ v2' = v2
    BY <1>0, <1>2 DEF Ver!BeginRefresh, Ver!TypeOK
  <2>2. PICK found \in Ver!Seen :
          v3' = [v3 EXCEPT ![p] = [does |-> "refresh", found |-> found,
                                       before |-> Ver!Compared(v1)]]
    BY <1>2 DEF Ver!BeginRefresh, Ver!Enter
  <2>3. [does |-> "refresh", found |-> found, before |-> Ver!Compared(v1)] \in Ver!Refreshes
    BY <2>1, ReadingType DEF Ver!Refreshes
  <2> QED
    BY <2>1, <2>2, <2>3, CallMade, RowLeft
<1>3. ASSUME NEW p \in Callers, Ver!Refresh(p) PROVE RowFits /\ CallsTyped
  <2>1. v3[p] \in Ver!Refreshes /\ v3[p] # Nothing /\ v3[p].does = "refresh"
        /\ v2' = v2
    BY <1>0, <1>3 DEF Ver!Refresh, Ver!Idle, Ver!TypeOK, Ver!Refreshes, Ver!Upserts
  <2>2. v1 \in Ver!Rows /\ v1 # Nothing
    BY <1>0, <2>1 DEF Ver!TypeOK, ReadRowIsThere
  <2>3. CASE Ver!Compared(v1) = v3[p].before
    <3>1. v1' = Ver!Refreshed(v3[p]) /\ v3' = [v3 EXCEPT ![p] = Nothing]
      BY <1>3, <2>3 DEF Ver!Refresh, Ver!Leave, Ver!Enter
    <3>2. /\ v1' \in Ver!Rows /\ v1' # Nothing
          /\ v1'.update = Ver!VersionsDiffer(v1'.installed, v1'.available)
          /\ v1.available # Nothing => v1'.available # Nothing
      BY <2>1, <2>2, <2>3, <3>1, RefreshedFits, VersionBounds
    <3> QED
      BY <2>1, <3>1, <3>2, CallMade DEF RowFits, Ver!FlagFits
  <2>4. CASE Ver!Compared(v1) # v3[p].before
    <3>1. v1' = v1 /\ v3' = [v3 EXCEPT ![p] = [v3[p] EXCEPT !.before = Ver!Compared(v1)]]
      BY <1>3, <2>4 DEF Ver!Refresh, Ver!Enter
    <3>2. [v3[p] EXCEPT !.before = Ver!Compared(v1)] \in Ver!Refreshes
      BY <2>1, <2>2, ReadingType DEF Ver!Refreshes
    <3> QED
      BY <2>1, <2>2, <3>1, <3>2, CallMade, RowLeft
  <2> QED
    BY <2>3, <2>4
<1>4. ASSUME NEW p \in Callers, Ver!BeginUpsert(p) PROVE RowFits /\ CallsTyped
  <2>1. v1' = v1 /\ v2' = v2
    BY <1>4 DEF Ver!BeginUpsert
  <2>2. CASE v3' = v3
    BY <1>0, <2>1, <2>2, RowLeft DEF CallsTyped, Ver!TypeOK, ReadRowIsThere
  <2>3. CASE v3' # v3
    <3>1. PICK id \in {Nothing} \cup 1..v2, found \in Ver!Seen, installed \in Ver!Seen :
            v3' = [v3 EXCEPT ![p] = [does |-> "upsert", id |-> id, found |-> found,
                                         installed |-> installed, before |-> Ver!Observed(v1)]]
      BY <1>4, <2>3 DEF Ver!BeginUpsert, Ver!Enter
    <3>2. Ver!Observed(v1) \in [operation : Ver!Ids, available : Ver!Seen] \cup {Nothing}
          /\ (Ver!Observed(v1) # Nothing => v1 # Nothing)
      BY <1>0, ReadingType DEF Ver!TypeOK, Ver!Observed
    <3>3. id \in Ver!Ids
      BY <1>0 DEF Ver!TypeOK, Ver!Ids
    <3>4. [does |-> "upsert", id |-> id, found |-> found, installed |-> installed,
           before |-> Ver!Observed(v1)] \in Ver!Upserts
      BY <3>2, <3>3 DEF Ver!Upserts
    <3> QED
      BY <2>1, <3>1, <3>2, <3>4, CallMade, RowLeft
  <2> QED
    BY <2>2, <2>3
<1>5. ASSUME NEW p \in Callers, Ver!Update(p) PROVE RowFits /\ CallsTyped
  <2> DEFINE c == v3[p]
  <2>1. c \in Ver!Upserts /\ c # Nothing /\ c.before # Nothing /\ v2' = v2
    BY <1>0, <1>5 DEF Ver!Update, Ver!Idle, Ver!TypeOK, Ver!Refreshes, Ver!Upserts
  <2>2. v1 \in Ver!Rows /\ v1 # Nothing
    BY <1>0, <2>1 DEF Ver!TypeOK, ReadRowIsThere
  <2>3. CASE Ver!Fits(c)
    <3> DEFINE o == IF c.id = Nothing THEN v1.operation ELSE c.id
    <3>1. c.before.available = v1.available
      BY <2>2, <2>3 DEF Ver!Fits, Ver!Observed
    <3>2. /\ v1' = [v1 EXCEPT !.installed = c.installed,
                                !.update = Ver!VersionsDiffer(c.installed, v1.available),
                                !.operation = o]
          /\ v3' = [v3 EXCEPT ![p] = Nothing]
      BY <1>5, <2>3, <3>1 DEF Ver!Update, Ver!Leave, Ver!Enter
    <3>3. o \in Ver!Ids /\ c.installed \in Ver!Seen
      BY <2>1, <2>2 DEF Ver!Upserts, Ver!Rows
    <3> HIDE DEF o
    <3> HIDE DEF c
    <3>4. Ver!VersionsDiffer(c.installed, v1.available) \in BOOLEAN
      BY DEF Ver!VersionsDiffer
    <3>5. /\ v1' \in Ver!Rows
          /\ v1'.installed = c.installed /\ v1'.available = v1.available
          /\ v1'.update = Ver!VersionsDiffer(c.installed, v1.available)
      BY <2>2, <3>2, <3>3, <3>4 DEF Ver!Rows
    <3>6. v1' # Nothing
      BY <3>5, VersionBounds
    <3> USE DEF c
    <3> QED
      BY <2>1, <3>2, <3>5, <3>6, CallMade DEF RowFits, Ver!FlagFits
  <2>4. CASE ~Ver!Fits(c)
    <3>1. v1' = v1
      BY <1>5, <2>4 DEF Ver!Update
    <3>2. CASE v3' = [v3 EXCEPT ![p] = Nothing]
      BY <2>1, <2>2, <3>1, <3>2, CallMade, RowLeft
    <3>3. CASE v3' = [v3 EXCEPT ![p] = [c EXCEPT !.before = Ver!Observed(v1)]]
      <4>1. [c EXCEPT !.before = Ver!Observed(v1)] \in Ver!Upserts
        BY <2>1, <2>2, ReadingType DEF Ver!Upserts
      <4> QED
        BY <2>1, <2>2, <3>1, <3>3, <4>1, CallMade, RowLeft
    <3> QED
      BY <1>5, <2>4, <3>2, <3>3 DEF Ver!Update, Ver!Leave, Ver!Enter
  <2> QED
    BY <2>3, <2>4
<1>6. ASSUME NEW p \in Callers, Ver!Insert(p) PROVE RowFits /\ CallsTyped
  <2> DEFINE c == v3[p]
             new == [installed |-> c.installed, available |-> c.found,
                     update |-> Ver!VersionsDiffer(c.installed, c.found), operation |-> c.id]
  <2>1. c \in Ver!Upserts /\ v2' = v2 /\ v3' = [v3 EXCEPT ![p] = Nothing]
    BY <1>0, <1>6 DEF Ver!Insert, Ver!Idle, Ver!TypeOK, Ver!Refreshes, Ver!Upserts, Ver!Leave, Ver!Enter
  <2>2. CASE v1 = Nothing
    <3>1. v1' = new
      BY <1>6, <2>2 DEF Ver!Insert
    <3>2. c.installed \in Ver!Seen /\ c.found \in Ver!Seen /\ c.id \in Ver!Ids
      BY <2>1 DEF Ver!Upserts
    <3> HIDE DEF c
    <3>3. v1' \in Ver!Rows /\ v1'.update = Ver!VersionsDiffer(v1'.installed, v1'.available)
      BY <3>1, <3>2, InsertedFits
    <3> USE DEF c
    <3> QED
      BY <1>0, <2>1, <2>2, <3>3, CallMade, VersionBounds DEF RowFits, Ver!FlagFits
  <2>3. CASE v1 # Nothing
    <3>1. v1' = v1
      BY <1>6, <2>3 DEF Ver!Insert
    <3> QED
      BY <2>1, <2>3, <3>1, CallMade, RowLeft
  <2> QED
    BY <2>2, <2>3
<1>7. ASSUME NEW p \in Callers, Ver!Crash(p) PROVE RowFits /\ CallsTyped
  <2>1. v1' = v1 /\ v2' = v2 /\ v3' = [v3 EXCEPT ![p] = Nothing]
    BY <1>7 DEF Ver!Crash, Ver!Leave, Ver!Enter
  <2> QED
    BY <2>1, CallMade, RowLeft
<1>8. CASE UNCHANGED Ver!versionVars
  BY <1>0, <1>8, RowLeft DEF Ver!versionVars, CallsTyped, Ver!TypeOK, ReadRowIsThere
<1> QED
  BY <1>1, <1>2, <1>3, <1>4, <1>5, <1>6, <1>7, <1>8 DEF Ver!Next

LEMMA VersionsKept == VersionInv /\ [Ver!Next]_(Ver!versionVars) => VersionInv'
  BY VersionStep DEF CallsTyped, RowFits, VersionInv, Ver!TypeOK

LEMMA VersionsAlways == Spec => [](part = "versions" => VersionInv)
<1> DEFINE Inv == part = "versions" => VersionInv
<1>1. Init => Inv
  BY VersionsInitially DEF Init
<1>2. Inv /\ [Next]_vars => Inv'
  <2>1. part = "versions" /\ [Next]_vars => [Ver!Next]_(Ver!versionVars)
    BY DEF Next, vars, Ver!versionVars
  <2> QED
    BY <2>1, VersionsKept, PartIsKept
<1> QED
  BY <1>1, <1>2, PTL DEF Spec

\* Spec: the flag "update available" fits the row it is stored in, whoever wrote which of its
\* versions last.
THEOREM FlagsFit == Spec => []FlagFits
<1>1. (part = "versions" => VersionInv) => FlagFits
  BY DEF FlagFits, VersionInv
<1> QED
  BY <1>1, VersionsAlways, PTL

\* Spec: an available version that is known stays known.
THEOREM AvailableStaysKnown == Spec => AvailableStays
<1>1. (part = "versions" => VersionInv) /\ [Next]_vars
        => [part = "versions" => Ver!KeepsAvailable]_vars
  <2>1. part = "versions" /\ [Next]_vars => [Ver!Next]_(Ver!versionVars)
    BY DEF Next, vars, Ver!versionVars
  <2> QED
    BY <2>1, VersionStep DEF RowFits, Ver!KeepsAvailable
<1> QED
  BY <1>1, VersionsAlways, PTL DEF Spec, AvailableStays

-----------------------------------------------------------------------------
(* ChartMirror.                                                            *)

published == v1
mirror == v2
staging == v3
sync == v4
last_synced == v5
broken == v6
catalog == v7

\* A later version of a later version of a chart is one of the chart.
LEMMA LaterThanLater ==
  ASSUME NEW c \in Mir!Charts, NEW d \in Mir!FromOn(c)
  PROVE  /\ d \in Mir!Charts /\ d # Absent /\ d # Partial
         /\ c \in Mir!FromOn(c) /\ Mir!FromOn(d) \subseteq Mir!FromOn(c)
<1>1. d \in Mir!Charts /\ c \in Mir!FromOn(c) /\ (d = c \/ d.version > c.version)
  BY DEF Mir!FromOn
<1>2. d # Absent /\ d # Partial
  BY <1>1, MirMarksAssumption DEF Mir!MarksAssumption
<1>3. ASSUME NEW e \in Mir!FromOn(d) PROVE e \in Mir!FromOn(c)
  <2>1. e \in Mir!Charts /\ (e = d \/ e.version > d.version)
    BY <1>1, <1>3 DEF Mir!FromOn
  <2>2. c.version \in Int /\ d.version \in Int /\ e.version \in Int
    BY <1>1, <2>1 DEF Mir!Charts
  <2>3. e = c \/ e.version > c.version
    BY <1>1, <2>1, <2>2
  <2> QED
    BY <2>1, <2>3 DEF Mir!FromOn
<1> QED
  BY <1>1, <1>2, <1>3

\* What a load makes the entry of a name, whatever order the directories come in.
LEMMA LoadServes ==
  ASSUME Mir!FilesKept, Mir!Load, NEW n \in ChartNames
  PROVE  /\ n \in Components =>
              catalog'[n] # Absent /\ (catalog'[n] # Builtin => catalog'[n].kind = "app")
         /\ \A c \in Mir!Charts :
              /\ mirror[n] \in Mir!FromOn(c)
              /\ staging[n] \in {Absent, Partial} \cup Mir!FromOn(c)
              => \E served \in Mir!FromOn(c) :
                   catalog'[n] = Mir!LoadSystemComponent(n, Mir!ParseChart(served))
<1> USE DEF mirror, staging, catalog
<1> DEFINE parsed == {Mir!ParseChart(c) : c \in Mir!Whole(n)} \ {Absent}
<1>1. PICK e \in (IF parsed = {} THEN {Absent} ELSE parsed) :
        catalog'[n] = Mir!LoadSystemComponent(n, e)
  <2>1. catalog'[n] \in Mir!LoadApp(n)
    BY DEF Mir!Load
  <2> QED
    BY <2>1 DEF Mir!LoadApp
<1>2. \A c \in Mir!Whole(n) : c \in Mir!Charts /\ c \in {mirror[n], staging[n]}
  BY DEF Mir!Whole, Mir!FilesKept, Mir!Discovered
<1>3. e = Absent \/ \E c \in Mir!Whole(n) : e = Mir!ParseChart(c)
  BY <1>1
<1>4. n \in Components =>
        catalog'[n] # Absent /\ (catalog'[n] # Builtin => catalog'[n].kind = "app")
  <2>1. CASE e = Absent
    BY <1>1, <2>1, MirMarksAssumption DEF Mir!LoadSystemComponent, Mir!MarksAssumption
  <2>2. ASSUME e # Absent PROVE e \in Mir!Charts /\ e.kind \in {"app", "hidden"}
    BY <1>2, <1>3, <2>2 DEF Mir!ParseChart, Mir!Charts
  <2> QED
    BY <1>1, <2>1, <2>2, MirMarksAssumption DEF Mir!LoadSystemComponent, Mir!MarksAssumption
<1>5. ASSUME NEW c \in Mir!Charts, mirror[n] \in Mir!FromOn(c),
             staging[n] \in {Absent, Partial} \cup Mir!FromOn(c)
      PROVE  \E served \in Mir!FromOn(c) :
               catalog'[n] = Mir!LoadSystemComponent(n, Mir!ParseChart(served))
  <2>1. Mir!Whole(n) \subseteq Mir!FromOn(c) /\ mirror[n] \in Mir!Whole(n)
    BY <1>5, LaterThanLater DEF Mir!Whole
  <2>2. \E served \in Mir!Whole(n) : e = Mir!ParseChart(served)
    <3>1. CASE parsed = {}
      <4>1. Mir!ParseChart(mirror[n]) = Absent
        BY <2>1, <3>1
      <4> QED
        BY <1>1, <2>1, <3>1, <4>1
    <3>2. CASE parsed # {}
      BY <1>1, <3>2
    <3> QED
      BY <3>1, <3>2
  <2> QED
    BY <1>1, <2>1, <2>2
<1> QED
  BY <1>4, <1>5

\* An empty repository, and the components of Kubarr.
LEMMA MirrorInitially == Mir!Init => Mir!MirrorInv
<1> SUFFICES ASSUME Mir!Init PROVE Mir!MirrorInv
  OBVIOUS
<1> USE DEF published, mirror, staging, sync, last_synced, broken, catalog
<1>1. sync.step = "idle" /\ last_synced = Absent
  BY DEF Mir!Init, Mir!Idle
<1>2. Mir!FilesKept
  BY DEF Mir!Init, Mir!FilesKept, Mir!Discovered
<1>3. Mir!SyncKept
  BY <1>1 DEF Mir!Init, Mir!Idle, Mir!SyncKept, Mir!Pulling, Mir!Placing
<1>4. Mir!PulledKept /\ Mir!SyncedKept
  BY <1>1 DEF Mir!PulledKept, Mir!SyncedKept, Mir!Pulling
<1>5. Mir!CatalogServes
  <2>1. \A n \in Components : catalog[n] = Builtin
    BY MirComponentsAssumption DEF Mir!Init, Mir!LoadSystemComponent, Mir!ComponentsAssumption
  <2> QED
    BY <1>1, <2>1, MirMarksAssumption DEF Mir!CatalogServes, Mir!ComponentsListed,
      Mir!LastSyncedIsServed, Mir!MarksAssumption
<1> QED
  BY <1>2, <1>3, <1>4, <1>5 DEF Mir!MirrorInv

\* Every step of ChartMirror keeps MirrorInv: what it reads of the repository is what is
\* published, or was, and it touches only the directories of the chart it is about.
LEMMA MirrorKept ==
  Mir!MirrorInv /\ [Mir!Next]_(Mir!mirrorVars) => Mir!MirrorInv'
<1> SUFFICES ASSUME Mir!MirrorInv, [Mir!Next]_(Mir!mirrorVars) PROVE Mir!MirrorInv'
  OBVIOUS
<1> USE DEF published, mirror, staging, sync, last_synced, broken, catalog
<1> DEFINE Steps == {"idle", "discover", "pull", "untar", "remove", "rename"}
           Syncs == [step : Steps, at : ChartNames \cup {Absent},
                     found : Mir!Discovered \cup {Absent}, left : SUBSET ChartNames,
                     failed : BOOLEAN]
           Places == {"untar", "remove", "rename"}
           Served(n) == last_synced # Absent /\ last_synced[n] # Absent
<1>1. /\ Mir!FilesKept /\ Mir!SyncKept /\ Mir!PulledKept /\ Mir!SyncedKept /\ Mir!CatalogServes
      /\ published \in Mir!Discovered /\ mirror \in Mir!Discovered
      /\ staging \in [ChartNames -> Mir!Charts \cup {Absent, Partial}]
      /\ sync \in Syncs
      /\ last_synced # Absent => last_synced \in Mir!Discovered
  BY DEF Mir!MirrorInv, Mir!FilesKept, Mir!SyncKept, Mir!SyncedKept
<1>2. Absent \notin Mir!Charts /\ Partial \notin Mir!Charts
  BY MirMarksAssumption DEF Mir!MarksAssumption
<1>3. ASSUME NEW n \in ChartNames, Served(n)
      PROVE  /\ last_synced[n] \in Mir!Charts /\ published[n] \in Mir!FromOn(last_synced[n])
             /\ sync.step # "idle" /\ sync.found[n] # Absent =>
                  sync.found[n] \in Mir!FromOn(last_synced[n])
             /\ staging[n] \in {Absent, Partial} \cup Mir!FromOn(last_synced[n])
             /\ \/ n \in broken \/ (Mir!Placing(n) /\ sync.step = "rename")
                \/ mirror[n] \in Mir!FromOn(last_synced[n])
  BY <1>1, <1>3 DEF Mir!SyncedKept, Mir!Discovered
\* The catalog, left alone or loaded.
<1>4. ASSUME catalog' = catalog, last_synced' = last_synced, broken \subseteq broken'
      PROVE  Mir!CatalogServes'
  BY <1>1, <1>4 DEF Mir!CatalogServes, Mir!ComponentsListed, Mir!LastSyncedIsServed, Mir!FromOn,
    Mir!Charts, Mir!LoadSystemComponent, Mir!ParseChart
<1>5. ASSUME Mir!Load PROVE Mir!ComponentsListed'
  BY <1>1, <1>5, LoadServes, MirComponentsAssumption DEF Mir!ComponentsListed,
    Mir!ComponentsAssumption
\* A step of the discovery: nothing is pulled yet.
<1>6. ASSUME UNCHANGED <<published, mirror, staging, last_synced, broken, catalog>>,
             sync' \in Syncs, sync'.step \in {"idle", "discover", "pull"}, ~Mir!Pulling,
             sync'.step # "idle" => sync'.found \in Mir!Discovered,
             \A n \in ChartNames : sync'.step # "idle" /\ sync'.found[n] # Absent =>
               /\ published[n] \in Mir!FromOn(sync'.found[n])
               /\ Served(n) => sync'.found[n] \in Mir!FromOn(last_synced[n]),
             sync'.step = "pull" => \A n \in ChartNames : n \in sync'.left <=> sync'.found[n] # Absent
      PROVE  Mir!MirrorInv'
  <2>1. ~(sync'.step \in Places) /\ sync.step \notin Places
    BY <1>6 DEF Mir!Pulling
  <2>2. Mir!FilesKept'
    BY <1>1, <1>6 DEF Mir!FilesKept
  <2>3. Mir!SyncKept'
    <3>1. \A n \in ChartNames : ~Mir!Placing(n)'
      BY <2>1 DEF Mir!Placing
    <3>2. \A n \in ChartNames : sync'.step # "idle" /\ sync'.found[n] # Absent =>
            published'[n] \in Mir!FromOn(sync'.found[n])
      BY <1>6
    <3>3. Mir!Pulling' => \A n \in sync'.left : sync'.found[n] # Absent
      BY <1>6 DEF Mir!Pulling
    <3> QED
      BY <1>6, <2>1, <3>1, <3>2, <3>3 DEF Mir!SyncKept
  <2>4. Mir!PulledKept'
    BY <1>6 DEF Mir!PulledKept, Mir!Pulling
  <2>5. Mir!SyncedKept'
    <3>1. \A n \in ChartNames : Served(n) =>
            /\ published'[n] \in Mir!FromOn(last_synced[n])
            /\ staging'[n] \in {Absent, Partial} \cup Mir!FromOn(last_synced[n])
            /\ n \in broken' \/ mirror'[n] \in Mir!FromOn(last_synced[n])
      BY <1>3, <1>6, <2>1
    <3> QED
      BY <1>1, <1>6, <3>1 DEF Mir!SyncedKept
  <2>6. Mir!CatalogServes'
    BY <1>4, <1>6
  <2> QED
    BY <2>2, <2>3, <2>4, <2>5, <2>6 DEF Mir!MirrorInv
\* A step of a pull: of one chart.
<1>7. ASSUME NEW p \in ChartNames, Mir!Pulling, sync' \in Syncs,
             sync'.step \in {"pull", "untar", "remove", "rename"}, sync'.found = sync.found,
             sync'.left = sync.left \ {p}, sync.failed => sync'.failed, Mir!FilesKept',
             UNCHANGED <<published, last_synced, catalog>>, broken \subseteq broken',
             \A n \in ChartNames \ {p} : mirror'[n] = mirror[n] /\ staging'[n] = staging[n],
             sync.step \in Places => sync.at = p, sync'.step \in Places => sync'.at = p,
             sync.found[p] # Absent, staging'[p] \in {Absent, Partial, sync.found[p]},
             sync'.step \in {"remove", "rename"} => staging'[p] = sync.found[p],
             sync'.step = "pull" /\ ~sync'.failed =>
               mirror'[p] = sync.found[p] /\ staging'[p] = Absent,
             \/ p \in broken' \/ sync'.step = "rename" \/ mirror'[p] = sync.found[p]
             \/ mirror'[p] = mirror[p] /\ sync.step # "rename"
      PROVE  Mir!MirrorInv'
  <2>1. /\ sync.step # "idle" /\ sync'.step # "idle" /\ sync.found \in Mir!Discovered
        /\ \A n \in ChartNames \ {p} : ~Mir!Placing(n) /\ ~Mir!Placing(n)'
    BY <1>1, <1>7 DEF Mir!Pulling, Mir!SyncKept, Mir!Placing
  <2>2. Mir!SyncKept'
    <3>1. \A n \in ChartNames : sync'.found[n] # Absent =>
            published'[n] \in Mir!FromOn(sync'.found[n])
      BY <1>1, <1>7, <2>1 DEF Mir!SyncKept
    <3>2. \A n \in sync'.left : sync'.found[n] # Absent
      BY <1>1, <1>7 DEF Mir!SyncKept
    <3>3. \A n \in ChartNames : Mir!Placing(n)' =>
            /\ n \notin sync'.left /\ sync'.found[n] # Absent
            /\ sync'.step # "untar" => staging'[n] = sync'.found[n]
      BY <1>7, <2>1 DEF Mir!Placing
    <3> QED
      BY <1>7, <2>1, <3>1, <3>2, <3>3 DEF Mir!SyncKept
  <2>3. Mir!PulledKept'
    <3>1. ASSUME ~sync'.failed, NEW n \in ChartNames \ sync'.left, sync'.found[n] # Absent
          PROVE  Mir!Placing(n)' \/ (mirror'[n] = sync'.found[n] /\ staging'[n] = Absent)
      <4>1. CASE n = p
        BY <1>7, <3>1, <4>1 DEF Mir!Placing
      <4>2. CASE n # p
        BY <1>1, <1>7, <2>1, <3>1, <4>2 DEF Mir!PulledKept
      <4> QED
        BY <4>1, <4>2
    <3> QED
      BY <3>1 DEF Mir!PulledKept
  <2>4. Mir!SyncedKept'
    <3>1. ASSUME NEW n \in ChartNames, Served(n)
          PROVE  /\ published'[n] \in Mir!FromOn(last_synced[n])
                 /\ sync'.found[n] # Absent => sync'.found[n] \in Mir!FromOn(last_synced[n])
                 /\ staging'[n] \in {Absent, Partial} \cup Mir!FromOn(last_synced[n])
                 /\ \/ n \in broken' \/ (Mir!Placing(n)' /\ sync'.step = "rename")
                    \/ mirror'[n] \in Mir!FromOn(last_synced[n])
      <4>1. /\ published'[n] \in Mir!FromOn(last_synced[n])
            /\ sync'.found[n] # Absent => sync'.found[n] \in Mir!FromOn(last_synced[n])
        BY <1>3, <1>7, <2>1, <3>1
      <4>2. staging'[n] \in {Absent, Partial} \cup Mir!FromOn(last_synced[n])
        BY <1>3, <1>7, <3>1, <4>1
      <4>3. CASE n = p
        BY <1>3, <1>7, <3>1, <4>1, <4>3 DEF Mir!Placing
      <4>4. CASE n # p
        BY <1>3, <1>7, <2>1, <3>1, <4>4
      <4> QED
        BY <4>1, <4>2, <4>3, <4>4
    <3> QED
      BY <1>1, <1>7, <3>1 DEF Mir!SyncedKept
  <2>5. Mir!CatalogServes'
    BY <1>4, <1>7
  <2> QED
    BY <1>7, <2>2, <2>3, <2>4, <2>5 DEF Mir!MirrorInv
\* The repository.
<1>8. ASSUME NEW n \in ChartNames, Mir!Publish(n) PROVE Mir!MirrorInv'
  <2>1. PICK c \in Mir!Charts :
          /\ c.version = IF published[n] = Absent THEN 1 ELSE published[n].version + 1
          /\ published' = [published EXCEPT ![n] = c]
    BY <1>8 DEF Mir!Publish
  <2>2. UNCHANGED <<mirror, staging, sync, last_synced, broken, catalog>>
    BY <1>8 DEF Mir!Publish
  <2>3. published' \in Mir!Discovered
    BY <1>1, <2>1 DEF Mir!Discovered
  <2>4. ASSUME NEW m \in ChartNames, NEW d \in Mir!Charts, published[m] \in Mir!FromOn(d)
        PROVE  published'[m] \in Mir!FromOn(d)
    <3>1. CASE m # n
      BY <1>1, <2>1, <2>4, <3>1 DEF Mir!Discovered
    <3>2. CASE m = n
      <4>1. published[n] \in Mir!Charts /\ published[n] # Absent
        BY <2>4, <3>2, LaterThanLater
      <4>2. published'[n] = c /\ c.version > published[n].version
        BY <1>1, <2>1, <4>1 DEF Mir!Discovered, Mir!Charts
      <4>3. c \in Mir!FromOn(published[n])
        BY <4>2 DEF Mir!FromOn
      <4> QED
        BY <2>4, <3>2, <4>2, <4>3, LaterThanLater
    <3> QED
      BY <3>1, <3>2
  <2>5. Mir!FilesKept' /\ Mir!PulledKept'
    BY <1>1, <2>2, <2>3 DEF Mir!FilesKept, Mir!PulledKept, Mir!Pulling, Mir!Placing
  <2>6. Mir!SyncKept'
    <3>1. ASSUME sync.step # "idle", NEW m \in ChartNames, sync.found[m] # Absent
          PROVE  published'[m] \in Mir!FromOn(sync.found[m])
      <4>1. sync.found[m] \in Mir!Charts /\ published[m] \in Mir!FromOn(sync.found[m])
        BY <1>1, <3>1 DEF Mir!SyncKept, Mir!Discovered
      <4> QED
        BY <2>4, <4>1
    <3> QED
      BY <1>1, <2>2, <3>1 DEF Mir!SyncKept, Mir!Pulling, Mir!Placing
  <2>7. Mir!SyncedKept'
    <3>1. \A m \in ChartNames : Served(m) => published'[m] \in Mir!FromOn(last_synced[m])
      BY <1>3, <2>4
    <3> QED
      BY <1>1, <2>2, <3>1 DEF Mir!SyncedKept, Mir!Placing
  <2> QED
    BY <1>4, <2>2, <2>5, <2>6, <2>7 DEF Mir!MirrorInv
\* The discovery.
<1>9. \A n \in ChartNames : published[n] # Absent =>
        /\ published[n] \in Mir!FromOn(published[n])
        /\ Served(n) => published[n] \in Mir!FromOn(last_synced[n])
  BY <1>1, <1>3, LaterThanLater DEF Mir!Discovered, Mir!FromOn
<1>10. ASSUME NEW s \in Syncs, s = Mir!Idle, ~Mir!Pulling, sync' = s,
              UNCHANGED <<published, mirror, staging, last_synced, broken, catalog>>
       PROVE  Mir!MirrorInv'
  BY <1>6, <1>10 DEF Mir!Idle
<1>11. Mir!Idle \in Syncs
  BY DEF Mir!Idle
<1>12. ASSUME Mir!AbandonDiscovery PROVE Mir!MirrorInv'
  BY <1>10, <1>11, <1>12 DEF Mir!AbandonDiscovery, Mir!Pulling
<1>13. ASSUME Mir!DiscoverCharts PROVE Mir!MirrorInv'
  <2>1. PICK found \in Mir!Discovered : found = [n \in ChartNames |-> Absent]
    BY DEF Mir!Discovered
  <2>2. PICK left \in SUBSET ChartNames : left = {n \in ChartNames : published[n] # Absent}
    OBVIOUS
  <2>3. sync' = [step |-> "discover", at |-> Absent, found |-> found, left |-> left,
                 failed |-> FALSE]
    BY <1>13, <2>1, <2>2 DEF Mir!DiscoverCharts, Mir!Idle
  <2>4. sync' \in Syncs /\ sync'.step = "discover" /\ sync'.found = found
    BY <2>3
  <2>5. \A n \in ChartNames : found[n] = Absent
    BY <2>1
  <2>6. ~Mir!Pulling /\ UNCHANGED <<published, mirror, staging, last_synced, broken, catalog>>
    BY <1>13 DEF Mir!DiscoverCharts, Mir!Idle, Mir!Pulling
  <2> QED
    BY <1>6, <2>4, <2>5, <2>6
<1>14. ASSUME NEW charts \in Mir!Discovered, Mir!Found(charts), sync.step = "discover",
              \A n \in ChartNames : charts[n] # Absent =>
                /\ published[n] \in Mir!FromOn(charts[n])
                /\ Served(n) => charts[n] \in Mir!FromOn(last_synced[n]),
              UNCHANGED <<published, mirror, staging, last_synced, broken, catalog>>
       PROVE  Mir!MirrorInv'
  <2>1. PICK names \in SUBSET ChartNames : names = {n \in ChartNames : charts[n] # Absent}
    OBVIOUS
  <2>2. ~Mir!Pulling
    BY <1>14 DEF Mir!Pulling
  <2>3. CASE names = {}
    <3>1. sync' = Mir!Idle
      BY <1>14, <2>1, <2>3 DEF Mir!Found
    <3> QED
      BY <1>10, <1>11, <1>14, <2>2, <3>1
  <2>4. CASE names # {}
    <3>1. sync' = [sync EXCEPT !.step = "pull", !.found = charts, !.left = names]
      BY <1>14, <2>1, <2>4 DEF Mir!Found
    <3>2. sync' \in Syncs /\ sync'.step = "pull" /\ sync'.found = charts /\ sync'.left = names
      BY <1>1, <3>1
    <3> QED
      BY <1>6, <1>14, <2>1, <2>2, <3>2
  <2> QED
    BY <2>3, <2>4
<1>15. ASSUME Mir!DiscoverFromArchive PROVE Mir!MirrorInv'
  BY <1>1, <1>9, <1>14, <1>15 DEF Mir!DiscoverFromArchive
<1>16. ASSUME NEW n \in ChartNames, Mir!ReadVersion(n) PROVE Mir!MirrorInv'
  <2>1. /\ sync.step = "discover" /\ sync.found \in Mir!Discovered
        /\ UNCHANGED <<published, mirror, staging, last_synced, broken, catalog>>
    BY <1>1, <1>16 DEF Mir!ReadVersion, Mir!SyncKept
  <2>2. PICK found : found = [sync.found EXCEPT ![n] = published[n]]
    OBVIOUS
  <2>3. found \in Mir!Discovered
    BY <1>1, <2>1, <2>2 DEF Mir!Discovered
  <2>4. ASSUME NEW m \in ChartNames, found[m] # Absent
        PROVE  /\ published[m] \in Mir!FromOn(found[m])
               /\ Served(m) => found[m] \in Mir!FromOn(last_synced[m])
    <3>1. CASE m = n
      BY <1>9, <2>1, <2>2, <2>4, <3>1 DEF Mir!Discovered
    <3>2. CASE m # n
      <4>1. found[m] = sync.found[m]
        BY <2>1, <2>2, <3>2 DEF Mir!Discovered
      <4> QED
        BY <1>1, <1>3, <2>1, <2>4, <4>1 DEF Mir!SyncKept
    <3> QED
      BY <3>1, <3>2
  <2>5. CASE sync.left = {n}
    <3>1. Mir!Found(found)
      BY <1>16, <2>2, <2>5 DEF Mir!ReadVersion
    <3> QED
      BY <1>14, <2>1, <2>3, <2>4, <3>1
  <2>6. CASE sync.left # {n}
    <3>1. sync' = [sync EXCEPT !.found = found, !.left = @ \ {n}]
      BY <1>16, <2>2, <2>6 DEF Mir!ReadVersion
    <3>2. sync' \in Syncs /\ sync'.step = "discover" /\ sync'.found = found
      BY <1>1, <2>1, <2>3, <3>1
    <3> QED
      BY <1>6, <2>1, <2>3, <2>4, <3>2 DEF Mir!Pulling
  <2> QED
    BY <2>5, <2>6
\* The pulls.
<1>17. ASSUME NEW n \in ChartNames, Mir!BeginPull(n) PROVE Mir!MirrorInv'
  <2>1. /\ sync.step = "pull" /\ n \in sync.left /\ staging' = [staging EXCEPT ![n] = Partial]
        /\ sync' = [sync EXCEPT !.step = "untar", !.at = n, !.left = @ \ {n}]
        /\ UNCHANGED <<published, mirror, last_synced, broken, catalog>>
    BY <1>17 DEF Mir!BeginPull
  <2>2. /\ sync' \in Syncs /\ sync'.step = "untar" /\ sync'.at = n /\ sync'.found = sync.found
        /\ sync'.left = sync.left \ {n} /\ sync'.failed = sync.failed
    BY <1>1, <2>1
  <2>3. Mir!FilesKept' /\ staging'[n] = Partial
    BY <1>1, <2>1 DEF Mir!FilesKept
  <2>4. Mir!Pulling /\ sync.found[n] # Absent
    BY <1>1, <2>1 DEF Mir!SyncKept, Mir!Pulling
  <2>5. \A m \in ChartNames \ {n} : mirror'[m] = mirror[m] /\ staging'[m] = staging[m]
    BY <1>1, <2>1
  <2> QED
    BY <1>7, <2>1, <2>2, <2>3, <2>4, <2>5
<1>18. ASSUME sync.step \in Places
       PROVE  \E p \in ChartNames :
                /\ sync.at = p /\ Mir!Pulling /\ p \notin sync.left /\ sync.left \ {p} = sync.left
                /\ sync.found \in Mir!Discovered
                /\ sync.found[p] # Absent /\ sync.found[p] \in Mir!Charts
                /\ sync.step # "untar" => staging[p] = sync.found[p]
  BY <1>1, <1>18 DEF Mir!SyncKept, Mir!Pulling, Mir!Placing, Mir!Discovered
<1>19. ASSUME Mir!Untar PROVE Mir!MirrorInv'
  <2>1. PICK p \in ChartNames :
          /\ sync.at = p /\ Mir!Pulling /\ p \notin sync.left /\ sync.left \ {p} = sync.left
          /\ sync.found[p] # Absent /\ sync.found[p] \in Mir!Charts
    BY <1>18, <1>19 DEF Mir!Untar
  <2>2. /\ sync.step = "untar" /\ staging' = [staging EXCEPT ![p] = sync.found[p]]
        /\ sync' = [sync EXCEPT !.step = "remove"]
        /\ UNCHANGED <<published, mirror, last_synced, broken, catalog>>
    BY <1>19, <2>1 DEF Mir!Untar
  <2>3. /\ sync' \in Syncs /\ sync'.step = "remove" /\ sync'.at = p /\ sync'.found = sync.found
        /\ sync'.left = sync.left /\ sync'.failed = sync.failed
    BY <1>1, <2>1, <2>2
  <2>4. Mir!FilesKept' /\ staging'[p] = sync.found[p]
    BY <1>1, <2>1, <2>2 DEF Mir!FilesKept
  <2>5. \A m \in ChartNames \ {p} : mirror'[m] = mirror[m] /\ staging'[m] = staging[m]
    BY <1>1, <2>2
  <2> QED
    BY <1>7, <2>1, <2>2, <2>3, <2>4, <2>5
<1>20. ASSUME Mir!RemoveOld PROVE Mir!MirrorInv'
  <2>1. PICK p \in ChartNames :
          /\ sync.at = p /\ Mir!Pulling /\ p \notin sync.left /\ sync.left \ {p} = sync.left
          /\ sync.found[p] # Absent /\ staging[p] = sync.found[p]
    BY <1>18, <1>20 DEF Mir!RemoveOld
  <2>2. /\ sync.step = "remove" /\ mirror' = [mirror EXCEPT ![p] = Absent]
        /\ sync' = [sync EXCEPT !.step = "rename"]
        /\ UNCHANGED <<published, staging, last_synced, broken, catalog>>
    BY <1>20, <2>1 DEF Mir!RemoveOld
  <2>3. /\ sync' \in Syncs /\ sync'.step = "rename" /\ sync'.at = p /\ sync'.found = sync.found
        /\ sync'.left = sync.left /\ sync'.failed = sync.failed
    BY <1>1, <2>1, <2>2
  <2>4. Mir!FilesKept'
    BY <1>1, <2>2 DEF Mir!FilesKept, Mir!Discovered
  <2>5. \A m \in ChartNames \ {p} : mirror'[m] = mirror[m] /\ staging'[m] = staging[m]
    BY <1>1, <2>2 DEF Mir!Discovered
  <2> QED
    BY <1>7, <2>1, <2>2, <2>3, <2>4, <2>5
<1>21. ASSUME Mir!RenameNew PROVE Mir!MirrorInv'
  <2>1. PICK p \in ChartNames :
          /\ sync.at = p /\ Mir!Pulling /\ p \notin sync.left /\ sync.left \ {p} = sync.left
          /\ sync.found[p] # Absent /\ sync.found[p] \in Mir!Charts
          /\ staging[p] = sync.found[p]
    BY <1>18, <1>21 DEF Mir!RenameNew
  <2>2. /\ sync.step = "rename" /\ mirror' = [mirror EXCEPT ![p] = staging[p]]
        /\ staging' = [staging EXCEPT ![p] = Absent]
        /\ sync' = [sync EXCEPT !.step = "pull", !.at = Absent]
        /\ UNCHANGED <<published, last_synced, broken, catalog>>
    BY <1>21, <2>1 DEF Mir!RenameNew
  <2>3. /\ sync' \in Syncs /\ sync'.step = "pull" /\ sync'.found = sync.found
        /\ sync'.left = sync.left /\ sync'.failed = sync.failed
    BY <1>1, <2>1, <2>2
  <2>4. mirror'[p] = sync.found[p] /\ staging'[p] = Absent
    BY <1>1, <2>1, <2>2 DEF Mir!Discovered
  <2>5. Mir!FilesKept'
    BY <1>1, <2>1, <2>2 DEF Mir!FilesKept, Mir!Discovered
  <2>6. \A m \in ChartNames \ {p} : mirror'[m] = mirror[m] /\ staging'[m] = staging[m]
    BY <1>1, <2>2 DEF Mir!Discovered
  <2> QED
    BY <1>7, <2>1, <2>2, <2>3, <2>4, <2>5, <2>6
<1>22. ASSUME Mir!FailPull PROVE Mir!MirrorInv'
  <2>1. PICK p \in ChartNames :
          /\ sync.at = p /\ Mir!Pulling /\ p \notin sync.left /\ sync.left \ {p} = sync.left
          /\ sync.found[p] # Absent
    BY <1>18, <1>22 DEF Mir!FailPull
  <2>2. /\ sync.step \in Places /\ staging' = [staging EXCEPT ![p] = Absent]
        /\ sync' = [sync EXCEPT !.step = "pull", !.at = Absent, !.failed = TRUE]
        /\ broken' = broken \cup {p}
        /\ UNCHANGED <<published, mirror, last_synced, catalog>>
    BY <1>22, <2>1 DEF Mir!FailPull
  <2>3. /\ sync' \in Syncs /\ sync'.step = "pull" /\ sync'.found = sync.found
        /\ sync'.left = sync.left /\ sync'.failed = TRUE
    BY <1>1, <2>1, <2>2
  <2>4. Mir!FilesKept' /\ staging'[p] = Absent
    BY <1>1, <2>2 DEF Mir!FilesKept
  <2>5. \A m \in ChartNames \ {p} : mirror'[m] = mirror[m] /\ staging'[m] = staging[m]
    BY <1>1, <2>2
  <2> QED
    BY <1>7, <2>1, <2>2, <2>3, <2>4, <2>5
\* The load at the end, and at the start of the process.
<1>23. ASSUME sync' = Mir!Idle, Mir!FilesKept', Mir!CatalogServes', Mir!SyncedKept'
       PROVE  Mir!MirrorInv'
  <2>1. sync'.step = "idle"
    BY <1>23 DEF Mir!Idle
  <2>2. Mir!SyncKept'
    BY <1>11, <1>23, <2>1 DEF Mir!SyncKept, Mir!Pulling, Mir!Placing
  <2>3. Mir!PulledKept'
    BY <2>1 DEF Mir!PulledKept, Mir!Pulling
  <2> QED
    BY <1>23, <2>2, <2>3 DEF Mir!MirrorInv
<1>24. ASSUME Mir!Restart PROVE Mir!MirrorInv'
  <2>1. last_synced' = Absent /\ sync' = Mir!Idle /\ published' = published
    BY <1>24 DEF Mir!Restart
  <2>2. Mir!SyncedKept' /\ Mir!LastSyncedIsServed'
    BY <2>1 DEF Mir!SyncedKept, Mir!LastSyncedIsServed
  <2>3. CASE Mir!Load /\ UNCHANGED <<mirror, staging>>
    <3>1. Mir!FilesKept'
      BY <1>1, <2>1, <2>3 DEF Mir!FilesKept
    <3> QED
      BY <1>5, <1>23, <2>1, <2>2, <2>3, <3>1 DEF Mir!CatalogServes
  <2>4. CASE /\ mirror' = [n \in ChartNames |-> Absent]
             /\ staging' = [n \in ChartNames |-> Absent]
             /\ catalog' = [n \in ChartNames |-> Mir!LoadSystemComponent(n, Absent)]
    <3>1. Mir!FilesKept'
      BY <1>1, <2>1, <2>4 DEF Mir!FilesKept, Mir!Discovered
    <3>2. \A n \in Components : catalog'[n] = Builtin
      BY <2>4, MirComponentsAssumption DEF Mir!LoadSystemComponent, Mir!ComponentsAssumption
    <3>3. Mir!ComponentsListed'
      BY <3>2, MirMarksAssumption DEF Mir!ComponentsListed, Mir!MarksAssumption
    <3> QED
      BY <1>23, <2>1, <2>2, <3>1, <3>3 DEF Mir!CatalogServes
  <2> QED
    BY <1>24, <2>3, <2>4 DEF Mir!Restart
<1>25. ASSUME Mir!Reload PROVE Mir!MirrorInv'
  <2>1. /\ sync.step = "pull" /\ sync.left = {} /\ Mir!Load /\ sync' = Mir!Idle
        /\ UNCHANGED <<published, mirror, staging>>
        /\ IF sync.failed THEN UNCHANGED <<last_synced, broken>>
           ELSE last_synced' = sync.found /\ broken' = {}
    BY <1>25 DEF Mir!Reload
  <2>2. /\ sync.found \in Mir!Discovered /\ sync'.step = "idle"
        /\ \A n \in ChartNames : ~Mir!Placing(n)
    BY <1>1, <2>1 DEF Mir!SyncKept, Mir!Placing, Mir!Idle
  <2>3. last_synced' # Absent => last_synced' \in Mir!Discovered
    BY <1>1, <2>1, <2>2
  <2>4. ASSUME last_synced' # Absent, NEW n \in ChartNames, last_synced'[n] # Absent
        PROVE  /\ published[n] \in Mir!FromOn(last_synced'[n])
               /\ staging[n] \in {Absent, Partial} \cup Mir!FromOn(last_synced'[n])
               /\ n \in broken' \/ mirror[n] \in Mir!FromOn(last_synced'[n])
    <3>1. CASE sync.failed
      BY <1>3, <2>1, <2>2, <2>4, <3>1
    <3>2. CASE ~sync.failed
      <4>1. sync.found[n] \in Mir!Charts /\ published[n] \in Mir!FromOn(sync.found[n])
        BY <1>1, <2>1, <2>2, <2>4, <3>2 DEF Mir!SyncKept, Mir!Discovered
      <4>2. mirror[n] = sync.found[n] /\ staging[n] = Absent
        BY <1>1, <2>1, <2>2, <2>4, <3>2 DEF Mir!PulledKept, Mir!Pulling
      <4> QED
        BY <2>1, <3>2, <4>1, <4>2 DEF Mir!FromOn
    <3> QED
      BY <1>1, <3>1, <3>2
  <2>5. Mir!SyncedKept'
    BY <2>1, <2>2, <2>3, <2>4 DEF Mir!SyncedKept
  <2>6. Mir!LastSyncedIsServed'
    <3>1. ASSUME last_synced' # Absent, NEW n \in ChartNames \ broken', last_synced'[n] # Absent
          PROVE  \E served \in Mir!FromOn(last_synced'[n]) :
                   catalog'[n] = Mir!LoadSystemComponent(n, Mir!ParseChart(served))
      <4>1. last_synced'[n] \in Mir!Charts
        BY <2>3, <3>1 DEF Mir!Discovered
      <4> QED
        BY <1>1, <2>1, <2>4, <3>1, <4>1, LoadServes
    <3> QED
      BY <3>1 DEF Mir!LastSyncedIsServed
  <2>7. Mir!FilesKept'
    BY <1>1, <2>1 DEF Mir!FilesKept
  <2> QED
    BY <1>5, <1>23, <2>1, <2>5, <2>6, <2>7 DEF Mir!CatalogServes
<1>26. CASE UNCHANGED Mir!mirrorVars
  <2>1. Mir!FilesKept' /\ Mir!SyncKept' /\ Mir!PulledKept' /\ Mir!SyncedKept'
    BY <1>1, <1>26 DEF Mir!mirrorVars, Mir!FilesKept, Mir!SyncKept, Mir!PulledKept,
      Mir!SyncedKept, Mir!Pulling, Mir!Placing
  <2>2. Mir!CatalogServes'
    BY <1>4, <1>26 DEF Mir!mirrorVars
  <2> QED
    BY <2>1, <2>2 DEF Mir!MirrorInv
<1> QED
  BY <1>8, <1>12, <1>13, <1>15, <1>16, <1>17, <1>19, <1>20, <1>21, <1>22, <1>24, <1>25, <1>26
  DEF Mir!Next

\* Spec: Kubarr's own components and what the last sync that counts discovered are served,
\* whatever was pulled, failed or restarted since.
THEOREM CatalogAlwaysServes == Spec => []CatalogServes
<1> DEFINE Inv == part = "charts" => Mir!MirrorInv
<1>1. Init => Inv
  BY MirrorInitially DEF Init
<1>2. Inv /\ [Next]_vars => Inv'
  <2>1. part = "charts" /\ [Next]_vars => [Mir!Next]_(Mir!mirrorVars)
    BY DEF Next, vars, Mir!mirrorVars
  <2> QED
    BY <2>1, PartIsKept, MirrorKept
<1>3. Inv => CatalogServes
  BY DEF Mir!MirrorInv, CatalogServes
<1> QED
  BY <1>1, <1>2, <1>3, PTL DEF Spec

-----------------------------------------------------------------------------
(* VpnTests.                                                               *)

vpn == v1
step == v2
secretOf == v3
podOf == v4
answer == v5
excused == v6

\* A complete provider of some type, or none.
Providable(p) ==
  p = Absent \/ \E type \in Tst!VpnTypes, c \in Tst!AnyCredentials, e \in BOOLEAN :
                  p = Tst!Row(type, c, e) /\ Tst!Valid(type, c)

\* The Secret of a complete provider has what its type needs, and is one.
LEMMA SecretSuffices ==
  ASSUME NEW p, Providable(p), p # Absent
  PROVE  /\ Tst!SecretData(p) # Absent
         /\ \E type \in Tst!VpnTypes :
              type \in Tst!SecretData(p) /\ Tst!Valid(type, Tst!SecretData(p))
<1>1. PICK type \in Tst!VpnTypes, c \in Tst!AnyCredentials, e \in BOOLEAN :
        p = Tst!Row(type, c, e) /\ Tst!Valid(type, c)
  BY DEF Providable
<1>2. p.type = type /\ p.credentials = c
  BY <1>1 DEF Tst!Row
<1>3. Tst!SecretData(p) = Tst!SecretData(Tst!Row(type, c, TRUE))
  BY <1>2 DEF Tst!SecretData, Tst!Row
<1>4. Tst!SecretData(p) # Absent
  BY <1>3, TstAbsentAssumption DEF Tst!AbsentAssumption
<1>5. type \in Tst!SecretData(p) /\ Tst!Valid(type, Tst!SecretData(p))
  BY <1>1, <1>2 DEF Tst!SecretData, Tst!Valid, Tst!WireguardData, Tst!OpenvpnData, Tst!FieldsOf,
    Tst!VpnTypes
<1> QED
  BY <1>4, <1>5

\* A complete provider and no test yet.
LEMMA TestsInitially == Tst!Init => Tst!TestsInv
<1> SUFFICES ASSUME Tst!Init PROVE Tst!TestsInv
  OBVIOUS
<1> USE DEF vpn, step, secretOf, podOf, answer, excused
<1>1. Providable(vpn)
  <2>1. {"private_key"} \in Tst!AnyCredentials /\ {"username", "password"} \in Tst!AnyCredentials
    BY DEF Tst!AnyCredentials, Tst!FieldsOf
  <2>2. /\ Tst!Valid("wireguard", {"private_key"}) /\ Tst!Valid("openvpn", {"username", "password"})
        /\ "wireguard" \in Tst!VpnTypes /\ "openvpn" \in Tst!VpnTypes
    BY DEF Tst!Valid, Tst!VpnTypes
  <2> QED
    BY <2>1, <2>2 DEF Tst!Init, Providable
<1>2. \A t \in Callers : step[t] = "idle" /\ secretOf[t] = Absent /\ podOf[t] = Absent
  BY DEF Tst!Init
<1> QED
  BY <1>1, <1>2 DEF Tst!Init, Tst!TestsInv, Tst!TestsAreTidy, Tst!TestsLeaveNothing,
    Tst!WaitedPodsCanStart, Providable

\* What TestsInv says of one request, with the state of that request given.
TidyTest(s, secret, pod, isExcused) ==
  /\ s \in {"idle", "secret", "pod"} => pod = Absent
  /\ s \in {"idle", "secret"} => secret = Absent
  /\ s = "drop secret" /\ ~isExcused => pod = Absent
  /\ s = "answered" /\ ~isExcused => pod = Absent /\ secret = Absent
  /\ s \in {"pod", "wait", "query"} =>
       secret # Absent /\ \E type \in Tst!VpnTypes : type \in secret /\ Tst!Valid(type, secret)

LEMMA TestByTest ==
  Tst!TestsInv <=>
    /\ Providable(vpn)
    /\ DOMAIN step = Callers /\ DOMAIN secretOf = Callers /\ DOMAIN podOf = Callers
    /\ DOMAIN answer = Callers
    /\ \A t \in Callers : TidyTest(step[t], secretOf[t], podOf[t], t \in excused)
  BY DEF Tst!TestsInv, Tst!TestsAreTidy, Tst!TestsLeaveNothing, Tst!WaitedPodsCanStart, Providable,
    TidyTest, vpn, step, secretOf, podOf, answer, excused

\* Every step of VpnTests keeps TestsInv: a step of a request changes only what is its own.
LEMMA TestsKept == Tst!TestsInv /\ [Tst!Next]_(Tst!testVars) => Tst!TestsInv'
<1> SUFFICES ASSUME Tst!TestsInv, [Tst!Next]_(Tst!testVars) PROVE Tst!TestsInv'
  OBVIOUS
<1> USE DEF vpn, step, secretOf, podOf, answer, excused
<1>1. /\ Providable(vpn)
      /\ DOMAIN step = Callers /\ DOMAIN secretOf = Callers /\ DOMAIN podOf = Callers
      /\ DOMAIN answer = Callers
      /\ \A t \in Callers : TidyTest(step[t], secretOf[t], podOf[t], t \in excused)
  BY TestByTest
<1>a. ASSUME Providable(vpn'),
             DOMAIN step' = Callers, DOMAIN secretOf' = Callers, DOMAIN podOf' = Callers,
             DOMAIN answer' = Callers,
             \A t \in Callers : TidyTest(step'[t], secretOf'[t], podOf'[t], t \in excused')
      PROVE  Tst!TestsInv'
  BY <1>a DEF Tst!TestsInv, Tst!TestsAreTidy, Tst!TestsLeaveNothing, Tst!WaitedPodsCanStart,
    Providable, TidyTest
<1>2. ASSUME Providable(vpn'), UNCHANGED <<step, secretOf, podOf, answer, excused>>
      PROVE  Tst!TestsInv'
  BY <1>1, <1>2, <1>a
<1> DEFINE OnlyIn(t) ==
      /\ UNCHANGED vpn
      /\ DOMAIN step' = Callers /\ DOMAIN secretOf' = Callers /\ DOMAIN podOf' = Callers
      /\ DOMAIN answer' = Callers
      /\ \A u \in Callers \ {t} :
           /\ step'[u] = step[u] /\ secretOf'[u] = secretOf[u] /\ podOf'[u] = podOf[u]
           /\ u \in excused' <=> u \in excused
<1>3. ASSUME NEW t \in Callers, OnlyIn(t), TidyTest(step'[t], secretOf'[t], podOf'[t], t \in excused')
      PROVE  Tst!TestsInv'
  <2>1. ASSUME NEW u \in Callers, u # t
        PROVE  TidyTest(step'[u], secretOf'[u], podOf'[u], u \in excused')
    <3>1. /\ step'[u] = step[u] /\ secretOf'[u] = secretOf[u] /\ podOf'[u] = podOf[u]
          /\ u \in excused' <=> u \in excused
      BY <1>3, <2>1
    <3>2. TidyTest(step[u], secretOf[u], podOf[u], u \in excused)
      BY <1>1
    <3> QED
      BY <3>1, <3>2 DEF TidyTest
  <2>2. \A u \in Callers : TidyTest(step'[u], secretOf'[u], podOf'[u], u \in excused')
    BY <1>3, <2>1
  <2> QED
    BY <1>1, <1>3, <1>a, <2>2
<1>5. ASSUME NEW type \in Tst!VpnTypes, NEW c \in Tst!AnyCredentials, Tst!CreateProvider(type, c)
      PROVE  Tst!TestsInv'
  BY <1>2, <1>5 DEF Tst!CreateProvider, Tst!made, Providable
<1>6. ASSUME NEW c \in Tst!AnyCredentials, NEW e \in BOOLEAN, Tst!UpdateProvider(c, e)
      PROVE  Tst!TestsInv'
  <2>1. PICK type \in Tst!VpnTypes : vpn.type = type
    BY <1>1, <1>6 DEF Tst!UpdateProvider, Providable, Tst!Row
  <2>2. vpn' = Tst!Row(type, c, e) /\ Tst!Valid(type, c)
    BY <1>6, <2>1 DEF Tst!UpdateProvider
  <2> QED
    BY <1>2, <1>6, <2>2 DEF Tst!UpdateProvider, Tst!made, Providable
<1>7. CASE Tst!DeleteProvider
  BY <1>2, <1>7 DEF Tst!DeleteProvider, Tst!made, Providable
<1>8. ASSUME NEW t \in Callers, Tst!Begin(t) PROVE Tst!TestsInv'
  <2>1. OnlyIn(t)
    BY <1>1, <1>8 DEF Tst!Begin, Tst!Go, Tst!Fail, Tst!Result, Tst!made
  <2>2. step'[t] \in {"secret", "answered"} /\ UNCHANGED <<secretOf, podOf>>
    BY <1>1, <1>8 DEF Tst!Begin, Tst!Go, Tst!Fail, Tst!Result, Tst!made
  <2>3. secretOf[t] = Absent /\ podOf[t] = Absent
    BY <1>1, <1>8 DEF Tst!Begin, TidyTest
  <2> QED
    BY <1>3, <2>1, <2>2, <2>3 DEF TidyTest
<1>9. ASSUME NEW t \in Callers, Tst!CreateSecret(t) PROVE Tst!TestsInv'
  <2>1. OnlyIn(t)
    <3>1. /\ DOMAIN step' = Callers /\ (\A u \in Callers \ {t} : step'[u] = step[u])
          /\ DOMAIN answer' = Callers
      BY <1>1, <1>9 DEF Tst!CreateSecret, Tst!Go, Tst!Fail, Tst!Result
    <3>2. /\ DOMAIN secretOf' = Callers /\ (\A u \in Callers \ {t} : secretOf'[u] = secretOf[u])
          /\ UNCHANGED <<vpn, podOf>>
      BY <1>1, <1>9 DEF Tst!CreateSecret
    <3>3. \A u \in Callers \ {t} : u \in excused' <=> u \in excused
      BY <1>9 DEF Tst!CreateSecret, Tst!Excuse
    <3> QED
      BY <1>1, <3>1, <3>2, <3>3
  <2>2. /\ step'[t] = "pod" \/ (step'[t] = "answered" /\ t \in excused')
        /\ secretOf'[t] = Tst!SecretData(vpn) /\ vpn # Absent /\ UNCHANGED podOf
    <3>1. \/ step' = [step EXCEPT ![t] = "pod"]
          \/ step' = [step EXCEPT ![t] = "answered"] /\ excused' = excused \cup {t}
      BY <1>9 DEF Tst!CreateSecret, Tst!Go, Tst!Fail, Tst!Excuse
    <3>2. secretOf' = [secretOf EXCEPT ![t] = Tst!SecretData(vpn)] /\ vpn # Absent /\ UNCHANGED podOf
      BY <1>9 DEF Tst!CreateSecret
    <3> QED
      BY <1>1, <1>9, <3>1, <3>2
  <2>3. podOf[t] = Absent
    BY <1>1, <1>9 DEF Tst!CreateSecret, TidyTest
  <2>4. /\ secretOf'[t] # Absent
        /\ \E type \in Tst!VpnTypes : type \in secretOf'[t] /\ Tst!Valid(type, secretOf'[t])
    BY <1>1, <2>2, SecretSuffices
  <2> QED
    BY <1>3, <2>1, <2>2, <2>3, <2>4 DEF TidyTest
<1>10. ASSUME NEW t \in Callers, Tst!RefuseSecret(t) PROVE Tst!TestsInv'
  <2>1. OnlyIn(t)
    BY <1>1, <1>10 DEF Tst!RefuseSecret, Tst!Go, Tst!Fail, Tst!Result, Tst!made
  <2>2. step'[t] = "answered" /\ UNCHANGED <<secretOf, podOf>>
    BY <1>1, <1>10 DEF Tst!RefuseSecret, Tst!Go, Tst!Fail, Tst!Result, Tst!made
  <2>3. secretOf[t] = Absent /\ podOf[t] = Absent
    BY <1>1, <1>10 DEF Tst!RefuseSecret, TidyTest
  <2> QED
    BY <1>3, <2>1, <2>2, <2>3 DEF TidyTest
<1>11. ASSUME NEW t \in Callers, Tst!CreatePod(t) \/ Tst!RefusePod(t) PROVE Tst!TestsInv'
  <2>1. OnlyIn(t)
    <3>1. /\ DOMAIN step' = Callers /\ (\A u \in Callers \ {t} : step'[u] = step[u])
          /\ DOMAIN answer' = Callers
      BY <1>1, <1>11 DEF Tst!CreatePod, Tst!RefusePod, Tst!Go, Tst!Fail, Tst!Result
    <3>2. /\ DOMAIN podOf' = Callers /\ (\A u \in Callers \ {t} : podOf'[u] = podOf[u])
          /\ UNCHANGED <<vpn, secretOf>>
      BY <1>1, <1>11 DEF Tst!CreatePod, Tst!RefusePod, Tst!made
    <3>3. \A u \in Callers \ {t} : u \in excused' <=> u \in excused
      BY <1>11 DEF Tst!CreatePod, Tst!RefusePod, Tst!Excuse
    <3> QED
      BY <1>1, <3>1, <3>2, <3>3
  <2>2. /\ \/ step'[t] = "wait"
           \/ step'[t] = "drop secret" /\ t \in excused'
           \/ step'[t] = "drop secret" /\ UNCHANGED podOf
        /\ UNCHANGED secretOf
    <3>1. \/ step' = [step EXCEPT ![t] = "wait"]
          \/ step' = [step EXCEPT ![t] = "drop secret"] /\ excused' = excused \cup {t}
          \/ step' = [step EXCEPT ![t] = "drop secret"] /\ UNCHANGED podOf
      BY <1>11 DEF Tst!CreatePod, Tst!RefusePod, Tst!Go, Tst!Fail, Tst!Excuse, Tst!made
    <3>2. UNCHANGED secretOf
      BY <1>11 DEF Tst!CreatePod, Tst!RefusePod, Tst!made
    <3> QED
      BY <1>1, <1>11, <3>1, <3>2
  <2>3. TidyTest("pod", secretOf[t], podOf[t], t \in excused)
    BY <1>1, <1>11 DEF Tst!CreatePod, Tst!RefusePod
  <2> QED
    BY <1>3, <2>1, <2>2, <2>3 DEF TidyTest
<1>12. ASSUME NEW t \in Callers, NEW phase, Tst!PodRuns(t, phase) PROVE Tst!TestsInv'
  <2>1. OnlyIn(t)
    BY <1>1, <1>12 DEF Tst!PodRuns
  <2>2. podOf[t] # Absent /\ UNCHANGED <<step, secretOf, excused>>
    BY <1>12, TstAbsentAssumption DEF Tst!PodRuns, Tst!AbsentAssumption
  <2>3. TidyTest(step[t], secretOf[t], podOf[t], t \in excused)
    BY <1>1
  <2> QED
    BY <1>3, <2>1, <2>2, <2>3 DEF TidyTest
<1>13. ASSUME NEW t \in Callers, Tst!WaitForPod(t) \/ Tst!QueryPublicIp(t) PROVE Tst!TestsInv'
  <2>1. OnlyIn(t)
    BY <1>1, <1>13 DEF Tst!WaitForPod, Tst!QueryPublicIp, Tst!Go, Tst!Fail, Tst!Result, Tst!made
  <2>2. step[t] \in {"wait", "query"} /\ step'[t] \in {"query", "drop pod"} /\ UNCHANGED <<secretOf, podOf>>
    BY <1>1, <1>13 DEF Tst!WaitForPod, Tst!QueryPublicIp, Tst!Go, Tst!Fail, Tst!Result, Tst!made
  <2>3. TidyTest(step[t], secretOf[t], podOf[t], t \in excused)
    BY <1>1
  <2> QED
    BY <1>3, <2>1, <2>2, <2>3 DEF TidyTest
<1>14. ASSUME NEW t \in Callers, Tst!DropPod(t) PROVE Tst!TestsInv'
  <2>1. OnlyIn(t)
    BY <1>1, <1>14 DEF Tst!DropPod, Tst!Go, Tst!Excuse
  <2>2. step'[t] = "drop secret" /\ (podOf'[t] = Absent \/ t \in excused')
    BY <1>1, <1>14 DEF Tst!DropPod, Tst!Go, Tst!Excuse
  <2> QED
    BY <1>3, <2>1, <2>2 DEF TidyTest
<1>15. ASSUME NEW t \in Callers, Tst!DropSecret(t) PROVE Tst!TestsInv'
  <2>1. OnlyIn(t)
    BY <1>1, <1>15 DEF Tst!DropSecret, Tst!Go, Tst!Excuse
  <2>2. /\ step'[t] = "answered" /\ UNCHANGED podOf
        /\ (secretOf'[t] = Absent /\ UNCHANGED excused) \/ t \in excused'
    BY <1>1, <1>15 DEF Tst!DropSecret, Tst!Go, Tst!Excuse
  <2>3. t \notin excused => podOf[t] = Absent
    BY <1>1, <1>15 DEF Tst!DropSecret, TidyTest
  <2> QED
    BY <1>3, <2>1, <2>2, <2>3 DEF TidyTest
<1>16. ASSUME NEW t \in Callers, Tst!Interrupt(t) PROVE Tst!TestsInv'
  <2>1. OnlyIn(t)
    BY <1>1, <1>16 DEF Tst!Interrupt, Tst!Go, Tst!Result, Tst!made
  <2>2. step'[t] = "gone"
    BY <1>1, <1>16 DEF Tst!Interrupt, Tst!Go
  <2> QED
    BY <1>3, <2>1, <2>2 DEF TidyTest
<1>17. CASE UNCHANGED Tst!testVars
  BY <1>1, <1>2, <1>17 DEF Tst!testVars
<1> QED
  BY <1>5, <1>6, <1>7, <1>8, <1>9, <1>10, <1>11, <1>12, <1>13, <1>14, <1>15, <1>16, <1>17
  DEF Tst!Next

-----------------------------------------------------------------------------
(* StorageValidation; `met` is its ghost `excused`.                        *)

asked == v1
volumes == v3
claims == v4
files == v5
up == v6
node == v7
verdict == v9
met == v10

\* No validation has begun, and no volume or file is there.
LEMMA ValidationInitially == Val!Init => Val!ValidationInv
<1> SUFFICES ASSUME Val!Init PROVE Val!ValidationInv
  OBVIOUS
<1> USE DEF asked, step, volumes, claims, files, up, node, verdict, met
<1>1. /\ asked \in [Validations -> Val!Exports] /\ step = [v \in Validations |-> "idle"]
      /\ volumes = [v \in Validations |-> [s \in Val!Sides |-> Nobody]]
      /\ files = [e \in Val!Exports |-> Val!Empty]
      /\ up = Servers /\ node \in Machines /\ verdict = [v \in Validations |-> "none"]
      /\ met = {}
  BY DEF Val!Init
<1>2. Nobody \notin Validations
  BY ValServersAssumption DEF Val!ServersAssumption
<1>3. /\ step \in [Validations -> Val!Steps] /\ files \in [Val!Exports -> Val!Files]
      /\ volumes \in [Validations -> [Val!Sides -> Servers \cup Machines \cup {Nobody}]]
      /\ verdict \in [Validations -> {"none", "passed", "failed"}]
  BY <1>1 DEF Val!Steps, Val!Files, Val!Empty
<1>4. \A e \in Val!Exports : files[e].shared = Nobody /\ files[e].renamed = Nobody
  BY <1>1 DEF Val!Empty
<1>5. Val!ExportsApart
  BY <1>1, <1>2, <1>4 DEF Val!ExportsApart
<1>6. Val!Undisturbed
  BY <1>1, <1>2, <1>4 DEF Val!Undisturbed, Val!Running, Val!Working
<1>7. Val!CleanedUp
  BY <1>1 DEF Val!CleanedUp
<1> QED
  BY <1>1, <1>3, <1>5, <1>6, <1>7 DEF Val!ValidationInv

\* The export that the Pod of a step has mounted is the one asked for, or none; an
\* undisturbed validation's is there.
LEMMA MountsWhatIsAsked ==
  ASSUME Val!ValidationInv, NEW v \in Validations
  PROVE  /\ Val!Mounted(v) \in {asked[v], Nobody}
         /\ Val!Mounted(v) # Nobody => asked[v] \in up \cup {"managed"}
         /\ v \notin met /\ step[v] \in Val!Working /\ asked[v] \in up \cup {"managed"} =>
              Val!Mounted(v) # Nobody
<1> USE DEF asked, step, volumes, claims, files, up, node, verdict, met
<1>1. PICK s \in Val!Sides : s = IF step[v] = "read" THEN "b" ELSE "a"
  BY DEF Val!Sides
<1>2. Val!Mounted(v) = Val!Export(volumes[v][s])
  BY <1>1 DEF Val!Mounted
<1>3. volumes[v][s] \in Val!Addresses(v) \cup {Nobody}
  BY DEF Val!ValidationInv, Val!ExportsApart
<1>4. asked[v] \in Servers \cup {"managed"} /\ up \subseteq Servers /\ node \in Machines
  BY DEF Val!ValidationInv, Val!Exports
<1>5. /\ Servers \cap (Machines \cup {"managed", Nobody}) = {}
      /\ Nobody \notin Machines \cup Validations \cup {"managed"}
  BY ValServersAssumption DEF Val!ServersAssumption
<1>6. Val!Export(Nobody) = Nobody
  BY <1>4, <1>5 DEF Val!Export
<1>7. CASE asked[v] = "managed"
  <2>1. volumes[v][s] \in Machines \cup {Nobody}
    BY <1>3, <1>7 DEF Val!Addresses
  <2>2. \A m \in Machines : Val!Export(m) = IF m = node THEN "managed" ELSE Nobody
    BY <1>4, <1>5 DEF Val!Export
  <2>3. v \notin met /\ step[v] \in Val!Working => volumes[v][s] = node
    BY <1>1, <1>7 DEF Val!ValidationInv, Val!Undisturbed, Val!Address, Val!Working
  <2> QED
    BY <1>2, <1>4, <1>5, <1>6, <1>7, <2>1, <2>2, <2>3
<1>8. CASE asked[v] # "managed"
  <2>1. volumes[v][s] \in {asked[v], Nobody}
    BY <1>3, <1>8 DEF Val!Addresses
  <2>2. Val!Export(asked[v]) = IF asked[v] \in up THEN asked[v] ELSE Nobody
    BY <1>4, <1>5, <1>8 DEF Val!Export
  <2>3. v \notin met /\ step[v] \in Val!Working => volumes[v][s] = asked[v]
    BY <1>1, <1>8 DEF Val!ValidationInv, Val!Undisturbed, Val!Address, Val!Working
  <2> QED
    BY <1>2, <1>4, <1>5, <1>6, <1>8, <2>1, <2>2, <2>3
<1> QED
  BY <1>7, <1>8

\* Every step of StorageValidation keeps ValidationInv: only a validation that runs touches
\* its export, and an undisturbed one is alone with it.
LEMMA ValidationKept ==
  Val!ValidationInv /\ [Val!Next]_(Val!validationVars) => Val!ValidationInv'
<1> SUFFICES ASSUME Val!ValidationInv, [Val!Next]_(Val!validationVars) PROVE Val!ValidationInv'
  OBVIOUS
<1> USE DEF asked, step, volumes, claims, files, up, node, verdict, met
<1>1. /\ asked \in [Validations -> Val!Exports] /\ step \in [Validations -> Val!Steps]
      /\ volumes \in [Validations -> [Val!Sides -> Servers \cup Machines \cup {Nobody}]]
      /\ files \in [Val!Exports -> Val!Files]
      /\ verdict \in [Validations -> {"none", "passed", "failed"}]
      /\ up \subseteq Servers /\ node \in Machines
  BY DEF Val!ValidationInv
<1>2. Val!ExportsApart /\ Val!Undisturbed /\ Val!CleanedUp
  BY DEF Val!ValidationInv
<1>3. \A v \in Validations \ met : verdict[v] = "failed" => asked[v] \notin up \cup {"managed"}
  BY DEF Val!ValidationInv
<1>4. Nobody \notin Validations
  BY ValServersAssumption DEF Val!ServersAssumption
<1>5. \A v \in Validations : asked[v] \in Val!Exports /\ (asked[v] # "managed" => asked[v] \in Servers)
  BY <1>1 DEF Val!Exports

\* A validation that was disturbed, or whose server never answered, fails.
<1>6. ASSUME NEW v \in Validations, Val!Running(v), Val!Refused(v),
             UNCHANGED <<asked, volumes, claims, up, node>>,
             met' = met \/ met' = met \cup {v},
             v \in met' \/ (step[v] = "mkdir" /\ asked[v] \notin up \cup {"managed"})
      PROVE  Val!ValidationInv'
  <2>1. /\ step' = [step EXCEPT ![v] = "clean_a"] /\ verdict' = [verdict EXCEPT ![v] = "failed"]
        /\ UNCHANGED files
    BY <1>6 DEF Val!Refused, Val!To
  <2>2. /\ step' \in [Validations -> Val!Steps]
        /\ verdict' \in [Validations -> {"none", "passed", "failed"}]
    BY <1>1, <2>1 DEF Val!Steps
  <2>3. Val!ExportsApart'
    BY <1>2, <1>6, <2>1 DEF Val!ExportsApart, Val!Addresses
  <2>4. Val!Undisturbed'
    <3>1. step'[v] = "clean_a" /\ \A u \in Validations \ {v} : step'[u] = step[u]
      BY <1>1, <2>1
    <3>2. \A u \in Validations : Val!Running(u)' => Val!Running(u)
      BY <3>1 DEF Val!Running
    <3>3. v \notin met' => step[v] = "mkdir"
      BY <1>6
    <3>4. v \notin met' => files[asked[v]].shared # v /\ files[asked[v]].renamed # v
      BY <1>2, <1>6, <3>3 DEF Val!Undisturbed
    <3>5. ASSUME NEW u \in Validations \ met'
          PROVE  /\ \A w \in Validations : Val!Running(u) /\ Val!Running(w) /\ asked[w] = asked[u] => w = u
                 /\ step'[u] \in Val!Working \cup {"claim_b"} => volumes[u]["a"] = Val!Address(u)
                 /\ step'[u] \in Val!Working => volumes[u]["b"] = Val!Address(u)
                 /\ step'[u] \in Val!Working \ {"mkdir"} => asked[u] \in up \cup {"managed"}
                 /\ step'[u] = "write" => files[asked[u]].dir
                 /\ files[asked[u]].shared = u <=> step'[u] \in {"move", "read"}
                 /\ files[asked[u]].renamed = u <=> step'[u] = "leave"
      <4>1. u \in Validations \ met
        BY <1>6, <3>5
      <4>2. CASE u = v
        BY <1>2, <3>1, <3>4, <4>1, <4>2 DEF Val!Undisturbed, Val!Working
      <4>3. CASE u # v
        BY <1>2, <3>1, <4>1, <4>3 DEF Val!Undisturbed
      <4> QED
        BY <4>2, <4>3
    <3> QED
      BY <1>6, <2>1, <3>2, <3>5 DEF Val!Undisturbed, Val!Address
  <2>5. Val!CleanedUp'
    BY <1>1, <1>2, <1>6, <2>1 DEF Val!CleanedUp
  <2>6. \A u \in Validations \ met' : verdict'[u] = "failed" => asked'[u] \notin up' \cup {"managed"}
    BY <1>1, <1>3, <1>6, <2>1
  <2> QED
    BY <1>1, <1>6, <2>1, <2>2, <2>3, <2>4, <2>5, <2>6 DEF Val!ValidationInv

\* A validation that is at work leaves f on its export.
<1>7. ASSUME NEW v \in Validations, step[v] \in Val!Working, NEW f \in Val!Files, NEW s \in Val!Steps,
             files' = [files EXCEPT ![asked[v]] = f], step' = [step EXCEPT ![v] = s],
             UNCHANGED <<asked, volumes, claims, up, node, met>>,
             verdict' = verdict \/ verdict' = [verdict EXCEPT ![v] = "passed"],
             s \in Val!Working \cup {"clean_a"},
             f.shared \in {v, Nobody, files[asked[v]].shared},
             f.renamed \in {v, Nobody, files[asked[v]].renamed},
             v \notin met =>
               /\ s \in Val!Working \ {"mkdir"} => asked[v] \in up \cup {"managed"}
               /\ s = "write" => f.dir
               /\ f.shared = v <=> s \in {"move", "read"}
               /\ f.renamed = v <=> s = "leave"
      PROVE  Val!ValidationInv'
  <2>1. /\ step' \in [Validations -> Val!Steps] /\ files' \in [Val!Exports -> Val!Files]
        /\ verdict' \in [Validations -> {"none", "passed", "failed"}]
    BY <1>1, <1>7
  <2>2. files'[asked[v]] = f /\ \A e \in Val!Exports \ {asked[v]} : files'[e] = files[e]
    BY <1>1, <1>5, <1>7
  <2>3. step'[v] = s /\ \A u \in Validations \ {v} : step'[u] = step[u]
    BY <1>1, <1>7
  <2>4. Val!ExportsApart'
    <3>1. ASSUME NEW u \in Validations, NEW e \in Val!Exports,
                 u \in {files'[e].shared, files'[e].renamed}
          PROVE  e = asked[u]
      <4>1. CASE e = asked[v]
        <5>1. u \in {v, Nobody, files[e].shared, files[e].renamed}
          BY <1>7, <2>2, <3>1, <4>1
        <5> QED
          BY <1>2, <1>4, <4>1, <5>1 DEF Val!ExportsApart
      <4>2. CASE e # asked[v]
        BY <1>2, <2>2, <3>1, <4>2 DEF Val!ExportsApart
      <4> QED
        BY <4>1, <4>2
    <3> QED
      BY <1>2, <1>7, <3>1 DEF Val!ExportsApart, Val!Addresses
  <2>5. \A u \in Validations : Val!Running(u)' => Val!Running(u)
    BY <1>7, <2>3 DEF Val!Running, Val!Working
  <2>6. ASSUME NEW u \in Validations \ met, u # v, asked[u] = asked[v]
        PROVE  /\ ~Val!Running(u) /\ files'[asked[u]].shared # u /\ files'[asked[u]].renamed # u
               /\ step[u] \notin {"move", "read", "leave", "write"}
    <3>1. Val!Running(v)
      BY <1>7 DEF Val!Running, Val!Working
    <3>2. ~Val!Running(u)
      BY <1>2, <2>6, <3>1 DEF Val!Undisturbed
    <3>3. step[u] \notin {"move", "read", "leave", "write"}
      BY <3>2 DEF Val!Running
    <3>4. files[asked[u]].shared # u /\ files[asked[u]].renamed # u
      BY <1>2, <2>6, <3>3 DEF Val!Undisturbed
    <3> QED
      BY <1>4, <1>7, <2>2, <2>6, <3>2, <3>3, <3>4
  <2>7. ASSUME NEW u \in Validations \ met
        PROVE  /\ step'[u] = "write" => files'[asked[u]].dir
               /\ files'[asked[u]].shared = u <=> step'[u] \in {"move", "read"}
               /\ files'[asked[u]].renamed = u <=> step'[u] = "leave"
    <3>1. CASE u = v
      BY <1>7, <2>2, <2>3, <3>1
    <3>2. CASE u # v /\ asked[u] = asked[v]
      BY <2>3, <2>6, <3>2
    <3>3. CASE u # v /\ asked[u] # asked[v]
      <4>1. files'[asked[u]] = files[asked[u]] /\ step'[u] = step[u]
        BY <1>5, <2>2, <2>3, <3>3
      <4> QED
        BY <1>2, <4>1 DEF Val!Undisturbed
    <3> QED
      BY <3>1, <3>2, <3>3
  <2>8. Val!Undisturbed'
    <3>1. ASSUME NEW u \in Validations \ met
          PROVE  /\ \A w \in Validations : Val!Running(u) /\ Val!Running(w) /\ asked[w] = asked[u] => w = u
                 /\ step'[u] \in Val!Working \cup {"claim_b"} => volumes[u]["a"] = Val!Address(u)
                 /\ step'[u] \in Val!Working => volumes[u]["b"] = Val!Address(u)
                 /\ step'[u] \in Val!Working \ {"mkdir"} => asked[u] \in up \cup {"managed"}
      <4>1. \A w \in Validations : Val!Running(u) /\ Val!Running(w) /\ asked[w] = asked[u] => w = u
        BY <1>2 DEF Val!Undisturbed
      <4>2. CASE u = v
        BY <1>2, <1>7, <2>3, <4>1, <4>2 DEF Val!Undisturbed, Val!Working
      <4>3. CASE u # v
        BY <1>2, <1>7, <2>3, <4>1, <4>3 DEF Val!Undisturbed
      <4> QED
        BY <4>2, <4>3
    <3> QED
      BY <1>7, <2>5, <2>7, <3>1 DEF Val!Undisturbed, Val!Address
  <2>9. Val!CleanedUp'
    BY <1>2, <1>7, <2>3, ZenonT(60) DEF Val!CleanedUp, Val!Working
  <2>10. \A u \in Validations \ met' : verdict'[u] = "failed" => asked'[u] \notin up' \cup {"managed"}
    BY <1>1, <1>3, <1>7
  <2> QED
    BY <1>1, <1>7, <2>1, <2>4, <2>8, <2>9, <2>10 DEF Val!ValidationInv

<1>8. ASSUME NEW v \in Validations, Val!ValidateStorage(v) PROVE Val!ValidationInv'
  <2>1. /\ step[v] = "idle" /\ step' = [step EXCEPT ![v] = "claim_a"]
        /\ UNCHANGED <<asked, files, up, node, volumes, claims, verdict>>
        /\ met' = met \cup (IF Val!Crossed(v) = {} THEN {} ELSE Val!Crossed(v) \cup {v})
    BY <1>8 DEF Val!ValidateStorage, Val!To, Val!Meets, Val!world
  <2>2. /\ step' \in [Validations -> Val!Steps]
        /\ step'[v] = "claim_a" /\ \A u \in Validations \ {v} : step'[u] = step[u]
    BY <1>1, <2>1 DEF Val!Steps
  <2>3. met \subseteq met' /\ \A u \in Validations \ {v} : Val!Running(u)' => Val!Running(u)
    BY <2>1, <2>2 DEF Val!Running
  <2>4. ASSUME v \notin met' \/ \E u \in Validations \ (met' \cup {v}) : Val!Running(u) /\ asked[u] = asked[v]
        PROVE  \A w \in Validations \ {v} : ~(Val!Running(w) /\ asked[w] = asked[v])
    <3>1. \A w \in Validations \ {v} : Val!Running(w) /\ asked[w] = asked[v] => w \in Val!Crossed(v)
      BY DEF Val!Crossed
    <3>2. Val!Crossed(v) # {} => Val!Crossed(v) \cup {v} \subseteq met'
      BY <2>1
    <3> QED
      BY <2>4, <3>1, <3>2
  <2>5. ASSUME NEW u \in Validations \ met'
        PROVE  /\ \A w \in Validations : Val!Running(u)' /\ Val!Running(w)' /\ asked[w] = asked[u] => w = u
               /\ step'[u] \in Val!Working \cup {"claim_b"} => volumes[u]["a"] = Val!Address(u)
               /\ step'[u] \in Val!Working => volumes[u]["b"] = Val!Address(u)
               /\ step'[u] \in Val!Working \ {"mkdir"} => asked[u] \in up \cup {"managed"}
               /\ step'[u] = "write" => files[asked[u]].dir
               /\ files[asked[u]].shared = u <=> step'[u] \in {"move", "read"}
               /\ files[asked[u]].renamed = u <=> step'[u] = "leave"
    <3>1. u \in Validations \ met
      BY <2>3, <2>5
    <3>2. CASE u = v
      <4>1. \A w \in Validations : Val!Running(w)' /\ asked[w] = asked[u] => w = u
        BY <2>3, <2>4, <2>5, <3>2
      <4> QED
        BY <1>2, <2>1, <2>2, <3>1, <3>2, <4>1 DEF Val!Undisturbed, Val!Working
    <3>3. CASE u # v
      <4>1. \A w \in Validations : Val!Running(u)' /\ Val!Running(w)' /\ asked[w] = asked[u] => w = u
        BY <1>2, <2>3, <2>4, <2>5, <3>1, <3>3 DEF Val!Undisturbed
      <4> QED
        BY <1>2, <2>2, <3>1, <3>3, <4>1 DEF Val!Undisturbed
    <3> QED
      BY <3>2, <3>3
  <2>6. Val!Undisturbed'
    BY <2>1, <2>5 DEF Val!Undisturbed, Val!Address
  <2>7. Val!ExportsApart'
    BY <1>2, <2>1 DEF Val!ExportsApart, Val!Addresses
  <2>8. Val!CleanedUp'
    BY <1>2, <2>1, <2>2, <2>3 DEF Val!CleanedUp
  <2>9. \A u \in Validations \ met' : verdict'[u] = "failed" => asked'[u] \notin up' \cup {"managed"}
    BY <1>3, <2>1, <2>3
  <2> QED
    BY <1>1, <2>1, <2>2, <2>6, <2>7, <2>8, <2>9 DEF Val!ValidationInv

\* A claim is made with the address of this moment, or deleted.
<1>9. ASSUME NEW v \in Validations, NEW side \in Val!Sides, NEW address, NEW next \in Val!Steps,
             address = Nobody \/ address = Val!Address(v),
             step[v] \notin Val!Working,
             volumes' = [volumes EXCEPT ![v][side] = address], step' = [step EXCEPT ![v] = next],
             UNCHANGED <<asked, files, up, node, verdict, met>>,
             next \in {"mkdir", "claim_b"} => Val!Running(v),
             next \notin Val!Working \ {"mkdir"},
             next = "claim_b" => side = "a" /\ address = Val!Address(v),
             next = "mkdir" => side = "b" /\ step[v] = "claim_b" /\ address = Val!Address(v),
             next # "claim_a",
             Val!CleanedUp'
      PROVE  Val!ValidationInv'
  <2>1. Val!Address(v) \in Val!Addresses(v) /\ Val!Address(v) \in Servers \cup Machines
    BY <1>1, <1>5 DEF Val!Address, Val!Addresses
  <2>2. /\ step' \in [Validations -> Val!Steps]
        /\ step'[v] = next /\ \A u \in Validations \ {v} : step'[u] = step[u]
    BY <1>1, <1>9
  <2>3. /\ volumes' \in [Validations -> [Val!Sides -> Servers \cup Machines \cup {Nobody}]]
        /\ volumes'[v][side] = address
        /\ \A s \in Val!Sides \ {side} : volumes'[v][s] = volumes[v][s]
        /\ \A u \in Validations \ {v} : volumes'[u] = volumes[u]
    BY <1>1, <1>9, <2>1
  <2>4. \A u \in Validations : Val!Running(u)' => Val!Running(u)
    BY <1>9, <2>2 DEF Val!Running, Val!Steps, Val!Working
  <2>5. Val!ExportsApart'
    <3>1. \A u \in Validations, s \in Val!Sides : volumes'[u][s] \in Val!Addresses(u) \cup {Nobody}
      BY <1>2, <1>9, <2>1, <2>3 DEF Val!ExportsApart
    <3> QED
      BY <1>2, <1>9, <3>1 DEF Val!ExportsApart, Val!Addresses
  <2>6. ASSUME NEW u \in Validations \ met
        PROVE  /\ \A w \in Validations : Val!Running(u)' /\ Val!Running(w)' /\ asked[w] = asked[u] => w = u
               /\ step'[u] \in Val!Working \cup {"claim_b"} => volumes'[u]["a"] = Val!Address(u)
               /\ step'[u] \in Val!Working => volumes'[u]["b"] = Val!Address(u)
               /\ step'[u] \in Val!Working \ {"mkdir"} => asked[u] \in up \cup {"managed"}
               /\ step'[u] = "write" => files[asked[u]].dir
               /\ files[asked[u]].shared = u <=> step'[u] \in {"move", "read"}
               /\ files[asked[u]].renamed = u <=> step'[u] = "leave"
    <3>1. \A w \in Validations : Val!Running(u)' /\ Val!Running(w)' /\ asked[w] = asked[u] => w = u
      BY <1>2, <2>4 DEF Val!Undisturbed
    <3>2. CASE u = v
      <4>1. step'[u] \in Val!Working \cup {"claim_b"} => volumes'[u]["a"] = Val!Address(u)
        BY <1>2, <1>9, <2>2, <2>3, <3>2 DEF Val!Undisturbed, Val!Sides
      <4>2. step'[u] \in Val!Working => volumes'[u]["b"] = Val!Address(u)
        BY <1>9, <2>2, <2>3, <3>2
      <4>3. /\ step'[u] \notin Val!Working \ {"mkdir"}
            /\ files[asked[u]].shared # u /\ files[asked[u]].renamed # u
        BY <1>2, <1>9, <2>2, <3>2 DEF Val!Undisturbed, Val!Working
      <4> QED
        BY <3>1, <4>1, <4>2, <4>3 DEF Val!Working
    <3>3. CASE u # v
      BY <1>2, <2>2, <2>3, <3>1, <3>3 DEF Val!Undisturbed
    <3> QED
      BY <3>2, <3>3
  <2>7. Val!Undisturbed'
    BY <1>9, <2>6 DEF Val!Undisturbed, Val!Address
  <2> QED
    BY <1>1, <1>3, <1>9, <2>2, <2>3, <2>5, <2>7 DEF Val!ValidationInv

<1>10. ASSUME NEW v \in Validations, NEW side \in Val!Sides, NEW at, NEW next,
              Val!EnsureClaim(v, side, at, next),
              \/ side = "a" /\ at = "claim_a" /\ next = "claim_b"
              \/ side = "b" /\ at = "claim_b" /\ next = "mkdir"
       PROVE  Val!ValidationInv'
  <2>1. /\ step[v] = at /\ step' = [step EXCEPT ![v] = next]
        /\ volumes' = [volumes EXCEPT ![v][side] = Val!Address(v)]
        /\ claims' = claims \cup {<<v, side>>}
        /\ UNCHANGED <<asked, files, up, node, verdict, met>>
    BY <1>10 DEF Val!EnsureClaim, Val!To, Val!Address, Val!world
  <2>2. step[v] \notin Val!Working /\ Val!Running(v) /\ next \in Val!Steps
    BY <1>10, <2>1 DEF Val!Working, Val!Running, Val!Steps
  <2>3. step'[v] = next /\ \A u \in Validations \ {v} : step'[u] = step[u] /\ volumes'[u] = volumes[u]
    BY <1>1, <2>1
  <2>4. Val!CleanedUp'
    BY <1>2, <1>10, <2>1, <2>3 DEF Val!CleanedUp
  <2> QED
    BY <1>9, <1>10, <2>1, <2>2, <2>4 DEF Val!Working
<1>11. ASSUME NEW v \in Validations, NEW side \in Val!Sides, NEW at, NEW next,
              Val!CleanUp(v, side, at, next),
              \/ side = "a" /\ at = "clean_a" /\ next = "clean_b"
              \/ side = "b" /\ at = "clean_b" /\ next = "done"
       PROVE  Val!ValidationInv'
  <2>1. /\ step[v] = at /\ step' = [step EXCEPT ![v] = next]
        /\ UNCHANGED <<asked, files, up, node, verdict>>
    BY <1>11 DEF Val!CleanUp, Val!To
  <2>2. step[v] \notin Val!Working /\ next \in Val!Steps
    BY <1>11, <2>1 DEF Val!Working, Val!Steps
  <2>3. step'[v] = next /\ \A u \in Validations \ {v} : step'[u] = step[u]
    BY <1>1, <2>1
  <2>4. CASE /\ claims' = claims \ {<<v, side>>} /\ UNCHANGED met
             /\ volumes' = [volumes EXCEPT ![v][side] = Nobody]
    <3>1. /\ volumes'[v][side] = Nobody /\ \A u \in Validations \ {v} : volumes'[u] = volumes[u]
          /\ \A s \in Val!Sides \ {side} : volumes'[v][s] = volumes[v][s]
      BY <1>1, <1>11, <2>4
    <3>2. Val!CleanedUp'
      <4>1. ASSUME NEW u \in Validations \ met, u # v
            PROVE  /\ step'[u] \in {"clean_b", "done"} => <<u, "a">> \notin claims' /\ volumes'[u]["a"] = Nobody
                   /\ step'[u] = "done" => <<u, "b">> \notin claims' /\ volumes'[u]["b"] = Nobody
        BY <1>2, <2>3, <2>4, <3>1, <4>1 DEF Val!CleanedUp
      <4>2. CASE side = "a"
        <5>1. step'[v] = "clean_b" /\ <<v, "a">> \notin claims' /\ volumes'[v]["a"] = Nobody
          BY <1>11, <2>3, <2>4, <3>1, <4>2
        <5> QED
          BY <2>4, <4>1, <5>1 DEF Val!CleanedUp
      <4>3. CASE side = "b"
        <5>1. <<v, "b">> \notin claims' /\ volumes'[v]["b"] = Nobody /\ step[v] = "clean_b"
          BY <1>11, <2>1, <2>4, <3>1, <4>3
        <5>2. v \notin met => <<v, "a">> \notin claims' /\ volumes'[v]["a"] = Nobody
          BY <1>2, <2>4, <3>1, <4>3, <5>1 DEF Val!CleanedUp, Val!Sides
        <5> QED
          BY <2>4, <4>1, <5>1, <5>2 DEF Val!CleanedUp
      <4> QED
        BY <4>2, <4>3 DEF Val!Sides
    <3> QED
      BY <1>9, <1>11, <2>1, <2>2, <2>4, <3>2 DEF Val!Working
  <2>5. CASE met' = met \cup {v} /\ UNCHANGED <<claims, volumes>>
    <3>1. step' \in [Validations -> Val!Steps]
      BY <1>1, <2>1, <2>2
    <3>2. \A u \in Validations : Val!Running(u)' => Val!Running(u)
      BY <1>11, <2>3 DEF Val!Running
    <3>3. \A u \in Validations \ met' : u \in Validations \ met /\ step'[u] = step[u]
      BY <2>3, <2>5
    <3>4. Val!Undisturbed'
      BY <1>2, <2>1, <2>5, <3>2, <3>3 DEF Val!Undisturbed, Val!Address
    <3>5. Val!ExportsApart' /\ Val!CleanedUp'
      BY <1>2, <2>1, <2>5, <3>3 DEF Val!ExportsApart, Val!CleanedUp, Val!Addresses
    <3> QED
      BY <1>1, <1>3, <2>1, <2>5, <3>1, <3>3, <3>4, <3>5 DEF Val!ValidationInv
  <2> QED
    BY <1>11, <2>4, <2>5 DEF Val!CleanUp, Val!Meets

\* The steps of the Pods.
<1>12. ASSUME NEW v \in Validations, NEW s, Val!InPod(v, s), s \in Val!Working
       PROVE  /\ Val!Mounted(v) = asked[v] /\ step[v] = s /\ step[v] \in Val!Working
              /\ files[asked[v]] \in Val!Files
              /\ UNCHANGED <<asked, volumes, claims, up, node, met>>
  BY <1>1, <1>5, <1>12, MountsWhatIsAsked DEF Val!InPod, Val!others
<1>13. ASSUME NEW v \in Validations, Val!Refused(v), v \in met, step[v] \in Val!Working,
              UNCHANGED <<asked, volumes, claims, up, node, met>>
       PROVE  Val!ValidationInv'
  BY <1>6, <1>13 DEF Val!Running, Val!Working
<1>14. ASSUME NEW v \in Validations, Val!MakeDirectory(v) PROVE Val!ValidationInv'
  <2>1. /\ Val!Mounted(v) = asked[v] /\ step[v] = "mkdir" /\ step[v] \in Val!Working
        /\ UNCHANGED <<asked, volumes, claims, up, node, met>>
    BY <1>12, <1>14 DEF Val!MakeDirectory, Val!Working
  <2> DEFINE f == [Val!Empty EXCEPT !.dir = TRUE]
  <2>2. /\ files' = [files EXCEPT ![asked[v]] = f] /\ step' = [step EXCEPT ![v] = "write"]
        /\ UNCHANGED verdict
    BY <1>14, <2>1 DEF Val!MakeDirectory, Val!To
  <2>3. f \in Val!Files /\ f.dir /\ f.shared = Nobody /\ f.renamed = Nobody
    BY DEF Val!Empty, Val!Files
  <2>4. asked[v] \in up \cup {"managed"}
    BY <1>14, MountsWhatIsAsked DEF Val!MakeDirectory, Val!InPod
  <2> QED
    BY <1>4, <1>7, <2>1, <2>2, <2>3, <2>4 DEF Val!Working, Val!Steps
<1>15. ASSUME NEW v \in Validations, Val!WriteFile(v) PROVE Val!ValidationInv'
  <2>1. /\ Val!Mounted(v) = asked[v] /\ step[v] = "write" /\ step[v] \in Val!Working
        /\ files[asked[v]] \in Val!Files
        /\ UNCHANGED <<asked, volumes, claims, up, node, met>>
    BY <1>12, <1>15 DEF Val!WriteFile, Val!Working
  <2>2. v \notin met => /\ files[asked[v]].dir /\ asked[v] \in up \cup {"managed"}
                       /\ files[asked[v]].renamed # v
    BY <1>2, <1>4, <2>1 DEF Val!Undisturbed, Val!Working
  <2>3. CASE ~(files[asked[v]].dir)
    BY <1>13, <1>15, <2>1, <2>2, <2>3 DEF Val!WriteFile
  <2>4. CASE files[asked[v]].dir
    <3>1. PICK f : f = [files[asked[v]] EXCEPT !.shared = v]
      OBVIOUS
    <3>2. /\ files' = [files EXCEPT ![asked[v]] = f] /\ step' = [step EXCEPT ![v] = "move"]
          /\ UNCHANGED verdict
      BY <1>15, <2>1, <2>4, <3>1 DEF Val!WriteFile, Val!To
    <3>3. f \in Val!Files /\ f.shared = v /\ f.renamed = files[asked[v]].renamed
      BY <2>1, <3>1 DEF Val!Files
    <3> QED
      BY <1>4, <1>7, <2>1, <2>2, <2>4, <3>2, <3>3 DEF Val!Working, Val!Steps
  <2> QED
    BY <2>3, <2>4
<1>16. ASSUME NEW v \in Validations, Val!MoveFile(v) PROVE Val!ValidationInv'
  <2>1. /\ Val!Mounted(v) = asked[v] /\ step[v] = "move" /\ step[v] \in Val!Working
        /\ files[asked[v]] \in Val!Files
        /\ UNCHANGED <<asked, volumes, claims, up, node, met>>
    BY <1>12, <1>16 DEF Val!MoveFile, Val!Working
  <2>2. v \notin met => /\ files[asked[v]].shared = v /\ asked[v] \in up \cup {"managed"}
                       /\ files[asked[v]].renamed # v
    BY <1>2, <1>4, <2>1 DEF Val!Undisturbed, Val!Working
  <2>3. CASE ~(files[asked[v]].shared = v)
    BY <1>13, <1>16, <2>1, <2>2, <2>3 DEF Val!MoveFile
  <2>4. CASE files[asked[v]].shared = v
    <3>1. PICK f : f = [files[asked[v]] EXCEPT !.shared = Nobody, !.renamed = v]
      OBVIOUS
    <3>2. /\ files' = [files EXCEPT ![asked[v]] = f] /\ step' = [step EXCEPT ![v] = "leave"]
          /\ UNCHANGED verdict
      BY <1>16, <2>1, <2>4, <3>1 DEF Val!MoveFile, Val!To
    <3>3. f \in Val!Files /\ f.shared = Nobody /\ f.renamed = v
      BY <2>1, <3>1 DEF Val!Files
    <3> QED
      BY <1>4, <1>7, <2>1, <2>2, <2>4, <3>2, <3>3 DEF Val!Working, Val!Steps
  <2> QED
    BY <2>3, <2>4
<1>17. ASSUME NEW v \in Validations, Val!LeaveFile(v) PROVE Val!ValidationInv'
  <2>1. /\ Val!Mounted(v) = asked[v] /\ step[v] = "leave" /\ step[v] \in Val!Working
        /\ files[asked[v]] \in Val!Files
        /\ UNCHANGED <<asked, volumes, claims, up, node, met>>
    BY <1>12, <1>17 DEF Val!LeaveFile, Val!Working
  <2>2. v \notin met => /\ files[asked[v]].renamed = v /\ asked[v] \in up \cup {"managed"}
                       /\ files[asked[v]].shared # v
    BY <1>2, <1>4, <2>1 DEF Val!Undisturbed, Val!Working
  <2>3. CASE ~(files[asked[v]].renamed = v)
    BY <1>13, <1>17, <2>1, <2>2, <2>3 DEF Val!LeaveFile
  <2>4. CASE files[asked[v]].renamed = v
    <3>1. PICK f : f = [files[asked[v]] EXCEPT !.shared = v, !.renamed = Nobody]
      OBVIOUS
    <3>2. /\ files' = [files EXCEPT ![asked[v]] = f] /\ step' = [step EXCEPT ![v] = "read"]
          /\ UNCHANGED verdict
      BY <1>17, <2>1, <2>4, <3>1 DEF Val!LeaveFile, Val!To
    <3>3. f \in Val!Files /\ f.shared = v /\ f.renamed = Nobody
      BY <2>1, <3>1 DEF Val!Files
    <3> QED
      BY <1>4, <1>7, <2>1, <2>2, <2>4, <3>2, <3>3 DEF Val!Working, Val!Steps
  <2> QED
    BY <2>3, <2>4
<1>18. ASSUME NEW v \in Validations, Val!ReadFile(v) PROVE Val!ValidationInv'
  <2>1. /\ Val!Mounted(v) = asked[v] /\ step[v] = "read" /\ step[v] \in Val!Working
        /\ files[asked[v]] \in Val!Files
        /\ UNCHANGED <<asked, volumes, claims, up, node, met>>
    BY <1>12, <1>18 DEF Val!ReadFile, Val!Working
  <2>2. v \notin met => /\ files[asked[v]].shared = v /\ asked[v] \in up \cup {"managed"}
                       /\ files[asked[v]].renamed # v
    BY <1>2, <1>4, <2>1 DEF Val!Undisturbed, Val!Working
  <2>3. CASE ~(files[asked[v]].shared = v)
    BY <1>13, <1>18, <2>1, <2>2, <2>3 DEF Val!ReadFile
  <2>4. CASE files[asked[v]].shared = v
    <3>1. PICK f : f = [files[asked[v]] EXCEPT !.shared = Nobody, !.dir = files[asked[v]].renamed # Nobody]
      OBVIOUS
    <3>2. /\ files' = [files EXCEPT ![asked[v]] = f] /\ step' = [step EXCEPT ![v] = "clean_a"]
          /\ verdict' = [verdict EXCEPT ![v] = "passed"]
      BY <1>18, <2>1, <2>4, <3>1, ZenonT(60) DEF Val!ReadFile, Val!To
    <3>3. f \in Val!Files /\ f.shared = Nobody /\ f.renamed = files[asked[v]].renamed
      BY <2>1, <3>1 DEF Val!Files
    <3> QED
      BY <1>4, <1>7, <2>1, <2>2, <2>4, <3>2, <3>3 DEF Val!Working, Val!Steps
  <2> QED
    BY <2>3, <2>4

\* A Pod whose export is not there does not end; calls fail; servers go and move.
<1>19. ASSUME NEW v \in Validations, Val!TimeOut(v) PROVE Val!ValidationInv'
  <2>1. /\ step[v] \in Val!Working /\ Val!Mounted(v) = Nobody /\ Val!Refused(v)
        /\ UNCHANGED <<asked, volumes, claims, up, node, met>>
    BY <1>19 DEF Val!TimeOut, Val!others, Val!Working
  <2>2. v \notin met => asked[v] \notin up \cup {"managed"}
    BY <2>1, MountsWhatIsAsked
  <2>3. v \notin met => step[v] = "mkdir"
    BY <1>2, <2>1, <2>2 DEF Val!Undisturbed
  <2>4. Val!Running(v)
    BY <2>1 DEF Val!Running, Val!Working
  <2> QED
    BY <1>6, <2>1, <2>2, <2>3, <2>4
<1>20. ASSUME NEW v \in Validations, Val!FailCall(v) PROVE Val!ValidationInv'
  BY <1>6, <1>20 DEF Val!FailCall, Val!Meets
<1>21. ASSUME up' \subseteq up, node' \in Machines, met \subseteq met',
              UNCHANGED <<asked, step, volumes, claims, files, verdict>>,
              \A v \in Validations \ met' : Val!Running(v) =>
                /\ asked[v] \in up => asked[v] \in up'
                /\ asked[v] = "managed" => node' = node
       PROVE  Val!ValidationInv'
  <2>1. ASSUME NEW u \in Validations \ met'
        PROVE  /\ step[u] \in Val!Working \cup {"claim_b"} => volumes[u]["a"] = Val!Address(u)'
               /\ step[u] \in Val!Working => volumes[u]["b"] = Val!Address(u)'
               /\ step[u] \in Val!Working \ {"mkdir"} => asked[u] \in up' \cup {"managed"}
    <3>1. u \in Validations \ met
      BY <1>21, <2>1
    <3>2. step[u] \in Val!Working \cup {"claim_b"} => Val!Running(u)
      BY DEF Val!Working, Val!Running
    <3>3. Val!Running(u) => Val!Address(u)' = Val!Address(u)
      BY <1>21, <2>1 DEF Val!Address
    <3> QED
      BY <1>2, <1>21, <2>1, <3>1, <3>2, <3>3 DEF Val!Undisturbed
  <2>2. \A u \in Validations : Val!Running(u)' <=> Val!Running(u)
    BY <1>21 DEF Val!Running
  <2>3. Val!Undisturbed'
    BY <1>2, <1>21, <2>1, <2>2 DEF Val!Undisturbed
  <2>4. Val!ExportsApart' /\ Val!CleanedUp'
    BY <1>2, <1>21 DEF Val!ExportsApart, Val!CleanedUp, Val!Addresses
  <2> QED
    BY <1>1, <1>3, <1>21, <2>3, <2>4 DEF Val!ValidationInv
<1>22. ASSUME NEW s \in Servers, Val!ServerGoes(s) PROVE Val!ValidationInv'
  BY <1>1, <1>21, <1>22 DEF Val!ServerGoes, Val!Meets
<1>23. CASE Val!ServerMoves
  <2>1. \A v \in Validations \ met' : Val!Running(v) => asked[v] # "managed"
    BY <1>23 DEF Val!ServerMoves, Val!Meets
  <2>2. /\ node' \in Machines /\ met \subseteq met'
        /\ UNCHANGED <<asked, step, volumes, claims, files, up, verdict>>
    BY <1>23 DEF Val!ServerMoves, Val!Meets
  <2> QED
    BY <1>21, <2>1, <2>2
<1>24. CASE UNCHANGED Val!validationVars
  BY <1>1, <1>21, <1>24 DEF Val!validationVars
<1>25. ASSUME NEW v \in Validations,
              \/ Val!EnsureClaim(v, "a", "claim_a", "claim_b")
              \/ Val!EnsureClaim(v, "b", "claim_b", "mkdir")
              \/ Val!CleanUp(v, "a", "clean_a", "clean_b")
              \/ Val!CleanUp(v, "b", "clean_b", "done")
       PROVE  Val!ValidationInv'
  <2>1. "a" \in Val!Sides /\ "b" \in Val!Sides
    BY DEF Val!Sides
  <2> QED
    BY <1>10, <1>11, <1>25, <2>1
<1> QED
  BY <1>8, <1>14, <1>15, <1>16, <1>17, <1>18, <1>19, <1>20, <1>22, <1>23, <1>24, <1>25 DEF Val!Next

\* Spec: a test leaves no Pod and no credentials behind, and its Pod can start; a validation
\* cleans up, and fails for a reason of its own.
THEOREM TestsAreAlwaysTidy == Spec => []TestsAreTidy
<1> DEFINE Inv == /\ part = "vpn_test" => Tst!TestsInv
                  /\ part = "validation" => Val!ValidationInv
<1>1. Init => Inv
  BY TestsInitially, ValidationInitially DEF Init
<1>2. Inv /\ [Next]_vars => Inv'
  <2>1. part = "vpn_test" /\ [Next]_vars => [Tst!Next]_(Tst!testVars)
    BY DEF Next, vars, Tst!testVars
  <2>2. part = "validation" /\ [Next]_vars => [Val!Next]_(Val!validationVars)
    BY DEF Next, vars, Val!validationVars
  <2> QED
    BY <2>1, <2>2, PartIsKept, TestsKept, ValidationKept
<1>3. Inv => TestsAreTidy
  <2>1. ASSUME Val!ValidationInv PROVE Val!ValidationTells
    <3>1. ASSUME NEW v \in Validations \ met, step[v] = "done"
          PROVE  /\ \A s \in Val!Sides : <<v, s>> \notin claims /\ volumes[v][s] = Nobody
                 /\ \A e \in Val!Exports : v \notin {files[e].shared, files[e].renamed}
      <4>1. \A s \in Val!Sides : <<v, s>> \notin claims /\ volumes[v][s] = Nobody
        BY <2>1, <3>1 DEF Val!ValidationInv, Val!CleanedUp, Val!Sides, step, claims, volumes, met
      <4>2. files[asked[v]].shared # v /\ files[asked[v]].renamed # v
        BY <2>1, <3>1 DEF Val!ValidationInv, Val!Undisturbed, step, files, asked, met
      <4>3. \A e \in Val!Exports : v \in {files[e].shared, files[e].renamed} => e = asked[v]
        BY <2>1 DEF Val!ValidationInv, Val!ExportsApart, files, asked
      <4> QED
        BY <4>1, <4>2, <4>3
    <3> QED
      BY <2>1, <3>1 DEF Val!ValidationInv, Val!ValidationTells, step, claims, volumes, files, met
  <2> QED
    BY <2>1 DEF TestsAreTidy, Tst!TestsInv
<1> QED
  BY <1>1, <1>2, <1>3, PTL DEF Spec

=============================================================================
