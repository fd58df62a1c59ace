---------------------------- MODULE AccountEdits ----------------------------
(***************************************************************************)
(* The row of one account and its preferences, which its owner and         *)
(* administrators change at the same time.  A handler reads the row, checks *)
(* and hashes, and then updates the columns it was asked to change and     *)
(* writes its audit record, in one transaction that does not read again.   *)
(***************************************************************************)
EXTENDS Naturals, FiniteSets, Functions

CONSTANTS
  Callers,    \* requests that can be in flight
  Entries,    \* e-mail addresses and passwords
  Themes,
  Unset,      \* no preferences, no theme
  MaxEdits    \* bound: requests begun

VARIABLES
  row,      \* the account's columns; empty when it is deleted
  theme,    \* of its preferences, or Unset
  doing,    \* what each caller's request read, and the columns it changes
  begun,    \* requests so far
  recorded, \* actions in the audit log, with their success
  latest    \* ghost: for each column, and the theme, what the last request to change it stored

editVars == <<row, theme, doing, begun, recorded, latest>>

Resting == [op |-> "rest"]
Columns == {"email", "active", "approved", "password"}
Present == row # <<>>
ToChange(columns, value) == [c \in columns |-> value]

\* f, with the columns of changes changed.
Merged(f, changes) == [c \in DOMAIN f |-> IF c \in DOMAIN changes THEN changes[c] ELSE f[c]]

\* A request that is let in: of the owner only if the account may sign in.
Enter(c) == doing[c] = Resting /\ begun < MaxEdits /\ begun' = begun + 1 /\ Present
OwnerEnters(c) == Enter(c) /\ row.active /\ row.approved
Hold(c, request) == doing' = [doing EXCEPT ![c] = request]
Leave(c) == Hold(c, Resting)
Edit(c, action, changes) ==
  Hold(c, [op |-> "edit", action |-> action, read |-> row, changes |-> changes])

-----------------------------------------------------------------------------
(* What is read and checked.                                               *)

UpdateOwnProfile(c) ==
  /\ OwnerEnters(c)
  /\ \E e \in Entries : Edit(c, "UserUpdated", ToChange({"email"}, e))
  /\ UNCHANGED <<row, theme, recorded, latest>>

\* An administrator; the roles are in UserRoles.
UpdateUser(c) ==
  /\ Enter(c)
  /\ \/ \E e \in Entries : Edit(c, "UserUpdated", ToChange({"email"}, e))
     \/ \E columns \in SUBSET {"active", "approved"}, b \in BOOLEAN :
          Edit(c, "UserUpdated", ToChange(columns, b))
  /\ UNCHANGED <<row, theme, recorded, latest>>

ApproveUser(c) ==
  /\ Enter(c)
  /\ Edit(c, "UserApproved", ToChange({"active", "approved"}, TRUE))
  /\ UNCHANGED <<row, theme, recorded, latest>>

\* The current password is given, or the attempt goes on record.
ChangeOwnPassword(c) ==
  /\ OwnerEnters(c)
  /\ \E given, new \in Entries :
       IF given = row.password
       THEN Edit(c, "PasswordChanged", ToChange({"password"}, new)) /\ UNCHANGED recorded
       ELSE recorded' = recorded \cup {<<"PasswordChanged", FALSE>>} /\ UNCHANGED doing
  /\ UNCHANGED <<row, theme, latest>>

AdminResetPassword(c) ==
  /\ Enter(c)
  /\ \E new \in Entries : Edit(c, "PasswordChanged", ToChange({"password"}, new))
  /\ UNCHANGED <<row, theme, recorded, latest>>

-----------------------------------------------------------------------------
(* What is stored.                                                         *)

\* Mutant of Updated: the row that was read is stored, with the changes.
UpdatedAsRead(request) == Merged(request.read, request.changes)

\* The update names the changed columns only.
Updated(request) == Merged(row, request.changes)

\* Commit, or an error, also when the account is gone.
StoreEdit(c) ==
  /\ doing[c].op = "edit" /\ Leave(c)
  /\ IF Present
     THEN /\ row' = Updated(doing[c])
          /\ recorded' = recorded \cup {<<doing[c].action, TRUE>>}
          /\ latest' = Merged(latest, doing[c].changes)
     ELSE UNCHANGED <<row, recorded, latest>>
  /\ UNCHANGED <<theme, begun>>

\* The database fails a request.
FailEdit(c) == doing[c] # Resting /\ Leave(c) /\ UNCHANGED <<row, theme, begun, recorded, latest>>

\* The preferences are looked for.
UpdateMyPreferences(c) ==
  /\ OwnerEnters(c)
  /\ \E t \in Themes \cup {Unset} :
       Hold(c, [op |-> IF theme = Unset THEN "insert" ELSE "update", theme |-> t])
  /\ UNCHANGED <<row, theme, recorded, latest>>

Stored(t) ==
  /\ theme' = t /\ latest' = [latest EXCEPT !["theme"] = t]
  /\ recorded' = recorded \cup {<<"UserUpdated", TRUE>>}

\* One row for an account that is there: the second to insert fails.
InsertPreferences(c) ==
  /\ doing[c].op = "insert" /\ Leave(c)
  /\ IF Present /\ theme = Unset
     THEN Stored(IF doing[c].theme = Unset THEN "system" ELSE doing[c].theme)
     ELSE UNCHANGED <<theme, recorded, latest>>
  /\ UNCHANGED <<row, begun>>

\* Without a theme nothing is updated.
UpdatePreferences(c) ==
  /\ doing[c].op = "update" /\ Leave(c)
  /\ IF doing[c].theme = Unset
     THEN recorded' = recorded \cup {<<"UserUpdated", TRUE>>} /\ UNCHANGED <<theme, latest>>
     ELSE IF theme # Unset THEN Stored(doing[c].theme) ELSE UNCHANGED <<theme, recorded, latest>>
  /\ UNCHANGED <<row, begun>>

\* By its owner or an administrator; the preferences go with it.
DeleteUser ==
  /\ Present /\ row' = <<>> /\ theme' = Unset
  /\ recorded' = recorded \cup {<<"UserDeleted", TRUE>>}
  /\ UNCHANGED <<doing, begun, latest>>

-----------------------------------------------------------------------------

\* An account that was registered, and may wait for its approval.
Init ==
  /\ \E e \in Entries, approved \in BOOLEAN :
       row = [email |-> e, active |-> TRUE, approved |-> approved, password |-> e]
  /\ theme = Unset /\ doing = [c \in Callers |-> Resting] /\ begun = 0 /\ recorded = {}
  /\ latest = [c \in Columns \cup {"theme"} |-> IF c = "theme" THEN Unset ELSE row[c]]

Next ==
  \/ \E c \in Callers :
       \/ UpdateOwnProfile(c) \/ UpdateUser(c) \/ ApproveUser(c)
       \/ ChangeOwnPassword(c) \/ AdminResetPassword(c)
       \/ StoreEdit(c) \/ FailEdit(c)
       \/ UpdateMyPreferences(c) \/ InsertPreferences(c) \/ UpdatePreferences(c)
  \/ DeleteUser

Spec == Init /\ [][Next]_editVars

-----------------------------------------------------------------------------
TypeOK ==
  /\ Present => /\ DOMAIN row = Columns
                /\ {row.email, row.password} \subseteq Entries
                /\ {row.active, row.approved} \subseteq BOOLEAN
  /\ theme \in Themes \cup {Unset}
  /\ begun \in 0 .. MaxEdits

\* Of two requests that change an account at the same time neither undoes the other's
\* columns: who changes a password does not let a deactivated account in again
\* (users.rs:1187), and preferences are those saved last, of an account that is there.
EditsKept ==
  IF Present THEN /\ \A c \in Columns : row[c] = latest[c]
                  /\ theme = latest["theme"]
  ELSE theme = Unset

\* Every step keeps it: a request changes columns of the row, never the theme.
EditsInv ==
  /\ Present => DOMAIN row = Columns
  /\ DOMAIN latest = Columns \cup {"theme"}
  /\ DOMAIN doing = Callers
  /\ \A c \in Callers : doing[c].op = "edit" => DOMAIN doing[c].changes \subseteq Columns
  /\ EditsKept
=============================================================================
