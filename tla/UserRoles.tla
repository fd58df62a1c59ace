----------------------------- MODULE UserRoles -----------------------------
(***************************************************************************)
(* The roles of the accounts and the permissions of the roles.  Both are   *)
(* replaced as a whole: a transaction deletes the rows it sees and inserts *)
(* the new ones, in two steps here, as READ COMMITTED lets others commit   *)
(* between the two.                                                        *)
(***************************************************************************)
EXTENDS FiniteSets, Functions

CONSTANTS
  Members,   \* ids of accounts
  Roles,    \* roles, the system role "admin" among them
  Perms,    \* permissions of roles, of apps or other
  Callers   \* requests that can be in flight

VARIABLES
  people,    \* accounts that have a row
  holds,     \* the roles of each account
  granted,   \* the permissions of each role that has a row
  replacing, \* what each caller has in flight
  given      \* the roles the last request gave each account (for the properties)

roleVars == <<people, holds, granted, replacing, given>>

NoRequest == [op |-> "none"]

\* The roles as seeded, the administrators' with every permission; an administrator and
\* accounts with no role.
Init ==
  /\ people = Members
  /\ \E p \in Members : holds = [q \in Members |-> IF q = p THEN {"admin"} ELSE {}]
  /\ granted \in {g \in [Roles -> SUBSET Perms] : g["admin"] = Perms}
  /\ replacing = [c \in Callers |-> NoRequest]
  /\ given = holds

-----------------------------------------------------------------------------
Begin(c, r) == replacing[c] = NoRequest /\ replacing' = [replacing EXCEPT ![c] = r]
End(c) == replacing' = [replacing EXCEPT ![c] = NoRequest]

\* The row of an account that an open transaction has updated.
RowHeld(p) == \E c \in Callers : replacing[c].op = "roles" /\ replacing[c].user = p

\* Mutant of the next: the roles are replaced and the row is not written.
DeleteRoleRows(c, p, roles) ==
  /\ p \in people
  /\ Begin(c, [op |-> "roles", user |-> p, new |-> roles, old |-> holds[p]])
  /\ UNCHANGED <<people, holds, granted, given>>

\* update_user: the transaction writes the row, which it then holds to its end, and
\* deletes the roles it sees.
UpdateUserRoles(c, p, roles) ==
  /\ p \in people /\ ~RowHeld(p)
  /\ Begin(c, [op |-> "roles", user |-> p, new |-> roles, old |-> holds[p]])
  /\ UNCHANGED <<people, holds, granted, given>>

\* It inserts the new ones, none of which may be there and whose roles must be, and
\* commits.
CommitRoles(c) ==
  /\ replacing[c].op = "roles"
  /\ LET r == replacing[c]
         left == holds[r.user] \ r.old
     IN /\ r.user \in people /\ r.new \subseteq DOMAIN granted \ left
        /\ holds' = [holds EXCEPT ![r.user] = left \cup r.new]
        /\ given' = [given EXCEPT ![r.user] = r.new]
  /\ End(c)
  /\ UNCHANGED <<people, granted>>

OnlyAdmin(p) == "admin" \in holds[p] /\ \A q \in people : "admin" \in holds[q] => q = p

\* An account deletes itself unless it is the only administrator; that is read before
\* the transaction.
DeleteOwnAccount(c, p) ==
  /\ p \in people /\ ~OnlyAdmin(p)
  /\ Begin(c, [op |-> "delete", user |-> p])
  /\ UNCHANGED <<people, holds, granted, given>>

\* The row goes and its roles with it.
CommitDeletion(c) ==
  /\ replacing[c].op = "delete" /\ ~RowHeld(replacing[c].user)
  /\ people' = people \ {replacing[c].user}
  /\ holds' = [holds EXCEPT ![replacing[c].user] = {}]
  /\ given' = [given EXCEPT ![replacing[c].user] = {}]
  /\ End(c)
  /\ UNCHANGED granted

\* A role is created with the apps it gives access to.
CreateRole(r, ps) ==
  /\ r \notin DOMAIN granted
  /\ granted' = [q \in DOMAIN granted \cup {r} |-> IF q = r THEN ps ELSE granted[q]]
  /\ UNCHANGED <<people, holds, replacing, given>>

\* A system role is not deleted; any other goes with its permissions and assignments.
DeleteRole(r) ==
  /\ r \in DOMAIN granted \ {"admin"}
  /\ granted' = Restrict(granted, DOMAIN granted \ {r})
  /\ holds' = [p \in Members |-> holds[p] \ {r}]
  /\ given' = [p \in Members |-> given[p] \ {r}]
  /\ UNCHANGED <<people, replacing>>

\* All permissions of a role, or its apps: the transaction deletes those it sees, after
\* any other that deletes some of them.
SetRolePermissions(c, r, ps) ==
  /\ r \in DOMAIN granted
  /\ \A d \in Callers : replacing[d].op = "permissions" /\ replacing[d].role = r
                          => replacing[d].old \cap granted[r] = {}
  /\ Begin(c, [op |-> "permissions", role |-> r, new |-> ps, old |-> granted[r]])
  /\ UNCHANGED <<people, holds, granted, given>>

\* The new ones are inserted: none may be there, and the role must be.
CommitPermissions(c) ==
  /\ replacing[c].op = "permissions"
  /\ LET r == replacing[c]
     IN /\ r.role \in DOMAIN granted
        /\ (granted[r.role] \ r.old) \cap r.new = {}
        /\ granted' = [granted EXCEPT ![r.role] = (@ \ r.old) \cup r.new]
  /\ End(c)
  /\ UNCHANGED <<people, holds, given>>

\* A request fails: a constraint refuses its write, or the database does.
FailReplacing(c) ==
  /\ replacing[c] # NoRequest
  /\ End(c)
  /\ UNCHANGED <<people, holds, granted, given>>

\* What the requests of an account may do, and whether some permission is among it.
UserPermissions(p) == UNION {granted[r] : r \in holds[p]}
HasPermission(p, x) == x \in UserPermissions(p)

Next ==
  \/ \E c \in Callers :
       \/ \E p \in Members, roles \in SUBSET Roles : UpdateUserRoles(c, p, roles)
       \/ \E p \in Members : DeleteOwnAccount(c, p)
       \/ \E r \in Roles, ps \in SUBSET Perms : SetRolePermissions(c, r, ps)
       \/ CommitRoles(c) \/ CommitDeletion(c) \/ CommitPermissions(c) \/ FailReplacing(c)
  \/ \E r \in Roles : DeleteRole(r) \/ \E ps \in SUBSET Perms : CreateRole(r, ps)

Spec == Init /\ [][Next]_roleVars

-----------------------------------------------------------------------------
(* Correctness.                                                            *)

\* Types of the variables; a role is held by accounts that exist, and exists.
TypeOK ==
  /\ people \subseteq Members
  /\ holds \in [Members -> SUBSET DOMAIN granted]
  /\ \A p \in Members \ people : holds[p] = {}
  /\ DOMAIN granted \subseteq Roles /\ "admin" \in DOMAIN granted
  /\ \A r \in DOMAIN granted : granted[r] \subseteq Perms

\* An account has the roles one request gave it, less the roles deleted since: requests
\* that replace the roles of an account at once never leave it a mixture of theirs.
RolesGivenTogether == holds = given

\* Every step keeps it: one request at a time has the row of an account, and has deleted
\* all the roles the account still holds.
RolesInv ==
  /\ DOMAIN replacing = Callers
  /\ DOMAIN holds = Members
  /\ \A c \in Callers : replacing[c].op = "roles" =>
       /\ replacing[c].user \in Members
       /\ holds[replacing[c].user] \subseteq replacing[c].old
  /\ \A c, d \in Callers :
       replacing[c].op = "roles" /\ replacing[d].op = "roles"
         /\ replacing[c].user = replacing[d].user => c = d
  /\ RolesGivenTogether
=============================================================================
