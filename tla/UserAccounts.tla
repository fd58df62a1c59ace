---------------------------- MODULE UserAccounts ----------------------------
(***************************************************************************)
(* The accounts: registration, invites, administration, linked OAuth       *)
(* identities.  A handler reads and checks first and writes later, in one  *)
(* transaction or, with OAuth, in none.  A name stands for the username    *)
(* and the email, both unique.  UserRoles is about what accounts may do.   *)
(***************************************************************************)
EXTENDS Naturals, FiniteSets, Functions

CONSTANTS
  MaxUser,     \* ids of accounts are numbers (bound)
  FirstName,   \* name of the administrator that set Kubarr up
  Names,       \* other names accounts may have
  Invites,     \* ids of invites (bound)
  Identities,  \* accounts at an OAuth provider
  Callers      \* requests that can be in flight

People == 1 .. MaxUser

VARIABLES
  users,     \* the accounts: name and approval, for each id that has a row
  unborn,    \* ids not given to an account yet
  invites,   \* the invites: who created and who used each, and whether it ran out
  uninvited, \* ids not given to an invite yet
  links,     \* OAuth identities and the accounts they are linked to
  pending,   \* what each caller has in flight
  invited    \* the InviteUsed records of the audit trail

accountVars == <<users, unborn, invites, uninvited, links, pending, invited>>

NoRequest == [op |-> "none"]
Cut(f, S) == Restrict(f, DOMAIN f \ S)
Put(f, x, y) == [z \in DOMAIN f \cup {x} |-> IF z = x THEN y ELSE f[z]]
NameTaken(n) == \E p \in DOMAIN users : users[p].name = n

\* The administrator that set Kubarr up.
Init ==
  /\ unborn = People \ {1}
  /\ users = [p \in {1} |-> [name |-> FirstName, approved |-> TRUE]]
  /\ invites = <<>> /\ uninvited = Invites
  /\ links = <<>>
  /\ pending = [c \in Callers |-> NoRequest]
  /\ invited = {}

-----------------------------------------------------------------------------
Begin(c, r) == pending[c] = NoRequest /\ pending' = [pending EXCEPT ![c] = r]
End(c) == pending' = [pending EXCEPT ![c] = NoRequest]

\* Rows of an account that do not go with it: the invites it made and the one it used.
Referenced(p) == \E i \in DOMAIN invites : p \in {invites[i].creator} \cup invites[i].user

\* A new account under the next id; the name is unique.
InsertUser(p, n, ok) ==
  /\ p \in unborn /\ (\A q \in unborn : p <= q) /\ ~NameTaken(n)
  /\ users' = Put(users, p, [name |-> n, approved |-> ok])
  /\ unborn' = unborn \ {p}

-----------------------------------------------------------------------------
(* Registration and invites.                                               *)

\* The transaction reads the settings, which may be anything, the invite and the names.
Register(c, n, code, policy) ==
  /\ policy.registration \/ code # {}
  /\ \A i \in code : i \in DOMAIN invites /\ invites[i].user = {} /\ ~invites[i].expired
  /\ ~NameTaken(n)
  /\ Begin(c, [op |-> "register", name |-> n, code |-> code,
               approved |-> code # {} \/ ~policy.approval])
  /\ UNCHANGED <<users, unborn, invites, uninvited, links, invited>>

\* Mutant of the next: the invite's row is updated by its id.
UseInvite(i) == i \in DOMAIN invites

\* The conditional update hits the row of the invite if nobody used it.
ClaimInvite(i) == i \in DOMAIN invites /\ invites[i].user = {}

\* Insert the account, claim the invite, write the records, commit; all or nothing.
CommitRegistration(c, p) ==
  /\ pending[c].op = "register"
  /\ InsertUser(p, pending[c].name, pending[c].approved)
  /\ LET code == pending[c].code
     IN /\ \A i \in code : ClaimInvite(i)
        /\ invites' = [i \in DOMAIN invites |-> [invites[i] EXCEPT !.user = IF i \in code
                                                                           THEN {p} ELSE @]]
        /\ invited' = invited \cup {<<i, p>> : i \in code}
  /\ End(c)
  /\ UNCHANGED <<uninvited, links>>

CreateInvite(i, p) ==
  /\ i \in uninvited /\ p \in DOMAIN users
  /\ invites' = Put(invites, i, [creator |-> p, user |-> {}, expired |-> FALSE])
  /\ uninvited' = uninvited \ {i}
  /\ UNCHANGED <<users, unborn, links, pending, invited>>

DeleteInvite(i) ==
  /\ i \in DOMAIN invites
  /\ invites' = Cut(invites, {i})
  /\ UNCHANGED <<users, unborn, uninvited, links, pending, invited>>

InviteExpires(i) ==
  /\ i \in DOMAIN invites /\ ~invites[i].expired
  /\ invites' = [invites EXCEPT ![i].expired = TRUE]
  /\ UNCHANGED <<users, unborn, uninvited, links, pending, invited>>

-----------------------------------------------------------------------------
(* Administration.                                                         *)

\* The names are checked before the transaction; the insert fails if one is taken since.
CreateUser(c, n) ==
  /\ ~NameTaken(n)
  /\ Begin(c, [op |-> "create", name |-> n])
  /\ UNCHANGED <<users, unborn, invites, uninvited, links, invited>>

CommitUser(c, p) ==
  /\ pending[c].op = "create"
  /\ InsertUser(p, pending[c].name, TRUE)
  /\ End(c)
  /\ UNCHANGED <<invites, uninvited, links, invited>>

\* The row is written by id with the fields that are given: an approval, or whatever an
\* administrator says.
UpdateUser(p) ==
  /\ p \in DOMAIN users
  /\ \E ok \in BOOLEAN : users' = [users EXCEPT ![p].approved = ok]
  /\ UNCHANGED <<unborn, invites, uninvited, links, pending, invited>>

\* A new name, by its owner or an administrator.
RenameUser(p, n) ==
  /\ p \in DOMAIN users /\ ~NameTaken(n)
  /\ users' = [users EXCEPT ![p].name = n]
  /\ UNCHANGED <<unborn, invites, uninvited, links, pending, invited>>

\* An account is rejected when it is read as pending, or is deleted by its owner or
\* another; then the transaction.
RejectUser(c, p) ==
  /\ p \in DOMAIN users /\ ~users[p].approved
  /\ Begin(c, [op |-> "delete", user |-> p])
  /\ UNCHANGED <<users, unborn, invites, uninvited, links, invited>>

DeleteUser(c, p) ==
  /\ p \in DOMAIN users
  /\ Begin(c, [op |-> "delete", user |-> p])
  /\ UNCHANGED <<users, unborn, invites, uninvited, links, invited>>

\* Mutant of the next: the links of the account stay.
DeleteUserRow(c) ==
  /\ pending[c].op = "delete" /\ ~Referenced(pending[c].user)
  /\ users' = Cut(users, {pending[c].user})
  /\ End(c)
  /\ UNCHANGED <<links, unborn, invites, uninvited, invited>>

\* The row, and what goes with it; a reference that does not go refuses it. Deleting a
\* row that is gone is no error.
CommitDeletion(c) ==
  /\ pending[c].op = "delete" /\ ~Referenced(pending[c].user)
  /\ users' = Cut(users, {pending[c].user})
  /\ links' = Cut(links, {x \in DOMAIN links : links[x] = pending[c].user})
  /\ End(c)
  /\ UNCHANGED <<unborn, invites, uninvited, invited>>

-----------------------------------------------------------------------------
(* OAuth: none of this is in a transaction.                                *)

\* The provider names the identity and an email. An identity that is linked signs in;
\* else the account with the email is linked, or one is created, approved, and linked.
OauthCallback(c, x, n) ==
  /\ x \notin DOMAIN links
  /\ IF NameTaken(n)
     THEN \E p \in DOMAIN users :
            users[p].name = n /\ Begin(c, [op |-> "link", identity |-> x, user |-> p])
     ELSE Begin(c, [op |-> "adopt", identity |-> x, name |-> n])
  /\ UNCHANGED <<users, unborn, invites, uninvited, links, invited>>

\* The account that is signed in has asked for the link.
OauthLink(c, x, p) ==
  /\ x \notin DOMAIN links /\ p \in DOMAIN users
  /\ Begin(c, [op |-> "link", identity |-> x, user |-> p])
  /\ UNCHANGED <<users, unborn, invites, uninvited, links, invited>>

AdoptIdentity(c, p) ==
  /\ pending[c].op = "adopt"
  /\ InsertUser(p, pending[c].name, TRUE)
  /\ pending' = [pending EXCEPT ![c] = [op |-> "link", identity |-> @.identity, user |-> p]]
  /\ UNCHANGED <<invites, uninvited, links, invited>>

\* An identity is linked once, to an account that has a row.
InsertLink(c) ==
  /\ pending[c].op = "link"
  /\ pending[c].user \in DOMAIN users /\ pending[c].identity \notin DOMAIN links
  /\ links' = Put(links, pending[c].identity, pending[c].user)
  /\ End(c)
  /\ UNCHANGED <<users, unborn, invites, uninvited, invited>>

UnlinkAccount(x) ==
  /\ x \in DOMAIN links
  /\ links' = Cut(links, {x})
  /\ UNCHANGED <<users, unborn, invites, uninvited, pending, invited>>

-----------------------------------------------------------------------------
\* A request fails: a constraint refuses its write, or the database does.
FailPending(c) ==
  /\ pending[c] # NoRequest
  /\ End(c)
  /\ UNCHANGED <<users, unborn, invites, uninvited, links, invited>>

InviteCodes == {{}} \cup {{i} : i \in Invites}
Policies == [registration : BOOLEAN, approval : BOOLEAN]

Next ==
  \/ \E c \in Callers :
       \/ \E n \in Names, code \in InviteCodes, policy \in Policies : Register(c, n, code, policy)
       \/ \E n \in Names : CreateUser(c, n)
       \/ \E x \in Identities, n \in Names : OauthCallback(c, x, n)
       \/ \E x \in Identities, p \in People : OauthLink(c, x, p)
       \/ \E p \in People :
            \/ CommitRegistration(c, p) \/ CommitUser(c, p) \/ AdoptIdentity(c, p)
            \/ RejectUser(c, p) \/ DeleteUser(c, p)
       \/ CommitDeletion(c) \/ InsertLink(c) \/ FailPending(c)
  \/ \E p \in People : UpdateUser(p) \/ \E n \in Names : RenameUser(p, n)
  \/ \E i \in Invites : DeleteInvite(i) \/ InviteExpires(i) \/ \E p \in People : CreateInvite(i, p)
  \/ \E x \in Identities : UnlinkAccount(x)

Spec == Init /\ [][Next]_accountVars

-----------------------------------------------------------------------------
(* Correctness.                                                            *)

\* Types of the variables; an identity is linked to an account that exists.
TypeOK ==
  /\ users \in [DOMAIN users -> [name : Names \cup {FirstName}, approved : BOOLEAN]]
  /\ DOMAIN users \subseteq People \ unborn
  /\ invites \in [DOMAIN invites -> [creator : People, user : SUBSET People, expired : BOOLEAN]]
  /\ DOMAIN invites \subseteq Invites \ uninvited
  /\ DOMAIN links \subseteq Identities /\ Range(links) \subseteq DOMAIN users

\* An invite admits one account: of the registrations that carry it, however many have
\* read it as unused, one is committed, and while the invite exists so does that account,
\* named in it.
InviteAdmitsOne ==
  \A u \in invited :
    /\ \A v \in invited : u[1] = v[1] => u = v
    /\ u[1] \in DOMAIN invites => invites[u[1]].user = {u[2]} /\ u[2] \in DOMAIN users

\* Every step keeps it: ids are given once, and the account an invite names stays while
\* the invite does.
InviteInv ==
  /\ DOMAIN users \cap unborn = {}
  /\ DOMAIN invites \cap uninvited = {}
  /\ invites \in [DOMAIN invites -> [creator : People, user : SUBSET People, expired : BOOLEAN]]
  /\ \A u \in invited : u = <<u[1], u[2]>> /\ u[1] \notin uninvited /\ u[2] \notin unborn
  /\ InviteAdmitsOne
=============================================================================
