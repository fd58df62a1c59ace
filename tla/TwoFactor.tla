----------------------------- MODULE TwoFactor -----------------------------
(***************************************************************************)
(* Two-factor authentication of one account: setting it up, enabling and   *)
(* disabling it, and signing in with a recovery code.  A request reads the *)
(* account and verifies, and writes later in a transaction.  Under READ    *)
(* COMMITTED each statement of a transaction sees what was committed       *)
(* before it, and waits for rows another open transaction has written.     *)
(***************************************************************************)
EXTENDS Naturals, FiniteSets

CONSTANTS
  Secrets,    \* the secrets that can be generated
  Codes,      \* the recovery codes of one generation
  Clients,    \* requests that can be in flight
  MaxSeries   \* how often 2FA is enabled (bound)

VARIABLES
  secret,     \* the account's TOTP secret, if any
  enabled,    \* 2FA is on
  codes,      \* recovery code rows, each with its generation and whether it is used
  series,     \* generations of codes made so far
  required,   \* a role of the account requires 2FA
  asked       \* what each client has in flight

twoFactorVars == <<secret, enabled, codes, series, required, asked>>

NoRequest == [op |-> "nothing"]
Unused(rows) == {r \in rows : ~r.used}
CodesOf(n) == [code : Codes, series : {n}, used : {FALSE}]
SameRow(r, q) == r.code = q.code /\ r.series = q.series

Init ==
  /\ secret = {} /\ enabled = FALSE
  /\ codes = {} /\ series = 0
  /\ required = FALSE
  /\ asked = [c \in Clients |-> NoRequest]

-----------------------------------------------------------------------------
Ask(c, r) == asked[c] = NoRequest /\ asked' = [asked EXCEPT ![c] = r]
Leave(c) == asked' = [asked EXCEPT ![c] = NoRequest]

\* Another transaction that is still open has written one of these rows.
CodesLocked(rows) ==
  \E d \in Clients, r \in rows : asked[d].op = "recovered" /\ SameRow(asked[d].row, r)

\* Roles are changed by administrators.
RequireTwoFactor ==
  /\ required' = ~required
  /\ UNCHANGED <<secret, enabled, codes, series, asked>>

\* A new secret, unless 2FA is enabled; the row is written later.
Setup2fa(c) ==
  /\ ~enabled
  /\ \E s \in Secrets : Ask(c, [op |-> "setup", secret |-> s])
  /\ UNCHANGED <<secret, enabled, codes, series, required>>

StoreSecret(c) ==
  /\ asked[c].op = "setup"
  /\ secret' = {asked[c].secret}
  /\ Leave(c)
  /\ UNCHANGED <<enabled, codes, series, required>>

\* Not enabled, and the code given is right for the secret that is read.
Enable2fa(c) ==
  /\ ~enabled /\ secret # {}
  /\ Ask(c, [op |-> "enable"])
  /\ UNCHANGED <<secret, enabled, codes, series, required>>

\* Mutant of the next: the codes of an earlier time stay.
KeepCodes(c) ==
  /\ asked[c].op = "enable" /\ series < MaxSeries /\ ~CodesLocked(codes)
  /\ enabled' = TRUE
  /\ codes' = codes \cup CodesOf(series + 1)
  /\ series' = series + 1
  /\ Leave(c)
  /\ UNCHANGED <<secret, required>>

\* The row is enabled and keeps whatever secret it has; old codes go, new ones are made.
StoreEnabled(c) ==
  /\ asked[c].op = "enable" /\ series < MaxSeries /\ ~CodesLocked(codes)
  /\ enabled' = TRUE
  /\ codes' = CodesOf(series + 1)
  /\ series' = series + 1
  /\ Leave(c)
  /\ UNCHANGED <<secret, required>>

\* Enabled, the password is right, and no role requires 2FA.
Disable2fa(c) ==
  /\ enabled /\ ~required
  /\ Ask(c, [op |-> "disable"])
  /\ UNCHANGED <<secret, enabled, codes, series, required>>

StoreDisabled(c) ==
  /\ asked[c].op = "disable" /\ ~CodesLocked(codes)
  /\ enabled' = FALSE /\ secret' = {}
  /\ codes' = {}
  /\ Leave(c)
  /\ UNCHANGED <<series, required>>

\* Enabled, and the code matches one that is read as unused.
RecoverWithCode(c) ==
  /\ enabled
  /\ \E r \in Unused(codes) : Ask(c, [op |-> "recover", row |-> r])
  /\ UNCHANGED <<secret, enabled, codes, series, required>>

\* The transaction marks the row by its id, used since or not, and counts the rest; a
\* row that is gone ends the request.
MarkCode(c) ==
  /\ asked[c].op = "recover" /\ ~CodesLocked({asked[c].row})
  /\ LET marked == {r \in codes : SameRow(r, asked[c].row)}
     IN asked' = [asked EXCEPT ![c] =
                    IF marked = {} THEN NoRequest
                    ELSE [op |-> "recovered", row |-> @.row,
                          last |-> Unused(codes) \subseteq marked]]
  /\ UNCHANGED <<secret, enabled, codes, series, required>>

\* Mutant of the next: the last code turns 2FA off, and the others' rows stay.
OnlyTurnOff(c) ==
  /\ asked[c].op = "recovered"
  /\ codes' = {[r EXCEPT !.used = @ \/ SameRow(r, asked[c].row)] : r \in codes}
  /\ enabled' = (enabled /\ ~asked[c].last)
  /\ secret' = IF asked[c].last THEN {} ELSE secret
  /\ Leave(c)
  /\ UNCHANGED <<series, required>>

\* Commit, with the session of the login: the last code turns 2FA off and all codes go.
CommitRecovery(c) ==
  /\ asked[c].op = "recovered"
  /\ codes' = IF asked[c].last THEN {}
              ELSE {[r EXCEPT !.used = @ \/ SameRow(r, asked[c].row)] : r \in codes}
  /\ enabled' = (enabled /\ ~asked[c].last)
  /\ secret' = IF asked[c].last THEN {} ELSE secret
  /\ Leave(c)
  /\ UNCHANGED <<series, required>>

\* The database fails a request: also the one it ends when two wait for each other, a
\* recovery for the account's row and the end of 2FA for the code's.
FailTwoFactor(c) ==
  /\ asked[c] # NoRequest
  /\ Leave(c)
  /\ UNCHANGED <<secret, enabled, codes, series, required>>

\* What the status endpoints answer.
TwoFactorStatus == [enabled |-> enabled, required_by_role |-> required,
                    remaining |-> Cardinality(Unused(codes))]

Next ==
  \/ RequireTwoFactor
  \/ \E c \in Clients :
       \/ Setup2fa(c) \/ StoreSecret(c)
       \/ Enable2fa(c) \/ StoreEnabled(c)
       \/ Disable2fa(c) \/ StoreDisabled(c)
       \/ RecoverWithCode(c) \/ MarkCode(c) \/ CommitRecovery(c)
       \/ FailTwoFactor(c)

Spec == Init /\ [][Next]_twoFactorVars

-----------------------------------------------------------------------------
(* Correctness.                                                            *)

\* Types of the variables.
TypeOK ==
  /\ secret \subseteq Secrets /\ Cardinality(secret) <= 1
  /\ {enabled, required} \subseteq BOOLEAN
  /\ codes \subseteq [code : Codes, series : 1 .. MaxSeries, used : BOOLEAN]
  /\ series \in 0 .. MaxSeries

\* However enabling, disabling and recovering overlap, a recovery code that still works
\* is one of the codes made last, and it works only while 2FA is on: none survives the
\* 2FA it was made for, and none lets in by a code of an earlier authenticator.
CodesFollowTwoFactor ==
  /\ codes # {} => enabled
  /\ \A r \in codes : r.series = series

\* It is kept by every step, given the shape of the rows.
CodesInv ==
  /\ series \in Nat /\ enabled \in BOOLEAN
  /\ codes \subseteq [code : Codes, series : Nat, used : BOOLEAN]
  /\ DOMAIN asked = Clients
  /\ \A c \in Clients : asked[c].op = "recovered" => asked[c].last \in BOOLEAN
  /\ CodesFollowTwoFactor
=============================================================================
