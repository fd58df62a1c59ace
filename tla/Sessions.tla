------------------------------ MODULE Sessions ------------------------------
(***************************************************************************)
(* Signing in and out, the session rows behind the cookies of one browser, *)
(* and the tickets that carry a session to the host of an app.  A ticket   *)
(* is a row of the sessions table too.  The tabs of the browser send their *)
(* requests side by side, each with the cookies of the moment it was sent. *)
(* Passwords and codes are right here; TwoFactor is about the codes.       *)
(***************************************************************************)
EXTENDS Naturals, FiniteSets, Functions

CONSTANTS
  Users,       \* the accounts
  Logins,      \* ids for the rows of logins (bound)
  Tickets,     \* ids for the rows of host transfers (bound)
  Tabs,        \* requests that can be in flight
  MaxSessions  \* session cookies of a browser

\* A row is of a login or of a transfer.
IdsAssumption == Logins \cap Tickets = {}

Ids == Logins \cup Tickets
Slots == 0 .. MaxSessions - 1
Rights == {"admitted", "granted"}

VARIABLES
  rights,   \* accounts that are active and approved, and that reach the app on its host
  rows,     \* the sessions table: a record for each id that has a row
  fresh,    \* the ids nothing was inserted under yet
  jar,      \* the browser's cookies: by slot, the active slot, the legacy cookie
  handling,  \* what each tab has in flight
  handed,   \* the tickets answered with a session cookie, and for whom
  trail,    \* audit records of each login, by the session they are about
  purged    \* rows the scheduler removed

sessionVars == <<rights, rows, fresh, jar, handling, handed, trail, purged>>

Idle == [op |-> "idle"]
NoCookies == [slots |-> <<>>, active |-> {}, legacy |-> {}]

Without(f, x) == Restrict(f, DOMAIN f \ {x})
With(f, x, y) == [z \in DOMAIN f \cup {x} |-> IF z = x THEN y ELSE f[z]]

Init ==
  /\ rights = [u \in Users |-> Rights]
  /\ rows = <<>>
  /\ fresh = Ids
  /\ jar = NoCookies
  /\ handling = [c \in Tabs |-> Idle]
  /\ handed = {}
  /\ trail = [id \in Logins |-> {}]
  /\ purged = {}

-----------------------------------------------------------------------------
(* What a request is taken for.                                            *)

Live(id) == id \in DOMAIN rows /\ ~rows[id].used /\ ~rows[id].expired

\* The middleware's token: the active slot's cookie (0 if none is active), else any
\* other, and the legacy one only when there is no slot. At most one is used.
ExtractToken(cookies) ==
  LET active == IF cookies.active = {} THEN {0} ELSE cookies.active
      present == active \cap DOMAIN cookies.slots
  IN IF DOMAIN cookies.slots = {} THEN cookies.legacy
     ELSE {cookies.slots[s] : s \in IF present # {} THEN present ELSE DOMAIN cookies.slots}

\* The session handlers' token: the active slot's cookie, else the legacy one.
ExtractSessionToken(cookies) ==
  LET present == cookies.active \cap DOMAIN cookies.slots
  IN IF present # {} THEN {cookies.slots[s] : s \in present} ELSE cookies.legacy

\* A token is good for a live row of an account that may sign in.
Authenticates(id) == Live(id) /\ "admitted" \in rights[rows[id].user]

\* The slots whose cookie names a live session, and whose it is.
ExistingSessions(cookies) ==
  [s \in {s \in DOMAIN cookies.slots : Live(cookies.slots[s])} |-> rows[cookies.slots[s]].user]

Least(S) == CHOOSE n \in S : \A m \in S : n <= m

\* The account's own slot, else the first free one, else the first.
FindAvailableSlot(existing, u) ==
  LET own == {s \in DOMAIN existing : existing[s] = u}
      free == Slots \ DOMAIN existing
  IN IF own # {} THEN Least(own) ELSE IF free # {} THEN Least(free) ELSE 0

\* What /auth/accounts and /auth/sessions answer.
ListAccounts(cookies) ==
  {[slot |-> s, user |-> ExistingSessions(cookies)[s],
    is_active |-> s \in (IF cookies.active = {} THEN {0} ELSE cookies.active)] :
     s \in DOMAIN ExistingSessions(cookies)}

ListSessions(token) ==
  IF token \in DOMAIN rows
  THEN {id \in DOMAIN rows : Live(id) /\ rows[id].user = rows[token].user}
  ELSE {}

-----------------------------------------------------------------------------
(* Signing in and out.                                                     *)

Start(c, r) == handling[c] = Idle /\ handling' = [handling EXCEPT ![c] = r]
Finish(c) == handling' = [handling EXCEPT ![c] = Idle]
Row(u, source) == [user |-> u, source |-> source, used |-> FALSE, expired |-> FALSE]

\* The account is read and its credentials are verified.
Login(c, u) ==
  /\ "admitted" \in rights[u]
  /\ Start(c, [op |-> "login", user |-> u, cookies |-> jar])
  /\ UNCHANGED <<rights, rows, fresh, jar, handed, trail, purged>>

\* One transaction: the session row and its audit record.
CommitLogin(c, id) ==
  /\ handling[c].op = "login" /\ id \in fresh \cap Logins
  /\ fresh' = fresh \ {id}
  /\ rows' = With(rows, id, Row(handling[c].user, {}))
  /\ trail' = [trail EXCEPT ![id] = @ \cup {"Login"}]
  /\ handling' = [handling EXCEPT ![c] = [op |-> "cookies", id |-> id, user |-> @.user,
                                        cookies |-> @.cookies]]
  /\ UNCHANGED <<rights, jar, handed, purged>>

\* The slot is chosen by the cookies the request came with; three cookies are set.
AnswerLogin(c) ==
  /\ handling[c].op = "cookies"
  /\ LET slot == FindAvailableSlot(ExistingSessions(handling[c].cookies), handling[c].user)
     IN jar' = [slots |-> With(jar.slots, slot, handling[c].id),
                active |-> {slot}, legacy |-> {handling[c].id}]
  /\ Finish(c)
  /\ UNCHANGED <<rights, rows, fresh, handed, trail, purged>>

\* Make another slot the active one, if its session is live.
SwitchSession(c, s) ==
  /\ handling[c] = Idle /\ s \in DOMAIN ExistingSessions(jar)
  /\ jar' = [jar EXCEPT !.active = {s}]
  /\ UNCHANGED <<rights, rows, fresh, handling, handed, trail, purged>>

\* The session of the token is looked up; when it is not live only the cookie goes.
Logout(c) ==
  /\ \/ \E id \in ExtractSessionToken(jar) :
          Live(id) /\ Start(c, [op |-> "logout", id |-> id]) /\ UNCHANGED jar
     \/ /\ \A id \in ExtractSessionToken(jar) : ~Live(id)
        /\ handling[c] = Idle /\ jar' = [jar EXCEPT !.legacy = {}] /\ UNCHANGED handling
  /\ UNCHANGED <<rights, rows, fresh, handed, trail, purged>>

\* Another session of the same account; the caller's own row need not be live.
RevokeSession(c, id) ==
  /\ \E current \in ExtractSessionToken(jar) :
       /\ {current, id} \subseteq DOMAIN rows /\ id # current
       /\ rows[id].user = rows[current].user
  /\ Start(c, [op |-> "revoke", id |-> id])
  /\ UNCHANGED <<rights, rows, fresh, jar, handed, trail, purged>>

\* A row a transfer has updated and not committed is locked.
Locked(id) == \E c \in Tabs : handling[c].op = "taken" /\ handling[c].id = id

Audit(id, what) == IF id \in Logins THEN [trail EXCEPT ![id] = @ \cup {what}] ELSE trail

\* Mutant of the next: the row goes in the transaction of its own before the record.
DeleteUnaudited(c) ==
  /\ handling[c].op \in {"logout", "revoke"} /\ ~Locked(handling[c].id)
  /\ rows' = Without(rows, handling[c].id)
  /\ trail' \in {trail, Audit(handling[c].id, "Logout")}
  /\ jar' = IF handling[c].op = "logout" THEN [jar EXCEPT !.legacy = {}] ELSE jar
  /\ Finish(c)
  /\ UNCHANGED <<rights, fresh, handed, purged>>

\* One transaction: the row is deleted and the record written. Logging out answers
\* with the legacy cookie cleared; the slot keeps its cookie.
DeleteSession(c) ==
  /\ handling[c].op \in {"logout", "revoke"} /\ ~Locked(handling[c].id)
  /\ rows' = Without(rows, handling[c].id)
  /\ trail' = Audit(handling[c].id, "Logout")
  /\ jar' = IF handling[c].op = "logout" THEN [jar EXCEPT !.legacy = {}] ELSE jar
  /\ Finish(c)
  /\ UNCHANGED <<rights, fresh, handed, purged>>

-----------------------------------------------------------------------------
(* Carrying a session to the host of an app.                               *)

\* A live session of an account with access to the app gets a ticket row.
StartHostTransfer(c, ticket) ==
  /\ handling[c] = Idle /\ ticket \in fresh \cap Tickets
  /\ \E id \in ExtractToken(jar) :
       /\ Authenticates(id) /\ "granted" \in rights[rows[id].user]
       /\ rows' = With(rows, ticket, Row(rows[id].user, {id}))
  /\ fresh' = fresh \ {ticket}
  /\ UNCHANGED <<rights, jar, handling, handed, trail, purged>>

\* The app's host is asked with the ticket: its row is read, unused and unexpired.
CompleteHostTransfer(c, ticket) ==
  /\ ticket \in Tickets /\ Live(ticket)
  /\ Start(c, [op |-> "transfer", id |-> ticket])
  /\ UNCHANGED <<rights, rows, fresh, jar, handed, trail, purged>>

\* Mutant of the next: the ticket is taken whatever became of it since it was read.
TakeTicketUnchecked(c) ==
  /\ handling[c].op = "transfer" /\ ~Locked(handling[c].id)
  /\ handling' = [handling EXCEPT ![c] = IF handling[c].id \in DOMAIN rows
                                       THEN [op |-> "taken", id |-> @.id] ELSE Idle]
  /\ UNCHANGED <<rights, rows, fresh, jar, handed, trail, purged>>

\* The conditional update takes an unused ticket, or waits for who took it before.
TakeTicket(c) ==
  /\ handling[c].op = "transfer" /\ ~Locked(handling[c].id)
  /\ handling' = [handling EXCEPT ![c] = IF @.id \in DOMAIN rows /\ ~rows[@.id].used
                                       THEN [op |-> "taken", id |-> @.id] ELSE Idle]
  /\ UNCHANGED <<rights, rows, fresh, jar, handed, trail, purged>>

\* Whether the session behind a ticket can still be carried over.
SourceIsGood(ticket) ==
  \A id \in rows[ticket].source : Authenticates(id) /\ rows[id].user = rows[ticket].user

\* Commit, or roll back and leave the ticket usable.
CommitTransfer(c) ==
  /\ handling[c].op = "taken"
  /\ LET ticket == handling[c].id
     IN IF SourceIsGood(ticket)
        THEN /\ rows' = [rows EXCEPT ![ticket].used = TRUE]
             /\ handling' = [handling EXCEPT ![c] = [op |-> "carried", id |-> ticket,
                                                   user |-> rows[ticket].user,
                                                   source |-> rows[ticket].source]]
        ELSE Finish(c) /\ UNCHANGED rows
  /\ UNCHANGED <<rights, fresh, jar, handed, trail, purged>>

\* The app's host and the permissions are read anew; without them the ticket is spent
\* for nothing.
AnswerTransfer(c) ==
  /\ handling[c].op = "carried"
  /\ handed' = IF "granted" \in rights[handling[c].user]
               THEN handed \cup {[tab |-> c, ticket |-> handling[c].id,
                                  source |-> handling[c].source]}
               ELSE handed
  /\ Finish(c)
  /\ UNCHANGED <<rights, rows, fresh, jar, trail, purged>>

-----------------------------------------------------------------------------
(* What happens to all of them.                                            *)

\* The database fails a request, and with it its transaction.
FailRequest(c) ==
  /\ handling[c].op \in {"login", "logout", "revoke", "transfer", "taken"}
  /\ Finish(c)
  /\ UNCHANGED <<rights, rows, fresh, jar, handed, trail, purged>>

\* An administrator deactivates an account, or takes the app or its host from it
\* (bound: once).
Withdraw(u, right) ==
  /\ \A v \in Users : rights[v] = Rights
  /\ rights' = [rights EXCEPT ![u] = @ \ {right}]
  /\ UNCHANGED <<rows, fresh, jar, handling, handed, trail, purged>>

\* Seven days or 45 seconds pass for a row; the cookies of a login live as long.
Expire(id) ==
  /\ Live(id)
  /\ rows' = [rows EXCEPT ![id].expired = TRUE]
  /\ jar' = [jar EXCEPT !.slots = Restrict(@, {s \in DOMAIN @ : @[s] # id}), !.legacy = @ \ {id}]
  /\ UNCHANGED <<rights, fresh, handling, handed, trail, purged>>

\* The scheduler's cleanup removes expired and revoked rows.
PurgeSession(id) ==
  /\ id \in DOMAIN rows /\ ~Live(id) /\ ~Locked(id)
  /\ rows' = Without(rows, id)
  /\ purged' = purged \cup {id}
  /\ UNCHANGED <<rights, fresh, jar, handling, handed, trail>>

Next ==
  \/ \E c \in Tabs :
       \/ \E u \in Users : Login(c, u)
       \/ \E id \in Logins : CommitLogin(c, id)
       \/ AnswerLogin(c)
       \/ \E s \in Slots : SwitchSession(c, s)
       \/ Logout(c)
       \/ \E id \in Ids : RevokeSession(c, id)
       \/ DeleteSession(c)
       \/ \E ticket \in Tickets : StartHostTransfer(c, ticket) \/ CompleteHostTransfer(c, ticket)
       \/ TakeTicket(c)
       \/ CommitTransfer(c)
       \/ AnswerTransfer(c)
       \/ FailRequest(c)
  \/ \E u \in Users, right \in Rights : Withdraw(u, right)
  \/ \E id \in Ids : Expire(id) \/ PurgeSession(id)

Spec == Init /\ [][Next]_sessionVars

-----------------------------------------------------------------------------
(* Correctness.                                                            *)

\* Types of the variables; a row is live under an id that was inserted.
TypeOK ==
  /\ rights \in [Users -> SUBSET Rights]
  /\ DOMAIN rows \subseteq Ids \ fresh
  /\ \A id \in DOMAIN rows : rows[id] \in [user : Users, source : SUBSET Logins,
                                           used : BOOLEAN, expired : BOOLEAN]
  /\ DOMAIN jar.slots \subseteq Slots /\ jar.active \subseteq Slots
  /\ Range(jar.slots) \cup jar.legacy \subseteq Logins
  /\ trail \in [Logins -> SUBSET {"Login", "Logout"}]
  /\ purged \subseteq Ids \ fresh

\* A transfer ticket is good for one answer: of all the requests that present it, at
\* any time and side by side, one is given the session cookie, and the session it is
\* given was the ticket owner's. A refused request leaves the ticket as it was.
TicketOnce ==
  \A h, g \in handed : h.ticket = g.ticket => h = g

\* The audit trail accounts for the sessions: a login has its row until a Logout is
\* recorded or the scheduler removes it, and no record is of a row that was not there
\* or is there still. The requests of two tabs on one session do not break this.
TrailTellsSessions ==
  \A id \in Logins :
    /\ id \in DOMAIN rows => trail[id] = {"Login"}
    /\ trail[id] = {"Login"} => id \in DOMAIN rows \cup purged
    /\ "Logout" \in trail[id] => trail[id] = {"Login", "Logout"}

-----------------------------------------------------------------------------
(* Why they hold: invariants that every step keeps.                        *)

\* A ticket that was inserted and cannot be taken any more.
Spent(ticket) == ticket \notin fresh /\ (ticket \in DOMAIN rows => rows[ticket].used)

\* Who took a ticket holds the lock of its row, alone; who carries its session was the
\* only one to spend it, and has not answered yet.
TicketInv ==
  /\ DOMAIN handling = Tabs
  /\ \A id \in DOMAIN rows : "used" \in DOMAIN rows[id]
  /\ DOMAIN rows \cap fresh = {}
  /\ \A c \in Tabs : handling[c].op = "taken" =>
       handling[c].id \in DOMAIN rows /\ ~rows[handling[c].id].used
  /\ \A c \in Tabs : handling[c].op = "carried" =>
       Spent(handling[c].id) /\ \A h \in handed : h.ticket # handling[c].id
  /\ \A c, d \in Tabs :
       handling[c].op \in {"taken", "carried"} /\ handling[d].op \in {"taken", "carried"}
         /\ handling[c].id = handling[d].id => c = d
  /\ \A h \in handed : Spent(h.ticket)
  /\ TicketOnce

\* Nothing is on record of an id without a row, which gets a row once; a request to log
\* out is about a row that was there.
TrailInv ==
  /\ DOMAIN handling = Tabs
  /\ trail \in [Logins -> SUBSET {"Login", "Logout"}]
  /\ DOMAIN rows \cap fresh = {}
  /\ \A id \in Logins : id \in fresh <=> trail[id] = {}
  /\ \A c \in Tabs : handling[c].op \in {"logout", "revoke"} => handling[c].id \notin fresh
  /\ TrailTellsSessions
=============================================================================
