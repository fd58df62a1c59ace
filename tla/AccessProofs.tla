----------------------------- MODULE AccessProofs -----------------------------
(***************************************************************************)
(* Proofs about who may sign in, and as what, where the apps are reached,  *)
(* and what replicas use to notify: the components TwoFactor, Sessions,    *)
(* UserAccounts, UserRoles, AppRoutes and Notifications, for all values of *)
(* the constants of MCControlPlane.  A step of MCControlPlane is one of    *)
(* the component that was chosen, so each invariant is proved of the       *)
(* component's own Next, and then of Spec.                                 *)
(***************************************************************************)
EXTENDS MCControlPlane, FiniteSetTheorems, TLAPS

-----------------------------------------------------------------------------
(* The component is chosen once.                                           *)

\* No step changes which component the behaviour is of.
LEMMA PartIsKept == [Next]_vars => part' = part
  BY DEF Next, vars

-----------------------------------------------------------------------------
(* TwoFactor.                                                              *)


enabled == v2
codes == v3
series == v4
asked == v6

\* The first codes are none.
LEMMA CodesInitially == Two!Init => Two!CodesInv
<1> SUFFICES ASSUME Two!Init PROVE Two!CodesInv
  OBVIOUS
<1>1. /\ series \in Nat /\ enabled \in BOOLEAN
      /\ codes \subseteq [code : Codes, series : Nat, used : BOOLEAN]
  BY DEF Two!Init, series, enabled, codes
<1>2. /\ DOMAIN asked = Clients
      /\ \A c \in Clients : asked[c].op = "recovered" => asked[c].last \in BOOLEAN
  BY DEF Two!Init, Two!NoRequest, asked
<1>3. codes # {} => enabled
  BY DEF Two!Init, codes
<1> QED
  BY <1>1, <1>2, <1>3 DEF Two!Init, Two!CodesInv, Two!CodesFollowTwoFactor, series, enabled,
    codes, asked

\* Every step of TwoFactor keeps CodesInv: the codes are replaced as a whole when 2FA is
\* enabled, and all of them go when it is disabled or the last is used.
LEMMA CodesKept == Two!CodesInv /\ [Two!Next]_(Two!twoFactorVars) => Two!CodesInv'
<1> SUFFICES ASSUME Two!CodesInv, [Two!Next]_(Two!twoFactorVars) PROVE Two!CodesInv'
  OBVIOUS
<1> USE DEF enabled, codes, series, asked
<1>1. /\ series \in Nat /\ enabled \in BOOLEAN
      /\ codes \subseteq [code : Codes, series : Nat, used : BOOLEAN]
      /\ \A r \in codes : r.series = series
  BY DEF Two!CodesInv, Two!CodesFollowTwoFactor
<1>2. /\ DOMAIN asked = Clients
      /\ \A d \in Clients : asked[d].op = "recovered" => asked[d].last \in BOOLEAN
  BY DEF Two!CodesInv
<1>3. codes # {} => enabled
  BY DEF Two!CodesInv, Two!CodesFollowTwoFactor
<1>4. SUFFICES /\ series' \in Nat /\ enabled' \in BOOLEAN
               /\ codes' \subseteq [code : Codes, series : Nat, used : BOOLEAN]
               /\ \A r \in codes' : r.series = series'
               /\ DOMAIN asked' = Clients
               /\ \A d \in Clients : asked'[d].op = "recovered" => asked'[d].last \in BOOLEAN
               /\ codes' # {} => enabled'
  BY DEF Two!CodesInv, Two!CodesFollowTwoFactor
<1>5. CASE UNCHANGED Two!twoFactorVars \/ Two!RequireTwoFactor
  BY <1>1, <1>2, <1>3, <1>5 DEF Two!RequireTwoFactor, Two!twoFactorVars
<1>6. ASSUME NEW c \in Clients, NEW r, asked' = [asked EXCEPT ![c] = r],
             r.op = "recovered" => r.last \in BOOLEAN
      PROVE  /\ DOMAIN asked' = Clients
             /\ \A d \in Clients : asked'[d].op = "recovered" => asked'[d].last \in BOOLEAN
  BY <1>2, <1>6
<1>7. ASSUME NEW c \in Clients, Two!Leave(c)
      PROVE  /\ DOMAIN asked' = Clients
             /\ \A d \in Clients : asked'[d].op = "recovered" => asked'[d].last \in BOOLEAN
  BY <1>6, <1>7 DEF Two!Leave, Two!NoRequest
<1>8. ASSUME NEW c \in Clients,
             \/ Two!Setup2fa(c) \/ Two!StoreSecret(c) \/ Two!Enable2fa(c)
             \/ Two!Disable2fa(c) \/ Two!RecoverWithCode(c) \/ Two!MarkCode(c)
             \/ Two!FailTwoFactor(c)
      PROVE  UNCHANGED <<series, enabled, codes>>
  BY <1>8 DEF Two!Setup2fa, Two!StoreSecret, Two!Enable2fa, Two!Disable2fa,
    Two!RecoverWithCode, Two!MarkCode, Two!FailTwoFactor
<1>9. ASSUME NEW c \in Clients,
             \/ Two!Setup2fa(c) \/ Two!Enable2fa(c) \/ Two!Disable2fa(c)
             \/ Two!RecoverWithCode(c) \/ Two!MarkCode(c)
      PROVE  /\ DOMAIN asked' = Clients
             /\ \A d \in Clients : asked'[d].op = "recovered" => asked'[d].last \in BOOLEAN
  <2>1. CASE Two!MarkCode(c)
    BY <1>6, <2>1 DEF Two!MarkCode, Two!NoRequest
  <2>2. CASE Two!Setup2fa(c) \/ Two!Enable2fa(c) \/ Two!Disable2fa(c) \/ Two!RecoverWithCode(c)
    BY <1>6, <2>2 DEF Two!Setup2fa, Two!Enable2fa, Two!Disable2fa, Two!RecoverWithCode, Two!Ask
  <2> QED
    BY <1>9, <2>1, <2>2
<1>10. ASSUME NEW c \in Clients, Two!StoreEnabled(c)
       PROVE  /\ series' \in Nat /\ enabled' \in BOOLEAN
              /\ codes' \subseteq [code : Codes, series : Nat, used : BOOLEAN]
              /\ \A r \in codes' : r.series = series'
              /\ codes' # {} => enabled'
  <2>1. series' = series + 1 /\ codes' = Two!CodesOf(series + 1) /\ enabled' = TRUE
    BY <1>10 DEF Two!StoreEnabled
  <2>2. series' \in Nat /\ enabled' \in BOOLEAN
    BY <1>1, <2>1
  <2>3. /\ codes' \subseteq [code : Codes, series : Nat, used : BOOLEAN]
        /\ \A r \in codes' : r.series = series'
    <3>1. codes' = [code : Codes, series : {series + 1}, used : {FALSE}] /\ series' = series + 1
      BY <2>1 DEF Two!CodesOf
    <3> DEFINE next == series + 1
    <3>2. next \in Nat
      BY <1>1
    <3> HIDE DEF next
    <3>3. [code : Codes, series : {next}, used : {FALSE}] \subseteq [code : Codes, series : Nat, used : BOOLEAN]
      BY <3>2
    <3>4. \A r \in [code : Codes, series : {next}, used : {FALSE}] : r.series = next
      OBVIOUS
    <3> QED
      BY <3>1, <3>3, <3>4 DEF next
  <2> QED
    BY <2>1, <2>2, <2>3
<1>11. ASSUME NEW c \in Clients, Two!StoreDisabled(c)
       PROVE  /\ series' \in Nat /\ enabled' \in BOOLEAN
              /\ codes' \subseteq [code : Codes, series : Nat, used : BOOLEAN]
              /\ \A r \in codes' : r.series = series'
              /\ codes' # {} => enabled'
  BY <1>1, <1>11 DEF Two!StoreDisabled
<1>12. ASSUME NEW c \in Clients, Two!CommitRecovery(c)
       PROVE  /\ series' \in Nat /\ enabled' \in BOOLEAN
              /\ codes' \subseteq [code : Codes, series : Nat, used : BOOLEAN]
              /\ \A r \in codes' : r.series = series'
              /\ codes' # {} => enabled'
  <2>1. asked[c].last \in BOOLEAN
    BY <1>2, <1>12 DEF Two!CommitRecovery
  <2>2. CASE asked[c].last
    BY <1>1, <1>12, <2>2 DEF Two!CommitRecovery
  <2>3. CASE ~asked[c].last
    <3>1. series' = series /\ enabled' = enabled
      BY <1>1, <1>12, <2>1, <2>3 DEF Two!CommitRecovery
    <3>2. codes' = {[r EXCEPT !.used = @ \/ Two!SameRow(r, asked[c].row)] : r \in codes}
      BY <1>12, <2>3 DEF Two!CommitRecovery
    <3>3. ASSUME NEW r \in codes
          PROVE  LET q == [r EXCEPT !.used = @ \/ Two!SameRow(r, asked[c].row)]
                 IN q \in [code : Codes, series : Nat, used : BOOLEAN] /\ q.series = series
      BY <1>1
    <3> QED
      BY <1>1, <1>3, <3>1, <3>2, <3>3
  <2> QED
    BY <2>1, <2>2, <2>3
<1> QED
  BY <1>1, <1>2, <1>3, <1>5, <1>7, <1>8, <1>9, <1>10, <1>11, <1>12
    DEF Two!Next, Two!StoreSecret, Two!FailTwoFactor, Two!StoreEnabled, Two!StoreDisabled,
      Two!CommitRecovery

\* Spec: recovery codes are there only while 2FA is on, and are those made last.
THEOREM CodesFollow == Spec => []CodesFollowTwoFactor
<1> DEFINE Inv == part = "two_factor" => Two!CodesInv
<1>1. Init => Inv
  BY CodesInitially DEF Init
<1>2. Inv /\ [Next]_vars => Inv'
  <2>1. part = "two_factor" /\ [Next]_vars => [Two!Next]_(Two!twoFactorVars)
    BY DEF Next, vars, Two!twoFactorVars
  <2> QED
    BY <2>1, PartIsKept, CodesKept
<1>3. Inv => CodesFollowTwoFactor
  BY DEF Two!CodesInv, CodesFollowTwoFactor
<1> QED
  BY <1>1, <1>2, <1>3, PTL DEF Spec

-----------------------------------------------------------------------------
(* Sessions.                                                               *)

rows == v2
fresh == v3
handling == v5
handed == v6
trail == v7
purged == v8

\* Nobody has asked for anything yet.
LEMMA SessionsInitially ==
  ASSUME Sess!Init PROVE Sess!TicketInv /\ Sess!TrailInv
<1> USE DEF rows, fresh, handling, handed, trail, purged
<1>1. handling = [c \in Tabs |-> [op |-> "idle"]] /\ handed = {} /\ purged = {}
      /\ fresh = Logins \cup Tickets /\ trail = [id \in Logins |-> {}] /\ rows = <<>>
  BY DEF Sess!Init, Sess!Idle, Sess!Ids
<1>2. DOMAIN rows = {}
  BY <1>1
<1>3. Sess!TicketInv
  BY <1>1, <1>2 DEF Sess!TicketInv, Sess!TicketOnce
<1>4. Sess!TrailInv
  BY <1>1, <1>2 DEF Sess!TrailInv, Sess!TrailTellsSessions
<1> QED
  BY <1>3, <1>4

\* What a step that writes neither locks nor rows has to keep is what each tab does.
LEMMA TicketKept == Sess!TicketInv /\ [Sess!Next]_(Sess!sessionVars) => Sess!TicketInv'
<1> SUFFICES ASSUME Sess!TicketInv, [Sess!Next]_(Sess!sessionVars) PROVE Sess!TicketInv'
  OBVIOUS
<1> USE DEF rows, fresh, handling, handed
<1> DEFINE Has(c) == handling[c].op \in {"taken", "carried"}
<1>1. /\ DOMAIN handling = Tabs
      /\ \A id \in DOMAIN rows : "used" \in DOMAIN rows[id]
      /\ DOMAIN rows \cap fresh = {}
      /\ \A c \in Tabs : handling[c].op = "taken" =>
           handling[c].id \in DOMAIN rows /\ ~rows[handling[c].id].used
      /\ \A c \in Tabs : handling[c].op = "carried" =>
           Sess!Spent(handling[c].id) /\ \A h \in handed : h.ticket # handling[c].id
      /\ \A c, d \in Tabs : Has(c) /\ Has(d) /\ handling[c].id = handling[d].id => c = d
      /\ \A h \in handed : Sess!Spent(h.ticket)
      /\ \A h, g \in handed : h.ticket = g.ticket => h = g
  BY DEF Sess!TicketInv, Sess!TicketOnce
<1>2. CASE UNCHANGED Sess!sessionVars
  BY <1>2 DEF Sess!sessionVars, Sess!TicketInv, Sess!TicketOnce, Sess!Spent
<1>3. ASSUME UNCHANGED <<rows, fresh, handed>>, NEW c \in Tabs, NEW r,
             handling' = [handling EXCEPT ![c] = r], r.op \notin {"taken", "carried"}
      PROVE  Sess!TicketInv'
  BY <1>1, <1>3 DEF Sess!TicketInv, Sess!TicketOnce, Sess!Spent
<1>4. ASSUME NEW c \in Tabs, NEW u \in Users, Sess!Login(c, u) PROVE Sess!TicketInv'
  BY <1>3, <1>4 DEF Sess!Login, Sess!Start
<1>5. ASSUME NEW c \in Tabs, NEW id \in Logins, Sess!CommitLogin(c, id) PROVE Sess!TicketInv'
  <2>1. /\ rows' = Sess!With(rows, id, Sess!Row(handling[c].user, {}))
        /\ fresh' = fresh \ {id} /\ id \in fresh /\ handed' = handed
    BY <1>5 DEF Sess!CommitLogin
  <2>2. handling' = [handling EXCEPT ![c] = [op |-> "cookies", id |-> id,
                       user |-> handling[c].user, cookies |-> handling[c].cookies]]
    BY <1>5 DEF Sess!CommitLogin
  <2>3. /\ DOMAIN rows' = DOMAIN rows \cup {id}
        /\ \A z \in DOMAIN rows : rows'[z] = rows[z]
        /\ "used" \in DOMAIN rows'[id]
    BY <1>1, <2>1 DEF Sess!With, Sess!Row
  <2>4. \A t : Sess!Spent(t) => Sess!Spent(t)'
    BY <2>1, <2>3 DEF Sess!Spent
  <2> QED
    BY <1>1, <2>1, <2>2, <2>3, <2>4 DEF Sess!TicketInv, Sess!TicketOnce
<1>6. ASSUME NEW c \in Tabs, Sess!AnswerLogin(c) PROVE Sess!TicketInv'
  BY <1>3, <1>6 DEF Sess!AnswerLogin, Sess!Finish, Sess!Idle
<1>7. ASSUME NEW c \in Tabs, NEW s \in Sess!Slots, Sess!SwitchSession(c, s) PROVE Sess!TicketInv'
  BY <1>7 DEF Sess!SwitchSession, Sess!TicketInv, Sess!TicketOnce, Sess!Spent
<1>8. ASSUME NEW c \in Tabs, Sess!Logout(c) PROVE Sess!TicketInv'
  <2>1. CASE UNCHANGED handling
    BY <1>8, <2>1 DEF Sess!Logout, Sess!TicketInv, Sess!TicketOnce, Sess!Spent
  <2>2. CASE \E id : Sess!Start(c, [op |-> "logout", id |-> id])
    BY <1>3, <1>8, <2>2 DEF Sess!Logout, Sess!Start
  <2> QED
    BY <1>8, <2>1, <2>2 DEF Sess!Logout
<1>9. ASSUME NEW c \in Tabs, NEW id \in Sess!Ids, Sess!RevokeSession(c, id) PROVE Sess!TicketInv'
  BY <1>3, <1>9 DEF Sess!RevokeSession, Sess!Start
<1>10. ASSUME NEW c \in Tabs, NEW id, ~Sess!Locked(id), rows' = Sess!Without(rows, id),
              UNCHANGED <<fresh, handed>>,
              UNCHANGED handling \/ (handling[c].op \notin {"taken", "carried"} /\ Sess!Finish(c))
       PROVE  Sess!TicketInv'
  <2>1. DOMAIN rows' = DOMAIN rows \ {id} /\ \A z \in DOMAIN rows' : rows'[z] = rows[z]
    BY <1>10 DEF Sess!Without, Sess!Restrict
  <2>2. \A t : Sess!Spent(t) => Sess!Spent(t)'
    BY <1>10, <2>1 DEF Sess!Spent
  <2>3. \A d \in Tabs : handling'[d] = handling[d] \/ handling'[d].op = "idle"
    BY <1>1, <1>10 DEF Sess!Finish, Sess!Idle
  <2>4. DOMAIN handling' = Tabs
    BY <1>1, <1>10 DEF Sess!Finish
  <2>5. \A d \in Tabs : handling[d].op = "taken" => handling[d].id # id
    BY <1>10 DEF Sess!Locked
  <2> QED
    BY <1>1, <1>10, <2>1, <2>2, <2>3, <2>4, <2>5 DEF Sess!TicketInv, Sess!TicketOnce
<1>11. ASSUME NEW c \in Tabs, Sess!DeleteSession(c) PROVE Sess!TicketInv'
  BY <1>10, <1>11 DEF Sess!DeleteSession
<1>12. ASSUME NEW c \in Tabs, NEW ticket \in Tickets, Sess!StartHostTransfer(c, ticket)
       PROVE  Sess!TicketInv'
  <2>1. PICK u, source : rows' = Sess!With(rows, ticket, Sess!Row(u, source))
    BY <1>12 DEF Sess!StartHostTransfer
  <2>2. fresh' = fresh \ {ticket} /\ ticket \in fresh /\ UNCHANGED <<handling, handed>>
    BY <1>12 DEF Sess!StartHostTransfer
  <2>3. /\ DOMAIN rows' = DOMAIN rows \cup {ticket}
        /\ \A z \in DOMAIN rows : rows'[z] = rows[z]
        /\ "used" \in DOMAIN rows'[ticket]
    BY <1>1, <2>1, <2>2 DEF Sess!With, Sess!Row
  <2>4. \A t : Sess!Spent(t) => Sess!Spent(t)'
    BY <2>2, <2>3 DEF Sess!Spent
  <2> QED
    BY <1>1, <2>2, <2>3, <2>4 DEF Sess!TicketInv, Sess!TicketOnce
<1>13. ASSUME NEW c \in Tabs, NEW ticket \in Tickets, Sess!CompleteHostTransfer(c, ticket)
       PROVE  Sess!TicketInv'
  BY <1>3, <1>13 DEF Sess!CompleteHostTransfer, Sess!Start
<1>14. ASSUME NEW c \in Tabs, Sess!TakeTicket(c) PROVE Sess!TicketInv'
  <2> DEFINE ticket == handling[c].id
  <2>1. UNCHANGED <<rows, fresh, handed>> /\ ~Sess!Locked(ticket)
    BY <1>14 DEF Sess!TakeTicket
  <2>2. CASE ticket \in DOMAIN rows /\ ~rows[ticket].used
    <3>1. handling' = [handling EXCEPT ![c] = [op |-> "taken", id |-> ticket]]
      BY <1>14, <2>2 DEF Sess!TakeTicket
    <3>2. \A d \in Tabs : Has(d) => handling[d].id # ticket
      BY <1>1, <2>1, <2>2 DEF Sess!Locked, Sess!Spent
    <3> QED
      BY <1>1, <2>1, <2>2, <3>1, <3>2 DEF Sess!TicketInv, Sess!TicketOnce, Sess!Spent
  <2>3. CASE ~(ticket \in DOMAIN rows /\ ~rows[ticket].used)
    <3>1. handling' = [handling EXCEPT ![c] = Sess!Idle]
      BY <1>14, <2>3 DEF Sess!TakeTicket
    <3> QED
      BY <1>3, <2>1, <3>1 DEF Sess!Idle
  <2> QED
    BY <2>2, <2>3
<1>15. ASSUME NEW c \in Tabs, Sess!CommitTransfer(c) PROVE Sess!TicketInv'
  <2>0. PICK ticket : ticket = handling[c].id
    OBVIOUS
  <2>1. handling[c].op = "taken" /\ UNCHANGED <<fresh, handed>>
    BY <1>15 DEF Sess!CommitTransfer
  <2>2. CASE Sess!SourceIsGood(ticket)
    <3>1. handling' = [handling EXCEPT ![c] = [op |-> "carried", id |-> ticket,
                         user |-> rows[ticket].user, source |-> rows[ticket].source]]
          /\ rows' = [rows EXCEPT ![ticket].used = TRUE]
      BY <1>15, <2>0, <2>2 DEF Sess!CommitTransfer
    <3>2. /\ DOMAIN rows' = DOMAIN rows
          /\ \A z \in DOMAIN rows : z # ticket => rows'[z] = rows[z]
          /\ ticket \in DOMAIN rows /\ ~rows[ticket].used
          /\ rows'[ticket].used = TRUE /\ "used" \in DOMAIN rows'[ticket]
      BY <1>1, <2>0, <2>1, <3>1
    <3>3. \A t : Sess!Spent(t) => Sess!Spent(t)'
      BY <2>1, <3>2 DEF Sess!Spent
    <3>4. \A h \in handed : h.ticket # ticket
      BY <1>1, <3>2 DEF Sess!Spent
    <3>5. ticket \notin fresh'
      BY <1>1, <2>0, <2>1, <3>2
    <3>6. Sess!Spent(ticket)'
      BY <3>2, <3>5 DEF Sess!Spent
    <3> QED
      BY <1>1, <2>0, <2>1, <3>1, <3>2, <3>3, <3>4, <3>6 DEF Sess!TicketInv, Sess!TicketOnce
  <2>3. CASE ~Sess!SourceIsGood(ticket)
    BY <1>3, <1>15, <2>0, <2>1, <2>3 DEF Sess!CommitTransfer, Sess!Finish, Sess!Idle
  <2> QED
    BY <2>2, <2>3
<1>16. ASSUME NEW c \in Tabs, Sess!AnswerTransfer(c) PROVE Sess!TicketInv'
  <2>1. /\ handling[c].op = "carried" /\ UNCHANGED <<rows, fresh>>
        /\ handling' = [handling EXCEPT ![c] = Sess!Idle]
    BY <1>16 DEF Sess!AnswerTransfer, Sess!Finish
  <2>2. handed' \in {handed, handed \cup {[tab |-> c, ticket |-> handling[c].id,
                                           source |-> handling[c].source]}}
    BY <1>16 DEF Sess!AnswerTransfer
  <2> QED
    BY <1>1, <2>1, <2>2 DEF Sess!TicketInv, Sess!TicketOnce, Sess!Spent, Sess!Idle
<1>17. ASSUME NEW c \in Tabs, Sess!FailRequest(c) PROVE Sess!TicketInv'
  BY <1>3, <1>17 DEF Sess!FailRequest, Sess!Finish, Sess!Idle
<1>18. ASSUME NEW u \in Users, NEW right \in Sess!Rights, Sess!Withdraw(u, right)
       PROVE  Sess!TicketInv'
  BY <1>18 DEF Sess!Withdraw, Sess!TicketInv, Sess!TicketOnce, Sess!Spent
<1>19. ASSUME NEW id \in Sess!Ids, Sess!Expire(id) PROVE Sess!TicketInv'
  <2>1. /\ rows' = [rows EXCEPT ![id].expired = TRUE]
        /\ UNCHANGED <<fresh, handling, handed>>
    BY <1>19 DEF Sess!Expire
  <2>2. /\ DOMAIN rows' = DOMAIN rows
        /\ \A z \in DOMAIN rows : rows'[z].used = rows[z].used /\ "used" \in DOMAIN rows'[z]
    BY <1>1, <2>1
  <2> QED
    BY <1>1, <2>1, <2>2 DEF Sess!TicketInv, Sess!TicketOnce, Sess!Spent
<1>20. ASSUME NEW id \in Sess!Ids, Sess!PurgeSession(id) PROVE Sess!TicketInv'
  <2>1. CASE Tabs = {}
    BY <1>1, <1>20, <2>1 DEF Sess!PurgeSession, Sess!TicketInv, Sess!TicketOnce, Sess!Spent,
      Sess!Without, Sess!Restrict
  <2>2. CASE \E c : c \in Tabs
    BY <1>10, <1>20, <2>2 DEF Sess!PurgeSession
  <2> QED
    BY <2>1, <2>2
<1> QED
  BY <1>2, <1>4, <1>5, <1>6, <1>7, <1>8, <1>9, <1>11, <1>12, <1>13, <1>14, <1>15, <1>16, <1>17,
    <1>18, <1>19, <1>20 DEF Sess!Next

\* What a step is that leaves the trail and the rows alone.
LEMMA TrailUntouched ==
  ASSUME Sess!TrailInv, UNCHANGED <<rows, fresh, trail, purged>>, NEW c \in Tabs, NEW r,
         handling' = [handling EXCEPT ![c] = r],
         r.op \in {"logout", "revoke"} => r.id \notin fresh
  PROVE  Sess!TrailInv'
  BY DEF Sess!TrailInv, Sess!TrailTellsSessions, rows, fresh, handling, trail, purged

\* Every step of Sessions keeps TrailInv: a login and a logout write their record with the
\* row, and what a transfer inserts is no login.
LEMMA TrailKept ==
  ASSUME Sess!IdsAssumption PROVE Sess!TrailInv /\ [Sess!Next]_(Sess!sessionVars) => Sess!TrailInv'
<1> SUFFICES ASSUME Sess!TrailInv, [Sess!Next]_(Sess!sessionVars) PROVE Sess!TrailInv'
  OBVIOUS
<1> USE DEF rows, fresh, handling, trail, purged
<1>1. /\ DOMAIN handling = Tabs
      /\ trail \in [Logins -> SUBSET {"Login", "Logout"}]
      /\ DOMAIN rows \cap fresh = {}
      /\ \A id \in Logins : id \in fresh <=> trail[id] = {}
      /\ \A d \in Tabs : handling[d].op \in {"logout", "revoke"} => handling[d].id \notin fresh
      /\ \A id \in Logins : id \in DOMAIN rows => trail[id] = {"Login"}
      /\ \A id \in Logins : trail[id] = {"Login"} => id \in DOMAIN rows \cup purged
      /\ \A id \in Logins : "Logout" \in trail[id] => trail[id] = {"Login", "Logout"}
  BY DEF Sess!TrailInv, Sess!TrailTellsSessions
<1>2. CASE UNCHANGED Sess!sessionVars
  BY <1>2 DEF Sess!sessionVars, Sess!TrailInv, Sess!TrailTellsSessions
<1>3. ASSUME NEW c \in Tabs,
             \/ \E u \in Users : Sess!Login(c, u)
             \/ Sess!AnswerLogin(c) \/ Sess!Logout(c)
             \/ \E id \in Sess!Ids : Sess!RevokeSession(c, id)
             \/ \E ticket \in Tickets : Sess!CompleteHostTransfer(c, ticket)
             \/ Sess!TakeTicket(c) \/ Sess!AnswerTransfer(c) \/ Sess!FailRequest(c)
      PROVE  Sess!TrailInv'
  <2> USE DEF Sess!Start, Sess!Finish, Sess!Idle
  <2>1. CASE \/ \E u \in Users : Sess!Login(c, u)
             \/ \E ticket \in Tickets : Sess!CompleteHostTransfer(c, ticket)
    BY <2>1, TrailUntouched DEF Sess!Login, Sess!CompleteHostTransfer
  <2>2. CASE Sess!AnswerLogin(c) \/ Sess!AnswerTransfer(c) \/ Sess!FailRequest(c)
    BY <2>2, TrailUntouched DEF Sess!AnswerLogin, Sess!AnswerTransfer, Sess!FailRequest
  <2>3. CASE Sess!Logout(c)
    <3>1. CASE UNCHANGED handling
      BY <2>3, <3>1 DEF Sess!Logout, Sess!TrailInv, Sess!TrailTellsSessions
    <3>2. CASE \E id \in DOMAIN rows : Sess!Start(c, [op |-> "logout", id |-> id])
      BY <1>1, <2>3, <3>2, TrailUntouched DEF Sess!Logout
    <3> QED
      BY <2>3, <3>1, <3>2 DEF Sess!Logout, Sess!Live
  <2>4. CASE \E id \in Sess!Ids : Sess!RevokeSession(c, id)
    <3>1. PICK id : Sess!RevokeSession(c, id)
      BY <2>4
    <3>2. /\ id \in DOMAIN rows /\ UNCHANGED <<rows, fresh, trail, purged>>
          /\ handling' = [handling EXCEPT ![c] = [op |-> "revoke", id |-> id]]
      BY <3>1 DEF Sess!RevokeSession
    <3> QED
      BY <1>1, <3>2, TrailUntouched
  <2>5. CASE Sess!TakeTicket(c)
    <3>1. PICK r \in {[op |-> "taken", id |-> handling[c].id], Sess!Idle} :
            handling' = [handling EXCEPT ![c] = r]
      BY <2>5 DEF Sess!TakeTicket
    <3> QED
      BY <2>5, <3>1, TrailUntouched DEF Sess!TakeTicket
  <2> QED
    BY <1>3, <2>1, <2>2, <2>3, <2>4, <2>5
<1>4. ASSUME NEW c \in Tabs, NEW id \in Logins, Sess!CommitLogin(c, id) PROVE Sess!TrailInv'
  <2>1. /\ rows' = Sess!With(rows, id, Sess!Row(handling[c].user, {}))
        /\ fresh' = fresh \ {id} /\ id \in fresh /\ purged' = purged
        /\ trail' = [trail EXCEPT ![id] = @ \cup {"Login"}]
    BY <1>4 DEF Sess!CommitLogin
  <2>2. /\ DOMAIN handling' = Tabs
        /\ \A d \in Tabs : handling'[d] = handling[d] \/ handling'[d].op = "cookies"
    BY <1>1, <1>4 DEF Sess!CommitLogin
  <2>3. DOMAIN rows' = DOMAIN rows \cup {id}
    BY <2>1 DEF Sess!With
  <2>4. trail[id] = {} /\ trail'[id] = {"Login"}
    BY <1>1, <2>1
  <2> QED
    BY <1>1, <2>1, <2>2, <2>3, <2>4 DEF Sess!TrailInv, Sess!TrailTellsSessions
<1>5. ASSUME NEW c \in Tabs, Sess!DeleteSession(c) PROVE Sess!TrailInv'
  <2>1. PICK id : id = handling[c].id
    OBVIOUS
  <2>2. /\ handling[c].op \in {"logout", "revoke"} /\ rows' = Sess!Without(rows, id)
        /\ handling' = [handling EXCEPT ![c] = Sess!Idle] /\ UNCHANGED <<fresh, purged>>
        /\ trail' = Sess!Audit(id, "Logout")
    BY <1>5, <2>1 DEF Sess!DeleteSession, Sess!Finish
  <2>3. DOMAIN rows' = DOMAIN rows \ {id} /\ id \notin fresh
    BY <1>1, <2>1, <2>2 DEF Sess!Without, Sess!Restrict
  <2>4. /\ DOMAIN handling' = Tabs
        /\ \A d \in Tabs : handling'[d] = handling[d] \/ handling'[d].op = "idle"
    BY <1>1, <2>2 DEF Sess!Idle
  <2>5. CASE id \in Logins
    <3>1. trail' = [trail EXCEPT ![id] = @ \cup {"Logout"}]
      BY <2>2, <2>5 DEF Sess!Audit
    <3>2. trail[id] # {} /\ trail[id] \subseteq {"Login", "Logout"}
      BY <1>1, <2>3, <2>5
    <3>3. "Login" \in trail[id]
      BY <1>1, <2>5, <3>2
    <3>4. trail'[id] = {"Login", "Logout"} /\ trail' \in [Logins -> SUBSET {"Login", "Logout"}]
      BY <1>1, <2>5, <3>1, <3>2, <3>3
    <3>5. \A z \in Logins : z # id => trail'[z] = trail[z]
      BY <1>1, <3>1
    <3> QED
      BY <1>1, <2>2, <2>3, <2>4, <3>4, <3>5 DEF Sess!TrailInv, Sess!TrailTellsSessions
  <2>6. CASE id \notin Logins
    <3>1. trail' = trail
      BY <2>2, <2>6 DEF Sess!Audit
    <3> QED
      BY <1>1, <2>2, <2>3, <2>4, <2>6, <3>1 DEF Sess!TrailInv, Sess!TrailTellsSessions
  <2> QED
    BY <2>5, <2>6
<1>6. ASSUME NEW c \in Tabs, NEW ticket \in Tickets, Sess!StartHostTransfer(c, ticket)
      PROVE  Sess!TrailInv'
  <2>1. PICK r : rows' = Sess!With(rows, ticket, r)
    BY <1>6 DEF Sess!StartHostTransfer
  <2>2. fresh' = fresh \ {ticket} /\ UNCHANGED <<handling, trail, purged>>
    BY <1>6 DEF Sess!StartHostTransfer
  <2>3. DOMAIN rows' = DOMAIN rows \cup {ticket} /\ ticket \notin Logins
    BY <2>1 DEF Sess!With, Sess!IdsAssumption
  <2> QED
    BY <1>1, <2>2, <2>3 DEF Sess!TrailInv, Sess!TrailTellsSessions
<1>7. ASSUME NEW c \in Tabs, Sess!CommitTransfer(c) PROVE Sess!TrailInv'
  <2>1. DOMAIN rows' = DOMAIN rows /\ UNCHANGED <<fresh, trail, purged>>
    BY <1>7 DEF Sess!CommitTransfer
  <2>2. /\ DOMAIN handling' = Tabs
        /\ \A d \in Tabs : handling'[d] = handling[d] \/ handling'[d].op \in {"carried", "idle"}
    BY <1>1, <1>7 DEF Sess!CommitTransfer, Sess!Finish, Sess!Idle
  <2> QED
    BY <1>1, <2>1, <2>2 DEF Sess!TrailInv, Sess!TrailTellsSessions
<1>8. ASSUME \/ \E c \in Tabs, s \in Sess!Slots : Sess!SwitchSession(c, s)
             \/ \E u \in Users, right \in Sess!Rights : Sess!Withdraw(u, right)
             \/ \E id \in Sess!Ids : Sess!Expire(id)
      PROVE  Sess!TrailInv'
  <2>1. DOMAIN rows' = DOMAIN rows /\ UNCHANGED <<fresh, handling, trail, purged>>
    BY <1>8 DEF Sess!SwitchSession, Sess!Withdraw, Sess!Expire
  <2> QED
    BY <1>1, <2>1 DEF Sess!TrailInv, Sess!TrailTellsSessions
<1>9. ASSUME NEW id \in Sess!Ids, Sess!PurgeSession(id) PROVE Sess!TrailInv'
  <2>1. /\ rows' = Sess!Without(rows, id) /\ purged' = purged \cup {id}
        /\ UNCHANGED <<fresh, handling, trail>>
    BY <1>9 DEF Sess!PurgeSession
  <2>2. DOMAIN rows' = DOMAIN rows \ {id}
    BY <2>1 DEF Sess!Without, Sess!Restrict
  <2> QED
    BY <1>1, <2>1, <2>2 DEF Sess!TrailInv, Sess!TrailTellsSessions
<1> QED
  BY <1>2, <1>3, <1>4, <1>5, <1>6, <1>7, <1>8, <1>9 DEF Sess!Next

\* Spec: one request is handed the session of a transfer ticket, whichever present it.
THEOREM TicketsOnce == Spec => []TicketOnce
<1> DEFINE Inv == part = "sessions" => Sess!TicketInv
<1>1. Init => Inv
  BY SessionsInitially DEF Init
<1>2. Inv /\ [Next]_vars => Inv'
  <2>1. part = "sessions" /\ [Next]_vars => [Sess!Next]_(Sess!sessionVars)
    BY DEF Next, vars, Sess!sessionVars
  <2> QED
    BY <2>1, PartIsKept, TicketKept
<1>3. Inv => TicketOnce
  BY DEF Sess!TicketInv, TicketOnce
<1> QED
  BY <1>1, <1>2, <1>3, PTL DEF Spec

\* Spec: a login has its row until its end is on record or the scheduler removed it.
THEOREM TrailTells == Spec => []TrailTellsSessions
<1> DEFINE Inv == part = "sessions" => Sess!TrailInv
<1>1. Init => Inv
  BY SessionsInitially DEF Init
<1>2. Inv /\ [Next]_vars => Inv'
  <2>1. part = "sessions" /\ [Next]_vars => [Sess!Next]_(Sess!sessionVars)
    BY DEF Next, vars, Sess!sessionVars
  <2> QED
    BY <2>1, PartIsKept, TrailKept, SessIdsAssumption
<1>3. Inv => TrailTellsSessions
  BY DEF Sess!TrailInv, TrailTellsSessions
<1> QED
  BY <1>1, <1>2, <1>3, PTL DEF Spec

-----------------------------------------------------------------------------
(* UserAccounts.                                                           *)

users == v1
unborn == v2
invites == v3
uninvited == v4
pending == v6
invited == v7

\* Nobody has used an invite.
LEMMA InvitesInitially == Acc!Init => Acc!InviteInv
<1> SUFFICES ASSUME Acc!Init PROVE Acc!InviteInv
  OBVIOUS
<1>1. /\ DOMAIN v1 = {1} /\ v2 = Acc!People \ {1}
      /\ v3 = <<>> /\ v7 = {}
  BY DEF Acc!Init
<1>2. DOMAIN v3 = {}
  BY <1>1
<1>3. v3 \in [DOMAIN v3 -> [creator : Acc!People, user : SUBSET Acc!People, expired : BOOLEAN]]
  BY <1>1
<1> QED
  BY <1>1, <1>2, <1>3 DEF Acc!InviteInv, Acc!InviteAdmitsOne

\* Writing a column of an invite's row leaves a row.
LEMMA InviteRowWritten ==
  ASSUME NEW P, NEW r \in [creator : P, user : SUBSET P, expired : BOOLEAN], NEW S \in SUBSET P
  PROVE  /\ [r EXCEPT !.user = S] \in [creator : P, user : SUBSET P, expired : BOOLEAN]
         /\ [r EXCEPT !.user = S].user = S
         /\ [r EXCEPT !.expired = TRUE] \in [creator : P, user : SUBSET P, expired : BOOLEAN]
         /\ [r EXCEPT !.expired = TRUE].user = r.user
<1>1. [r EXCEPT !.user = S] \in [creator : P, user : SUBSET P, expired : BOOLEAN]
  OBVIOUS
<1>2. [r EXCEPT !.expired = TRUE] \in [creator : P, user : SUBSET P, expired : BOOLEAN]
  OBVIOUS
<1> QED
  BY <1>1, <1>2

\* Every step of UserAccounts keeps InviteInv: a registration takes an invite nobody used,
\* for an account with an id of its own, and an account that is named in one is not deleted.
LEMMA InvitesKept == Acc!InviteInv /\ [Acc!Next]_(Acc!accountVars) => Acc!InviteInv'
<1> SUFFICES ASSUME Acc!InviteInv, [Acc!Next]_(Acc!accountVars) PROVE Acc!InviteInv'
  OBVIOUS
<1> USE DEF users, unborn, invites, uninvited, pending, invited
<1> DEFINE InviteRows == [creator : Acc!People, user : SUBSET Acc!People, expired : BOOLEAN]
<1>1. /\ DOMAIN users \cap unborn = {}
      /\ DOMAIN invites \cap uninvited = {}
      /\ invites \in [DOMAIN invites -> InviteRows]
      /\ \A u \in invited : u = <<u[1], u[2]>> /\ u[1] \notin uninvited /\ u[2] \notin unborn
      /\ \A u, v \in invited : u[1] = v[1] => u = v
      /\ \A u \in invited : u[1] \in DOMAIN invites =>
           invites[u[1]].user = {u[2]} /\ u[2] \in DOMAIN users
  BY DEF Acc!InviteInv, Acc!InviteAdmitsOne
<1>2. ASSUME DOMAIN users' = DOMAIN users, UNCHANGED <<unborn, invites, uninvited, invited>>
      PROVE  Acc!InviteInv'
  BY <1>1, <1>2 DEF Acc!InviteInv, Acc!InviteAdmitsOne
<1>3. CASE UNCHANGED Acc!accountVars
  BY <1>2, <1>3 DEF Acc!accountVars
<1>4. ASSUME \/ \E c \in Callers :
                  \/ \E n \in Names, code \in Acc!InviteCodes, policy \in Acc!Policies :
                       Acc!Register(c, n, code, policy)
                  \/ \E n \in Names : Acc!CreateUser(c, n)
                  \/ \E x \in Identities, n \in Names : Acc!OauthCallback(c, x, n)
                  \/ \E x \in Identities, p \in Acc!People : Acc!OauthLink(c, x, p)
                  \/ \E p \in Acc!People : Acc!RejectUser(c, p) \/ Acc!DeleteUser(c, p)
                  \/ Acc!InsertLink(c) \/ Acc!FailPending(c)
             \/ \E p \in Acc!People : Acc!UpdateUser(p) \/ \E n \in Names : Acc!RenameUser(p, n)
             \/ \E x \in Identities : Acc!UnlinkAccount(x)
      PROVE  Acc!InviteInv'
  <2>1. DOMAIN users' = DOMAIN users /\ UNCHANGED <<unborn, invites, uninvited, invited>>
    BY <1>4 DEF Acc!Register, Acc!CreateUser, Acc!OauthCallback, Acc!OauthLink, Acc!RejectUser,
      Acc!DeleteUser, Acc!InsertLink, Acc!FailPending, Acc!UpdateUser, Acc!RenameUser,
      Acc!UnlinkAccount
  <2> QED
    BY <1>2, <2>1
<1>5. ASSUME NEW p, NEW n, NEW ok, Acc!InsertUser(p, n, ok)
      PROVE  /\ p \in unborn /\ unborn' = unborn \ {p} /\ DOMAIN users' = DOMAIN users \cup {p}
  BY <1>5 DEF Acc!InsertUser, Acc!Put
<1>6. ASSUME NEW c \in Callers, NEW p \in Acc!People, Acc!CommitUser(c, p) \/ Acc!AdoptIdentity(c, p)
      PROVE  Acc!InviteInv'
  <2>1. /\ p \in unborn /\ unborn' = unborn \ {p} /\ DOMAIN users' = DOMAIN users \cup {p}
        /\ UNCHANGED <<invites, uninvited, invited>>
    BY <1>5, <1>6 DEF Acc!CommitUser, Acc!AdoptIdentity
  <2> QED
    BY <1>1, <2>1 DEF Acc!InviteInv, Acc!InviteAdmitsOne
<1>7. ASSUME NEW c \in Callers, NEW p \in Acc!People, Acc!CommitRegistration(c, p)
      PROVE  Acc!InviteInv'
  <2>1. PICK code : code = pending[c].code
    OBVIOUS
  <2>2. /\ p \in unborn /\ unborn' = unborn \ {p} /\ DOMAIN users' = DOMAIN users \cup {p}
        /\ UNCHANGED uninvited
    BY <1>5, <1>7 DEF Acc!CommitRegistration
  <2>3. /\ \A i \in code : i \in DOMAIN invites /\ invites[i].user = {}
        /\ invites' = [i \in DOMAIN invites |-> [invites[i] EXCEPT !.user =
                                                   IF i \in code THEN {p} ELSE @]]
        /\ invited' = invited \cup {<<i, p>> : i \in code}
    BY <1>7, <2>1 DEF Acc!CommitRegistration, Acc!ClaimInvite
  <2>4. /\ DOMAIN invites' = DOMAIN invites
        /\ \A i \in DOMAIN invites : invites'[i].user = IF i \in code THEN {p} ELSE invites[i].user
        /\ invites' \in [DOMAIN invites' -> InviteRows]
    <3>1. ASSUME NEW i \in DOMAIN invites
          PROVE  /\ invites'[i] = [invites[i] EXCEPT !.user = IF i \in code THEN {p} ELSE @]
                 /\ invites[i] \in InviteRows
      BY <1>1, <2>3
    <3>2. ASSUME NEW i \in DOMAIN invites
          PROVE  /\ invites'[i] \in InviteRows
                 /\ invites'[i].user = IF i \in code THEN {p} ELSE invites[i].user
      <4>1. PICK S \in SUBSET Acc!People : S = IF i \in code THEN {p} ELSE invites[i].user
        BY <3>1
      <4>2. invites[i] \in InviteRows /\ invites'[i] = [invites[i] EXCEPT !.user = S]
        BY <3>1, <4>1
      <4>3. [invites[i] EXCEPT !.user = S] \in InviteRows /\ [invites[i] EXCEPT !.user = S].user = S
        BY <4>2, InviteRowWritten
      <4> QED
        BY <4>1, <4>2, <4>3
    <3> QED
      BY <2>3, <3>2
  <2>5. \A u \in invited : u[1] \notin code
    BY <1>1, <2>3
  <2>6. ASSUME NEW u \in invited'
        PROVE  \/ u \in invited /\ u[1] \notin code
               \/ u = <<u[1], u[2]>> /\ u[1] \in code /\ u[2] = p
    BY <2>3, <2>5
  <2>7. ASSUME NEW u \in invited'
        PROVE  /\ u = <<u[1], u[2]>> /\ u[1] \notin uninvited' /\ u[2] \notin unborn'
               /\ u[1] \in DOMAIN invites' => invites'[u[1]].user = {u[2]} /\ u[2] \in DOMAIN users'
    <3>1. CASE u \in invited /\ u[1] \notin code
      BY <1>1, <2>2, <2>4, <3>1
    <3>2. CASE u = <<u[1], u[2]>> /\ u[1] \in code /\ u[2] = p
      BY <1>1, <2>2, <2>3, <2>4, <3>2
    <3> QED
      BY <2>6, <3>1, <3>2
  <2>8. ASSUME NEW u \in invited', NEW v \in invited', u[1] = v[1] PROVE u = v
    <3>1. CASE u[1] \in code
      BY <2>6, <2>8, <3>1
    <3>2. CASE u[1] \notin code
      BY <1>1, <2>6, <2>8, <3>2
    <3> QED
      BY <3>1, <3>2
  <2>9. DOMAIN users' \cap unborn' = {} /\ DOMAIN invites' \cap uninvited' = {}
    BY <1>1, <2>2, <2>4
  <2> QED
    BY <2>4, <2>7, <2>8, <2>9 DEF Acc!InviteInv, Acc!InviteAdmitsOne
<1>8. ASSUME NEW i \in Invites, NEW p \in Acc!People, Acc!CreateInvite(i, p) PROVE Acc!InviteInv'
  <2>1. /\ i \in uninvited /\ uninvited' = uninvited \ {i} /\ UNCHANGED <<users, unborn, invited>>
        /\ DOMAIN invites' = DOMAIN invites \cup {i}
        /\ \A j \in DOMAIN invites : j # i => invites'[j] = invites[j]
        /\ invites'[i] = [creator |-> p, user |-> {}, expired |-> FALSE]
        /\ invites' \in [DOMAIN invites' -> InviteRows]
    BY <1>1, <1>8 DEF Acc!CreateInvite, Acc!Put
  <2> QED
    BY <1>1, <2>1 DEF Acc!InviteInv, Acc!InviteAdmitsOne
<1>9. ASSUME NEW i \in Invites, Acc!DeleteInvite(i) PROVE Acc!InviteInv'
  <2>1. /\ DOMAIN invites' = DOMAIN invites \ {i}
        /\ \A j \in DOMAIN invites' : invites'[j] = invites[j]
        /\ invites' \in [DOMAIN invites' -> InviteRows]
        /\ UNCHANGED <<users, unborn, uninvited, invited>>
    BY <1>1, <1>9 DEF Acc!DeleteInvite, Acc!Cut, Acc!Restrict
  <2> QED
    BY <1>1, <2>1 DEF Acc!InviteInv, Acc!InviteAdmitsOne
<1>10. ASSUME NEW i \in Invites, Acc!InviteExpires(i) PROVE Acc!InviteInv'
  <2>1. /\ DOMAIN invites' = DOMAIN invites
        /\ \A j \in DOMAIN invites : invites'[j].user = invites[j].user
        /\ invites' \in [DOMAIN invites' -> InviteRows]
        /\ UNCHANGED <<users, unborn, uninvited, invited>>
    <3>1. /\ invites' = [invites EXCEPT ![i] = [@ EXCEPT !.expired = TRUE]] /\ i \in DOMAIN invites
          /\ UNCHANGED <<users, unborn, uninvited, invited>>
      BY <1>10 DEF Acc!InviteExpires
    <3>2. invites[i] \in InviteRows
      BY <1>1, <3>1
    <3>3. /\ [invites[i] EXCEPT !.expired = TRUE] \in InviteRows
          /\ [invites[i] EXCEPT !.expired = TRUE].user = invites[i].user
      BY <3>2, InviteRowWritten
    <3> HIDE DEF InviteRows
    <3> QED
      BY <1>1, <3>1, <3>3
  <2> QED
    BY <1>1, <2>1 DEF Acc!InviteInv, Acc!InviteAdmitsOne
<1>11. ASSUME NEW c \in Callers, Acc!CommitDeletion(c) PROVE Acc!InviteInv'
  <2>1. PICK p : p = pending[c].user
    OBVIOUS
  <2>2. /\ DOMAIN users' = DOMAIN users \ {p} /\ UNCHANGED <<unborn, invites, uninvited, invited>>
        /\ \A i \in DOMAIN invites : p \notin invites[i].user
    BY <1>11, <2>1 DEF Acc!CommitDeletion, Acc!Cut, Acc!Restrict, Acc!Referenced
  <2> QED
    BY <1>1, <2>2 DEF Acc!InviteInv, Acc!InviteAdmitsOne
<1> QED
  BY <1>3, <1>4, <1>6, <1>7, <1>8, <1>9, <1>10, <1>11 DEF Acc!Next

\* Spec: an invite admits one account, the one its row names while there is one.
THEOREM InvitesAdmitOne == Spec => []InviteAdmitsOne
<1> DEFINE Inv == part = "accounts" => Acc!InviteInv
<1>1. Init => Inv
  BY InvitesInitially DEF Init
<1>2. Inv /\ [Next]_vars => Inv'
  <2>1. part = "accounts" /\ [Next]_vars => [Acc!Next]_(Acc!accountVars)
    BY DEF Next, vars, Acc!accountVars
  <2> QED
    BY <2>1, PartIsKept, InvitesKept
<1>3. Inv => InviteAdmitsOne
  BY DEF Acc!InviteInv, InviteAdmitsOne
<1> QED
  BY <1>1, <1>2, <1>3, PTL DEF Spec

-----------------------------------------------------------------------------
(* UserRoles.                                                              *)

holds == v2
granted == v3
replacing == v4
given == v5

\* The roles as seeded.
LEMMA RolesInitially == Rol!Init => Rol!RolesInv
<1> SUFFICES ASSUME Rol!Init PROVE Rol!RolesInv
  OBVIOUS
<1> USE DEF holds, granted, replacing, given
<1>1. /\ replacing = [c \in Callers |-> [op |-> "none"]] /\ given = holds
      /\ \E p \in Members : holds = [q \in Members |-> IF q = p THEN {"admin"} ELSE {}]
  BY DEF Rol!Init, Rol!NoRequest
<1>2. DOMAIN holds = Members
  BY <1>1
<1> QED
  BY <1>1, <1>2 DEF Rol!RolesInv, Rol!RolesGivenTogether

\* Every step of UserRoles keeps RolesInv: nobody gives an account roles between the two
\* steps of a request that replaces them.
LEMMA RolesKept == Rol!RolesInv /\ [Rol!Next]_(Rol!roleVars) => Rol!RolesInv'
<1> SUFFICES ASSUME Rol!RolesInv, [Rol!Next]_(Rol!roleVars) PROVE Rol!RolesInv'
  OBVIOUS
<1> USE DEF holds, granted, replacing, given
<1> DEFINE Replaces(c) == replacing[c].op = "roles"
<1>1. /\ DOMAIN replacing = Callers
      /\ DOMAIN holds = Members
      /\ \A c \in Callers : Replaces(c) =>
           /\ replacing[c].user \in Members
           /\ holds[replacing[c].user] \subseteq replacing[c].old
      /\ \A c, d \in Callers :
           Replaces(c) /\ Replaces(d) /\ replacing[c].user = replacing[d].user => c = d
      /\ given = holds
  BY DEF Rol!RolesInv, Rol!RolesGivenTogether
<1>2. ASSUME UNCHANGED <<holds, given>>, NEW c \in Callers, NEW r, r.op # "roles",
             replacing' = [replacing EXCEPT ![c] = r]
      PROVE  Rol!RolesInv'
  BY <1>1, <1>2 DEF Rol!RolesInv, Rol!RolesGivenTogether
<1>3. ASSUME UNCHANGED <<holds, given, replacing>> PROVE Rol!RolesInv'
  BY <1>1, <1>3 DEF Rol!RolesInv, Rol!RolesGivenTogether
<1>4. CASE UNCHANGED Rol!roleVars
  BY <1>3, <1>4 DEF Rol!roleVars
<1>5. ASSUME NEW c \in Callers, NEW p \in Members, NEW roles \in SUBSET Roles,
             Rol!UpdateUserRoles(c, p, roles)
      PROVE  Rol!RolesInv'
  <2>1. /\ UNCHANGED <<holds, given>>
        /\ replacing' = [replacing EXCEPT ![c] = [op |-> "roles", user |-> p, new |-> roles,
                                                  old |-> holds[p]]]
        /\ \A d \in Callers : ~(Replaces(d) /\ replacing[d].user = p)
    BY <1>5 DEF Rol!UpdateUserRoles, Rol!Begin, Rol!RowHeld
  <2> QED
    BY <1>1, <2>1 DEF Rol!RolesInv, Rol!RolesGivenTogether
<1>6. ASSUME NEW c \in Callers, Rol!CommitRoles(c) PROVE Rol!RolesInv'
  <2>1. PICK p, new : p = replacing[c].user /\ new = replacing[c].new
    OBVIOUS
  <2>2. /\ Replaces(c) /\ replacing' = [replacing EXCEPT ![c] = Rol!NoRequest]
        /\ given' = [given EXCEPT ![p] = new]
        /\ holds' = [holds EXCEPT ![p] = (holds[p] \ replacing[c].old) \cup new]
    BY <1>6, <2>1 DEF Rol!CommitRoles, Rol!End
  <2>3. p \in Members /\ holds[p] \ replacing[c].old = {}
    BY <1>1, <2>1, <2>2
  <2>4. holds' = [holds EXCEPT ![p] = new] /\ given' = holds'
    BY <1>1, <2>2, <2>3
  <2>5. \A d \in Callers : d # c /\ Replaces(d) => replacing[d].user # p
    BY <1>1, <2>1, <2>2
  <2> QED
    BY <1>1, <2>2, <2>3, <2>4, <2>5 DEF Rol!RolesInv, Rol!RolesGivenTogether, Rol!NoRequest
<1>7. ASSUME NEW c \in Callers, Rol!CommitDeletion(c) PROVE Rol!RolesInv'
  <2>1. PICK p : p = replacing[c].user
    OBVIOUS
  <2>2. /\ replacing' = [replacing EXCEPT ![c] = Rol!NoRequest]
        /\ given' = [given EXCEPT ![p] = {}] /\ holds' = [holds EXCEPT ![p] = {}]
        /\ \A d \in Callers : ~(Replaces(d) /\ replacing[d].user = p)
    BY <1>7, <2>1 DEF Rol!CommitDeletion, Rol!End, Rol!RowHeld
  <2> QED
    BY <1>1, <2>2 DEF Rol!RolesInv, Rol!RolesGivenTogether, Rol!NoRequest
<1>8. ASSUME NEW r \in Roles, Rol!DeleteRole(r) PROVE Rol!RolesInv'
  <2>1. /\ holds' = [p \in Members |-> holds[p] \ {r}] /\ given' = [p \in Members |-> given[p] \ {r}]
        /\ UNCHANGED replacing
    BY <1>8 DEF Rol!DeleteRole
  <2> QED
    BY <1>1, <2>1 DEF Rol!RolesInv, Rol!RolesGivenTogether
<1>9. ASSUME NEW c \in Callers,
             \/ \E p \in Members : Rol!DeleteOwnAccount(c, p)
             \/ \E r \in Roles, ps \in SUBSET Perms : Rol!SetRolePermissions(c, r, ps)
             \/ Rol!CommitPermissions(c) \/ Rol!FailReplacing(c)
      PROVE  Rol!RolesInv'
  BY <1>2, <1>9 DEF Rol!DeleteOwnAccount, Rol!SetRolePermissions, Rol!CommitPermissions,
    Rol!FailReplacing, Rol!Begin, Rol!End, Rol!NoRequest
<1>10. ASSUME NEW r \in Roles, NEW ps \in SUBSET Perms, Rol!CreateRole(r, ps) PROVE Rol!RolesInv'
  BY <1>3, <1>10 DEF Rol!CreateRole
<1> QED
  BY <1>4, <1>5, <1>6, <1>7, <1>8, <1>9, <1>10 DEF Rol!Next

\* Spec: an account has the roles that one request gave it, less those deleted since.
THEOREM RolesTogether == Spec => []RolesGivenTogether
<1> DEFINE Inv == part = "roles" => Rol!RolesInv
<1>1. Init => Inv
  BY RolesInitially DEF Init
<1>2. Inv /\ [Next]_vars => Inv'
  <2>1. part = "roles" /\ [Next]_vars => [Rol!Next]_(Rol!roleVars)
    BY DEF Next, vars, Rol!roleVars
  <2> QED
    BY <2>1, PartIsKept, RolesKept
<1>3. Inv => RolesGivenTogether
  BY DEF Rol!RolesInv, RolesGivenTogether
<1> QED
  BY <1>1, <1>2, <1>3, PTL DEF Spec

-----------------------------------------------------------------------------
(* AppRoutes.                                                              *)

assignments == v1
assigning == v5
excused == v6

\* One assignment, and no requests.
LEMMA RoutesInitially == Rou!Init => Rou!RoutesInv
<1> SUFFICES ASSUME Rou!Init PROVE Rou!RoutesInv
  OBVIOUS
<1> USE DEF assignments, assigning, excused
<1>1. PICK offer \in Rou!Offers :
        /\ assignments = [i \in Rou!Ids |-> IF i = 1 THEN offer ELSE Unassigned]
        /\ excused = IF offer.byHost THEN {} ELSE {offer.host}
  BY DEF Rou!Init
<1>2. DOMAIN assigning = Callers /\ \A c \in Callers : ~Rou!Assigned(c)
  BY DEF Rou!Init, Rou!Assigned
<1>3. \A i \in Rou!Stored : i = 1 /\ assignments[i] = offer
  BY <1>1 DEF Rou!Stored
<1>4. Rou!RowsKept
  BY <1>1, <1>3 DEF Rou!RowsKept
<1>5. Rou!RequestsKept /\ Rou!HostsKept /\ Rou!PrimariesKept
  BY <1>2 DEF Rou!RequestsKept, Rou!HostsKept, Rou!PrimariesKept
<1>6. Rou!AssignmentsFit
  BY <1>3 DEF Rou!AssignmentsFit
<1> QED
  BY <1>4, <1>5, <1>6 DEF Rou!RoutesInv

\* Every step of AppRoutes keeps RoutesInv: a request that finds the host of another, or its
\* app, excuses it before either can store.
LEMMA RoutesKept ==
  Rou!RoutesInv /\ [Rou!Next]_(Rou!routeVars) => Rou!RoutesInv'
<1> SUFFICES ASSUME Rou!RoutesInv, [Rou!Next]_(Rou!routeVars) PROVE Rou!RoutesInv'
  OBVIOUS
<1> USE DEF assignments, assigning, excused
<1> DEFINE Tables == [Rou!Ids -> Rou!Offers \cup {Unassigned}]
           Asks == [offer : Rou!Offers, id : Rou!Ids \cup {Unassigned},
                        step : {"checked", "clearing"}, left : SUBSET Rou!Ids]
           Less ==
             /\ assignments' \in Tables /\ excused \subseteq excused'
             /\ \A i \in Rou!Ids : assignments'[i] # Unassigned =>
                  /\ assignments[i] # Unassigned
                  /\ assignments'[i].app = assignments[i].app
                  /\ assignments'[i].byHost = assignments[i].byHost
                  /\ assignments'[i].host = assignments[i].host
                  /\ assignments'[i].primary => assignments[i].primary
           Same(c) ==
             assigning'[c] # Unassigned =>
               /\ assigning[c] # Unassigned /\ assigning'[c] \in Asks
               /\ assigning'[c].offer = assigning[c].offer /\ assigning'[c].id = assigning[c].id
           Clears(c) ==
             assigning'[c] # Unassigned /\ assigning'[c].step = "clearing" =>
               \/ assigning'[c].offer.app \in excused'
               \/ \A i \in Rou!Ids : /\ assignments'[i] # Unassigned /\ assignments'[i].primary
                                     /\ assignments'[i].app = assigning'[c].offer.app
                                     => i \in assigning'[c].left
<1>1. /\ Rou!RowsKept /\ Rou!RequestsKept /\ Rou!HostsKept /\ Rou!PrimariesKept
      /\ Rou!AssignmentsFit
      /\ assignments \in Tables /\ DOMAIN assigning = Callers
  BY DEF Rou!RoutesInv, Rou!RowsKept, Rou!RequestsKept
<1>2. ASSUME NEW c \in Callers, assigning[c] # Unassigned
      PROVE  /\ assigning[c] \in Asks
             /\ ~assigning[c].offer.byHost => assigning[c].offer.host \in excused
             /\ \A d \in Callers \ {c} : assigning[d] # Unassigned =>
                  /\ assigning[c].offer.host = assigning[d].offer.host =>
                       assigning[c].offer.host \in excused
                  /\ assigning[c].offer.app = assigning[d].offer.app =>
                       assigning[c].offer.app \in excused
  BY <1>1, <1>2 DEF Rou!RequestsKept, Rou!Assigned
<1>3. ASSUME NEW c \in Callers, assigning[c] # Unassigned, assigning[c].step = "clearing"
      PROVE  \/ assigning[c].offer.app \in excused
             \/ \A i \in Rou!Ids : /\ assignments[i] # Unassigned /\ assignments[i].primary
                                   /\ assignments[i].app = assigning[c].offer.app
                                   => i \in assigning[c].left
  BY <1>1, <1>3 DEF Rou!PrimariesKept, Rou!PrimariesOf, Rou!Assigned, Rou!Stored
<1>4. Rou!PrimariesKept' <=> \A c \in Callers : Clears(c)
  BY DEF Rou!PrimariesKept, Rou!PrimariesOf, Rou!Assigned, Rou!Stored
\* What no row, and no request, is added to.
<1>5. ASSUME Less PROVE Rou!RowsKept' /\ Rou!AssignmentsFit'
  <2>1. Rou!RowsKept'
    BY <1>1, <1>5 DEF Rou!RowsKept, Rou!Stored
  <2>2. Rou!AssignmentsFit'
    BY <1>1, <1>5 DEF Rou!AssignmentsFit, Rou!Stored
  <2> QED
    BY <2>1, <2>2
<1>6. ASSUME DOMAIN assigning' = Callers, \A c \in Callers : Same(c), excused \subseteq excused'
      PROVE  Rou!RequestsKept'
  BY <1>2, <1>6 DEF Rou!RequestsKept, Rou!Assigned
<1>7. ASSUME Less, \A c \in Callers : Same(c) PROVE Rou!HostsKept'
  BY <1>1, <1>7 DEF Rou!HostsKept, Rou!Assigned, Rou!Stored
<1>8. ASSUME Less, DOMAIN assigning' = Callers, \A c \in Callers : Same(c),
             \A c \in Callers : Clears(c)
      PROVE  Rou!RoutesInv'
  BY <1>4, <1>5, <1>6, <1>7, <1>8 DEF Rou!RoutesInv
<1>9. ASSUME assignments' = assignments, excused' = excused PROVE Less
  BY <1>1, <1>9
<1>10. ASSUME NEW c \in Callers, Less,
              assigning'[c] = Unassigned \/ assigning'[c] = assigning[c]
       PROVE  Same(c) /\ Clears(c)
  BY <1>2, <1>3, <1>10
<1>11. ASSUME Less, DOMAIN assigning' = Callers,
              \A c \in Callers : assigning'[c] = Unassigned \/ assigning'[c] = assigning[c]
       PROVE  Rou!RoutesInv'
  BY <1>8, <1>10, <1>11
<1>12. CASE Rou!DeleteAssignment \/ Rou!DeleteDomain
  <2>1. assigning' = assigning /\ excused' = excused
    BY <1>12 DEF Rou!DeleteAssignment, Rou!DeleteDomain
  <2>2. assignments' \in Tables /\ \A i \in Rou!Ids : assignments'[i] \in {assignments[i], Unassigned}
    BY <1>1, <1>12 DEF Rou!DeleteAssignment, Rou!DeleteDomain
  <2>3. Less
    BY <1>1, <2>1, <2>2
  <2> QED
    BY <1>1, <1>11, <2>1, <2>3
<1>13. ASSUME NEW c \in Callers, Rou!Fail(c) PROVE Rou!RoutesInv'
  <2>1. /\ assigning' = [assigning EXCEPT ![c] = Unassigned]
        /\ assignments' = assignments /\ excused' = excused
    BY <1>13 DEF Rou!Fail, Rou!Leave
  <2> QED
    BY <1>1, <1>9, <1>11, <2>1
<1>14. ASSUME NEW c \in Callers, Rou!FindPrimary(c) PROVE Rou!RoutesInv'
  <2>1. PICK left \in SUBSET Rou!Ids : left = Rou!PrimariesOf(assigning[c])
    BY DEF Rou!PrimariesOf, Rou!Stored
  <2>2. /\ assigning[c] # Unassigned
        /\ assigning' = [assigning EXCEPT ![c] = [@ EXCEPT !.step = "clearing", !.left = left]]
        /\ assignments' = assignments /\ excused' = excused
    BY <1>14, <2>1 DEF Rou!FindPrimary, Rou!Assigned
  <2>3. PICK r \in Asks : r = assigning[c]
    BY <1>2, <2>2
  <2>4. assigning'[c] = [r EXCEPT !.step = "clearing", !.left = left]
    BY <1>1, <2>2, <2>3
  <2>5. /\ assigning'[c] \in Asks /\ assigning'[c].offer = r.offer /\ assigning'[c].id = r.id
        /\ assigning'[c].left = left
    BY <2>3, <2>4
  <2>6. Same(c) /\ Clears(c)
    BY <2>1, <2>2, <2>3, <2>5 DEF Rou!PrimariesOf, Rou!Stored
  <2>7. \A d \in Callers \ {c} : assigning'[d] = assigning[d]
    BY <1>1, <2>2
  <2> QED
    BY <1>1, <1>8, <1>9, <1>10, <2>2, <2>6, <2>7
<1>15. ASSUME NEW c \in Callers, Rou!ClearPrimary(c) PROVE Rou!RoutesInv'
  <2>1. PICK i \in assigning[c].left :
          IF assignments[i] = Unassigned
          THEN Rou!Leave(c) /\ UNCHANGED assignments
          ELSE /\ assignments' = [assignments EXCEPT ![i].primary = FALSE]
               /\ assigning' = [assigning EXCEPT ![c].left = @ \ {i}]
    BY <1>15 DEF Rou!ClearPrimary
  <2>2. assigning[c] # Unassigned /\ excused' = excused
    BY <1>15 DEF Rou!ClearPrimary, Rou!Assigned
  <2>3. PICK r \in Asks : r = assigning[c]
    BY <1>2, <2>2
  <2>4. i \in Rou!Ids
    BY <2>1, <2>3
  <2>5. CASE assignments[i] = Unassigned
    BY <1>1, <1>9, <1>11, <2>1, <2>2, <2>5 DEF Rou!Leave
  <2>6. CASE assignments[i] # Unassigned
    <3>1. PICK row \in Rou!Offers : row = assignments[i]
      BY <1>1, <2>4, <2>6
    <3>2. [row EXCEPT !.primary = FALSE] \in Rou!Offers
      BY DEF Rou!Offers
    <3>3. /\ assignments' = [assignments EXCEPT ![i] = [row EXCEPT !.primary = FALSE]]
          /\ assigning' = [assigning EXCEPT ![c].left = @ \ {i}]
      BY <2>1, <2>6, <3>1
    <3>4. /\ assignments' \in Tables /\ assignments'[i] = [row EXCEPT !.primary = FALSE]
          /\ \A j \in Rou!Ids \ {i} : assignments'[j] = assignments[j]
      BY <1>1, <2>4, <3>2, <3>3
    <3>5. /\ assignments'[i].app = row.app /\ assignments'[i].byHost = row.byHost
          /\ assignments'[i].host = row.host /\ ~assignments'[i].primary
      BY <3>4 DEF Rou!Offers
    <3>6. Less
      BY <2>2, <2>6, <3>1, <3>4, <3>5
    <3>7. assigning'[c] = [r EXCEPT !.left = r.left \ {i}]
      BY <1>1, <2>3, <3>3
    <3>8. /\ assigning'[c] \in Asks /\ assigning'[c].offer = r.offer
          /\ assigning'[c].id = r.id /\ assigning'[c].left = r.left \ {i}
          /\ assigning'[c].step = r.step
      BY <3>7
    <3>9. Same(c) /\ Clears(c)
      BY <1>3, <2>2, <2>3, <3>4, <3>5, <3>8
    <3>10. \A d \in Callers \ {c} : assigning'[d] = assigning[d]
      BY <1>1, <3>3
    <3>11. ASSUME NEW d \in Callers PROVE Same(d) /\ Clears(d)
      BY <1>10, <3>6, <3>9, <3>10
    <3>12. DOMAIN assigning' = Callers
      BY <1>1, <3>3
    <3> QED
      BY <1>8, <3>6, <3>11, <3>12
  <2> QED
    BY <2>5, <2>6
\* A request that begins.
<1>16. ASSUME NEW c \in Callers, Rou!BeginAssign(c) PROVE Rou!RoutesInv'
  <2>1. PICK offer \in Rou!Offers, id \in Rou!Stored \cup {Unassigned} :
          /\ Rou!HostIsFree(offer, id)
          /\ assigning' = [assigning EXCEPT ![c] =
                             [offer |-> offer, id |-> id, step |-> "checked", left |-> {}]]
          /\ excused' = excused \cup Rou!Overlap(c, offer)
                          \cup IF offer.byHost THEN {} ELSE {offer.host}
          /\ assignments' = assignments /\ assigning[c] = Unassigned
    BY <1>16 DEF Rou!BeginAssign, Rou!Assigned
  <2>2. PICK r : r = [offer |-> offer, id |-> id, step |-> "checked", left |-> {}]
    OBVIOUS
  <2>3. /\ r \in Asks /\ r.offer = offer /\ r.id = id /\ r.step = "checked"
    BY <2>2 DEF Rou!Stored
  <2>4. /\ DOMAIN assigning' = Callers /\ assigning'[c] = r
        /\ \A d \in Callers \ {c} : assigning'[d] = assigning[d]
    BY <1>1, <2>1, <2>2
  <2>5. excused \subseteq excused' /\ (~offer.byHost => offer.host \in excused')
    BY <2>1
  <2>6. \A d \in Callers \ {c} : assigning[d] # Unassigned =>
          /\ offer.host = assigning[d].offer.host => offer.host \in excused'
          /\ offer.app = assigning[d].offer.app => offer.app \in excused'
    BY <2>1 DEF Rou!Overlap, Rou!Assigned
  <2>7. Less
    BY <1>1, <2>1, <2>5
  <2>8. Rou!RequestsKept'
    <3>1. ASSUME NEW e \in Callers, assigning'[e] # Unassigned
          PROVE  /\ assigning'[e] \in Asks
                 /\ ~assigning'[e].offer.byHost => assigning'[e].offer.host \in excused'
                 /\ \A d \in Callers \ {e} : assigning'[d] # Unassigned =>
                      /\ assigning'[e].offer.host = assigning'[d].offer.host =>
                           assigning'[e].offer.host \in excused'
                      /\ assigning'[e].offer.app = assigning'[d].offer.app =>
                           assigning'[e].offer.app \in excused'
      <4>1. CASE e = c
        BY <2>3, <2>4, <2>5, <2>6, <4>1
      <4>2. CASE e # c
        BY <1>2, <2>3, <2>4, <2>5, <2>6, <3>1, <4>2
      <4> QED
        BY <4>1, <4>2
    <3> QED
      BY <2>4, <3>1 DEF Rou!RequestsKept, Rou!Assigned
  <2>9. Rou!HostsKept'
    <3>1. ASSUME NEW e \in Callers, assigning'[e] # Unassigned, assigning'[e].offer.byHost,
                 NEW i \in Rou!Stored \ {assigning'[e].id}, assignments[i].byHost,
                 assignments[i].host = assigning'[e].offer.host
          PROVE  assignments[i].host \in excused'
      <4>1. CASE e # c
        BY <1>1, <2>4, <2>5, <3>1, <4>1 DEF Rou!HostsKept, Rou!Assigned
      <4>2. CASE e = c
        <5>1. i \in Rou!SameHost(offer.host)
          BY <2>3, <2>4, <3>1, <4>2 DEF Rou!SameHost
        <5>2. id \in Rou!Stored /\ id # i /\ assignments[id].host = offer.host
          BY <2>1, <2>3, <2>4, <3>1, <4>2, <5>1 DEF Rou!HostIsFree, Rou!SameHost
        <5>3. assignments[id].byHost => assignments[i].host \in excused
          BY <1>1, <2>3, <2>4, <3>1, <4>2, <5>2 DEF Rou!AssignmentsFit
        <5>4. ~assignments[id].byHost => assignments[id].host \in excused
          BY <1>1, <5>2 DEF Rou!RowsKept
        <5> QED
          BY <2>3, <2>4, <2>5, <3>1, <4>2, <5>2, <5>3, <5>4
      <4> QED
        BY <4>1, <4>2
    <3>2. Rou!Stored' = Rou!Stored
      BY <2>1 DEF Rou!Stored
    <3> QED
      BY <2>1, <3>1, <3>2 DEF Rou!HostsKept, Rou!Assigned
  <2>10. \A d \in Callers : Clears(d)
    <3>1. Clears(c)
      BY <2>3, <2>4
    <3> QED
      BY <1>10, <2>4, <2>7, <3>1
  <2> QED
    BY <1>4, <1>5, <2>7, <2>8, <2>9, <2>10 DEF Rou!RoutesInv
\* A request that stores its row.
<1>17. ASSUME NEW c \in Callers, Rou!Store(c) PROVE Rou!RoutesInv'
  <2>1. /\ assigning[c] # Unassigned /\ assigning' = [assigning EXCEPT ![c] = Unassigned]
        /\ excused' = excused
    BY <1>17 DEF Rou!Store, Rou!Leave, Rou!ReadyToStore, Rou!Assigned
  <2>2. PICK r \in Asks : r = assigning[c]
    BY <1>2, <2>1
  <2>3. PICK offer \in Rou!Offers : offer = r.offer
    OBVIOUS
  <2>4. assignments' = assignments
        \/ \E j : /\ assignments' = [assignments EXCEPT ![j] = offer]
                  /\ r.id \in {j, Unassigned}
    BY <1>17, <2>2, <2>3 DEF Rou!Store
  <2>5. /\ DOMAIN assigning' = Callers /\ assigning'[c] = Unassigned
        /\ \A d \in Callers \ {c} : assigning'[d] = assigning[d]
    BY <1>1, <2>1
  <2>6. CASE assignments' = assignments
    BY <1>9, <1>11, <2>1, <2>5, <2>6
  <2>7. ASSUME NEW j, assignments' = [assignments EXCEPT ![j] = offer], r.id \in {j, Unassigned},
               j \in Rou!Ids
        PROVE  Rou!RoutesInv'
    <3>1. /\ assignments' \in Tables /\ assignments'[j] = offer
          /\ \A i \in Rou!Ids \ {j} : assignments'[i] = assignments[i]
      BY <1>1, <2>7
    <3>2. /\ ~offer.byHost => offer.host \in excused
          /\ \A d \in Callers \ {c} : assigning[d] # Unassigned =>
               /\ offer.host = assigning[d].offer.host => offer.host \in excused
               /\ offer.app = assigning[d].offer.app => offer.app \in excused
      BY <1>2, <2>1, <2>2, <2>3
    \* The other rows with its host, and the other primary ones of its app, are excused.
    <3>3. \A i \in Rou!Stored \ {j} :
            offer.byHost /\ assignments[i].byHost /\ assignments[i].host = offer.host =>
              offer.host \in excused
      <4>1. \A i \in Rou!Stored \ {j} : i # r.id
        BY <2>7, RouUnassignedAssumption DEF Rou!UnassignedAssumption, Rou!Stored
      <4> QED
        BY <1>1, <2>1, <2>2, <2>3, <4>1 DEF Rou!HostsKept, Rou!Assigned
    <3>4. \A i \in Rou!Stored \ {j} :
            offer.primary /\ assignments[i].primary /\ assignments[i].app = offer.app =>
              offer.app \in excused
      <4>1. offer.primary => assigning[c].step = "clearing" /\ assigning[c].left = {}
        BY <1>17, <2>2, <2>3 DEF Rou!Store, Rou!ReadyToStore
      <4> QED
        BY <1>3, <2>1, <2>2, <2>3, <4>1 DEF Rou!Stored
    <3>5. Rou!Stored' \subseteq Rou!Stored \cup {j}
      BY <3>1 DEF Rou!Stored
    <3>6. Rou!RowsKept'
      <4>1. \A i \in Rou!Stored' : ~assignments'[i].byHost => assignments'[i].host \in excused
        <5>1. \A i \in Rou!Stored \ {j} : ~assignments'[i].byHost => assignments'[i].host \in excused
          BY <1>1, <3>1 DEF Rou!RowsKept, Rou!Stored
        <5> QED
          BY <3>1, <3>2, <3>5, <5>1
      <4> QED
        BY <2>1, <3>1, <4>1 DEF Rou!RowsKept
    <3>7. Rou!RequestsKept'
      BY <1>2, <1>6, <2>1, <2>5
    <3>8. Rou!HostsKept'
      <4>1. ASSUME NEW d \in Callers, assigning'[d] # Unassigned, assigning'[d].offer.byHost,
                   NEW i \in Rou!Stored' \ {assigning'[d].id}, assignments'[i].byHost,
                   assignments'[i].host = assigning'[d].offer.host
            PROVE  assignments'[i].host \in excused
        <5>1. d # c /\ assigning'[d] = assigning[d]
          BY <2>5, <4>1
        <5>2. CASE i = j
          BY <3>1, <3>2, <4>1, <5>1, <5>2
        <5>3. CASE i # j
          <6>1. i \in Rou!Stored /\ assignments'[i] = assignments[i]
            BY <3>1, <3>5, <5>3 DEF Rou!Stored
          <6> QED
            BY <1>1, <4>1, <5>1, <6>1 DEF Rou!HostsKept, Rou!Assigned
        <5> QED
          BY <5>2, <5>3
      <4> QED
        BY <2>1, <4>1 DEF Rou!HostsKept, Rou!Assigned
    <3>9. \A d \in Callers : Clears(d)
      <4>1. ASSUME NEW d \in Callers \ {c}, assigning'[d] # Unassigned,
                   assigning'[d].step = "clearing", assigning'[d].offer.app \notin excused,
                   NEW i \in Rou!Ids, assignments'[i] # Unassigned, assignments'[i].primary,
                   assignments'[i].app = assigning'[d].offer.app
            PROVE  i \in assigning'[d].left
        <5>1. i # j
          BY <2>5, <3>1, <3>2, <4>1
        <5> QED
          BY <1>3, <2>5, <3>1, <4>1, <5>1
      <4> QED
        BY <2>1, <2>5, <4>1
    <3>10. Rou!AssignmentsFit'
      <4>1. ASSUME NEW i \in Rou!Stored', NEW k \in Rou!Stored', i # k
            PROVE  /\ assignments'[i].byHost /\ assignments'[k].byHost
                      /\ assignments'[i].host = assignments'[k].host =>
                        assignments'[i].host \in excused
                   /\ assignments'[i].primary /\ assignments'[k].primary
                      /\ assignments'[i].app = assignments'[k].app =>
                        assignments'[i].app \in excused
        <5>1. \A l \in Rou!Stored' \ {j} : l \in Rou!Stored /\ assignments'[l] = assignments[l]
          BY <3>1 DEF Rou!Stored
        <5>2. CASE i = j
          BY <3>1, <3>3, <3>4, <4>1, <5>1, <5>2
        <5>3. CASE k = j
          BY <3>1, <3>3, <3>4, <4>1, <5>1, <5>3
        <5>4. CASE i # j /\ k # j
          BY <1>1, <4>1, <5>1, <5>4 DEF Rou!AssignmentsFit
        <5> QED
          BY <5>2, <5>3, <5>4
      <4> QED
        BY <2>1, <4>1 DEF Rou!AssignmentsFit
    <3> QED
      BY <1>4, <3>6, <3>7, <3>8, <3>9, <3>10 DEF Rou!RoutesInv
  <2>8. ASSUME NEW j, assignments' = [assignments EXCEPT ![j] = offer], j \notin Rou!Ids
        PROVE  assignments' = assignments
    BY <1>1, <2>8
  <2> QED
    BY <2>4, <2>6, <2>7, <2>8
<1>18. CASE UNCHANGED Rou!routeVars
  BY <1>1, <1>9, <1>11, <1>18 DEF Rou!routeVars
<1> QED
  BY <1>12, <1>13, <1>14, <1>15, <1>16, <1>17, <1>18 DEF Rou!Next

\* Spec: two assignments of a host, or primary ones of an app, only where requests overlapped,
\* or the host came with a path.
THEOREM AssignmentsAlwaysFit == Spec => []AssignmentsFit
<1> DEFINE Inv == part = "routes" => Rou!RoutesInv
<1>1. Init => Inv
  BY RoutesInitially DEF Init
<1>2. Inv /\ [Next]_vars => Inv'
  <2>1. part = "routes" /\ [Next]_vars => [Rou!Next]_(Rou!routeVars)
    BY DEF Next, vars, Rou!routeVars
  <2> QED
    BY <2>1, PartIsKept, RoutesKept
<1>3. Inv => AssignmentsFit
  BY DEF Rou!RoutesInv, AssignmentsFit
<1> QED
  BY <1>1, <1>2, <1>3, PTL DEF Spec

-----------------------------------------------------------------------------
(* Notifications.                                                          *)

channels == v1
stamp == v2
providers == v3
fingerprint == v4
posting == v5
raced == v6

\* The date in the fingerprint of a table: the last one of its rows.
LEMMA LatestOfRows ==
  ASSUME NEW table, NEW c \in Chan!Present(table),
         \A d \in Chan!Present(table) : table[d].stamp \in Int /\ table[d].stamp <= table[c].stamp
  PROVE  Chan!ChannelFingerprint(table).latest = table[c].stamp
<1> DEFINE dates == {table[d].stamp : d \in Chan!Present(table)}
           last == CHOOSE d \in dates : \A e \in dates : e <= d
<1>1. table[c].stamp \in dates /\ \A e \in dates : e \in Int /\ e <= table[c].stamp
  OBVIOUS
<1>2. last \in dates /\ \A e \in dates : e <= last
  BY <1>1
<1>3. last = table[c].stamp
  <2> HIDE DEF dates, last
  <2>1. last <= table[c].stamp /\ table[c].stamp <= last /\ last \in Int /\ table[c].stamp \in Int
    BY <1>1, <1>2
  <2> QED
    BY <2>1
<1>4. dates # {}
  BY <1>1
<1> QED
  BY <1>3, <1>4 DEF Chan!ChannelFingerprint

LEMMA LatestOfNoRows ==
  ASSUME NEW table, Chan!Present(table) = {}
  PROVE  Chan!ChannelFingerprint(table).latest = Chan!Unloaded
  BY DEF Chan!ChannelFingerprint, Chan!NoFingerprint, Chan!Unloaded

\* A row is one with a date, or none.
LEMMA RowsHaveDates ==
  ASSUME NEW table \in [Channels -> Chan!Rows], NEW c \in Channels
  PROVE  /\ c \in Chan!Present(table) <=> table[c].stamp \in Chan!Stamps
         /\ c \notin Chan!Present(table) => table[c].stamp = MaxStamp + 1 /\ ~table[c].on
  BY ChanBoundAssumption DEF Chan!Rows, Chan!Present, Chan!NoRow, Chan!Stamps,
    Chan!BoundAssumption

\* Every replica has loaded the table that is there.
LEMMA ChannelsInitially == Chan!Init => Chan!ChannelsInv
<1> SUFFICES ASSUME Chan!Init PROVE Chan!ChannelsInv
  OBVIOUS
<1> USE DEF channels, stamp, providers, fingerprint, posting, raced
<1>1. /\ channels \in [Channels -> Chan!Rows] /\ stamp = 0 /\ 0 \in Chan!Stamps
      /\ \A c \in Chan!Present(channels) : channels[c].stamp = 0
  <2>1. [on |-> TRUE, stamp |-> 0] \in Chan!Rows /\ Chan!NoRow \in Chan!Rows /\ 0 \in Chan!Stamps
    BY ChanBoundAssumption DEF Chan!Rows, Chan!Stamps, Chan!BoundAssumption
  <2>2. channels \in [Channels -> {Chan!NoRow, [on |-> TRUE, stamp |-> 0]}] /\ stamp = 0
    BY DEF Chan!Init
  <2>3. channels \in [Channels -> Chan!Rows]
    BY <2>1, <2>2
  <2>4. \A c \in Chan!Present(channels) : channels[c].stamp = 0
    BY <2>2 DEF Chan!Present
  <2> QED
    BY <2>1, <2>2, <2>3, <2>4
<1>2. Chan!LoadedOf(channels) \in Chan!Loads
  <2>1. \A c \in Channels : channels[c].on => channels[c].stamp \in Chan!Stamps
    BY <1>1, RowsHaveDates
  <2> QED
    BY <2>1 DEF Chan!LoadedOf, Chan!Loads
<1>3. Chan!TableKept
  BY <1>1, <1>2 DEF Chan!Init, Chan!TableKept
<1>4. Chan!PostsKept
  BY DEF Chan!Init, Chan!PostsKept, Chan!Idle
<1>5. Chan!OrderKept
  BY <1>1 DEF Chan!OrderKept
<1>6. Chan!Latest \in Chan!Stamps \cup {Chan!Unloaded}
  <2>1. CASE Chan!Present(channels) = {}
    BY <2>1, LatestOfNoRows DEF Chan!Latest
  <2>2. ASSUME NEW c \in Chan!Present(channels) PROVE Chan!Latest = 0
    BY <1>1, <2>2, LatestOfRows DEF Chan!Latest
  <2> QED
    BY <1>1, <2>1, <2>2
<1>7. \A q \in Requests : posting[q].op = "idle"
  BY DEF Chan!Init, Chan!Idle
<1>8. \A r \in Replicas : /\ fingerprint[r].latest = Chan!Latest
                          /\ providers[r] = Chan!LoadedOf(channels)
  BY DEF Chan!Init, Chan!Latest
<1>9. Chan!PrintsKept
  <2>1. Chan!Age(Chan!Latest) <= Chan!Age(Chan!Latest)
    BY <1>6, ChanBoundAssumption DEF Chan!Age, Chan!Stamps, Chan!BoundAssumption
  <2> QED
    BY <1>6, <1>7, <1>8, <2>1 DEF Chan!PrintsKept, Chan!Loading
<1>10. Chan!LoadsKept
  BY <1>7, <1>8 DEF Chan!LoadsKept, Chan!Loading, Chan!Swapping
<1> QED
  BY <1>3, <1>4, <1>5, <1>9, <1>10 DEF Chan!ChannelsInv

\* Every step of Notifications keeps ChannelsInv: a change that is stored in order has the
\* last date, one that no print taken before can have.
LEMMA ChannelsKept ==
  Chan!ChannelsInv /\ [Chan!Next]_(Chan!notifyVars) => Chan!ChannelsInv'
<1> SUFFICES ASSUME Chan!ChannelsInv, [Chan!Next]_(Chan!notifyVars) PROVE Chan!ChannelsInv'
  OBVIOUS
<1> USE DEF channels, stamp, providers, fingerprint, posting, raced
<1> DEFINE Unraced == Replicas \ raced
           Dated == Chan!Stamps \cup {Chan!Unloaded}
           Swaps(print) == [op : {"swap"}, at : Replicas, print : {print}, loaded : Chan!Loads,
                            left : SUBSET Channels]
<1>1. /\ Chan!TableKept /\ Chan!PostsKept /\ Chan!OrderKept /\ Chan!PrintsKept /\ Chan!LoadsKept
      /\ channels \in [Channels -> Chan!Rows] /\ stamp \in Chan!Stamps
      /\ \A c \in Chan!Present(channels) : channels[c].stamp <= stamp
      /\ providers \in [Replicas -> Chan!Loads] /\ DOMAIN fingerprint = Replicas
      /\ raced \subseteq Replicas /\ DOMAIN posting = Requests
  BY DEF Chan!ChannelsInv, Chan!TableKept, Chan!PostsKept
<1>2. MaxStamp \in Nat /\ Chan!Stamps = 0 .. MaxStamp /\ Chan!Unloaded = MaxStamp + 1
  BY ChanBoundAssumption DEF Chan!BoundAssumption, Chan!Stamps, Chan!Unloaded
<1>3. ASSUME NEW r \in Unraced
      PROVE  \/ Chan!Present(channels) = {} /\ Chan!Latest = Chan!Unloaded
             \/ \E c \in Chan!Present(channels) :
                  /\ Chan!Latest = channels[c].stamp /\ Chan!Latest \in Chan!Stamps
                  /\ \A d \in Chan!Present(channels) :
                       channels[d].stamp \in Chan!Stamps /\ channels[d].stamp <= Chan!Latest
  <2>1. CASE Chan!Present(channels) = {}
    BY <2>1, LatestOfNoRows DEF Chan!Latest
  <2>2. CASE Chan!Present(channels) # {}
    <3>1. PICK c \in Chan!Present(channels) :
            \A d \in Chan!Present(channels) : channels[d].stamp <= channels[c].stamp
      BY <1>1, <2>2 DEF Chan!OrderKept
    <3>2. \A d \in Chan!Present(channels) : channels[d].stamp \in Chan!Stamps
      BY <1>1, RowsHaveDates DEF Chan!Present
    <3>3. Chan!Latest = channels[c].stamp
      BY <1>2, <3>1, <3>2, LatestOfRows DEF Chan!Latest
    <3> QED
      BY <3>1, <3>2, <3>3
  <2> QED
    BY <2>1, <2>2
<1>4. ASSUME NEW r \in Unraced PROVE Chan!Latest \in Dated
  BY <1>3
<1>5. Chan!LoadedOf(channels) \in Chan!Loads
  <2>1. \A c \in Channels : channels[c].on => channels[c].stamp \in Chan!Stamps
    BY <1>1, RowsHaveDates
  <2> QED
    BY <2>1 DEF Chan!LoadedOf, Chan!Loads
<1>6. ASSUME NEW q \in Requests, posting[q].op = "swap"
      PROVE  /\ posting[q] \in Swaps(posting[q].print)
             /\ posting[q].at \in Replicas /\ posting[q].loaded \in Chan!Loads
             /\ posting[q].left \subseteq Channels
  BY <1>1, <1>6 DEF Chan!PostsKept
\* Steps that leave the table alone.
<1>7. ASSUME channels' = channels, providers' \in [Replicas -> Chan!Loads],
             DOMAIN fingerprint' = Replicas, raced \subseteq raced', raced' \subseteq Replicas,
             stamp' \in Chan!Stamps, stamp <= stamp'
      PROVE  Chan!TableKept' /\ Chan!OrderKept' /\ Chan!Latest' = Chan!Latest
  <2>1. Chan!TableKept'
    <3>1. \A c \in Chan!Present(channels) : channels[c].stamp <= stamp'
      <4>1. \A c \in Chan!Present(channels) : channels[c].stamp \in Chan!Stamps
        BY <1>1, RowsHaveDates DEF Chan!Present
      <4> QED
        BY <1>1, <1>2, <1>7, <4>1
    <3> QED
      BY <1>1, <1>7, <3>1 DEF Chan!TableKept
  <2>2. Chan!OrderKept'
    BY <1>1, <1>7 DEF Chan!OrderKept
  <2> QED
    BY <1>7, <2>1, <2>2 DEF Chan!Latest
<1>8. ASSUME NEW q \in Requests, NEW x, posting' = [posting EXCEPT ![q] = x],
             channels' = channels, stamp' \in Chan!Stamps, stamp <= stamp',
             x.op # "idle" => x.at \in Replicas,
             x.op = "store" => /\ x.date = stamp + 1 /\ stamp' = stamp + 1
                               /\ x.channel \in Channels,
             x.op = "swap" => x \in Swaps(x.print)
      PROVE  Chan!PostsKept'
  <2>1. /\ DOMAIN posting' = Requests /\ posting'[q] = x
        /\ \A p \in Requests \ {q} : posting'[p] = posting[p]
    BY <1>1, <1>8
  <2>2. \A p \in Requests : posting[p].op = "store" =>
          /\ posting[p].date \in 1 .. stamp /\ posting[p].channel \in Channels
          /\ \A c \in Channels : channels[c].stamp # posting[p].date
          /\ \A o \in Requests \ {p} :
               posting[o].op = "store" => posting[o].date # posting[p].date
    BY <1>1 DEF Chan!PostsKept
  <2>3. x.op = "store" => /\ x.date \in 1 .. stamp'
                          /\ \A c \in Channels : channels[c].stamp # x.date
                          /\ \A o \in Requests : posting[o].op = "store" => posting[o].date # x.date
    <3>1. ASSUME x.op = "store" PROVE x.date \in 1 .. stamp' /\ x.date > stamp /\ x.date <= MaxStamp
      BY <1>1, <1>2, <1>8, <3>1
    <3>2. ASSUME x.op = "store", NEW c \in Channels PROVE channels[c].stamp # x.date
      <4>1. CASE c \in Chan!Present(channels)
        BY <1>1, <1>2, <3>1, <3>2, <4>1
      <4>2. CASE c \notin Chan!Present(channels)
        BY <1>1, <1>2, <1>8, <3>1, <3>2, <4>2, RowsHaveDates
      <4> QED
        BY <4>1, <4>2
    <3> QED
      BY <1>1, <1>2, <2>2, <3>1, <3>2
  <2>4. \A p \in Requests : posting'[p].op = "store" =>
          /\ posting'[p].date \in 1 .. stamp' /\ posting'[p].channel \in Channels
          /\ \A c \in Channels : channels[c].stamp # posting'[p].date
          /\ \A o \in Requests \ {p} :
               posting'[o].op = "store" => posting'[o].date # posting'[p].date
    <3>1. 1 .. stamp \subseteq 1 .. stamp'
      BY <1>1, <1>2, <1>8
    <3>2. ASSUME NEW p \in Requests \ {q}, posting'[p].op = "store"
          PROVE  /\ posting'[p].date \in 1 .. stamp' /\ posting'[p].channel \in Channels
                 /\ \A c \in Channels : channels[c].stamp # posting'[p].date
                 /\ \A o \in Requests \ {p} :
                      posting'[o].op = "store" => posting'[o].date # posting'[p].date
      BY <2>1, <2>2, <2>3, <3>1, <3>2
    <3>3. ASSUME posting'[q].op = "store"
          PROVE  /\ posting'[q].date \in 1 .. stamp' /\ posting'[q].channel \in Channels
                 /\ \A c \in Channels : channels[c].stamp # posting'[q].date
                 /\ \A o \in Requests \ {q} :
                      posting'[o].op = "store" => posting'[o].date # posting'[q].date
      BY <1>8, <2>1, <2>3, <3>3
    <3> QED
      BY <3>2, <3>3
  <2>5. \A p \in Requests : posting'[p].op = "swap" => posting'[p] \in Swaps(posting'[p].print)
    BY <1>6, <1>8, <2>1
  <2>6. \A p \in Requests : posting'[p].op # "idle" => posting'[p].at \in Replicas
    BY <1>1, <1>8, <2>1 DEF Chan!PostsKept
  <2> QED
    BY <1>8, <2>1, <2>4, <2>5, <2>6 DEF Chan!PostsKept
\* A request that begins, or ends without having loaded.
<1>9. ASSUME NEW q \in Requests, NEW x, posting' = [posting EXCEPT ![q] = x],
             x.op \in {"idle", "store", "fingerprint"}, posting[q].op # "swap",
             UNCHANGED <<channels, providers, fingerprint, raced>>, Chan!PostsKept',
             stamp' \in Chan!Stamps, stamp <= stamp'
      PROVE  Chan!ChannelsInv'
  <2>1. /\ posting'[q] = x /\ \A p \in Requests \ {q} : posting'[p] = posting[p]
    BY <1>1, <1>9
  <2>2. Chan!TableKept' /\ Chan!OrderKept' /\ Chan!Latest' = Chan!Latest
    BY <1>1, <1>7, <1>9
  <2>3. \A r \in Replicas : /\ ~Chan!Loading(q, r)' /\ ~Chan!Swapping(q, r)'
                            /\ ~Chan!Swapping(q, r)
    BY <1>9, <2>1 DEF Chan!Loading, Chan!Swapping
  <2>4. \A p \in Requests, r \in Replicas : Chan!Loading(p, r)' =>
          Chan!Loading(p, r) /\ posting'[p] = posting[p]
    BY <2>1, <2>3 DEF Chan!Loading
  <2>5. \A p \in Requests, r \in Replicas : Chan!Swapping(p, r)' <=> Chan!Swapping(p, r)
    BY <2>1, <2>3 DEF Chan!Swapping
  <2>6. \A p \in Requests, r \in Replicas : Chan!Swapping(p, r)' => posting'[p] = posting[p]
    BY <2>1, <2>3
  <2>7. Chan!PrintsKept'
    BY <1>1, <1>9, <2>2, <2>4 DEF Chan!PrintsKept, Chan!Age
  <2>8. Chan!LoadsKept'
    BY <1>1, <1>9, <2>2, <2>4, <2>5, <2>6 DEF Chan!LoadsKept
  <2> QED
    BY <1>9, <2>2, <2>7, <2>8 DEF Chan!ChannelsInv
<1>10. ASSUME NEW q \in Requests, Chan!RefuseInsert(q) \/ Chan!FailLoad(q)
       PROVE  Chan!ChannelsInv'
  <2>1. PICK x : x = Chan!Idle
    OBVIOUS
  <2>2. /\ posting' = [posting EXCEPT ![q] = x] /\ x.op = "idle" /\ posting[q].op # "swap"
        /\ UNCHANGED <<channels, stamp, providers, fingerprint, raced>>
    BY <1>10, <2>1 DEF Chan!RefuseInsert, Chan!FailLoad, Chan!Step, Chan!Idle
  <2>3. stamp' \in Chan!Stamps /\ stamp <= stamp'
    BY <1>1, <1>2, <2>2
  <2>4. Chan!PostsKept'
    BY <1>8, <2>2, <2>3
  <2> QED
    BY <1>9, <2>2, <2>3, <2>4
<1>11. ASSUME NEW q \in Requests, NEW r \in Replicas, Chan!RefreshIfChanged(q, r) PROVE Chan!ChannelsInv'
  <2>1. PICK x : x = [op |-> "fingerprint", at |-> r]
    OBVIOUS
  <2>2. /\ posting' = [posting EXCEPT ![q] = x] /\ x.op = "fingerprint" /\ x.at = r
        /\ posting[q].op # "swap"
        /\ UNCHANGED <<channels, stamp, providers, fingerprint, raced>>
    BY <1>11, <2>1 DEF Chan!RefreshIfChanged, Chan!Step, Chan!Idle
  <2>3. stamp' \in Chan!Stamps /\ stamp <= stamp'
    BY <1>1, <1>2, <2>2
  <2>4. Chan!PostsKept'
    BY <1>8, <2>2, <2>3
  <2> QED
    BY <1>9, <2>2, <2>3, <2>4
<1>12. ASSUME NEW q \in Requests, NEW r \in Replicas, NEW c \in Channels, Chan!BeginUpdate(q, r, c)
       PROVE  Chan!ChannelsInv'
  <2>1. PICK found : found = (channels[c] # Chan!NoRow)
    OBVIOUS
  <2>2. PICK x : x = [op |-> "store", at |-> r, channel |-> c, date |-> stamp + 1, found |-> found]
    OBVIOUS
  <2>3. /\ posting' = [posting EXCEPT ![q] = x] /\ posting[q].op # "swap"
        /\ stamp < MaxStamp /\ stamp' = stamp + 1
        /\ UNCHANGED <<channels, providers, fingerprint, raced>>
    BY <1>12, <2>1, <2>2 DEF Chan!BeginUpdate, Chan!Step, Chan!Idle
  <2>4. x.op = "store" /\ x.date = stamp + 1 /\ x.channel = c /\ x.at = r
    BY <2>2
  <2>5. stamp' \in Chan!Stamps /\ stamp <= stamp'
    BY <1>1, <1>2, <2>3
  <2>6. Chan!PostsKept'
    BY <1>8, <2>3, <2>4, <2>5
  <2> QED
    BY <1>9, <2>3, <2>4, <2>5, <2>6
\* A change is stored: none of the prints taken so far is that of the table any more.
<1>13. ASSUME NEW q \in Requests, NEW on \in BOOLEAN, Chan!StoreChannel(q, on)
       PROVE  Chan!ChannelsInv'
  <2>1. PICK c \in Channels, date \in 1 .. stamp :
          /\ c = posting[q].channel /\ date = posting[q].date /\ posting[q].op = "store"
          /\ \A d \in Channels : channels[d].stamp # date
          /\ \A p \in Requests \ {q} : posting[p].op = "store" => posting[p].date # date
    BY <1>1, <1>13 DEF Chan!StoreChannel, Chan!PostsKept
  <2>2. PICK row : row = [on |-> on, stamp |-> date]
    OBVIOUS
  <2>3. PICK x : x = [op |-> "fingerprint", at |-> posting[q].at]
    OBVIOUS
  <2>4. /\ channels' = [channels EXCEPT ![c] = row]
        /\ posting' = [posting EXCEPT ![q] = x]
        /\ raced' = IF \E d \in Chan!Present(channels) : channels[d].stamp > date
                    THEN Replicas ELSE raced
        /\ UNCHANGED <<stamp, providers, fingerprint>>
    BY <1>13, <2>1, <2>2, <2>3 DEF Chan!StoreChannel, Chan!Step
  <2>5. row \in Chan!Rows /\ row.stamp = date /\ date \in Chan!Stamps /\ date >= 1
    <3>1. date \in Chan!Stamps /\ date >= 1
      BY <1>1, <1>2
    <3> QED
      BY <2>2, <3>1 DEF Chan!Rows
  <2>6. /\ channels' \in [Channels -> Chan!Rows] /\ channels'[c] = row
        /\ \A d \in Channels \ {c} : channels'[d] = channels[d]
    BY <1>1, <2>4, <2>5
  <2>7. /\ c \in Chan!Present(channels')
        /\ \A d \in Chan!Present(channels') \ {c} : d \in Chan!Present(channels)
    <3>1. c \in Chan!Present(channels')
      BY <2>5, <2>6, RowsHaveDates
    <3> QED
      BY <2>6, <3>1 DEF Chan!Present
  <2>8. /\ posting'[q] = x /\ x.op = "fingerprint"
        /\ \A p \in Requests \ {q} : posting'[p] = posting[p]
    BY <1>1, <2>3, <2>4
  <2>9. Chan!TableKept'
    <3>1. \A d \in Chan!Present(channels') : channels'[d].stamp <= stamp
      BY <1>1, <1>2, <2>5, <2>6, <2>7 DEF Chan!Present
    <3>2. raced' \subseteq Replicas
      BY <1>1, <2>4
    <3> QED
      BY <1>1, <2>4, <2>6, <3>1, <3>2 DEF Chan!TableKept
  <2>10. Chan!PostsKept'
    <3>1. \A p \in Requests \ {q} : posting[p].op = "store" =>
            /\ posting[p].date \in 1 .. stamp /\ posting[p].channel \in Channels
            /\ \A d \in Channels : channels'[d].stamp # posting[p].date
            /\ \A o \in Requests \ {p} :
                 posting[o].op = "store" => posting[o].date # posting[p].date
      BY <1>1, <2>1, <2>5, <2>6 DEF Chan!PostsKept
    <3>2. \A p \in Requests : posting'[p].op = "store" =>
            /\ posting'[p].date \in 1 .. stamp /\ posting'[p].channel \in Channels
            /\ \A d \in Channels : channels'[d].stamp # posting'[p].date
            /\ \A o \in Requests \ {p} :
                 posting'[o].op = "store" => posting'[o].date # posting'[p].date
      BY <2>8, <3>1
    <3>3. \A p \in Requests : posting'[p].op = "swap" => posting'[p] \in Swaps(posting'[p].print)
      BY <1>6, <2>8
    <3>4. \A p \in Requests : posting'[p].op # "idle" => posting'[p].at \in Replicas
      BY <1>1, <2>1, <2>3, <2>8 DEF Chan!PostsKept
    <3> QED
      BY <1>1, <2>4, <3>2, <3>3, <3>4 DEF Chan!PostsKept
  <2>11. CASE \E d \in Chan!Present(channels) : channels[d].stamp > date
    <3>1. raced' = Replicas
      BY <2>4, <2>11
    <3> QED
      BY <2>9, <2>10, <3>1 DEF Chan!ChannelsInv, Chan!OrderKept, Chan!PrintsKept, Chan!LoadsKept
  <2>12. CASE ~\E d \in Chan!Present(channels) : channels[d].stamp > date
    <3>1. raced' = raced
      BY <2>4, <2>12
    <3>2. \A d \in Chan!Present(channels) : channels[d].stamp \in Chan!Stamps /\ channels[d].stamp < date
      <4>1. \A d \in Chan!Present(channels) : d \in Channels /\ channels[d].stamp \in Chan!Stamps
        BY <1>1, RowsHaveDates DEF Chan!Present
      <4> QED
        BY <1>2, <2>1, <2>5, <2>12, <4>1
    <3>3. \A d \in Chan!Present(channels') :
            channels'[d].stamp \in Int /\ channels'[d].stamp <= channels'[c].stamp
      <4>1. channels'[c].stamp = date /\ date \in Int
        BY <1>2, <2>5, <2>6
      <4>2. ASSUME NEW d \in Chan!Present(channels') \ {c}
            PROVE  channels'[d].stamp \in Int /\ channels'[d].stamp <= date
        <5>1. d \in Channels /\ d \in Chan!Present(channels) /\ channels'[d] = channels[d]
          BY <2>6, <2>7, <4>2 DEF Chan!Present
        <5> QED
          BY <1>2, <2>5, <3>2, <5>1
      <4> QED
        BY <4>1, <4>2
    <3>4. Chan!OrderKept'
      BY <2>7, <3>3 DEF Chan!OrderKept
    <3>5. Chan!Latest' = date
      <4>1. Chan!ChannelFingerprint(channels').latest = channels'[c].stamp
        BY <2>7, <3>3, LatestOfRows
      <4> QED
        BY <2>5, <2>6, <4>1 DEF Chan!Latest
    <3>6. ASSUME NEW r \in Unraced, NEW l \in Dated, Chan!Age(l) <= Chan!Age(Chan!Latest)
          PROVE  l # date /\ Chan!Age(l) <= Chan!Age(date)
      <4>1. Chan!Latest = Chan!Unloaded \/ (Chan!Latest \in Chan!Stamps /\ Chan!Latest < date)
        BY <1>3, <3>2
      <4> QED
        BY <1>2, <2>5, <3>6, <4>1 DEF Chan!Age
    <3>7. \A p \in Requests, r \in Replicas : Chan!Loading(p, r)' =>
            Chan!Loading(p, r) /\ posting'[p] = posting[p]
      BY <2>8 DEF Chan!Loading
    <3>8. \A p \in Requests, r \in Replicas : Chan!Swapping(p, r)' =>
            Chan!Swapping(p, r) /\ Chan!Loading(p, r) /\ posting'[p] = posting[p]
      BY <2>8 DEF Chan!Loading, Chan!Swapping
    <3>9. ASSUME NEW r \in Unraced
          PROVE  /\ fingerprint[r].latest \in Dated /\ fingerprint[r].latest # date
                 /\ Chan!Age(fingerprint[r].latest) <= Chan!Age(date)
                 /\ \A p \in Requests : Chan!Loading(p, r) =>
                      /\ posting[p].print.latest \in Dated /\ posting[p].print.latest # date
                      /\ Chan!Age(posting[p].print.latest) <= Chan!Age(date)
      BY <1>1, <3>6, <3>9 DEF Chan!PrintsKept
    <3>10. Chan!PrintsKept'
      <4>1. \A r \in Replicas \ raced' :
              /\ fingerprint'[r].latest \in Dated
              /\ Chan!Age(fingerprint'[r].latest) <= Chan!Age(date)
              /\ \A p \in Requests : Chan!Loading(p, r)' =>
                   /\ posting'[p].print.latest \in Dated
                   /\ Chan!Age(posting'[p].print.latest) <= Chan!Age(date)
        BY <2>4, <3>1, <3>7, <3>9
      <4> QED
        BY <3>5, <4>1 DEF Chan!PrintsKept, Chan!Age
    <3>11. Chan!LoadsKept'
      <4>1. ASSUME NEW r \in Replicas \ raced'
            PROVE  /\ \A o, p \in Requests : Chan!Loading(o, r)' /\ Chan!Loading(p, r)' => o = p
                   /\ fingerprint'[r].latest # Chan!Latest'
                   /\ \A p \in Requests : Chan!Swapping(p, r)' =>
                        /\ posting'[p].print.latest # Chan!Latest'
                        /\ \A d \in Channels \ posting'[p].left :
                             providers'[r][d] = posting'[p].loaded[d]
        <5>1. \A o, p \in Requests : Chan!Loading(o, r) /\ Chan!Loading(p, r) => o = p
          BY <1>1, <3>1, <4>1 DEF Chan!LoadsKept
        <5>2. \A p \in Requests : Chan!Swapping(p, r) =>
                \A d \in Channels \ posting[p].left : providers[r][d] = posting[p].loaded[d]
          BY <1>1, <3>1, <4>1 DEF Chan!LoadsKept
        <5> QED
          BY <2>4, <3>1, <3>5, <3>7, <3>8, <3>9, <4>1, <5>1, <5>2
      <4> QED
        BY <4>1 DEF Chan!LoadsKept
    <3> QED
      BY <2>9, <2>10, <3>4, <3>10, <3>11 DEF Chan!ChannelsInv
  <2> QED
    BY <2>11, <2>12
\* A load takes the print, and then reads the channels: a change between the two makes the
\* print an old one.
<1>14. ASSUME NEW q \in Requests, Chan!TakeFingerprint(q) PROVE Chan!ChannelsInv'
  <2>1. PICK at, print : at = posting[q].at /\ print = Chan!ChannelFingerprint(channels)
    OBVIOUS
  <2>2. PICK x : x = [op |-> "load", at |-> at, print |-> print]
    OBVIOUS
  <2>3. /\ posting[q].op = "fingerprint" /\ posting' = [posting EXCEPT ![q] = x]
        /\ raced' = raced \cup {r \in {at} : \E p \in Requests : Chan!Loading(p, r)}
        /\ UNCHANGED <<channels, stamp, providers, fingerprint>>
    BY <1>14, <2>1, <2>2 DEF Chan!TakeFingerprint, Chan!Step
  <2>4. /\ posting'[q] = x /\ x.op = "load" /\ x.at = at /\ x.print.latest = Chan!Latest
        /\ \A p \in Requests \ {q} : posting'[p] = posting[p]
    BY <1>1, <2>1, <2>2, <2>3 DEF Chan!Latest
  <2>5. stamp' \in Chan!Stamps /\ stamp <= stamp'
    BY <1>1, <1>2, <2>3
  <2>7. at \in Replicas /\ raced \subseteq raced' /\ raced' \subseteq Replicas
    BY <1>1, <2>1, <2>3 DEF Chan!PostsKept
  <2>8. Chan!PostsKept'
    BY <1>8, <2>3, <2>4, <2>5, <2>7
  <2>9. Chan!TableKept' /\ Chan!OrderKept' /\ Chan!Latest' = Chan!Latest
    BY <1>1, <1>7, <2>3, <2>5, <2>7
  <2>10. \A p \in Requests, r \in Replicas : Chan!Loading(p, r)' =>
           \/ p = q /\ r = at
           \/ p # q /\ Chan!Loading(p, r) /\ posting'[p] = posting[p]
    BY <2>4 DEF Chan!Loading
  <2>11. \A p \in Requests, r \in Replicas : Chan!Swapping(p, r)' =>
           Chan!Swapping(p, r) /\ posting'[p] = posting[p]
    BY <2>4 DEF Chan!Swapping
  <2>12. \A p \in Requests, r \in Replicas : Chan!Swapping(p, r) => Chan!Swapping(p, r)'
    BY <2>3, <2>4 DEF Chan!Swapping
  <2>13. Chan!PrintsKept'
    <3>1. ASSUME NEW r \in Replicas \ raced'
          PROVE  /\ fingerprint[r].latest \in Dated
                 /\ Chan!Age(fingerprint[r].latest) <= Chan!Age(Chan!Latest)
                 /\ \A p \in Requests : Chan!Loading(p, r)' =>
                      /\ posting'[p].print.latest \in Dated
                      /\ Chan!Age(posting'[p].print.latest) <= Chan!Age(Chan!Latest)
      <4>1. r \in Unraced /\ Chan!Latest \in Dated
        BY <1>4, <2>7, <3>1
      <4>2. Chan!Age(Chan!Latest) <= Chan!Age(Chan!Latest)
        BY <1>2, <4>1 DEF Chan!Age
      <4> QED
        BY <1>1, <2>4, <2>10, <4>1, <4>2 DEF Chan!PrintsKept
    <3> QED
      BY <2>3, <2>9, <3>1 DEF Chan!PrintsKept, Chan!Age
  <2>14. Chan!LoadsKept'
    <3>1. ASSUME NEW r \in Replicas \ raced', NEW o \in Requests, NEW p \in Requests,
                 Chan!Loading(o, r)', Chan!Loading(p, r)'
          PROVE  o = p
      <4>1. r \in Unraced /\ (r = at => \A e \in Requests : ~Chan!Loading(e, r))
        BY <2>3, <2>7, <3>1
      <4>2. CASE r = at
        BY <2>10, <3>1, <4>1, <4>2
      <4>3. CASE r # at
        BY <1>1, <2>10, <3>1, <4>1, <4>3 DEF Chan!LoadsKept
      <4> QED
        BY <4>2, <4>3
    <3> QED
      BY <1>1, <2>3, <2>7, <2>9, <2>11, <2>12, <3>1 DEF Chan!LoadsKept
  <2> QED
    BY <2>8, <2>9, <2>13, <2>14 DEF Chan!ChannelsInv
<1>15. ASSUME NEW q \in Requests, Chan!LoadChannels(q) PROVE Chan!ChannelsInv'
  <2>1. PICK at, print : at = posting[q].at /\ print = posting[q].print
    OBVIOUS
  <2>2. PICK loaded \in Chan!Loads : loaded = Chan!LoadedOf(channels)
    BY <1>5
  <2>3. PICK x : x = [op |-> "swap", at |-> at, print |-> print, loaded |-> loaded,
                      left |-> Channels]
    OBVIOUS
  <2>4. /\ posting[q].op = "load" /\ posting' = [posting EXCEPT ![q] = x]
        /\ UNCHANGED <<channels, stamp, providers, fingerprint, raced>>
    BY <1>15, <2>1, <2>2, <2>3 DEF Chan!LoadChannels, Chan!Step
  <2>5. /\ posting'[q] = x /\ x.op = "swap" /\ x.at = at /\ x.print = print
        /\ x.loaded = loaded /\ x.left = Channels
        /\ \A p \in Requests \ {q} : posting'[p] = posting[p]
    BY <1>1, <2>3, <2>4
  <2>6. at \in Replicas /\ x \in Swaps(x.print)
    <3>1. at \in Replicas
      BY <1>1, <2>1, <2>4 DEF Chan!PostsKept
    <3> QED
      BY <2>3, <2>5, <3>1
  <2>7. stamp' \in Chan!Stamps /\ stamp <= stamp'
    BY <1>1, <1>2, <2>4
  <2>8. Chan!PostsKept'
    BY <1>8, <2>4, <2>5, <2>6, <2>7
  <2>9. Chan!TableKept' /\ Chan!OrderKept' /\ Chan!Latest' = Chan!Latest
    BY <1>1, <1>7, <2>4, <2>7
  <2>10. \A p \in Requests, r \in Replicas : Chan!Loading(p, r)' =>
           Chan!Loading(p, r) /\ posting'[p].print = posting[p].print
    BY <2>1, <2>4, <2>5 DEF Chan!Loading
  <2>11. \A p \in Requests, r \in Replicas : Chan!Swapping(p, r)' =>
           p = q \/ (Chan!Swapping(p, r) /\ posting'[p] = posting[p])
    BY <2>5 DEF Chan!Swapping
  <2>12. \A p \in Requests, r \in Replicas : Chan!Swapping(p, r) => Chan!Swapping(p, r)'
    BY <2>4, <2>5 DEF Chan!Swapping
  <2>13. Chan!PrintsKept'
    BY <1>1, <2>4, <2>9, <2>10 DEF Chan!PrintsKept, Chan!Age
  <2>14. Chan!LoadsKept'
    <3>1. ASSUME NEW r \in Unraced, NEW p \in Requests, Chan!Swapping(p, r)'
          PROVE  /\ posting'[p].print.latest = Chan!Latest =>
                      posting'[p].loaded = Chan!LoadedOf(channels)
                 /\ \A c \in Channels \ posting'[p].left :
                      providers[r][c] = posting'[p].loaded[c]
      <4>1. CASE p = q
        BY <2>2, <2>5, <4>1
      <4>2. CASE p # q
        BY <1>1, <2>11, <3>1, <4>2 DEF Chan!LoadsKept
      <4> QED
        BY <4>1, <4>2
    <3>2. \A r \in Unraced : \A o, p \in Requests :
            Chan!Loading(o, r)' /\ Chan!Loading(p, r)' => o = p
      BY <1>1, <2>10 DEF Chan!LoadsKept
    <3>3. \A r \in Unraced :
            (\A p \in Requests : ~Chan!Swapping(p, r)') /\ fingerprint[r].latest = Chan!Latest =>
              providers[r] = Chan!LoadedOf(channels)
      BY <1>1, <2>12 DEF Chan!LoadsKept
    <3> QED
      BY <2>4, <2>9, <3>1, <3>2, <3>3 DEF Chan!LoadsKept
  <2> QED
    BY <2>8, <2>9, <2>13, <2>14 DEF Chan!ChannelsInv
\* The providers, one by one, and the print.
<1>16. ASSUME NEW q \in Requests, NEW c \in Channels, Chan!SwapProvider(q, c)
       PROVE  Chan!ChannelsInv'
  <2>1. /\ posting[q].op = "swap" /\ c \in posting[q].left
        /\ UNCHANGED <<channels, stamp, fingerprint, raced>>
    BY <1>16 DEF Chan!SwapProvider
  <2>2. PICK print : print = posting[q].print
    OBVIOUS
  <2>3. PICK at \in Replicas, loaded \in Chan!Loads, left \in SUBSET Channels :
          posting[q] = [op |-> "swap", at |-> at, print |-> print, loaded |-> loaded,
                        left |-> left]
    BY <1>6, <2>1, <2>2
  <2>4. PICK x : x = [op |-> "swap", at |-> at, print |-> print, loaded |-> loaded,
                      left |-> left \ {c}]
    OBVIOUS
  <2>5. posting' = [posting EXCEPT ![q] = x]
    <3>1. posting' = [posting EXCEPT ![q] = [posting[q] EXCEPT !.left = @ \ {c}]]
      BY <1>16 DEF Chan!SwapProvider, Chan!Step
    <3>2. [posting[q] EXCEPT !.left = @ \ {c}] = x
      BY <2>3, <2>4
    <3> QED
      BY <3>1, <3>2
  <2>6. /\ posting'[q] = x /\ x.op = "swap" /\ x.at = at /\ x.print = print
        /\ x.loaded = loaded /\ x.left = left \ {c} /\ x \in Swaps(x.print)
        /\ \A p \in Requests \ {q} : posting'[p] = posting[p]
    BY <1>1, <2>4, <2>5
  <2>7. /\ posting[q].at = at /\ posting[q].print = print /\ posting[q].loaded = loaded
        /\ posting[q].left = left
    BY <2>3
  <2>8. /\ providers' \in [Replicas -> Chan!Loads] /\ providers'[at][c] = loaded[c]
        /\ \A d \in Channels \ {c} : providers'[at][d] = providers[at][d]
        /\ \A r \in Replicas \ {at} : providers'[r] = providers[r]
    <3>1. providers' = [providers EXCEPT ![at] = [providers[at] EXCEPT ![c] = loaded[c]]]
      BY <1>16, <2>7 DEF Chan!SwapProvider
    <3>2. PICK old \in Chan!Loads : old = providers[at]
      BY <1>1
    <3>3. PICK new \in Chan!Loads : new = [old EXCEPT ![c] = loaded[c]]
      BY DEF Chan!Loads
    <3>4. new[c] = loaded[c] /\ \A d \in Channels \ {c} : new[d] = old[d]
      BY <3>3 DEF Chan!Loads
    <3>5. providers' \in [Replicas -> Chan!Loads] /\ providers'[at] = new
      BY <1>1, <3>1, <3>2, <3>3
    <3>6. \A r \in Replicas \ {at} : providers'[r] = providers[r]
      BY <1>1, <3>1
    <3> QED
      BY <3>2, <3>4, <3>5, <3>6
  <2>9. stamp' \in Chan!Stamps /\ stamp <= stamp'
    BY <1>1, <1>2, <2>1
  <2>10. Chan!PostsKept'
    BY <1>8, <2>1, <2>5, <2>6, <2>9
  <2>11. Chan!TableKept' /\ Chan!OrderKept' /\ Chan!Latest' = Chan!Latest
    BY <1>1, <1>7, <2>1, <2>8, <2>9
  <2>12. \A p \in Requests, r \in Replicas : Chan!Loading(p, r)' =>
           Chan!Loading(p, r) /\ posting'[p].print = posting[p].print
    BY <2>1, <2>6, <2>7 DEF Chan!Loading
  <2>13. Chan!PrintsKept'
    BY <1>1, <2>1, <2>11, <2>12 DEF Chan!PrintsKept, Chan!Age
  <2>14. Chan!LoadsKept'
    <3>1. ASSUME NEW r \in Unraced, NEW o \in Requests, NEW p \in Requests,
                 Chan!Loading(o, r), Chan!Loading(p, r)
          PROVE  o = p
      BY <1>1, <3>1 DEF Chan!LoadsKept
    <3>2. \A r \in Unraced, p \in Requests : Chan!Swapping(p, r)' =>
            Chan!Swapping(p, r) /\ (p = q <=> r = at)
      <4>1. \A r \in Replicas, p \in Requests : Chan!Swapping(p, r) => Chan!Loading(p, r)
        BY DEF Chan!Swapping, Chan!Loading
      <4>2. \A r \in Replicas, p \in Requests : Chan!Swapping(p, r)' => Chan!Swapping(p, r)
        BY <2>1, <2>6, <2>7 DEF Chan!Swapping
      <4>3. Chan!Swapping(q, at) /\ \A r \in Replicas : Chan!Swapping(q, r) => r = at
        BY <2>1, <2>7 DEF Chan!Swapping
      <4> QED
        BY <3>1, <4>1, <4>2, <4>3
    <3>3. ASSUME NEW r \in Unraced, NEW p \in Requests, Chan!Swapping(p, r)'
          PROVE  /\ posting'[p].print.latest = Chan!Latest =>
                      posting'[p].loaded = Chan!LoadedOf(channels)
                 /\ \A d \in Channels \ posting'[p].left :
                      providers'[r][d] = posting'[p].loaded[d]
      <4>1. /\ posting[p].print.latest = Chan!Latest =>
                 posting[p].loaded = Chan!LoadedOf(channels)
            /\ \A d \in Channels \ posting[p].left : providers[r][d] = posting[p].loaded[d]
        BY <1>1, <3>2, <3>3 DEF Chan!LoadsKept
      <4>2. CASE p = q
        BY <2>6, <2>7, <2>8, <3>2, <3>3, <4>1, <4>2
      <4>3. CASE p # q
        BY <2>6, <2>8, <3>2, <3>3, <4>1, <4>3
      <4> QED
        BY <4>2, <4>3
    <3>4. ASSUME NEW r \in Unraced, \A p \in Requests : ~Chan!Swapping(p, r)',
                 fingerprint[r].latest = Chan!Latest
          PROVE  providers'[r] = Chan!LoadedOf(channels)
      <4>1. r # at /\ \A p \in Requests : ~Chan!Swapping(p, r)
        BY <2>1, <2>6, <2>7, <3>4 DEF Chan!Swapping
      <4> QED
        BY <1>1, <2>8, <3>4, <4>1 DEF Chan!LoadsKept
    <3> QED
      BY <2>1, <2>11, <2>12, <3>1, <3>3, <3>4 DEF Chan!LoadsKept
  <2> QED
    BY <2>10, <2>11, <2>13, <2>14 DEF Chan!ChannelsInv
<1>17. ASSUME NEW q \in Requests, Chan!KeepFingerprint(q) PROVE Chan!ChannelsInv'
  <2>1. /\ posting[q].op = "swap" /\ posting[q].left = {}
        /\ UNCHANGED <<channels, stamp, providers, raced>>
    BY <1>17 DEF Chan!KeepFingerprint
  <2>2. PICK at \in Replicas : at = posting[q].at
    BY <1>6, <2>1
  <2>3. PICK x : x = Chan!Idle
    OBVIOUS
  <2>4. /\ posting' = [posting EXCEPT ![q] = x] /\ x.op = "idle"
        /\ fingerprint' = [fingerprint EXCEPT ![at] = posting[q].print]
    BY <1>17, <2>2, <2>3 DEF Chan!KeepFingerprint, Chan!Step, Chan!Idle
  <2>5. /\ posting'[q].op = "idle" /\ \A p \in Requests \ {q} : posting'[p] = posting[p]
        /\ DOMAIN fingerprint' = Replicas /\ fingerprint'[at] = posting[q].print
        /\ \A r \in Replicas \ {at} : fingerprint'[r] = fingerprint[r]
    BY <1>1, <2>4
  <2>6. stamp' \in Chan!Stamps /\ stamp <= stamp'
    BY <1>1, <1>2, <2>1
  <2>7. Chan!PostsKept'
    BY <1>8, <2>1, <2>4, <2>6
  <2>8. Chan!TableKept' /\ Chan!OrderKept' /\ Chan!Latest' = Chan!Latest
    BY <1>1, <1>7, <2>1, <2>5, <2>6
  <2>9. Chan!Loading(q, at) /\ Chan!Swapping(q, at)
    BY <2>1, <2>2 DEF Chan!Loading, Chan!Swapping
  <2>10. \A p \in Requests, r \in Replicas : Chan!Loading(p, r)' =>
           p # q /\ Chan!Loading(p, r) /\ posting'[p] = posting[p]
    BY <2>5 DEF Chan!Loading
  <2>11. \A p \in Requests, r \in Replicas : Chan!Swapping(p, r)' =>
           p # q /\ Chan!Swapping(p, r) /\ posting'[p] = posting[p]
    BY <2>5 DEF Chan!Swapping
  <2>12. Chan!PrintsKept'
    <3>1. ASSUME NEW r \in Unraced
          PROVE  /\ fingerprint'[r].latest \in Dated
                 /\ Chan!Age(fingerprint'[r].latest) <= Chan!Age(Chan!Latest)
                 /\ \A p \in Requests : Chan!Loading(p, r)' =>
                      /\ posting'[p].print.latest \in Dated
                      /\ Chan!Age(posting'[p].print.latest) <= Chan!Age(Chan!Latest)
      BY <1>1, <2>2, <2>5, <2>9, <2>10, <3>1 DEF Chan!PrintsKept
    <3> QED
      BY <2>1, <2>8, <3>1 DEF Chan!PrintsKept, Chan!Age
  <2>13. Chan!LoadsKept'
    <3>1. ASSUME NEW r \in Unraced, NEW o \in Requests, NEW p \in Requests,
                 Chan!Loading(o, r)', Chan!Loading(p, r)'
          PROVE  o = p
      BY <1>1, <2>10, <3>1 DEF Chan!LoadsKept
    <3>2. ASSUME NEW r \in Unraced, NEW p \in Requests, Chan!Swapping(p, r)'
          PROVE  /\ posting'[p].print.latest = Chan!Latest =>
                      posting'[p].loaded = Chan!LoadedOf(channels)
                 /\ \A d \in Channels \ posting'[p].left :
                      providers[r][d] = posting'[p].loaded[d]
      BY <1>1, <2>11, <3>2 DEF Chan!LoadsKept
    <3>3. ASSUME NEW r \in Unraced, \A p \in Requests : ~Chan!Swapping(p, r)',
                 fingerprint'[r].latest = Chan!Latest
          PROVE  providers[r] = Chan!LoadedOf(channels)
      <4>1. CASE r # at
        <5>1. \A p \in Requests : ~Chan!Swapping(p, r)
          BY <2>2, <2>5, <3>3, <4>1 DEF Chan!Swapping
        <5> QED
          BY <1>1, <2>5, <3>3, <4>1, <5>1 DEF Chan!LoadsKept
      <4>2. CASE r = at
        <5>1. /\ posting[q].loaded = Chan!LoadedOf(channels)
              /\ \A d \in Channels : providers[r][d] = posting[q].loaded[d]
          BY <1>1, <2>1, <2>2, <2>5, <2>9, <3>3, <4>2 DEF Chan!LoadsKept
        <5>2. providers[r] \in Chan!Loads
          BY <1>1
        <5> QED
          BY <1>5, <5>1, <5>2 DEF Chan!Loads
      <4> QED
        BY <4>1, <4>2
    <3> QED
      BY <2>1, <2>8, <3>1, <3>2, <3>3 DEF Chan!LoadsKept
  <2> QED
    BY <2>7, <2>8, <2>12, <2>13 DEF Chan!ChannelsInv
<1>18. CASE UNCHANGED Chan!notifyVars
  <2>1. UNCHANGED <<channels, stamp, providers, fingerprint, posting, raced>>
    BY <1>18 DEF Chan!notifyVars
  <2>2. Chan!TableKept' /\ Chan!OrderKept' /\ Chan!Latest' = Chan!Latest
    BY <1>1, <1>2, <1>7, <2>1
  <2>3. Chan!PostsKept'
    BY <1>1, <2>1 DEF Chan!PostsKept
  <2>4. Chan!PrintsKept' /\ Chan!LoadsKept'
    BY <1>1, <2>1, <2>2 DEF Chan!PrintsKept, Chan!LoadsKept, Chan!Age, Chan!Loading, Chan!Swapping
  <2> QED
    BY <2>2, <2>3, <2>4 DEF Chan!ChannelsInv
<1> QED
  BY <1>10, <1>11, <1>12, <1>13, <1>14, <1>15, <1>16, <1>17, <1>18 DEF Chan!Next

\* Spec: a replica whose fingerprint is the table's has loaded the table, whatever was stored
\* while it did; unless loads or dates were out of order.
THEOREM RefreshNeverMisses == Spec => []RefreshMissesNothing
<1> DEFINE Inv == part = "channels" => Chan!ChannelsInv
<1>1. Init => Inv
  BY ChannelsInitially DEF Init
<1>2. Inv /\ [Next]_vars => Inv'
  <2>1. part = "channels" /\ [Next]_vars => [Chan!Next]_(Chan!notifyVars)
    BY DEF Next, vars, Chan!notifyVars
  <2> QED
    BY <2>1, PartIsKept, ChannelsKept
<1>3. Inv => RefreshMissesNothing
  <2>1. ASSUME Chan!LoadsKept PROVE Chan!RefreshMissesNothing
    BY <2>1 DEF Chan!LoadsKept, Chan!RefreshMissesNothing, Chan!Latest, Chan!Loading, Chan!Swapping
  <2> QED
    BY <2>1 DEF Chan!ChannelsInv, RefreshMissesNothing
<1> QED
  BY <1>1, <1>2, <1>3, PTL DEF Spec
===============================================================================
