---------------------------- MODULE LeaderLease ----------------------------
(***************************************************************************)
(* Election of the one active worker with a Kubernetes Lease: replicas     *)
(* that wait for it, the holder that renews it, gives up when it cannot,   *)
(* and hands it over when it is shut down.                                 *)
(*                                                                         *)
(* Time passes in ticks that every replica counts on a clock of its own;   *)
(* clocks have no common origin but run at one rate, and a timer that is   *)
(* due fires within the tick. A resourceVersion is only ever compared with *)
(* the one the Lease has, so the model keeps whether they are equal.       *)
(***************************************************************************)
EXTENDS Naturals

CONSTANTS
  Workers,        \* replicas, by their identity (the pod's name)
  NoOne,          \* no holder: no Lease yet, or one that was released
  LeaseDuration,  \* how long a standby must have seen no change
  RenewEvery,     \* pause between two attempts
  RenewDeadline,  \* the holder gives up this long after it last renewed
  MaxCall,        \* bound: how long an attempt to acquire can take
  MaxFaults       \* bound: lost calls, crashes and shutdowns

ASSUME NoOneAssumption == NoOne \notin Workers
ASSUME TimesAssumption ==
  /\ LeaseDuration \in Nat \ {0} /\ RenewEvery \in Nat /\ RenewDeadline \in Nat
  /\ MaxCall \in Nat /\ MaxFaults \in Nat

VARIABLES
  holder,     \* the Lease's holderIdentity
  age,        \* time since the Lease was last written, up to LeaseDuration
  stray,      \* holders that writes given up by their caller may still set
  role,       \* what each replica's process is doing
  call,       \* where its attempt is: waiting for the server, or for its answer
  timer,      \* time since its last attempt ended, or since the current one began
  seen,       \* the version it read last is the one the Lease has
  unchanged,  \* LeaseObserver: how long it has seen no change, up to LeaseDuration
  sinceOk,    \* time since last_ok
  faults      \* faults so far

lease == <<holder, age, stray>>
process == <<role, call, timer, seen, unchanged, sinceOk>>
vars == <<lease, process, faults>>

Roles == {"down", "standby", "leader", "releasing"}
Calls == {"none", "get", "put", "ack", "refused"}

\* A timer stops where nothing distinguishes longer times.
Later(t) == IF t < LeaseDuration THEN t + 1 ELSE t

Init ==
  /\ holder = NoOne
  /\ age = 0
  /\ stray = {}
  /\ role = [w \in Workers |-> "down"]
  /\ call = [w \in Workers |-> "none"]
  /\ timer = [w \in Workers |-> 0]
  /\ seen = [w \in Workers |-> FALSE]
  /\ unchanged = [w \in Workers |-> 0]
  /\ sinceOk = [w \in Workers |-> 0]
  /\ faults = 0

Fault == faults < MaxFaults /\ faults' = faults + 1

-----------------------------------------------------------------------------
(* Attempts: read the Lease, decide, write it back.                        *)

\* A process starts: acquire, with a new observer, tries at once.
Start(w) ==
  /\ role[w] = "down"
  /\ role' = [role EXCEPT ![w] = "standby"]
  /\ call' = [call EXCEPT ![w] = "get"]
  /\ timer' = [timer EXCEPT ![w] = 0]
  /\ seen' = [seen EXCEPT ![w] = FALSE]
  /\ unchanged' = [unchanged EXCEPT ![w] = 0]
  /\ UNCHANGED <<lease, sinceOk, faults>>

\* Mutant of Attempt: a standby tries once.
AttemptToRenew(w) ==
  /\ role[w] = "leader" /\ call[w] = "none" /\ timer[w] >= RenewEvery
  /\ call' = [call EXCEPT ![w] = "get"]
  /\ timer' = [timer EXCEPT ![w] = 0]
  /\ UNCHANGED <<lease, role, seen, unchanged, sinceOk, faults>>

\* The pause is over: try again.
Attempt(w) ==
  /\ role[w] \in {"standby", "leader"} /\ call[w] = "none" /\ timer[w] >= RenewEvery
  /\ call' = [call EXCEPT ![w] = "get"]
  /\ timer' = [timer EXCEPT ![w] = 0]
  /\ UNCHANGED <<lease, role, seen, unchanged, sinceOk, faults>>

\* Mutant of UnchangedFor: a new version does not restart the clock.
UnchangedSinceFirst(w) == IF role[w] = "standby" THEN unchanged[w] ELSE 0

\* unchanged_for: a renewal has a fresh observer every time.
UnchangedFor(w) == IF role[w] = "standby" /\ seen[w] THEN unchanged[w] ELSE 0

\* decide, of a Lease whose holder is h.
Decide(h, w, unchangedFor) ==
  CASE h = NoOne -> "acquire"
    [] h = w     -> "renew"
    [] OTHER     -> IF unchangedFor >= LeaseDuration THEN "acquire" ELSE "wait"

\* The attempt of w is over: pause before the next.
Pause(w) ==
  /\ call' = [call EXCEPT ![w] = "none"]
  /\ timer' = [timer EXCEPT ![w] = 0]

\* The process of w ends. A write it sent can still reach the server.
Exit(w, to) ==
  /\ role' = [role EXCEPT ![w] = "down"]
  /\ call' = [call EXCEPT ![w] = "none"]
  /\ stray' = IF call[w] = "put" /\ seen[w] THEN stray \cup {to} ELSE stray
  /\ UNCHANGED <<holder, age, timer, seen, unchanged, sinceOk>>

\* The server's answer to the GET, and the decision on it: wait, or send a PUT that
\* carries the version that was read. A holder that should wait was taken over.
Read(w) ==
  /\ call[w] = "get" /\ role[w] \in {"standby", "leader"}
  /\ IF Decide(holder, w, UnchangedFor(w)) # "wait"
     THEN call' = [call EXCEPT ![w] = "put"] /\ UNCHANGED <<role, timer>>
     ELSE IF role[w] = "standby"
     THEN Pause(w) /\ UNCHANGED role
     ELSE /\ role' = [role EXCEPT ![w] = "down"]
          /\ call' = [call EXCEPT ![w] = "none"]
          /\ UNCHANGED timer
  /\ seen' = [seen EXCEPT ![w] = TRUE]
  /\ unchanged' = [unchanged EXCEPT ![w] = UnchangedFor(w)]
  /\ UNCHANGED <<lease, sinceOk, faults>>

\* The server writes the Lease: nobody has seen this version.
Written(to) ==
  /\ holder' = to
  /\ age' = 0
  /\ stray' = {}
  /\ seen' = [v \in Workers |-> FALSE]

\* Mutant of Write: the PUT carries no version.
WriteUnconditionally(w) ==
  /\ call[w] = "put" /\ role[w] \in {"standby", "leader"}
  /\ Written(w)
  /\ call' = [call EXCEPT ![w] = "ack"]
  /\ UNCHANGED <<role, timer, unchanged, sinceOk, faults>>

\* The PUT reaches the server, which refuses it if the version has changed.
Write(w) ==
  /\ call[w] = "put" /\ role[w] \in {"standby", "leader"}
  /\ IF seen[w]
     THEN Written(w) /\ call' = [call EXCEPT ![w] = "ack"]
     ELSE call' = [call EXCEPT ![w] = "refused"] /\ UNCHANGED <<lease, seen>>
  /\ UNCHANGED <<role, timer, unchanged, sinceOk, faults>>

\* The answer to its first PUT makes a standby the leader; renew_until_lost counts
\* from then.
Acquired(w) ==
  /\ role[w] = "standby" /\ call[w] = "ack"
  /\ role' = [role EXCEPT ![w] = "leader"]
  /\ sinceOk' = [sinceOk EXCEPT ![w] = 0]
  /\ Pause(w)
  /\ UNCHANGED <<lease, seen, unchanged, faults>>

\* Mutant of Renewed: a renewal counts from its answer.
RenewedAtAnswer(w) ==
  /\ role[w] = "leader" /\ call[w] = "ack"
  /\ sinceOk' = [sinceOk EXCEPT ![w] = 0]
  /\ Pause(w)
  /\ UNCHANGED <<lease, role, seen, unchanged, faults>>

\* A renewal counts from when its attempt began.
Renewed(w) ==
  /\ role[w] = "leader" /\ call[w] = "ack"
  /\ sinceOk' = [sinceOk EXCEPT ![w] = timer[w]]
  /\ Pause(w)
  /\ UNCHANGED <<lease, role, seen, unchanged, faults>>

Refused(w) ==
  /\ call[w] = "refused"
  /\ Pause(w)
  /\ UNCHANGED <<lease, role, seen, unchanged, sinceOk, faults>>

\* The attempt fails at the client: the connection broke, before or after the server
\* had its request.
FailedAttempt(w) ==
  /\ Fault
  /\ role[w] \in {"standby", "leader"} /\ call[w] \in {"get", "put", "ack"}
  /\ stray' = IF call[w] = "put" /\ seen[w] THEN stray \cup {w} ELSE stray
  /\ Pause(w)
  /\ UNCHANGED <<holder, age, role, seen, unchanged, sinceOk>>

\* A write its caller gave up is applied, unless another came first.
StrayWrite ==
  /\ \E to \in stray : Written(to)
  /\ UNCHANGED <<role, call, timer, unchanged, sinceOk, faults>>

-----------------------------------------------------------------------------
(* The end of a term.                                                      *)

\* renew_until_lost gives up at its deadline, even while a call is hanging: lost is
\* cancelled, and the process exits without draining.
GiveUp(w) ==
  /\ role[w] = "leader" /\ sinceOk[w] >= RenewDeadline
  /\ Exit(w, w)
  /\ UNCHANGED faults

Crash(w) ==
  /\ Fault
  /\ role[w] # "down"
  /\ Exit(w, IF role[w] = "releasing" THEN NoOne ELSE w)

\* A shutdown signal: a standby stops waiting, and a leader whose loops have drained
\* stops renewing and begins to release the Lease.
Shutdown(w) ==
  /\ Fault
  /\ \/ /\ role[w] = "standby" /\ call[w] = "none"
        /\ Exit(w, w)
     \/ /\ role[w] = "leader"
        /\ role' = [role EXCEPT ![w] = "releasing"]
        /\ call' = [call EXCEPT ![w] = "get"]
        /\ stray' = IF call[w] = "put" /\ seen[w] THEN stray \cup {w} ELSE stray
        /\ UNCHANGED <<holder, age, timer, seen, unchanged, sinceOk>>

ReleaseRead(w) ==
  /\ role[w] = "releasing" /\ call[w] = "get"
  /\ IF holder = w
     THEN call' = [call EXCEPT ![w] = "put"] /\ UNCHANGED role
     ELSE /\ call' = [call EXCEPT ![w] = "none"]
          /\ role' = [role EXCEPT ![w] = "down"]
  /\ seen' = [seen EXCEPT ![w] = TRUE]
  /\ UNCHANGED <<lease, timer, unchanged, sinceOk, faults>>

\* The process ends whatever the server says.
ReleaseWrite(w) ==
  /\ role[w] = "releasing" /\ call[w] = "put"
  /\ IF seen[w] THEN Written(NoOne) ELSE UNCHANGED <<lease, seen>>
  /\ call' = [call EXCEPT ![w] = "none"]
  /\ role' = [role EXCEPT ![w] = "down"]
  /\ UNCHANGED <<timer, unchanged, sinceOk, faults>>

-----------------------------------------------------------------------------
(* Time, and the specification.                                            *)

\* Timers fire when they are due, and an attempt to acquire keeps to its bound.
Tick ==
  /\ \A w \in Workers :
       /\ role[w] \in {"standby", "leader"} /\ call[w] = "none" => timer[w] < RenewEvery
       /\ role[w] = "leader" => sinceOk[w] < RenewDeadline
       /\ role[w] = "standby" /\ call[w] # "none" => timer[w] < MaxCall
  /\ age' = Later(age)
  /\ timer' = [w \in Workers |-> Later(timer[w])]
  /\ unchanged' = [w \in Workers |-> Later(unchanged[w])]
  /\ sinceOk' = [w \in Workers |-> Later(sinceOk[w])]
  /\ UNCHANGED <<holder, stray, role, call, seen, faults>>

\* What a replica does unless something fails.
Proceed(w) ==
  \/ Start(w) \/ Attempt(w) \/ Read(w) \/ Write(w) \/ Acquired(w) \/ Renewed(w)
  \/ Refused(w) \/ GiveUp(w) \/ ReleaseRead(w) \/ ReleaseWrite(w)

Fail(w) == FailedAttempt(w) \/ Crash(w) \/ Shutdown(w)

Next == (\E w \in Workers : Proceed(w) \/ Fail(w)) \/ StrayWrite \/ Tick

Spec == Init /\ [][Next]_vars

\* Processes are restarted, requests are answered, timers fire, time passes.
FairSpec == Spec /\ WF_vars(Tick) /\ \A w \in Workers : WF_vars(Proceed(w))

-----------------------------------------------------------------------------
(* Correctness.                                                            *)

Times == 0..LeaseDuration

\* Types of the variables.
TypeOK ==
  /\ holder \in Workers \cup {NoOne}
  /\ age \in Times
  /\ stray \subseteq Workers \cup {NoOne}
  /\ role \in [Workers -> Roles]
  /\ call \in [Workers -> Calls]
  /\ timer \in [Workers -> Times]
  /\ seen \in [Workers -> BOOLEAN]
  /\ unchanged \in [Workers -> Times]
  /\ sinceOk \in [Workers -> Times]
  /\ faults \in Nat

\* Only the replica that holds the Lease runs the worker's loops, so no two do: a
\* leader that cannot renew has given up before a standby takes over.
OnlyHolderLeads == \A w \in Workers : role[w] = "leader" => holder = w

\* A takeover does not find a leader whose deadline is still to come.
GivesUpBeforeTakeover ==
  \A w \in Workers : role[w] = "leader" /\ sinceOk[w] < RenewDeadline => holder = w

\* The Lease passes from one replica to another only after it has gone unwritten for
\* LeaseDuration, though no standby can tell when it was written.
LiveLeaseNotStolen ==
  [][{holder, holder'} \subseteq Workers /\ holder' # holder => age >= LeaseDuration]_vars

\* Once calls succeed and processes stay up, there is a leader again.
VacancyEnds == (\A w \in Workers : role[w] # "leader") ~> (\E w \in Workers : role[w] = "leader")

-----------------------------------------------------------------------------
(* The inductive invariant: why OnlyHolderLeads and LiveLeaseNotStolen     *)
(* hold when an attempt to acquire takes less than the time between        *)
(* RenewDeadline and LeaseDuration.                                        *)

\* The Lease is w's and its writer will know: it leads, or is about to.
Holds(w) == role[w] = "leader" \/ (role[w] = "standby" /\ call[w] = "ack")

\* How old the Lease can be while w holds it.
HeldInv ==
  \A w \in Workers :
    /\ Holds(w) => holder = w
    /\ role[w] \in {"standby", "leader"} /\ call[w] = "ack" => age <= timer[w]
    /\ role[w] = "standby" /\ call[w] # "none" => timer[w] <= MaxCall
    /\ role[w] = "leader" =>
         /\ timer[w] <= sinceOk[w] /\ sinceOk[w] <= RenewDeadline
         /\ age <= sinceOk[w] + MaxCall

\* A write that can still succeed is by the holder, or by one entitled to take over.
PutInv ==
  /\ \A w \in Workers :
       /\ seen[w] => unchanged[w] <= age \/ role[w] # "standby"
       /\ call[w] = "put" /\ seen[w] =>
            IF role[w] = "releasing" THEN holder = w
            ELSE holder \in {w, NoOne} \/ age >= LeaseDuration
  /\ \A to \in stray : holder \in {to, NoOne} \/ age >= LeaseDuration \/ to = NoOne
  /\ NoOne \in stray => \A w \in Workers : ~Holds(w)

\* The inductive invariant of the election.
IndInv == TypeOK /\ HeldInv /\ PutInv
=============================================================================
