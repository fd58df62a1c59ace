------------------------- MODULE LeaderLeaseProofs -------------------------
(***************************************************************************)
(* For any number of replicas and any times: if an attempt to acquire is   *)
(* answered before LeaseDuration - RenewDeadline has passed, only the      *)
(* holder of the Lease leads and a live Lease is never stolen.             *)
(***************************************************************************)
EXTENDS LeaderLease, TLAPS

\* The answer to an acquisition comes early enough.
PromptAcquire == RenewDeadline + MaxCall < LeaseDuration

\* The Lease of a replica that holds it is too young to be taken over.
LEMMA HeldIsYoung ==
  ASSUME PromptAcquire, IndInv, NEW w \in Workers, Holds(w)
  PROVE  holder = w /\ age < LeaseDuration
BY TimesAssumption DEF PromptAcquire, IndInv, HeldInv, TypeOK, Holds, Times

\* So a write that can succeed leaves the Lease with the replica that holds it.
LEMMA OnlyHolderWrites ==
  ASSUME PromptAcquire, IndInv, NEW w \in Workers, Holds(w)
  PROVE  /\ \A v \in Workers : call[v] = "put" /\ seen[v] => v = w /\ role[v] # "releasing"
         /\ stray \subseteq {w}
<1>1. holder = w /\ age < LeaseDuration /\ holder # NoOne
  BY HeldIsYoung, NoOneAssumption
<1>2. role[w] # "releasing"
  BY DEF Holds
<1>3. TypeOK /\ PutInv
  BY DEF IndInv
<1> QED
  BY <1>1, <1>2, <1>3, TimesAssumption DEF PutInv, TypeOK, Times

\* No replica runs initially, and no write is under way.
LEMMA InitInv == Init => IndInv
BY TimesAssumption DEF Init, IndInv, TypeOK, HeldInv, PutInv, Holds, Times, Roles, Calls

\* A write of the Lease sets variables of the server's and what replicas know of it.
LEMMA WrittenTypes ==
  ASSUME NEW to \in Workers \cup {NoOne}, Written(to)
  PROVE  /\ holder' \in Workers \cup {NoOne}
         /\ age' \in Times
         /\ stray' \subseteq Workers \cup {NoOne}
         /\ seen' \in [Workers -> BOOLEAN]
<1>1. seen' = [v \in Workers |-> FALSE]
  BY DEF Written
<1>2. seen' \in [Workers -> BOOLEAN]
  BY <1>1
<1>3. age' \in Times
  BY TimesAssumption DEF Written, Times
<1> QED
  BY <1>2, <1>3 DEF Written

\* Every step keeps the types.
LEMMA Typing ==
  ASSUME TypeOK, [Next]_vars
  PROVE  TypeOK'
<1> USE TimesAssumption DEF TypeOK, Times, Roles, Calls, lease, Fault
<1>1. ASSUME NEW w \in Workers, Proceed(w) PROVE TypeOK'
  <2>1. CASE Start(w)
    BY <2>1 DEF Start
  <2>7. CASE Attempt(w) \/ Refused(w)
    BY <2>7 DEF Attempt, Refused, Pause
  <2>5. CASE Acquired(w) \/ Renewed(w)
    BY <2>5 DEF Acquired, Renewed, Pause
  <2>2. CASE Read(w)
    BY <2>2 DEF Read, UnchangedFor, Pause
  <2>3. CASE Write(w)
    BY <2>3, WrittenTypes DEF Write
  <2>8. CASE ReleaseWrite(w)
    BY <2>8, WrittenTypes DEF ReleaseWrite
  <2>6. CASE ReleaseRead(w)
    BY <2>6 DEF ReleaseRead
  <2>4. CASE GiveUp(w)
    BY <2>4 DEF GiveUp, Exit
  <2> QED
    BY <1>1, <2>1, <2>2, <2>3, <2>4, <2>5, <2>6, <2>7, <2>8 DEF Proceed
<1>2. ASSUME NEW w \in Workers, Fail(w) PROVE TypeOK'
  BY <1>2 DEF Fail, FailedAttempt, Crash, Shutdown, Exit, Pause
<1>3. CASE StrayWrite
  BY <1>3 DEF StrayWrite, Written
<1>4. CASE Tick
  BY <1>4 DEF Tick, Later
<1>5. CASE UNCHANGED vars
  BY <1>5 DEF vars, process
<1> QED
  BY <1>1, <1>2, <1>3, <1>4, <1>5 DEF Next

\* Every step keeps the inductive invariant.
LEMMA Inductive ==
  ASSUME PromptAcquire, IndInv, [Next]_vars
  PROVE  IndInv'
<1>1. TypeOK /\ HeldInv /\ PutInv /\ TypeOK'
  BY Typing DEF IndInv
<1> SUFFICES (HeldInv /\ PutInv)'
  BY <1>1 DEF IndInv
<1> USE TimesAssumption, NoOneAssumption
<1>2. ASSUME NEW w \in Workers, Proceed(w) PROVE (HeldInv /\ PutInv)'
  <2>1. CASE Start(w) \/ Attempt(w) \/ Refused(w)
    BY <1>1, <2>1 DEF TypeOK, HeldInv, PutInv, Holds, Start, Attempt, Refused, Pause, lease, Times
  <2>2. CASE Acquired(w) \/ Renewed(w)
    BY <1>1, <2>2 DEF TypeOK, HeldInv, PutInv, Holds, Acquired, Renewed, Pause, lease, Times, PromptAcquire
  <2>3. CASE Read(w)
    BY <1>1, <2>3 DEF TypeOK, HeldInv, PutInv, Holds, Read, Decide, UnchangedFor, Pause, lease, Times
  <2>4. CASE Write(w)
    <3>1. CASE seen[w]
      BY <1>1, <2>4, <3>1, OnlyHolderWrites DEF TypeOK, HeldInv, PutInv, Holds, Write, Written, Times
    <3>2. CASE ~seen[w]
      BY <1>1, <2>4, <3>2 DEF TypeOK, HeldInv, PutInv, Holds, Write, lease, Times
    <3> QED
      BY <3>1, <3>2
  <2>5. CASE GiveUp(w)
    BY <1>1, <2>5 DEF TypeOK, HeldInv, PutInv, Holds, GiveUp, Exit, Times
  <2>6. CASE ReleaseRead(w) \/ ReleaseWrite(w)
    BY <1>1, <2>6, OnlyHolderWrites
    DEF TypeOK, HeldInv, PutInv, Holds, ReleaseRead, ReleaseWrite, Written, lease, Times
  <2> QED
    BY <1>2, <2>1, <2>2, <2>3, <2>4, <2>5, <2>6 DEF Proceed
<1>3. ASSUME NEW w \in Workers, Fail(w) PROVE (HeldInv /\ PutInv)'
  <2>1. CASE FailedAttempt(w)
    BY <1>1, <2>1 DEF TypeOK, HeldInv, PutInv, Holds, FailedAttempt, Pause, Times
  <2>2. CASE Crash(w)
    BY <1>1, <2>2, OnlyHolderWrites DEF TypeOK, HeldInv, PutInv, Holds, Crash, Exit, Times
  <2>3. CASE Shutdown(w)
    BY <1>1, <2>3 DEF TypeOK, HeldInv, PutInv, Holds, Shutdown, Exit, Times
  <2> QED
    BY <1>3, <2>1, <2>2, <2>3 DEF Fail
<1>4. CASE StrayWrite
  BY <1>1, <1>4, OnlyHolderWrites DEF TypeOK, HeldInv, PutInv, Holds, StrayWrite, Written, Times
<1>5. CASE Tick
  BY <1>1, <1>5 DEF TypeOK, HeldInv, PutInv, Holds, Tick, Later, Times, PromptAcquire
<1>6. CASE UNCHANGED vars
  BY <1>1, <1>6 DEF vars, lease, process, HeldInv, PutInv, Holds
<1> QED
  BY <1>2, <1>3, <1>4, <1>5, <1>6 DEF Next

\* The inductive invariant holds for every number of replicas and every choice of
\* times that leaves an acquisition less than LeaseDuration - RenewDeadline.
THEOREM ElectionInv == ASSUME PromptAcquire PROVE Spec => []IndInv
BY InitInv, Inductive, PTL DEF Spec

\* Only the replica that holds the Lease leads.
THEOREM LeaderHolds == ASSUME PromptAcquire PROVE Spec => []OnlyHolderLeads
<1>1. IndInv => OnlyHolderLeads
  BY DEF IndInv, HeldInv, Holds, OnlyHolderLeads
<1> QED
  BY <1>1, ElectionInv, PTL

\* A Lease passes to another replica only after LeaseDuration without a write.
THEOREM LiveLeaseKept == ASSUME PromptAcquire PROVE Spec => LiveLeaseNotStolen
<1>1. ASSUME IndInv, [Next]_vars
      PROVE  {holder, holder'} \subseteq Workers /\ holder' # holder => age >= LeaseDuration
  <2>1. TypeOK /\ PutInv
    BY <1>1 DEF IndInv
  <2>2. ASSUME NEW w \in Workers, Write(w) \/ ReleaseWrite(w)
        PROVE  {holder, holder'} \subseteq Workers /\ holder' # holder => age >= LeaseDuration
    BY <2>1, <2>2, NoOneAssumption DEF PutInv, Write, ReleaseWrite, Written, lease
  <2>3. CASE StrayWrite
    BY <2>1, <2>3, NoOneAssumption DEF PutInv, StrayWrite, Written
  <2>4. \/ UNCHANGED holder
        \/ \E w \in Workers : Write(w) \/ ReleaseWrite(w)
        \/ StrayWrite
    BY <1>1 DEF Next, Proceed, Fail, Start, Attempt, Read, Acquired, Renewed, Refused, FailedAttempt,
       GiveUp, Crash, Shutdown, Exit, ReleaseRead, Tick, lease, vars
  <2> QED
    BY <2>2, <2>3, <2>4
<1> QED
  BY <1>1, ElectionInv, PTL DEF Spec, LiveLeaseNotStolen
=============================================================================
