--------------------------- MODULE WorkerPartsProofs --------------------------
(***************************************************************************)
(* Proofs about the components of the worker, for all values of the        *)
(* constants of MCWorkerParts: a run of Helm ends clean (HelmProcess), the *)
(* stored Pods are those of the cluster while the watch vouches for them   *)
(* (PodWatch), a lock has one owner (WorkerLocks), and what HaScalingProofs *)
(* shows of HaScaling; and the types of all their variables.  A step is    *)
(* one of the component that was chosen.                                   *)
(***************************************************************************)
EXTENDS MCWorkerParts, FiniteSetTheorems, SequenceTheorems, WellFoundedInduction,
  TLAPS

\* No step changes which component the behaviour is of.
LEMMA PartIsKept == [Next]_vars => part' = part
  BY DEF Next, vars

-----------------------------------------------------------------------------
(* HaScaling.                                                              *)

LEMMA ScalingStarts == part = "scaling" /\ Init => Ha!Init
<1>1. "scaling" # "pod" /\ "scaling" # "helm" /\ "scaling" \notin Tasks
  BY LockTasksAssumption DEF Lock!TasksAssumption, Lock!AllTasks
<1> QED
  BY <1>1 DEF Init

LEMMA ScalingSteps == part = "scaling" /\ [Next]_vars => [Ha!Next]_(Ha!vars)
<1>1. "scaling" # "pod" /\ "scaling" # "helm" /\ "scaling" \notin Tasks
  BY LockTasksAssumption DEF Lock!TasksAssumption, Lock!AllTasks
<1> QED
  BY <1>1 DEF Next, vars, Ha!vars, Ha!outside, Ha!worker, Ha!history

\* Spec: of the instances of the database one always keeps its claim.
THEOREM InstanceAlwaysKept == Spec => []InstanceKept
<1> DEFINE Inv == part = "scaling" => Ha!SurvivorInv
<1>1. Init => Inv
  <2>1. part = "scaling" /\ Init => Ha!Init
    BY ScalingStarts
  <2> QED
    BY <2>1, Ha!SurvivorInitially, HaNoNodeAssumption, HaInstancesAssumption
<1>2. Inv /\ [Next]_vars => Inv'
  BY ScalingSteps, PartIsKept, Ha!SurvivorKept, HaNoNodeAssumption
<1>3. Inv => InstanceKept
  BY DEF InstanceKept, Ha!SurvivorInv, Ha!InstanceKept
<1> QED
  BY <1>1, <1>2, <1>3, PTL DEF Spec

\* Spec: the remembered size shrinks only if a node was lost since it was agreed with.
THEOREM SizesShrinkOnlyForLoss == Spec => SizeShrinksForLoss
<1> DEFINE Inv == part = "scaling" => Ha!SizeInv
<1>1. Init => Inv
  <2>1. part = "scaling" /\ Init => Ha!Init
    BY ScalingStarts
  <2> QED
    BY <2>1, Ha!SizeInitially, HaNodesAssumption
<1>2. Inv /\ [Next]_vars => Inv'
  BY ScalingSteps, PartIsKept, Ha!SizeKept, HaNodesAssumption
<1>3. Inv /\ [Next]_vars => [part = "scaling" => Ha!SizeShrinksOnlyForLoss]_vars
  BY ScalingSteps, Ha!SizeShrinksOnly
<1> QED
  BY <1>1, <1>2, <1>3, PTL DEF Spec, SizeShrinksForLoss

-----------------------------------------------------------------------------
(* HelmProcess.                                                            *)

step == v1
status == v2
verdict == v3
alive == v4
killed == v5
exit == v7
release == v8
pipe == v10
output == v11
wrote == v12
stop == v13
late == v14

\* What the invariant says of an answer.
LEMMA HelmInvSays == Helm!HelmInv => Helm!HelmEndsClean
<1> SUFFICES ASSUME Helm!HelmInv PROVE Helm!HelmEndsClean
  OBVIOUS
<1> USE DEF step, status, verdict, alive, killed, exit, release, pipe, output, wrote, stop, late
<1>1. ASSUME NEW c \in Helm!Pipes, pipe[c] = 0
      PROVE  output[c] = IF wrote[c] < OutputLimit THEN wrote[c] ELSE OutputLimit
  BY <1>1 DEF Helm!HelmInv, Helm!PipesInv
<1>2. Helm!GroupInv
  BY DEF Helm!HelmInv
<1> QED
  BY <1>1, <1>2 DEF Helm!GroupInv, Helm!HelmEndsClean

\* Nothing runs, and the pipes are empty.
LEMMA HelmInitially == Helm!Init => Helm!HelmInv
<1> SUFFICES ASSUME Helm!Init PROVE Helm!HelmInv
  OBVIOUS
<1> USE DEF step, status, verdict, alive, killed, exit, release, pipe, output, wrote, stop, late
<1>1. Helm!PipesInv
  BY HelmHelmBoundsAssumption DEF Helm!Init, Helm!PipesInv, Helm!HelmBoundsAssumption
<1>2. Helm!GroupInv
  BY DEF Helm!Init, Helm!GroupInv
<1> QED
  BY <1>1, <1>2 DEF Helm!HelmInv

\* A step keeps what is in the pipes and in the output together what was written.
LEMMA PipesKept == ASSUME Helm!PipesInv, [Helm!Next]_(Helm!helmVars) PROVE Helm!PipesInv'
<1> USE DEF step, status, verdict, alive, killed, exit, release, pipe, output, wrote, stop, late
<1>1. /\ DOMAIN pipe = Helm!Pipes /\ DOMAIN output = Helm!Pipes /\ DOMAIN wrote = Helm!Pipes
      /\ \A c \in Helm!Pipes :
           /\ pipe[c] \in Nat /\ output[c] \in Nat /\ wrote[c] \in Nat /\ pipe[c] <= wrote[c]
           /\ output[c] = IF wrote[c] - pipe[c] < OutputLimit THEN wrote[c] - pipe[c]
                          ELSE OutputLimit
      /\ OutputLimit \in Nat
  BY HelmHelmBoundsAssumption DEF Helm!PipesInv, Helm!HelmBoundsAssumption
<1>2. CASE UNCHANGED Helm!pipes
  BY <1>1, <1>2 DEF Helm!pipes, Helm!PipesInv
<1>3. ASSUME NEW p \in Helm!Processes, NEW c \in Helm!Pipes, Helm!Write(p, c)
      PROVE  Helm!PipesInv'
  <2>1. /\ pipe' = [pipe EXCEPT ![c] = @ + 1] /\ wrote' = [wrote EXCEPT ![c] = @ + 1]
        /\ output' = output
    BY <1>3 DEF Helm!Write
  <2> QED
    BY <1>1, <2>1 DEF Helm!PipesInv
<1>4. ASSUME NEW c \in Helm!Pipes, Helm!Drain(c) PROVE Helm!PipesInv'
  <2>1. /\ pipe[c] > 0 /\ pipe' = [pipe EXCEPT ![c] = @ - 1] /\ wrote' = wrote
        /\ output' = [output EXCEPT ![c] = IF @ < OutputLimit THEN @ + 1 ELSE @]
    BY <1>4 DEF Helm!Drain
  <2> QED
    BY <1>1, <2>1 DEF Helm!PipesInv
<1>5. CASE UNCHANGED Helm!helmVars
  BY <1>2, <1>5 DEF Helm!helmVars
<1>6. CASE \/ \E p \in Helm!Processes : Helm!Exit(p) \/ Helm!Die(p)
           \/ \E h \in Helpers : Helm!Fork(h)
           \/ Helm!Work \/ Helm!Stop \/ Helm!Deadline
  BY <1>2, <1>6 DEF Helm!Exit, Helm!Die, Helm!Fork, Helm!Work, Helm!Stop, Helm!Deadline
<1>7. CASE Helm!Caller
  BY <1>2, <1>7 DEF Helm!Caller, Helm!Spawn, Helm!TryWait, Helm!Decide, Helm!Kill, Helm!Reap,
    Helm!Join
<1> QED
  BY <1>3, <1>4, <1>5, <1>6, <1>7 DEF Helm!Next

\* A step keeps the order of exits, kills and answers.
LEMMA GroupKept == ASSUME Helm!GroupInv, [Helm!Next]_(Helm!helmVars) PROVE Helm!GroupInv'
<1> USE DEF step, status, verdict, alive, killed, exit, release, pipe, output, wrote, stop, late
<1>1. CASE UNCHANGED Helm!helmVars
  BY <1>1 DEF Helm!helmVars, Helm!group, Helm!pipes, Helm!GroupInv
<1>2. ASSUME NEW p \in Helm!Processes, NEW c \in Helm!Pipes, Helm!Write(p, c)
      PROVE  Helm!GroupInv'
  BY <1>2 DEF Helm!GroupInv, Helm!Write, Helm!Runs
<1>3. CASE Helm!Work
  BY <1>3 DEF Helm!GroupInv, Helm!Work, Helm!Runs, Helm!pipes
<1>4. ASSUME NEW h \in Helpers, Helm!Fork(h) PROVE Helm!GroupInv'
  BY <1>4 DEF Helm!GroupInv, Helm!Fork, Helm!Runs, Helm!pipes
<1>5. ASSUME NEW p \in Helm!Processes, Helm!Exit(p) PROVE Helm!GroupInv'
  BY <1>5 DEF Helm!GroupInv, Helm!Exit, Helm!Runs, Helm!pipes
<1>6. ASSUME NEW p \in Helm!Processes, Helm!Die(p) PROVE Helm!GroupInv'
  BY <1>6 DEF Helm!GroupInv, Helm!Die, Helm!pipes
<1>7. ASSUME NEW c \in Helm!Pipes, Helm!Drain(c) PROVE Helm!GroupInv'
  BY <1>7 DEF Helm!GroupInv, Helm!Drain, Helm!group
<1>8. CASE Helm!Spawn
  BY <1>8 DEF Helm!GroupInv, Helm!Spawn, Helm!pipes
<1>9. CASE Helm!TryWait
  BY <1>9 DEF Helm!GroupInv, Helm!TryWait, Helm!group, Helm!pipes
<1>10. CASE Helm!Decide
  BY <1>10 DEF Helm!GroupInv, Helm!Decide, Helm!group, Helm!pipes
<1>11. CASE Helm!Kill
  BY <1>11 DEF Helm!GroupInv, Helm!Kill, Helm!pipes
<1>12. CASE Helm!Reap
  BY <1>12 DEF Helm!GroupInv, Helm!Reap, Helm!Goes, Helm!group, Helm!pipes
<1>13. CASE Helm!Join
  BY <1>13 DEF Helm!GroupInv, Helm!Join, Helm!Goes, Helm!group, Helm!pipes
<1>14. CASE Helm!Stop
  BY <1>14 DEF Helm!GroupInv, Helm!Stop, Helm!group, Helm!pipes
<1>15. CASE Helm!Deadline
  BY <1>15 DEF Helm!GroupInv, Helm!Deadline, Helm!group, Helm!pipes
<1> QED
  BY <1>1, <1>2, <1>3, <1>4, <1>5, <1>6, <1>7, <1>8, <1>9, <1>10, <1>11, <1>12, <1>13, <1>14,
    <1>15 DEF Helm!Next, Helm!Caller

\* Spec: a run of Helm leaves no process behind, and its answer is what Helm did.
THEOREM HelmAlwaysEndsClean == Spec => []HelmEndsClean
<1> DEFINE Inv == part = "helm" => Helm!HelmInv
<1>0. "helm" # "pod" /\ "helm" # "scaling" /\ "helm" \notin Tasks
  BY LockTasksAssumption DEF Lock!TasksAssumption, Lock!AllTasks
<1>1. Init => Inv
  BY <1>0, HelmInitially DEF Init
<1>2. Inv /\ [Next]_vars => Inv'
  <2>1. part = "helm" /\ [Next]_vars => [Helm!Next]_(Helm!helmVars)
    BY <1>0 DEF Next, vars, Helm!helmVars, Helm!group, Helm!pipes
  <2> QED
    BY <2>1, PartIsKept, PipesKept, GroupKept DEF Helm!HelmInv
<1>3. Inv => HelmEndsClean
  BY HelmInvSays DEF HelmEndsClean
<1> QED
  BY <1>1, <1>2, <1>3, PTL DEF Spec

-----------------------------------------------------------------------------
(* PodWatch.                                                               *)

cluster == v1
connected == v2
stream == v3
observed == v4
relisting == v5
at == v6
dirty == v7
synced == v8
healthy == v9
row == v10
beat == v11
used == v12
missed == v13

\* A set with zero and every successor has all natural numbers.
LEMMA AllNumbers ==
  ASSUME NEW S, 0 \in S, \A n \in Nat : n \in S => n + 1 \in S
  PROVE  Nat \subseteq S
<1> SUFFICES ASSUME Nat \ S # {} PROVE FALSE
  OBVIOUS
<1>1. PICK n \in Nat \ S : \A m \in Nat \ S : ~(<<m, n>> \in OpToRel(<, Nat))
  BY NatLessThanWellFounded, WFMin
<1>2. n # 0 /\ n - 1 \in Nat /\ n - 1 < n
  OBVIOUS
<1>3. <<n - 1, n>> \in OpToRel(<, Nat)
  BY <1>2 DEF OpToRel
<1>4. n - 1 \in S
  BY <1>1, <1>2, <1>3
<1>5. (n - 1) + 1 \in S /\ (n - 1) + 1 = n
  BY <1>2, <1>4
<1> QED
  BY <1>5

\* What states events lead to is defined, and in one way.
LEMMA AfterIs ==
  ASSUME NEW events, Len(events) \in Nat, NEW state
  PROVE  /\ DOMAIN Pod!After(events, state) = 0..Len(events)
         /\ Pod!After(events, state)[0] = state
         /\ \A i \in 1..Len(events) : Pod!After(events, state)[i] =
              Pod!Apply(events[i], Pod!After(events, state)[i-1].pods, Pod!After(events, state)[i-1].buffer)
<1> DEFINE Next1(i, s) == Pod!Apply(events[i], s.pods, s.buffer)
           Is(f, n) == f = [i \in 0..n |-> IF i = 0 THEN state ELSE Next1(i, f[i-1])]
           S == {n \in Nat : \E f : Is(f, n)}
<1> HIDE DEF Next1
<1>1. 0 \in S
  <2>1. Is([i \in 0..0 |-> state], 0)
    OBVIOUS
  <2> QED
    BY <2>1
<1>2. ASSUME NEW n \in Nat, n \in S PROVE n + 1 \in S
  <2>1. PICK f : Is(f, n)
    BY <1>2
  <2> DEFINE g == [i \in 0..(n+1) |-> IF i = n + 1 THEN Next1(n + 1, f[n]) ELSE f[i]]
  <2>2. ASSUME NEW i \in 0..(n+1) PROVE g[i] = IF i = 0 THEN state ELSE Next1(i, g[i-1])
    <3>1. CASE i = n + 1
      BY <3>1
    <3>2. CASE i # n + 1
      <4>1. i \in 0..n /\ (i # 0 => i - 1 \in 0..n /\ i - 1 # n + 1 /\ i - 1 \in 0..(n+1))
        BY <3>2
      <4>2. f[i] = IF i = 0 THEN state ELSE Next1(i, f[i-1])
        BY <2>1, <4>1
      <4> QED
        BY <3>2, <4>1, <4>2
    <3> QED
      BY <3>1, <3>2
  <2>3. Is(g, n + 1)
    BY <2>2
  <2>4. \E h : h = g
    OBVIOUS
  <2> HIDE DEF g
  <2> QED
    BY <2>3, <2>4
<1>3. \E f : Is(f, Len(events))
  BY <1>1, <1>2, AllNumbers
<1> DEFINE a == CHOOSE f : Is(f, Len(events))
<1>4. Is(a, Len(events))
  <2> HIDE DEF Is
  <2> QED
    BY <1>3
<1>5. Pod!After(events, state) = a
  BY DEF Pod!After, Next1
<1> HIDE DEF a
<1>6. /\ DOMAIN a = 0..Len(events) /\ a[0] = state
      /\ \A i \in 1..Len(events) : a[i] = Next1(i, a[i-1])
  BY <1>4
<1> QED
  BY <1>5, <1>6 DEF Next1

\* The k events of s from d on are the first of t; they lead to the same states.
Same(s, t, d, k) == /\ Len(s) \in Nat /\ Len(t) \in Nat /\ d \in Nat /\ k \in Nat
                    /\ d + k <= Len(s) /\ k <= Len(t) /\ \A i \in 1..k : s[d + i] = t[i]
Leads(s, t, x, d, k) ==
  \A i \in 0..k : Pod!After(s, x)[d + i] = Pod!After(t, Pod!After(s, x)[d])[i]

\* The same events from the same state lead to the same states, wherever they are in a stream.
LEMMA AfterAgrees ==
  ASSUME NEW s, NEW t, NEW x, NEW d, NEW k, Same(s, t, d, k)
  PROVE  Leads(s, t, x, d, k)
<1>0. /\ Len(s) \in Nat /\ Len(t) \in Nat /\ d \in Nat /\ k \in Nat
      /\ d + k <= Len(s) /\ k <= Len(t) /\ \A i \in 1..k : s[d + i] = t[i]
  BY DEF Same
<1> DEFINE a == Pod!After(s, x)
           b == Pod!After(t, a[d])
           S == {i \in Nat : i <= k => a[d + i] = b[i]}
<1>1. /\ \A i \in 1..Len(s) : a[i] = Pod!Apply(s[i], a[i-1].pods, a[i-1].buffer)
      /\ b[0] = a[d]
      /\ \A i \in 1..Len(t) : b[i] = Pod!Apply(t[i], b[i-1].pods, b[i-1].buffer)
  BY <1>0, AfterIs
<1> HIDE DEF a, b
<1>2. 0 \in S
  BY <1>0, <1>1
<1>3. ASSUME NEW i \in Nat, i \in S PROVE i + 1 \in S
  <2> SUFFICES ASSUME i + 1 <= k PROVE a[d + (i + 1)] = b[i + 1]
    OBVIOUS
  <2>1. /\ i + 1 \in 1..k /\ d + (i + 1) \in 1..Len(s) /\ i + 1 \in 1..Len(t)
        /\ (d + (i + 1)) - 1 = d + i /\ (i + 1) - 1 = i /\ i <= k
    BY <1>0
  <2>2. s[d + (i + 1)] = t[i + 1] /\ a[d + i] = b[i]
    BY <1>0, <1>3, <2>1
  <2>3. a[d + (i + 1)] = Pod!Apply(s[d + (i + 1)], a[(d + (i + 1)) - 1].pods, a[(d + (i + 1)) - 1].buffer)
    BY <1>1, <2>1
  <2>4. b[i + 1] = Pod!Apply(t[i + 1], b[(i + 1) - 1].pods, b[(i + 1) - 1].buffer)
    BY <1>1, <2>1
  <2> QED
    BY <2>1, <2>2, <2>3, <2>4
<1>4. Nat \subseteq S
  BY <1>2, <1>3, AllNumbers
<1> QED
  BY <1>4, <1>0 DEF a, b, Leads

Sets == [Namespaces -> Pod!Contents]

\* No set of Pods, and no map of them, is taken for nothing.
LEMMA NothingIsUnknown ==
  /\ \A pods \in SUBSET Pods : pods # Unknown
  /\ Unknown \notin Sets
  BY PodUnknownAssumption DEF Pod!UnknownAssumption, Sets, Pod!Contents

LEMMA InsertTyped ==
  ASSUME NEW e, e.namespace \in Namespaces, e.pod \in Pods, NEW pods \in Sets
  PROVE  /\ Pod!InsertPod(pods, e) \in Sets /\ Pod!RemovePod(pods, e) \in Sets
         /\ \A n \in Namespaces :
              /\ Pod!Entry(Pod!InsertPod(pods, e), n)
                   = IF n = e.namespace THEN Pod!Entry(pods, n) \cup {e.pod} ELSE Pod!Entry(pods, n)
              /\ Pod!Entry(Pod!RemovePod(pods, e), n)
                   = IF n = e.namespace THEN Pod!Entry(pods, n) \ {e.pod} ELSE Pod!Entry(pods, n)
<1>1. Pod!Entry(pods, e.namespace) \in SUBSET Pods
  BY DEF Pod!Entry, Sets, Pod!Contents
<1>2. /\ Pod!Entry(pods, e.namespace) \cup {e.pod} \in SUBSET Pods
      /\ Pod!Entry(pods, e.namespace) \ {e.pod} \in SUBSET Pods
  BY <1>1
<1>3. Pod!InsertPod(pods, e) \in Sets /\ Pod!RemovePod(pods, e) \in Sets
  BY <1>2 DEF Pod!InsertPod, Pod!RemovePod, Sets, Pod!Contents
<1> QED
  BY <1>2, <1>3, NothingIsUnknown DEF Pod!InsertPod, Pod!RemovePod, Pod!Entry, Sets

\* An event at a time.
LEMMA ApplyIs ==
  ASSUME NEW e, NEW pods, NEW buffer
  PROVE  /\ e.type = "Init" => Pod!Apply(e, pods, buffer) = [pods |-> pods, buffer |-> Pod!Nothing]
         /\ e.type = "InitApply" /\ buffer # Unknown =>
              Pod!Apply(e, pods, buffer) = [pods |-> pods, buffer |-> Pod!InsertPod(buffer, e)]
         /\ e.type = "InitDone" /\ buffer # Unknown =>
              Pod!Apply(e, pods, buffer) = [pods |-> Pod!Relisted(pods, buffer), buffer |-> Unknown]
         /\ e.type = "Apply" =>
              Pod!Apply(e, pods, buffer) = [pods |-> Pod!InsertPod(pods, e), buffer |-> buffer]
         /\ e.type = "Delete" =>
              Pod!Apply(e, pods, buffer) = [pods |-> Pod!RemovePod(pods, e), buffer |-> buffer]
         /\ e.type = "Error" => Pod!Apply(e, pods, buffer) = [pods |-> pods, buffer |-> buffer]
  BY DEF Pod!Apply

LEMMA AppliedTyped ==
  ASSUME NEW e \in Pod!Events, NEW pods \in Sets, NEW buffer \in {Unknown} \cup Sets
  PROVE  /\ Pod!Apply(e, pods, buffer).pods \in Sets
         /\ Pod!Apply(e, pods, buffer).buffer \in {Unknown} \cup Sets
<1>1. Pod!Nothing \in Sets
  BY DEF Pod!Nothing, Sets, Pod!Contents
<1>2. ASSUME buffer # Unknown PROVE Pod!Relisted(pods, buffer) \in Sets
  <2>1. buffer \in Sets
    BY <1>2
  <2>2. \A n \in Namespaces : Pod!Entry(buffer, n) \in Pod!Contents /\ buffer[n] \in Pod!Contents
    BY <2>1 DEF Pod!Entry, Sets, Pod!Contents
  <2> QED
    BY <2>2 DEF Pod!Relisted, Sets
<1>3. ASSUME e.type \in Pod!Entries
      PROVE  /\ Pod!InsertPod(pods, e) \in Sets /\ Pod!RemovePod(pods, e) \in Sets
             /\ buffer # Unknown => Pod!InsertPod(buffer, e) \in Sets
  <2>1. e.namespace \in Namespaces /\ e.pod \in Pods
    BY <1>3 DEF Pod!Events, Pod!Entries
  <2> QED
    BY <2>1, InsertTyped
<1> QED
  BY <1>1, <1>2, <1>3 DEF Pod!Apply, Pod!Entries, Pod!Events

\* The states events lead to are maps of Pods.
LEMMA AfterTyped ==
  ASSUME NEW s, Len(s) \in Nat, \A i \in 1..Len(s) : s[i] \in Pod!Events,
         NEW x, x.pods \in Sets, x.buffer \in {Unknown} \cup Sets
  PROVE  \A i \in 0..Len(s) : /\ Pod!After(s, x)[i].pods \in Sets
                              /\ Pod!After(s, x)[i].buffer \in {Unknown} \cup Sets
<1> DEFINE a == Pod!After(s, x)
           S == {i \in Nat : i <= Len(s) => /\ a[i].pods \in Sets
                                            /\ a[i].buffer \in {Unknown} \cup Sets}
<1>1. a[0] = x /\ \A i \in 1..Len(s) : a[i] = Pod!Apply(s[i], a[i-1].pods, a[i-1].buffer)
  BY AfterIs
<1> HIDE DEF a
<1>2. 0 \in S
  BY <1>1
<1>3. ASSUME NEW i \in Nat, i \in S PROVE i + 1 \in S
  <2> SUFFICES ASSUME i + 1 <= Len(s)
               PROVE  a[i + 1].pods \in Sets /\ a[i + 1].buffer \in {Unknown} \cup Sets
    OBVIOUS
  <2>1. i + 1 \in 1..Len(s) /\ (i + 1) - 1 = i /\ i <= Len(s)
    OBVIOUS
  <2>2. a[i + 1] = Pod!Apply(s[i + 1], a[i].pods, a[i].buffer)
    BY <1>1, <2>1
  <2>3. a[i].pods \in Sets /\ a[i].buffer \in {Unknown} \cup Sets /\ s[i + 1] \in Pod!Events
    BY <1>3, <2>1
  <2> QED
    BY <2>2, <2>3, AppliedTyped
<1>4. Nat \subseteq S
  BY <1>2, <1>3, AllNumbers
<1> QED
  BY <1>4 DEF a

\* A list has an entry for every Pod, and no other.
LEMMA ListedIs ==
  ASSUME NEW pods \in [Namespaces -> SUBSET Pods]
  PROVE  \E k \in Nat : \E found :
           /\ Pod!Listed(pods) = [i \in 1..k |-> Pod!About("InitApply", found[i][1], found[i][2])]
           /\ \A i \in 1..k : /\ found[i][1] \in Namespaces /\ found[i][2] \in Pods
                              /\ found[i][2] \in pods[found[i][1]]
           /\ \A n \in Namespaces : \A p \in pods[n] : \E i \in 1..k : found[i] = <<n, p>>
<1> DEFINE E == {e \in Namespaces \X Pods : e[2] \in pods[e[1]]}
           k == Cardinality(E)
           found == Pod!SetToSeq(E)
<1>1. IsFiniteSet(E)
  <2>1. IsFiniteSet(Namespaces) /\ IsFiniteSet(Pods)
    BY PodSizesAssumption DEF Pod!SizesAssumption, Pod!IsFiniteSet, IsFiniteSet
  <2>2. IsFiniteSet(Namespaces \X Pods)
    BY <2>1, FS_Product
  <2>3. E \subseteq Namespaces \X Pods
    OBVIOUS
  <2> HIDE DEF E
  <2> QED
    BY <2>2, <2>3, FS_Subset
<1>2. k \in Nat /\ ExistsBijection(1..k, E)
  BY <1>1, FS_CardinalityType
<1>3. \E f \in [1..k -> E] : Pod!IsInjective(f)
  BY <1>2 DEF ExistsBijection, Bijection, Injection, IsInjective, Pod!IsInjective
<1>4. found \in [1..k -> E] /\ Pod!IsInjective(found)
  <2>1. Pod!Cardinality(E) = Cardinality(E)
    BY DEF Pod!Cardinality, Cardinality
  <2> HIDE DEF E
  <2> QED
    BY <1>3, <2>1 DEF Pod!SetToSeq
<1>5. found \in Surjection(1..k, E)
  <2>1. IsFiniteSet(1..k) /\ Cardinality(1..k) = k
    BY <1>2, FS_Interval
  <2>2. found \in Injection(1..k, E)
    BY <1>4 DEF Injection, IsInjective, Pod!IsInjective
  <2> QED
    BY <1>1, <2>1, <2>2, FS_Injection
<1> HIDE DEF found, k
<1>6. Len(found) = k
  BY <1>2, <1>4
<1>7. Pod!Listed(pods) = [i \in 1..k |-> Pod!About("InitApply", found[i][1], found[i][2])]
  BY <1>6 DEF Pod!Listed, found
<1>8. \A i \in 1..k : /\ found[i][1] \in Namespaces /\ found[i][2] \in Pods
                      /\ found[i][2] \in pods[found[i][1]]
  BY <1>4
<1>9. \A n \in Namespaces : \A p \in pods[n] : \E i \in 1..k : found[i] = <<n, p>>
  BY <1>5 DEF Surjection
<1>10. k \in Nat
  BY <1>2
<1> WITNESS k \in Nat
<1> WITNESS found
<1> QED
  BY <1>7, <1>8, <1>9

\* What is relisted when a list is read is what was listed.
LEMMA ListReads ==
  ASSUME NEW pods \in [Namespaces -> SUBSET Pods], NEW o, NEW f,
         f[0] = [pods |-> o, buffer |-> Pod!Nothing],
         \A i \in 1..Len(Pod!Listed(pods)) :
           f[i] = Pod!Apply(Pod!Listed(pods)[i], f[i-1].pods, f[i-1].buffer)
  PROVE  /\ Pod!Listed(pods) \in Seq(Pod!Events)
         /\ \A i \in 0..Len(Pod!Listed(pods)) : f[i].pods = o /\ f[i].buffer \in Sets
         /\ \A n \in Namespaces : Pod!Entry(f[Len(Pod!Listed(pods))].buffer, n) = pods[n]
<1>0. PICK k \in Nat : \E found :
        /\ Pod!Listed(pods) = [i \in 1..k |-> Pod!About("InitApply", found[i][1], found[i][2])]
        /\ \A i \in 1..k : /\ found[i][1] \in Namespaces /\ found[i][2] \in Pods
                           /\ found[i][2] \in pods[found[i][1]]
        /\ \A n \in Namespaces : \A p \in pods[n] : \E i \in 1..k : found[i] = <<n, p>>
  BY ListedIs
<1>1. PICK found :
        /\ Pod!Listed(pods) = [i \in 1..k |-> Pod!About("InitApply", found[i][1], found[i][2])]
        /\ \A i \in 1..k : /\ found[i][1] \in Namespaces /\ found[i][2] \in Pods
                           /\ found[i][2] \in pods[found[i][1]]
        /\ \A n \in Namespaces : \A p \in pods[n] : \E i \in 1..k : found[i] = <<n, p>>
  BY <1>0
<1> DEFINE list == Pod!Listed(pods)
           So(n, i) == {found[j][2] : j \in {m \in 1..i : found[m][1] = n}}
           S == {i \in Nat : i <= k => /\ f[i].pods = o /\ f[i].buffer \in Sets
                                       /\ \A n \in Namespaces : Pod!Entry(f[i].buffer, n) = So(n, i)}
<1>2. \A i \in 1..k : Pod!About("InitApply", found[i][1], found[i][2]) \in Pod!Events
  BY <1>1 DEF Pod!About, Pod!Events, Pod!Entries
<1>3. list \in Seq(Pod!Events) /\ Len(list) = k
  BY <1>1, <1>2
<1>4. \A i \in 1..k : /\ list[i].type = "InitApply" /\ list[i].namespace = found[i][1]
                      /\ list[i].pod = found[i][2]
  BY <1>1 DEF Pod!About
<1> HIDE DEF list
<1>5. \A i \in 1..k : f[i] = Pod!Apply(list[i], f[i-1].pods, f[i-1].buffer)
  BY <1>3 DEF list
<1>6. 0 \in S
  <2>1. \A n \in Namespaces : So(n, 0) = {} /\ Pod!Entry(Pod!Nothing, n) = {}
    BY DEF Pod!Nothing, Pod!Entry
  <2>2. Pod!Nothing \in Sets
    BY DEF Pod!Nothing, Sets, Pod!Contents
  <2> QED
    BY <2>1, <2>2
<1>7. ASSUME NEW i \in Nat, i \in S PROVE i + 1 \in S
  <2> SUFFICES ASSUME i + 1 <= k
               PROVE  /\ f[i+1].pods = o /\ f[i+1].buffer \in Sets
                      /\ \A n \in Namespaces : Pod!Entry(f[i+1].buffer, n) = So(n, i + 1)
    OBVIOUS
  <2>1. i + 1 \in 1..k /\ (i + 1) - 1 = i /\ i <= k
    OBVIOUS
  <2>2. /\ f[i].pods = o /\ f[i].buffer \in Sets
        /\ \A n \in Namespaces : Pod!Entry(f[i].buffer, n) = So(n, i)
    BY <1>7, <2>1
  <2>3. f[i+1] = Pod!Apply(list[i+1], o, f[i].buffer)
    BY <1>5, <2>1, <2>2
  <2>4. f[i].buffer # Unknown
    BY <2>2, NothingIsUnknown
  <2>5. f[i+1].pods = o /\ f[i+1].buffer = Pod!InsertPod(f[i].buffer, list[i+1])
    <3>1. list[i+1].type = "InitApply"
      BY <1>4, <2>1
    <3>2. f[i+1] = [pods |-> o, buffer |-> Pod!InsertPod(f[i].buffer, list[i+1])]
      BY <2>3, <2>4, <3>1, ApplyIs
    <3> QED
      BY <3>2
  <2>6. /\ f[i+1].buffer \in Sets
        /\ \A n \in Namespaces : Pod!Entry(f[i+1].buffer, n) =
             IF n = found[i+1][1] THEN So(n, i) \cup {found[i+1][2]} ELSE So(n, i)
    <3>1. /\ list[i+1].namespace = found[i+1][1] /\ list[i+1].pod = found[i+1][2]
          /\ found[i+1][1] \in Namespaces /\ found[i+1][2] \in Pods
      BY <1>1, <1>4, <2>1
    <3> HIDE DEF So
    <3> QED
      <4>1. PICK e : e = list[i+1]
        OBVIOUS
      <4>2. PICK b \in Sets : b = f[i].buffer
        BY <2>2
      <4>3. /\ Pod!InsertPod(b, e) \in Sets
            /\ \A n \in Namespaces : Pod!Entry(Pod!InsertPod(b, e), n) =
                 IF n = e.namespace THEN Pod!Entry(b, n) \cup {e.pod} ELSE Pod!Entry(b, n)
        BY <3>1, <4>1, InsertTyped
      <4>4. f[i+1].buffer = Pod!InsertPod(b, e)
        BY <2>5, <4>1, <4>2
      <4> QED
        BY <2>2, <3>1, <4>1, <4>2, <4>3, <4>4
  <2>7. \A n \in Namespaces : So(n, i + 1) =
             IF n = found[i+1][1] THEN So(n, i) \cup {found[i+1][2]} ELSE So(n, i)
    <3>1. \A m : m \in 1..(i+1) <=> m \in 1..i \/ m = i + 1
      OBVIOUS
    <3> QED
      BY <3>1
  <2> QED
    BY <2>5, <2>6, <2>7
<1>8. Nat \subseteq S
  BY <1>6, <1>7, AllNumbers
<1>9. \A n \in Namespaces : So(n, k) = pods[n]
  <2> SUFFICES ASSUME NEW n \in Namespaces PROVE So(n, k) = pods[n]
    OBVIOUS
  <2>1. ASSUME NEW p \in pods[n] PROVE p \in So(n, k)
    <3>1. PICK i \in 1..k : found[i] = <<n, p>>
      BY <1>1
    <3>2. found[i][1] = n /\ found[i][2] = p
      BY <3>1
    <3> QED
      BY <3>2
  <2>2. \A p \in So(n, k) : p \in pods[n]
    BY <1>1
  <2> QED
    BY <2>1, <2>2
<1>10. \A i \in 0..k : f[i].pods = o /\ f[i].buffer \in Sets
  BY <1>8
<1>11. \A n \in Namespaces : Pod!Entry(f[k].buffer, n) = pods[n]
  <2>1. \A n \in Namespaces : Pod!Entry(f[k].buffer, n) = So(n, k)
    <3> HIDE DEF So
    <3>1. k \in S
      BY <1>8
    <3> QED
      BY <3>1
  <2> QED
    BY <1>9, <2>1
<1> QED
  BY <1>3, <1>10, <1>11 DEF list

\* Where events lead to, and whether a list's entries and its end come after its start.
Ends(s, x) == Pod!After(s, x)[Len(s)]
Opened(s, x) == \A i \in 1..Len(s) : s[i].type \in {"InitApply", "InitDone"}
                                      => Pod!After(s, x)[i-1].buffer # Unknown

LEMMA Grows ==
  ASSUME NEW s \in Seq(Pod!Events), NEW t \in Seq(Pod!Events), NEW x
  PROVE  /\ s \o t \in Seq(Pod!Events)
         /\ Ends(s \o t, x) = Ends(t, Ends(s, x))
         /\ Opened(s, x) /\ Opened(t, Ends(s, x)) => Opened(s \o t, x)
<1> DEFINE u == s \o t
           m == Len(s)
           n == Len(t)
           y == Ends(s, x)
<1>1. u \in Seq(Pod!Events) /\ Len(u) = m + n /\ m \in Nat /\ n \in Nat
  BY ConcatProperties, LenProperties
<1>2. /\ \A i \in 1..m : u[i] = s[i] /\ 0 + i = i
      /\ \A i \in 1..n : u[m + i] = t[i]
  <2>1. \A i \in 1..(m + n) : u[i] = IF i <= m THEN s[i] ELSE t[i - m]
    BY ConcatProperties
  <2>2. \A i \in 1..n : m + i \in 1..(m + n) /\ ~(m + i <= m) /\ (m + i) - m = i
    BY <1>1
  <2>3. \A i \in 1..m : i \in 1..(m + n) /\ i <= m /\ 0 + i = i
    BY <1>1
  <2> HIDE DEF u, m, n
  <2> QED
    BY <2>1, <2>2, <2>3
<1> HIDE DEF u, m, n
<1>3. Pod!After(u, x)[0] = x
  BY <1>1, AfterIs
<1>4. \A i \in 0..m : Pod!After(u, x)[i] = Pod!After(s, x)[i]
  <2>1. Same(u, s, 0, m)
    BY <1>1, <1>2 DEF m, Same
  <2>3. \A i \in 0..m : Pod!After(u, x)[0 + i] = Pod!After(s, Pod!After(u, x)[0])[i]
    <3>1. Leads(u, s, x, 0, m)
      BY <2>1, AfterAgrees
    <3> QED
      BY <3>1, Zenon DEF Leads
  <2>2. \A i \in 0..m : 0 + i = i
    BY <1>1
  <2> QED
    BY <1>3, <2>2, <2>3
<1>5. Pod!After(u, x)[m] = y
  BY <1>1, <1>4 DEF Ends, m
<1>6. \A i \in 0..n : Pod!After(u, x)[m + i] = Pod!After(t, y)[i]
  <2>1. Same(u, t, m, n)
    BY <1>1, <1>2 DEF n, Same
  <2>2. \A i \in 0..n : Pod!After(u, x)[m + i] = Pod!After(t, Pod!After(u, x)[m])[i]
    BY <2>1, AfterAgrees DEF Leads
  <2> QED
    BY <1>5, <2>2
<1>7. Ends(u, x) = Ends(t, y)
  BY <1>1, <1>6 DEF Ends, n
<1>8. ASSUME Opened(s, x), Opened(t, y) PROVE Opened(u, x)
  <2> SUFFICES ASSUME NEW i \in 1..Len(u), u[i].type \in {"InitApply", "InitDone"}
               PROVE  Pod!After(u, x)[i-1].buffer # Unknown
    BY DEF Opened
  <2>1. CASE i <= m
    <3>1. i \in 1..m /\ i - 1 \in 0..m
      BY <1>1, <2>1
    <3> QED
      BY <1>2, <1>4, <1>8, <3>1 DEF Opened, m
  <2>2. CASE i > m
    <3>1. PICK j \in 1..n : i = m + j
      <4>1. i - m \in 1..n /\ m + (i - m) = i
        BY <1>1, <2>2
      <4> QED
        BY <4>1
    <3>2. j - 1 \in 0..n /\ i - 1 = m + (j - 1)
      BY <1>1, <3>1
    <3>3. t[j].type \in {"InitApply", "InitDone"}
      BY <1>2, <3>1
    <3>4. Pod!After(t, y)[j-1].buffer # Unknown
      BY <1>8, <3>3 DEF Opened, n
    <3> QED
      BY <1>6, <3>2, <3>4
  <2> QED
    BY <1>1, <2>1, <2>2
<1> QED
  BY <1>1, <1>7, <1>8 DEF u

LEMMA OneEvent ==
  ASSUME NEW e \in Pod!Events, NEW x
  PROVE  /\ <<e>> \in Seq(Pod!Events)
         /\ Ends(<<e>>, x) = Pod!Apply(e, x.pods, x.buffer)
         /\ (e.type \in {"InitApply", "InitDone"} => x.buffer # Unknown) => Opened(<<e>>, x)
<1>1. <<e>> \in Seq(Pod!Events) /\ Len(<<e>>) = 1 /\ <<e>>[1] = e
  OBVIOUS
<1>2. PICK s : s = <<e>>
  OBVIOUS
<1>3. /\ Pod!After(s, x)[0] = x
      /\ Pod!After(s, x)[1] = Pod!Apply(s[1], Pod!After(s, x)[1-1].pods, Pod!After(s, x)[1-1].buffer)
  BY <1>1, <1>2, AfterIs
<1>4. 1 - 1 = 0 /\ 1..1 = {1}
  OBVIOUS
<1>5. Ends(s, x) = Pod!Apply(e, x.pods, x.buffer)
  BY <1>1, <1>2, <1>3, <1>4 DEF Ends
<1>6. (e.type \in {"InitApply", "InitDone"} => x.buffer # Unknown) => Opened(s, x)
  BY <1>1, <1>2, <1>3, <1>4 DEF Opened
<1> QED
  BY <1>1, <1>2, <1>5, <1>6

LEMMA Shrinks ==
  ASSUME NEW s \in Seq(Pod!Events), s # << >>, NEW x
  PROVE  LET y == Pod!Apply(Head(s), x.pods, x.buffer) IN
         /\ Tail(s) \in Seq(Pod!Events) /\ Head(s) \in Pod!Events
         /\ Ends(Tail(s), y) = Ends(s, x)
         /\ Opened(s, x) => /\ Opened(Tail(s), y)
                            /\ Head(s).type \in {"InitApply", "InitDone"} => x.buffer # Unknown
<1> DEFINE t == Tail(s)
           n == Len(t)
           y == Pod!Apply(Head(s), x.pods, x.buffer)
<1>1. /\ t \in Seq(Pod!Events) /\ Head(s) \in Pod!Events /\ n = Len(s) - 1
      /\ \A i \in 1..n : t[i] = s[i + 1]
      /\ Len(s) \in Nat \ {0} /\ Head(s) = s[1]
  BY HeadTailProperties, LenProperties, EmptySeq
<1> HIDE DEF t, n, y
<1>2. n \in Nat /\ 1 + n = Len(s)
  BY <1>1
<1>3. Pod!After(s, x)[0] = x /\ Pod!After(s, x)[1] = y
  <2>1. 1 \in 1..Len(s) /\ 1 - 1 = 0
    BY <1>1
  <2> QED
    BY <1>1, <2>1, AfterIs DEF y
<1>4. \A i \in 0..n : Pod!After(s, x)[1 + i] = Pod!After(t, y)[i]
  <2>1. \A i \in 1..n : s[1 + i] = t[i]
    BY <1>1, <1>2
  <2> QED
    <3>1. Same(s, t, 1, n)
      BY <1>1, <1>2, <2>1 DEF n, Same
    <3>2. \A i \in 0..n : Pod!After(s, x)[1 + i] = Pod!After(t, Pod!After(s, x)[1])[i]
      <4>1. Leads(s, t, x, 1, n)
        BY <3>1, AfterAgrees
      <4> QED
        BY <4>1, Zenon DEF Leads
    <3> QED
      BY <1>3, <3>2
<1>5. Ends(t, y) = Ends(s, x)
  BY <1>2, <1>4 DEF Ends, n
<1>6. ASSUME Opened(s, x)
      PROVE  Opened(t, y) /\ (Head(s).type \in {"InitApply", "InitDone"} => x.buffer # Unknown)
  <2>1. ASSUME NEW i \in 1..n, t[i].type \in {"InitApply", "InitDone"}
        PROVE  Pod!After(t, y)[i-1].buffer # Unknown
    <3>1. /\ i + 1 \in 1..Len(s) /\ (i + 1) - 1 = 1 + (i - 1) /\ i - 1 \in 0..n
      BY <1>2
    <3>2. Pod!After(s, x)[(i + 1) - 1].buffer # Unknown
      BY <1>1, <1>6, <2>1, <3>1 DEF Opened
    <3> QED
      BY <1>4, <3>1, <3>2
  <2>2. 1 \in 1..Len(s) /\ 1 - 1 = 0
    BY <1>1
  <2>3. Head(s).type \in {"InitApply", "InitDone"} => x.buffer # Unknown
    BY <1>1, <1>3, <1>6, <2>2 DEF Opened
  <2> QED
    BY <2>1, <2>3 DEF Opened, n
<1> QED
  BY <1>1, <1>5, <1>6 DEF t, y

\* A list leaves what is observed, and relists what is listed.
LEMMA ListGrows ==
  ASSUME NEW s \in Seq(Pod!Events), NEW x, x.pods \in Sets, x.buffer \in {Unknown} \cup Sets,
         Opened(s, x), NEW pods \in [Namespaces -> SUBSET Pods]
  PROVE  LET u == s \o <<Pod!Signal("Init")>> \o Pod!Listed(pods) IN
         /\ u \in Seq(Pod!Events) /\ Opened(u, x)
         /\ Ends(u, x).pods = Ends(s, x).pods /\ Ends(u, x).buffer \in Sets
         /\ \A n \in Namespaces : Pod!Entry(Ends(u, x).buffer, n) = pods[n]
<1> DEFINE e == Pod!Signal("Init")
           list == Pod!Listed(pods)
           y0 == Ends(s, x)
           y1 == [pods |-> y0.pods, buffer |-> Pod!Nothing]
           f == Pod!After(list, y1)
<1>1. e \in Pod!Events /\ e.type = "Init"
  BY DEF Pod!Signal, Pod!Events
<1>2. \E k \in Nat : \E g : list = [i \in 1..k |-> g[i]]
  BY ListedIs
<1>3. Len(list) \in Nat
  BY <1>2
<1>4. f[0] = y1 /\ \A i \in 1..Len(list) : f[i] = Pod!Apply(list[i], f[i-1].pods, f[i-1].buffer)
  BY <1>3, AfterIs
<1>5. /\ list \in Seq(Pod!Events)
      /\ \A i \in 0..Len(list) : f[i].pods = y0.pods /\ f[i].buffer \in Sets
      /\ \A n \in Namespaces : Pod!Entry(f[Len(list)].buffer, n) = pods[n]
  <2> HIDE DEF f, y0
  <2> QED
    BY <1>4, ListReads
<1> HIDE DEF e, list, y0, f
<1>6. s \o <<e>> \in Seq(Pod!Events) /\ Opened(s \o <<e>>, x) /\ Ends(s \o <<e>>, x) = y1
  <2>1. /\ <<e>> \in Seq(Pod!Events)
        /\ Ends(<<e>>, y0) = Pod!Apply(e, y0.pods, y0.buffer)
        /\ Opened(<<e>>, y0)
    BY <1>1, OneEvent
  <2>2. Pod!Apply(e, y0.pods, y0.buffer) = y1
    BY <1>1, ApplyIs
  <2> QED
    BY <2>1, <2>2, Grows DEF y0
<1>7. Ends(list, y1) = f[Len(list)] /\ Opened(list, y1)
  <2>1. Ends(list, y1) = f[Len(list)]
    BY DEF Ends, f
  <2>2. \A i \in 1..Len(list) : f[i-1].buffer # Unknown
    <3>1. \A i \in 1..Len(list) : i - 1 \in 0..Len(list)
      BY <1>3
    <3> QED
      BY <1>5, <3>1, NothingIsUnknown
  <2> QED
    BY <2>1, <2>2 DEF Opened, f
<1>8. /\ (s \o <<e>>) \o list \in Seq(Pod!Events) /\ Opened((s \o <<e>>) \o list, x)
      /\ Ends((s \o <<e>>) \o list, x) = f[Len(list)]
  <2> HIDE DEF y1
  <2>1. PICK u \in Seq(Pod!Events) : u = s \o <<e>>
    BY <1>6
  <2>2. Opened(u, x) /\ Ends(u, x) = y1
    BY <1>6, <2>1
  <2>3. u \o list \in Seq(Pod!Events) /\ Opened(u \o list, x) /\ Ends(u \o list, x) = f[Len(list)]
    BY <1>5, <1>7, <2>2, Grows
  <2> QED
    BY <2>1, <2>3
<1>9. Len(list) \in 0..Len(list)
  BY <1>3
<1> QED
  BY <1>5, <1>8, <1>9 DEF e, list, y0

\* What is observed, being relisted and to come.
StreamInv ==
  /\ cluster \in [Namespaces -> SUBSET Pods] /\ connected \in BOOLEAN
  /\ stream \in Seq(Pod!Events) /\ observed \in Sets /\ relisting \in {Unknown} \cup Sets
  /\ Opened(stream, Pod!Now)
  /\ connected => \A n \in Namespaces : Pod!Entry(Ends(stream, Pod!Now).pods, n) = cluster[n]

\* What is written.
RowsInv ==
  /\ row \in [Namespaces -> Pod!Contents] /\ dirty \subseteq Namespaces /\ missed \subseteq Namespaces
  /\ at \in {"recv", "store"} /\ synced \in BOOLEAN /\ healthy \in BOOLEAN /\ beat \in BOOLEAN
  /\ at = "recv" => dirty = {}
  /\ Pod!Vouches => \A n \in Pod!KnownTo(observed) \ (dirty \cup missed) :
                      row[n] \in {Unknown, observed[n]}

UsedInv == used \in [DOMAIN Pod!Limit -> Nat]

LEMMA WatchInvIs == Pod!WatchInv <=> StreamInv /\ RowsInv /\ UsedInv
<1> USE DEF cluster, connected, stream, observed, relisting, at, dirty, synced, healthy, row, beat,
     used, missed
<1>1. Pod!WatchInv => StreamInv /\ RowsInv /\ UsedInv
  BY DEF Pod!WatchInv, Pod!TypeOK, Pod!NothingLost, StreamInv, RowsInv, UsedInv, Opened, Ends, Sets
<1>2. StreamInv => \A i \in 1..Len(stream) :
        stream[i].type \in {"Init", "InitApply", "InitDone", "Apply", "Delete", "Error"}
  <2> SUFFICES ASSUME StreamInv, NEW i \in 1..Len(stream)
               PROVE  stream[i].type \in {"Init", "InitApply", "InitDone", "Apply", "Delete", "Error"}
    OBVIOUS
  <2>1. stream[i] \in Pod!Events
    BY DEF StreamInv
  <2> QED
    BY <2>1 DEF Pod!Events, Pod!Entries
<1>3. StreamInv /\ RowsInv /\ UsedInv => Pod!WatchInv
  BY <1>2 DEF Pod!WatchInv, Pod!TypeOK, Pod!NothingLost, StreamInv, RowsInv, UsedInv, Opened, Ends, Sets
<1> QED
  BY <1>1, <1>3

LEMMA WatchInitially == Pod!Init => StreamInv /\ RowsInv /\ UsedInv
<1> USE DEF cluster, connected, stream, observed, relisting, at, dirty, synced, healthy, row, beat,
     used, missed
<1> SUFFICES ASSUME Pod!Init PROVE StreamInv /\ RowsInv /\ UsedInv
  OBVIOUS
<1>1. Pod!Nothing \in Sets
  BY DEF Pod!Nothing, Sets, Pod!Contents
<1>2. StreamInv
  <2>1. \A x : Opened(<< >>, x)
    <3>1. << >> \in Seq(Pod!Events) /\ 1..Len(<< >>) = {}
      OBVIOUS
    <3> QED
      BY <3>1 DEF Opened
  <2>2. << >> \in Seq(Pod!Events)
    OBVIOUS
  <2> QED
    BY <1>1, <2>1, <2>2 DEF Pod!Init, StreamInv
<1>3. RowsInv
  BY <1>1 DEF Pod!Init, RowsInv, Pod!Vouches, Sets
<1>4. UsedInv
  BY DEF Pod!Init, UsedInv
<1> QED
  BY <1>2, <1>3, <1>4

LEMMA AppliedIsRecord ==
  ASSUME NEW e \in Pod!Events, NEW pods, NEW buffer
  PROVE  Pod!Apply(e, pods, buffer) = [pods |-> Pod!Apply(e, pods, buffer).pods,
                                       buffer |-> Pod!Apply(e, pods, buffer).buffer]
  BY DEF Pod!Apply

LEMMA ErrorIsEvent ==
  /\ Pod!Signal("Error") \in Pod!Events /\ Pod!Signal("Error").type = "Error"
  /\ Pod!Signal("Error").type \notin {"InitApply", "InitDone"}
  BY DEF Pod!Signal, Pod!Events

\* Where the events to come lead to are maps of Pods.
LEMMA EndsTyped ==
  ASSUME NEW s \in Seq(Pod!Events), NEW x, x.pods \in Sets, x.buffer \in {Unknown} \cup Sets
  PROVE  Ends(s, x).pods \in Sets /\ Ends(s, x).buffer \in {Unknown} \cup Sets
<1>1. Len(s) \in Nat /\ Len(s) \in 0..Len(s) /\ \A i \in 1..Len(s) : s[i] \in Pod!Events
  OBVIOUS
<1> QED
  BY <1>1, AfterTyped DEF Ends

\* An event of the cluster is seen once it is received.
LEMMA EventGrows ==
  ASSUME NEW s \in Seq(Pod!Events), NEW x, Opened(s, x), NEW e \in Pod!Events,
         e.type \notin {"InitApply", "InitDone"}
  PROVE  /\ Append(s, e) \in Seq(Pod!Events) /\ Opened(Append(s, e), x)
         /\ Ends(Append(s, e), x) = Pod!Apply(e, Ends(s, x).pods, Ends(s, x).buffer)
<1>1. Append(s, e) = s \o <<e>>
  BY AppendIsConcat
<1>2. PICK y : y = Ends(s, x)
  OBVIOUS
<1>3. <<e>> \in Seq(Pod!Events) /\ Ends(<<e>>, y) = Pod!Apply(e, y.pods, y.buffer) /\ Opened(<<e>>, y)
  BY OneEvent
<1>4. PICK t \in Seq(Pod!Events) : t = <<e>>
  BY <1>3
<1>5. s \o t \in Seq(Pod!Events) /\ Opened(s \o t, x) /\ Ends(s \o t, x) = Ends(t, y)
  <2>1. Opened(t, Ends(s, x))
    BY <1>2, <1>3, <1>4
  <2> QED
    BY <1>2, <2>1, Grows
<1> QED
  BY <1>1, <1>2, <1>3, <1>4, <1>5

\* A list that ends leads to what is listed.
LEMMA RelistGrows ==
  ASSUME NEW s \in Seq(Pod!Events), NEW x, x.pods \in Sets, x.buffer \in {Unknown} \cup Sets,
         Opened(s, x), NEW pods \in [Namespaces -> SUBSET Pods]
  PROVE  LET u == s \o <<Pod!Signal("Init")>> \o Pod!Listed(pods) \o <<Pod!Signal("InitDone")>> IN
         /\ u \in Seq(Pod!Events) /\ Opened(u, x)
         /\ \A n \in Namespaces : Pod!Entry(Ends(u, x).pods, n) = pods[n]
<1> DEFINE u == s \o <<Pod!Signal("Init")>> \o Pod!Listed(pods)
           e == Pod!Signal("InitDone")
           y == Ends(u, x)
<1>1. /\ u \in Seq(Pod!Events) /\ Opened(u, x)
      /\ y.pods = Ends(s, x).pods /\ y.buffer \in Sets
      /\ \A n \in Namespaces : Pod!Entry(y.buffer, n) = pods[n]
  BY ListGrows
<1>2. e \in Pod!Events /\ e.type = "InitDone"
  BY DEF Pod!Signal, Pod!Events
<1>3. y.pods \in Sets
  BY <1>1, EndsTyped
<1> HIDE DEF u, e, y
<1>4. <<e>> \in Seq(Pod!Events) /\ Ends(<<e>>, y) = Pod!Apply(e, y.pods, y.buffer) /\ Opened(<<e>>, y)
  BY <1>1, <1>2, NothingIsUnknown, OneEvent
<1>5. PICK t \in Seq(Pod!Events) : t = <<e>>
  BY <1>4
<1>6. u \o t \in Seq(Pod!Events) /\ Opened(u \o t, x) /\ Ends(u \o t, x) = Ends(t, y)
  BY <1>1, <1>4, <1>5, Grows DEF y
<1>7. Ends(t, y) = [pods |-> Pod!Relisted(y.pods, y.buffer), buffer |-> Unknown]
  BY <1>1, <1>2, <1>4, <1>5, NothingIsUnknown, ApplyIs
<1>8. \A n \in Namespaces : Pod!Entry(Pod!Relisted(y.pods, y.buffer), n) = pods[n]
  <2>1. \A n \in Namespaces : pods[n] # Unknown /\ pods[n] \in SUBSET Pods
    BY NothingIsUnknown
  <2> QED
    BY <1>1, <2>1, NothingIsUnknown DEF Pod!Relisted, Pod!Entry
<1> QED
  BY <1>5, <1>6, <1>7, <1>8 DEF u, e

LEMMA StreamKept == ASSUME StreamInv, [Pod!Next]_(Pod!vars) PROVE StreamInv'
<1> USE DEF cluster, connected, stream, observed, relisting, at, dirty, synced, healthy, row, beat,
     used, missed
<1> DEFINE x == Pod!Now
<1>1. /\ cluster \in [Namespaces -> SUBSET Pods] /\ connected \in BOOLEAN
      /\ stream \in Seq(Pod!Events) /\ x.pods \in Sets /\ x.buffer \in {Unknown} \cup Sets
      /\ Opened(stream, x) /\ x.pods = observed /\ x.buffer = relisting
      /\ connected => \A n \in Namespaces : Pod!Entry(Ends(stream, x).pods, n) = cluster[n]
  BY DEF StreamInv, Pod!Now
<1>2. UNCHANGED <<observed, relisting>> => x' = x /\ x'.pods \in Sets /\ x'.buffer \in {Unknown} \cup Sets
  BY <1>1 DEF Pod!Now
<1>3. /\ cluster' \in [Namespaces -> SUBSET Pods] /\ connected' \in BOOLEAN
      /\ stream' \in Seq(Pod!Events) /\ UNCHANGED <<observed, relisting>>
      /\ Opened(stream', x)
      /\ connected' => \A n \in Namespaces : Pod!Entry(Ends(stream', x).pods, n) = cluster'[n]
      => StreamInv'
  BY <1>1, <1>2 DEF StreamInv, Pod!Now
<1>4. ASSUME UNCHANGED <<cluster, connected, stream, observed, relisting>> PROVE StreamInv'
  <2> HIDE DEF x
  <2> QED
    BY <1>1, <1>3, <1>4
<1>5. CASE \/ Pod!Report \/ Pod!Heartbeat \/ Pod!Silence \/ Pod!Truncate \/ UNCHANGED Pod!vars
           \/ \E n \in Namespaces : Pod!StoreNamespace(n) \/ Pod!StoreFails(n) \/ Pod!Invalidate(n)
  BY <1>4, <1>5 DEF Pod!Report, Pod!Heartbeat, Pod!Silence, Pod!Truncate, Pod!vars, Pod!kubernetes,
    Pod!memory, Pod!StoreNamespace, Pod!StoreFails, Pod!Invalidate
<1>6. ASSUME NEW n \in Namespaces, NEW p \in Pods, Pod!Change(n, p) PROVE StreamInv'
  <2> DEFINE e == Pod!About(IF p \in cluster[n] THEN "Delete" ELSE "Apply", n, p)
             y == Ends(stream, x)
  <2>1. /\ cluster' = [cluster EXCEPT ![n] = IF p \in @ THEN @ \ {p} ELSE @ \cup {p}]
        /\ stream' = IF connected THEN Append(stream, e) ELSE stream
        /\ connected' = connected /\ UNCHANGED <<observed, relisting>>
    BY <1>6 DEF Pod!Change, Pod!memory
  <2>2. cluster' \in [Namespaces -> SUBSET Pods]
    BY <1>1, <2>1
  <2>3. CASE ~connected
    <3> HIDE DEF x, e, y
    <3> QED
      BY <1>1, <1>3, <2>1, <2>2, <2>3
  <2>4. CASE connected
    <3>1. /\ e \in Pod!Events /\ e.namespace = n /\ e.pod = p
          /\ e.type = IF p \in cluster[n] THEN "Delete" ELSE "Apply"
      BY DEF Pod!About, Pod!Events, Pod!Entries
    <3>2. y.pods \in Sets
      BY <1>1, EndsTyped
    <3> HIDE DEF x, e, y
    <3>3. /\ stream' \in Seq(Pod!Events) /\ Opened(stream', x)
          /\ Ends(stream', x) = Pod!Apply(e, y.pods, y.buffer)
      <4>1. e.type \notin {"InitApply", "InitDone"}
        BY <3>1
      <4> QED
        BY <1>1, <2>1, <2>4, <3>1, <4>1, EventGrows DEF y
    <3>4. Ends(stream', x).pods = IF p \in cluster[n] THEN Pod!RemovePod(y.pods, e)
                                  ELSE Pod!InsertPod(y.pods, e)
      <4>1. CASE p \in cluster[n]
        BY <3>1, <3>3, <4>1, ApplyIs
      <4>2. CASE p \notin cluster[n]
        BY <3>1, <3>3, <4>2, ApplyIs
      <4> QED
        BY <4>1, <4>2
    <3>5. \A m \in Namespaces :
            /\ Pod!Entry(Pod!InsertPod(y.pods, e), m)
                 = IF m = n THEN Pod!Entry(y.pods, m) \cup {p} ELSE Pod!Entry(y.pods, m)
            /\ Pod!Entry(Pod!RemovePod(y.pods, e), m)
                 = IF m = n THEN Pod!Entry(y.pods, m) \ {p} ELSE Pod!Entry(y.pods, m)
      <4>1. PICK b \in Sets : b = y.pods
        BY <3>2
      <4>2. /\ \A m \in Namespaces : Pod!Entry(Pod!InsertPod(b, e), m)
                 = IF m = e.namespace THEN Pod!Entry(b, m) \cup {e.pod} ELSE Pod!Entry(b, m)
            /\ \A m \in Namespaces : Pod!Entry(Pod!RemovePod(b, e), m)
                 = IF m = e.namespace THEN Pod!Entry(b, m) \ {e.pod} ELSE Pod!Entry(b, m)
        BY <3>1, InsertTyped
      <4> QED
        BY <3>1, <4>1, <4>2
    <3>6. \A m \in Namespaces : Pod!Entry(y.pods, m) = cluster[m]
      BY <1>1, <2>4 DEF y
    <3>7. \A m \in Namespaces : Pod!Entry(Ends(stream', x).pods, m) = cluster'[m]
      BY <1>1, <2>1, <3>4, <3>5, <3>6
    <3> QED
      BY <1>1, <1>3, <2>1, <2>2, <3>3, <3>7
  <2> QED
    BY <1>1, <2>3, <2>4
<1>7. CASE Pod!List
  <2>1. /\ stream' = stream \o <<Pod!Signal("Init")>> \o Pod!Listed(cluster) \o <<Pod!Signal("InitDone")>>
        /\ connected' = TRUE /\ cluster' = cluster /\ UNCHANGED <<observed, relisting>>
    BY <1>7 DEF Pod!List, Pod!memory
  <2> HIDE DEF x
  <2>2. /\ stream' \in Seq(Pod!Events) /\ Opened(stream', x)
        /\ \A n \in Namespaces : Pod!Entry(Ends(stream', x).pods, n) = cluster[n]
    BY <1>1, <2>1, RelistGrows
  <2> QED
    BY <1>1, <1>3, <2>1, <2>2
<1>8. CASE Pod!PartialList
  <2>1. PICK n \in Namespaces :
          stream' = stream \o <<Pod!Signal("Init")>>
                      \o Pod!Listed([m \in Namespaces |-> IF m = n THEN cluster[m] ELSE {}])
                      \o <<Pod!Signal("Error")>>
    BY <1>8 DEF Pod!PartialList
  <2>2. ~connected /\ UNCHANGED <<cluster, connected, observed, relisting>>
    BY <1>8 DEF Pod!PartialList, Pod!memory
  <2>3. PICK pods \in [Namespaces -> SUBSET Pods] :
          stream' = stream \o <<Pod!Signal("Init")>> \o Pod!Listed(pods) \o <<Pod!Signal("Error")>>
    BY <1>1, <2>1
  <2>4. PICK e \in Pod!Events : e = Pod!Signal("Error") /\ e.type \notin {"InitApply", "InitDone"}
    BY ErrorIsEvent
  <2> HIDE DEF x
  <2>5. PICK u \in Seq(Pod!Events) :
          u = stream \o <<Pod!Signal("Init")>> \o Pod!Listed(pods) /\ Opened(u, x)
    BY <1>1, ListGrows
  <2>6. stream' = Append(u, e)
    BY <2>3, <2>4, <2>5, AppendIsConcat
  <2>7. stream' \in Seq(Pod!Events) /\ Opened(stream', x)
    BY <2>4, <2>5, <2>6, EventGrows
  <2> QED
    BY <1>1, <1>3, <2>2, <2>7
<1>9. CASE Pod!Break
  <2>1. PICK e \in Pod!Events : e = Pod!Signal("Error") /\ e.type = "Error"
    BY ErrorIsEvent
  <2>2. /\ connected /\ connected' \in BOOLEAN /\ stream' = Append(stream, e) /\ cluster' = cluster
        /\ UNCHANGED <<observed, relisting>>
    BY <1>9, <2>1 DEF Pod!Break, Pod!memory
  <2> HIDE DEF x
  <2>3. /\ stream' \in Seq(Pod!Events) /\ Opened(stream', x)
        /\ Ends(stream', x) = Pod!Apply(e, Ends(stream, x).pods, Ends(stream, x).buffer)
    <3>1. e.type \notin {"InitApply", "InitDone"}
      BY <2>1
    <3> QED
      BY <1>1, <2>2, <3>1, EventGrows
  <2>4. Ends(stream', x).pods = Ends(stream, x).pods
    BY <2>1, <2>3, ApplyIs
  <2> QED
    BY <1>1, <1>3, <2>2, <2>3, <2>4
<1>10. CASE Pod!Receive
  <2> DEFINE e == Head(stream)
             y == Pod!Apply(e, x.pods, x.buffer)
  <2>1. /\ stream # << >> /\ stream' = Tail(stream) /\ observed' = y.pods /\ relisting' = y.buffer
        /\ UNCHANGED <<cluster, connected>>
    BY <1>10, <1>1 DEF Pod!Receive
  <2>2. /\ Tail(stream) \in Seq(Pod!Events) /\ e \in Pod!Events
        /\ Ends(Tail(stream), y) = Ends(stream, x) /\ Opened(Tail(stream), y)
    <3> HIDE DEF x
    <3> QED
      BY <1>1, <2>1, Shrinks
  <2>3. y.pods \in Sets /\ y.buffer \in {Unknown} \cup Sets /\ y = [pods |-> y.pods, buffer |-> y.buffer]
    <3> HIDE DEF x, e
    <3> QED
      BY <1>1, <2>2, AppliedTyped, AppliedIsRecord
  <2> HIDE DEF e, y, x
  <2>4. Pod!Now' = y
    BY <2>1, <2>3 DEF Pod!Now
  <2> QED
    BY <1>1, <2>1, <2>2, <2>3, <2>4 DEF StreamInv
<1>11. CASE Pod!ReplaceWorker
  <2>1. /\ connected' = FALSE /\ stream' = << >> /\ observed' = Pod!Nothing /\ relisting' = Unknown
        /\ cluster' = cluster
    BY <1>11 DEF Pod!ReplaceWorker
  <2>2. Pod!Nothing \in Sets
    BY DEF Pod!Nothing, Sets, Pod!Contents
  <2>3. \A z : Opened(<< >>, z)
    <3>1. << >> \in Seq(Pod!Events) /\ 1..Len(<< >>) = {}
      OBVIOUS
    <3> QED
      BY <3>1 DEF Opened
  <2>4. << >> \in Seq(Pod!Events)
    OBVIOUS
  <2> QED
    BY <1>1, <2>1, <2>2, <2>3, <2>4 DEF StreamInv
<1> QED
  BY <1>5, <1>6, <1>7, <1>8, <1>9, <1>10, <1>11 DEF Pod!Next, Pod!Watch

LEMMA RowsKept == ASSUME StreamInv, RowsInv, [Pod!Next]_(Pod!vars) PROVE RowsInv'
<1> USE DEF cluster, connected, stream, observed, relisting, at, dirty, synced, healthy, row, beat,
     used, missed
<1>1. CASE \/ UNCHANGED Pod!vars \/ Pod!List \/ Pod!PartialList \/ Pod!Break
           \/ \E n \in Namespaces : \E p \in Pods : Pod!Change(n, p)
  <2>1. UNCHANGED <<row, dirty, missed, at, synced, healthy, beat, observed>>
    BY <1>1 DEF Pod!List, Pod!PartialList, Pod!Break, Pod!Change, Pod!vars, Pod!memory, Pod!tables
  <2> QED
    BY <2>1 DEF RowsInv, Pod!Vouches, Pod!KnownTo
<1>2. CASE Pod!Report
  BY <1>2 DEF Pod!Report, Pod!kubernetes, RowsInv, Pod!Vouches, Pod!KnownTo
<1>3. CASE Pod!Heartbeat \/ Pod!Silence
  <2>1. beat' \in BOOLEAN /\ UNCHANGED <<row, dirty, missed, at, synced, healthy, observed>>
    BY <1>3 DEF Pod!Heartbeat, Pod!Silence, Pod!kubernetes, Pod!memory
  <2> QED
    BY <2>1 DEF Pod!Heartbeat, Pod!Silence, Pod!kubernetes, Pod!memory, RowsInv, Pod!Vouches, Pod!KnownTo
<1>4. CASE Pod!Truncate
  <2>1. Pod!Nothing \in [Namespaces -> Pod!Contents]
    BY DEF Pod!Nothing, Pod!Contents
  <2> QED
    BY <1>4, <2>1 DEF Pod!Truncate, Pod!Nothing, Pod!kubernetes, Pod!memory, RowsInv, Pod!Vouches,
      Pod!KnownTo
<1>5. ASSUME NEW n \in Namespaces, Pod!Invalidate(n) PROVE RowsInv'
  <2>1. row' = [row EXCEPT ![n] = Unknown]
    BY <1>5 DEF Pod!Invalidate
  <2>2. row' \in [Namespaces -> Pod!Contents]
    BY <2>1 DEF RowsInv, Pod!Contents
  <2> QED
    BY <1>5, <2>1, <2>2 DEF Pod!Invalidate, Pod!kubernetes, Pod!memory, RowsInv, Pod!Vouches, Pod!KnownTo
<1>6. ASSUME NEW n \in Namespaces, Pod!StoreNamespace(n) PROVE RowsInv'
  <2>1. row' = [row EXCEPT ![n] = observed[n]] /\ observed[n] \in Pod!Contents
    BY <1>6 DEF Pod!StoreNamespace, StreamInv, Sets
  <2>2. row' \in [Namespaces -> Pod!Contents]
    BY <2>1 DEF RowsInv
  <2> QED
    BY <1>6, <2>1, <2>2 DEF Pod!StoreNamespace, Pod!kubernetes, RowsInv, Pod!Vouches, Pod!KnownTo
<1>7. ASSUME NEW n \in Namespaces, Pod!StoreFails(n) PROVE RowsInv'
  BY <1>7 DEF Pod!StoreFails, Pod!kubernetes, Pod!tables, RowsInv, Pod!Vouches, Pod!KnownTo
<1>8. CASE Pod!ReplaceWorker
  BY <1>8 DEF Pod!ReplaceWorker, Pod!tables, RowsInv, Pod!Vouches
<1>9. CASE Pod!Receive
  <2> DEFINE e == Head(stream)
             after == Pod!Apply(e, observed, relisting)
  <2>1. /\ at = "recv" /\ stream # << >> /\ observed' = after.pods
        /\ dirty' = Pod!Changed(e, after.pods, relisting) /\ synced' = (e.type = "InitDone")
        /\ healthy' = (healthy /\ e.type # "Error") /\ at' = IF e.type = "Error" THEN "recv" ELSE "store"
        /\ UNCHANGED <<row, beat, missed>>
    BY <1>9 DEF Pod!Receive, Pod!tables
  <2>2. e \in Pod!Events /\ (e.type \in {"InitApply", "InitDone"} => relisting # Unknown)
    <3>0. Pod!Now.buffer = relisting
      BY DEF Pod!Now
    <3>1. PICK x : x = Pod!Now /\ x.buffer = relisting
      BY <3>0
    <3> QED
      BY <2>1, <3>1, Shrinks DEF StreamInv
  <2>3. observed \in Sets /\ relisting \in {Unknown} \cup Sets
    BY DEF StreamInv
  <2> HIDE DEF e
  <2>4. after.pods \in Sets
    BY <2>2, <2>3, AppliedTyped
  <2>5. dirty' \subseteq Namespaces
    BY <2>1, <2>2 DEF Pod!Changed, Pod!KnownTo, Pod!Events, Pod!Entries
  <2>6. /\ row' \in [Namespaces -> Pod!Contents] /\ missed' \subseteq Namespaces
        /\ at' \in {"recv", "store"} /\ synced' \in BOOLEAN /\ healthy' \in BOOLEAN /\ beat' \in BOOLEAN
        /\ at' = "recv" => dirty' = {}
    BY <2>1 DEF RowsInv, Pod!Changed
  <2>7. ASSUME Pod!Vouches', NEW n \in Pod!KnownTo(observed') \ (dirty' \cup missed')
        PROVE  row'[n] \in {Unknown, observed'[n]}
    <3>1. e.type # "Error"
      BY <2>1, <2>7 DEF Pod!Vouches
    <3>2. CASE e.type = "InitDone"
      BY <2>1, <2>2, <2>7, <3>2 DEF Pod!Changed
    <3>3. CASE e.type # "InitDone"
      <4>1. healthy /\ dirty = {} /\ n \in Namespaces /\ n \notin missed
        BY <2>1, <2>7, <3>3 DEF Pod!Vouches, RowsInv, Pod!KnownTo
      <4>2. observed'[n] = observed[n]
        <5>1. CASE e.type \in {"Init", "InitApply"}
          <6>1. after.pods = observed
            BY <2>2, <5>1, ApplyIs
          <6> QED
            BY <2>1, <6>1
        <5>2. CASE e.type \in {"Apply", "Delete"}
          <6>1. n # e.namespace
            BY <2>1, <2>7, <5>2 DEF Pod!Changed
          <6>2. after.pods \in {Pod!InsertPod(observed, e), Pod!RemovePod(observed, e)}
            BY <5>2, ApplyIs
          <6> QED
            BY <2>1, <2>3, <4>1, <6>1, <6>2 DEF Pod!InsertPod, Pod!RemovePod, Sets
        <5> QED
          BY <2>2, <3>1, <3>3, <5>1, <5>2 DEF Pod!Events, Pod!Entries
      <4>3. n \in Pod!KnownTo(observed)
        BY <2>7, <4>1, <4>2 DEF Pod!KnownTo
      <4>4. row[n] \in {Unknown, observed[n]}
        BY <4>1, <4>3 DEF RowsInv, Pod!Vouches
      <4> QED
        BY <2>1, <4>2, <4>4
    <3> QED
      BY <3>2, <3>3
  <2> HIDE DEF after
  <2> QED
    BY <2>5, <2>6, <2>7 DEF RowsInv
<1> QED
  BY <1>1, <1>2, <1>3, <1>4, <1>5, <1>6, <1>7, <1>8, <1>9 DEF Pod!Next, Pod!Watch

LEMMA UsedKept == ASSUME UsedInv, [Pod!Next]_(Pod!vars) PROVE UsedInv'
<1> USE DEF used
<1>1. \A what \in DOMAIN Pod!Limit : Pod!Use(what) => UsedInv'
  <2> HIDE DEF used
  <2> QED
    BY DEF UsedInv, Pod!Use, used
<1>2. {"change", "break", "failure", "restart"} \subseteq DOMAIN Pod!Limit
  BY DEF Pod!Limit
<1>3. used' = used => UsedInv'
  BY DEF UsedInv, Pod!Limit
<1>4. [Pod!Next]_(Pod!vars) => \/ used' = used
                              \/ \E what \in {"change", "break", "failure", "restart"} : Pod!Use(what)
  BY DEF Pod!Next, Pod!Watch, Pod!vars, Pod!Receive, Pod!Report, Pod!Heartbeat, Pod!StoreNamespace,
    Pod!List, Pod!PartialList, Pod!Break, Pod!Silence, Pod!Truncate, Pod!ReplaceWorker, Pod!StoreFails,
    Pod!Invalidate, Pod!Change
<1> QED
  BY <1>1, <1>2, <1>3, <1>4

\* Spec: what a viewer is shown of the namespaces a watch knows matches the cluster once the
\* watch has caught up, and no event of the watch is lost or applied twice.
THEOREM WatchAlwaysFaithful == Spec => []WatchIsFaithful
<1> DEFINE Inv == part = "pod" => StreamInv /\ RowsInv /\ UsedInv
<1>0. "pod" # "helm" /\ "pod" # "scaling" /\ "pod" \notin Tasks
  BY LockTasksAssumption DEF Lock!TasksAssumption, Lock!AllTasks
<1>1. Init => Inv
  BY <1>0, WatchInitially DEF Init
<1>2. Inv /\ [Next]_vars => Inv'
  <2>1. part = "pod" /\ [Next]_vars => [Pod!Next]_(Pod!vars)
    BY <1>0 DEF Next, vars, Pod!vars, Pod!kubernetes, Pod!memory, Pod!tables
  <2> QED
    BY <2>1, PartIsKept, StreamKept, RowsKept, UsedKept
<1>3. Inv => WatchIsFaithful
  <2> USE DEF cluster, connected, stream, observed, relisting, at, dirty, synced, healthy, row, beat,
       used, missed
  <2> SUFFICES ASSUME part = "pod", StreamInv, RowsInv PROVE Pod!KnownAnswersMatch /\ Pod!NothingLost
    BY DEF WatchIsFaithful
  <2>1. Pod!NothingLost
    BY DEF StreamInv, Pod!NothingLost, Ends
  <2>2. ASSUME Pod!CaughtUp, NEW n \in Pod!KnownTo(observed) \ missed PROVE Pod!PodsFor(n) = cluster[n]
    <3>1. healthy /\ connected /\ stream = << >> /\ at = "recv" /\ dirty = {}
      BY <2>2 DEF Pod!CaughtUp, RowsInv
    <3>2. row[n] \in {Unknown, observed[n]} /\ n \in Namespaces /\ observed[n] # Unknown
      BY <2>2, <3>1 DEF RowsInv, Pod!Vouches, Pod!KnownTo
    <3>3. Pod!Entry(observed, n) = cluster[n]
      <4>1. Ends(stream, Pod!Now) = Pod!Now
        BY <3>1, AfterIs DEF Ends
      <4> QED
        BY <3>1, <3>2, <4>1 DEF StreamInv, Pod!Now
    <3> QED
      BY <3>2, <3>3 DEF Pod!PodsFor, Pod!Entry
  <2> QED
    BY <2>1, <2>2 DEF Pod!KnownAnswersMatch
<1> QED
  BY <1>1, <1>2, <1>3, PTL DEF Spec

-----------------------------------------------------------------------------
(* WorkerLocks.                                                            *)

ahead == v1
line == v2
reads == v3
owner == v4

Steps == [do : {"read", "write", "drop"}, lock : Lock!Locks]
Counts == [Lock!Locks -> Nat]
NoGuards == [l \in Lock!Locks |-> 0]

\* The guards a task holds.
Guards(t) == [l \in Lock!Locks |-> reads[l][t] + IF t \in owner[l] THEN 1 ELSE 0]

\* A step takes a guard, or drops one that is held.
Moves(e, x, y) ==
  IF e.do = "drop" THEN x[e.lock] > 0 /\ y = [x EXCEPT ![e.lock] = @ - 1]
  ELSE y = [x EXCEPT ![e.lock] = @ + 1]

\* From x the steps of s lead to y, and no guard is dropped that is not held.
Settles(s, x, y) ==
  \E h : /\ h[0] = x /\ h[Len(s)] = y
         /\ \A i \in 0..Len(s) : h[i] \in Counts
         /\ \A i \in 1..Len(s) : Moves(s[i], h[i-1], h[i])

LEMMA NothingSettles == \A x, y : Settles(<< >>, x, y) => x = y
<1>1. Len(<< >>) = 0
  OBVIOUS
<1> QED
  BY <1>1 DEF Settles

LEMMA SettlesOn ==
  ASSUME NEW s \in Seq(Steps), NEW t \in Seq(Steps), NEW x, NEW y, NEW z,
         Settles(s, x, y), Settles(t, y, z)
  PROVE  Settles(s \o t, x, z)
<1> DEFINE u == s \o t
           m == Len(s)
           n == Len(t)
<1>1. Len(u) = m + n /\ m \in Nat /\ n \in Nat
  BY ConcatProperties, LenProperties
<1>2. /\ \A i \in 1..m : u[i] = s[i]
      /\ \A i \in 1..n : u[m + i] = t[i]
  <2>1. \A i \in 1..(m + n) : u[i] = IF i <= m THEN s[i] ELSE t[i - m]
    BY ConcatProperties
  <2>2. \A i \in 1..n : m + i \in 1..(m + n) /\ ~(m + i <= m) /\ (m + i) - m = i
    BY <1>1
  <2>3. \A i \in 1..m : i \in 1..(m + n) /\ i <= m
    BY <1>1
  <2> HIDE DEF u, m, n
  <2> QED
    BY <2>1, <2>2, <2>3
<1>3. PICK f : /\ f[0] = x /\ f[m] = y
               /\ \A i \in 0..m : f[i] \in Counts
               /\ \A i \in 1..m : Moves(s[i], f[i-1], f[i])
  BY DEF Settles
<1>4. PICK g : /\ g[0] = y /\ g[n] = z
               /\ \A i \in 0..n : g[i] \in Counts
               /\ \A i \in 1..n : Moves(t[i], g[i-1], g[i])
  BY DEF Settles
<1> HIDE DEF u, m, n
<1> DEFINE h == [i \in 0..(m + n) |-> IF i <= m THEN f[i] ELSE g[i - m]]
<1>5. h[0] = x /\ h[m + n] = z
  <2>1. CASE n = 0
    BY <1>1, <1>3, <1>4, <2>1
  <2>2. CASE n # 0
    <3>1. m + n \in 0..(m + n) /\ ~(m + n <= m) /\ (m + n) - m = n /\ 0 \in 0..(m + n) /\ 0 <= m
      BY <1>1, <2>2
    <3> QED
      BY <1>3, <1>4, <3>1
  <2> QED
    BY <2>1, <2>2
<1>6. \A i \in 0..(m + n) : h[i] \in Counts
  <2>1. \A i \in 0..(m + n) : IF i <= m THEN i \in 0..m ELSE i - m \in 0..n
    BY <1>1
  <2> QED
    BY <1>3, <1>4, <2>1
<1>7. ASSUME NEW i \in 1..(m + n) PROVE Moves(u[i], h[i-1], h[i])
  <2>1. CASE i <= m
    <3>1. i \in 1..m /\ i \in 0..(m + n) /\ i - 1 \in 0..(m + n) /\ i - 1 <= m
      BY <1>1, <2>1
    <3> QED
      BY <1>2, <1>3, <2>1, <3>1
  <2>2. CASE ~(i <= m)
    <3>1. PICK j \in 1..n : j = i - m
      BY <1>1, <2>2
    <3>2. i = m + j /\ i \in 0..(m + n) /\ i - 1 \in 0..(m + n) /\ (i - 1) - m = j - 1
      BY <1>1, <3>1
    <3>3. h[i] = g[j]
      BY <2>2, <3>1, <3>2
    <3>4. h[i-1] = g[j-1]
      <4>1. CASE j = 1
        <5>1. i - 1 = m /\ j - 1 = 0 /\ m <= m
          BY <1>1, <3>2, <4>1
        <5> QED
          BY <1>3, <1>4, <3>2, <5>1
      <4>2. CASE j # 1
        <5>1. ~(i - 1 <= m)
          BY <1>1, <3>1, <3>2, <4>2
        <5> QED
          BY <3>2, <5>1
      <4> QED
        BY <4>1, <4>2
    <3>5. u[i] = t[j]
      BY <1>2, <3>1, <3>2
    <3> HIDE DEF h
    <3> QED
      BY <1>4, <3>1, <3>3, <3>4, <3>5
  <2> QED
    BY <2>1, <2>2
<1> HIDE DEF h
<1>8. Settles(u, x, z)
  BY <1>1, <1>5, <1>6, <1>7 DEF Settles
<1> QED
  BY <1>8 DEF u

LEMMA SettlesAfter ==
  ASSUME NEW s \in Seq(Steps), s # << >>, NEW x, NEW z, Settles(s, x, z)
  PROVE  \E y : Moves(Head(s), x, y) /\ Settles(Tail(s), y, z)
<1>1. PICK h : /\ h[0] = x /\ h[Len(s)] = z
               /\ \A i \in 0..Len(s) : h[i] \in Counts
               /\ \A i \in 1..Len(s) : Moves(s[i], h[i-1], h[i])
  BY DEF Settles
<1> DEFINE t == Tail(s)
           n == Len(t)
           g == [i \in 0..n |-> h[i + 1]]
<1>2. /\ n = Len(s) - 1 /\ \A i \in 1..n : t[i] = s[i + 1]
      /\ Len(s) \in Nat \ {0} /\ Head(s) = s[1]
  BY HeadTailProperties, LenProperties, EmptySeq
<1>3. n \in Nat /\ Len(s) = n + 1
  BY <1>2
<1> HIDE DEF t, n
<1>4. Moves(Head(s), x, h[1])
  <2>1. 1 \in 1..Len(s) /\ 1 - 1 = 0
    BY <1>2
  <2> QED
    BY <1>1, <1>2, <2>1
<1>5. g[0] = h[1] /\ g[n] = z
  <2>1. 0 \in 0..n /\ n \in 0..n /\ 0 + 1 = 1
    BY <1>3
  <2> QED
    BY <1>1, <1>3, <2>1
<1>6. \A i \in 0..n : g[i] \in Counts
  <2>1. \A i \in 0..n : i + 1 \in 0..Len(s)
    BY <1>3
  <2> QED
    BY <1>1, <2>1
<1>7. ASSUME NEW i \in 1..n PROVE Moves(t[i], g[i-1], g[i])
  <2>1. i + 1 \in 1..Len(s) /\ (i + 1) - 1 = i /\ i - 1 \in 0..n /\ i \in 0..n /\ (i - 1) + 1 = i
    BY <1>3
  <2>2. Moves(s[i + 1], h[i], h[i + 1])
    BY <1>1, <2>1
  <2> QED
    BY <1>2, <2>1, <2>2
<1> HIDE DEF g
<1>8. Settles(t, h[1], z)
  BY <1>5, <1>6, <1>7 DEF Settles, n
<1> QED
  BY <1>4, <1>8 DEF t

\* A guard is taken, and dropped again.
LEMMA Taken ==
  ASSUME NEW x \in Counts, NEW l \in Lock!Locks
  PROVE  LET y == [x EXCEPT ![l] = @ + 1] IN
         /\ y \in Counts /\ Lock!Read(l) \in Steps /\ Lock!Write(l) \in Steps /\ Lock!Drop(l) \in Steps
         /\ Moves(Lock!Read(l), x, y) /\ Moves(Lock!Write(l), x, y) /\ Moves(Lock!Drop(l), y, x)
<1> DEFINE y == [x EXCEPT ![l] = @ + 1]
<1>1. x \in [Lock!Locks -> Nat] /\ y \in [Lock!Locks -> Nat] /\ y[l] = x[l] + 1 /\ x[l] \in Nat
  BY DEF Counts
<1>2. [y EXCEPT ![l] = @ - 1] = x
  <2>1. PICK z : z = [y EXCEPT ![l] = @ - 1]
    OBVIOUS
  <2>2. DOMAIN z = Lock!Locks /\ z = [k \in DOMAIN z |-> z[k]]
    BY <1>1, <2>1
  <2>3. \A k \in Lock!Locks : z[k] = x[k]
    BY <1>1, <2>1
  <2>4. z = x
    BY <1>1, <2>2, <2>3
  <2> QED
    BY <2>1, <2>4
<1>3. y[l] > 0
  BY <1>1
<1> HIDE DEF y
<1>4. Moves(Lock!Read(l), x, y) /\ Moves(Lock!Write(l), x, y)
  BY DEF Moves, Lock!Read, Lock!Write, y
<1>5. Moves(Lock!Drop(l), y, x)
  BY <1>2, <1>3 DEF Moves, Lock!Drop
<1>6. Lock!Read(l) \in Steps /\ Lock!Write(l) \in Steps /\ Lock!Drop(l) \in Steps
  BY DEF Lock!Read, Lock!Write, Lock!Drop, Steps
<1> QED
  BY <1>1, <1>4, <1>5, <1>6 DEF y, Counts

LEMMA StepSettles ==
  ASSUME NEW e \in Steps, NEW x \in Counts, NEW y \in Counts, Moves(e, x, y)
  PROVE  <<e>> \in Seq(Steps) /\ Settles(<<e>>, x, y)
<1> DEFINE s == <<e>>
           h == [i \in 0..1 |-> IF i = 0 THEN x ELSE y]
<1>1. s \in Seq(Steps) /\ Len(s) = 1 /\ s[1] = e
  OBVIOUS
<1>2. h[0] = x /\ h[1] = y /\ \A i \in 0..1 : h[i] \in Counts
  OBVIOUS
<1> HIDE DEF s, h
<1>3. Settles(s, x, y)
  <2>1. \A i \in 1..1 : i = 1 /\ i - 1 = 0
    OBVIOUS
  <2> QED
    BY <1>1, <1>2, <2>1 DEF Settles
<1> QED
  BY <1>1, <1>3 DEF s

\* Two steps, one after the other.
LEMMA TwoSettle ==
  ASSUME NEW e \in Steps, NEW f \in Steps, NEW x \in Counts, NEW y \in Counts, NEW z \in Counts,
         Moves(e, x, y), Moves(f, y, z)
  PROVE  <<e, f>> \in Seq(Steps) /\ Settles(<<e, f>>, x, z)
<1>1. PICK s \in Seq(Steps) : s = <<e>> /\ Settles(s, x, y)
  BY StepSettles
<1>2. PICK t \in Seq(Steps) : t = <<f>> /\ Settles(t, y, z)
  BY StepSettles
<1>3. Settles(s \o t, x, z)
  BY <1>1, <1>2, SettlesOn
<1>4. PICK u : u = <<e, f>>
  OBVIOUS
<1>5. u \in Seq(Steps) /\ Len(u) = 2 /\ u[1] = e /\ u[2] = f
  BY <1>4
<1>6. s \o t \in Seq(Steps) /\ Len(s \o t) = 2 /\ (s \o t)[1] = e /\ (s \o t)[2] = f
  BY <1>1, <1>2
<1>7. u = s \o t
  <2>1. \A i \in 1..Len(u) : u[i] = (s \o t)[i]
    BY <1>5, <1>6
  <2> QED
    BY <1>5, <1>6, <2>1, SeqEqual
<1> QED
  BY <1>3, <1>4, <1>5, <1>7

\* Every program of a task drops what it takes, and only that.
LEMMA HelmLockSettles ==
  ASSUME NEW x \in Counts
  PROVE  Lock!UnderHelmLock \in Seq(Steps) /\ Settles(Lock!UnderHelmLock, x, x)
<1>1. PICK y \in Counts : /\ Lock!Read("catalog") \in Steps /\ Lock!Drop("catalog") \in Steps
                          /\ Moves(Lock!Read("catalog"), x, y) /\ Moves(Lock!Drop("catalog"), y, x)
  BY Taken DEF Lock!Locks
<1>2. PICK z \in Counts : /\ Lock!Write("helm") \in Steps /\ Lock!Drop("helm") \in Steps
                          /\ Moves(Lock!Write("helm"), y, z) /\ Moves(Lock!Drop("helm"), z, y)
  BY Taken DEF Lock!Locks
<1>3. PICK s \in Seq(Steps) : s = <<Lock!Read("catalog"), Lock!Write("helm")>> /\ Settles(s, x, z)
  BY <1>1, <1>2, TwoSettle
<1>4. PICK t \in Seq(Steps) : t = <<Lock!Drop("helm"), Lock!Drop("catalog")>> /\ Settles(t, z, x)
  BY <1>1, <1>2, TwoSettle
<1>5. s \o t \in Seq(Steps) /\ Settles(s \o t, x, x)
  BY <1>3, <1>4, SettlesOn, ConcatProperties
<1>6. Lock!UnderHelmLock = s \o t
  BY <1>3, <1>4 DEF Lock!UnderHelmLock
<1> QED
  BY <1>5, <1>6

LEMMA LookupSettles ==
  ASSUME NEW x \in Counts
  PROVE  /\ Lock!UpsertState \in Seq(Steps) /\ Settles(Lock!UpsertState, x, x)
         /\ Lock!ReconcileApp \in Seq(Steps) /\ Settles(Lock!ReconcileApp, x, x)
         /\ Lock!SyncAndRefresh \in Seq(Steps) /\ Settles(Lock!SyncAndRefresh, x, x)
<1>1. PICK y \in Counts : /\ Lock!Read("catalog") \in Steps /\ Lock!Drop("catalog") \in Steps
                          /\ Lock!Write("catalog") \in Steps /\ Moves(Lock!Write("catalog"), x, y)
                          /\ Moves(Lock!Read("catalog"), x, y) /\ Moves(Lock!Drop("catalog"), y, x)
  BY Taken DEF Lock!Locks
<1>2. ASSUME NEW a \in Counts PROVE Lock!UpsertState \in Seq(Steps) /\ Settles(Lock!UpsertState, a, a)
  <2>1. PICK b \in Counts : Moves(Lock!Read("catalog"), a, b) /\ Moves(Lock!Drop("catalog"), b, a)
    BY Taken DEF Lock!Locks
  <2> QED
    BY <1>1, <2>1, TwoSettle DEF Lock!UpsertState
<1>3. PICK u \in Seq(Steps) : u = Lock!UpsertState /\ Settles(u, y, y) /\ Settles(u, x, x)
  BY <1>2
<1>4. PICK s \in Seq(Steps) : s = <<Lock!Read("catalog")>> /\ Settles(s, x, y)
  BY <1>1, StepSettles
<1>5. PICK t \in Seq(Steps) : t = <<Lock!Drop("catalog")>> /\ Settles(t, y, x)
  BY <1>1, StepSettles
<1>6. s \o u \in Seq(Steps) /\ Settles(s \o u, x, y)
  BY <1>3, <1>4, SettlesOn, ConcatProperties
<1>7. (s \o u) \o t \in Seq(Steps) /\ Settles((s \o u) \o t, x, x)
  <2>1. PICK w \in Seq(Steps) : w = s \o u /\ Settles(w, x, y)
    BY <1>6
  <2>2. w \o t \in Seq(Steps) /\ Settles(w \o t, x, x)
    BY <1>5, <2>1, SettlesOn, ConcatProperties
  <2> QED
    BY <2>1, <2>2
<1>8. Lock!ReconcileApp = (s \o u) \o t
  BY <1>3, <1>4, <1>5 DEF Lock!ReconcileApp
<1>9. PICK w \in Seq(Steps) : w = <<Lock!Write("catalog"), Lock!Drop("catalog")>> /\ Settles(w, x, x)
  BY <1>1, TwoSettle
<1>10. w \o u \in Seq(Steps) /\ Settles(w \o u, x, x)
  BY <1>3, <1>9, SettlesOn, ConcatProperties
<1>11. Lock!SyncAndRefresh = w \o u
  BY <1>3, <1>9 DEF Lock!SyncAndRefresh, Lock!UpsertState
<1> QED
  BY <1>3, <1>7, <1>8, <1>10, <1>11

LEMMA ProgramsSettle ==
  ASSUME NEW t, NEW program \in Lock!Programs(t)
  PROVE  program \in Seq(Steps) /\ Settles(program, NoGuards, NoGuards)
<1> DEFINE Fine(s) == s \in Seq(Steps) /\ Settles(s, NoGuards, NoGuards)
<1>1. NoGuards \in Counts
  BY DEF NoGuards, Counts
<1>2. Fine(Lock!UnderHelmLock) /\ Fine(Lock!UpsertState) /\ Fine(Lock!ReconcileApp) /\ Fine(Lock!SyncAndRefresh)
  BY <1>1, HelmLockSettles, LookupSettles
<1>3. ASSUME NEW a, NEW b, Fine(a), Fine(b) PROVE Fine(a \o b)
  BY <1>3, SettlesOn, ConcatProperties
<1> HIDE DEF Fine
<1>4. Fine(Lock!UnderHelmLock \o Lock!UpsertState)
  BY <1>2, <1>3
<1>5. Fine(Lock!UnderHelmLock \o Lock!ReconcileApp)
  BY <1>2, <1>3
<1>6. Fine((Lock!UnderHelmLock \o Lock!UpsertState) \o Lock!ReconcileApp)
  BY <1>2, <1>3, <1>4
<1>7. Fine(Lock!ReconcileStates)
  <2>1. Fine(Lock!UpsertState \o Lock!ReconcileApp)
    BY <1>2, <1>3
  <2>2. Fine((Lock!UpsertState \o Lock!ReconcileApp) \o Lock!ReconcileApp)
    BY <1>2, <1>3, <2>1
  <2> QED
    BY <2>2 DEF Lock!ReconcileStates, Lock!UpsertState
<1>8. Fine(program)
  BY <1>2, <1>4, <1>5, <1>6, <1>7 DEF Lock!Programs, Lock!ExecuteOperation, Lock!RescaleRelease
<1> QED
  BY <1>8 DEF Fine

Requests == [task : Tasks, do : {"read", "write"}]

\* A lock has one exclusive holder and then no other.
OwnerInv ==
  \A l \in Lock!Locks : owner[l] # {} => /\ \E t \in Tasks : owner[l] = {t}
                                       /\ \A t \in Tasks : reads[l][t] = 0

\* What a task has still to do drops all it holds.
GuardInv == \A t \in Tasks : Settles(ahead[t], Guards(t), NoGuards)

\* Who asks for a guard is about to take it, and asks once.
LineInv ==
  \A l \in Lock!Locks : \A i \in 1..Len(line[l]) :
    /\ ahead[line[l][i].task] # << >>
    /\ Head(ahead[line[l][i].task]) = [do |-> line[l][i].do, lock |-> l]
    /\ \A j \in 1..Len(line[l]) : line[l][i].task = line[l][j].task => i = j

LockInv ==
  /\ ahead \in [Tasks -> Seq(Steps)] /\ line \in [Lock!Locks -> Seq(Requests)]
  /\ reads \in [Lock!Locks -> [Tasks -> Nat]] /\ owner \in [Lock!Locks -> SUBSET Tasks]
  /\ OwnerInv /\ GuardInv /\ LineInv

LEMMA LockInvSays == LockInv => Lock!TypeOK
<1> USE DEF ahead, line, reads, owner
<1> SUFFICES ASSUME LockInv PROVE Lock!TypeOK
  OBVIOUS
<1>1. ASSUME NEW l \in Lock!Locks PROVE Cardinality(owner[l]) <= 1
  <2>1. CASE owner[l] = {}
    BY <2>1, FS_EmptySet
  <2>2. CASE owner[l] # {}
    <3>1. PICK t \in Tasks : owner[l] = {t}
      BY <2>2 DEF LockInv, OwnerInv
    <3> QED
      BY <3>1, FS_Singleton
  <2> QED
    BY <2>1, <2>2
<1>2. \A S : Lock!Cardinality(S) = Cardinality(S)
  BY DEF Lock!Cardinality, Cardinality
<1> QED
  BY <1>1, <1>2 DEF LockInv, OwnerInv, Lock!TypeOK, Steps, Requests

LEMMA LockInitially == Lock!Init => LockInv
<1> USE DEF ahead, line, reads, owner
<1> SUFFICES ASSUME Lock!Init PROVE LockInv
  OBVIOUS
<1>1. /\ ahead = [t \in Tasks |-> << >>] /\ line = [l \in Lock!Locks |-> << >>]
      /\ reads = [l \in Lock!Locks |-> [t \in Tasks |-> 0]] /\ owner = [l \in Lock!Locks |-> {}]
  BY DEF Lock!Init
<1>2. << >> \in Seq(Steps) /\ << >> \in Seq(Requests) /\ 1..Len(<< >>) = {} /\ 0..Len(<< >>) = {0}
  OBVIOUS
<1>3. Settles(<< >>, NoGuards, NoGuards)
  <2> DEFINE h == [i \in {0} |-> NoGuards]
  <2>1. h[0] = NoGuards /\ Len(<< >>) = 0
    OBVIOUS
  <2>2. NoGuards \in Counts
    BY DEF NoGuards, Counts
  <2> HIDE DEF h
  <2> QED
    BY <1>2, <2>1, <2>2 DEF Settles
<1>4. \A t \in Tasks : Guards(t) = NoGuards
  BY <1>1 DEF Guards, NoGuards
<1> QED
  BY <1>1, <1>2, <1>3, <1>4 DEF LockInv, OwnerInv, GuardInv, LineInv

LEMMA LockKept == ASSUME LockInv, [Lock!Next]_(Lock!vars) PROVE LockInv'
<1> USE DEF ahead, line, reads, owner
<1>1. /\ ahead \in [Tasks -> Seq(Steps)] /\ line \in [Lock!Locks -> Seq(Requests)]
      /\ reads \in [Lock!Locks -> [Tasks -> Nat]] /\ owner \in [Lock!Locks -> SUBSET Tasks]
  BY DEF LockInv
<1>2. \A l \in Lock!Locks : owner[l] # {} => /\ \E t \in Tasks : owner[l] = {t}
                                           /\ \A t \in Tasks : reads[l][t] = 0
  BY DEF LockInv, OwnerInv
<1>3. \A t \in Tasks : Settles(ahead[t], Guards(t), NoGuards)
  BY DEF LockInv, GuardInv
<1>4. \A l \in Lock!Locks : \A i \in 1..Len(line[l]) :
       /\ ahead[line[l][i].task] # << >>
       /\ Head(ahead[line[l][i].task]) = [do |-> line[l][i].do, lock |-> l]
       /\ \A j \in 1..Len(line[l]) : line[l][i].task = line[l][j].task => i = j
  BY DEF LockInv, LineInv
<1>5. CASE UNCHANGED Lock!vars
  BY <1>5 DEF LockInv, Lock!vars, OwnerInv, GuardInv, LineInv, Guards
<1>6. ASSUME NEW t \in Tasks, Lock!Begin(t) PROVE LockInv'
  <2>1. PICK program \in Lock!Programs(t) : ahead' = [ahead EXCEPT ![t] = program]
    BY <1>6 DEF Lock!Begin
  <2>2. ahead[t] = << >> /\ UNCHANGED <<line, reads, owner>>
    BY <1>6 DEF Lock!Begin
  <2>3. program \in Seq(Steps) /\ Settles(program, NoGuards, NoGuards)
    BY ProgramsSettle
  <2>4. \A u \in Tasks : Guards(u)' = Guards(u)
    BY <2>2 DEF Guards
  <2>5. Guards(t) = NoGuards
    BY <1>3, <2>2, NothingSettles
  <2>6. ahead' \in [Tasks -> Seq(Steps)] /\ \A u \in Tasks : ahead'[u] = IF u = t THEN program ELSE ahead[u]
    BY <1>1, <2>1, <2>3
  <2>7. \A u \in Tasks : Settles(ahead'[u], Guards(u)', NoGuards)
    BY <1>3, <2>3, <2>4, <2>5, <2>6
  <2>8. \A l \in Lock!Locks : \A i \in 1..Len(line[l]) : line[l][i].task \in Tasks /\ line[l][i].task # t
    <3> SUFFICES ASSUME NEW l \in Lock!Locks, NEW i \in 1..Len(line[l])
                 PROVE  line[l][i].task \in Tasks /\ line[l][i].task # t
      OBVIOUS
    <3>1. line[l] \in Seq(Requests)
      BY <1>1
    <3>2. line[l][i] \in Requests
      BY <3>1
    <3> QED
      BY <1>4, <2>2, <3>2 DEF Requests
  <2>9. \A l \in Lock!Locks : \A i \in 1..Len(line[l]) : ahead'[line[l][i].task] = ahead[line[l][i].task]
    BY <2>6, <2>8
  <2>10. OwnerInv' /\ GuardInv'
    BY <1>2, <2>2, <2>7 DEF OwnerInv, GuardInv
  <2>11. LineInv'
    <3> SUFFICES ASSUME NEW l \in Lock!Locks, NEW i \in 1..Len(line[l])
                 PROVE  /\ ahead'[line[l][i].task] # << >>
                        /\ Head(ahead'[line[l][i].task]) = [do |-> line[l][i].do, lock |-> l]
                        /\ \A j \in 1..Len(line[l]) : line[l][i].task = line[l][j].task => i = j
      BY <2>2 DEF LineInv
    <3> QED
      BY <1>4, <2>9
  <2> QED
    BY <1>1, <2>2, <2>6, <2>10, <2>11 DEF LockInv
<1>7. ASSUME NEW t \in Tasks, Lock!Request(t) PROVE LockInv'
  <2> DEFINE e == Head(ahead[t])
             q == [task |-> t, do |-> e.do]
  <2>1. /\ ahead[t] # << >> /\ e.do \in {"read", "write"}
        /\ line' = [line EXCEPT ![e.lock] = Append(@, q)] /\ UNCHANGED <<ahead, reads, owner>>
        /\ \A l \in Lock!Locks : \A i \in 1..Len(line[l]) : line[l][i].task # t
    BY <1>7 DEF Lock!Request, Lock!Waiting
  <2>2. e \in Steps /\ e.lock \in Lock!Locks /\ q \in Requests /\ e = [do |-> e.do, lock |-> e.lock]
    <3>1. ahead[t] \in Seq(Steps)
      BY <1>1
    <3>2. e \in Steps
      BY <2>1, <3>1, HeadTailProperties
    <3> HIDE DEF e
    <3> QED
      BY <2>1, <3>2 DEF Steps, Requests
  <2>3. \A u \in Tasks : Guards(u)' = Guards(u)
    BY <2>1 DEF Guards
  <2> HIDE DEF e
  <2>4. line' \in [Lock!Locks -> Seq(Requests)]
    BY <1>1, <2>1, <2>2
  <2>5. ASSUME NEW l \in Lock!Locks
        PROVE  \A i \in 1..Len(line'[l]) :
                 /\ ahead[line'[l][i].task] # << >>
                 /\ Head(ahead[line'[l][i].task]) = [do |-> line'[l][i].do, lock |-> l]
                 /\ \A j \in 1..Len(line'[l]) : line'[l][i].task = line'[l][j].task => i = j
    <3>1. CASE l # e.lock
      BY <1>1, <1>4, <2>1, <3>1
    <3>2. CASE l = e.lock
      <4>1. line[l] \in Seq(Requests) /\ line'[l] = Append(line[l], q)
        BY <1>1, <2>1, <2>2, <3>2
      <4>2. /\ Len(line'[l]) = Len(line[l]) + 1 /\ Len(line[l]) \in Nat
            /\ \A i \in 1..Len(line[l]) : line'[l][i] = line[l][i]
            /\ line'[l][Len(line[l]) + 1] = q
        BY <2>2, <4>1, AppendProperties
      <4>3. q.task = t /\ q.do = e.do
        OBVIOUS
      <4> HIDE DEF q
      <4> QED
        <5> SUFFICES ASSUME NEW i \in 1..Len(line'[l])
                     PROVE  /\ ahead[line'[l][i].task] # << >>
                            /\ Head(ahead[line'[l][i].task]) = [do |-> line'[l][i].do, lock |-> l]
                            /\ \A j \in 1..Len(line'[l]) : line'[l][i].task = line'[l][j].task => i = j
          OBVIOUS
        <5>1. \A j \in 1..Len(line'[l]) : j \in 1..Len(line[l]) \/ j = Len(line[l]) + 1
          BY <4>2
        <5>2. \A j \in 1..Len(line[l]) : line'[l][j].task # t
          BY <2>1, <4>2
        <5>3. line'[l][Len(line[l]) + 1].task = t
          BY <4>2, <4>3
        <5>4. CASE i = Len(line[l]) + 1
          <6>1. line'[l][i].task = t /\ line'[l][i].do = e.do /\ Head(ahead[t]) = [do |-> e.do, lock |-> l]
            BY <2>2, <3>2, <4>2, <4>3, <5>4 DEF e
          <6> QED
            BY <2>1, <5>1, <5>2, <5>4, <6>1
        <5>5. CASE i \in 1..Len(line[l])
          <6>1. line'[l][i] = line[l][i]
            BY <4>2, <5>5
          <6>2. /\ ahead[line[l][i].task] # << >>
                /\ Head(ahead[line[l][i].task]) = [do |-> line[l][i].do, lock |-> l]
            BY <1>4, <5>5
          <6>3. ASSUME NEW j \in 1..Len(line'[l]), line'[l][i].task = line'[l][j].task PROVE i = j
            <7>1. j \in 1..Len(line[l])
              BY <5>1, <5>2, <5>3, <5>5, <6>3
            <7> QED
              BY <1>4, <4>2, <5>5, <6>1, <6>3, <7>1
          <6> QED
            BY <6>1, <6>2, <6>3
        <5> QED
          BY <5>1, <5>4, <5>5
    <3> QED
      BY <3>1, <3>2
  <2>6. \A u \in Tasks : Settles(ahead[u], Guards(u)', NoGuards)
    BY <1>3, <2>3
  <2>7. OwnerInv' /\ GuardInv'
    BY <1>2, <2>1, <2>6 DEF OwnerInv, GuardInv
  <2>8. LineInv'
    BY <2>1, <2>5 DEF LineInv
  <2> QED
    BY <1>1, <2>1, <2>4, <2>7, <2>8 DEF LockInv
<1>8. ASSUME NEW l \in Lock!Locks, Lock!Grant(l) PROVE LockInv'
  <2> DEFINE q == Head(line[l])
  <2>0. PICK t : t = q.task
    OBVIOUS
  <2>1. /\ line[l] # << >> /\ owner[l] = {} /\ (q.do = "write" => \A u \in Tasks : reads[l][u] = 0)
        /\ IF q.do = "read" THEN reads' = [reads EXCEPT ![l][t] = @ + 1] /\ owner' = owner
           ELSE owner' = [owner EXCEPT ![l] = {t}] /\ reads' = reads
        /\ ahead' = [ahead EXCEPT ![t] = Tail(@)] /\ line' = [line EXCEPT ![l] = Tail(@)]
    BY <1>8, <2>0 DEF Lock!Grant, Lock!Compatible
  <2>2. /\ line[l] \in Seq(Requests) /\ q = line[l][1] /\ 1 \in 1..Len(line[l]) /\ q \in Requests
        /\ Tail(line[l]) \in Seq(Requests) /\ Len(Tail(line[l])) = Len(line[l]) - 1
        /\ \A i \in 1..Len(Tail(line[l])) : Tail(line[l])[i] = line[l][i + 1]
        /\ Len(line[l]) \in Nat
    BY <1>1, <2>1, HeadTailProperties, LenProperties, EmptySeq
  <2> HIDE DEF q
  <2>3. /\ t \in Tasks /\ q.do \in {"read", "write"}
        /\ ahead[t] # << >> /\ Head(ahead[t]) = [do |-> q.do, lock |-> l]
        /\ \A j \in 1..Len(line[l]) : line[l][j].task = t => j = 1
    <3>1. t \in Tasks /\ q.do \in {"read", "write"}
      BY <2>0, <2>2 DEF Requests
    <3>2. /\ ahead[line[l][1].task] # << >>
          /\ Head(ahead[line[l][1].task]) = [do |-> line[l][1].do, lock |-> l]
          /\ \A j \in 1..Len(line[l]) : line[l][1].task = line[l][j].task => 1 = j
      BY <1>4, <2>2
    <3> QED
      BY <2>0, <2>2, <3>1, <3>2
  <2>4. PICK y : Moves(Head(ahead[t]), Guards(t), y) /\ Settles(Tail(ahead[t]), y, NoGuards)
    BY <1>1, <1>3, <2>3, SettlesAfter
  <2>5. /\ ahead' \in [Tasks -> Seq(Steps)] /\ line' \in [Lock!Locks -> Seq(Requests)]
        /\ \A u \in Tasks : ahead'[u] = IF u = t THEN Tail(ahead[t]) ELSE ahead[u]
        /\ \A k \in Lock!Locks : line'[k] = IF k = l THEN Tail(line[l]) ELSE line[k]
    <3>1. Tail(ahead[t]) \in Seq(Steps)
      BY <1>1, <2>3, HeadTailProperties
    <3> QED
      BY <1>1, <2>1, <2>2, <2>3, <3>1
  <2>6. /\ reads' \in [Lock!Locks -> [Tasks -> Nat]] /\ owner' \in [Lock!Locks -> SUBSET Tasks]
        /\ \A k \in Lock!Locks : owner'[k] # {} => /\ \E u \in Tasks : owner'[k] = {u}
                                                  /\ \A u \in Tasks : reads'[k][u] = 0
    <3>1. CASE q.do = "read"
      <4>1. reads' = [reads EXCEPT ![l][t] = @ + 1] /\ owner' = owner
        BY <2>1, <3>1
      <4>2. reads' \in [Lock!Locks -> [Tasks -> Nat]] /\ \A k \in Lock!Locks : k # l => reads'[k] = reads[k]
        BY <1>1, <2>3, <4>1
      <4> QED
        BY <1>1, <1>2, <2>1, <4>1, <4>2
    <3>2. CASE q.do = "write"
      <4>1. owner' = [owner EXCEPT ![l] = {t}] /\ reads' = reads /\ \A u \in Tasks : reads[l][u] = 0
        BY <2>1, <3>2
      <4>2. /\ owner' \in [Lock!Locks -> SUBSET Tasks] /\ owner'[l] = {t}
            /\ \A k \in Lock!Locks : k # l => owner'[k] = owner[k]
        BY <1>1, <2>3, <4>1
      <4> QED
        BY <1>1, <1>2, <2>3, <4>1, <4>2
    <3> QED
      BY <2>3, <3>1, <3>2
  <2>7. y = [Guards(t) EXCEPT ![l] = @ + 1]
    BY <2>3, <2>4 DEF Moves
  <2>8. Guards(t)' = y
    <3>1. /\ \A k \in Lock!Locks : k # l => owner'[k] = owner[k] /\ reads'[k] = reads[k]
          /\ reads'[l][t] + (IF t \in owner'[l] THEN 1 ELSE 0)
               = (reads[l][t] + IF t \in owner[l] THEN 1 ELSE 0) + 1
      <4>1. CASE q.do = "read"
        <5>1. reads' = [reads EXCEPT ![l][t] = @ + 1] /\ owner' = owner
          BY <2>1, <4>1
        <5>2. reads'[l][t] = reads[l][t] + 1 /\ reads[l][t] \in Nat
              /\ \A k \in Lock!Locks : k # l => reads'[k] = reads[k]
          BY <1>1, <2>3, <5>1
        <5> QED
          BY <2>1, <5>1, <5>2
      <4>2. CASE q.do = "write"
        <5>1. owner' = [owner EXCEPT ![l] = {t}] /\ reads' = reads /\ reads[l][t] = 0
          BY <2>1, <2>3, <4>2
        <5>2. owner'[l] = {t} /\ \A k \in Lock!Locks : k # l => owner'[k] = owner[k]
          BY <1>1, <5>1
        <5> QED
          BY <2>1, <5>1, <5>2
      <4> QED
        BY <2>3, <4>1, <4>2
    <3>2. /\ DOMAIN y = Lock!Locks /\ y[l] = Guards(t)[l] + 1
          /\ \A k \in Lock!Locks : k # l => y[k] = Guards(t)[k]
      BY <2>7 DEF Guards
    <3>3. \A k \in Lock!Locks : y[k] = Guards(t)'[k]
      BY <3>1, <3>2 DEF Guards
    <3>4. y = [k \in Lock!Locks |-> y[k]]
      BY <2>7 DEF Guards
    <3>5. Guards(t)' = [k \in Lock!Locks |-> Guards(t)'[k]]
      BY DEF Guards
    <3> QED
      BY <3>3, <3>4, <3>5
  <2>9. \A u \in Tasks : u # t => Guards(u)' = Guards(u)
    <3>1. \A u \in Tasks : u # t => \A k \in Lock!Locks : reads'[k][u] = reads[k][u]
                                                       /\ (u \in owner'[k] <=> u \in owner[k])
      <4>1. CASE q.do = "read"
        <5>1. reads' = [reads EXCEPT ![l][t] = @ + 1] /\ owner' = owner
          BY <2>1, <4>1
        <5> QED
          BY <1>1, <2>3, <5>1
      <4>2. CASE q.do = "write"
        <5>1. owner' = [owner EXCEPT ![l] = {t}] /\ reads' = reads
          BY <2>1, <4>2
        <5>2. owner'[l] = {t} /\ owner[l] = {} /\ \A k \in Lock!Locks : k # l => owner'[k] = owner[k]
          BY <1>1, <2>1, <5>1
        <5> QED
          BY <5>1, <5>2
      <4> QED
        BY <2>3, <4>1, <4>2
    <3> QED
      BY <3>1 DEF Guards
  <2>10. \A u \in Tasks : Settles(ahead'[u], Guards(u)', NoGuards)
    <3> SUFFICES ASSUME NEW u \in Tasks PROVE Settles(ahead'[u], Guards(u)', NoGuards)
      OBVIOUS
    <3>1. CASE u = t
      <4>1. Settles(ahead'[t], Guards(t)', NoGuards)
        BY <2>3, <2>4, <2>5, <2>8
      <4> QED
        BY <3>1, <4>1
    <3>2. CASE u # t
      BY <1>3, <2>5, <2>9, <3>2
    <3> QED
      BY <3>1, <3>2
  <2>11. ASSUME NEW k \in Lock!Locks, NEW i \in 1..Len(line'[k])
         PROVE  /\ ahead'[line'[k][i].task] # << >>
                /\ Head(ahead'[line'[k][i].task]) = [do |-> line'[k][i].do, lock |-> k]
                /\ \A j \in 1..Len(line'[k]) : line'[k][i].task = line'[k][j].task => i = j
    <3>1. CASE k = l
      <4>1. /\ line'[k] = Tail(line[l]) /\ i + 1 \in 1..Len(line[l]) /\ i + 1 # 1
            /\ line'[k][i] = line[l][i + 1]
            /\ \A j \in 1..Len(line'[k]) : j + 1 \in 1..Len(line[l]) /\ line'[k][j] = line[l][j + 1]
        <5>1. line'[k] = Tail(line[l]) /\ Len(line'[k]) = Len(line[l]) - 1 /\ Len(line[l]) \in Nat
          BY <2>2, <2>5, <3>1
        <5>2. \A j \in 1..Len(line'[k]) : j + 1 \in 1..Len(line[l]) /\ j + 1 # 1
          BY <5>1
        <5> QED
          BY <2>2, <5>1, <5>2
      <4>2. line[l][i + 1].task # t /\ line[l][i + 1].task \in Tasks
        <5>1. line[l][i + 1] \in Requests
          BY <2>2, <4>1
        <5> QED
          BY <2>3, <4>1, <5>1 DEF Requests
      <4>3. ahead'[line'[k][i].task] = ahead[line[l][i + 1].task]
        BY <2>5, <4>1, <4>2
      <4>4. \A j \in 1..Len(line'[k]) : line'[k][i].task = line'[k][j].task => i = j
        <5> SUFFICES ASSUME NEW j \in 1..Len(line'[k]), line'[k][i].task = line'[k][j].task PROVE i = j
          OBVIOUS
        <5>1. j + 1 \in 1..Len(line[l]) /\ line[l][i + 1].task = line[l][j + 1].task
          BY <4>1
        <5>2. i + 1 = j + 1
          BY <1>4, <4>1, <5>1
        <5>3. i \in Nat /\ j \in Nat
          BY <2>2, <4>1
        <5> QED
          BY <5>2, <5>3
      <4>5. /\ ahead[line[l][i + 1].task] # << >>
            /\ Head(ahead[line[l][i + 1].task]) = [do |-> line[l][i + 1].do, lock |-> l]
        BY <1>4, <4>1
      <4> QED
        BY <3>1, <4>1, <4>3, <4>4, <4>5
    <3>2. CASE k # l
      <4>1. line'[k] = line[k]
        BY <2>5, <3>2
      <4>2. line[k][i].task # t /\ line[k][i].task \in Tasks
        <5>1. line[k] \in Seq(Requests) /\ i \in 1..Len(line[k])
          BY <1>1, <4>1
        <5>2. line[k][i] \in Requests
          BY <5>1
        <5>3. Head(ahead[line[k][i].task]) = [do |-> line[k][i].do, lock |-> k]
          BY <1>4, <5>1
        <5> QED
          BY <2>3, <3>2, <5>2, <5>3 DEF Requests
      <4>3. ahead'[line[k][i].task] = ahead[line[k][i].task] /\ i \in 1..Len(line[k])
        BY <2>5, <4>1, <4>2
      <4> QED
        BY <1>4, <4>1, <4>3
    <3> QED
      BY <3>1, <3>2
  <2>12. OwnerInv' /\ GuardInv'
    BY <2>6, <2>10 DEF OwnerInv, GuardInv
  <2>13. LineInv'
    BY <2>11 DEF LineInv
  <2> QED
    BY <2>5, <2>6, <2>12, <2>13 DEF LockInv
<1>9. ASSUME NEW t \in Tasks, Lock!Release(t) PROVE LockInv'
  <2> DEFINE e == Head(ahead[t])
             l == e.lock
  <2>1. /\ ahead[t] # << >> /\ e.do = "drop"
        /\ IF t \in owner[l] THEN owner' = [owner EXCEPT ![l] = {}] /\ reads' = reads
           ELSE reads' = [reads EXCEPT ![l][t] = @ - 1] /\ owner' = owner
        /\ ahead' = [ahead EXCEPT ![t] = Tail(@)] /\ line' = line
    BY <1>9 DEF Lock!Release
  <2>2. ahead[t] \in Seq(Steps) /\ e \in Steps /\ Tail(ahead[t]) \in Seq(Steps)
    BY <1>1, <2>1, HeadTailProperties
  <2>3. PICK y : Moves(e, Guards(t), y) /\ Settles(Tail(ahead[t]), y, NoGuards)
    BY <1>3, <2>1, <2>2, SettlesAfter
  <2>4. \A k \in Lock!Locks : \A i \in 1..Len(line[k]) : line[k][i].task \in Tasks /\ line[k][i].task # t
    <3> SUFFICES ASSUME NEW k \in Lock!Locks, NEW i \in 1..Len(line[k])
                 PROVE  line[k][i].task \in Tasks /\ line[k][i].task # t
      OBVIOUS
    <3>1. line[k] \in Seq(Requests)
      BY <1>1
    <3>2. line[k][i] \in Requests
      BY <3>1
    <3>3. Head(ahead[line[k][i].task]) = [do |-> line[k][i].do, lock |-> k]
      BY <1>4
    <3> QED
      BY <2>1, <3>2, <3>3 DEF Requests
  <2> HIDE DEF e
  <2>5. l \in Lock!Locks
    BY <2>2 DEF Steps
  <2> HIDE DEF l
  <2>6. Guards(t)[l] > 0 /\ y = [Guards(t) EXCEPT ![l] = @ - 1]
    BY <2>1, <2>3 DEF Moves, l
  <2>7. ahead' \in [Tasks -> Seq(Steps)] /\ \A u \in Tasks : ahead'[u] = IF u = t THEN Tail(ahead[t]) ELSE ahead[u]
    BY <1>1, <2>1, <2>2
  <2>8. LineInv'
    <3>1. \A k \in Lock!Locks : \A i \in 1..Len(line[k]) :
            ahead'[line[k][i].task] = ahead[line[k][i].task]
      BY <2>4, <2>7
    <3> SUFFICES ASSUME NEW k \in Lock!Locks, NEW i \in 1..Len(line[k])
                 PROVE  /\ ahead'[line[k][i].task] # << >>
                        /\ Head(ahead'[line[k][i].task]) = [do |-> line[k][i].do, lock |-> k]
                        /\ \A j \in 1..Len(line[k]) : line[k][i].task = line[k][j].task => i = j
      BY <2>1 DEF LineInv
    <3> QED
      BY <1>4, <3>1
  <2>9. ASSUME Guards(t)'[l] = Guards(t)[l] - 1,
                \A k \in Lock!Locks : k # l => Guards(t)'[k] = Guards(t)[k]
         PROVE  Guards(t)' = y
    <3>1. /\ DOMAIN y = Lock!Locks /\ y[l] = Guards(t)[l] - 1
          /\ \A k \in Lock!Locks : k # l => y[k] = Guards(t)[k]
      BY <2>5, <2>6 DEF Guards
    <3>2. y = [k \in Lock!Locks |-> y[k]]
      BY <2>6 DEF Guards
    <3>3. \A k \in Lock!Locks : y[k] = Guards(t)'[k]
      BY <2>9, <3>1
    <3>4. Guards(t)' = [k \in Lock!Locks |-> Guards(t)'[k]]
      BY DEF Guards
    <3> QED
      BY <3>2, <3>3, <3>4
  <2>10. CASE t \in owner[l]
    <3>1. owner' = [owner EXCEPT ![l] = {}] /\ reads' = reads
      BY <2>1, <2>10
    <3>2. owner[l] = {t} /\ reads[l][t] = 0
      BY <1>2, <2>5, <2>10
    <3>3. /\ owner' \in [Lock!Locks -> SUBSET Tasks] /\ owner'[l] = {}
          /\ \A k \in Lock!Locks : k # l => owner'[k] = owner[k]
      BY <1>1, <2>5, <3>1
    <3>4. Guards(t)' = y
      <4>1. Guards(t)[l] = 1 /\ \A k \in Lock!Locks : k # l => Guards(t)'[k] = Guards(t)[k]
        BY <2>5, <3>1, <3>2, <3>3 DEF Guards
      <4>2. Guards(t)'[l] = 0
        BY <2>5, <3>1, <3>2, <3>3 DEF Guards
      <4> QED
        BY <2>9, <2>5, <4>1, <4>2
    <3>5. \A u \in Tasks : u # t => Guards(u)' = Guards(u)
      <4>1. \A u \in Tasks : u # t => \A k \in Lock!Locks : u \in owner'[k] <=> u \in owner[k]
        BY <3>2, <3>3
      <4> QED
        BY <3>1, <4>1 DEF Guards
    <3>6. \A u \in Tasks : Settles(ahead'[u], Guards(u)', NoGuards)
      BY <1>3, <2>3, <2>7, <3>4, <3>5
    <3>7. \A k \in Lock!Locks : owner'[k] # {} => /\ \E u \in Tasks : owner'[k] = {u}
                                                /\ \A u \in Tasks : reads'[k][u] = 0
      BY <1>2, <3>1, <3>3
    <3>8. OwnerInv' /\ GuardInv'
      BY <3>6, <3>7 DEF OwnerInv, GuardInv
    <3> QED
      BY <1>1, <2>1, <2>7, <2>8, <3>1, <3>3, <3>8 DEF LockInv
  <2>11. CASE t \notin owner[l]
    <3>1. reads' = [reads EXCEPT ![l][t] = @ - 1] /\ owner' = owner
      BY <2>1, <2>11
    <3>2. reads[l][t] \in Nat /\ reads[l][t] > 0
      BY <1>1, <2>5, <2>6, <2>11 DEF Guards
    <3>3. /\ reads' \in [Lock!Locks -> [Tasks -> Nat]] /\ reads'[l][t] = reads[l][t] - 1
          /\ \A k \in Lock!Locks : \A u \in Tasks : k # l \/ u # t => reads'[k][u] = reads[k][u]
      <4>1. reads[l][t] - 1 \in Nat
        BY <3>2
      <4> QED
        BY <1>1, <2>5, <3>1, <4>1
    <3>4. Guards(t)' = y
      <4>1. Guards(t)[l] = reads[l][t] /\ \A k \in Lock!Locks : k # l => Guards(t)'[k] = Guards(t)[k]
        BY <2>5, <2>11, <3>1, <3>2, <3>3 DEF Guards
      <4>2. Guards(t)'[l] = reads[l][t] - 1
        BY <2>5, <2>11, <3>1, <3>2, <3>3 DEF Guards
      <4> QED
        BY <2>9, <2>5, <4>1, <4>2
    <3>5. \A u \in Tasks : u # t => Guards(u)' = Guards(u)
      BY <3>1, <3>3 DEF Guards
    <3>6. \A u \in Tasks : Settles(ahead'[u], Guards(u)', NoGuards)
      BY <1>3, <2>3, <2>7, <3>4, <3>5
    <3>7. \A k \in Lock!Locks : owner'[k] # {} => \A u \in Tasks : reads'[k][u] = 0
      <4>1. owner[l] = {}
        BY <1>2, <2>5, <3>2
      <4> QED
        BY <1>2, <3>1, <3>3, <4>1
    <3>8. OwnerInv' /\ GuardInv'
      BY <1>2, <3>1, <3>6, <3>7 DEF OwnerInv, GuardInv
    <3> QED
      BY <1>1, <2>1, <2>7, <2>8, <3>1, <3>3, <3>8 DEF LockInv
  <2> QED
    BY <2>10, <2>11
<1> QED
  BY <1>5, <1>6, <1>7, <1>8, <1>9 DEF Lock!Next

-----------------------------------------------------------------------------
(* Types of the variables.                                                 *)

unborn == v6
left == v9

\* Nothing is killed, or exits as killed, before the group is.
HelmTypes ==
  Helm!TypeOK /\ (step \in {"start", "poll", "decide", "kill"} => killed = {} /\ exit # "killed")

LEMMA HelmTypedInitially == Helm!Init => HelmTypes
<1> USE DEF step, status, verdict, alive, killed, unborn, exit, release, left, pipe, output, wrote,
     stop, late
<1>1. 0 \in 0..Room /\ 0 \in 0..OutputLimit
  BY HelmHelmBoundsAssumption DEF Helm!HelmBoundsAssumption
<1> QED
  BY <1>1 DEF Helm!Init, HelmTypes, Helm!TypeOK

LEMMA HelmTypedKept == ASSUME HelmTypes, Helm!HelmInv, [Helm!Next]_(Helm!helmVars) PROVE HelmTypes'
<1> USE DEF step, status, verdict, alive, killed, unborn, exit, release, left, pipe, output, wrote,
     stop, late
<1>0. Room \in Nat /\ OutputLimit \in Nat /\ MaxOutput \in Nat
  BY HelmHelmBoundsAssumption DEF Helm!HelmBoundsAssumption
<1>1. /\ Helm!TypeOK
      /\ step \in {"start", "poll", "decide", "kill"} => killed = {} /\ exit # "killed"
  BY DEF HelmTypes, Helm!HelmInv, Helm!GroupInv
<1>2. CASE UNCHANGED Helm!helmVars
  BY <1>1, <1>2 DEF Helm!helmVars, Helm!group, Helm!pipes, HelmTypes, Helm!TypeOK
<1>3. ASSUME NEW p \in Helm!Processes, NEW c \in Helm!Pipes, Helm!Write(p, c) PROVE HelmTypes'
  <2>1. /\ left' = [left EXCEPT ![p] = @ - 1] /\ pipe' = [pipe EXCEPT ![c] = @ + 1]
        /\ left[p] > 0 /\ pipe[c] < Room /\ UNCHANGED <<step, status, verdict, alive, killed, unborn,
             exit, release, output, stop, late>>
    BY <1>3 DEF Helm!Write
  <2>2. left[p] - 1 \in 0..MaxOutput /\ pipe[c] + 1 \in 0..Room
    BY <1>0, <1>1, <2>1 DEF Helm!TypeOK
  <2>3. left' \in [Helm!Processes -> 0..MaxOutput] /\ pipe' \in [Helm!Pipes -> 0..Room]
    BY <1>1, <2>1, <2>2 DEF Helm!TypeOK
  <2> QED
    BY <1>1, <2>1, <2>3 DEF HelmTypes, Helm!TypeOK
<1>4. ASSUME NEW c \in Helm!Pipes, Helm!Drain(c) PROVE HelmTypes'
  <2>1. /\ pipe' = [pipe EXCEPT ![c] = @ - 1] /\ pipe[c] > 0
        /\ output' = [output EXCEPT ![c] = IF @ < OutputLimit THEN @ + 1 ELSE @]
        /\ UNCHANGED <<step, status, verdict, alive, killed, unborn, exit, release, left, stop, late>>
    BY <1>4 DEF Helm!Drain, Helm!group
  <2>2. /\ pipe[c] - 1 \in 0..Room
        /\ (IF output[c] < OutputLimit THEN output[c] + 1 ELSE output[c]) \in 0..OutputLimit
    BY <1>0, <1>1, <2>1 DEF Helm!TypeOK
  <2>3. pipe' \in [Helm!Pipes -> 0..Room] /\ output' \in [Helm!Pipes -> 0..OutputLimit]
    BY <1>1, <2>1, <2>2 DEF Helm!TypeOK
  <2> QED
    BY <1>1, <2>1, <2>3 DEF HelmTypes, Helm!TypeOK
<1>5. CASE Helm!Work \/ Helm!Stop \/ Helm!Deadline \/ \E h \in Helpers : Helm!Fork(h)
  <2>1. CASE Helm!Work
    BY <1>1, <2>1 DEF Helm!Work, Helm!pipes, HelmTypes, Helm!TypeOK
  <2>2. CASE Helm!Stop \/ Helm!Deadline
    <3>1. stop' \in BOOLEAN /\ late' \in BOOLEAN /\ UNCHANGED <<step, status, verdict, alive, killed,
            unborn, exit, release, left, pipe, output>>
      BY <1>1, <2>2 DEF Helm!Stop, Helm!Deadline, Helm!group, Helm!pipes, Helm!TypeOK
    <3> QED
      BY <1>1, <3>1 DEF HelmTypes, Helm!TypeOK
  <2>3. ASSUME NEW h \in Helpers, Helm!Fork(h) PROVE HelmTypes'
    <3>1. /\ alive' = alive \cup {h} /\ unborn' = unborn \ {h}
          /\ UNCHANGED <<step, status, verdict, killed, exit, release, left, pipe, output, stop, late>>
      BY <2>3 DEF Helm!Fork, Helm!pipes
    <3>2. alive' \subseteq Helm!Processes /\ unborn' \subseteq Helpers
      BY <1>1, <3>1 DEF Helm!Processes, Helm!TypeOK
    <3> QED
      BY <1>1, <3>1, <3>2 DEF HelmTypes, Helm!TypeOK
  <2> QED
    BY <1>5, <2>1, <2>2, <2>3
<1>6. ASSUME NEW p \in Helm!Processes, Helm!Exit(p) \/ Helm!Die(p) PROVE HelmTypes'
  BY <1>1, <1>6 DEF Helm!Exit, Helm!Die, Helm!Runs, Helm!pipes, HelmTypes, Helm!TypeOK
<1>7. CASE Helm!Spawn \/ Helm!TryWait \/ Helm!Decide
  BY <1>1, <1>7 DEF Helm!Spawn, Helm!TryWait, Helm!Decide, Helm!group, Helm!pipes, Helm!Processes,
    HelmTypes, Helm!TypeOK
<1>8. CASE Helm!Kill
  BY <1>1, <1>8 DEF Helm!Kill, Helm!group, Helm!pipes, HelmTypes, Helm!TypeOK
<1>9. CASE Helm!Reap \/ Helm!Join
  BY <1>1, <1>9 DEF Helm!Reap, Helm!Join, Helm!Goes, Helm!group, Helm!pipes, HelmTypes, Helm!TypeOK
<1> QED
  BY <1>2, <1>3, <1>4, <1>5, <1>6, <1>7, <1>8, <1>9 DEF Helm!Next, Helm!Caller

\* Spec: the variables of the chosen component keep their types; of the locks that is also that
\* a guard is dropped only by who holds it, and that who holds one exclusively holds it alone.
THEOREM WorkerTypesHold == Spec => []TypeOK
<1> DEFINE Inv == /\ part = "pod" => StreamInv /\ RowsInv /\ UsedInv
                  /\ part \in Tasks => LockInv
                  /\ part = "scaling" => Ha!SurvivorInv /\ Ha!SizeInv /\ Ha!RestInv
                  /\ part = "helm" => Helm!HelmInv /\ HelmTypes
<1>0. /\ "pod" # "helm" /\ "pod" # "scaling" /\ "scaling" # "helm"
      /\ "pod" \notin Tasks /\ "scaling" \notin Tasks /\ "helm" \notin Tasks
  BY LockTasksAssumption DEF Lock!TasksAssumption, Lock!AllTasks
<1>1. Init => Inv
  <2>1. Ha!Init => Ha!SurvivorInv /\ Ha!SizeInv /\ Ha!RestInv
    BY Ha!SurvivorInitially, Ha!SizeInitially, Ha!RestInitially, HaNoNodeAssumption,
      HaInstancesAssumption, HaNodesAssumption
  <2> QED
    BY <1>0, <2>1, WatchInitially, LockInitially, HelmInitially, HelmTypedInitially DEF Init
<1>2. Inv /\ [Next]_vars => Inv'
  <2> SUFFICES ASSUME Inv, [Next]_vars PROVE Inv'
    OBVIOUS
  <2>1. part' = part
    BY PartIsKept
  <2>2. ASSUME part = "pod" PROVE (StreamInv /\ RowsInv /\ UsedInv)'
    <3>1. [Pod!Next]_(Pod!vars)
      BY <1>0, <2>2 DEF Next, vars, Pod!vars, Pod!kubernetes, Pod!memory, Pod!tables
    <3> QED
      BY <2>2, <3>1, StreamKept, RowsKept, UsedKept
  <2>3. ASSUME part \in Tasks PROVE LockInv'
    <3>1. [Lock!Next]_(Lock!vars)
      BY <1>0, <2>3 DEF Next, vars, Lock!vars
    <3> QED
      BY <2>3, <3>1, LockKept
  <2>4. ASSUME part = "scaling" PROVE (Ha!SurvivorInv /\ Ha!SizeInv /\ Ha!RestInv)'
    <3>1. [Ha!Next]_(Ha!vars)
      BY <2>4, ScalingSteps
    <3> QED
      BY <2>4, <3>1, Ha!SurvivorKept, Ha!SizeKept, Ha!RestKept, HaNoNodeAssumption, HaNodesAssumption
  <2>5. ASSUME part = "helm" PROVE (Helm!HelmInv /\ HelmTypes)'
    <3>1. [Helm!Next]_(Helm!helmVars)
      BY <1>0, <2>5 DEF Next, vars, Helm!helmVars, Helm!group, Helm!pipes
    <3> QED
      BY <2>5, <3>1, PipesKept, GroupKept, HelmTypedKept DEF Helm!HelmInv
  <2> QED
    BY <2>1, <2>2, <2>3, <2>4, <2>5
<1>3. Inv => TypeOK
  <2>1. StreamInv /\ RowsInv /\ UsedInv => Pod!TypeOK
    BY WatchInvIs DEF Pod!WatchInv
  <2> QED
    BY <2>1, LockInvSays, Ha!TypesTogether DEF TypeOK, HelmTypes
<1> QED
  BY <1>1, <1>2, <1>3, PTL DEF Spec

=============================================================================
