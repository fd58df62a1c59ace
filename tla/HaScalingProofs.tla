---------------------------- MODULE HaScalingProofs ---------------------------
(***************************************************************************)
(* The HA loop releases no instance without another that has a claim, and  *)
(* remembers a smaller size only after a node was lost, for any number of  *)
(* nodes, releases and instances.                                          *)
(***************************************************************************)
EXTENDS HaScaling, FiniteSetTheorems, TLAPS

-----------------------------------------------------------------------------
(* Instances.                                                              *)

LEMMA SurvivorInitially ==
  ASSUME NoNodeAssumption, InstancesAssumption, Init PROVE SurvivorInv
<1>1. PICK used \in SUBSET Nodes : claim \in [Instances -> [on : used, full : {TRUE}]]
  BY DEF Init
<1>2. claim \in [Instances -> [on : Nodes \cup {NoNode}, full : BOOLEAN]]
  BY <1>1
<1>3. Bound = Instances
  BY <1>1 DEF Bound, NoNodeAssumption
<1> QED
  BY <1>2, <1>3 DEF SurvivorInv, Init, InstancesAssumption

\* A step that neither binds nor releases a claim, or ends a release.
LEMMA SurvivorStutters ==
  ASSUME SurvivorInv, claim' = claim, lost' \subseteq lost PROVE SurvivorInv'
  BY DEF SurvivorInv, Bound

LEMMA SurvivorKept ==
  ASSUME NoNodeAssumption, SurvivorInv, [Next]_vars PROVE SurvivorInv'
<1>1. claim \in [Instances -> [on : Nodes \cup {NoNode}, full : BOOLEAN]] /\ Bound \ lost # {}
  BY DEF SurvivorInv
<1>2. CASE UNCHANGED vars
  BY <1>2, SurvivorStutters DEF vars, outside, worker
<1>3. CASE ListClaims
  <2>1. claim' = claim /\ lost' = LostInstances(list)
    BY <1>3 DEF ListClaims, outside
  <2>2. Bound \ LostInstances(list) # {}
    BY <1>1 DEF LostInstances
  <2> QED
    BY <1>1, <2>1, <2>2 DEF SurvivorInv, Bound
<1>4. ASSUME NEW i \in Instances, ReleaseInstance(i) PROVE SurvivorInv'
  <2>1. /\ i \in lost /\ lost' = lost \ {i}
        /\ claim' = [claim EXCEPT ![i] = [on |-> NoNode, full |-> FALSE]]
    BY <1>4 DEF ReleaseInstance
  <2>2. claim' \in [Instances -> [on : Nodes \cup {NoNode}, full : BOOLEAN]]
    BY <1>1, <2>1
  <2>3. \A j \in Bound \ lost : j \in Bound'
    BY <1>1, <2>1 DEF Bound
  <2> QED
    BY <1>1, <2>1, <2>2, <2>3 DEF SurvivorInv
<1>5. ASSUME NEW i \in Instances, NEW n \in Nodes, Recreate(i, n) PROVE SurvivorInv'
  <2>1. /\ claim[i].on = NoNode /\ lost' = lost
        /\ claim' = [claim EXCEPT ![i] = [on |-> n, full |-> FALSE]]
    BY <1>5 DEF Recreate, worker
  <2>2. claim' \in [Instances -> [on : Nodes \cup {NoNode}, full : BOOLEAN]]
    BY <1>1, <2>1
  <2>3. Bound \subseteq Bound'
    BY <1>1, <2>1 DEF Bound
  <2> QED
    BY <1>1, <2>1, <2>2, <2>3 DEF SurvivorInv
<1>6. ASSUME NEW i \in Instances, Clone(i) PROVE SurvivorInv'
  <2>1. claim' = [claim EXCEPT ![i].full = TRUE] /\ lost' = lost
    BY <1>6 DEF Clone, worker
  <2>2. claim' \in [Instances -> [on : Nodes \cup {NoNode}, full : BOOLEAN]]
    BY <1>1, <2>1
  <2>3. \A j \in Instances : claim'[j].on = claim[j].on
    BY <1>1, <2>1
  <2> QED
    BY <1>1, <2>1, <2>2, <2>3 DEF SurvivorInv, Bound
<1>7. CASE ReleaseFails \/ SettingFails \/ ReplaceWorker \/ ListNodes \/ Count \/ Finish
  <2>1. claim' = claim /\ lost' \subseteq lost
    BY <1>7 DEF ReleaseFails, SettingFails, ReplaceWorker, ListNodes, Count, Finish, outside
  <2> QED
    BY <2>1, SurvivorStutters
<1>8. ASSUME NEW r \in Releases, RescaleRelease(r) \/ RescaleFails(r) \/ Operate(r)
      PROVE  SurvivorInv'
  <2>1. claim' = claim /\ lost' = lost
    BY <1>8 DEF RescaleRelease, RescaleFails, Operate, worker
  <2> QED
    BY <2>1, SurvivorStutters
<1>9. ASSUME NEW n \in Nodes,
             \/ Join(n) \/ Leave(n) \/ Vanish(n) \/ ChangeHealth(n) \/ Withhold(n)
             \/ Debounce(n) \/ Grace(n)
      PROVE  SurvivorInv'
  <2>1. claim' = claim /\ lost' = lost
    BY <1>9 DEF Join, Leave, Vanish, ChangeHealth, Withhold, Debounce, Grace, SetNode, worker,
      outside
  <2> QED
    BY <2>1, SurvivorStutters
<1> QED
  BY <1>2, <1>3, <1>4, <1>5, <1>6, <1>7, <1>8, <1>9 DEF Next, Pass, Fail, Environment

-----------------------------------------------------------------------------
(* Sizes.                                                                  *)

\* A set of nodes that has grown is no smaller.
LEMMA Grown ==
  ASSUME NodesAssumption, NEW S, NEW T \in SUBSET Nodes, S \subseteq T
  PROVE  Cardinality(S) \in Nat /\ Cardinality(T) \in Nat /\ Cardinality(S) <= Cardinality(T)
<1>1. IsFiniteSet(T)
  BY FS_Subset DEF NodesAssumption
<1> QED
  BY <1>1, FS_Subset, FS_CardinalityType

LEMMA FitsStill ==
  ASSUME NodesAssumption, NEW size \in Nat, Fits(size), Kept \subseteq Kept'
  PROVE  size <= 1 \/ size <= Cardinality(Kept')
<1>1. Kept' \subseteq Nodes
  BY DEF Kept
<1>2. Cardinality(Kept) <= Cardinality(Kept')
      /\ Cardinality(Kept) \in Nat /\ Cardinality(Kept') \in Nat
  BY <1>1, Grown
<1> QED
  BY <1>2 DEF Fits

\* desired_node_count: never less than one, nor, if it is less than the old size, than
\* what is retained; and never more than what is there.
LEMMA DesiredIsBetween ==
  ASSUME NEW size \in Nat, NEW s \in Nat, NEW r \in Nat, s <= r
  PROVE  /\ DesiredNodeCount(size, s, r) \in Nat /\ DesiredNodeCount(size, s, r) >= 1
         /\ DesiredNodeCount(size, s, r) <= 1 \/ DesiredNodeCount(size, s, r) <= r
         /\ size <= 1 \/ size <= r => size <= DesiredNodeCount(size, s, r)
<1>1. PICK c : c = IF s > size THEN s ELSE IF r < size THEN r ELSE size
  OBVIOUS
<1>2. c \in Nat /\ c <= r /\ (size <= r => size <= c)
  BY <1>1
<1>3. Max({1, c}) \in {1, c} /\ Max({1, c}) >= 1 /\ Max({1, c}) >= c
  <2>1. \E x \in {1, c} : \A y \in {1, c} : x >= y
    BY <1>2
  <2> QED
    BY <2>1 DEF Max
<1>4. DesiredNodeCount(size, s, r) = Max({1, c})
  BY <1>1 DEF DesiredNodeCount
<1> QED
  BY <1>2, <1>3, <1>4

\* Some nodes are in use, and the size is their number.
LEMMA SizeInitially == ASSUME NodesAssumption, Init PROVE SizeInv
<1>1. PICK used \in SUBSET Nodes :
        /\ node = [n \in Nodes |-> IF n \in used
                     THEN [phase |-> "present", ready |-> "long", held |-> FALSE]
                     ELSE NoRecord]
        /\ applied = Cardinality(used)
  BY DEF Init
<1>2. since = [n \in Nodes |-> "no"] /\ pc = "idle" /\ list = NoList /\ desired = 1
  BY DEF Init
<1>3. node \in [Nodes -> NodeRecords] /\ list \in [Nodes -> NodeRecords]
  BY <1>1, <1>2 DEF NodeRecords, NoRecord, NoList
<1>4. Kept = used
  BY <1>1, <1>2 DEF Kept, NoRecord
<1>5. applied \in Nat
  BY <1>1, Grown
<1> QED
  BY <1>1, <1>2, <1>3, <1>4, <1>5 DEF SizeInv, Fits, Init

LEMMA SizeKept == ASSUME NodesAssumption, SizeInv, [Next]_vars PROVE SizeInv'
<1> DEFINE Typed == /\ node \in [Nodes -> NodeRecords] /\ list \in [Nodes -> NodeRecords]
                    /\ since \in [Nodes -> {"no", "new", "long"}]
                    /\ applied \in Nat /\ desired \in Nat
           StillThere == \A n \in Nodes : list[n].phase = "present" => node[n].phase = "present"
           Ahead == pc \in {"claims", "release"}
<1>1. /\ Typed /\ (lossy => ~settled)
      /\ Ahead /\ ~lossy => StillThere
      /\ pc = "rescale" /\ ~lossy => Fits(desired)
      /\ settled => Fits(applied)
      /\ settled /\ pc = "rescale" => applied <= desired
  BY DEF SizeInv
<1>2. NoList \in [Nodes -> NodeRecords]
  BY DEF NoList, NoRecord, NodeRecords
<1>3. /\ Tracked(list) \in [Nodes -> {"no", "new", "long"}]
      /\ \A n \in Nodes : Tracked(list)[n] = "long" => since[n] = "long" /\ list[n].held
  BY <1>1 DEF Tracked, Held
\* Steps that change neither nodes nor sizes.
<1>4. ASSUME UNCHANGED <<node, since, list, applied, desired, lossy, settled>>,
             pc' = pc \/ (pc = "claims" /\ pc' = "release")
      PROVE  SizeInv'
  <2>1. Kept' = Kept
    BY <1>4 DEF Kept
  <2> QED
    BY <1>1, <1>4, <2>1 DEF SizeInv, Fits
\* A pass that ends without a size.
<1>5. ASSUME UNCHANGED <<node, applied, lossy, settled>>, pc' = "idle",
             list' \in [Nodes -> NodeRecords], since' \in [Nodes -> {"no", "new", "long"}],
             \A n \in Nodes : since'[n] = "long" => since[n] = "long", desired' \in Nat
      PROVE  SizeInv'
  <2>1. Kept \subseteq Kept'
    BY <1>5 DEF Kept
  <2>2. settled => Fits(applied)'
    BY <1>1, <1>5, <2>1, FitsStill DEF Fits
  <2> QED
    BY <1>1, <1>5, <2>2 DEF SizeInv, Fits
\* A node changes, and is not lost.
<1>6. ASSUME NEW n \in Nodes, NEW record \in NodeRecords, node' = [node EXCEPT ![n] = record],
             node[n].phase = "present" => record.phase = "present",
             UNCHANGED <<since, pc, list, applied, desired, lossy, settled>>
      PROVE  SizeInv'
  <2>1. Kept \subseteq Kept'
    BY <1>1, <1>6 DEF Kept
  <2>2. (Fits(applied) => Fits(applied)') /\ (Fits(desired) => Fits(desired)')
    BY <1>1, <1>6, <2>1, FitsStill DEF Fits
  <2>3. StillThere => StillThere'
    BY <1>1, <1>6
  <2> QED
    BY <1>1, <1>6, <2>2, <2>3 DEF SizeInv, Fits
\* A node is lost.
<1>7. ASSUME lossy', ~settled', node' \in [Nodes -> NodeRecords],
             since' \in [Nodes -> {"no", "new", "long"}],
             UNCHANGED <<pc, list, applied, desired>>
      PROVE  SizeInv'
  BY <1>1, <1>7 DEF SizeInv
<1>8. CASE UNCHANGED vars
  BY <1>4, <1>8 DEF vars, outside, worker, history
<1>9. CASE ListNodes
  <2>1. /\ pc = "idle" /\ pc' = "claims" /\ list' = node
        /\ UNCHANGED <<node, since, applied, desired, settled>>
        /\ lossy' = FALSE
    BY <1>9 DEF ListNodes, outside
  <2>2. Kept' = Kept
    BY <2>1 DEF Kept
  <2> QED
    BY <1>1, <2>1, <2>2 DEF SizeInv, Fits
<1>10. CASE ListClaims \/ ReleaseFails \/ \E i \in Instances : ReleaseInstance(i) \/ Clone(i)
  BY <1>4, <1>10 DEF ListClaims, ReleaseFails, ReleaseInstance, Clone, outside, worker, history
<1>11. CASE \E i \in Instances, n \in Nodes : Recreate(i, n)
  BY <1>4, <1>11 DEF Recreate, outside, worker, history
<1>12. CASE \E r \in Releases : RescaleRelease(r) \/ RescaleFails(r) \/ Operate(r)
  BY <1>4, <1>12 DEF RescaleRelease, RescaleFails, Operate, Resized, outside, worker, history
<1>13. CASE Count
  <2>1. PICK schedulable, retained :
          /\ schedulable = Schedulable(list)
          /\ retained = Retained(list, {n \in Nodes : since'[n] = "long"})
    OBVIOUS
  <2>2. /\ pc = "release" /\ pc' = "rescale" /\ since' = Tracked(list) /\ list' = NoList
        /\ UNCHANGED <<node, applied, lossy, settled>>
        /\ desired' = DesiredNodeCount(applied, Cardinality(schedulable), Cardinality(retained))
    BY <1>13, <2>1 DEF Count, Observe, outside, history
  <2>3. retained = {n \in Nodes : list[n].phase = "present" /\ since'[n] # "long"}
    BY <1>3, <2>1, <2>2 DEF Retained
  <2>4. schedulable \subseteq retained /\ Kept \subseteq retained /\ Kept \subseteq Kept'
    BY <1>1, <1>3, <2>1, <2>2, <2>3 DEF Schedulable, Kept
  <2>5. /\ Cardinality(schedulable) \in Nat /\ Cardinality(retained) \in Nat
        /\ Cardinality(schedulable) <= Cardinality(retained)
    BY <2>3, <2>4, Grown
  <2>6. /\ desired' \in Nat
        /\ desired' <= 1 \/ desired' <= Cardinality(retained)
        /\ applied <= 1 \/ applied <= Cardinality(retained) => applied <= desired'
    BY <1>1, <2>2, <2>5, DesiredIsBetween
  <2>7. ~lossy => Fits(desired)'
    <3>1. ~lossy => retained \subseteq Kept'
      BY <1>1, <2>2, <2>3 DEF Kept
    <3>2. Kept' \subseteq Nodes
      BY DEF Kept
    <3>3. ~lossy => Cardinality(retained) <= Cardinality(Kept') /\ Cardinality(Kept') \in Nat
      BY <3>1, <3>2, Grown
    <3> QED
      BY <2>5, <2>6, <3>3 DEF Fits
  <2>8. settled => Fits(applied)' /\ applied <= desired'
    <3>1. retained \in SUBSET Nodes
      BY <2>3
    <3>2. /\ Cardinality(Kept) <= Cardinality(retained) /\ Cardinality(Kept) \in Nat
      BY <2>4, <3>1, Grown
    <3>3. settled => applied <= 1 \/ applied <= Cardinality(retained)
      BY <1>1, <2>5, <3>2 DEF Fits
    <3> QED
      BY <1>1, <2>2, <2>4, <2>6, <3>3, FitsStill DEF Fits
  <2> QED
    BY <1>1, <1>2, <1>3, <2>2, <2>6, <2>7, <2>8 DEF SizeInv, Fits
<1>14. CASE Finish
  <2>1. /\ pc = "rescale" /\ pc' = "idle" /\ UNCHANGED <<node, since, list>>
        /\ applied' = (IF failed THEN applied ELSE desired) /\ desired' = 1
        /\ lossy' = lossy /\ settled' = (settled \/ ~(failed \/ lossy))
    BY <1>14 DEF Finish, outside
  <2>2. Kept' = Kept
    BY <2>1 DEF Kept
  <2>3. settled' => Fits(applied')
    BY <1>1, <2>1 DEF Fits
  <2> QED
    BY <1>1, <2>1, <2>2, <2>3 DEF SizeInv, Fits
<1>15. CASE SettingFails
  <2>1. /\ pc' = "idle" /\ UNCHANGED <<node, applied, lossy, settled>>
        /\ \/ since' = Tracked(list) /\ list' = NoList /\ desired' = desired
           \/ desired' = 1 /\ UNCHANGED <<since, list>>
    BY <1>15 DEF SettingFails, Observe, outside, history
  <2> QED
    BY <1>1, <1>2, <1>3, <1>5, <2>1
<1>16. CASE ReplaceWorker
  <2>1. /\ pc' = "idle" /\ UNCHANGED <<node, applied, lossy, settled>>
        /\ since' = [n \in Nodes |-> "no"] /\ list' = NoList /\ desired' = 1
    BY <1>16 DEF ReplaceWorker, history
  <2> QED
    BY <1>2, <1>5, <2>1
<1>17. ASSUME NEW n \in Nodes, Join(n) \/ Vanish(n) \/ ChangeHealth(n) \/ Withhold(n) \/ Debounce(n)
       PROVE  SizeInv'
  <2>1. UNCHANGED <<since, pc, list, applied, desired, lossy, settled>>
    BY <1>17 DEF Join, Vanish, ChangeHealth, Withhold, Debounce, SetNode, worker, history
  <2>2. \E record \in NodeRecords :
          /\ node' = [node EXCEPT ![n] = record]
          /\ node[n].phase = "present" => record.phase = "present"
    <3>1. CASE Join(n) \/ Vanish(n)
      <4>1. /\ NoRecord \in NodeRecords
            /\ [phase |-> "present", ready |-> "new", held |-> FALSE] \in NodeRecords
        BY DEF NoRecord, NodeRecords
      <4> QED
        BY <3>1, <4>1 DEF Join, Vanish, SetNode
    <3>2. CASE ChangeHealth(n) \/ Withhold(n) \/ Debounce(n)
      <4>1. PICK record : /\ node' = [node EXCEPT ![n] = record]
                          /\ \/ record = [node[n] EXCEPT !.ready = IF @ = "no" THEN "new" ELSE "no"]
                             \/ record = [node[n] EXCEPT !.held = ~@]
                             \/ record = [node[n] EXCEPT !.ready = "long"]
        BY <3>2 DEF ChangeHealth, Withhold, Debounce, SetNode
      <4>2. PICK old \in NodeRecords : old = node[n]
        BY <1>1
      <4>3. ASSUME NEW ready \in {"no", "new", "long"}, record = [old EXCEPT !.ready = ready]
            PROVE  record \in NodeRecords /\ record.phase = old.phase
        BY <4>3 DEF NodeRecords
      <4>4. ASSUME record = [old EXCEPT !.held = ~@]
            PROVE  record \in NodeRecords /\ record.phase = old.phase
        BY <4>4 DEF NodeRecords
      <4>5. record \in NodeRecords /\ record.phase = old.phase
        BY <4>1, <4>2, <4>3, <4>4
      <4> QED
        BY <4>1, <4>2, <4>5
    <3> QED
      BY <1>17, <3>1, <3>2
  <2> QED
    BY <1>6, <2>1, <2>2
<1>18. ASSUME NEW n \in Nodes, Leave(n) \/ Grace(n) PROVE SizeInv'
  <2>1. lossy' /\ ~settled' /\ UNCHANGED <<pc, list, applied, desired>>
    BY <1>18 DEF Leave, Grace, Lose, SetNode, worker
  <2>2. NoRecord \in NodeRecords /\ [node[n] EXCEPT !.phase = "deleting"] \in NodeRecords
    BY <1>1 DEF NoRecord, NodeRecords
  <2>3. node' \in [Nodes -> NodeRecords]
    BY <1>1, <1>18, <2>2 DEF Leave, Grace, SetNode, outside
  <2>4. since' \in [Nodes -> {"no", "new", "long"}]
    BY <1>1, <1>18 DEF Leave, Grace, SetNode, worker
  <2> QED
    BY <1>7, <2>1, <2>3, <2>4
<1> QED
  BY <1>8, <1>9, <1>10, <1>11, <1>12, <1>13, <1>14, <1>15, <1>16, <1>17, <1>18
    DEF Next, Pass, Fail, Environment

\* Only Finish changes the size that is remembered.
LEMMA SizeShrinksOnly == ASSUME SizeInv, [Next]_vars PROVE SizeShrinksOnlyForLoss
<1>1. applied' = applied \/ Finish
  BY DEF Next, Pass, Fail, Environment, ListNodes, ListClaims, Count, ReleaseInstance,
    RescaleRelease, ReleaseFails, SettingFails, ReplaceWorker, RescaleFails, Join, Leave, Vanish,
    ChangeHealth, Withhold, Debounce, Grace, Recreate, Clone, Operate, SetNode, vars
<1> QED
  BY <1>1 DEF SizeInv, SizeShrinksOnlyForLoss, Finish

-----------------------------------------------------------------------------
(* Types of the variables.                                                 *)

ReleaseRecords == [status : {"deployed", "failed"}, count : Sizes] \cup {NotInstalled}

\* What SurvivorInv and SizeInv do not say of them.
RestInv ==
  /\ rel \in [Releases -> ReleaseRecords]
  /\ applied \in Sizes /\ desired \in Sizes
  /\ pc \in {"idle", "claims", "release", "rescale"}
  /\ lost \subseteq Instances /\ todo \subseteq Releases /\ firm \subseteq Releases
  /\ failed \in BOOLEAN /\ lossy \in BOOLEAN /\ settled \in BOOLEAN
  /\ changes \in Nat /\ faults \in Nat

LEMMA TypesTogether == SurvivorInv /\ SizeInv /\ RestInv => TypeOK
  BY DEF SurvivorInv, SizeInv, RestInv, ReleaseRecords, TypeOK

\* There are some nodes, and no more are in use.
LEMMA RestInitially == ASSUME NodesAssumption, Init PROVE RestInv
<1>1. PICK used \in SUBSET Nodes : used # {} /\ applied = Cardinality(used)
  BY DEF Init
<1>2. /\ rel = [r \in Releases |-> [status |-> "deployed", count |-> applied]]
      /\ pc = "idle" /\ lost = {} /\ desired = 1 /\ todo = {} /\ failed = FALSE /\ lossy = FALSE
      /\ firm = Releases /\ settled = TRUE /\ changes = 0 /\ faults = 0
  BY DEF Init
<1>3. IsFiniteSet(used)
  BY FS_Subset DEF NodesAssumption
<1>4. /\ Cardinality(used) \in Nat /\ Cardinality(Nodes) \in Nat
      /\ Cardinality(used) <= Cardinality(Nodes) /\ Cardinality(used) # 0
  BY <1>1, <1>3, Grown, FS_EmptySet, FS_CardinalityType
<1>5. applied \in Sizes /\ 1 \in Sizes
  BY <1>1, <1>4 DEF Sizes
<1>6. rel \in [Releases -> ReleaseRecords]
  BY <1>2, <1>5 DEF ReleaseRecords
<1> QED
  BY <1>2, <1>5, <1>6 DEF RestInv

LEMMA RestKept == ASSUME NodesAssumption, SizeInv, RestInv, [Next]_vars PROVE RestInv'
<1>1. /\ rel \in [Releases -> ReleaseRecords] /\ applied \in Sizes /\ desired \in Sizes
      /\ 1 \in Sizes /\ changes \in Nat /\ faults \in Nat
  <2>1. Cardinality(Nodes) \in Nat
    BY FS_CardinalityType DEF NodesAssumption
  <2> QED
    BY <2>1 DEF RestInv, Sizes
\* Steps that leave the releases and the size that is remembered.
<1>2. ASSUME UNCHANGED <<rel, applied, changes>>, faults' \in Nat, desired' \in Sizes,
             pc' \in {"idle", "claims", "release", "rescale"}, failed' \in BOOLEAN,
             lost' \subseteq Instances, todo' \subseteq Releases, firm' \subseteq Releases,
             lossy' \in BOOLEAN, settled' \in BOOLEAN
      PROVE  RestInv'
  BY <1>1, <1>2 DEF RestInv, Sizes, ReleaseRecords
\* Steps that leave the worker and what is remembered of its sizes.
<1>3. ASSUME rel' \in [Releases -> ReleaseRecords], UNCHANGED <<applied, worker, history, faults>>,
             changes' \in Nat
      PROVE  RestInv'
  BY <1>1, <1>3 DEF RestInv, worker, history, Sizes, ReleaseRecords
<1>4. Fault => faults' \in Nat
  BY <1>1 DEF Fault
<1>5. Change => changes' \in Nat
  BY <1>1 DEF Change
<1>6. ASSUME NEW r \in Releases, rel[r].status = "deployed",
             \/ rel' = rel \/ rel' = [rel EXCEPT ![r].count = desired]
             \/ rel' = [rel EXCEPT ![r].status = "failed"]
      PROVE  rel' \in [Releases -> ReleaseRecords]
  <2>1. PICK old : old = rel[r] /\ old \in [status : {"deployed", "failed"}, count : Sizes]
    BY <1>1, <1>6 DEF ReleaseRecords, NotInstalled
  <2>2. [old EXCEPT !.count = desired] \in ReleaseRecords /\ [old EXCEPT !.status = "failed"] \in ReleaseRecords
    BY <1>1, <2>1 DEF ReleaseRecords
  <2> QED
    BY <1>1, <1>6, <2>1, <2>2
<1>7. CASE UNCHANGED vars
  BY <1>7 DEF vars, outside, worker, history, RestInv, Sizes, ReleaseRecords
<1>8. CASE ListNodes \/ (\E i \in Instances : ReleaseInstance(i)) \/ ReleaseFails
  BY <1>1, <1>2, <1>4, <1>8 DEF ListNodes, ReleaseInstance, ReleaseFails, outside, history, RestInv
<1>9. CASE ListClaims
  <2>1. LostInstances(list) \subseteq Instances
    BY DEF LostInstances, Bound
  <2> QED
    BY <1>1, <1>2, <1>9, <2>1 DEF ListClaims, outside, history, RestInv
<1>10. CASE Count
  <2>1. PICK schedulable \in SUBSET Nodes, retained \in SUBSET Nodes :
          /\ schedulable = Schedulable(list)
          /\ retained = Retained(list, {n \in Nodes : since'[n] = "long"})
    BY DEF Schedulable, Retained
  <2>2. /\ desired' = DesiredNodeCount(applied, Cardinality(schedulable), Cardinality(retained))
        /\ since' = Tracked(list)
    BY <1>10, <2>1 DEF Count, Observe
  <2>3. schedulable \subseteq retained
    BY <2>1, <2>2 DEF Schedulable, Retained, Tracked, Held
  <2>4. /\ Cardinality(schedulable) \in Nat /\ Cardinality(retained) \in Nat
        /\ Cardinality(schedulable) <= Cardinality(retained)
    BY <2>3, Grown
  <2>5. Cardinality(retained) <= Cardinality(Nodes) /\ Cardinality(Nodes) \in Nat
    BY Grown
  <2>6. desired' \in Sizes
    <3>1. applied \in Nat
      BY DEF SizeInv
    <3>2. PICK d : d = DesiredNodeCount(applied, Cardinality(schedulable), Cardinality(retained))
      OBVIOUS
    <3>3. d \in Nat /\ d >= 1 /\ (d <= 1 \/ d <= Cardinality(retained))
      BY <2>4, <3>1, <3>2, DesiredIsBetween
    <3>4. 1 <= Cardinality(Nodes)
      BY <1>1, <2>5 DEF Sizes
    <3> QED
      BY <2>2, <2>4, <2>5, <3>2, <3>3, <3>4 DEF Sizes
  <2> QED
    BY <1>2, <1>10, <2>6 DEF Count, outside, history, RestInv
<1>11. CASE Finish
  BY <1>1, <1>11 DEF Finish, outside, RestInv, Sizes, ReleaseRecords
<1>12. CASE SettingFails
  <2>1. Fault /\ pc' = "idle" /\ UNCHANGED <<outside, applied, lost, todo, history, changes>>
    BY <1>12 DEF SettingFails
  <2>2. UNCHANGED <<desired, failed>> \/ (desired' = 1 /\ failed' = FALSE)
    BY <1>12 DEF SettingFails
  <2> QED
    BY <1>1, <1>2, <1>4, <2>1, <2>2 DEF outside, history, RestInv
<1>13. ASSUME NEW r \in Releases, RescaleRelease(r) PROVE RestInv'
  <2>1. rel' \in [Releases -> ReleaseRecords]
    BY <1>1, <1>6, <1>13 DEF RescaleRelease, Resized
  <2>2. firm' \subseteq Releases /\ todo' \subseteq Releases
    BY <1>13 DEF RescaleRelease, Resized, RestInv
  <2> QED
    BY <1>1, <1>13, <2>1, <2>2 DEF RescaleRelease, RestInv, Sizes, ReleaseRecords
<1>14. ASSUME NEW r \in Releases, RescaleFails(r) PROVE RestInv'
  <2>1. rel' \in [Releases -> ReleaseRecords]
    BY <1>1, <1>6, <1>14 DEF RescaleFails, Interrupted
  <2>2. failed' \in BOOLEAN /\ todo' \subseteq Releases /\ faults' \in Nat
    BY <1>4, <1>14 DEF RescaleFails, RestInv
  <2> QED
    BY <1>1, <1>14, <2>1, <2>2 DEF RescaleFails, history, RestInv, Sizes, ReleaseRecords
<1>15. CASE ReplaceWorker
  <2>1. rel' \in [Releases -> ReleaseRecords]
    BY <1>1, <1>6, <1>15 DEF ReplaceWorker, Interrupted
  <2>2. faults' \in Nat
    BY <1>4, <1>15 DEF ReplaceWorker
  <2> QED
    BY <1>1, <1>15, <2>1, <2>2 DEF ReplaceWorker, history, RestInv, Sizes, ReleaseRecords
<1>16. ASSUME NEW n \in Nodes, Leave(n) \/ Grace(n) PROVE RestInv'
  BY <1>1, <1>5, <1>16 DEF Leave, Grace, Lose, SetNode, outside, worker, RestInv, Sizes, ReleaseRecords
<1>17. ASSUME NEW n \in Nodes, Join(n) \/ Vanish(n) \/ ChangeHealth(n) \/ Withhold(n) \/ Debounce(n)
       PROVE  RestInv'
  <2>1. rel' = rel /\ UNCHANGED <<applied, worker, history, faults>> /\ (Change \/ changes' = changes)
    BY <1>17 DEF Join, Vanish, ChangeHealth, Withhold, Debounce, SetNode
  <2> QED
    BY <1>1, <1>3, <1>5, <2>1
<1>18. ASSUME NEW i \in Instances, Clone(i) \/ \E n \in Nodes : Recreate(i, n) PROVE RestInv'
  BY <1>1, <1>3, <1>18 DEF Clone, Recreate
<1>19. ASSUME NEW r \in Releases, Operate(r) PROVE RestInv'
  <2>1. rel' \in [Releases -> ReleaseRecords]
    <3>1. /\ [status |-> "deployed", count |-> 1] \in ReleaseRecords
          /\ NotInstalled \in ReleaseRecords
      BY <1>1 DEF ReleaseRecords
    <3>2. rel[r].status = "failed" => [rel[r] EXCEPT !.status = "deployed"] \in ReleaseRecords
      BY <1>1 DEF ReleaseRecords, NotInstalled
    <3> QED
      BY <1>1, <1>19, <3>1, <3>2 DEF Operate
  <2> QED
    BY <1>3, <1>5, <1>19, <2>1 DEF Operate
<1> QED
  BY <1>7, <1>8, <1>9, <1>10, <1>11, <1>12, <1>13, <1>14, <1>15, <1>16, <1>17, <1>18, <1>19
    DEF Next, Pass, Fail, Environment

-----------------------------------------------------------------------------
\* Spec: of the instances of the database one always keeps its claim.
THEOREM InstanceIsKept ==
  ASSUME NoNodeAssumption, InstancesAssumption PROVE Spec => []InstanceKept
<1>1. Init => SurvivorInv
  BY SurvivorInitially
<1>2. SurvivorInv /\ [Next]_vars => SurvivorInv'
  BY SurvivorKept
<1>3. SurvivorInv => InstanceKept
  BY DEF SurvivorInv, InstanceKept
<1> QED
  BY <1>1, <1>2, <1>3, PTL DEF Spec

\* Spec: the remembered size shrinks only if a node was lost since it was agreed with.
THEOREM SizesShrinkForLoss == ASSUME NodesAssumption PROVE Spec => SizeShrinksForLoss
<1>1. Init => SizeInv
  BY SizeInitially
<1>2. SizeInv /\ [Next]_vars => SizeInv'
  BY SizeKept
<1>3. SizeInv /\ [Next]_vars => [SizeShrinksOnlyForLoss]_vars
  BY SizeShrinksOnly
<1> QED
  BY <1>1, <1>2, <1>3, PTL DEF Spec, SizeShrinksForLoss
===============================================================================
