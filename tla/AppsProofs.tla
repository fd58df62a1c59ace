------------------------------- MODULE AppsProofs -------------------------------
(***************************************************************************)
(* Proofs about what an app is given and how it is reached: EndpointCache, *)
(* GatewayRoutes, AppHealth, MountChoices, GpuChoice, AppDeployment and    *)
(* SharedStorage, for all values of the constants of MCControlPlane.       *)
(***************************************************************************)
EXTENDS MCControlPlane, SequenceTheorems, WellFoundedInduction, TLAPS

\* What remains of a sequence on either side of an element.
LEMMA AroundOne ==
  ASSUME NEW S, NEW s \in Seq(S), NEW i \in 1 .. Len(s)
  PROVE  /\ SubSeq(s, 1, i - 1) = [j \in 1 .. i - 1 |-> s[j]]
         /\ SubSeq(s, i + 1, Len(s)) = [j \in 1 .. Len(s) - i |-> s[i + j]]
<1>1. Len(s) \in Nat /\ i \in Nat
  OBVIOUS
<1> QED
  BY <1>1

\* No step changes which component the behaviour is of.
LEMMA PartIsKept == [Next]_vars => part' = part
  BY DEF Next, vars

-----------------------------------------------------------------------------
(* EndpointCache.                                                          *)

service == v1
cached == v2
routing == v3
recent == v4

\* No service, no entry and no request.
LEMMA EndpointsInitially == End!Init => End!EndpointInv
  BY EndLifetimeAssumption DEF End!Init, End!EndpointInv, End!Ages, End!Idle,
    End!EntriesAreRecent, End!EndpointsAreRecent, End!LifetimeAssumption

\* What is served or stored is of a tick that an entry of its age may be of.
LEMMA EndpointsKept == End!EndpointInv /\ [End!Next]_(End!endpointVars) => End!EndpointInv'
<1> SUFFICES ASSUME End!EndpointInv, [End!Next]_(End!endpointVars) PROVE End!EndpointInv'
  OBVIOUS
<1> USE EndLifetimeAssumption DEF service, cached, routing, recent, End!LifetimeAssumption
<1>1. /\ service \in Upstreams \cup {NoService} /\ DOMAIN recent = 0 .. Lifetime - 1
      /\ service \in recent[0]
      /\ cached \in [Replicas -> [upstream : Upstreams, left : 0..Lifetime] \cup {NoService}]
      /\ DOMAIN routing = Callers
  BY DEF End!EndpointInv, End!Ages
<1>2. \A c \in Callers : routing[c].step = "found" =>
        /\ routing[c].at \in Replicas /\ routing[c].upstream \in Upstreams
        /\ routing[c].upstream \in recent[0]
  BY DEF End!EndpointInv
<1>3. \A b \in Replicas : cached[b] # NoService /\ cached[b].left > 0 =>
        \E t \in 0 .. Lifetime - cached[b].left : cached[b].upstream \in recent[t]
  BY DEF End!EndpointInv, End!EntriesAreRecent
<1>4. \A c \in Callers : routing[c].step = "answered" =>
        \E t \in 0 .. Lifetime - 1 : routing[c].upstream \in recent[t]
  BY DEF End!EndpointInv, End!EndpointsAreRecent, End!Ages
<1> DEFINE Recent == /\ service \in Upstreams \cup {NoService} /\ DOMAIN recent = 0 .. Lifetime - 1
                     /\ service \in recent[0]
           Typed == /\ cached \in [Replicas -> [upstream : Upstreams, left : 0..Lifetime]
                                                \cup {NoService}]
                    /\ DOMAIN routing = Callers
           Found == \A c \in Callers : routing[c].step = "found" =>
                      /\ routing[c].at \in Replicas /\ routing[c].upstream \in Upstreams
                      /\ routing[c].upstream \in recent[0]
           Fresh == \A b \in Replicas : cached[b] # NoService /\ cached[b].left > 0 =>
                        \E t \in 0 .. Lifetime - cached[b].left : cached[b].upstream \in recent[t]
           Answers == \A c \in Callers : routing[c].step = "answered" =>
                        \E t \in 0 .. Lifetime - 1 : routing[c].upstream \in recent[t]
<1>5. SUFFICES Recent' /\ Typed' /\ Found' /\ Fresh' /\ Answers'
  BY DEF End!EndpointInv, End!Ages, End!EntriesAreRecent, End!EndpointsAreRecent
<1>6. ASSUME NEW c \in Callers, NEW b \in Replicas, End!Get(c, b)
      PROVE  Recent' /\ Typed' /\ Found' /\ Fresh' /\ Answers'
  <2>1. /\ cached[b] # NoService /\ cached[b].left > 0 /\ UNCHANGED <<service, cached, recent>>
        /\ routing' = [routing EXCEPT ![c] = [step |-> "answered", at |-> b,
                                              upstream |-> cached[b].upstream]]
    BY <1>6 DEF End!Get, End!Served, End!Enter, End!Upstream
  <2>2. \E t \in 0 .. Lifetime - 1 : cached[b].upstream \in recent[t]
    BY <1>1, <1>3, <2>1
  <2> QED
    BY <1>1, <1>2, <1>3, <1>4, <2>1, <2>2
<1>7. ASSUME NEW c \in Callers, NEW b \in Replicas, End!GetServiceEndpoints(c, b)
      PROVE  Recent' /\ Typed' /\ Found' /\ Fresh' /\ Answers'
  BY <1>1, <1>2, <1>3, <1>4, <1>7 DEF End!GetServiceEndpoints, End!Enter
<1>8. ASSUME NEW c \in Callers, End!SetEntry(c)
      PROVE  Recent' /\ Typed' /\ Found' /\ Fresh' /\ Answers'
  <2> DEFINE b == routing[c].at
             u == routing[c].upstream
  <2>1. /\ b \in Replicas /\ u \in Upstreams /\ u \in recent[0] /\ UNCHANGED <<service, recent>>
        /\ cached' = [cached EXCEPT ![b] = [upstream |-> u, left |-> Lifetime]]
        /\ routing' = [routing EXCEPT ![c] = [step |-> "answered", at |-> b, upstream |-> u]]
    BY <1>2, <1>8 DEF End!SetEntry, End!Enter, End!Upstream
  <2>2. Fresh'
    BY <1>1, <1>3, <2>1
  <2>3. Found' /\ Answers'
    BY <1>1, <1>2, <1>4, <2>1
  <2> QED
    BY <1>1, <2>1, <2>2, <2>3
<1>9. ASSUME NEW c \in Callers, End!Done(c)
      PROVE  Recent' /\ Typed' /\ Found' /\ Fresh' /\ Answers'
  BY <1>1, <1>2, <1>3, <1>4, <1>9 DEF End!Done, End!Enter, End!Idle
<1>10. ASSUME NEW b \in Replicas, End!Invalidate(b) \/ End!Restart(b)
       PROVE  Recent' /\ Typed' /\ Found' /\ Fresh' /\ Answers'
  <2>1. /\ cached' = [cached EXCEPT ![b] = NoService] /\ UNCHANGED <<service, recent>>
        /\ DOMAIN routing' = Callers
        /\ \A c \in Callers : routing'[c] = routing[c] \/ routing'[c] = [step |-> "none"]
    BY <1>1, <1>10 DEF End!Invalidate, End!Restart, End!Idle
  <2> QED
    BY <1>1, <1>2, <1>3, <1>4, <2>1
<1>11. ASSUME NEW u \in Upstreams \cup {NoService}, End!ChangeService(u)
       PROVE  Recent' /\ Typed' /\ Found' /\ Fresh' /\ Answers'
  <2>1. /\ service' = u /\ UNCHANGED <<cached, routing>> /\ DOMAIN recent' = DOMAIN recent
        /\ u \in recent'[0] /\ \A t \in DOMAIN recent : recent[t] \subseteq recent'[t]
    BY <1>1, <1>11 DEF End!ChangeService
  <2>2. Fresh'
    BY <1>1, <1>3, <2>1
  <2> QED
    BY <1>1, <1>2, <1>4, <2>1, <2>2
<1>12. CASE End!Tick
  <2>1. /\ \A c \in Callers : routing[c] = [step |-> "none"]
        /\ UNCHANGED <<service, routing>>
        /\ recent' = [t \in 0 .. Lifetime - 1 |-> IF t = 0 THEN {service} ELSE recent[t - 1]]
        /\ cached' = [b \in Replicas |-> IF cached[b] = NoService THEN NoService
                        ELSE [cached[b] EXCEPT !.left = IF @ > 0 THEN @ - 1 ELSE 0]]
    BY <1>12 DEF End!Tick, End!Idle, End!Ages
  <2>2. ASSUME NEW b \in Replicas, cached'[b] # NoService, cached'[b].left > 0
        PROVE  \E t \in 0 .. Lifetime - cached'[b].left : cached'[b].upstream \in recent'[t]
    <3>1. cached[b] # NoService /\ cached[b].left \in 0..Lifetime
      BY <1>1, <2>1, <2>2
    <3>2. cached'[b].upstream = cached[b].upstream /\ cached'[b].left = cached[b].left - 1
      BY <1>1, <2>1, <2>2, <3>1
    <3>3. PICK t \in 0 .. Lifetime - cached[b].left : cached[b].upstream \in recent[t]
      BY <1>3, <2>2, <3>1, <3>2
    <3>4. t + 1 \in 0 .. Lifetime - cached'[b].left /\ t + 1 \in 1 .. Lifetime - 1
      BY <2>2, <3>1, <3>2
    <3>5. recent'[t + 1] = recent[t]
      BY <2>1, <3>4
    <3> QED
      BY <3>2, <3>3, <3>4, <3>5
  <2>3. Typed'
    BY <1>1, <2>1
  <2>4. Recent' /\ Found' /\ Answers'
    BY <1>1, <2>1
  <2> QED
    BY <2>2, <2>3, <2>4
<1>13. CASE UNCHANGED End!endpointVars
  BY <1>1, <1>2, <1>3, <1>4, <1>13 DEF End!endpointVars
<1> QED
  BY <1>6, <1>7, <1>8, <1>9, <1>10, <1>11, <1>12, <1>13 DEF End!Next

-----------------------------------------------------------------------------
(* GatewayRoutes.                                                          *)

enabled == v1
zones == v2
asking == v3
steady == v4

\* A path is its prefix and the rest.
LEMMA PrefixAndRest ==
  ASSUME NEW prefix, NEW path, Gat!IsPath(prefix), Gat!IsPath(path), Gat!IsPrefix(prefix, path)
  PROVE  path = prefix \o SubSeq(path, Len(prefix) + 1, Len(path))
<1> DEFINE S == {path[i] : i \in DOMAIN path}
<1>1. path \in Seq(S) /\ Len(path) \in Nat /\ Len(prefix) \in Nat /\ Len(prefix) <= Len(path)
  BY LenProperties DEF Gat!IsPath, Gat!IsPrefix
<1>2. prefix = SubSeq(path, 1, Len(prefix))
  BY SubSeqFull DEF Gat!IsPath, Gat!IsPrefix
<1>3. SubSeq(path, 1, Len(path)) = path
  BY <1>1, SubSeqFull
<1>4. SubSeq(path, 1, Len(prefix)) \o SubSeq(path, Len(prefix) + 1, Len(path))
        = SubSeq(path, 1, Len(path))
  <2>1. /\ 1 \in 1 .. Len(path) + 1 /\ Len(prefix) \in 1 - 1 .. Len(path)
        /\ Len(path) \in Len(prefix) .. Len(path)
    BY <1>1
  <2> QED
    BY <1>1, <2>1, ConcatAdjacentSubSeq
<1> QED
  BY <1>2, <1>3, <1>4

\* What the app is asked for and the way to it make the path.
LEMMA RoutedKeepsPath ==
  ASSUME NEW a \in Offered, NEW want \in AskedFor, Gat!Matches(a, want)
  PROVE  LET target == Gat!TargetPath(a, want)
             rest == IF target = << "" >> THEN {<< >>, << "" >>} ELSE {target}
         IN want.path \in {IF a.mode = "path" THEN a.prefix \o r ELSE r : r \in rest}
<1> DEFINE target == Gat!TargetPath(a, want)
           rest == IF target = << "" >> THEN {<< >>, << "" >>} ELSE {target}
<1>1. Gat!IsPath(a.prefix) /\ Gat!IsPath(want.path)
  BY GatPathsAssumption DEF Gat!PathsAssumption
<1>2. CASE a.mode # "path"
  BY <1>2 DEF Gat!TargetPath
<1>3. CASE a.mode = "path" /\ want.path = a.prefix
  <2>1. target = << "" >> /\ << >> \in rest
    BY <1>3 DEF Gat!TargetPath, Gat!StripPathPrefix
  <2>2. a.prefix \o << >> = want.path
    BY <1>1, <1>3, ConcatEmptySeq DEF Gat!IsPath
  <2> QED
    BY <1>3, <2>1, <2>2
<1>4. CASE a.mode = "path" /\ want.path # a.prefix
  <2>1. target = SubSeq(want.path, Len(a.prefix) + 1, Len(want.path))
    BY <1>4 DEF Gat!TargetPath, Gat!StripPathPrefix
  <2>2. want.path = a.prefix \o target
    BY <1>1, <1>4, <2>1, PrefixAndRest DEF Gat!Matches, Gat!PathMatchesPrefix
  <2> QED
    BY <1>4, <2>2
<1> QED
  BY <1>2, <1>3, <1>4

LEMMA RoutesInitially == Gat!Init => Gat!GatewayInv
  BY DEF Gat!Init, Gat!GatewayInv, Gat!Idle, Gat!RoutesAreFound, Gat!PathIsKept,
    Gat!SteadyRouteIsFound

\* An assignment is left out only once it was found not to fit, and fits no better later.
LEMMA RoutesKept == Gat!GatewayInv /\ [Gat!Next]_(Gat!gatewayVars) => Gat!GatewayInv'
<1> SUFFICES ASSUME Gat!GatewayInv, [Gat!Next]_(Gat!gatewayVars) PROVE Gat!GatewayInv'
  OBVIOUS
<1> USE DEF enabled, zones, asking, steady
<1> DEFINE Typed == enabled \subseteq Offered /\ \A a \in steady : a.domain \in zones
           Left == asking.step = "matching" =>
                     /\ asking.left \subseteq Offered
                     /\ \A a \in steady : Gat!Matches(a, asking.want) => a \in asking.left
           Asked == asking = Gat!Idle \/ asking.want \in AskedFor
           Kept == asking.step = "routed" =>
                     LET rest == IF asking.target = << "" >> THEN {<< >>, << "" >>}
                                 ELSE {asking.target}
                     IN asking.want.path \in
                          {IF asking.by.mode = "path" THEN asking.by.prefix \o r ELSE r : r \in rest}
           Steady == asking.step = "not found" => \A a \in steady : ~Gat!Matches(a, asking.want)
<1>1. Typed /\ Asked /\ Left /\ Kept /\ Steady
  BY DEF Gat!GatewayInv, Gat!RoutesAreFound, Gat!PathIsKept, Gat!SteadyRouteIsFound
<1>2. SUFFICES Typed' /\ Asked' /\ Left' /\ Kept' /\ Steady'
  BY DEF Gat!GatewayInv, Gat!RoutesAreFound, Gat!PathIsKept, Gat!SteadyRouteIsFound
<1>3. CASE Gat!Begin
  <2>1. PICK want \in AskedFor :
          asking' = [step |-> "matching", want |-> want, left |-> enabled]
    BY <1>3 DEF Gat!Begin
  <2>2. asking'.step = "matching" /\ asking'.want = want /\ asking'.left = enabled
    BY <2>1
  <2>3. UNCHANGED <<enabled, zones>> /\ steady' = {a \in enabled : a.domain \in zones}
    BY <1>3 DEF Gat!Begin
  <2> QED
    BY <1>1, <2>2, <2>3
<1>4. CASE Gat!Match
  <2>1. PICK a \in asking.left : Gat!Consider(a)
    BY <1>4 DEF Gat!Match
  <2>2. /\ asking.step = "matching" /\ UNCHANGED <<enabled, zones, steady>> /\ a \in Offered
        /\ asking.want \in AskedFor
    BY <1>1, <1>4 DEF Gat!Match, Gat!Idle
  <2>3. CASE a.domain \in zones /\ Gat!Matches(a, asking.want)
    <3>1. asking' = [step |-> "routed", want |-> asking.want, by |-> a,
                     target |-> Gat!TargetPath(a, asking.want)]
      BY <2>1, <2>3 DEF Gat!Consider, Gat!Answer
    <3>2. Kept'
      BY <2>2, <2>3, <3>1, RoutedKeepsPath
    <3> QED
      BY <1>1, <2>2, <3>1, <3>2
  <2>4. CASE ~(a.domain \in zones /\ Gat!Matches(a, asking.want))
    <3>1. asking' = [asking EXCEPT !.left = @ \ {a}]
      BY <2>1, <2>4 DEF Gat!Consider
    <3>2. /\ asking'.step = "matching" /\ asking'.want = asking.want
          /\ asking'.left = asking.left \ {a}
      BY <2>2, <3>1
    <3> QED
      BY <1>1, <2>2, <2>4, <3>2
  <2> QED
    BY <2>3, <2>4
<1>5. CASE Gat!NotFound
  <2>1. /\ asking.step = "matching" /\ asking.left = {} /\ UNCHANGED <<enabled, zones, steady>>
        /\ asking' = [step |-> "not found", want |-> asking.want]
    BY <1>5 DEF Gat!NotFound
  <2>2. asking'.step = "not found" /\ asking'.want = asking.want
    BY <2>1
  <2>3. asking.step = "matching" => asking # Gat!Idle
    BY DEF Gat!Idle
  <2>4. asking.want \in AskedFor
    BY <1>1, <2>1, <2>3
  <2> QED
    BY <1>1, <2>1, <2>2, <2>4
<1>6. CASE Gat!Done
  BY <1>1, <1>6 DEF Gat!Done, Gat!Idle
<1>7. CASE Gat!ChangeAssignment \/ Gat!ChangeDomain
  <2>1. /\ UNCHANGED asking /\ steady' \subseteq steady /\ enabled' \subseteq Offered
        /\ \A a \in steady' : a.domain \in zones'
    BY <1>1, <1>7 DEF Gat!ChangeAssignment, Gat!ChangeDomain
  <2> QED
    BY <1>1, <2>1
<1>8. CASE UNCHANGED Gat!gatewayVars
  BY <1>1, <1>8 DEF Gat!gatewayVars
<1> QED
  BY <1>3, <1>4, <1>5, <1>6, <1>7, <1>8 DEF Gat!Next

-----------------------------------------------------------------------------
(* AppHealth.                                                              *)

namespace == v1
helmRelease == v2
workloads == v3
check == v5
unsettled == v6
down == v7
held == v8

LEMMA HealthInitially == Hea!Init => Hea!HealthInv
<1> SUFFICES ASSUME Hea!Init PROVE Hea!HealthInv
  OBVIOUS
<1> USE DEF namespace, helmRelease, workloads, check, unsettled, down, held
<1>1. workloads \in [Hea!Workloads -> Hea!Sizes \cup {NoWorkload}] /\ helmRelease \in Hea!Statuses
  BY DEF Hea!Init, Hea!Statuses
<1>2. check \in Hea!Checks /\ check.step = "answered" /\ check.status = "none"
  BY HeaWorkloadsAssumption DEF Hea!Init, Hea!Checks, Hea!Steps, Hea!Answers, Hea!Statuses,
    Hea!WorkloadsAssumption
<1>3. unsettled = FALSE /\ down = {} /\ held = FALSE
  BY DEF Hea!Init
<1> QED
  BY <1>1, <1>2, <1>3 DEF Hea!HealthInv, Hea!At, Hea!Listing, Hea!HealthIsHonest

\* What a check has read, and what was true since it began, agree.
LEMMA HealthKept == Hea!HealthInv /\ [Hea!Next]_(Hea!healthVars) => Hea!HealthInv'
<1> SUFFICES ASSUME Hea!HealthInv, [Hea!Next]_(Hea!healthVars) PROVE Hea!HealthInv'
  OBVIOUS
<1> USE DEF namespace, helmRelease, workloads, check, unsettled, down, held
<1> DEFINE
      Cluster == /\ workloads \in [Hea!Workloads -> Hea!Sizes \cup {NoWorkload}]
                 /\ helmRelease \in Hea!Statuses
      Typed == check \in Hea!Checks
      Since == /\ unsettled => ~Hea!Deployed(helmRelease)
               /\ \A w \in down : /\ w \in Hea!Workloads /\ Hea!Present(w)
                                  /\ Hea!Lacking(w, workloads[w])
               /\ held => namespace
      Asked == /\ ~Hea!At("answered") => check.status = "none"
               /\ check.status = "error" => check.failed
               /\ Hea!At("workload") => check.target # "namespace"
               /\ check.step \in Hea!Listing => check.target = "namespace"
      Read == /\ check.step \in Hea!Listing \cup {"workload"} /\ unsettled
                   => ~Hea!Deployed(check.metadata)
              /\ check.step \in {"daemonsets", "listed"} /\ check.ready
                   => down \cap Deployments = {}
              /\ Hea!At("listed") /\ check.ready => down \cap DaemonSets = {}
      Honest == Hea!HealthIsHonest
<1>1. Cluster /\ Typed /\ Since /\ Asked /\ Read /\ Honest
  BY DEF Hea!HealthInv
<1>2. SUFFICES Cluster' /\ Typed' /\ Since' /\ Asked' /\ Read' /\ Honest'
  BY DEF Hea!HealthInv
<1>3. ASSUME UNCHANGED <<workloads, helmRelease, namespace>>, Hea!Observe
      PROVE  Cluster' /\ Since'
  BY <1>1, <1>3 DEF Hea!Observe, Hea!Present, Hea!Deployed
<1>4. CASE Hea!Begin
  <2>1. Cluster' /\ Since'
    BY <1>3, <1>4 DEF Hea!Begin, Hea!cluster
  <2>2. PICK target \in Targets, two \in BOOLEAN :
          check' = [step |-> "namespace", target |-> target, again |-> two, failed |-> FALSE,
                    status |-> "none", metadata |-> "none", ready |-> TRUE, any |-> FALSE]
    BY <1>4 DEF Hea!Begin
  <2>3. Typed' /\ check'.step = "namespace" /\ check'.status = "none"
    BY <2>2 DEF Hea!Checks, Hea!Steps, Hea!Answers, Hea!Statuses
  <2> QED
    BY <2>1, <2>3 DEF Hea!At, Hea!Listing, Hea!HealthIsHonest
<1>5. CASE Hea!GetAppStatus
  <2>1. CASE check.status \in {"error", "not_found"}
    <3>1. /\ check' = [check EXCEPT !.again = FALSE, !.status = "idle"]
          /\ UNCHANGED <<namespace, helmRelease, workloads, unsettled, down, held>>
          /\ check.step = "answered"
      BY <1>5, <2>1 DEF Hea!GetAppStatus, Hea!ghosts, Hea!cluster, Hea!At
    <3>2. /\ Typed' /\ check'.step = "answered" /\ check'.status = "idle"
          /\ check'.failed = check.failed
      BY <1>1, <3>1 DEF Hea!Checks, Hea!Answers
    <3>3. ~held \/ check.failed
      BY <1>1, <2>1, <3>1 DEF Hea!HealthIsHonest, Hea!At
    <3>4. Cluster' /\ Since'
      BY <1>1, <3>1 DEF Hea!Present
    <3> QED
      BY <3>1, <3>2, <3>3, <3>4 DEF Hea!At, Hea!Listing, Hea!HealthIsHonest
  <2>2. CASE check.status \notin {"error", "not_found"}
    <3>1. /\ check' = [check EXCEPT !.step = "namespace", !.again = FALSE, !.status = "none"]
          /\ Cluster' /\ Since'
      BY <1>3, <1>5, <2>2 DEF Hea!GetAppStatus, Hea!cluster
    <3>2. Typed' /\ check'.step = "namespace" /\ check'.status = "none"
      BY <1>1, <3>1 DEF Hea!Checks, Hea!Answers, Hea!Steps
    <3> QED
      BY <3>1, <3>2 DEF Hea!At, Hea!Listing, Hea!HealthIsHonest
  <2> QED
    BY <2>1, <2>2
<1> DEFINE Calm == UNCHANGED <<namespace, helmRelease, workloads, unsettled, down, held>>
<1>6. ASSUME Calm PROVE Cluster' /\ Since'
  BY <1>1, <1>6 DEF Hea!Present
<1>7. ASSUME Calm, check' = [check EXCEPT !.step = "answered", !.status = "error", !.failed = TRUE]
      PROVE  Cluster' /\ Typed' /\ Since' /\ Asked' /\ Read' /\ Honest'
  <2>1. Typed' /\ check'.step = "answered" /\ check'.status = "error" /\ check'.failed = TRUE
    BY <1>1, <1>7 DEF Hea!Checks, Hea!Answers, Hea!Steps
  <2> QED
    BY <1>6, <1>7, <2>1 DEF Hea!At, Hea!Listing, Hea!HealthIsHonest
<1>8. ASSUME NEW next \in {"metadata", "deployments"}, NEW step \in {"namespace", "again"},
             Hea!CheckNamespaceExists(step, next), next = "deployments" <=> step = "again"
      PROVE  Cluster' /\ Typed' /\ Since' /\ Asked' /\ Read' /\ Honest'
  <2>1. Calm /\ check.step = step
    BY <1>8 DEF Hea!CheckNamespaceExists, Hea!At, Hea!ghosts, Hea!cluster
  <2>2. CASE check' = [check EXCEPT !.step = next]
    <3>1. /\ Typed' /\ check'.step = next /\ check'.status = check.status
          /\ check'.target = check.target /\ check'.metadata = check.metadata
          /\ check'.failed = check.failed
      BY <1>1, <1>8, <2>2 DEF Hea!Checks, Hea!Steps, Hea!Listing
    <3>2. check.status = "none"
      BY <1>1, <1>8, <2>1 DEF Hea!At
    <3> QED
      BY <1>1, <1>6, <1>8, <2>1, <3>1, <3>2 DEF Hea!At, Hea!Listing, Hea!HealthIsHonest
  <2>3. ASSUME NEW failed \in BOOLEAN, failed \/ ~namespace,
               check' = [check EXCEPT !.step = "answered", !.status = "not_found",
                                      !.failed = failed]
        PROVE  Cluster' /\ Typed' /\ Since' /\ Asked' /\ Read' /\ Honest'
    <3>1. Typed' /\ check'.step = "answered" /\ check'.status = "not_found" /\ check'.failed = failed
      BY <1>1, <2>3 DEF Hea!Checks, Hea!Answers, Hea!Steps
    <3>2. ~held' \/ failed
      BY <1>1, <2>1, <2>3
    <3> QED
      BY <1>6, <2>1, <3>1, <3>2 DEF Hea!At, Hea!Listing, Hea!HealthIsHonest
  <2> QED
    BY <1>8, <2>2, <2>3 DEF Hea!CheckNamespaceExists
<1>9. CASE Hea!ReleaseMetadata
  <2>1. Calm /\ check.step = "metadata"
    BY <1>9 DEF Hea!ReleaseMetadata, Hea!At, Hea!ghosts, Hea!cluster
  <2>2. CASE check' = [check EXCEPT !.metadata = helmRelease,
                          !.step = IF check.target = "namespace" THEN "again" ELSE "workload"]
    <3>1. /\ Typed' /\ check'.status = check.status /\ check'.target = check.target
          /\ check'.metadata = helmRelease /\ check'.failed = check.failed
          /\ check'.step = IF check.target = "namespace" THEN "again" ELSE "workload"
      BY <1>1, <2>2 DEF Hea!Checks, Hea!Steps, Hea!Listing
    <3>2. check.status = "none"
      BY <1>1, <2>1 DEF Hea!At
    <3> QED
      BY <1>1, <1>6, <2>1, <3>1, <3>2 DEF Hea!At, Hea!Listing, Hea!HealthIsHonest
  <2> QED
    BY <1>7, <1>9, <2>1, <2>2 DEF Hea!ReleaseMetadata, Hea!Fails
<1>10. ASSUME NEW status \in Hea!Answers, Calm, status # "error",
              check' = [check EXCEPT !.step = "answered", !.status = status],
              status = "healthy" => ~unsettled /\ down \cap Hea!Judged = {},
              status \notin {"not_found", "idle"}
       PROVE  Cluster' /\ Typed' /\ Since' /\ Asked' /\ Read' /\ Honest'
  <2>1. /\ Typed' /\ check'.step = "answered" /\ check'.status = status
        /\ check'.target = check.target
    BY <1>1, <1>10 DEF Hea!Checks, Hea!Steps
  <2> QED
    BY <1>6, <1>10, <2>1 DEF Hea!At, Hea!Listing, Hea!HealthIsHonest, Hea!Judged
<1>11. CASE Hea!CheckWorkload
  <2>1. Calm /\ check.step = "workload" /\ check.target \in Targets \ {"namespace"}
    BY <1>1, <1>11 DEF Hea!CheckWorkload, Hea!At, Hea!ghosts, Hea!cluster, Hea!Checks
  <2> DEFINE w == check.target
             answer == Hea!WithReleaseStatus(Hea!WorkloadHealth(Hea!WorkloadReady(workloads[w])))
  <2>2. CASE Hea!Present(w) /\ check' = [check EXCEPT !.step = "answered", !.status = answer]
    <3>1. answer \in {"healthy", "unhealthy"}
      BY DEF Hea!WithReleaseStatus, Hea!WorkloadHealth
    <3>2. w \in Hea!Workloads /\ workloads[w] \in Hea!Sizes
      BY <1>1, <2>1, <2>2, HeaWorkloadsAssumption DEF Hea!WorkloadsAssumption, Hea!Workloads,
        Hea!Present
    <3>3. ASSUME answer = "healthy" PROVE ~unsettled /\ down \cap Hea!Judged = {}
      <4>1. Hea!Deployed(check.metadata) /\ Hea!WorkloadReady(workloads[w])
        BY <3>3 DEF Hea!WithReleaseStatus, Hea!WorkloadHealth
      <4>2. ~unsettled
        BY <1>1, <2>1, <4>1
      <4>3. ~Hea!Lacking(w, workloads[w])
        BY <3>2, <4>1 DEF Hea!WorkloadReady, Hea!Lacking, Hea!Sizes
      <4> QED
        BY <1>1, <2>1, <4>2, <4>3 DEF Hea!Judged
    <3> QED
      BY <1>10, <2>1, <2>2, <3>1, <3>3 DEF Hea!Answers
  <2> QED
    BY <1>7, <1>11, <2>1, <2>2 DEF Hea!CheckWorkload, Hea!Fails, Hea!Answer
<1>12. ASSUME NEW listed \in SUBSET Hea!Workloads, NEW step, NEW next,
              Hea!ListWorkloads(step, listed, next),
              \/ step = "deployments" /\ listed = Deployments /\ next = "daemonsets"
              \/ step = "daemonsets" /\ listed = DaemonSets /\ next = "listed"
       PROVE  Cluster' /\ Typed' /\ Since' /\ Asked' /\ Read' /\ Honest'
  <2>1. Calm /\ check.step = step
    BY <1>12 DEF Hea!ListWorkloads, Hea!At, Hea!ghosts, Hea!cluster
  <2> DEFINE fit == \A w \in listed : Hea!Present(w) => Hea!HealthyIn(w, workloads[w])
             some == \E w \in listed : Hea!Present(w)
  <2>2. CASE check' = [check EXCEPT !.step = next, !.any = @ \/ some, !.ready = @ /\ fit]
    <3>1. /\ check.any \in BOOLEAN /\ check.ready \in BOOLEAN /\ check.status = "none"
          /\ check.target = "namespace"
      BY <1>1, <1>12, <2>1 DEF Hea!Checks, Hea!At, Hea!Listing
    <3>2. (check.any \/ some) \in BOOLEAN /\ (check.ready /\ fit) \in BOOLEAN
      OBVIOUS
    <3>3. /\ Typed' /\ check'.step = next /\ check'.status = check.status
          /\ check'.target = check.target /\ check'.metadata = check.metadata
          /\ check'.failed = check.failed /\ check'.ready = (check.ready /\ fit)
      BY <1>1, <1>12, <2>2, <3>2 DEF Hea!Checks, Hea!Steps, Hea!Listing
    <3>4. fit => down \cap listed = {}
      <4> SUFFICES ASSUME fit, NEW w \in down \cap listed PROVE FALSE
        OBVIOUS
      <4>1. workloads[w] \in Hea!Sizes /\ Hea!Lacking(w, workloads[w])
        BY <1>1, <1>12 DEF Hea!Present
      <4>2. Hea!HealthyIn(w, workloads[w])
        BY <1>1
      <4>3. w \in Deployments => w \notin DaemonSets
        BY HeaWorkloadsAssumption DEF Hea!WorkloadsAssumption
      <4> QED
        BY <1>12, <4>1, <4>2, <4>3 DEF Hea!HealthyIn, Hea!Lacking, Hea!Sizes, Hea!WorkloadReady
    <3> QED
      BY <1>1, <1>6, <1>12, <2>1, <3>1, <3>3, <3>4 DEF Hea!At, Hea!Listing, Hea!HealthIsHonest
  <2> QED
    BY <1>7, <1>12, <2>1, <2>2 DEF Hea!ListWorkloads, Hea!Fails
<1>13. CASE Hea!CheckNamespaceHealth
  <2> DEFINE answer == Hea!WithReleaseStatus(
                         IF check.any THEN Hea!WorkloadHealth(check.ready) ELSE "no_workloads")
  <2>1. /\ Calm /\ check.step = "listed"
        /\ check' = [check EXCEPT !.step = "answered", !.status = answer]
    BY <1>13 DEF Hea!CheckNamespaceHealth, Hea!At, Hea!ghosts, Hea!cluster, Hea!Answer
  <2>2. answer \in {"healthy", "unhealthy", "no_workloads"}
    BY DEF Hea!WithReleaseStatus, Hea!WorkloadHealth
  <2>3. ASSUME answer = "healthy" PROVE ~unsettled /\ down \cap Hea!Judged = {}
    <3>1. Hea!Deployed(check.metadata) /\ check.ready
      BY <2>3 DEF Hea!WithReleaseStatus, Hea!WorkloadHealth
    <3>2. ~unsettled /\ down \cap Deployments = {} /\ down \cap DaemonSets = {}
      BY <1>1, <2>1, <3>1 DEF Hea!Listing, Hea!At
    <3>3. check.target = "namespace"
      BY <1>1, <2>1 DEF Hea!Listing
    <3> QED
      BY <3>2, <3>3 DEF Hea!Judged, Hea!Workloads
  <2> QED
    BY <1>10, <2>1, <2>2, <2>3 DEF Hea!Answers
<1>14. ASSUME Hea!Since, Cluster'
       PROVE  Cluster' /\ Typed' /\ Since' /\ Asked' /\ Read' /\ Honest'
  <2>1. /\ unsettled' => unsettled /\ ~Hea!Deployed(helmRelease')
        /\ down' \subseteq down /\ UNCHANGED check
        /\ \A w \in down' : workloads'[w] # NoWorkload /\ Hea!Lacking(w, workloads'[w])
        /\ held' => held /\ namespace'
    BY <1>14 DEF Hea!Since
  <2>2. Since'
    BY <1>1, <2>1 DEF Hea!Present, Hea!Deployed, Hea!Lacking
  <2>3. Typed' /\ Asked' /\ Read'
    BY <1>1, <2>1 DEF Hea!At, Hea!Listing, Hea!Deployed
  <2>4. Honest'
    BY <1>1, <2>1 DEF Hea!HealthIsHonest, Hea!At, Hea!Judged
  <2> QED
    BY <1>14, <2>2, <2>3, <2>4
<1>15. CASE Hea!ChangeRelease
  BY <1>1, <1>14, <1>15 DEF Hea!ChangeRelease, Hea!Statuses
<1>16. CASE Hea!ChangeWorkload
  BY <1>1, <1>14, <1>16 DEF Hea!ChangeWorkload
<1>17. CASE Hea!ChangeNamespace
  BY <1>1, <1>14, <1>17 DEF Hea!ChangeNamespace, Hea!Statuses
<1>18. CASE UNCHANGED Hea!healthVars
  BY <1>1, <1>6, <1>18 DEF Hea!healthVars, Hea!At, Hea!HealthIsHonest, Hea!Judged
<1>19. Deployments \subseteq Hea!Workloads /\ DaemonSets \subseteq Hea!Workloads
  BY DEF Hea!Workloads
<1> QED
  BY <1>4, <1>5, <1>8, <1>9, <1>11, <1>12, <1>13, <1>15, <1>16, <1>17, <1>18, <1>19 DEF Hea!Next

-----------------------------------------------------------------------------
(* MountChoices.                                                           *)

offering == v1
mounted == v2
fits == v3

\* A prefix, element by element.
LEMMA PrefixByElements ==
  ASSUME NEW s, NEW t, Mou!IsSequence(s), Mou!IsSequence(t)
  PROVE  /\ Len(s) \in Nat /\ Len(t) \in Nat
         /\ Mou!IsPrefix(s, t) <=> Len(s) <= Len(t) /\ \A i \in 1 .. Len(s) : s[i] = t[i]
<1>1. /\ Len(s) \in Nat /\ DOMAIN s = 1 .. Len(s) /\ Len(t) \in Nat /\ DOMAIN t = 1 .. Len(t)
  BY LenProperties DEF Mou!IsSequence
<1>2. s = [i \in 1 .. Len(s) |-> s[i]]
  BY <1>1, LenProperties DEF Mou!IsSequence
<1>3. SubSeq(s, 1, Len(s)) = s
  BY <1>1, SubSeqFull DEF Mou!IsSequence
<1>4. ASSUME Len(s) <= Len(t)
      PROVE  SubSeq(t, 1, Len(s)) = [i \in 1 .. Len(s) |-> t[i]]
  BY <1>1, <1>4 DEF Mou!IsSequence
<1> QED
  BY <1>1, <1>2, <1>3, <1>4 DEF Mou!IsPrefix

\* Of two prefixes of one path, one is the other's.
LEMMA PrefixesOverlap ==
  ASSUME NEW a, NEW b, NEW path, Mou!IsSequence(a), Mou!IsSequence(b), Mou!IsSequence(path),
         Mou!IsPrefix(a, path), Mou!IsPrefix(b, path)
  PROVE  Mou!Overlap(a, b) /\ Mou!Overlap(b, a) /\ Mou!IsPrefix(path, path)
  BY PrefixByElements DEF Mou!Overlap

\* What is found valid serves.
LEMMA ValidServes ==
  ASSUME NEW mounts, NEW required, NEW reserved, Mou!IsMountList(mounts),
         Mou!ValidMounts(mounts, required, reserved)
  PROVE  /\ \A path \in Mou!TargetsOf(mounts) \cup reserved :
              LET serving == Mou!Serving(mounts, path)
              IN \A i, j \in serving : i = j
         /\ \A path \in reserved :
              /\ Mou!Serving(mounts, path) = {}
              /\ \A target \in Mou!TargetsOf(mounts) : ~Mou!IsPrefix(path, target)
         /\ \A path \in required :
              \E i \in Mou!Serving(mounts, path) : mounts[i].mode = "read-write"
         /\ \A folder \in Mou!SourcesOf(mounts) :
              \A one, other \in Mou!ModesOf(mounts, folder) : one = other
<1>1. /\ Len(mounts) \in Nat /\ DOMAIN mounts = 1 .. Len(mounts)
      /\ \A i \in DOMAIN mounts : /\ Mou!IsSequence(mounts[i].source)
                                 /\ Mou!IsSequence(mounts[i].target)
  BY LenProperties DEF Mou!IsMountList, Mou!IsSequence
<1>2. \A i \in DOMAIN mounts : \A path \in reserved : ~Mou!Overlap(mounts[i].target, path)
  BY DEF Mou!ValidMounts
<1>3. \A path \in reserved : /\ Mou!Serving(mounts, path) = {}
                             /\ \A target \in Mou!TargetsOf(mounts) : ~Mou!IsPrefix(path, target)
  BY <1>2 DEF Mou!Serving, Mou!TargetsOf, Mou!Overlap
<1>4. ASSUME NEW path \in Mou!TargetsOf(mounts), NEW i \in Mou!Serving(mounts, path),
             NEW j \in Mou!Serving(mounts, path), i < j
      PROVE  FALSE
  <2>1. /\ i \in DOMAIN mounts /\ j \in DOMAIN mounts /\ Mou!IsSequence(path)
        /\ Mou!IsPrefix(mounts[i].target, path) /\ Mou!IsPrefix(mounts[j].target, path)
    BY <1>1 DEF Mou!Serving, Mou!TargetsOf
  <2>2. Mou!Overlap(mounts[j].target, mounts[i].target)
    BY <1>1, <2>1, PrefixesOverlap
  <2>3. i \in 1 .. j - 1
    BY <1>1, <1>4, <2>1
  <2> QED
    BY <2>1, <2>2, <2>3 DEF Mou!ValidMounts, Mou!TargetsApart
<1>5. \A path \in Mou!TargetsOf(mounts) \cup reserved :
        LET serving == Mou!Serving(mounts, path) IN \A i, j \in serving : i = j
  <2>1. ASSUME NEW path \in Mou!TargetsOf(mounts), NEW i \in Mou!Serving(mounts, path),
               NEW j \in Mou!Serving(mounts, path)
        PROVE  i = j
    <3>1. i \in 1 .. Len(mounts) /\ j \in 1 .. Len(mounts)
      BY <1>1 DEF Mou!Serving
    <3>2. ~(i < j) /\ ~(j < i)
      BY <1>4
    <3> QED
      BY <1>1, <3>1, <3>2
  <2> QED
    BY <1>3, <2>1
<1>6. ASSUME NEW path \in required
      PROVE  \E i \in Mou!Serving(mounts, path) : mounts[i].mode = "read-write"
  <2>1. PICK i \in DOMAIN mounts : mounts[i].target = path /\ mounts[i].mode = "read-write"
    BY <1>6 DEF Mou!ValidMounts, Mou!Writable
  <2>2. Mou!IsPrefix(path, path)
    BY <1>1, <2>1, PrefixByElements
  <2> QED
    BY <2>1, <2>2 DEF Mou!Serving
<1>7. ASSUME NEW folder \in Mou!SourcesOf(mounts), NEW i \in DOMAIN mounts, NEW j \in DOMAIN mounts,
             Mou!IsPrefix(mounts[i].source, folder), Mou!IsPrefix(mounts[j].source, folder), i < j
      PROVE  mounts[i].mode = mounts[j].mode
  <2>1. Mou!IsSequence(folder)
    BY <1>1 DEF Mou!SourcesOf
  <2>2. Mou!Overlap(mounts[j].source, mounts[i].source)
    BY <1>1, <1>7, <2>1, PrefixesOverlap
  <2>3. i \in 1 .. j - 1
    BY <1>1, <1>7
  <2> QED
    BY <2>2, <2>3 DEF Mou!ValidMounts
<1>8. ASSUME NEW folder \in Mou!SourcesOf(mounts), NEW one \in Mou!ModesOf(mounts, folder),
             NEW other \in Mou!ModesOf(mounts, folder)
      PROVE  one = other
  <2>1. PICK i \in DOMAIN mounts : one = mounts[i].mode /\ Mou!IsPrefix(mounts[i].source, folder)
    BY DEF Mou!ModesOf
  <2>2. PICK j \in DOMAIN mounts : other = mounts[j].mode /\ Mou!IsPrefix(mounts[j].source, folder)
    BY DEF Mou!ModesOf
  <2>3. i = j \/ i < j \/ j < i
    BY <1>1
  <2> QED
    BY <1>7, <2>1, <2>2, <2>3
<1> QED
  BY <1>3, <1>5, <1>6, <1>8

LEMMA MountsInitially == Mou!Init => Mou!MountInv
  BY DEF Mou!Init, Mou!MountInv

\* An install saves what it found valid, and keeps what it was not asked to change.
LEMMA MountsKept == Mou!MountInv /\ [Mou!Next]_(Mou!mountVars) => Mou!MountInv' /\ Mou!ChoiceKept
<1> SUFFICES ASSUME Mou!MountInv, [Mou!Next]_(Mou!mountVars)
             PROVE  Mou!MountInv' /\ Mou!ChoiceKept
  OBVIOUS
<1> USE DEF offering, mounted, fits
<1>1. /\ \A c \in Shipped : \A k \in DOMAIN c.mounts : Mou!IsMountList(c.mounts[k])
      /\ \A mounts \in MountLists : Mou!IsMountList(mounts)
      /\ \A mounts : Mou!IsMountList(mounts) => mounts # NoChoice
  BY MouListsAssumption DEF Mou!ListsAssumption, Mou!IsMountList
<1>2. /\ offering \in Shipped /\ fits \in Shipped
      /\ mounted # NoChoice => /\ DOMAIN mounted.mounts = DOMAIN fits.mounts
                             /\ \A k \in DOMAIN mounted.mounts : Mou!IsMountList(mounted.mounts[k])
                             /\ Mou!Validate(fits, mounted)
  BY DEF Mou!MountInv
<1>3. CASE Mou!Install
  <2>1. PICK k \in Mou!Parts, mounts \in MountLists \cup {NoChoice}, config \in Claims \cup {NoChoice} :
          LET request == [mounts |-> [x \in {k} |-> mounts], config |-> config]
              effective == Mou!Materialized(offering, request)
          IN /\ Mou!Validate(offering, request) /\ Mou!Validate(offering, effective)
             /\ mounted' = effective
    BY <1>3 DEF Mou!Install
  <2> DEFINE request == [mounts |-> [x \in {k} |-> mounts], config |-> config]
  <2>2. /\ mounted' = Mou!Materialized(offering, request) /\ Mou!Validate(offering, mounted')
        /\ fits' = offering /\ offering' = offering /\ Mou!Validate(offering, mounted)
    BY <1>3, <2>1 DEF Mou!Install
  <2>3. /\ DOMAIN mounted'.mounts = DOMAIN offering.mounts
        /\ mounted'.config = Mou!Either(Mou!ConfigOf(request),
                              Mou!Either(Mou!ConfigOf(mounted), offering.config))
        /\ \A x \in DOMAIN offering.mounts :
              mounted'.mounts[x] = Mou!Either(Mou!Chosen(request, x),
                                   Mou!Either(Mou!Chosen(mounted, x), offering.mounts[x]))
    BY <2>2 DEF Mou!Materialized
  <2>4. ASSUME NEW x \in DOMAIN offering.mounts PROVE Mou!IsMountList(mounted'.mounts[x])
    <3>1. Mou!Chosen(request, x) = NoChoice \/ Mou!IsMountList(Mou!Chosen(request, x))
      BY <1>1 DEF Mou!Chosen
    <3>2. Mou!Chosen(mounted, x) = NoChoice \/ Mou!IsMountList(Mou!Chosen(mounted, x))
      BY <1>2 DEF Mou!Chosen
    <3> QED
      BY <1>1, <1>2, <2>3, <3>1, <3>2 DEF Mou!Either
  <2>5. Mou!MountInv'
    BY <1>2, <2>2, <2>3, <2>4 DEF Mou!MountInv, Mou!Validate, Mou!Chosen, Mou!ConfigOf
  <2>6. ASSUME mounted # NoChoice PROVE DOMAIN mounted.mounts \subseteq DOMAIN mounted'.mounts
    <3> SUFFICES ASSUME NEW x \in DOMAIN mounted.mounts, x \notin DOMAIN offering.mounts PROVE FALSE
      BY <2>3
    <3>1. x \in Mou!Parts \ DOMAIN offering.mounts
      BY <1>2, <2>6 DEF Mou!Parts
    <3>2. Mou!Chosen(mounted, x) = NoChoice
      BY <2>2, <3>1 DEF Mou!Validate
    <3>3. Mou!Chosen(mounted, x) = mounted.mounts[x]
      BY <2>6 DEF Mou!Chosen
    <3> QED
      BY <1>1, <1>2, <2>6, <3>2, <3>3
  <2>7. mounted # NoChoice /\ mounted.config # NoChoice => mounted'.config # NoChoice
    BY <2>3 DEF Mou!Either, Mou!ConfigOf
  <2> QED
    BY <2>5, <2>6, <2>7 DEF Mou!ChoiceKept
<1>4. CASE Mou!SyncChart
  BY <1>2, <1>4 DEF Mou!SyncChart, Mou!MountInv, Mou!ChoiceKept, Mou!Validate
<1>5. CASE UNCHANGED Mou!mountVars
  BY <1>2, <1>5 DEF Mou!mountVars, Mou!MountInv, Mou!ChoiceKept, Mou!Validate
<1> QED
  BY <1>3, <1>4, <1>5 DEF Mou!Next

\* What is mounted serves the app it was mounted for.
LEMMA SavedServes == Mou!MountInv => Mou!MountsServe
<1> SUFFICES ASSUME Mou!MountInv, mounted # NoChoice PROVE Mou!MountsServe
  BY DEF Mou!MountsServe, mounted
<1> USE DEF offering, mounted, fits
<1>1. /\ DOMAIN mounted.mounts = DOMAIN fits.mounts
      /\ \A k \in DOMAIN mounted.mounts : Mou!IsMountList(mounted.mounts[k])
      /\ Mou!Validate(fits, mounted)
  BY DEF Mou!MountInv
<1>2. ASSUME NEW k \in DOMAIN mounted.mounts
      PROVE  Mou!ValidMounts(mounted.mounts[k], fits.required[k], fits.reserved[k])
  <2>1. Mou!Either(Mou!Chosen(mounted, k), fits.mounts[k]) = mounted.mounts[k]
    BY <1>1 DEF Mou!Either, Mou!Chosen, Mou!IsMountList
  <2> QED
    BY <1>1, <2>1 DEF Mou!Validate
<1>3. mounted.config # NoChoice => mounted.config.existing # "media-data"
  BY <1>1, MouListsAssumption DEF Mou!Validate, Mou!ConfigOf, Mou!Either, Mou!ValidConfig,
    Mou!ListsAssumption, Mou!MediaClaim
<1>4. ASSUME NEW k \in DOMAIN mounted.mounts
      PROVE  LET mounts == mounted.mounts[k]
             IN /\ \A path \in Mou!TargetsOf(mounts) \cup fits.reserved[k] :
                     LET serving == Mou!Serving(mounts, path)
                     IN \A i, j \in serving : i = j
                /\ \A path \in fits.reserved[k] :
                     /\ Mou!Serving(mounts, path) = {}
                     /\ \A target \in Mou!TargetsOf(mounts) : ~Mou!IsPrefix(path, target)
                /\ \A path \in fits.required[k] :
                     \E i \in Mou!Serving(mounts, path) : mounts[i].mode = "read-write"
                /\ \A folder \in Mou!SourcesOf(mounts) :
                     \A one, other \in Mou!ModesOf(mounts, folder) : one = other
  BY <1>1, <1>2, ValidServes
<1> QED
  BY <1>3, <1>4 DEF Mou!MountsServe, Mou!Writable, Mou!MediaClaim

-----------------------------------------------------------------------------
(* GpuChoice.                                                              *)

disk == v2
values == v3
order == v4
failed == v5
wanted == v8

LEMMA GpuInitially == Gpu!Init => Gpu!GpuInv
  BY DEF Gpu!Init, Gpu!GpuInv, Gpu!Charts, Gpu!Is, Gpu!GpuIsAsChosen

\* What is set is what the operation was for, with the chart it was checked with.
LEMMA GpuKept == Gpu!GpuInv /\ [Gpu!Next]_(Gpu!gpuVars) => Gpu!GpuInv'
<1> SUFFICES ASSUME Gpu!GpuInv, [Gpu!Next]_(Gpu!gpuVars) PROVE Gpu!GpuInv'
  OBVIOUS
<1> USE DEF disk, values, order, failed, wanted
<1> DEFINE
      Typed == /\ disk \in Gpu!Charts
               /\ failed = Nil \/ failed \in Gpu!Orders
      Ordered == order = Nil \/ order \in Gpu!Orders
      Valued == /\ values = Nil \/ values \in [gpu : Gpu!Selections \cup {Nil}, keys : SUBSET Gpu!Keys]
                /\ wanted \in [gpu : Gpu!Selections \cup {Nil}, roots : SUBSET Roots, known : BOOLEAN]
                /\ values = Nil => ~wanted.known
                /\ Gpu!GpuIsAsChosen
      Steady == /\ order # Nil /\ order.step # "queued" /\ order.steady => Gpu!Supported(order.gpu)
                /\ Gpu!Is("setting") => order.kind = "install" \/ order.gpu # Omitted
                /\ Gpu!Is("setting") /\ order.steady => disk.gpu
                /\ Gpu!Is("leaving") /\ order.steady =>
                     IF order.kind = "install" THEN ~disk.gpu ELSE order.gpu = Omitted
<1>1. Typed /\ Ordered /\ Valued /\ Steady
  BY DEF Gpu!GpuInv
<1>2. SUFFICES Typed' /\ Ordered' /\ Valued' /\ Steady'
  BY DEF Gpu!GpuInv
<1>3. ASSUME UNCHANGED <<values, wanted>> PROVE Valued'
  BY <1>1, <1>3 DEF Gpu!GpuIsAsChosen
<1>4. ASSUME order' = Nil \/ order'.step = "queued" PROVE Steady'
  BY <1>4 DEF Gpu!Is
<1>5. CASE Gpu!Enqueue
  <2>1. PICK kind \in {"install", "update"}, gpu \in Gpu!Selections \cup {Nil, Omitted} :
          order' = [kind |-> kind, gpu |-> gpu, step |-> "queued", steady |-> TRUE]
    BY <1>5 DEF Gpu!Enqueue
  <2>2. Ordered' /\ order'.step = "queued"
    BY <2>1 DEF Gpu!Orders, Gpu!Kinds
  <2> QED
    BY <1>1, <1>3, <1>4, <1>5, <2>2 DEF Gpu!Enqueue
<1>6. CASE Gpu!Retry
  <2>1. order' = [failed EXCEPT !.step = "queued", !.steady = TRUE] /\ failed # Nil
    BY <1>6 DEF Gpu!Retry
  <2>2. Ordered' /\ order'.step = "queued"
    BY <1>1, <2>1 DEF Gpu!Orders
  <2> QED
    BY <1>1, <1>3, <1>4, <1>6, <2>2 DEF Gpu!Retry
<1>7. CASE Gpu!Check
  <2>1. order # Nil /\ order \in Gpu!Orders /\ UNCHANGED <<disk, values, wanted>>
    BY <1>1, <1>7 DEF Gpu!Check, Gpu!Is
  <2>2. CASE Gpu!Supported(order.gpu) /\ Gpu!ValidSelection(order.gpu)
    <3>1. order' = [order EXCEPT !.step = "checked"] /\ UNCHANGED failed
      BY <1>7, <2>2 DEF Gpu!Check
    <3>2. Ordered' /\ order'.step = "checked" /\ order'.gpu = order.gpu
      BY <2>1, <3>1 DEF Gpu!Orders
    <3>3. Steady'
      BY <2>1, <2>2, <3>2 DEF Gpu!Is, Gpu!Supported
    <3> QED
      BY <1>1, <1>3, <2>1, <3>1, <3>2, <3>3
  <2>3. CASE ~(Gpu!Supported(order.gpu) /\ Gpu!ValidSelection(order.gpu))
    BY <1>1, <1>3, <1>4, <1>7, <2>1, <2>3 DEF Gpu!Check
  <2> QED
    BY <2>2, <2>3
<1>8. CASE Gpu!ChooseValues
  <2> DEFINE step == IF disk.gpu /\ (order.kind = "install" \/ order.gpu # Omitted)
                     THEN "setting" ELSE "leaving"
  <2>1. /\ order # Nil /\ order.step = "checked" /\ UNCHANGED <<disk, values, failed, wanted>>
        /\ order' = [order EXCEPT !.step = step] /\ order \in Gpu!Orders
    BY <1>1, <1>8 DEF Gpu!ChooseValues, Gpu!Is
  <2>2. /\ Ordered' /\ order'.step = step /\ order'.gpu = order.gpu /\ order'.kind = order.kind
        /\ order'.steady = order.steady /\ order.kind \in {"install", "update"}
    BY <2>1 DEF Gpu!Orders, Gpu!Kinds
  <2>3. order.steady => Gpu!Supported(order.gpu)
    BY <1>1, <2>1
  <2>4. Steady'
    BY <2>1, <2>2, <2>3 DEF Gpu!Is, Gpu!Supported
  <2> QED
    BY <1>1, <1>3, <2>1, <2>2, <2>4
<1>9. CASE Gpu!Helm
  <2>1. /\ order # Nil /\ order \in Gpu!Orders /\ order' = Nil /\ UNCHANGED disk
        /\ order.step \in {"setting", "leaving"}
    BY <1>1, <1>9 DEF Gpu!Helm, Gpu!Is
  <2>2. CASE failed' = order /\ UNCHANGED <<values, wanted>>
    BY <1>1, <1>3, <1>4, <2>1, <2>2
  <2>3. CASE values' = Gpu!HelmValues /\ wanted' = Gpu!Meant /\ UNCHANGED failed
    <3> DEFINE gpu == IF order.gpu = Omitted THEN Nil ELSE order.gpu
    <3>1. /\ gpu \in Gpu!Selections \cup {Nil} /\ order.kind \in {"install", "update"}
          /\ order.steady \in BOOLEAN
      BY <2>1 DEF Gpu!Orders, Gpu!Kinds
    <3>2. Gpu!Reused \in [gpu : Gpu!Selections \cup {Nil}, keys : SUBSET Gpu!Keys]
      BY <1>1 DEF Gpu!Reused
    <3>3. values' = IF order.step = "setting"
                    THEN [gpu |-> gpu, keys |-> Gpu!Reused.keys \ (disk.roots \X Resources)]
                    ELSE Gpu!Reused
      BY <2>3 DEF Gpu!HelmValues, Gpu!Cleared
    <3>4. /\ values' \in [gpu : Gpu!Selections \cup {Nil}, keys : SUBSET Gpu!Keys]
          /\ order.step = "setting" => /\ values'.gpu = gpu
                                       /\ values'.keys \cap (disk.roots \X Resources) = {}
          /\ order.step = "leaving" => values' = Gpu!Reused
      BY <2>1, <3>1, <3>2, <3>3
    <3>5. values' # Nil
      <4>1. values' = [gpu |-> values'.gpu, keys |-> values'.keys]
        BY <3>4
      <4> QED
        BY <3>4, <4>1, GpuNilAssumption DEF Gpu!NilAssumption, Gpu!Selections, Gpu!Keys
    <3>6. disk.roots \subseteq Roots
      BY <1>1 DEF Gpu!Charts
    <3>7. CASE order.kind = "update" /\ order.gpu = Omitted
      <4>1. wanted' = wanted
        BY <2>3, <3>7 DEF Gpu!Meant
      <4>2. order.step = "leaving"
        BY <1>1, <2>1, <3>7 DEF Gpu!Is
      <4>3. values # Nil => values' = values
        BY <3>4, <3>7, <4>2 DEF Gpu!Reused
      <4>4. wanted.known => values' = values
        BY <1>1, <4>3
      <4>5. Gpu!GpuIsAsChosen'
        <5> SUFFICES ASSUME wanted.known PROVE Gpu!GpuIsAsChosen'
          BY <4>1 DEF Gpu!GpuIsAsChosen
        <5>1. Gpu!GpuIsAsChosen /\ values' = values /\ wanted' = wanted
          BY <1>1, <4>1, <4>4
        <5> QED
          BY <5>1 DEF Gpu!GpuIsAsChosen
      <4>6. Valued'
        BY <1>1, <3>4, <3>5, <4>1, <4>5
      <4> QED
        BY <1>1, <1>4, <2>1, <2>3, <4>6
    <3>8. CASE ~(order.kind = "update" /\ order.gpu = Omitted)
      <4>1. wanted' = [gpu |-> gpu, roots |-> disk.roots, known |-> order.steady]
        BY <2>3, <3>8 DEF Gpu!Meant
      <4>2. ASSUME order.steady, order.step = "leaving"
            PROVE  values'.gpu = gpu /\ values'.keys = {}
        <5>1. Gpu!Supported(order.gpu)
          BY <1>1, <2>1, <4>2
        <5>2. order.kind = "install" /\ order.gpu = Omitted
          BY <1>1, <2>1, <3>1, <3>8, <4>2, <5>1 DEF Gpu!Is, Gpu!Supported
        <5>3. Gpu!Reused = [gpu |-> Nil, keys |-> {}]
          BY <5>2 DEF Gpu!Reused
        <5> QED
          BY <3>4, <4>2, <5>2, <5>3
      <4>3. /\ wanted'.gpu = gpu /\ wanted'.roots = disk.roots /\ wanted'.known = order.steady
            /\ wanted' \in [gpu : Gpu!Selections \cup {Nil}, roots : SUBSET Roots, known : BOOLEAN]
        BY <3>1, <3>6, <4>1
      <4>4. Gpu!GpuIsAsChosen'
        BY <2>1, <3>4, <4>2, <4>3 DEF Gpu!GpuIsAsChosen
      <4> QED
        BY <1>1, <1>4, <2>1, <2>3, <3>4, <3>5, <4>3, <4>4
    <3> QED
      BY <3>7, <3>8
  <2> QED
    BY <1>9, <2>2, <2>3 DEF Gpu!Helm
<1>10. CASE Gpu!Delete
  <2>1. /\ order = Nil /\ values' = Nil /\ UNCHANGED <<disk, order, failed>>
        /\ wanted' = [gpu |-> Nil, roots |-> {}, known |-> FALSE]
    BY <1>10 DEF Gpu!Delete
  <2> QED
    BY <1>1, <1>4, <2>1 DEF Gpu!GpuIsAsChosen
<1>11. CASE Gpu!ChangeNode
  <2>1. UNCHANGED <<disk, values, order, failed, wanted>>
    BY <1>11 DEF Gpu!ChangeNode
  <2> QED
    BY <1>1, <1>3, <2>1 DEF Gpu!Is, Gpu!Supported
<1>12. CASE Gpu!ChangeChart
  <2>1. /\ disk' \in Gpu!Charts /\ UNCHANGED <<values, failed, wanted>>
        /\ order' = IF order = Nil \/ Gpu!Is("queued") THEN order
                    ELSE [order EXCEPT !.steady = FALSE]
    BY <1>12 DEF Gpu!ChangeChart
  <2>2. CASE order = Nil \/ Gpu!Is("queued")
    <3>1. order' = Nil \/ order'.step = "queued"
      BY <2>1, <2>2 DEF Gpu!Is
    <3> QED
      BY <1>1, <1>3, <1>4, <2>1, <2>2, <3>1
  <2>3. CASE ~(order = Nil \/ Gpu!Is("queued"))
    <3>1. /\ Ordered' /\ order'.steady = FALSE /\ order'.step = order.step
          /\ order'.kind = order.kind /\ order'.gpu = order.gpu /\ order # Nil
      BY <1>1, <2>1, <2>3 DEF Gpu!Orders
    <3>2. Steady'
      BY <1>1, <3>1 DEF Gpu!Is
    <3> QED
      BY <1>1, <1>3, <2>1, <3>1, <3>2
  <2> QED
    BY <2>2, <2>3
<1>13. CASE UNCHANGED Gpu!gpuVars
  <2>1. UNCHANGED <<disk, values, order, failed, wanted>>
    BY <1>13 DEF Gpu!gpuVars
  <2> QED
    BY <1>1, <1>3, <2>1 DEF Gpu!Is, Gpu!Supported
<1> QED
  BY <1>5, <1>6, <1>7, <1>8, <1>9, <1>10, <1>11, <1>12, <1>13 DEF Gpu!Next

-----------------------------------------------------------------------------
(* AppDeployment.                                                          *)

assigned == v2
saved == v3
chart == v4
calling == v5
queue == v7
run == v8
newest == v9
retryable == v10
release == v11
vpnSecret == v12
claim == v13
cascaded == v14
changes == v15

\* No claim becomes one from before, so what may be marked fresh stays so.
LEMMA MarksGrow ==
  ASSUME claim \in {"none", "made", "legacy"}, claim' \in {claim, "none", "made"}
  PROVE  /\ claim' \in {"none", "made", "legacy"}
         /\ Dep!Marks \subseteq Dep!Marks' /\ Dep!KeptRows \subseteq Dep!KeptRows'
         /\ Dep!KeptOps \subseteq Dep!KeptOps'
<1> USE DEF claim
<1>1. claim' \in {"none", "made", "legacy"} /\ Dep!Marks \subseteq Dep!Marks'
  BY DEF Dep!Marks
<1>2. Dep!KeptRows \subseteq Dep!KeptRows'
  BY <1>1 DEF Dep!KeptRows
<1>3. Dep!KeptOps \subseteq Dep!KeptOps'
  BY <1>2 DEF Dep!KeptOps
<1> QED
  BY <1>1, <1>2, <1>3

\* What DeployInv says of an operation's record, and of the rows.
LEMMA OpsAreKept ==
  ASSUME NEW op, NEW id \in Nat, NEW kind \in {"wizard", "install", "update", "delete"},
         NEW pin \in Dep!KeptRows \cup {None}, kind = "wizard" => pin # None,
         NEW vpn \in Dep!MaybeProvider, NEW pinsVpn \in BOOLEAN,
         op = [id |-> id, kind |-> kind, pin |-> pin, vpn |-> vpn, pinsVpn |-> pinsVpn]
  PROVE  op \in Dep!KeptOps
  BY DEF Dep!KeptOps

\* The app may be there, and nothing is marked.
LEMMA DeployInitially == Dep!Init => Dep!DeployInv
<1> SUFFICES ASSUME Dep!Init PROVE Dep!DeployInv
  OBVIOUS
<1> USE DEF assigned, saved, chart, calling, queue, run, newest, retryable, release, claim, changes
<1>1. FALSE \in Dep!Marks /\ claim \in {"none", "legacy"}
  BY DEF Dep!Marks, Dep!Init
<1>2. Dep!SavedKept
  BY <1>1, DepBoundAssumption DEF Dep!Init, Dep!SavedKept, Dep!MaybeProvider,
    Dep!BoundAssumption
<1>3. Dep!QueueKept
  BY DEF Dep!Init, Dep!QueueKept, Dep!Statuses
<1>4. Dep!AskedKept
  BY DEF Dep!Init, Dep!AskedKept, Dep!NoRequest
<1>5. Dep!RunKept
  BY DEF Dep!Init, Dep!RunKept
<1>6. Dep!ReleaseKept
  <2>1. None \in Dep!MaybeProvider
    BY DEF Dep!MaybeProvider
  <2>2. [vpn |-> None, confirmed |-> FALSE] \in [vpn : Dep!MaybeProvider, confirmed : Dep!Marks]
    BY <1>1, <2>1
  <2>3. release \in {None, [vpn |-> None, confirmed |-> FALSE]}
    BY DEF Dep!Init
  <2> QED
    BY <2>2, <2>3 DEF Dep!ReleaseKept
<1> QED
  BY <1>2, <1>3, <1>4, <1>5, <1>6 DEF Dep!DeployInv

\* Every step of AppDeployment keeps DeployInv: the proof is made of a claim that is found
\* absent, and it and what it marks is handed on, never made up.
LEMMA DeployKept ==
  Dep!DeployInv /\ [Dep!Next]_(Dep!deployVars) => Dep!DeployInv'
<1> SUFFICES ASSUME Dep!DeployInv, [Dep!Next]_(Dep!deployVars) PROVE Dep!DeployInv'
  OBVIOUS
<1> USE DEF assigned, saved, chart, calling, queue, run, newest, retryable, release, claim, changes
<1> DEFINE Kinds == {"wizard", "install", "update", "delete"}
           Runs == [step : Dep!Steps, op : Dep!KeptOps, vpn : Dep!MaybeProvider, proven : Dep!Marks]
           Goes == claim' \in {claim, "none", "made"}
<1>1. /\ Dep!SavedKept /\ Dep!QueueKept /\ Dep!AskedKept /\ Dep!RunKept /\ Dep!ReleaseKept
      /\ claim \in {"none", "made", "legacy"}
      /\ changes \in 0 .. MaxChanges /\ chart \in 1 .. changes + 1
      /\ assigned \in Dep!MaybeProvider /\ saved \in Dep!KeptRows \cup {None}
      /\ newest \in [id : Nat, status : Dep!Statuses] /\ queue \in Seq(Dep!KeptOps) /\ retryable \in Dep!KeptOps \cup {None}
  BY DEF Dep!DeployInv, Dep!SavedKept, Dep!QueueKept
<1>2. chart \in Dep!Charts /\ None \in Dep!MaybeProvider /\ FALSE \in Dep!Marks
  <2>1. chart \in Dep!Charts
    BY <1>1, DepBoundAssumption DEF Dep!Charts, Dep!BoundAssumption
  <2>2. None \in Dep!MaybeProvider
    BY DEF Dep!MaybeProvider
  <2>3. FALSE \in Dep!Marks
    BY DEF Dep!Marks
  <2> QED
    BY <2>1, <2>2, <2>3
<1>3. Goes => /\ claim' \in {"none", "made", "legacy"}
              /\ Dep!Marks \subseteq Dep!Marks' /\ Dep!KeptRows \subseteq Dep!KeptRows'
              /\ Dep!KeptOps \subseteq Dep!KeptOps'
  BY <1>1, MarksGrow
<1>4. \A r \in Dep!KeptRows \cup {None} : r # None <=> r \in Dep!KeptRows
  <2>1. Dep!KeptRows \subseteq Dep!SavedRows
    BY DEF Dep!KeptRows, Dep!SavedRows, Dep!Marks
  <2> QED
    BY <2>1, DepNoneAssumption DEF Dep!NoneAssumption
\* What a step leaves alone.
<1>5. ASSUME Goes, UNCHANGED <<assigned, saved, chart, changes>> PROVE Dep!SavedKept'
  BY <1>1, <1>3, <1>5 DEF Dep!SavedKept
<1>6. ASSUME Goes, UNCHANGED <<newest, queue, retryable>> PROVE Dep!QueueKept'
  <2>1. queue \in Seq(Dep!KeptOps')
    BY <1>1, <1>3, <1>6
  <2> QED
    BY <1>1, <1>3, <1>6, <2>1 DEF Dep!QueueKept
<1>7. ASSUME Goes, calling' = calling PROVE Dep!AskedKept'
  BY <1>1, <1>3, <1>7 DEF Dep!AskedKept
<1>8. ASSUME Goes, run' = run, saved # None => saved' # None PROVE Dep!RunKept'
  <2>1. ASSUME run # Dep!Idle
        PROVE  run' \in [step : Dep!Steps, op : Dep!KeptOps', vpn : Dep!MaybeProvider,
                         proven : Dep!Marks']
    BY <1>1, <1>3, <1>8, <2>1 DEF Dep!RunKept
  <2> QED
    BY <1>1, <1>8, <2>1 DEF Dep!RunKept
<1>9. ASSUME Goes, release' = release PROVE Dep!ReleaseKept'
  BY <1>1, <1>3, <1>9 DEF Dep!ReleaseKept
\* What is queued, and what an operation pins.
<1>10. ASSUME claim' = claim, UNCHANGED <<run, release>>, saved # None => saved' # None,
              Dep!SavedKept', Dep!AskedKept', NEW op \in Dep!KeptOps, Dep!Enqueue(op)
       PROVE  Dep!DeployInv'
  <2>1. Dep!KeptOps' = Dep!KeptOps
    BY <1>10 DEF Dep!KeptOps, Dep!KeptRows, Dep!Marks
  <2>2. op.id \in Nat /\ "queued" \in Dep!Statuses
    BY DEF Dep!KeptOps, Dep!Statuses
  <2>3. newest' = [id |-> op.id, status |-> "queued"] /\ queue' = Append(queue, op)
        /\ retryable' = None
    BY <1>10 DEF Dep!Enqueue
  <2>4. Dep!QueueKept'
    BY <1>1, <2>1, <2>2, <2>3 DEF Dep!QueueKept
  <2> QED
    BY <1>8, <1>9, <1>10, <2>4 DEF Dep!DeployInv
<1>11. Dep!Snapshot \in Dep!KeptRows \cup {None}
  <2>1. ASSUME saved # None PROVE [saved EXCEPT !.version = chart] \in Dep!KeptRows
    <3>1. PICK r \in Dep!KeptRows : r = saved
      BY <1>1, <2>1
    <3>2. [r EXCEPT !.version = chart] \in Dep!KeptRows
      BY <1>2 DEF Dep!KeptRows
    <3> QED
      BY <3>1, <3>2
  <2> QED
    BY <2>1 DEF Dep!Snapshot
<1>12. ASSUME NEW kind \in Kinds, NEW pin \in Dep!KeptRows \cup {None},
              kind = "wizard" => pin # None, NEW vpn \in Dep!MaybeProvider
       PROVE  Dep!Operation(kind, pin, vpn) \in Dep!KeptOps
  <2>1. PICK pins \in BOOLEAN : pins = (kind = "wizard")
    OBVIOUS
  <2>2. PICK id \in Nat : id = newest.id + 1
    BY <1>1
  <2>3. [id |-> id, kind |-> kind, pin |-> pin, vpn |-> vpn, pinsVpn |-> pins] \in Dep!KeptOps
    BY <1>12, OpsAreKept
  <2> QED
    BY <2>1, <2>2, <2>3 DEF Dep!Operation
\* The requests.
<1>13. ASSUME NEW c \in Admins, NEW r, calling' = [calling EXCEPT ![c] = r],
              r.kind \in {"assign", "remove"} => r.to \in Dep!MaybeProvider,
              r.kind = "install" => /\ r.config \in Dep!Configs /\ r.version \in Dep!Charts
                                    /\ r.fresh \in Dep!Marks
                                    /\ r.vpn \in Dep!MaybeProvider \cup {"keep"},
              claim' = claim
       PROVE  Dep!AskedKept'
  <2>1. Dep!Marks' = Dep!Marks
    BY <1>13 DEF Dep!Marks
  <2> QED
    BY <1>1, <1>13, <2>1 DEF Dep!AskedKept
<1>14. ASSUME NEW c \in Admins, calling' = [calling EXCEPT ![c] = Dep!NoRequest], claim' = claim
       PROVE  Dep!AskedKept'
  BY <1>13, <1>14 DEF Dep!NoRequest
<1>15. ASSUME UNCHANGED <<assigned, saved, chart, changes, queue, run, newest, retryable, release,
                          claim>>, Dep!AskedKept'
       PROVE  Dep!DeployInv'
  BY <1>5, <1>6, <1>8, <1>9, <1>15 DEF Dep!DeployInv
<1>16. ASSUME NEW c \in Admins, NEW p \in Providers, Dep!BeginAssign(c, p) PROVE Dep!DeployInv'
  <2>1. PICK r : r = [kind |-> "assign", to |-> p, row |-> TRUE]
    OBVIOUS
  <2>2. calling' = [calling EXCEPT ![c] = r] /\ r.kind = "assign" /\ r.to \in Dep!MaybeProvider
    BY <1>16, <2>1 DEF Dep!BeginAssign, Dep!Begin, Dep!MaybeProvider
  <2>3. UNCHANGED <<assigned, saved, chart, changes, queue, run, newest, retryable, release, claim>>
    BY <1>16 DEF Dep!BeginAssign, Dep!tables, Dep!cluster
  <2>4. Dep!AskedKept'
    BY <1>13, <2>2, <2>3
  <2> QED
    BY <1>15, <2>3, <2>4
<1>17. ASSUME NEW c \in Admins, Dep!BeginRemove(c) PROVE Dep!DeployInv'
  <2>1. PICK r : r = [kind |-> "remove", to |-> None, row |-> assigned # None]
    OBVIOUS
  <2>2. calling' = [calling EXCEPT ![c] = r] /\ r.kind = "remove" /\ r.to \in Dep!MaybeProvider
    BY <1>2, <1>17, <2>1 DEF Dep!BeginRemove, Dep!Begin
  <2>3. UNCHANGED <<assigned, saved, chart, changes, queue, run, newest, retryable, release, claim>>
    BY <1>17 DEF Dep!BeginRemove, Dep!tables, Dep!cluster
  <2>4. Dep!AskedKept'
    BY <1>13, <2>2, <2>3
  <2> QED
    BY <1>15, <2>3, <2>4
<1>18. ASSUME NEW c \in Admins, NEW config \in Dep!Configs \cup {"omitted"},
              NEW vpn \in Providers \cup {None, "keep"}, Dep!BeginInstall(c, config, vpn)
       PROVE  Dep!DeployInv'
  <2>1. PICK chosen : chosen = Dep!Materialize(config)
    OBVIOUS
  <2>2. chosen \in Dep!Configs
    <3>1. saved # None => saved.config \in Dep!Configs
      BY <1>1 DEF Dep!KeptRows
    <3> QED
      BY <2>1, <3>1 DEF Dep!Materialize, Dep!Configs
  <2>3. PICK fresh : fresh = (saved # None /\ saved.fresh /\ saved.config = chosen)
    OBVIOUS
  <2>4. fresh \in Dep!Marks
    <3>1. saved # None => saved.fresh \in Dep!Marks
      BY <1>1 DEF Dep!KeptRows
    <3> QED
      BY <2>3, <3>1 DEF Dep!Marks
  <2>5. PICK r : r = [kind |-> "install", vpn |-> vpn, version |-> chart, config |-> chosen,
                      fresh |-> fresh]
    OBVIOUS
  <2>6. calling' = [calling EXCEPT ![c] = r]
    BY <1>18, <2>1, <2>3, <2>5 DEF Dep!BeginInstall, Dep!Begin
  <2>7. UNCHANGED <<assigned, saved, chart, changes, queue, run, newest, retryable, release, claim>>
    BY <1>18 DEF Dep!BeginInstall, Dep!tables, Dep!cluster
  <2>8. /\ r.kind = "install" /\ r.config \in Dep!Configs /\ r.version \in Dep!Charts
        /\ r.fresh \in Dep!Marks /\ r.vpn \in Dep!MaybeProvider \cup {"keep"}
    BY <1>2, <2>2, <2>4, <2>5 DEF Dep!MaybeProvider
  <2>9. Dep!AskedKept'
    BY <1>13, <2>6, <2>7, <2>8
  <2> QED
    BY <1>15, <2>7, <2>9
<1>19. ASSUME NEW c \in Admins, Dep!FailRequest(c) PROVE Dep!DeployInv'
  BY <1>14, <1>15, <1>19 DEF Dep!FailRequest, Dep!End, Dep!tables, Dep!cluster
<1>20. ASSUME NEW c \in Admins, Dep!CommitVpn(c) PROVE Dep!DeployInv'
  <2>1. /\ calling[c].kind \in {"assign", "remove"}
        /\ assigned' = IF calling[c].row THEN calling[c].to ELSE assigned
        /\ Dep!Enqueue(Dep!Operation("update", Dep!Snapshot, None))
        /\ calling' = [calling EXCEPT ![c] = Dep!NoRequest]
        /\ UNCHANGED <<saved, chart, run, release, claim, changes>>
    BY <1>20 DEF Dep!CommitVpn, Dep!End, Dep!cluster
  <2>2. assigned' \in Dep!MaybeProvider
    BY <1>1, <2>1 DEF Dep!AskedKept
  <2>3. Dep!KeptRows' = Dep!KeptRows
    BY <2>1 DEF Dep!KeptRows, Dep!Marks
  <2>4. Dep!SavedKept'
    BY <1>1, <2>1, <2>2, <2>3 DEF Dep!SavedKept
  <2>5. Dep!AskedKept'
    BY <1>14, <2>1
  <2>6. Dep!Operation("update", Dep!Snapshot, None) \in Dep!KeptOps
    BY <1>2, <1>11, <1>12
  <2> QED
    BY <1>10, <2>1, <2>4, <2>5, <2>6
<1>21. ASSUME NEW c \in Admins, Dep!CommitInstall(c) PROVE Dep!DeployInv'
  <2>1. PICK r : r = calling[c]
    OBVIOUS
  <2>2. PICK pin : pin = [config |-> r.config, version |-> r.version, fresh |-> r.fresh]
    OBVIOUS
  <2>3. PICK vpn : vpn = assigned'
    OBVIOUS
  <2>4. /\ r.kind = "install"
        /\ vpn = IF r.vpn = "keep" THEN assigned ELSE r.vpn
        /\ Dep!Enqueue(Dep!Operation("wizard", pin, vpn))
        /\ saved' = Dep!Saved(r.version, r.config)
        /\ calling' = [calling EXCEPT ![c] = Dep!NoRequest]
        /\ UNCHANGED <<chart, run, release, claim, changes>>
    BY <1>21, <2>1, <2>2, <2>3 DEF Dep!CommitInstall, Dep!End, Dep!cluster
  <2>5. /\ r.config \in Dep!Configs /\ r.version \in Dep!Charts /\ r.fresh \in Dep!Marks
        /\ r.vpn \in Dep!MaybeProvider \cup {"keep"}
    BY <1>1, <2>1, <2>4 DEF Dep!AskedKept
  <2>6. vpn \in Dep!MaybeProvider /\ pin \in Dep!KeptRows
    BY <1>1, <2>2, <2>4, <2>5 DEF Dep!KeptRows
  <2>7. saved' \in Dep!KeptRows
    <3>1. PICK fresh : fresh = (saved # None /\ saved.fresh /\ saved.config = r.config)
      OBVIOUS
    <3>2. saved # None => saved.fresh \in Dep!Marks
      BY <1>1 DEF Dep!KeptRows
    <3>3. fresh \in Dep!Marks
      BY <3>1, <3>2 DEF Dep!Marks
    <3>4. [config |-> r.config, version |-> r.version, fresh |-> fresh] \in Dep!KeptRows
      BY <2>5, <3>3 DEF Dep!KeptRows
    <3> QED
      BY <2>4, <3>1, <3>4 DEF Dep!Saved
  <2>8. Dep!KeptRows' = Dep!KeptRows
    BY <2>4 DEF Dep!KeptRows, Dep!Marks
  <2>9. Dep!SavedKept' /\ saved' # None
    BY <1>1, <1>4, <2>3, <2>4, <2>6, <2>7, <2>8 DEF Dep!SavedKept
  <2>10. Dep!AskedKept'
    BY <1>14, <2>4
  <2>11. Dep!Operation("wizard", pin, vpn) \in Dep!KeptOps
    BY <1>4, <1>12, <2>6
  <2> QED
    BY <1>10, <2>4, <2>9, <2>10, <2>11
\* The queue.
<1>22. ASSUME NEW kind \in {"install", "update", "delete"}, Dep!EnqueueOperation(kind)
       PROVE  Dep!DeployInv'
  <2>1. PICK pin : pin = IF kind = "delete" THEN None ELSE Dep!Snapshot
    OBVIOUS
  <2>2. /\ Dep!Enqueue(Dep!Operation(kind, pin, None))
        /\ UNCHANGED <<assigned, saved, chart, calling, run, release, claim, changes>>
    BY <1>22, <2>1 DEF Dep!EnqueueOperation, Dep!tables, Dep!requests, Dep!cluster
  <2>3. Dep!Operation(kind, pin, None) \in Dep!KeptOps
    BY <1>2, <1>11, <1>12, <2>1
  <2> QED
    BY <1>5, <1>7, <1>10, <2>2, <2>3
<1>23. CASE Dep!RetryOperation
  <2>1. PICK op : op = retryable
    OBVIOUS
  <2>2. PICK pin : pin = IF op.pin = None THEN None ELSE [op.pin EXCEPT !.fresh = saved.fresh]
    OBVIOUS
  <2>3. PICK new : new = [op EXCEPT !.id = newest.id + 1, !.pin = pin]
    OBVIOUS
  <2>4. /\ op # None /\ Dep!Enqueue(new)
        /\ op.pin # None => saved # None
        /\ UNCHANGED <<assigned, saved, chart, calling, run, release, claim, changes>>
    BY <1>23, <2>1, <2>2, <2>3 DEF Dep!RetryOperation, Dep!PinMatches, Dep!tables, Dep!requests,
      Dep!cluster
  <2>5. op \in Dep!KeptOps
    BY <1>1, <2>1, <2>4
  <2>6. pin \in Dep!KeptRows \cup {None} /\ (pin = None => op.pin = None)
    <3>1. ASSUME op.pin # None PROVE pin \in Dep!KeptRows
      <4>1. saved.fresh \in Dep!Marks
        BY <1>1, <2>4, <3>1 DEF Dep!KeptRows
      <4>2. PICK old \in Dep!KeptRows : old = op.pin
        BY <2>5, <3>1 DEF Dep!KeptOps
      <4>3. [old EXCEPT !.fresh = saved.fresh] \in Dep!KeptRows
        BY <4>1 DEF Dep!KeptRows
      <4> QED
        BY <2>2, <3>1, <4>2, <4>3
    <3> QED
      BY <1>4, <2>2, <3>1
  <2>7. new \in Dep!KeptOps
    <3>1. PICK old \in Nat, kind \in Kinds, was \in Dep!KeptRows \cup {None},
              vpn \in Dep!MaybeProvider, pinsVpn \in BOOLEAN :
            /\ op = [id |-> old, kind |-> kind, pin |-> was, vpn |-> vpn, pinsVpn |-> pinsVpn]
            /\ kind = "wizard" => was # None
      BY <2>5 DEF Dep!KeptOps
    <3>2. PICK id \in Nat : id = newest.id + 1
      BY <1>1
    <3>3. new = [id |-> id, kind |-> kind, pin |-> pin, vpn |-> vpn, pinsVpn |-> pinsVpn]
      BY <2>3, <3>1, <3>2
    <3>4. kind = "wizard" => pin # None
      <4>1. op.pin = was
        BY <3>1
      <4> QED
        BY <2>6, <3>1, <4>1
    <3> QED
      BY <2>6, <3>3, <3>4, OpsAreKept
  <2> QED
    BY <1>5, <1>7, <1>10, <2>4, <2>7
<1>24. ASSUME UNCHANGED <<assigned, saved, chart, changes, calling, release, claim>>,
              Dep!QueueKept', Dep!RunKept'
       PROVE  Dep!DeployInv'
  BY <1>5, <1>7, <1>9, <1>24 DEF Dep!DeployInv
<1>25. ASSUME NEW i, Dep!CancelQueued(i) PROVE Dep!DeployInv'
  <2>1. /\ i \in DOMAIN queue
        /\ queue' = SubSeq(queue, 1, i - 1) \o SubSeq(queue, i + 1, Len(queue))
        /\ newest' \in {newest, [newest EXCEPT !.status = "cancelled"]}
        /\ UNCHANGED <<assigned, saved, chart, changes, calling, run, retryable, release, claim>>
    BY <1>25 DEF Dep!CancelQueued, Dep!tables, Dep!requests, Dep!cluster
  <2>2. queue' \in Seq(Dep!KeptOps)
    <3>1. i \in 1 .. Len(queue)
      BY <1>1, <2>1
    <3>2. /\ SubSeq(queue, 1, i - 1) \in Seq(Dep!KeptOps)
          /\ SubSeq(queue, i + 1, Len(queue)) \in Seq(Dep!KeptOps)
      BY <1>1, <3>1
    <3> QED
      BY <2>1, <3>2
  <2>3. newest' \in [id : Nat, status : Dep!Statuses]
    BY <1>1, <2>1 DEF Dep!Statuses
  <2>4. Dep!KeptOps' = Dep!KeptOps
    BY <2>1 DEF Dep!KeptOps, Dep!KeptRows, Dep!Marks
  <2>5. Dep!QueueKept'
    BY <1>1, <2>1, <2>2, <2>3, <2>4 DEF Dep!QueueKept
  <2> QED
    BY <1>8, <1>24, <2>1, <2>5
\* Providers and charts.
<1>26. ASSUME UNCHANGED <<saved, calling, queue, run, newest, retryable, release, claim>>,
              changes' \in 0 .. MaxChanges, chart' \in 1 .. changes' + 1,
              assigned' \in Dep!MaybeProvider
       PROVE  Dep!DeployInv'
  <2>1. Dep!SavedKept'
    BY <1>1, <1>3, <1>26 DEF Dep!SavedKept
  <2> QED
    BY <1>6, <1>7, <1>8, <1>9, <1>26, <2>1 DEF Dep!DeployInv
<1>27. ASSUME \/ Dep!SyncChart
              \/ \E p \in Providers : \/ Dep!BeginDeleteProvider(p)
                                      \/ \E status : Dep!SetProvider(p, status)
       PROVE  Dep!DeployInv'
  <2>1. /\ changes < MaxChanges /\ changes' = changes + 1 /\ chart' \in {chart, chart + 1}
        /\ UNCHANGED <<assigned, saved, calling, queue, run, newest, retryable, release, claim>>
    BY <1>27 DEF Dep!SyncChart, Dep!BeginDeleteProvider, Dep!SetProvider, Dep!Change, Dep!tables,
      Dep!requests, Dep!cluster
  <2>2. changes' \in 0 .. MaxChanges /\ chart' \in 1 .. changes' + 1
    BY <1>1, <2>1, DepBoundAssumption DEF Dep!BoundAssumption
  <2> QED
    BY <1>1, <1>26, <2>1, <2>2
<1>28. CASE Dep!CommitDeleteProvider
  <2>1. /\ assigned' \in {assigned, None}
        /\ UNCHANGED <<saved, chart, calling, queue, run, newest, retryable, release, claim, changes>>
    BY <1>28 DEF Dep!CommitDeleteProvider, Dep!cluster
  <2> QED
    BY <1>1, <1>2, <1>26, <2>1
\* Execution: a step that ends the operation, and one that goes on.
<1>29. ASSUME run # Dep!Idle
       PROVE  /\ run \in Runs /\ run.op \in Dep!KeptOps
              /\ run.step = "proof" => run.proven
              /\ run.proven => saved # None
  BY <1>1, <1>29 DEF Dep!RunKept
<1>30. ASSUME Goes, run # Dep!Idle, NEW status \in Dep!Statuses, Dep!Finished(status), queue' = queue
       PROVE  Dep!QueueKept' /\ Dep!RunKept'
  <2>1. /\ run' = Dep!Idle /\ newest' \in {newest, [newest EXCEPT !.status = status]}
        /\ retryable' \in {retryable, run.op, None}
    BY <1>30 DEF Dep!Finished
  <2>2. newest' \in [id : Nat, status : Dep!Statuses]
    BY <1>1, <2>1
  <2>3. retryable' \in Dep!KeptOps' \cup {None}
    BY <1>1, <1>3, <1>29, <1>30, <2>1
  <2>4. queue' \in Seq(Dep!KeptOps')
    BY <1>1, <1>3, <1>30
  <2> QED
    BY <2>1, <2>2, <2>3, <2>4 DEF Dep!QueueKept, Dep!RunKept
<1>31. ASSUME Goes, run # Dep!Idle, NEW step \in Dep!Steps, NEW vpn \in Dep!MaybeProvider,
              NEW proven \in Dep!Marks', saved # None => saved' # None,
              run' = [run EXCEPT !.step = step, !.vpn = vpn, !.proven = proven],
              step = "proof" => proven, proven => saved # None
       PROVE  Dep!RunKept'
  <2>1. PICK op \in Dep!KeptOps : op = run.op
    BY <1>29, <1>31
  <2>2. run' = [step |-> step, op |-> op, vpn |-> vpn, proven |-> proven]
    BY <1>29, <1>31, <2>1
  <2>3. op \in Dep!KeptOps'
    BY <1>3, <1>31
  <2>4. run' \in [step : Dep!Steps, op : Dep!KeptOps', vpn : Dep!MaybeProvider, proven : Dep!Marks']
    BY <1>31, <2>2, <2>3
  <2>5. run'.step = step /\ run'.proven = proven
    BY <2>2
  <2> QED
    BY <1>31, <2>4, <2>5 DEF Dep!RunKept
<1>32. ASSUME Goes, run # Dep!Idle, NEW step \in Dep!Steps, Dep!To(step), queue' = queue,
              saved # None => saved' # None, step = "proof" => run.proven
       PROVE  Dep!QueueKept' /\ Dep!RunKept'
  <2>1. run' = [run EXCEPT !.step = step] /\ UNCHANGED <<newest, retryable>>
    BY <1>32 DEF Dep!To
  <2>2. run \in Runs
    BY <1>29, <1>32
  <2>3. PICK vpn \in Dep!MaybeProvider, proven \in Dep!Marks : vpn = run.vpn /\ proven = run.proven
    BY <2>2
  <2>4. run' = [run EXCEPT !.step = step, !.vpn = vpn, !.proven = proven]
    BY <2>1, <2>2, <2>3
  <2>5. proven \in Dep!Marks' /\ (step = "proof" => proven) /\ (proven => saved # None)
    BY <1>3, <1>29, <1>32, <2>3
  <2>6. Dep!RunKept'
    BY <1>31, <1>32, <2>4, <2>5
  <2> QED
    BY <1>6, <1>32, <2>1, <2>6
<1>33. CASE Dep!ClaimOperation
  <2>1. PICK op : op = Head(queue)
    OBVIOUS
  <2>2. /\ queue # <<>> /\ queue' = Tail(queue)
        /\ run' = [step |-> "check", op |-> op, vpn |-> None, proven |-> FALSE]
        /\ UNCHANGED <<assigned, saved, chart, calling, newest, retryable, release, claim, changes>>
    BY <1>33, <2>1 DEF Dep!ClaimOperation, Dep!tables, Dep!requests, Dep!cluster
  <2>3. op \in Dep!KeptOps /\ queue' \in Seq(Dep!KeptOps)
    BY <1>1, <2>1, <2>2
  <2>4. Dep!KeptOps' = Dep!KeptOps /\ Dep!Marks' = Dep!Marks
    BY <2>2 DEF Dep!KeptOps, Dep!KeptRows, Dep!Marks
  <2>5. Dep!QueueKept'
    BY <1>1, <2>2, <2>3, <2>4 DEF Dep!QueueKept
  <2>6. run' \in Runs /\ run'.step = "check" /\ run'.proven = FALSE
    <3>1. "check" \in Dep!Steps
      BY DEF Dep!Steps
    <3>2. [step |-> "check", op |-> op, vpn |-> None, proven |-> FALSE] \in Runs
      BY <1>2, <2>3, <3>1
    <3> QED
      BY <2>2, <3>2
  <2>7. Dep!RunKept'
    BY <2>4, <2>6 DEF Dep!RunKept
  <2> QED
    BY <1>24, <2>2, <2>5, <2>7
<1>34. CASE Dep!CheckPins
  <2>1. PICK op : op = run.op
    OBVIOUS
  <2>2. PICK proven : proven = (/\ op.kind = "wizard" /\ op.pin.config = "own"
                                /\ release = None /\ Dep!PrivateClaimAbsent)
    OBVIOUS
  <2>3. /\ run # Dep!Idle /\ (op.pin # None => saved # None)
        /\ run' = [run EXCEPT !.step = "resolve", !.proven = proven]
        /\ UNCHANGED <<assigned, saved, chart, calling, queue, newest, retryable, release, claim,
                       changes>>
    BY <1>34, <2>1, <2>2 DEF Dep!CheckPins, Dep!PinMatches, Dep!tables, Dep!requests, Dep!cluster
  <2>4. run \in Runs /\ op \in Dep!KeptOps
    BY <1>29, <2>1, <2>3
  <2>5. proven \in Dep!Marks' /\ (proven => saved # None)
    <3>1. proven => op.kind = "wizard" /\ claim = "none"
      BY <2>2 DEF Dep!PrivateClaimAbsent
    <3>2. proven \in BOOLEAN
      BY <2>2
    <3>3. op.kind = "wizard" => op.pin # None
      BY <2>4 DEF Dep!KeptOps
    <3> QED
      BY <2>3, <3>1, <3>2, <3>3 DEF Dep!Marks
  <2>6. PICK vpn \in Dep!MaybeProvider : vpn = run.vpn
    BY <2>4
  <2>7. run' = [run EXCEPT !.step = "resolve", !.vpn = vpn, !.proven = proven]
    BY <2>3, <2>4, <2>6
  <2>8. "resolve" \in Dep!Steps /\ "resolve" # "proof"
    BY DEF Dep!Steps
  <2>9. Dep!RunKept'
    BY <1>31, <2>3, <2>5, <2>7, <2>8, ZenonT(60)
  <2> QED
    BY <1>6, <1>24, <2>3, <2>9
<1>35. CASE Dep!ResolveVpn
  <2>1. PICK step : step = IF assigned = None THEN "helm" ELSE "secret"
    OBVIOUS
  <2>2. /\ run # Dep!Idle /\ run' = [run EXCEPT !.vpn = assigned, !.step = step]
        /\ UNCHANGED <<assigned, saved, chart, calling, queue, newest, retryable, release, claim,
                       changes>>
    BY <1>35, <2>1 DEF Dep!ResolveVpn, Dep!tables, Dep!requests, Dep!cluster
  <2>3. run \in Runs /\ (run.proven => saved # None)
    BY <1>29, <2>2
  <2>4. PICK proven \in Dep!Marks : proven = run.proven
    BY <2>3
  <2>5. PICK vpn \in Dep!MaybeProvider : vpn = assigned
    BY <1>1
  <2>6. run' = [run EXCEPT !.step = step, !.vpn = vpn, !.proven = proven]
    BY <2>2, <2>3, <2>4, <2>5
  <2>7. proven \in Dep!Marks' /\ (proven => saved # None) /\ step \in Dep!Steps /\ step # "proof"
    BY <1>3, <2>1, <2>2, <2>3, <2>4 DEF Dep!Steps
  <2>8. Dep!RunKept'
    BY <1>31, <2>2, <2>6, <2>7, ZenonT(60)
  <2> QED
    BY <1>6, <1>24, <2>2, <2>8
<1>36. CASE Dep!ReplaceSecret
  <2>1. /\ run # Dep!Idle /\ Dep!To("helm")
        /\ UNCHANGED <<assigned, saved, chart, calling, queue, release, claim, changes>>
    BY <1>36 DEF Dep!ReplaceSecret, Dep!tables, Dep!requests
  <2>2. "helm" \in Dep!Steps /\ "helm" # "proof"
    BY DEF Dep!Steps
  <2>3. Dep!QueueKept' /\ Dep!RunKept'
    BY <1>32, <2>1, <2>2
  <2> QED
    BY <1>24, <2>1, <2>3
<1>37. CASE Dep!SecretFails \/ Dep!CleanUp \/ Dep!FailOperation
  <2>1. /\ run # Dep!Idle /\ \E status \in {"done", "failed"} : Dep!Finished(status)
        /\ UNCHANGED <<assigned, saved, chart, calling, queue, release, claim, changes>>
    BY <1>37 DEF Dep!SecretFails, Dep!CleanUp, Dep!FailOperation, Dep!Cleaning, Dep!Verdict,
      Dep!tables, Dep!requests, Dep!cluster
  <2>2. Dep!QueueKept' /\ Dep!RunKept'
    BY <1>30, <2>1 DEF Dep!Statuses
  <2> QED
    BY <1>24, <2>1, <2>2
<1>38. CASE Dep!MarkFails
  <2>1. /\ run # Dep!Idle /\ Dep!To("cleanup after failure")
        /\ UNCHANGED <<assigned, saved, chart, calling, queue, release, claim, changes>>
    BY <1>38 DEF Dep!MarkFails, Dep!tables, Dep!requests, Dep!cluster
  <2>2. "cleanup after failure" \in Dep!Steps /\ "cleanup after failure" # "proof"
    BY DEF Dep!Steps
  <2>3. Dep!QueueKept' /\ Dep!RunKept'
    BY <1>32, <2>1, <2>2
  <2> QED
    BY <1>24, <2>1, <2>3
<1>39. CASE Dep!MarkFresh
  <2>1. /\ run # Dep!Idle /\ run.step = "proof" /\ Dep!To("cleanup")
        /\ saved' = [saved EXCEPT !.fresh = TRUE]
        /\ UNCHANGED <<assigned, chart, calling, queue, release, claim, changes>>
    BY <1>39 DEF Dep!MarkFresh, Dep!requests, Dep!cluster
  <2>2. saved # None /\ run.proven /\ run.proven \in Dep!Marks
    BY <1>29, <2>1
  <2>3. TRUE \in Dep!Marks /\ Dep!KeptRows' = Dep!KeptRows
    BY <2>1, <2>2 DEF Dep!Marks, Dep!KeptRows
  <2>4. saved' \in Dep!KeptRows
    <3>1. PICK r \in Dep!KeptRows : r = saved
      BY <1>1, <2>2
    <3>2. [r EXCEPT !.fresh = TRUE] \in Dep!KeptRows
      BY <2>3 DEF Dep!KeptRows
    <3> QED
      BY <2>1, <3>1, <3>2
  <2>5. Dep!SavedKept' /\ saved' # None
    BY <1>1, <1>4, <2>1, <2>3, <2>4 DEF Dep!SavedKept
  <2>6. "cleanup" \in Dep!Steps /\ "cleanup" # "proof"
    BY DEF Dep!Steps
  <2>7. Dep!QueueKept' /\ Dep!RunKept'
    BY <1>32, <2>1, <2>5, <2>6
  <2> QED
    BY <1>7, <1>9, <2>1, <2>5, <2>7 DEF Dep!DeployInv
\* Helm.
<1>40. ASSUME run # Dep!Idle, Dep!HelmApplies PROVE Goes /\ Dep!ReleaseKept'
  <2>1. Goes
    BY <1>1, <1>40 DEF Dep!HelmApplies
  <2>2. PICK confirmed : confirmed =
          (\/ run.op.pin # None /\ run.op.pin.fresh /\ run.op.pin.config = "own"
           \/ run.op.kind = "update" /\ release # None /\ release.confirmed)
    OBVIOUS
  <2>3. release' = [vpn |-> run.vpn, confirmed |-> confirmed]
    BY <1>40, <2>2 DEF Dep!HelmApplies, Dep!Values, Dep!VpnValues
  <2>4. run.op.pin # None => run.op.pin.fresh \in Dep!Marks
    BY <1>29, <1>40 DEF Dep!KeptOps, Dep!KeptRows
  <2>5. release # None => release.confirmed \in Dep!Marks
    BY <1>1 DEF Dep!ReleaseKept
  <2>6. confirmed \in Dep!Marks
    <3>1. confirmed \in BOOLEAN
      BY <2>2
    <3>2. claim = "legacy" => ~confirmed
      BY <2>2, <2>4, <2>5 DEF Dep!Marks
    <3> QED
      BY <3>1, <3>2 DEF Dep!Marks
  <2>7. confirmed \in Dep!Marks' /\ run.vpn \in Dep!MaybeProvider
    BY <1>3, <1>29, <1>40, <2>1, <2>6
  <2>8. [vpn |-> run.vpn, confirmed |-> confirmed] \in [vpn : Dep!MaybeProvider, confirmed : Dep!Marks']
    BY <2>7
  <2> QED
    BY <2>1, <2>3, <2>8 DEF Dep!ReleaseKept
<1>41. CASE Dep!RunHelm
  <2>1. PICK step : step = IF run.proven THEN "proof" ELSE "cleanup"
    OBVIOUS
  <2>2. /\ run # Dep!Idle /\ Dep!HelmApplies /\ Dep!To(step)
        /\ UNCHANGED <<assigned, saved, chart, calling, queue, changes>>
    BY <1>41, <2>1 DEF Dep!RunHelm, Dep!tables, Dep!requests
  <2>3. step \in Dep!Steps /\ (step = "proof" => run.proven)
    BY <2>1 DEF Dep!Steps
  <2>4. Goes /\ Dep!ReleaseKept'
    BY <1>40, <2>2
  <2>5. Dep!QueueKept' /\ Dep!RunKept'
    BY <1>32, <2>2, <2>3, <2>4
  <2> QED
    BY <1>5, <1>7, <2>2, <2>4, <2>5 DEF Dep!DeployInv
<1>42. CASE Dep!HelmFails
  <2>1. /\ run # Dep!Idle /\ (Dep!HelmApplies \/ UNCHANGED <<release, claim>>)
        /\ Dep!Finished("failed")
        /\ UNCHANGED <<assigned, saved, chart, calling, queue, changes>>
    BY <1>42 DEF Dep!HelmFails, Dep!tables, Dep!requests
  <2>2. Goes /\ Dep!ReleaseKept' /\ "failed" \in Dep!Statuses
    BY <1>9, <1>40, <2>1 DEF Dep!Statuses
  <2>3. Dep!QueueKept' /\ Dep!RunKept'
    BY <1>30, <2>1, <2>2
  <2> QED
    BY <1>5, <1>7, <2>1, <2>2, <2>3 DEF Dep!DeployInv
<1>43. CASE Dep!RemoveApp
  <2>1. /\ run # Dep!Idle /\ (Dep!Finished("done") \/ Dep!Finished("failed"))
        /\ release' \in {release, None} /\ claim' \in {claim, "none"}
        /\ UNCHANGED <<assigned, saved, chart, calling, queue, changes>>
    BY <1>43 DEF Dep!RemoveApp, Dep!tables, Dep!requests, Dep!cluster
  <2>2. Goes
    BY <2>1
  <2>3. Dep!ReleaseKept'
    BY <1>9, <2>1, <2>2 DEF Dep!ReleaseKept
  <2>4. Dep!QueueKept' /\ Dep!RunKept'
    BY <1>30, <2>1, <2>2 DEF Dep!Statuses
  <2> QED
    BY <1>5, <1>7, <2>1, <2>2, <2>3, <2>4 DEF Dep!DeployInv
<1>44. CASE UNCHANGED Dep!deployVars
  BY <1>7, <1>15, <1>44 DEF Dep!deployVars, Dep!tables, Dep!requests, Dep!cluster
<1>45. CASE Dep!Requested
  BY <1>16, <1>17, <1>18, <1>19, <1>20, <1>21, <1>45 DEF Dep!Requested
<1>46. CASE Dep!Execute
  BY <1>33, <1>34, <1>35, <1>36, <1>37, <1>38, <1>39, <1>41, <1>42, <1>43, <1>46 DEF Dep!Execute
<1> QED
  BY <1>22, <1>23, <1>25, <1>27, <1>28, <1>44, <1>45, <1>46 DEF Dep!Next

\* An operation is taken in its turn, and resolves the assignment that is there: what is done
\* last is done with it.
LEMMA SettledInitially == Dep!Init => Dep!SettledInv
<1> SUFFICES ASSUME Dep!Init PROVE Dep!SettledInv
  OBVIOUS
<1>1. queue = <<>> /\ run = Dep!Idle /\ newest = [id |-> 0, status |-> "none"]
  BY DEF Dep!Init, queue, run, newest
<1> QED
  BY <1>1, DeployInitially DEF Dep!SettledInv, Dep!Numbered, Dep!AppliedNow, Dep!NewestResolved,
    Dep!DoneFollows, queue, run, newest

LEMMA SettledKept ==
  Dep!SettledInv /\ [Dep!Next]_(Dep!deployVars) => Dep!SettledInv'
<1> SUFFICES ASSUME Dep!SettledInv, [Dep!Next]_(Dep!deployVars) PROVE Dep!SettledInv'
  OBVIOUS
<1> USE DEF assigned, queue, run, newest, release, vpnSecret, cascaded
<1> DEFINE Late == {"helm"} \cup Dep!Applied
           Queued == \A i \in DOMAIN queue : /\ queue[i].id <= newest.id
                                            /\ \A j \in 1 .. i - 1 : queue[j].id < queue[i].id
           Turn == run # Dep!Idle => /\ run.op.id <= newest.id
                                     /\ \A i \in DOMAIN queue : run.op.id < queue[i].id
           Done == newest.status = "done" => queue = <<>> /\ run = Dep!Idle
<1>1. /\ Dep!DeployInv /\ Queued /\ Turn /\ Done /\ Dep!AppliedNow /\ Dep!NewestResolved
      /\ Dep!DoneFollows
  BY DEF Dep!SettledInv, Dep!Numbered
<1>2. /\ newest \in [id : Nat, status : Dep!Statuses] /\ queue \in Seq(Dep!KeptOps)
      /\ Len(queue) \in Nat /\ DOMAIN queue = 1 .. Len(queue)
      /\ \A i \in DOMAIN queue : queue[i].id \in Nat
      /\ run # Dep!Idle => run \in [step : Dep!Steps, op : Dep!KeptOps, vpn : Dep!MaybeProvider,
                                    proven : Dep!Marks] /\ run.op.id \in Nat
  <2>1. newest \in [id : Nat, status : Dep!Statuses] /\ queue \in Seq(Dep!KeptOps)
    BY <1>1 DEF Dep!DeployInv, Dep!QueueKept
  <2>2. \A op \in Dep!KeptOps : op.id \in Nat
    BY DEF Dep!KeptOps
  <2>3. Len(queue) \in Nat /\ DOMAIN queue = 1 .. Len(queue)
    BY <2>1
  <2>4. \A i \in DOMAIN queue : queue[i] \in Dep!KeptOps
    BY <2>1
  <2>5. run # Dep!Idle => run \in [step : Dep!Steps, op : Dep!KeptOps, vpn : Dep!MaybeProvider,
                                   proven : Dep!Marks]
    BY <1>1 DEF Dep!DeployInv, Dep!RunKept
  <2> QED
    BY <2>1, <2>2, <2>3, <2>4, <2>5
<1>3. Dep!DeployInv'
  BY <1>1, DeployKept
<1>4. SUFFICES Queued' /\ Turn' /\ Done' /\ Dep!AppliedNow' /\ Dep!NewestResolved' /\ Dep!DoneFollows'
  BY <1>3 DEF Dep!SettledInv, Dep!Numbered
<1> DEFINE Kept == Queued' /\ Turn' /\ Done' /\ Dep!AppliedNow' /\ Dep!NewestResolved' /\ Dep!DoneFollows'
\* What is queued comes last, and is not done.
<1>5. ASSUME NEW op, op.id = newest.id + 1, Dep!Enqueue(op), UNCHANGED <<run, release, vpnSecret, cascaded>>
      PROVE  Kept
  <2>1. /\ newest' = [id |-> newest.id + 1, status |-> "queued"] /\ queue' = Append(queue, op)
    BY <1>5 DEF Dep!Enqueue
  <2>2. /\ newest'.id = newest.id + 1 /\ newest'.status = "queued" /\ newest.id \in Nat
        /\ DOMAIN queue' = 1 .. Len(queue) + 1
        /\ \A i \in DOMAIN queue : queue'[i] = queue[i]
        /\ queue'[Len(queue) + 1] = op
    BY <1>2, <2>1
  <2>3. Queued'
    <3> SUFFICES ASSUME NEW i \in 1 .. Len(queue) + 1
                 PROVE  /\ queue'[i].id <= newest'.id
                        /\ \A j \in 1 .. i - 1 : queue'[j].id < queue'[i].id
      BY <2>2
    <3>1. CASE i \in DOMAIN queue
      <4>1. queue'[i].id <= newest'.id
        BY <1>1, <1>2, <2>2, <3>1
      <4>2. ASSUME NEW j \in 1 .. i - 1 PROVE queue'[j].id < queue'[i].id
        <5>1. j \in DOMAIN queue
          BY <1>2, <3>1
        <5> QED
          BY <1>1, <2>2, <3>1, <5>1
      <4> QED
        BY <4>1, <4>2
    <3>2. CASE i = Len(queue) + 1
      <4>1. queue'[i].id = newest.id + 1
        BY <1>5, <2>2, <3>2
      <4>2. ASSUME NEW j \in 1 .. i - 1 PROVE queue'[j].id < queue'[i].id
        <5>1. j \in DOMAIN queue
          BY <1>2, <3>2
        <5> QED
          BY <1>1, <1>2, <2>2, <4>1, <5>1
      <4> QED
        BY <2>2, <4>1, <4>2
    <3> QED
      BY <1>2, <3>1, <3>2
  <2>4. Turn'
    <3> SUFFICES ASSUME run # Dep!Idle, NEW i \in DOMAIN queue'
                 PROVE  run.op.id <= newest'.id /\ run.op.id < queue'[i].id
      BY <1>1, <1>2, <1>5, <2>2
    <3>1. i \in DOMAIN queue \/ i = Len(queue) + 1
      BY <1>2, <2>2
    <3> QED
      BY <1>1, <1>2, <1>5, <2>2, <3>1
  <2>5. Dep!AppliedNow'
    BY <1>1, <1>5 DEF Dep!AppliedNow
  <2>6. Dep!NewestResolved'
    BY <1>1, <1>2, <1>5, <2>2 DEF Dep!NewestResolved
  <2> QED
    BY <2>2, <2>3, <2>4, <2>5, <2>6 DEF Dep!DoneFollows
<1>6. ASSUME UNCHANGED <<queue, run, newest, release, vpnSecret>>,
             ~cascaded' => ~cascaded /\ assigned' = assigned
      PROVE  Kept
  BY <1>1, <1>6 DEF Dep!AppliedNow, Dep!NewestResolved, Dep!DoneFollows
\* A step of the operation that is executed, and its end.
<1>7. ASSUME run # Dep!Idle, run' # Dep!Idle, run'.op = run.op,
             UNCHANGED <<queue, newest, assigned, cascaded>>,
             Dep!AppliedNow', Dep!NewestResolved'
      PROVE  Kept
  BY <1>1, <1>7 DEF Dep!DoneFollows
<1>8. ASSUME run # Dep!Idle, NEW status, Dep!Finished(status), queue' = queue,
             UNCHANGED <<assigned, cascaded>>,
             status = "done" /\ run.op.id = newest.id /\ release' # None /\ ~cascaded =>
               release'.vpn = assigned /\ vpnSecret' = assigned
      PROVE  Kept
  <2>1. run' = Dep!Idle /\ newest.status # "done"
    BY <1>1, <1>8 DEF Dep!Finished
  <2>2. CASE run.op.id = newest.id
    <3>1. newest' = [newest EXCEPT !.status = status]
      BY <1>8, <2>2 DEF Dep!Finished
    <3>2. newest'.id = newest.id /\ newest'.status = status
      BY <1>2, <3>1
    <3>3. queue = <<>>
      <4> SUFFICES ASSUME queue # <<>> PROVE FALSE
        OBVIOUS
      <4>1. 1 \in DOMAIN queue
        BY <1>2
      <4> QED
        BY <1>1, <1>2, <1>8, <2>2, <4>1
    <3> QED
      BY <1>1, <1>8, <2>1, <2>2, <3>2, <3>3 DEF Dep!AppliedNow, Dep!NewestResolved, Dep!DoneFollows
  <2>3. CASE run.op.id # newest.id
    <3>1. newest' = newest
      BY <1>8, <2>3 DEF Dep!Finished
    <3> QED
      BY <1>1, <1>8, <2>1, <3>1 DEF Dep!AppliedNow, Dep!NewestResolved, Dep!DoneFollows
  <2> QED
    BY <2>2, <2>3
\* The requests and the queue.
<1>9. \A kind, pin, vpn : Dep!Operation(kind, pin, vpn).id = newest.id + 1
  BY DEF Dep!Operation
<1>10. ASSUME Dep!Requested PROVE Kept
  <2>1. CASE UNCHANGED <<queue, run, newest, release, vpnSecret, assigned, cascaded>>
    BY <1>6, <2>1
  <2>2. ASSUME NEW c \in Admins, Dep!CommitVpn(c) \/ Dep!CommitInstall(c) PROVE Kept
    <3>1. PICK kind, pin, vpn : Dep!Enqueue(Dep!Operation(kind, pin, vpn))
      BY <2>2 DEF Dep!CommitVpn, Dep!CommitInstall
    <3>2. UNCHANGED <<run, release, vpnSecret, cascaded>>
      BY <2>2 DEF Dep!CommitVpn, Dep!CommitInstall, Dep!cluster
    <3> QED
      BY <1>5, <1>9, <3>1, <3>2
  <2>3. ASSUME NEW c \in Admins,
               \/ \E p \in Providers : Dep!BeginAssign(c, p)
               \/ \E config \in Dep!Configs \cup {"omitted"}, vpn \in Providers \cup {None, "keep"} :
                    Dep!BeginInstall(c, config, vpn)
               \/ Dep!BeginRemove(c) \/ Dep!FailRequest(c)
        PROVE  UNCHANGED <<queue, run, newest, release, vpnSecret, assigned, cascaded>>
    BY <2>3 DEF Dep!BeginAssign, Dep!BeginInstall, Dep!BeginRemove, Dep!FailRequest, Dep!tables,
      Dep!cluster
  <2> QED
    BY <1>10, <2>1, <2>2, <2>3 DEF Dep!Requested
<1>11. ASSUME NEW kind, Dep!EnqueueOperation(kind) PROVE Kept
  <2>1. PICK pin : Dep!Enqueue(Dep!Operation(kind, pin, None))
    BY <1>11 DEF Dep!EnqueueOperation
  <2>2. UNCHANGED <<run, release, vpnSecret, cascaded>>
    BY <1>11 DEF Dep!EnqueueOperation, Dep!cluster
  <2> QED
    BY <1>5, <1>9, <2>1, <2>2
<1>12. CASE Dep!RetryOperation
  <2>1. PICK op : /\ op = [retryable EXCEPT !.id = newest.id + 1,
                             !.pin = IF @ = None THEN None ELSE [@ EXCEPT !.fresh = saved.fresh]]
                  /\ Dep!Enqueue(op) /\ retryable # None
                  /\ UNCHANGED <<run, release, vpnSecret, cascaded>>
    BY <1>12 DEF Dep!RetryOperation, Dep!cluster, retryable, saved
  <2>2. op.id = newest.id + 1
    <3>1. retryable \in Dep!KeptOps
      BY <1>1, <2>1 DEF Dep!DeployInv, Dep!QueueKept, retryable
    <3> QED
      BY <2>1, <3>1 DEF Dep!KeptOps
  <2> QED
    BY <1>5, <2>1, <2>2
<1>13. ASSUME NEW i, Dep!CancelQueued(i) PROVE Kept
  <2>1. /\ i \in DOMAIN queue /\ UNCHANGED <<assigned, run, release, vpnSecret, cascaded>>
        /\ queue' = SubSeq(queue, 1, i - 1) \o SubSeq(queue, i + 1, Len(queue))
        /\ newest' = IF queue[i].id = newest.id THEN [newest EXCEPT !.status = "cancelled"] ELSE newest
    BY <1>13 DEF Dep!CancelQueued, Dep!tables, Dep!cluster
  <2>2. /\ newest'.id = newest.id /\ newest'.status \in {newest.status, "cancelled"}
        /\ newest.status # "done" /\ newest'.status # "done"
    <3>1. queue # <<>>
      BY <2>1
    <3> QED
      BY <1>1, <1>2, <2>1, <3>1
  <2>3. /\ DOMAIN queue' = 1 .. Len(queue) - 1
        /\ \A j \in 1 .. Len(queue) - 1 : queue'[j] = IF j < i THEN queue[j] ELSE queue[j + 1]
    <3>1. /\ i \in 1 .. Len(queue) /\ Len(queue) \in Nat
          /\ queue' = SubSeq(queue, 1, i - 1) \o SubSeq(queue, i + 1, Len(queue))
      BY <1>2, <2>1
    <3>2. /\ SubSeq(queue, 1, i - 1) = [j \in 1 .. i - 1 |-> queue[j]]
          /\ SubSeq(queue, i + 1, Len(queue)) = [j \in 1 .. Len(queue) - i |-> queue[i + j]]
      BY <1>2, <3>1, AroundOne
    <3>3. i \in 1 .. Len(queue) /\ Len(queue) \in Nat
      BY <3>1
    <3>4. PICK s, t : s = SubSeq(queue, 1, i - 1) /\ t = SubSeq(queue, i + 1, Len(queue))
      OBVIOUS
    <3>5. /\ s \in Seq(Dep!KeptOps) /\ t \in Seq(Dep!KeptOps)
          /\ Len(s) = i - 1 /\ Len(t) = Len(queue) - i
      <4>1. s \in Seq(Dep!KeptOps) /\ t \in Seq(Dep!KeptOps)
        BY <1>2, <3>1, <3>4
      <4>2. /\ DOMAIN s = 1 .. i - 1 /\ DOMAIN t = 1 .. Len(queue) - i
            /\ i - 1 \in Nat /\ Len(queue) - i \in Nat
        BY <3>1, <3>2, <3>4
      <4>3. DOMAIN s = 1 .. Len(s) /\ DOMAIN t = 1 .. Len(t) /\ Len(s) \in Nat /\ Len(t) \in Nat
        BY <4>1
      <4> QED
        BY <4>1, <4>2, <4>3
    <3>6. /\ Len(queue') = Len(queue) - 1 /\ queue' \in Seq(Dep!KeptOps)
          /\ \A j \in 1 .. Len(queue) - 1 : queue'[j] = IF j <= i - 1 THEN s[j] ELSE t[j - (i - 1)]
      <4>1. queue' = s \o t
        BY <3>1, <3>4
      <4>2. Len(s) + Len(t) = Len(queue) - 1
        BY <3>5, <3>3
      <4> QED
        BY <3>5, <4>1, <4>2, ConcatProperties
    <3>7. DOMAIN queue' = 1 .. Len(queue) - 1
      BY <3>6
    <3>8. ASSUME NEW j \in 1 .. Len(queue) - 1
          PROVE  queue'[j] = IF j < i THEN queue[j] ELSE queue[j + 1]
      <4>1. /\ \A k \in 1 .. i - 1 : s[k] = queue[k]
            /\ \A k \in 1 .. Len(queue) - i : t[k] = queue[i + k]
        BY <3>2, <3>4
      <4>2. CASE j < i
        <5>1. j \in 1 .. i - 1 /\ j <= i - 1
          BY <3>3, <4>2
        <5> QED
          BY <3>6, <4>1, <4>2, <5>1
      <4>3. CASE ~(j < i)
        <5>1. j - (i - 1) \in 1 .. Len(queue) - i /\ i + (j - (i - 1)) = j + 1
          BY <3>3, <4>3
        <5>2. ~(j <= i - 1)
          BY <3>3, <4>3
        <5> QED
          BY <3>6, <4>1, <4>3, <5>1, <5>2
      <4> QED
        BY <4>2, <4>3
    <3> QED
      BY <3>7, <3>8
  <2>4. Queued'
    <3> SUFFICES ASSUME NEW k \in 1 .. Len(queue) - 1
                 PROVE  /\ queue'[k].id <= newest'.id
                        /\ \A j \in 1 .. k - 1 : queue'[j].id < queue'[k].id
      BY <2>3
    <3>1. k \in DOMAIN queue /\ k + 1 \in DOMAIN queue
      BY <1>2
    <3>2. queue'[k].id <= newest'.id
      BY <1>1, <2>2, <2>3, <3>1
    <3>3. ASSUME NEW j \in 1 .. k - 1 PROVE queue'[j].id < queue'[k].id
      <4>1. PICK m \in DOMAIN queue : m \in {k, k + 1} /\ queue'[k] = queue[m] /\ (m = k => k < i)
        BY <2>3, <3>1
      <4>2. j \in 1 .. Len(queue) - 1 /\ j + 1 \in DOMAIN queue
        BY <1>2, <3>1
      <4>3. queue'[j] = IF j < i THEN queue[j] ELSE queue[j + 1]
        BY <2>3, <4>2
      <4>4. j \in 1 .. m - 1 /\ (~(j < i) => j + 1 \in 1 .. m - 1)
        <5>1. i \in Nat /\ Len(queue) \in Nat /\ m \in {k, k + 1} /\ (m = k => k < i)
          BY <1>2, <2>1, <4>1
        <5> QED
          BY <5>1
      <4>5. PICK n \in 1 .. m - 1 : queue'[j] = queue[n]
        BY <4>3, <4>4
      <4> QED
        BY <1>1, <4>1, <4>5
    <3> QED
      BY <2>3, <3>2, <3>3
  <2>5. Turn'
    <3> SUFFICES ASSUME run # Dep!Idle, NEW k \in 1 .. Len(queue) - 1
                 PROVE  run.op.id < queue'[k].id
      BY <1>1, <2>1, <2>2, <2>3
    <3>1. \E m \in DOMAIN queue : queue'[k] = queue[m]
      BY <1>2, <2>3
    <3> QED
      BY <1>1, <3>1
  <2>6. UNCHANGED <<assigned, run, release, vpnSecret, cascaded>>
    BY <2>1
  <2>7. Dep!AppliedNow' /\ Dep!NewestResolved' /\ Dep!DoneFollows'
    BY <1>1, <2>2, <2>6 DEF Dep!AppliedNow, Dep!NewestResolved, Dep!DoneFollows
  <2> QED
    BY <2>2, <2>4, <2>5, <2>7
\* Providers and charts.
<1>14. ASSUME \/ Dep!SyncChart
              \/ \E p \in Providers : \/ Dep!BeginDeleteProvider(p)
                                      \/ \E status : Dep!SetProvider(p, status)
       PROVE  Kept
  <2>1. UNCHANGED <<queue, run, newest, release, vpnSecret, assigned, cascaded>>
    BY <1>14 DEF Dep!SyncChart, Dep!BeginDeleteProvider, Dep!SetProvider, Dep!tables, Dep!cluster
  <2> QED
    BY <1>6, <2>1
<1>15. CASE Dep!CommitDeleteProvider
  <2>1. /\ UNCHANGED <<queue, run, newest, release, vpnSecret>>
        /\ ~cascaded' => ~cascaded /\ assigned' = assigned
    BY <1>15 DEF Dep!CommitDeleteProvider, Dep!cluster
  <2> QED
    BY <1>6, <2>1
\* Execution.
<1>16. CASE Dep!ClaimOperation
  <2>1. PICK op : op = Head(queue)
    OBVIOUS
  <2>2. /\ queue # <<>> /\ queue' = Tail(queue)
        /\ run' = [step |-> "check", op |-> op, vpn |-> None, proven |-> FALSE]
        /\ UNCHANGED <<assigned, newest, release, vpnSecret, cascaded>>
    BY <1>16, <2>1 DEF Dep!ClaimOperation, Dep!tables, Dep!cluster
  <2>3. /\ op = queue[1] /\ 1 \in DOMAIN queue /\ DOMAIN queue' = 1 .. Len(queue) - 1
        /\ \A i \in 1 .. Len(queue) - 1 : queue'[i] = queue[i + 1] /\ i + 1 \in DOMAIN queue
    BY <1>2, <2>1, <2>2
  <2>4. Queued'
    <3> SUFFICES ASSUME NEW i \in 1 .. Len(queue) - 1
                 PROVE  /\ queue'[i].id <= newest.id
                        /\ \A j \in 1 .. i - 1 : queue'[j].id < queue'[i].id
      BY <2>2, <2>3
    <3>1. ASSUME NEW j \in 1 .. i - 1 PROVE queue'[j].id < queue'[i].id
      <4>1. j \in 1 .. Len(queue) - 1 /\ j + 1 \in 1 .. (i + 1) - 1
        BY <1>2
      <4> QED
        BY <1>1, <2>3, <4>1
    <3> QED
      BY <1>1, <2>3, <3>1
  <2>5. /\ run'.op = op /\ run'.step = "check"
    BY <2>2
  <2>6. ASSUME NEW i \in 1 .. Len(queue) - 1 PROVE op.id < queue'[i].id
    <3>1. 1 \in 1 .. (i + 1) - 1
      BY <1>2
    <3> QED
      BY <1>1, <2>3, <3>1
  <2>7. Turn'
    BY <1>1, <2>2, <2>3, <2>5, <2>6
  <2>8. newest.status # "done"
    BY <1>1, <2>2
  <2> QED
    BY <2>2, <2>4, <2>5, <2>7, <2>8 DEF Dep!AppliedNow, Dep!NewestResolved, Dep!DoneFollows, Dep!Applied
<1>17. ASSUME NEW step \in Dep!Steps, run # Dep!Idle, Dep!To(step)
       PROVE  /\ run'.op = run.op /\ run'.step = step /\ run'.vpn = run.vpn /\ newest' = newest
              /\ run' # Dep!Idle
  <2>1. run' = [run EXCEPT !.step = step] /\ newest' = newest
    BY <1>17 DEF Dep!To
  <2>2. run'.op = run.op /\ run'.step = step /\ run'.vpn = run.vpn
    BY <1>2, <1>17, <2>1
  <2>3. step # "idle" /\ Dep!Idle.step = "idle"
    BY DEF Dep!Steps, Dep!Idle
  <2> QED
    BY <2>1, <2>2, <2>3
<1>18. CASE Dep!CheckPins
  <2>1. PICK proven : run' = [run EXCEPT !.step = "resolve", !.proven = proven]
    BY <1>18 DEF Dep!CheckPins
  <2>2. /\ run # Dep!Idle /\ UNCHANGED <<assigned, queue, newest, release, vpnSecret, cascaded>>
    BY <1>18 DEF Dep!CheckPins, Dep!tables, Dep!cluster
  <2>3. run'.op = run.op /\ run'.step = "resolve" /\ run' # Dep!Idle
    BY <1>2, <2>1, <2>2 DEF Dep!Idle
  <2> QED
    BY <1>7, <2>2, <2>3 DEF Dep!AppliedNow, Dep!NewestResolved, Dep!Applied
<1>19. CASE Dep!ResolveVpn
  <2>1. /\ run # Dep!Idle /\ UNCHANGED <<assigned, queue, newest, release, vpnSecret, cascaded>>
        /\ run' = [run EXCEPT !.vpn = assigned, !.step = IF assigned = None THEN "helm" ELSE "secret"]
    BY <1>19 DEF Dep!ResolveVpn, Dep!tables, Dep!cluster
  <2>2. /\ run'.op = run.op /\ run'.step = IF assigned = None THEN "helm" ELSE "secret"
        /\ run'.vpn = assigned /\ run' # Dep!Idle
    BY <1>2, <2>1 DEF Dep!Idle
  <2> QED
    BY <1>7, <2>1, <2>2 DEF Dep!AppliedNow, Dep!NewestResolved, Dep!Applied
<1>20. CASE Dep!ReplaceSecret
  <2>1. /\ run # Dep!Idle /\ run.step = "secret" /\ vpnSecret' = assigned /\ Dep!To("helm")
        /\ UNCHANGED <<assigned, queue, release, cascaded>>
    BY <1>20 DEF Dep!ReplaceSecret, Dep!tables
  <2>2. /\ run'.op = run.op /\ run'.step = "helm" /\ run'.vpn = run.vpn /\ newest' = newest
        /\ run' # Dep!Idle
    BY <1>17, <2>1 DEF Dep!Steps
  <2>3. Dep!AppliedNow' /\ Dep!NewestResolved'
    BY <1>1, <2>1, <2>2 DEF Dep!AppliedNow, Dep!NewestResolved, Dep!Applied
  <2> QED
    BY <1>7, <2>1, <2>2, <2>3
<1>21. ASSUME NEW status \in {"failed"}, run # Dep!Idle, Dep!Finished(status), queue' = queue,
              UNCHANGED <<assigned, cascaded>>
       PROVE  Kept
  BY <1>8, <1>21
<1>22. CASE Dep!SecretFails \/ Dep!HelmFails \/ Dep!FailOperation
  <2>1. /\ run # Dep!Idle /\ Dep!Finished("failed") /\ queue' = queue
        /\ UNCHANGED <<assigned, cascaded>>
    BY <1>22 DEF Dep!SecretFails, Dep!HelmFails, Dep!FailOperation, Dep!tables
  <2> QED
    BY <1>21, <2>1
<1>23. CASE Dep!RunHelm
  <2>1. /\ run # Dep!Idle /\ run.step = "helm" /\ release' = Dep!Values
        /\ Dep!To(IF run.proven THEN "proof" ELSE "cleanup")
        /\ UNCHANGED <<assigned, queue, vpnSecret, cascaded>>
    BY <1>23 DEF Dep!RunHelm, Dep!HelmApplies, Dep!tables
  <2>2. release'.vpn = run.vpn
    BY <2>1 DEF Dep!Values, Dep!VpnValues
  <2>3. PICK step \in {"proof", "cleanup"} : Dep!To(step)
    BY <2>1
  <2>4. /\ run'.op = run.op /\ run'.step = step /\ run'.vpn = run.vpn /\ newest' = newest
        /\ run' # Dep!Idle
    BY <1>17, <2>1, <2>3 DEF Dep!Steps
  <2>5. Dep!AppliedNow' /\ Dep!NewestResolved'
    BY <1>1, <2>1, <2>2, <2>4 DEF Dep!AppliedNow, Dep!NewestResolved, Dep!Applied
  <2> QED
    BY <1>7, <2>1, <2>4, <2>5
<1>24. CASE Dep!MarkFresh \/ Dep!MarkFails
  <2>1. /\ run # Dep!Idle /\ run.step = "proof"
        /\ UNCHANGED <<assigned, queue, release, vpnSecret, cascaded>>
    BY <1>24 DEF Dep!MarkFresh, Dep!MarkFails, Dep!tables, Dep!cluster
  <2>2. PICK step \in {"cleanup", "cleanup after failure"} : Dep!To(step)
    BY <1>24 DEF Dep!MarkFresh, Dep!MarkFails
  <2>3. /\ run'.op = run.op /\ run'.step = step /\ run'.vpn = run.vpn /\ newest' = newest
        /\ run' # Dep!Idle
    BY <1>17, <2>1, <2>2 DEF Dep!Steps
  <2>4. Dep!AppliedNow' /\ Dep!NewestResolved'
    BY <1>1, <2>1, <2>3 DEF Dep!AppliedNow, Dep!NewestResolved, Dep!Applied
  <2> QED
    BY <1>7, <2>1, <2>3, <2>4
<1>25. CASE Dep!CleanUp
  <2>1. /\ run # Dep!Idle /\ run.step \in Dep!Applied
        /\ vpnSecret' = IF run.vpn = None /\ assigned = None THEN None ELSE vpnSecret
        /\ Dep!Finished(Dep!Verdict) /\ UNCHANGED <<assigned, queue, release, cascaded>>
    BY <1>25 DEF Dep!CleanUp, Dep!Cleaning, Dep!tables, Dep!Applied
  <2>2. ASSUME run.op.id = newest.id, ~cascaded
        PROVE  release'.vpn = assigned /\ vpnSecret' = assigned
    <3>1. release.vpn = run.vpn /\ run.vpn = assigned /\ (run.vpn # None => vpnSecret = run.vpn)
      BY <1>1, <2>1, <2>2 DEF Dep!AppliedNow, Dep!NewestResolved
    <3> QED
      BY <2>1, <3>1
  <2> QED
    BY <1>8, <2>1, <2>2
<1>26. CASE Dep!RemoveApp
  <2>1. run # Dep!Idle /\ UNCHANGED <<assigned, queue, cascaded>>
    BY <1>26 DEF Dep!RemoveApp, Dep!tables
  <2>2. Dep!Finished("failed") \/ (Dep!Finished("done") /\ release' = None)
    BY <1>26 DEF Dep!RemoveApp
  <2> QED
    BY <1>8, <1>21, <2>1, <2>2
<1>27. CASE UNCHANGED Dep!deployVars
  <2>1. UNCHANGED <<queue, run, newest, release, vpnSecret, assigned, cascaded>>
    BY <1>27 DEF Dep!deployVars, Dep!tables, Dep!cluster
  <2> QED
    BY <1>6, <2>1
<1> QED
  BY <1>10, <1>11, <1>12, <1>13, <1>14, <1>15, <1>16, <1>18, <1>19, <1>20, <1>22, <1>23, <1>24,
    <1>25, <1>26, <1>27 DEF Dep!Next, Dep!Execute

\* Spec: no proof of fresh private data, and no confirmation from it, while the data is old.
THEOREM ProofAlwaysEarned == Spec => []ProofIsEarned
<1> DEFINE Inv == part = "deployment" => Dep!DeployInv
<1>1. Init => Inv
  BY DeployInitially DEF Init
<1>2. Inv /\ [Next]_vars => Inv'
  <2>1. part = "deployment" /\ [Next]_vars => [Dep!Next]_(Dep!deployVars)
    BY DEF Next, vars, Dep!deployVars, Dep!tables, Dep!requests, Dep!cluster
  <2> QED
    BY <2>1, PartIsKept, DeployKept
<1>3. Inv => ProofIsEarned
  BY DEF Dep!DeployInv, Dep!SavedKept, Dep!ReleaseKept, Dep!KeptRows, Dep!Marks,
    ProofIsEarned, Dep!ProofIsEarned
<1> QED
  BY <1>1, <1>2, <1>3, PTL DEF Spec

-----------------------------------------------------------------------------
(* SharedStorage.                                                          *)

tree == v1
unmade == v2
browsing == v3

\* A sequence of one or two elements is them.
LEMMA OneOrTwo ==
  ASSUME NEW S, NEW s \in Seq(S)
  PROVE  /\ Len(s) = 1 => s = <<s[1]>>
         /\ Len(s) = 2 => s = <<s[1], s[2]>>
<1>0. /\ Len(s) = 1 => s[1] \in S
      /\ Len(s) = 2 => s[1] \in S /\ s[2] \in S
  BY ElementOfSeq
<1>1. ASSUME Len(s) = 1 PROVE s = <<s[1]>>
  <2>1. PICK x \in S : x = s[1]
    BY <1>0, <1>1
  <2>2. <<x>> \in Seq(S) /\ Len(<<x>>) = 1 /\ <<x>>[1] = x
    OBVIOUS
  <2>3. \A i \in 1 .. Len(s) : s[i] = <<x>>[i]
    BY <1>1, <2>1, <2>2
  <2> QED
    BY <1>1, <2>1, <2>2, <2>3, SeqEqual
<1>2. ASSUME Len(s) = 2 PROVE s = <<s[1], s[2]>>
  <2>1. PICK x \in S, y \in S : x = s[1] /\ y = s[2]
    BY <1>0, <1>2
  <2>2. <<x, y>> \in Seq(S) /\ Len(<<x, y>>) = 2 /\ <<x, y>>[1] = x /\ <<x, y>>[2] = y
    OBVIOUS
  <2>3. \A i \in 1 .. Len(s) : s[i] = <<x, y>>[i]
    BY <1>2, <2>1, <2>2
  <2> QED
    BY <1>2, <2>1, <2>2, <2>3, SeqEqual
<1> QED
  BY <1>1, <1>2

\* What is cut from such sequences, or put together.
LEMMA PairsAndSingles ==
  ASSUME NEW a, NEW b
  PROVE  /\ SubSeq(<<a>>, 1, 1) = <<a>> /\ SubSeq(<<a, b>>, 1, 1) = <<a>>
         /\ SubSeq(<<a, b>>, 2, 2) = <<b>> /\ SubSeq(<<a, b>>, 1, 2) = <<a, b>>
         /\ <<a>> \o <<b>> = <<a, b>> /\ <<a>> \o << >> = <<a>> /\ <<a, b>> \o << >> = <<a, b>>
         /\ Append(<< >>, a) = <<a>> /\ Append(<<a>>, b) = <<a, b>>
<1>0. /\ <<a, b>> \in Seq({a, b}) /\ <<a>> \in Seq({a, b}) /\ <<b>> \in Seq({a, b})
      /\ Len(<<a, b>>) = 2 /\ Len(<<a>>) = 1 /\ Len(<<b>>) = 1
      /\ <<a, b>>[1] = a /\ <<a, b>>[2] = b /\ <<a>>[1] = a /\ <<b>>[1] = b
  OBVIOUS
<1>1. SubSeq(<<a>>, 1, 1) = <<a>> /\ SubSeq(<<a, b>>, 1, 2) = <<a, b>>
  BY <1>0, SubSeqFull
<1>2. SubSeq(<<a, b>>, 1, 1) = <<a>>
  <2> DEFINE s == SubSeq(<<a, b>>, 1, 1)
  <2>1. s \in Seq({a, b}) /\ Len(s) = 1 /\ s[1] = a
    BY <1>0, SubSeqProperties
  <2> HIDE DEF s
  <2> QED
    BY <2>1, OneOrTwo DEF s
<1>3. SubSeq(<<a, b>>, 2, 2) = <<b>>
  <2> DEFINE s == SubSeq(<<a, b>>, 2, 2)
  <2>1. s \in Seq({a, b}) /\ Len(s) = 1 /\ s[1] = b
    BY <1>0, SubSeqProperties
  <2> HIDE DEF s
  <2> QED
    BY <2>1, OneOrTwo DEF s
<1>4. <<a>> \o <<b>> = <<a, b>>
  <2> DEFINE s == <<a>> \o <<b>>
  <2>1. s \in Seq({a, b}) /\ Len(s) = 2 /\ s[1] = a /\ s[2] = b
    BY <1>0, ConcatProperties
  <2> HIDE DEF s
  <2> QED
    BY <2>1, OneOrTwo DEF s
<1>5. <<a>> \o << >> = <<a>> /\ <<a, b>> \o << >> = <<a, b>>
  BY <1>0, ConcatEmptySeq
<1>6. Append(<< >>, a) = <<a>>
  OBVIOUS
<1>7. Append(<<a>>, b) = <<a, b>>
  <2> DEFINE s == Append(<<a>>, b)
  <2>1. s \in Seq({a, b}) /\ Len(s) = 2 /\ s[1] = a /\ s[2] = b
    BY <1>0, AppendProperties
  <2> HIDE DEF s
  <2> QED
    BY <2>1, OneOrTwo DEF s
<1> QED
  BY <1>1, <1>2, <1>3, <1>4, <1>5, <1>6, <1>7

\* A path is a name, or a name in a folder.
LEMMA PathsAreShort ==
  ASSUME NEW p \in Sto!Paths
  PROVE  \/ \E x \in Sto!EntryNames : p = <<x>> /\ Sto!Parent(p) = << >>
         \/ \E x \in Sto!EntryNames, y \in Sto!EntryNames :
              p = <<x, y>> /\ Sto!Parent(p) = <<x>>
<1>1. CASE p \in {<<n>> : n \in Sto!EntryNames}
  <2>1. PICK x \in Sto!EntryNames : p = <<x>>
    BY <1>1
  <2>2. SubSeq(<<x>>, 1, 0) = << >> /\ Len(<<x>>) - 1 = 0
    BY SubSeqEmpty
  <2> QED
    BY <2>1, <2>2 DEF Sto!Parent, Sto!Front
<1>2. CASE p \in Sto!EntryNames \X Sto!EntryNames
  <2>1. PICK x \in Sto!EntryNames, y \in Sto!EntryNames : p = <<x, y>>
    BY <1>2
  <2>2. SubSeq(<<x, y>>, 1, 1) = <<x>>
    BY PairsAndSingles
  <2>3. Len(<<x, y>>) - 1 = 1
    OBVIOUS
  <2> QED
    BY <2>1, <2>2, <2>3 DEF Sto!Parent, Sto!Front
<1> QED
  BY <1>1, <1>2 DEF Sto!Paths

LEMMA ShortPaths ==
  ASSUME NEW x \in Sto!EntryNames, NEW y \in Sto!EntryNames
  PROVE  /\ <<x>> \in Sto!Paths /\ Sto!Parent(<<x>>) = << >>
         /\ <<x, y>> \in Sto!Paths /\ Sto!Parent(<<x, y>>) = <<x>>
<1>1. <<x>> \in Sto!Paths /\ <<x, y>> \in Sto!Paths
  BY DEF Sto!Paths
<1>2. SubSeq(<<x>>, 1, 0) = << >> /\ Len(<<x>>) - 1 = 0
  BY SubSeqEmpty
<1>3. SubSeq(<<x, y>>, 1, 1) = <<x>>
  BY PairsAndSingles
<1>4. Len(<<x, y>>) - 1 = 1
  OBVIOUS
<1> QED
  BY <1>1, <1>2, <1>3, <1>4 DEF Sto!Parent, Sto!Front

\* What is below a path is in it.
LEMMA BelowIsIn ==
  ASSUME NEW p \in Sto!Paths, NEW q \in Sto!Paths
  PROVE  Sto!IsPrefix(p, q) <=> p = q \/ Sto!Parent(q) = p
<1>1. ASSUME NEW x \in Sto!EntryNames, p = <<x>>, NEW u \in Sto!EntryNames, q = <<u>>
      PROVE  Sto!IsPrefix(p, q) <=> p = q \/ Sto!Parent(q) = p
  <2>1. SubSeq(p, 1, 1) = p /\ SubSeq(q, 1, 1) = q
    BY <1>1, PairsAndSingles
  <2>2. Len(p) = 1 /\ Len(q) = 1 /\ p # << >>
    BY <1>1
  <2>3. Sto!Parent(q) # p
    BY <1>1, <2>2, ShortPaths
  <2> QED
    BY <2>1, <2>2, <2>3 DEF Sto!IsPrefix
<1>2. ASSUME NEW x \in Sto!EntryNames, p = <<x>>,
             NEW u \in Sto!EntryNames, NEW v \in Sto!EntryNames, q = <<u, v>>
      PROVE  Sto!IsPrefix(p, q) <=> p = q \/ Sto!Parent(q) = p
  <2>1. SubSeq(p, 1, 1) = p
    BY <1>2, PairsAndSingles
  <2>2. Len(p) = 1 /\ Len(q) = 2 /\ p # q
    BY <1>2
  <2>3. Sto!Parent(q) = SubSeq(q, 1, 1)
    BY <1>2, ShortPaths, PairsAndSingles
  <2> QED
    BY <2>1, <2>2, <2>3 DEF Sto!IsPrefix
<1>3. ASSUME NEW x \in Sto!EntryNames, NEW y \in Sto!EntryNames, p = <<x, y>>,
             NEW u \in Sto!EntryNames, q = <<u>>
      PROVE  Sto!IsPrefix(p, q) <=> p = q \/ Sto!Parent(q) = p
  <2>1. ~(Len(p) <= Len(q)) /\ p # q /\ p # << >>
    BY <1>3
  <2>2. Sto!Parent(q) # p
    BY <1>3, <2>1, ShortPaths
  <2> QED
    BY <2>1, <2>2 DEF Sto!IsPrefix
<1>4. ASSUME NEW x \in Sto!EntryNames, NEW y \in Sto!EntryNames, p = <<x, y>>,
             NEW u \in Sto!EntryNames, NEW v \in Sto!EntryNames, q = <<u, v>>
      PROVE  Sto!IsPrefix(p, q) <=> p = q \/ Sto!Parent(q) = p
  <2>1. SubSeq(p, 1, 2) = p /\ SubSeq(q, 1, 2) = q
    BY <1>4, PairsAndSingles
  <2>2. Len(p) = 2 /\ Len(q) = 2 /\ <<u>> # p
    BY <1>4
  <2>3. Sto!Parent(q) = <<u>>
    BY <1>4, ShortPaths
  <2> QED
    BY <2>1, <2>2, <2>3 DEF Sto!IsPrefix
<1> QED
  BY <1>1, <1>2, <1>3, <1>4, PathsAreShort

LEMMA ParentsAreAbove ==
  ASSUME NEW p \in Sto!Paths
  PROVE  /\ p # << >> /\ Sto!Parent(p) # p
         /\ \/ Sto!Parent(p) = << >>
            \/ Sto!Parent(p) \in Sto!Paths /\ Sto!Parent(Sto!Parent(p)) = << >>
<1>1. ASSUME NEW x \in Sto!EntryNames, p = <<x>>
      PROVE  p # << >> /\ Sto!Parent(p) = << >>
  BY <1>1, ShortPaths
<1>2. ASSUME NEW x \in Sto!EntryNames, NEW y \in Sto!EntryNames, p = <<x, y>>
      PROVE  /\ p # << >> /\ Sto!Parent(p) # p /\ Sto!Parent(p) \in Sto!Paths
             /\ Sto!Parent(Sto!Parent(p)) = << >>
  <2>1. p # << >> /\ p # <<x>>
    BY <1>2
  <2> QED
    BY <1>2, <2>1, ShortPaths
<1> QED
  BY <1>1, <1>2, PathsAreShort

\* Another name for an entry is a path of the same folder.
LEMMA NamedIsBeside ==
  ASSUME NEW p \in Sto!Paths, NEW n \in Sto!EntryNames
  PROVE  Sto!Named(p, n) \in Sto!Paths /\ Sto!Parent(Sto!Named(p, n)) = Sto!Parent(p)
<1>1. CASE Sto!Parent(p) = << >>
  <2>1. Sto!Named(p, n) = <<n>>
    BY <1>1, PairsAndSingles DEF Sto!Named, Sto!Parent
  <2> QED
    BY <1>1, <2>1, ShortPaths
<1>2. ASSUME NEW x \in Sto!EntryNames, Sto!Parent(p) = <<x>>
      PROVE  Sto!Named(p, n) \in Sto!Paths /\ Sto!Parent(Sto!Named(p, n)) = Sto!Parent(p)
  <2>1. Sto!Named(p, n) = <<x, n>>
    BY <1>2, PairsAndSingles DEF Sto!Named, Sto!Parent
  <2> QED
    BY <1>2, <2>1, ShortPaths
<1> QED
  BY <1>1, <1>2, PathsAreShort

\* What is in a folder that is renamed was in it before, one for one.
LEMMA RenameMoves ==
  ASSUME NEW p \in Sto!Paths, NEW to \in Sto!Paths, Sto!Parent(p) = Sto!Parent(to)
  PROVE  /\ Sto!Before(to, p, to) = p
         /\ \A q \in Sto!Paths : Sto!Parent(q) = to =>
              /\ Sto!Before(q, p, to) \in Sto!Paths /\ Sto!Parent(Sto!Before(q, p, to)) = p
              /\ \A r \in Sto!Paths : Sto!Parent(r) = to /\ Sto!Before(q, p, to) = Sto!Before(r, p, to)
                                       => q = r
         /\ \A c \in Sto!Paths : Sto!Parent(c) = p =>
              \E q \in Sto!Paths : Sto!Parent(q) = to /\ Sto!Before(q, p, to) = c
<1>1. Sto!Before(to, p, to) = p
  <2>1. Len(to) \in Nat
    BY PathsAreShort
  <2>2. SubSeq(to, Len(to) + 1, Len(to)) = << >>
    BY <2>1, SubSeqEmpty
  <2>3. p \o << >> = p
    BY PathsAreShort, PairsAndSingles
  <2> QED
    BY <2>2, <2>3 DEF Sto!Before
<1>2. ASSUME NEW q \in Sto!Paths, Sto!Parent(q) = to \/ Sto!Parent(q) = p
      PROVE  \E x \in Sto!EntryNames, y \in Sto!EntryNames : p = <<x>> /\ to = <<y>>
  <2>1. Sto!Parent(p) = << >> /\ Sto!Parent(to) = << >>
    BY <1>2, ParentsAreAbove
  <2>2. \A x : <<x>> # << >>
    OBVIOUS
  <2>3. PICK x \in Sto!EntryNames : p = <<x>>
    BY <2>1, <2>2, PathsAreShort
  <2>4. PICK y \in Sto!EntryNames : to = <<y>>
    BY <2>1, <2>2, PathsAreShort
  <2> QED
    BY <2>3, <2>4
<1>3. ASSUME NEW x \in Sto!EntryNames, NEW y \in Sto!EntryNames, p = <<x>>, to = <<y>>,
             NEW z \in Sto!EntryNames
      PROVE  Sto!Before(<<y, z>>, p, to) = <<x, z>>
  <2>1. SubSeq(<<y, z>>, 2, 2) = <<z>> /\ <<x>> \o <<z>> = <<x, z>>
    BY PairsAndSingles
  <2>2. Len(to) + 1 = 2 /\ Len(<<y, z>>) = 2
    BY <1>3
  <2> QED
    BY <1>3, <2>1, <2>2 DEF Sto!Before
<1>4. ASSUME NEW y \in Sto!EntryNames, NEW q \in Sto!Paths, Sto!Parent(q) = <<y>>
      PROVE  \E z \in Sto!EntryNames : q = <<y, z>>
  BY <1>4, PathsAreShort
<1>5. ASSUME NEW q \in Sto!Paths, Sto!Parent(q) = to
      PROVE  /\ Sto!Before(q, p, to) \in Sto!Paths /\ Sto!Parent(Sto!Before(q, p, to)) = p
             /\ \A r \in Sto!Paths : Sto!Parent(r) = to /\ Sto!Before(q, p, to) = Sto!Before(r, p, to)
                                      => q = r
  <2>1. PICK x \in Sto!EntryNames, y \in Sto!EntryNames : p = <<x>> /\ to = <<y>>
    BY <1>2, <1>5
  <2>2. PICK z \in Sto!EntryNames : q = <<y, z>>
    BY <1>4, <1>5, <2>1
  <2>3. Sto!Before(q, p, to) = <<x, z>>
    BY <1>3, <2>1, <2>2
  <2>4. Sto!Before(q, p, to) \in Sto!Paths /\ Sto!Parent(Sto!Before(q, p, to)) = p
    BY <2>1, <2>3, ShortPaths
  <2>5. ASSUME NEW r \in Sto!Paths, Sto!Parent(r) = to, Sto!Before(q, p, to) = Sto!Before(r, p, to)
        PROVE  q = r
    <3>1. PICK w \in Sto!EntryNames : r = <<y, w>>
      BY <1>4, <2>1, <2>5
    <3>2. Sto!Before(r, p, to) = <<x, w>>
      BY <1>3, <2>1, <3>1
    <3>3. z = w
      BY <2>3, <2>5, <3>2
    <3> QED
      BY <2>2, <3>1, <3>3
  <2> QED
    BY <2>4, <2>5
<1>6. ASSUME NEW c \in Sto!Paths, Sto!Parent(c) = p
      PROVE  \E q \in Sto!Paths : Sto!Parent(q) = to /\ Sto!Before(q, p, to) = c
  <2>1. PICK x \in Sto!EntryNames, y \in Sto!EntryNames : p = <<x>> /\ to = <<y>>
    BY <1>2, <1>6
  <2>2. PICK z \in Sto!EntryNames : c = <<x, z>>
    BY <1>4, <1>6, <2>1
  <2>3. /\ <<y, z>> \in Sto!Paths /\ Sto!Parent(<<y, z>>) = to
        /\ Sto!Before(<<y, z>>, p, to) = c
    BY <1>3, <2>1, <2>2, ShortPaths
  <2> QED
    BY <2>3
<1> QED
  BY <1>1, <1>5, <1>6

LEMMA ChildIsLonger ==
  ASSUME NEW p \in Sto!Paths, NEW q \in Sto!Paths, Sto!Parent(q) = p
  PROVE  Len(q) = Len(p) + 1
<1>1. CASE Sto!Parent(q) = << >>
  BY <1>1, ParentsAreAbove
<1>2. ASSUME NEW x \in Sto!EntryNames, NEW y \in Sto!EntryNames, q = <<x, y>>, Sto!Parent(q) = <<x>>
      PROVE  Len(q) = Len(p) + 1
  <2>1. Len(q) = 2
    BY <1>2
  <2>2. p = <<x>>
    BY <1>2
  <2>3. Len(p) = 1
    BY <2>2
  <2> QED
    BY <2>1, <2>3
<1> QED
  BY <1>1, <1>2, PathsAreShort

LEMMA TreeInitially == Sto!Init => Sto!TreeInv
<1> SUFFICES ASSUME Sto!Init PROVE Sto!TreeInv
  OBVIOUS
<1> USE DEF tree, unmade, browsing
<1> DEFINE first == Sto!Min(Protected)
<1>1. /\ MaxFile \in Nat \ {0} /\ Protected \subseteq Sto!EntryNames /\ Protected # {}
      /\ 1 \in Sto!Files /\ Sto!Missing \notin Sto!Files /\ Sto!Dir \notin Sto!Files
      /\ Sto!Missing # Sto!Dir
  BY StoNamesAssumption DEF Sto!NamesAssumption, Sto!EntryNames, Sto!Files, Sto!Missing, Sto!Dir
<1>2. first \in Protected
  <2>1. \E x \in Protected : \A y \in Protected : ~(<<y, x>> \in OpToRel(<, Nat))
    <3>1. Protected \subseteq Nat
      BY <1>1 DEF Sto!EntryNames
    <3> QED
      BY <1>1, <3>1, NatLessThanWellFounded, WFMin
  <2>2. \E x \in Protected : \A y \in Protected : x <= y
    <3>1. PICK x \in Protected : \A y \in Protected : ~(<<y, x>> \in OpToRel(<, Nat))
      BY <2>1
    <3>2. Protected \subseteq Nat
      BY <1>1 DEF Sto!EntryNames
    <3>3. ASSUME NEW y \in Protected, y < x PROVE FALSE
      <4>1. y \in Nat /\ x \in Nat
        BY <3>2
      <4>2. <<y, x>> \in OpToRel(<, Nat)
        BY <3>3, <4>1 DEF OpToRel
      <4> QED
        BY <3>1, <4>2
    <3>4. \A y \in Protected : x <= y
      BY <3>2, <3>3
    <3> QED
      BY <3>4
  <2> QED
    BY <2>2 DEF Sto!Min
<1>3. PICK used \in SUBSET {<<<<first, 1>>, 1>>} :
        tree = [p \in Sto!Paths |-> IF p \in {<<n>> : n \in Protected} THEN Sto!Dir
                                   ELSE IF <<p, 1>> \in used THEN 1 ELSE Sto!Missing]
  BY DEF Sto!Init
<1>4. \A p \in Sto!Paths : <<p, 1>> \in used => p = <<first, 1>>
  OBVIOUS
<1>5. tree \in [Sto!Paths -> {Sto!Missing, Sto!Dir} \cup Sto!Files]
  BY <1>1, <1>3
<1>6. ASSUME NEW p \in Sto!Paths, Sto!Exists(p) PROVE Sto!Writable(p)
  <2>1. tree[p] # Sto!Missing
    BY <1>6, ParentsAreAbove DEF Sto!Exists, Sto!At
  <2>2. CASE p \in {<<n>> : n \in Protected}
    <3>1. Sto!Parent(p) = << >>
      BY <1>1, <2>2, ShortPaths
    <3> QED
      BY <3>1 DEF Sto!Writable, Sto!IsDir, Sto!At
  <2>3. CASE p = <<first, 1>>
    <3>1. \A y \in Sto!EntryNames : Sto!Parent(<<first, y>>) = <<first>> /\ <<first>> \in Sto!Paths
      BY <1>1, <1>2, ShortPaths
    <3>2. p \in Sto!EntryNames \X Sto!EntryNames
      BY <2>3 DEF Sto!Paths
    <3>3. 1 \in Sto!EntryNames
      BY <2>3, <3>2
    <3>4. Sto!Parent(p) = <<first>> /\ <<first>> \in Sto!Paths /\ <<first>> # << >>
      BY <2>3, <3>1, <3>3
    <3>5. tree[<<first>>] = Sto!Dir
      BY <1>2, <1>3, <3>4
    <3> QED
      BY <3>4, <3>5 DEF Sto!Writable, Sto!IsDir, Sto!At
  <2> QED
    BY <1>3, <1>4, <2>1, <2>2, <2>3
<1>7. \A p, q \in Sto!Paths : tree[p] \in Sto!Files /\ tree[p] = tree[q] => p = q
  BY <1>1, <1>3, <1>4
<1>8. unmade \subseteq {f \in Sto!Files : \A p \in Sto!Paths : tree[p] # f}
  BY DEF Sto!Init
<1>9. browsing = [b \in Browsers |-> Sto!Idle]
  BY DEF Sto!Init
<1> QED
  BY <1>5, <1>6, <1>7, <1>8, <1>9 DEF Sto!TreeInv, Sto!TypeOK, Sto!Idle

\* A file is taken from its place only by what is about it.
LEMMA TreeKept == Sto!TreeInv /\ [Sto!Next]_(Sto!storageVars) => Sto!TreeInv' /\ Sto!FileSurvives
<1> SUFFICES ASSUME Sto!TreeInv, [Sto!Next]_(Sto!storageVars) PROVE Sto!TreeInv' /\ Sto!FileSurvives
  OBVIOUS
<1> USE DEF tree, unmade, browsing
<1> DEFINE Ops == {"mkdir", "remove_dir", "remove_file", "rename", "write"}
           Typed == tree \in [Sto!Paths -> {Sto!Missing, Sto!Dir} \cup Sto!Files]
           Held == \A p \in Sto!Paths : tree[p] # Sto!Missing =>
                     Sto!Parent(p) = << >> \/ tree[Sto!Parent(p)] = Sto!Dir
           Once == \A p, q \in Sto!Paths : tree[p] \in Sto!Files /\ tree[p] = tree[q] => p = q
           Fresh == unmade \subseteq Sto!Files /\ \A f \in unmade, p \in Sto!Paths : tree[p] # f
           Asks(r) == \/ r = Sto!Idle
                      \/ /\ r.op \in Ops /\ r.path \in Sto!Paths
                         /\ r.op = "rename" => /\ r.to \in Sto!Paths /\ r.free
                                               /\ Sto!Parent(r.to) = Sto!Parent(r.path)
           Asked == DOMAIN browsing = Browsers /\ \A b \in Browsers : Asks(browsing[b])
           Good == Typed /\ Held /\ Once /\ Fresh
<1>1. /\ Sto!Missing \notin Sto!Files /\ Sto!Dir \notin Sto!Files /\ Sto!Missing # Sto!Dir
      /\ \A p \in Sto!Paths : p # << >> /\ Sto!At(p) = tree[p]
      /\ Sto!At(<< >>) = Sto!Dir
      /\ \A p \in Sto!Paths : Sto!Parent(p) = << >> \/ Sto!Parent(p) \in Sto!Paths
  <2>1. Sto!Missing \notin Sto!Files /\ Sto!Dir \notin Sto!Files /\ Sto!Missing # Sto!Dir
    BY StoNamesAssumption DEF Sto!NamesAssumption, Sto!Files, Sto!Missing, Sto!Dir
  <2> QED
    BY <2>1, ParentsAreAbove DEF Sto!At
<1>2. \A p \in Sto!Paths : /\ Sto!Exists(p) <=> tree[p] # Sto!Missing
                           /\ Sto!IsDir(p) <=> tree[p] = Sto!Dir
                           /\ Sto!Writable(p) <=> Sto!Parent(p) = << >> \/ tree[Sto!Parent(p)] = Sto!Dir
  BY <1>1 DEF Sto!Exists, Sto!IsDir, Sto!Writable
<1>3. Good /\ Asked
  BY <1>2 DEF Sto!TreeInv, Sto!TypeOK, Sto!Idle
<1>4. ASSUME Good', Asked' PROVE Sto!TreeInv'
  <2>1. \A p \in Sto!Paths : Sto!At(p)' = tree'[p] /\ Sto!At(<< >>)' = Sto!Dir
    BY <1>1 DEF Sto!At
  <2>2. \A p \in Sto!Paths : Sto!Exists(p)' => Sto!Writable(p)'
    BY <1>1, <1>4, <2>1 DEF Sto!Exists, Sto!IsDir, Sto!Writable
  <2>3. \A b \in Browsers : browsing'[b] = Sto!Idle => browsing'[b].op # "rename"
    BY DEF Sto!Idle
  <2> QED
    BY <1>4, <2>2, <2>3 DEF Sto!TreeInv, Sto!TypeOK
\* Requests that look, and what answers one.
<1>5. ASSUME UNCHANGED tree PROVE Sto!FileSurvives
  BY <1>5 DEF Sto!FileSurvives, Sto!Kept
<1>6. ASSUME NEW b \in Browsers, NEW r, Sto!Found(b, r), Asks(r) PROVE Sto!TreeInv' /\ Sto!FileSurvives
  <2>1. UNCHANGED <<tree, unmade>> /\ browsing' = [browsing EXCEPT ![b] = r]
    BY <1>6 DEF Sto!Found
  <2>2. Asked'
    BY <1>3, <1>6, <2>1
  <2> QED
    BY <1>3, <1>4, <1>5, <2>1, <2>2
<1>7. ASSUME NEW b \in Browsers, Sto!Answer(b) PROVE Asked' /\ browsing'[b] = Sto!Idle
  BY <1>3, <1>7 DEF Sto!Answer
<1>8. ASSUME NEW b \in Browsers, browsing[b].op \in Ops PROVE browsing[b] # Sto!Idle /\ browsing[b].path \in Sto!Paths
  BY <1>3, <1>8 DEF Sto!Idle
<1>9. ASSUME NEW b \in Browsers, NEW p \in Sto!Paths,
             Sto!CheckCreate(b, p) \/ Sto!CheckDelete(b, p) \/ Sto!CheckWrite(b, p)
      PROVE  Sto!TreeInv' /\ Sto!FileSurvives
  <2>1. PICK op \in Ops \ {"rename"} : Sto!Found(b, [op |-> op, path |-> p])
    BY <1>9 DEF Sto!CheckCreate, Sto!CheckDelete, Sto!CheckWrite
  <2> QED
    BY <1>6, <2>1
<1>10. ASSUME NEW b \in Browsers, NEW p \in Sto!Paths, NEW n \in Sto!EntryNames,
              Sto!CheckRename(b, p, n)
       PROVE  Sto!TreeInv' /\ Sto!FileSurvives
  <2>1. PICK to : to = Sto!Named(p, n)
    OBVIOUS
  <2>2. PICK r : r = [op |-> "rename", path |-> p, to |-> to, free |-> TRUE]
    OBVIOUS
  <2>3. Sto!Found(b, r)
    BY <1>10, <2>1, <2>2 DEF Sto!CheckRename
  <2>4. Asks(r)
    BY <2>1, <2>2, NamedIsBeside
  <2> QED
    BY <1>6, <2>3, <2>4
\* What acts.
<1>11. ASSUME NEW b \in Browsers, Sto!CreateDirectory(b) PROVE Sto!TreeInv' /\ Sto!FileSurvives
  <2> DEFINE p == browsing[b].path
             above == {q \in Sto!Paths : Sto!IsPrefix(q, p)}
  <2>1. /\ p \in Sto!Paths /\ unmade' = unmade /\ Asked'
        /\ tree' = IF \E q \in above : tree[q] \in Sto!Files THEN tree
                   ELSE [q \in Sto!Paths |-> IF q \in above THEN Sto!Dir ELSE tree[q]]
    BY <1>7, <1>8, <1>11 DEF Sto!CreateDirectory
  <2>2. CASE tree' = tree
    BY <1>3, <1>4, <1>5, <2>1, <2>2
  <2>3. CASE /\ \A q \in above : tree[q] \notin Sto!Files
             /\ tree' = [q \in Sto!Paths |-> IF q \in above THEN Sto!Dir ELSE tree[q]]
    <3>1. \A q \in Sto!Paths : q \in above <=> q = p \/ Sto!Parent(p) = q
      BY <2>1, BelowIsIn
    <3>2. \A q \in above : Sto!Parent(q) = << >> \/ Sto!Parent(q) \in above
      BY <1>1, <2>1, <3>1, ParentsAreAbove
    <3>3. Typed' /\ Once' /\ Fresh'
      BY <1>1, <1>3, <2>1, <2>3
    <3>4. Held'
      BY <1>1, <1>3, <2>3, <3>2
    <3>5. \A f \in Sto!Files, q \in Sto!Paths : tree[q] = f => tree'[q] = f
      BY <2>3
    <3> QED
      BY <1>4, <2>1, <3>3, <3>4, <3>5 DEF Sto!FileSurvives, Sto!Kept
  <2> QED
    BY <2>1, <2>2, <2>3
<1>12. ASSUME NEW p \in Sto!Paths, tree' = Sto!Without(p), unmade' = unmade
       PROVE  /\ Good'
              /\ \A q \in Sto!Paths : tree'[q] = IF q = p \/ Sto!Parent(q) = p THEN Sto!Missing ELSE tree[q]
  <2>1. \A q \in Sto!Paths : tree'[q] = IF q = p \/ Sto!Parent(q) = p THEN Sto!Missing ELSE tree[q]
    BY <1>12, BelowIsIn DEF Sto!Without
  <2>2. tree' = [q \in Sto!Paths |-> IF q = p \/ Sto!Parent(q) = p THEN Sto!Missing ELSE tree[q]]
    BY <1>12, BelowIsIn DEF Sto!Without
  <2>3. Typed' /\ Once' /\ Fresh'
    BY <1>1, <1>3, <1>12, <2>2
  <2>4. Held'
    <3> SUFFICES ASSUME NEW q \in Sto!Paths, tree'[q] # Sto!Missing, Sto!Parent(q) # << >>
                 PROVE  tree'[Sto!Parent(q)] = Sto!Dir
      OBVIOUS
    <3>1. tree[q] # Sto!Missing /\ q # p /\ Sto!Parent(q) # p
      BY <2>1
    <3>2. /\ Sto!Parent(q) \in Sto!Paths /\ tree[Sto!Parent(q)] = Sto!Dir
          /\ Sto!Parent(Sto!Parent(q)) = << >>
      BY <1>1, <1>3, <3>1, ParentsAreAbove
    <3> QED
      BY <1>1, <2>1, <3>1, <3>2
  <2> QED
    BY <2>1, <2>3, <2>4
<1>13. ASSUME NEW b \in Browsers, Sto!RemoveDir(b) PROVE Sto!TreeInv' /\ Sto!FileSurvives
  <2> DEFINE p == browsing[b].path
  <2>1. /\ p \in Sto!Paths /\ unmade' = unmade /\ Asked'
        /\ tree' = IF Sto!IsDir(p) /\ Sto!Children(p) = {} THEN Sto!Without(p) ELSE tree
    BY <1>7, <1>8, <1>13 DEF Sto!RemoveDir
  <2>2. CASE tree' = tree
    BY <1>3, <1>4, <1>5, <2>1, <2>2
  <2>3. CASE tree' = Sto!Without(p) /\ Sto!IsDir(p) /\ Sto!Children(p) = {}
    <3>1. \A q \in Sto!Paths : Sto!Parent(q) = p => tree[q] = Sto!Missing
      <4> SUFFICES ASSUME NEW q \in Sto!Paths, Sto!Parent(q) = p, tree[q] # Sto!Missing PROVE FALSE
        OBVIOUS
      <4>1. Len(q) = Len(p) + 1
        BY <2>1, ChildIsLonger
      <4> QED
        BY <1>2, <2>3, <4>1 DEF Sto!Children
    <3>2. \A f \in Sto!Files, q \in Sto!Paths : tree[q] = f => tree'[q] = f
      BY <1>1, <1>2, <1>12, <2>1, <2>3, <3>1
    <3> QED
      BY <1>4, <1>12, <2>1, <2>3, <3>2 DEF Sto!FileSurvives, Sto!Kept
  <2> QED
    BY <2>1, <2>2, <2>3
<1>14. ASSUME NEW b \in Browsers, Sto!RemoveFile(b) PROVE Sto!TreeInv' /\ Sto!FileSurvives
  <2> DEFINE p == browsing[b].path
  <2>1. /\ p \in Sto!Paths /\ unmade' = unmade /\ Asked' /\ browsing'[b] = Sto!Idle
        /\ browsing[b].op = "remove_file"
        /\ tree' = IF tree[p] \in Sto!Files THEN Sto!Without(p) ELSE tree
    BY <1>1, <1>7, <1>8, <1>14 DEF Sto!RemoveFile
  <2>2. CASE tree' = tree
    BY <1>3, <1>4, <1>5, <2>1, <2>2
  <2>3. CASE tree' = Sto!Without(p) /\ tree[p] \in Sto!Files
    <3>1. \A q \in Sto!Paths : Sto!Parent(q) = p => tree[q] = Sto!Missing
      BY <1>1, <1>3, <2>1, <2>3, ParentsAreAbove
    <3>2. \A f \in Sto!Files, q \in Sto!Paths : tree[q] = f => tree'[q] = f \/ tree[p] = f
      BY <1>1, <1>12, <2>1, <2>3, <3>1
    <3>3. Sto!FileSurvives
      BY <2>1, <3>2 DEF Sto!FileSurvives, Sto!Kept, Sto!Removes
    <3> QED
      BY <1>4, <1>12, <2>1, <2>3, <3>3
  <2> QED
    BY <2>1, <2>2, <2>3
<1>15. ASSUME NEW b \in Browsers, Sto!RenamePath(b) PROVE Sto!TreeInv' /\ Sto!FileSurvives
  <2> DEFINE p == browsing[b].path
             to == browsing[b].to
  <2>1. /\ browsing[b].op = "rename" /\ p \in Sto!Paths /\ to \in Sto!Paths /\ browsing[b].free
        /\ Sto!Parent(p) = Sto!Parent(to) /\ unmade' = unmade /\ Asked' /\ browsing'[b] = Sto!Idle
    BY <1>3, <1>7, <1>8, <1>15 DEF Sto!RenamePath
  <2>2. CASE tree' = tree
    BY <1>3, <1>4, <1>5, <2>1, <2>2
  <2>3. CASE /\ p # to /\ Sto!Exists(p) /\ Sto!Replaces(p, to)
             /\ tree' = [q \in Sto!Paths |-> IF Sto!IsPrefix(to, q) THEN Sto!At(Sto!Before(q, p, to))
                                             ELSE IF Sto!IsPrefix(p, q) THEN Sto!Missing ELSE tree[q]]
    <3> DEFINE Was(q) == IF q = to THEN p ELSE Sto!Before(q, p, to)
               In(q, r) == q = r \/ Sto!Parent(q) = r
    <3>1. /\ \A q \in Sto!Paths : In(q, to) => Was(q) \in Sto!Paths /\ In(Was(q), p)
          /\ \A q, r \in Sto!Paths : In(q, to) /\ In(r, to) /\ Was(q) = Was(r) => q = r
          /\ \A c \in Sto!Paths : In(c, p) => \E q \in Sto!Paths : In(q, to) /\ Was(q) = c
          /\ \A q \in Sto!Paths : q # to /\ Sto!Parent(q) = to => Sto!Parent(Was(q)) = p
          /\ \A q \in Sto!Paths : In(q, to) => Was(q) = Sto!Before(q, p, to)
      <4>1. \A q \in Sto!Paths : Sto!Parent(q) # q
        BY ParentsAreAbove
      <4> QED
        BY <2>1, <4>1, RenameMoves
    <3>2. \A q \in Sto!Paths : ~(In(q, to) /\ In(q, p))
      <4>1. ASSUME NEW q \in Sto!Paths, In(q, to), In(q, p) PROVE FALSE
        BY <2>1, <2>3, <4>1, ParentsAreAbove
      <4> QED
        BY <4>1
    <3>3. /\ tree' = [q \in Sto!Paths |-> IF In(q, to) THEN tree[Was(q)]
                                         ELSE IF In(q, p) THEN Sto!Missing ELSE tree[q]]
      <4>1. \A q \in Sto!Paths : /\ Sto!IsPrefix(to, q) <=> In(q, to)
                                 /\ Sto!IsPrefix(p, q) <=> In(q, p)
                                 /\ In(q, to) => Sto!At(Sto!Before(q, p, to)) = tree[Was(q)]
        BY <1>1, <2>1, <3>1, BelowIsIn
      <4> QED
        BY <2>3, <4>1
    <3> HIDE DEF Was
    <3>4. Typed'
      BY <1>3, <3>1, <3>3
    <3>5. Once'
      <4> SUFFICES ASSUME NEW q \in Sto!Paths, NEW r \in Sto!Paths, tree'[q] \in Sto!Files,
                          tree'[q] = tree'[r]
                   PROVE  q = r
        OBVIOUS
      <4>1. /\ tree'[q] = IF In(q, to) THEN tree[Was(q)] ELSE tree[q]
            /\ tree'[r] = IF In(r, to) THEN tree[Was(r)] ELSE tree[r]
            /\ ~In(q, to) => ~In(q, p)
            /\ ~In(r, to) => ~In(r, p)
        BY <1>1, <3>3
      <4>2. PICK from \in Sto!Paths, was \in Sto!Paths :
              /\ tree[from] = tree'[q] /\ tree[was] = tree'[r]
              /\ IF In(q, to) THEN from = Was(q) ELSE from = q /\ ~In(q, p)
              /\ IF In(r, to) THEN was = Was(r) ELSE was = r /\ ~In(r, p)
        BY <3>1, <4>1
      <4>3. from = was
        BY <1>3, <4>2
      <4>4. In(q, to) <=> In(from, p)
        BY <3>1, <4>2
      <4>5. In(r, to) <=> In(was, p)
        BY <3>1, <4>2
      <4> QED
        BY <3>1, <4>2, <4>3, <4>4, <4>5
    <3>6. Fresh'
      BY <1>1, <1>3, <2>1, <3>1, <3>3
    <3>7. Held'
      <4> SUFFICES ASSUME NEW q \in Sto!Paths, tree'[q] # Sto!Missing, Sto!Parent(q) # << >>
                   PROVE  tree'[Sto!Parent(q)] = Sto!Dir
        OBVIOUS
      <4>1. Sto!Parent(q) \in Sto!Paths /\ Sto!Parent(Sto!Parent(q)) = << >>
        BY ParentsAreAbove
      <4>2. CASE q = to
        <5>1. tree[p] # Sto!Missing /\ tree[Sto!Parent(p)] = Sto!Dir
          BY <1>2, <1>3, <2>1, <2>3, <4>2
        <5>2. ~In(Sto!Parent(q), to) /\ ~In(Sto!Parent(q), p)
          BY <1>1, <2>1, <4>1, <4>2, ParentsAreAbove
        <5> QED
          BY <2>1, <3>3, <4>1, <4>2, <5>1, <5>2
      <4>3. CASE q # to /\ Sto!Parent(q) = to
        <5>1. tree[Was(q)] # Sto!Missing /\ Was(q) \in Sto!Paths /\ Sto!Parent(Was(q)) = p
          BY <3>1, <3>3, <4>3
        <5>2. tree[p] = Sto!Dir
          BY <1>1, <1>3, <2>1, <5>1
        <5>3. tree'[to] = tree[p]
          BY <2>1, <3>3 DEF Was
        <5> QED
          BY <4>3, <5>2, <5>3
      <4>4. CASE ~In(q, to)
        <5>1. tree[q] # Sto!Missing /\ ~In(q, p) /\ tree[Sto!Parent(q)] = Sto!Dir
          BY <1>3, <3>3, <4>4
        <5>2. ~In(Sto!Parent(q), to) /\ ~In(Sto!Parent(q), p)
          BY <1>1, <2>1, <4>1, <4>4, <5>1
        <5> QED
          BY <3>3, <4>1, <5>1, <5>2
      <4> QED
        BY <4>2, <4>3, <4>4
    <3>8. ASSUME NEW f \in Sto!Files, NEW q \in Sto!Paths, tree[q] = f
          PROVE  tree[to] = f \/ \E r \in Sto!Paths : tree'[r] = f
      <4>1. CASE In(q, p)
        <5>1. PICK r \in Sto!Paths : In(r, to) /\ Was(r) = q
          BY <3>1, <4>1
        <5> QED
          BY <3>3, <3>8, <5>1
      <4>2. CASE q # to /\ Sto!Parent(q) = to
        <5>1. tree[to] = Sto!Dir /\ Sto!Children(to) = {}
          BY <1>1, <1>2, <1>3, <2>1, <2>3, <3>8, <4>2 DEF Sto!Replaces
        <5>2. Len(q) = Len(to) + 1
          BY <2>1, <4>2, ChildIsLonger
        <5> QED
          BY <1>1, <1>2, <3>8, <4>2, <5>1, <5>2 DEF Sto!Children
      <4>3. CASE ~In(q, p) /\ ~In(q, to)
        BY <3>3, <3>8, <4>3
      <4> QED
        BY <3>8, <4>1, <4>2, <4>3
    <3>9. Sto!FileSurvives
      BY <2>1, <3>8 DEF Sto!FileSurvives, Sto!Kept, Sto!Removes
    <3> QED
      BY <1>4, <2>1, <3>4, <3>5, <3>6, <3>7, <3>9
  <2> QED
    BY <1>15, <2>2, <2>3 DEF Sto!RenamePath
<1>16. ASSUME NEW p \in Sto!Paths, ~Sto!Exists(p), Sto!Writable(p), Sto!Create(p)
       PROVE  Good' /\ Sto!FileSurvives
  <2>1. PICK f \in unmade : tree' = [tree EXCEPT ![p] = f] /\ unmade' = unmade \ {f}
    BY <1>16 DEF Sto!Create
  <2>2. /\ tree[p] = Sto!Missing /\ f \in Sto!Files
        /\ Sto!Parent(p) = << >> \/ tree[Sto!Parent(p)] = Sto!Dir
    BY <1>2, <1>3, <1>16
  <2>3. \A q \in Sto!Paths : tree'[q] = IF q = p THEN f ELSE tree[q]
    BY <1>3, <2>1
  <2>4. Typed' /\ Once' /\ Fresh'
    BY <1>1, <1>3, <2>1, <2>2
  <2>5. Held'
    BY <1>1, <1>3, <2>2, <2>3
  <2>6. Sto!FileSurvives
    BY <1>1, <2>2, <2>3 DEF Sto!FileSurvives, Sto!Kept
  <2> QED
    BY <2>4, <2>5, <2>6
<1>17. ASSUME NEW b \in Browsers, Sto!WriteTextFile(b) PROVE Sto!TreeInv' /\ Sto!FileSurvives
  <2> DEFINE p == browsing[b].path
  <2>1. p \in Sto!Paths /\ Asked'
    BY <1>7, <1>8, <1>17 DEF Sto!WriteTextFile
  <2>2. \/ UNCHANGED <<tree, unmade>>
        \/ ~Sto!Exists(p) /\ Sto!Writable(p) /\ Sto!Create(p)
    BY <1>17 DEF Sto!WriteTextFile
  <2> QED
    BY <1>3, <1>4, <1>5, <1>16, <2>1, <2>2
<1>18. ASSUME NEW p \in Sto!Paths, Sto!AppCreates(p) PROVE Sto!TreeInv' /\ Sto!FileSurvives
  <2>1. ~Sto!Exists(p) /\ Sto!Writable(p) /\ Sto!Create(p) /\ UNCHANGED browsing
    BY <1>18 DEF Sto!AppCreates
  <2> QED
    BY <1>3, <1>4, <1>16, <2>1
<1>19. CASE UNCHANGED Sto!storageVars
  BY <1>3, <1>4, <1>5, <1>19 DEF Sto!storageVars
<1> QED
  BY <1>9, <1>10, <1>11, <1>13, <1>14, <1>15, <1>17, <1>18, <1>19 DEF Sto!Next

-----------------------------------------------------------------------------
(* The properties of the run.                                             *)

\* The gateway finds the assignment of an app whose assignment and domain stay as they are, and
\* sends it what was asked for; an address a request is sent to was a service's while its entry
\* lived; and a health answer was true at some time in the check.
THEOREM AppsAlwaysReached == Spec => []AppsAreReached
<1> DEFINE Inv == /\ part = "gateway" => Gat!GatewayInv
                  /\ part = "endpoints" => End!EndpointInv
                  /\ part = "health" => Hea!HealthInv
<1>1. Init => Inv
  BY RoutesInitially, EndpointsInitially, HealthInitially DEF Init
<1>2. Inv /\ [Next]_vars => Inv'
  <2> SUFFICES ASSUME Inv, [Next]_vars PROVE Inv'
    OBVIOUS
  <2>1. part = "gateway" => [Gat!Next]_(Gat!gatewayVars)
    BY DEF Next, vars, Gat!gatewayVars
  <2>2. part = "endpoints" => [End!Next]_(End!endpointVars)
    BY DEF Next, vars, End!endpointVars
  <2>3. part = "health" => [Hea!Next]_(Hea!healthVars)
    BY DEF Next, vars, Hea!healthVars
  <2> QED
    BY <2>1, <2>2, <2>3, PartIsKept, RoutesKept, EndpointsKept, HealthKept
<1>3. Inv => AppsAreReached
  BY DEF AppsAreReached, Gat!GatewayInv, End!EndpointInv, Hea!HealthInv
<1> QED
  BY <1>1, <1>2, <1>3, PTL DEF Spec

\* What was deployed last follows the app's VPN assignment, what is mounted is what the chart
\* takes, and an install asks for the GPU that was chosen.
THEOREM ChoicesAlwaysMet == Spec => []ChoicesAreMet
<1> DEFINE Inv == /\ part = "deployment" => Dep!SettledInv
                  /\ part = "mounts" => Mou!MountInv
                  /\ part = "gpu" => Gpu!GpuInv
<1>1. Init => Inv
  BY SettledInitially, MountsInitially, GpuInitially DEF Init
<1>2. Inv /\ [Next]_vars => Inv'
  <2> SUFFICES ASSUME Inv, [Next]_vars PROVE Inv'
    OBVIOUS
  <2>1. part = "deployment" => [Dep!Next]_(Dep!deployVars)
    BY DEF Next, vars, Dep!deployVars, Dep!tables, Dep!requests, Dep!cluster
  <2>2. part = "mounts" => [Mou!Next]_(Mou!mountVars)
    BY DEF Next, vars, Mou!mountVars
  <2>3. part = "gpu" => [Gpu!Next]_(Gpu!gpuVars)
    BY DEF Next, vars, Gpu!gpuVars
  <2> QED
    BY <2>1, <2>2, <2>3, PartIsKept, SettledKept, MountsKept, GpuKept
<1>3. Inv => ChoicesAreMet
  <2>1. Dep!SettledInv => Dep!SettledFollowsAssignment
    BY DEF Dep!SettledInv, Dep!DoneFollows, Dep!SettledFollowsAssignment
  <2>2. Gpu!GpuInv => Gpu!GpuIsAsChosen
    BY DEF Gpu!GpuInv
  <2> QED
    BY <2>1, <2>2, SavedServes DEF ChoicesAreMet
<1> QED
  BY <1>1, <1>2, <1>3, PTL DEF Spec

\* A file leaves the volume only by its own deletion or by a race for its name, and a choice of
\* mounts or of private config that was saved goes only for another.
THEOREM NothingEverLost == Spec => NothingIsLost
<1> DEFINE Inv == /\ part = "storage" => Sto!TreeInv
                  /\ part = "mounts" => Mou!MountInv
           Lost == /\ part = "storage" => Sto!FileSurvives
                   /\ part = "mounts" => Mou!ChoiceKept
<1>1. Init => Inv
  BY TreeInitially, MountsInitially DEF Init
<1>2. Inv /\ [Next]_vars => Inv' /\ Lost
  <2> SUFFICES ASSUME Inv, [Next]_vars PROVE Inv' /\ Lost
    OBVIOUS
  <2>1. part = "storage" => [Sto!Next]_(Sto!storageVars)
    BY DEF Next, vars, Sto!storageVars
  <2>2. part = "mounts" => [Mou!Next]_(Mou!mountVars)
    BY DEF Next, vars, Mou!mountVars
  <2> QED
    BY <2>1, <2>2, PartIsKept, TreeKept, MountsKept
<1>3. Inv /\ [Next]_vars => Inv' /\ [Lost]_vars
  BY <1>2
<1> QED
  BY <1>1, <1>3, PTL DEF Spec, NothingIsLost

=============================================================================
