------------------------------ MODULE NetworkGraph ------------------------------
(***************************************************************************)
(* The graph of the networking page: apps with traffic, edges found by     *)
(* looking for references to services in one list of Kubernetes objects    *)
(* after the other, and what Hubble and the flow exporter measured.  The   *)
(* cluster changes meanwhile, and any list can fail and is left out.       *)
(* Edges of one namespace never meet those of another, so that the lists   *)
(* of one kind are one step.                                               *)
(***************************************************************************)
EXTENDS Integers, FiniteSets, Functions

CONSTANTS
  Spaces,         \* namespaces the page shows
  ServiceNames,   \* short names of services
  PodAddresses,   \* of Pods
  Readings,       \* what can have been measured: flows and bytes, as sets of rows
  Unknown,        \* no namespace, no number
  MaxUpsets       \* bound: changes of the cluster and lists that fail

VARIABLES
  services,   \* of each namespace: its services
  says,       \* of each namespace: where it refers to which service, or to what
  access,     \* of each namespace: "exposed", "blocked" or "plain"
  holders,    \* of each address: the namespace of its Pod
  step,       \* of the request
  graph,      \* shown namespaces, whether flows are added, owners of services, edges, Pods
  upsets,     \* changes and faults so far
  reading,    \* ghost: what was measured
  told,       \* ghost: references and services of each namespace since it began
  closed,     \* ghost: namespaces blocked at some time since it began
  moved       \* ghost: addresses that changed hands since it began

netVars == <<services, says, access, holders, step, graph, upsets, reading, told, closed, moved>>
cluster == <<services, says, access, holders>>
ghosts == <<reading, told, closed, moved>>

External == "external"
Fixed == {External, "lan", "node", "host"}

\* No namespace has the name of a node that is always drawn.
SpacesAssumption ==
  /\ IsFiniteSet(Spaces) /\ Spaces \cap (Fixed \cup {Unknown}) = {}
  /\ Unknown \notin Fixed \cup Nat

\* Answers are finite; flows come from namespaces or hosts, bytes from addresses or outside.
ReadingsAssumption ==
  \A r \in Readings :
    /\ \A rows \in {r.flows, r.bytes} :
         IsFiniteSet(rows) /\ \A row \in rows : row.rate \in Nat \cup {Unknown}
    /\ \A row \in r.flows : row.from \notin {"lan", "node"} /\ row.to # "host"
    /\ \A row \in r.bytes : {row.from, row.to} \subseteq PodAddresses \cup {"internet", "lan", "host"}

\* A service goes by its name and by its name and namespace.
Keys == {<<n>> : n \in ServiceNames} \cup (ServiceNames \X Spaces)

\* A value that has the longer name has the shorter one, too.
Mentions(key) == {key, <<key[1]>>}

\* What a namespace can refer to: in a ConfigMap, an annotation, by Endpoints that name Pods
\* of another namespace, or with an Ingress and its backend.
Sayings ==
  [by : {"config", "upstream", "ingress-backend"}, key : Keys] \cup [by : {"endpoint"}, to : Spaces]

\* The pairs such a reference is for, whoever has a service of that name.
Refers(ns, saying, has) ==
  IF saying.by = "endpoint" THEN {<<ns, saying.to>>}
  ELSE {<<ns, other>> : other \in {o \in Spaces : saying.key[1] \in has[o]}}
Told(said, has) == UNION {UNION {Refers(ns, s, has) : s \in said[ns]} : ns \in Spaces}

Pairs == DOMAIN graph.edges
Edge(kind) == [kind |-> kind, flows |-> 0, bytes |-> 0]

\* The first edge of a pair stays (seen_edges).
WithEdges(new) ==
  [graph EXCEPT !.edges =
     [pair \in Pairs \cup DOMAIN new |-> IF pair \in Pairs THEN graph.edges[pair] ELSE new[pair]]]

Goes(from, to) == step = from /\ step' = to

\* A list fails for some namespaces: they are left out.
Answers(List(_)) ==
  \E lost \in SUBSET graph.shown :
    /\ upsets + Cardinality(lost) <= MaxUpsets /\ upsets' = upsets + Cardinality(lost)
    /\ List(graph.shown \ lost)

-----------------------------------------------------------------------------

\* Spaces with metrics.
Begin(answering) ==
  /\ Goes("idle", "services")
  /\ \E shown \in SUBSET Spaces : graph' = [graph EXCEPT !.shown = shown, !.measured = answering]
  /\ told' = [says |-> says, services |-> services]
  /\ closed' = {ns \in Spaces : access[ns] = "blocked"}
  /\ moved' = {}
  /\ UNCHANGED <<cluster, upsets, reading>>

\* A request's graph has what was measured; what every second goes to who listens does not.
GetNetworkTopology == Begin(TRUE)
Broadcast == Begin(FALSE)

\* One map for all: of services with one short name the last one listed has it.
MapServices ==
  /\ Goes("services", "config")
  /\ LET Map(listed) ==
           \E last \in [ServiceNames -> Spaces \cup {Unknown}] :
             /\ \A n \in ServiceNames :
                  LET with == {ns \in listed : n \in services[ns]}
                  IN IF with = {} THEN last[n] = Unknown ELSE last[n] \in with
             /\ graph' = [graph EXCEPT !.owners =
                  {<<k, k[2]>> : k \in {x \in ServiceNames \X listed : x[1] \in services[x[2]]}}
                  \cup {<< <<n>>, last[n]>> : n \in {x \in ServiceNames : last[x] # Unknown}}]
     IN Answers(Map)
  /\ UNCHANGED <<cluster, ghosts>>

\* Mutant of Owners: an app is connected to itself.
OwnersWithOwn(ns, keys) == {o[2] : o \in {x \in graph.owners : x[1] \in keys}}

Owners(ns, keys) == {o[2] : o \in {x \in graph.owners : x[1] \in keys}} \ {ns}

\* ConfigMaps, annotations of services: any value that has a service's name in it.
FindReferences(kind, next) ==
  /\ Goes(kind, next)
  /\ LET Find(listed) ==
           LET found == UNION {{ns} \X UNION {Owners(ns, Mentions(s.key)) :
                                 s \in {x \in says[ns] : x.by = kind}} : ns \in listed}
           IN graph' = WithEdges([pair \in found |-> Edge(kind)])
     IN Answers(Find)
  /\ UNCHANGED <<cluster, ghosts>>

FindEndpoints ==
  /\ Goes("endpoint", "upstream")
  /\ LET Find(listed) ==
           LET found == UNION {{ns} \X {s.to : s \in {x \in says[ns] : x.by = "endpoint"}}
                                 : ns \in listed}
           IN graph' = WithEdges([pair \in {p \in found : p[1] # p[2] /\ p[2] \in graph.shown}
                                  |-> Edge("endpoint")])
     IN Answers(Find)
  /\ UNCHANGED <<cluster, ghosts>>

\* LoadBalancer and NodePort services.
FindExposed ==
  /\ Goes("exposed", "ingress")
  /\ LET Find(listed) ==
           graph' = WithEdges([pair \in {External} \X {ns \in listed : access[ns] = "exposed"}
                               |-> Edge("ingress")])
     IN Answers(Find)
  /\ UNCHANGED <<cluster, ghosts>>

\* The first Ingress of a namespace: one edge from outside, and its backends, looked up by
\* their short name in the one map.
FindIngresses ==
  /\ Goes("ingress", "policies")
  /\ LET Behind(ns) == {s \in says[ns] : s.by = "ingress-backend"}
         Find(listed) ==
           LET inward == {External} \X {ns \in listed : Behind(ns) # {}}
               behind == UNION {{ns} \X UNION {Owners(ns, {<<s.key[1]>>}) : s \in Behind(ns)}
                                  : ns \in listed}
           IN graph' = WithEdges([pair \in inward \cup behind |->
                                   Edge(IF pair \in inward THEN "ingress" ELSE "ingress-backend")])
     IN Answers(Find)
  /\ UNCHANGED <<cluster, ghosts>>

\* A namespace reaches the internet unless a policy that was listed forbids it.
FindPolicies ==
  /\ Goes("policies", IF graph.measured THEN "pods" ELSE "done")
  /\ LET Find(listed) ==
           LET blocked == {ns \in listed : access[ns] = "blocked"}
           IN graph' = WithEdges([pair \in (graph.shown \ blocked) \X {External} |-> Edge("egress")])
     IN Answers(Find)
  /\ UNCHANGED <<cluster, ghosts>>

ListPods ==
  /\ Goes("pods", "observed")
  /\ LET List(listed) ==
           graph' = [graph EXCEPT !.pods =
             [a \in PodAddresses |-> IF holders[a] \in listed THEN holders[a] ELSE Unknown]]
     IN Answers(List)
  /\ UNCHANGED <<cluster, ghosts>>

-----------------------------------------------------------------------------

\* The same search for a request and for the broadcast.
DiscoverServiceConnections ==
  \/ MapServices
  \/ FindReferences("config", "endpoint") \/ FindEndpoints
  \/ FindReferences("upstream", "exposed") \/ FindExposed \/ FindIngresses \/ FindPolicies

\* edge_target, and an empty source: the host.
FlowPair(row) == <<IF row.from = "" THEN "host" ELSE row.from,
                   CASE row.to = "reserved:world" -> External
                     [] row.to = "cidr:" -> "lan"
                     [] row.to = "reserved:remote-node" -> "node"
                     [] OTHER -> row.to>>

\* Malformed samples and labels that are no class are skipped; so is what stays in a node.
Counted(row) == row.rate # Unknown /\ row.to \notin {"", "reserved:init"}

SumOf(rows) == SumFunction([row \in rows |-> row.rate])

\* What Hubble saw is added, with edges of its own; without an answer there are no rows.
MergeObservedEdges ==
  /\ Goes("observed", "bytes")
  /\ \E r \in Readings : reading' = r
  /\ LET rows == {row \in reading'.flows : Counted(row)}
         seen == {FlowPair(row) : row \in rows}
         On(pair) == {row \in rows : FlowPair(row) = pair}
         pairs == Pairs \cup {pair \in seen : pair[1] # pair[2]}
     IN graph' = [graph EXCEPT !.edges = [pair \in pairs |->
          LET edge == IF pair \in Pairs THEN graph.edges[pair] ELSE Edge("observed")
          IN [edge EXCEPT !.flows = @ + SumOf(On(pair))]]]
  /\ UNCHANGED <<cluster, upsets, told, closed, moved>>

\* resolve_edge_endpoint: an address without a Pod any more is nobody's.
End(name, pods) ==
  CASE name \in {"internet", "lan"} -> External
    [] name = "host" -> "host"
    [] OTHER -> pods[name]

BytePair(row, pods) == <<End(row.from, pods), End(row.to, pods)>>
Between(rows, pods, a, b) ==
  SumOf({row \in rows : row.rate # Unknown /\ BytePair(row, pods) = <<a, b>>})

\* Each edge has what was measured between its ends, whichever way; rows whose ends are the
\* same, or that no edge is for, are left out.
MergeEdgeBytes ==
  /\ Goes("bytes", "done")
  /\ graph' = [graph EXCEPT !.edges = [pair \in Pairs |->
       [graph.edges[pair] EXCEPT !.bytes =
          Between(reading.bytes, graph.pods, pair[1], pair[2])
          + Between(reading.bytes, graph.pods, pair[2], pair[1])]]]
  /\ UNCHANGED <<cluster, upsets, ghosts>>

\* The nodes of the answer: apps and what edges need. The internet is there when any app
\* has a rate, whether edges need it or not.
Nodes ==
  graph.shown
  \cup ({"lan", "node"} \cap {pair[2] : pair \in Pairs})
  \cup ({"host"} \cap {pair[1] : pair \in Pairs})

-----------------------------------------------------------------------------

Upset == upsets < MaxUpsets /\ upsets' = upsets + 1

\* An app is installed, reconfigured or removed.
ChangeApp ==
  /\ Upset /\ step # "done"
  /\ \E ns \in Spaces :
       \/ /\ says' = [says EXCEPT ![ns] = {}] /\ says[ns] # {} /\ UNCHANGED services
       \/ \E s \in Sayings : says' = [says EXCEPT ![ns] = @ \cup {s}] /\ UNCHANGED services
       \/ \E n \in ServiceNames :
            /\ services' = [services EXCEPT ![ns] = IF n \in @ THEN @ \ {n} ELSE @ \cup {n}]
            /\ UNCHANGED says
  /\ told' = [says |-> [ns \in Spaces |-> told.says[ns] \cup says'[ns]],
              services |-> [ns \in Spaces |-> told.services[ns] \cup services'[ns]]]
  /\ UNCHANGED <<access, holders, step, graph, reading, closed, moved>>

ChangeAccess ==
  /\ Upset /\ step # "done"
  /\ \E ns \in Spaces, to \in {"exposed", "blocked", "plain"} :
       access' = [access EXCEPT ![ns] = to]
  /\ closed' = closed \cup {ns \in Spaces : access'[ns] = "blocked"}
  /\ UNCHANGED <<services, says, holders, step, graph, reading, told, moved>>

\* A Pod is replaced, and its address goes to another, or to none.
ChangePod ==
  /\ Upset /\ step # "done"
  /\ \E a \in PodAddresses, ns \in Spaces \cup {Unknown} :
       holders' = [holders EXCEPT ![a] = ns] /\ moved' = moved \cup {a}
  /\ UNCHANGED <<services, says, access, step, graph, reading, told, closed>>

Init ==
  /\ services = [ns \in Spaces |-> ServiceNames]
  /\ says \in [Spaces -> {{}} \cup {{s} : s \in Sayings}]
  /\ Cardinality({ns \in Spaces : says[ns] # {}}) <= 1
  /\ access = [ns \in Spaces |-> "plain"]
  /\ holders \in [PodAddresses -> Spaces]
  /\ step = "idle" /\ upsets = 0
  /\ graph = [shown |-> {}, measured |-> FALSE, owners |-> {}, edges |-> [p \in {} |-> Edge("")],
              pods |-> [a \in PodAddresses |-> Unknown]]
  /\ reading = [flows |-> {}, bytes |-> {}]
  /\ told = [says |-> says, services |-> services] /\ closed = {} /\ moved = {}

Next ==
  \/ GetNetworkTopology \/ Broadcast \/ DiscoverServiceConnections
  \/ ListPods \/ MergeObservedEdges \/ MergeEdgeBytes
  \/ ChangeApp \/ ChangeAccess \/ ChangePod

Spec == Init /\ [][Next]_netVars

-----------------------------------------------------------------------------

TypeOK ==
  /\ says \in [Spaces -> SUBSET Sayings] /\ services \in [Spaces -> SUBSET ServiceNames]
  /\ holders \in [PodAddresses -> Spaces \cup {Unknown}]
  /\ graph.shown \subseteq Spaces
  /\ \A pair \in Pairs : graph.edges[pair].flows \in Nat /\ graph.edges[pair].bytes \in Nat

\* What the answer shows can be drawn and is so: no app is connected to itself; edges that
\* were found join apps that are shown, or one and the internet, and there was a reference
\* to a service of that name; what is measured has its ends, and an app that is shown as cut
\* off from the internet was. Every flow that was counted is on one edge, and what two ends
\* exchanged on each between them, while addresses stay with their Pods.
GraphIsTrue ==
  step = "done" =>
    /\ \A pair \in Pairs :
         LET edge == graph.edges[pair]
         IN /\ pair[1] # pair[2]
            /\ edge.kind # "observed" =>
                 /\ {pair[1], pair[2]} \subseteq graph.shown \cup {External}
                 /\ External \notin {pair[1], pair[2]} => pair \in Told(told.says, told.services)
            /\ {pair[1], pair[2]} \cap {"lan", "node", "host"} \subseteq Nodes
            /\ upsets = 0 /\ {pair[1], pair[2]} \subseteq graph.shown =>
                 edge.bytes = Between(reading.bytes, holders, pair[1], pair[2])
                              + Between(reading.bytes, holders, pair[2], pair[1])
    /\ \A ns \in graph.shown \ closed : <<ns, External>> \in Pairs
    /\ SumFunction([pair \in Pairs |-> graph.edges[pair].flows])
         = SumOf({row \in reading.flows : Counted(row) /\ FlowPair(row)[1] # FlowPair(row)[2]})

\* What makes the graph true, list by list.
NoReading == [flows |-> {}, bytes |-> {}]
Measuring == {"bytes", "done"}
Kinds == {"config", "endpoint", "upstream", "ingress", "ingress-backend", "egress", "observed"}

ShapeInv ==
  /\ TypeOK /\ upsets \in Nat
  /\ step \in {"idle", "services", "config", "endpoint", "upstream", "exposed", "ingress",
               "policies", "pods", "observed"} \cup Measuring
  /\ DOMAIN graph = {"shown", "measured", "owners", "edges", "pods"}
  /\ graph.pods \in [PodAddresses -> Spaces \cup {Unknown}]
  /\ IsFiniteSet(Pairs)
  /\ \A pair \in Pairs : graph.edges[pair] \in [kind : Kinds, flows : Nat, bytes : Nat]

\* Whatever is there was there since the request began, and owners had a service of that name.
HistoryInv ==
  /\ \A ns \in Spaces : says[ns] \subseteq told.says[ns] /\ services[ns] \subseteq told.services[ns]
  /\ \A owner \in graph.owners :
       owner[2] \in graph.shown /\ owner[1][1] \in told.services[owner[2]]
  /\ step = "idle" => graph.owners = {} /\ Pairs = {}
  /\ step # "idle" => {ns \in Spaces : access[ns] = "blocked"} \subseteq closed
  /\ step \in {"pods", "observed"} \cup Measuring =>
       \A ns \in graph.shown \ closed : <<ns, External>> \in Pairs

\* A pair that was found, and one that was only measured.
Found(pair) ==
  /\ pair \in (graph.shown \cup {External}) \X (graph.shown \cup {External})
  /\ External \notin {pair[1], pair[2]} => pair \in Told(told.says, told.services)

EdgesInv ==
  \A pair \in Pairs :
    /\ pair[1] # pair[2] /\ pair[1] \notin {"lan", "node"} /\ pair[2] # "host"
    /\ graph.edges[pair].kind # "observed" => Found(pair)

\* Nothing is on an edge before it was measured; then all that was counted is, and Pods were
\* listed with the namespaces that have them.
MeasuresInv ==
  /\ reading \in Readings \cup {NoReading}
  /\ step \notin Measuring =>
       /\ reading = NoReading
       /\ \A pair \in Pairs : graph.edges[pair].flows = 0 /\ graph.edges[pair].bytes = 0
  /\ step \in Measuring =>
       SumFunction([pair \in Pairs |-> graph.edges[pair].flows])
         = SumOf({row \in reading.flows : Counted(row) /\ FlowPair(row)[1] # FlowPair(row)[2]})
  /\ step \in {"observed", "bytes"} /\ upsets = 0 =>
       \A a \in PodAddresses :
         graph.pods[a] = IF holders[a] \in graph.shown THEN holders[a] ELSE Unknown
  /\ step = "done" /\ upsets = 0 =>
       \A pair \in Pairs : {pair[1], pair[2]} \subseteq graph.shown =>
         graph.edges[pair].bytes = Between(reading.bytes, holders, pair[1], pair[2])
                                   + Between(reading.bytes, holders, pair[2], pair[1])

GraphInv == ShapeInv /\ HistoryInv /\ EdgesInv /\ MeasuresInv
=================================================================================
