------------------------------- MODULE GpuChoice -------------------------------
(***************************************************************************)
(* The GPU an app is given: chosen with an install or an update, checked   *)
(* when it is queued and again when the operation is executed, and set in  *)
(* the values of the app's Helm release, which updates reuse.  Nodes and   *)
(* charts change in between, and the chart is read from disk each time.    *)
(***************************************************************************)
EXTENDS Naturals

CONSTANTS
  Machines,    \* nodes
  Resources,   \* GPU resources that nodes can offer
  Roots,       \* values roots of a chart that hold resources, one per workload
  Nil,         \* no GPU, no release, no operation
  Omitted,     \* no choice
  MaxOrders,   \* bound: operations
  MaxTurns     \* bound: times a node or the chart changes

\* No GPU and no choice are not each other, nor a selection; nothing is not a record.
NilAssumption ==
  /\ Nil # Omitted
  /\ \A m \in Machines, r \in Resources : [machine |-> m, resource |-> r] \notin {Nil, Omitted}
  /\ \A gpu \in [machine : Machines, resource : Resources] \cup {Nil},
       keys \in SUBSET (Roots \X Resources) : [gpu |-> gpu, keys |-> keys] # Nil

VARIABLES
  offered,   \* of each node: the resources it has, ready and schedulable
  chart,     \* the chart on disk: whether it has GPU support, and its roots
  values,    \* what was set of the release: the GPU, its node, and resources of roots
  order,     \* the operation that is queued or executed
  failed,    \* the last one that failed
  orders,    \* operations so far
  turns,     \* changes so far
  wanted     \* ghost: the last choice that was deployed, and the roots then

gpuVars == <<offered, chart, values, order, failed, orders, turns, wanted>>

Selections == [machine : Machines, resource : Resources]
Keys == Roots \X Resources
Charts == [gpu : BOOLEAN, roots : SUBSET Roots]
Is(step) == IF order = Nil THEN FALSE ELSE order.step = step

\* validate_selection: the node is there, ready, schedulable and has the resource.
ValidSelection(gpu) ==
  IF gpu \in {Nil, Omitted} THEN TRUE ELSE gpu.resource \in offered[gpu.machine]

\* An explicit choice, also that of none, needs a chart with GPU support.
Supported(gpu) == gpu # Omitted => chart.gpu

Enqueue ==
  /\ order = Nil /\ orders < MaxOrders
  /\ \E kind \in {"install", "update"}, gpu \in Selections \cup {Nil, Omitted} :
       /\ kind = "update" => values # Nil
       /\ Supported(gpu) /\ ValidSelection(gpu)
       /\ order' = [kind |-> kind, gpu |-> gpu, step |-> "queued", steady |-> TRUE]
  /\ orders' = orders + 1
  /\ UNCHANGED <<offered, chart, values, failed, turns, wanted>>

\* A retry has the choice of the operation that failed, whatever the node is like now.
Retry ==
  /\ order = Nil /\ failed # Nil /\ orders < MaxOrders
  /\ Supported(failed.gpu)
  /\ order' = [failed EXCEPT !.step = "queued", !.steady = TRUE]
  /\ failed' = Nil /\ orders' = orders + 1
  /\ UNCHANGED <<offered, chart, values, turns, wanted>>

\* Executed: support and selection are checked again, or the operation fails.
Check ==
  /\ Is("queued")
  /\ IF Supported(order.gpu) /\ ValidSelection(order.gpu)
     THEN order' = [order EXCEPT !.step = "checked"] /\ UNCHANGED failed
     ELSE order' = Nil /\ failed' = order
  /\ UNCHANGED <<offered, chart, values, orders, turns, wanted>>

\* The chart is read once more: without support nothing is said of a GPU, and an update
\* without a choice leaves what there is.
ChooseValues ==
  /\ Is("checked")
  /\ order' = [order EXCEPT !.step =
                 IF chart.gpu /\ (order.kind = "install" \/ order.gpu # Omitted)
                 THEN "setting" ELSE "leaving"]
  /\ UNCHANGED <<offered, chart, values, failed, orders, turns, wanted>>

\* Mutant of Cleared: what the chosen GPU does not need is left.
ClearedIfOff(keys, gpu) == IF gpu = Nil THEN keys \ (chart.roots \X Resources) ELSE keys

\* Null for every GPU resource of every root the chart has now.
Cleared(keys, gpu) == keys \ (chart.roots \X Resources)

\* Only updates reuse what was set before.
Reused == IF order.kind = "update" /\ values # Nil THEN values
          ELSE [gpu |-> Nil, keys |-> {}]

\* helm_values: all of them are set, to the selection or to none.
HelmValues ==
  LET gpu == IF order.gpu = Omitted THEN Nil ELSE order.gpu
  IN IF order.step = "setting"
     THEN [gpu |-> gpu, keys |-> Cleared(Reused.keys, gpu)]
     ELSE Reused

\* What the request was for: an install without a choice is for none.
Meant ==
  IF order.kind = "update" /\ order.gpu = Omitted THEN wanted
  ELSE [gpu |-> IF order.gpu = Omitted THEN Nil ELSE order.gpu,
        roots |-> chart.roots, known |-> order.steady]

\* Helm succeeds, or is undone; a release that was never there may be gone again.
Helm ==
  /\ Is("setting") \/ Is("leaving")
  /\ \/ values' = HelmValues /\ wanted' = Meant /\ UNCHANGED failed
     \/ failed' = order /\ UNCHANGED <<values, wanted>>
  /\ order' = Nil
  /\ UNCHANGED <<offered, chart, orders, turns>>

\* An app that is deleted takes its values with it.
Delete ==
  /\ order = Nil /\ values # Nil
  /\ values' = Nil /\ wanted' = [gpu |-> Nil, roots |-> {}, known |-> FALSE]
  /\ UNCHANGED <<offered, chart, order, failed, orders, turns>>

Turn == turns < MaxTurns /\ turns' = turns + 1

\* A node fails, is cordoned, or loses a resource; or the reverse.
ChangeNode ==
  /\ Turn
  /\ \E m \in Machines, has \in SUBSET Resources :
       has # offered[m] /\ offered' = [offered EXCEPT ![m] = has]
  /\ UNCHANGED <<chart, values, order, failed, orders, wanted>>

\* A chart sync replaces the chart's directory, and for a moment there is none: no support,
\* no roots. The catalog lock is not asked.
ChangeChart ==
  /\ Turn
  /\ chart' \in Charts \ {chart}
  /\ order' = IF order = Nil \/ Is("queued") THEN order ELSE [order EXCEPT !.steady = FALSE]
  /\ UNCHANGED <<offered, values, failed, orders, wanted>>

\* A release from before Kubarr refused GPU resources among custom values can have them.
Init ==
  /\ offered \in [Machines -> {{}, Resources}]
  /\ chart = [gpu |-> TRUE, roots |-> Roots]
  /\ values \in {Nil} \cup {[gpu |-> Nil, keys |-> k] : k \in SUBSET Keys}
  /\ order = Nil /\ failed = Nil /\ orders = 0 /\ turns = 0
  /\ wanted = [gpu |-> Nil, roots |-> {}, known |-> FALSE]

Next ==
  \/ Enqueue \/ Retry \/ Check \/ ChooseValues \/ Helm \/ Delete
  \/ ChangeNode \/ ChangeChart

Spec == Init /\ [][Next]_gpuVars

-----------------------------------------------------------------------------

TypeOK ==
  /\ offered \in [Machines -> SUBSET Resources] /\ chart \in Charts
  /\ values # Nil => values.gpu \in Selections \cup {Nil} /\ values.keys \subseteq Keys
  /\ order # Nil => order.gpu \in Selections \cup {Nil, Omitted}
  /\ failed # Nil => failed.gpu \in Selections \cup {Nil, Omitted}
  /\ orders \in 0..MaxOrders /\ turns \in 0..MaxTurns
  /\ wanted.gpu \in Selections \cup {Nil} /\ wanted.roots \subseteq Roots

\* An app has the GPU of the last deployment that chose one, or none, however many updates
\* without a choice and failures there were since, and none of one before: unless its chart
\* was replaced on disk while it was deployed.
GpuIsAsChosen ==
  values # Nil /\ wanted.known =>
    /\ values.gpu = wanted.gpu
    /\ values.keys \cap (wanted.roots \X Resources) = {}

Kinds == {"install", "update"}
Orders ==
  [kind : Kinds, gpu : Selections \cup {Nil, Omitted},
   step : {"queued", "checked", "setting", "leaving"}, steady : BOOLEAN]

\* A choice that is executed with the chart it was checked with is set, unless it is none and
\* the chart is of no use for one; without a choice an update sets nothing.
GpuInv ==
  /\ chart \in Charts
  /\ values = Nil \/ values \in [gpu : Selections \cup {Nil}, keys : SUBSET Keys]
  /\ order = Nil \/ order \in Orders
  /\ failed = Nil \/ failed \in Orders
  /\ wanted \in [gpu : Selections \cup {Nil}, roots : SUBSET Roots, known : BOOLEAN]
  /\ values = Nil => ~wanted.known
  /\ order # Nil /\ order.step # "queued" /\ order.steady => Supported(order.gpu)
  /\ Is("setting") => order.kind = "install" \/ order.gpu # Omitted
  /\ Is("setting") /\ order.steady => chart.gpu
  /\ Is("leaving") /\ order.steady =>
       IF order.kind = "install" THEN ~chart.gpu ELSE order.gpu = Omitted
  /\ GpuIsAsChosen
================================================================================
