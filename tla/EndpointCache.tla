----------------------------- MODULE EndpointCache -----------------------------
(***************************************************************************)
(* Where the gateway is sent for an app.  Every backend remembers the      *)
(* service it has found for a lifetime and forgets it when an operation on *)
(* the app is asked of it: before the operation runs, and not when another *)
(* backend is asked.  Time passes in ticks.                                *)
(***************************************************************************)
EXTENDS Naturals

CONSTANTS
  Callers,    \* requests at a time
  Replicas,   \* the backends
  Upstreams,  \* what the service of the app can be: its port and its paths
  NoService,  \* no service, no entry
  Lifetime    \* how many ticks an entry is served in, its first one included

LifetimeAssumption == Lifetime \in Nat \ {0}

VARIABLES
  service,   \* the app's service in the cluster, or NoService
  cached,    \* of each backend: what it remembers and for how long yet, or NoService
  routing,   \* of each caller: its request
  recent     \* ghost: the services of this tick and of the ones before

endpointVars == <<service, cached, routing, recent>>

Idle == [step |-> "none"]
Ages == 0 .. Lifetime - 1    \* of a tick: 0 is the present

Enter(c, request) == routing' = [routing EXCEPT ![c] = request]
Upstream(b, u) == [step |-> "answered", at |-> b, upstream |-> u]

\* Mutant of Served: an entry is served until it is forgotten.
ServedAlways(b) == cached[b] # NoService

Served(b) == IF cached[b] = NoService THEN FALSE ELSE cached[b].left > 0

\* get: an entry whose time is not over is the answer.
Get(c, b) ==
  /\ routing[c] = Idle /\ Served(b)
  /\ Enter(c, Upstream(b, cached[b].upstream))
  /\ UNCHANGED <<service, cached, recent>>

\* Without one the service is read from the cluster. Without a service, or an answer from
\* Kubernetes, the request fails and nothing is remembered.
GetServiceEndpoints(c, b) ==
  /\ routing[c] = Idle /\ ~Served(b) /\ service # NoService
  /\ Enter(c, [step |-> "found", at |-> b, upstream |-> service])
  /\ UNCHANGED <<service, cached, recent>>

\* set: what was read is remembered, whatever has happened since, and is the answer.
SetEntry(c) ==
  LET b == routing[c].at
      u == routing[c].upstream
  IN
  /\ routing[c].step = "found"
  /\ cached' = [cached EXCEPT ![b] = [upstream |-> u, left |-> Lifetime]]
  /\ Enter(c, Upstream(b, u))
  /\ UNCHANGED <<service, recent>>

Done(c) ==
  /\ routing[c].step = "answered"
  /\ Enter(c, Idle)
  /\ UNCHANGED <<service, cached, recent>>

\* An operation on the app is queued, or controlled, at a backend.
Invalidate(b) ==
  /\ cached[b] # NoService
  /\ cached' = [cached EXCEPT ![b] = NoService]
  /\ UNCHANGED <<service, routing, recent>>

\* The app is installed, updated or removed.
ChangeService(u) ==
  /\ u # service
  /\ service' = u
  /\ recent' = [recent EXCEPT ![0] = @ \cup {u}]
  /\ UNCHANGED <<cached, routing>>

\* Time passes. A request takes less than a tick from its look at the cluster or at the
\* cache to its answer.
Tick ==
  /\ \A c \in Callers : routing[c] = Idle
  /\ cached' = [b \in Replicas |->
                  IF cached[b] = NoService THEN NoService
                  ELSE [cached[b] EXCEPT !.left = IF @ > 0 THEN @ - 1 ELSE 0]]
  /\ recent' = [t \in Ages |-> IF t = 0 THEN {service} ELSE recent[t - 1]]
  /\ UNCHANGED <<service, routing>>

\* The backend is started anew.
Restart(b) ==
  /\ cached' = [cached EXCEPT ![b] = NoService]
  /\ routing' = [c \in Callers |-> IF routing[c] = Idle THEN Idle
                                   ELSE IF routing[c].at = b THEN Idle ELSE routing[c]]
  /\ UNCHANGED <<service, recent>>

Init ==
  /\ service = NoService
  /\ cached = [b \in Replicas |-> NoService]
  /\ routing = [c \in Callers |-> Idle]
  /\ recent = [t \in Ages |-> {NoService}]

Next ==
  \/ \E c \in Callers :
       SetEntry(c) \/ Done(c) \/ \E b \in Replicas : Get(c, b) \/ GetServiceEndpoints(c, b)
  \/ \E b \in Replicas : Invalidate(b) \/ Restart(b)
  \/ \E u \in Upstreams \cup {NoService} : ChangeService(u)
  \/ Tick

Spec == Init /\ [][Next]_endpointVars

-----------------------------------------------------------------------------

TypeOK ==
  /\ service \in Upstreams \cup {NoService}
  /\ cached \in [Replicas -> [upstream : Upstreams, left : 0..Lifetime] \cup {NoService}]
  /\ \A c \in Callers : routing[c] # Idle =>
       /\ routing[c].step \in {"found", "answered"}
       /\ routing[c].at \in Replicas /\ routing[c].upstream \in Upstreams
  /\ recent \in [Ages -> SUBSET (Upstreams \cup {NoService})]

\* A request is sent to a service the app has or had less than a lifetime ago: however
\* lookups, changes and invalidations overlap, a stale service is not handed on.
EndpointsAreRecent ==
  \A c \in Callers : routing[c].step = "answered" =>
    \E t \in Ages : routing[c].upstream \in recent[t]

\* Why: no entry outlives the ticks it was read in.
EntriesAreRecent ==
  \A b \in Replicas : cached[b] # NoService =>
    (cached[b].left > 0 => \E t \in 0 .. Lifetime - cached[b].left :
                             cached[b].upstream \in recent[t])

\* A service that was found is of this tick, as a request takes less than one.
EndpointInv ==
  /\ service \in Upstreams \cup {NoService} /\ DOMAIN recent = Ages /\ service \in recent[0]
  /\ cached \in [Replicas -> [upstream : Upstreams, left : 0..Lifetime] \cup {NoService}]
  /\ DOMAIN routing = Callers
  /\ \A c \in Callers : routing[c].step = "found" => /\ routing[c].at \in Replicas
                                                    /\ routing[c].upstream \in Upstreams
                                                    /\ routing[c].upstream \in recent[0]
  /\ EntriesAreRecent /\ EndpointsAreRecent
================================================================================
