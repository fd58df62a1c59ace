----------------------------- MODULE GatewayRoutes -----------------------------
(***************************************************************************)
(* Which app a host and a path lead to.  A request reads the enabled       *)
(* assignments and then, one by one, the domain of each, while             *)
(* administrators change both.  A host is the sequence of its labels, a    *)
(* path that of its segments: the last one is empty in `/' and `/radarr/'. *)
(***************************************************************************)
EXTENDS Naturals, SequencesExt

CONSTANTS
  Assignments,   \* what can be assigned: app, mode, domain, host, prefix
  Zone,          \* the labels of each domain
  Wanted         \* the hosts and paths that are asked for

IsPath(p) == p \in Seq({p[i] : i \in DOMAIN p})
PathsAssumption ==
  /\ \A a \in Assignments : IsPath(a.prefix)
  /\ \A want \in Wanted : IsPath(want.path)

VARIABLES
  enabled,   \* the assignments that are there and enabled
  domains,   \* the domains that are there and enabled
  asking,    \* the request under way
  steady     \* the assignments whose domain and they were enabled since it began

gatewayVars == <<enabled, domains, asking, steady>>

DomainsOf(assigned) == {a.domain : a \in assigned}
Idle == [step |-> "none"]

\* A hostname with a dot is a whole host, as it is with exact_host.
AssignmentHost(a) ==
  IF a.mode = "exact_host" \/ Len(a.host) > 1 THEN a.host ELSE a.host \o Zone[a.domain]

\* The domain itself and the hosts below it.
HostMatchesDomain(host, d) == IsSuffix(Zone[d], host)

\* /radarr and what is below it, but not /radarr4k.
PathMatchesPrefix(path, prefix) == IsPrefix(prefix, path)

\* What is left of the path: / if nothing is.
StripPathPrefix(path, prefix) ==
  IF path = prefix THEN << "" >> ELSE SubSeq(path, Len(prefix) + 1, Len(path))

Matches(a, want) ==
  IF a.mode = "path"
  THEN HostMatchesDomain(want.host, a.domain) /\ PathMatchesPrefix(want.path, a.prefix)
  ELSE AssignmentHost(a) = want.host

TargetPath(a, want) ==
  IF a.mode = "path" THEN StripPathPrefix(want.path, a.prefix) ELSE want.path

-----------------------------------------------------------------------------

Begin ==
  /\ asking = Idle
  /\ \E want \in Wanted : asking' = [step |-> "matching", want |-> want, left |-> enabled]
  /\ steady' = {a \in enabled : a.domain \in domains}
  /\ UNCHANGED <<enabled, domains>>

Answer(a) ==
  asking' = [step |-> "routed", want |-> asking.want, by |-> a,
             target |-> TargetPath(a, asking.want)]

\* Mutant of Consider: a domain that is not enabled ends the search.
ConsiderEnabled(a) ==
  IF a.domain \in domains /\ Matches(a, asking.want)
  THEN Answer(a)
  ELSE asking' = [asking EXCEPT !.left = IF a.domain \in domains THEN @ \ {a} ELSE {}]

\* The domain of an assignment is read now; the assignment is what it was.
Consider(a) ==
  IF a.domain \in domains /\ Matches(a, asking.want)
  THEN Answer(a)
  ELSE asking' = [asking EXCEPT !.left = @ \ {a}]

\* No order is asked for: the assignments come as the database has them.
Match ==
  /\ asking.step = "matching"
  /\ \E a \in asking.left : Consider(a)
  /\ UNCHANGED <<enabled, domains, steady>>

NotFound ==
  /\ asking.step = "matching" /\ asking.left = {}
  /\ asking' = [step |-> "not found", want |-> asking.want]
  /\ UNCHANGED <<enabled, domains, steady>>

Done ==
  /\ asking.step \in {"routed", "not found"}
  /\ asking' = Idle /\ steady' = {}
  /\ UNCHANGED <<enabled, domains>>

\* An administrator assigns or takes away; see AppRoutes.
ChangeAssignment ==
  /\ \E a \in Assignments :
       enabled' = IF a \in enabled THEN enabled \ {a} ELSE enabled \cup {a}
  /\ steady' = steady \cap enabled'
  /\ UNCHANGED <<domains, asking>>

\* A domain is enabled or disabled; see Domains.
ChangeDomain ==
  /\ \E d \in DomainsOf(Assignments) :
       domains' = IF d \in domains THEN domains \ {d} ELSE domains \cup {d}
  /\ steady' = {a \in steady : a.domain \in domains'}
  /\ UNCHANGED <<enabled, asking>>

Init ==
  /\ enabled = {} /\ domains = DomainsOf(Assignments)
  /\ asking = Idle /\ steady = {}

Next == Begin \/ Match \/ NotFound \/ Done \/ ChangeAssignment \/ ChangeDomain

Spec == Init /\ [][Next]_gatewayVars

-----------------------------------------------------------------------------

TypeOK ==
  /\ enabled \subseteq Assignments /\ steady \subseteq enabled
  /\ domains \subseteq DomainsOf(Assignments)
  /\ asking.step \in {"none", "matching", "routed", "not found"}
  /\ asking.step # "none" => asking.want \in Wanted
  /\ asking.step = "matching" => asking.left \subseteq Assignments

\* What a request asks for reaches the app it is led to: the part of the path it went by is
\* the prefix of the assignment, whole segments, and its app is asked for the rest.
PathIsKept ==
  asking.step = "routed" =>
    LET a == asking.by
        rest == IF asking.target = << "" >> THEN {<< >>, << "" >>} ELSE {asking.target}
    IN asking.want.path \in {IF a.mode = "path" THEN a.prefix \o r ELSE r : r \in rest}

\* A request that an assignment fits, both it and its domain enabled all along, is not told
\* that there is none, whatever else comes and goes meanwhile.
SteadyRouteIsFound ==
  asking.step = "not found" => ~\E a \in steady : Matches(a, asking.want)

\* A route that is there is found, and keeps the path.
RoutesAreFound == PathIsKept /\ SteadyRouteIsFound

\* What fits all along has not been looked at, or the request was led by it.
GatewayInv ==
  /\ enabled \subseteq Assignments
  /\ \A a \in steady : a.domain \in domains
  /\ asking = Idle \/ asking.want \in Wanted
  /\ asking.step = "matching" =>
       /\ asking.left \subseteq Assignments
       /\ \A a \in steady : Matches(a, asking.want) => a \in asking.left
  /\ RoutesAreFound
================================================================================
