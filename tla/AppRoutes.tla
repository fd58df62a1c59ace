------------------------------- MODULE AppRoutes -------------------------------
(***************************************************************************)
(* The hosts and paths administrators assign to apps.  No transaction:     *)
(* what a request has read of the other assignments, and those it has made *)
(* secondary, may have changed when it writes its own.                     *)
(***************************************************************************)
EXTENDS Naturals

CONSTANTS
  Callers,     \* requests at a time
  AppNames,
  Hosts,       \* hosts and subdomains
  Unassigned,       \* no assignment, no host
  MaxRow,      \* bound: assignments created
  MaxWrites    \* bound: assignments stored or deleted

VARIABLES
  assignments,   \* the rows, or Unassigned
  there,         \* whether the domain they are of exists
  created,       \* rows created so far
  writes,        \* rows stored or deleted so far
  assigning,     \* of each caller: its request, or Unassigned
  excused        \* hosts and apps of overlapping requests, and hosts that came with a path

routeVars == <<assignments, there, created, writes, assigning, excused>>

Ids == 1..MaxRow
Offers == [app : AppNames, byHost : BOOLEAN, host : Hosts \cup {Unassigned}, primary : BOOLEAN]
Stored == {i \in Ids : assignments[i] # Unassigned}
Assigned(c) == assigning[c] # Unassigned
\* A new assignment has no number yet.
UnassignedAssumption == Unassigned \notin Ids

Leave(c) == assigning' = [assigning EXCEPT ![c] = Unassigned]

\* The rows that have the host, whatever they are for.
SameHost(host) == {i \in Stored : assignments[i].host = host}

\* Mutant of HostIsFree: the row that is updated is left out of the search.
HostIsFreeOrOwn(offer, id) == ~offer.byHost \/ SameHost(offer.host) = {} \/ id # Unassigned

\* One row with the host is looked at, if there is any, and may only be the request's own.
\* The host that comes with a path is not looked at.
HostIsFree(offer, id) ==
  ~offer.byHost \/ SameHost(offer.host) = {} \/ id \in SameHost(offer.host)

\* The apps and hosts another request is about to store, too.
Overlap(c, offer) ==
  LET others == {d \in Callers \ {c} : Assigned(d)}
  IN {x \in {offer.host} : \E d \in others : assigning[d].offer.host = x} \cup
     {x \in {offer.app} : \E d \in others : assigning[d].offer.app = x}

\* A request that has passed its checks; a hostname is required unless it is for a path.
BeginAssign(c) ==
  /\ ~Assigned(c) /\ there /\ writes < MaxWrites
  /\ \E offer \in Offers, id \in Stored \cup {Unassigned} :
       /\ offer.byHost => offer.host # Unassigned
       /\ HostIsFree(offer, id)
       /\ assigning' = [assigning EXCEPT ![c] =
                          [offer |-> offer, id |-> id, step |-> "checked", left |-> {}]]
       /\ excused' = excused \cup Overlap(c, offer)
                       \cup IF offer.byHost THEN {} ELSE {offer.host}
  /\ UNCHANGED <<assignments, there, created, writes>>

PrimariesOf(request) ==
  {i \in Stored : assignments[i].app = request.offer.app /\ assignments[i].primary}

\* A request for a primary assignment reads the primary ones of its app...
FindPrimary(c) ==
  /\ Assigned(c) /\ assigning[c].step = "checked" /\ assigning[c].offer.primary
  /\ assigning' = [assigning EXCEPT ![c] =
                     [@ EXCEPT !.step = "clearing", !.left = PrimariesOf(assigning[c])]]
  /\ UNCHANGED <<assignments, there, created, writes, excused>>

\* ...and makes them secondary one by one. A row that is gone fails the request.
ClearPrimary(c) ==
  /\ Assigned(c)
  /\ \E i \in assigning[c].left :
       IF assignments[i] = Unassigned
       THEN Leave(c) /\ UNCHANGED assignments
       ELSE /\ assignments' = [assignments EXCEPT ![i].primary = FALSE]
            /\ assigning' = [assigning EXCEPT ![c].left = @ \ {i}]
  /\ UNCHANGED <<there, created, writes, excused>>

ReadyToStore(c) ==
  /\ Assigned(c) /\ assigning[c].left = {}
  /\ assigning[c].step = IF assigning[c].offer.primary THEN "clearing" ELSE "checked"

\* The new row, if its domain still exists, or the new values of a row that does.
Store(c) ==
  LET offer == assigning[c].offer
      id == assigning[c].id
  IN
  /\ ReadyToStore(c) /\ writes < MaxWrites
  /\ Leave(c)
  /\ IF id = Unassigned
     THEN IF there /\ created < MaxRow
          THEN /\ created' = created + 1
               /\ assignments' = [assignments EXCEPT ![created'] = offer]
               /\ writes' = writes + 1
          ELSE UNCHANGED <<created, assignments, writes>>
     ELSE /\ IF assignments[id] # Unassigned
             THEN assignments' = [assignments EXCEPT ![id] = offer] /\ writes' = writes + 1
             ELSE UNCHANGED <<assignments, writes>>
          /\ UNCHANGED created
  /\ UNCHANGED <<there, excused>>

\* The database fails the request, or its client leaves.
Fail(c) == Assigned(c) /\ Leave(c) /\ UNCHANGED <<assignments, there, created, writes, excused>>

DeleteAssignment ==
  /\ writes < MaxWrites /\ writes' = writes + 1
  /\ \E i \in Stored : assignments' = [assignments EXCEPT ![i] = Unassigned]
  /\ UNCHANGED <<there, created, assigning, excused>>

\* The assignments of a domain go with it.
DeleteDomain ==
  /\ there /\ there' = FALSE
  /\ assignments' = [i \in Ids |-> Unassigned]
  /\ UNCHANGED <<created, writes, assigning, excused>>

\* One assignment is there from before.
Init ==
  /\ \E offer \in Offers :
       /\ offer.byHost => offer.host # Unassigned
       /\ assignments = [i \in Ids |-> IF i = 1 THEN offer ELSE Unassigned]
       /\ excused = IF offer.byHost THEN {} ELSE {offer.host}
  /\ there = TRUE
  /\ created = 1 /\ writes = 0
  /\ assigning = [c \in Callers |-> Unassigned]

Next ==
  \/ \E c \in Callers : BeginAssign(c) \/ FindPrimary(c) \/ ClearPrimary(c) \/ Store(c) \/ Fail(c)
  \/ DeleteAssignment \/ DeleteDomain

Spec == Init /\ [][Next]_routeVars

-----------------------------------------------------------------------------

TypeOK ==
  /\ assignments \in [Ids -> Offers \cup {Unassigned}]
  /\ there \in BOOLEAN
  /\ created \in 0..MaxRow /\ writes \in 0..MaxWrites
  /\ \A c \in Callers : Assigned(c) =>
       /\ assigning[c].offer \in Offers /\ assigning[c].id \in Ids \cup {Unassigned}
       /\ assigning[c].step \in {"checked", "clearing"} /\ assigning[c].left \subseteq Ids
  /\ excused \subseteq AppNames \cup Hosts \cup {Unassigned}

\* A host is assigned once, and an app has one primary assignment: unless requests for them
\* overlapped, or the host had come with a path, where it is stored unseen.
AssignmentsFit ==
  \A i, j \in Stored : i # j =>
    LET one == assignments[i]
        other == assignments[j]
    IN /\ one.byHost /\ other.byHost /\ one.host = other.host => one.host \in excused
       /\ one.primary /\ other.primary /\ one.app = other.app => one.app \in excused

\* Every step keeps it: no other row has the host of a request, its app has no primary one but
\* those it is about to clear, and no other request is for either, unless excused.
RowsKept ==
  /\ assignments \in [Ids -> Offers \cup {Unassigned}]
  /\ \A i \in Stored : ~assignments[i].byHost => assignments[i].host \in excused
RequestsKept ==
  /\ DOMAIN assigning = Callers
  /\ \A c \in Callers : Assigned(c) =>
       /\ assigning[c] \in [offer : Offers, id : Ids \cup {Unassigned},
                            step : {"checked", "clearing"}, left : SUBSET Ids]
       /\ ~assigning[c].offer.byHost => assigning[c].offer.host \in excused
       /\ \A d \in Callers \ {c} : Assigned(d) =>
            /\ assigning[c].offer.host = assigning[d].offer.host =>
                 assigning[c].offer.host \in excused
            /\ assigning[c].offer.app = assigning[d].offer.app =>
                 assigning[c].offer.app \in excused
HostsKept ==
  \A c \in Callers : Assigned(c) /\ assigning[c].offer.byHost =>
    \A i \in Stored \ {assigning[c].id} :
      assignments[i].byHost /\ assignments[i].host = assigning[c].offer.host =>
        assignments[i].host \in excused
PrimariesKept ==
  \A c \in Callers : Assigned(c) /\ assigning[c].step = "clearing" =>
    PrimariesOf(assigning[c]) \subseteq assigning[c].left \/ assigning[c].offer.app \in excused

RoutesInv == RowsKept /\ RequestsKept /\ HostsKept /\ PrimariesKept /\ AssignmentsFit
================================================================================
