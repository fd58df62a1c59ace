------------------------------ MODULE FlowExporter -----------------------------
(***************************************************************************)
(* The flow exporter beside Cilium: a sidecar dumps the conntrack table to *)
(* a file on its timer, the exporter folds the file into byte counters on  *)
(* its own, and VictoriaMetrics scrapes the counters on a third.  The      *)
(* table is no counter: an entry leaves with its connection, a slot is     *)
(* reused by the next one, and both the dump and the exporter can start    *)
(* late.  An address stands for a range it belongs to.                     *)
(***************************************************************************)
EXTENDS Naturals, FiniteSetsExt, Functions

CONSTANTS
  Pods,           \* Pod addresses
  Node,           \* the node's own address
  Neighbours,     \* other addresses of the LAN
  Peers,          \* addresses of the internet
  Connections,    \* the tuples that can have an entry: <<source, destination>>
  NoFile,         \* no dump, no baseline
  Torn,           \* whether a dump can be read in part
  MaxSent,        \* bound: what is sent in all
  MaxRestarts     \* bound: restarts of the exporter

Addresses == Pods \cup {Node} \cup Neighbours \cup Peers

ConnectionsAssumption == Connections \subseteq Addresses \X Addresses /\ IsFiniteSet(Connections)
NamesAssumption == {"host", "lan", "internet"} \cap Addresses = {}
BoundsAssumption == MaxSent \in Nat \ {0} /\ MaxRestarts \in Nat /\ Torn \in BOOLEAN

VARIABLES
  table,      \* the conntrack entries: the bytes of each
  sent,      \* what was really sent on each tuple, ever
  file,       \* the sidecar's last dump: the bytes of both rows of an entry, or NoFile
  previous,   \* the rows the exporter folded last, or NoFile
  totals,     \* its counters: by class, by link, and of the node itself
  scraped,    \* the counters VictoriaMetrics read last
  seen,      \* what has been seen for each class so far
  restarts

vars == <<table, sent, file, previous, totals, scraped, seen, restarts>>

Classes == {"internet", "lan", "cluster"}

-----------------------------------------------------------------------------
(* Classification.  The LAN's range holds the Pods and the node as well, so *)
(* that an address is compared with the cluster's first.                    *)

IsPod(a) == a \in Pods
IsLocal(a) == IsPod(a) \/ a = Node
OnLan(a) == a \in Pods \cup {Node} \cup Neighbours

\* The class that counts a connection, "none" for the node's own.
Classify(c) ==
  LET remote == IF IsLocal(c[1]) THEN c[2] ELSE c[1]
      near == IF IsLocal(c[1]) THEN c[1] ELSE c[2]
  IN CASE IsLocal(remote) -> "cluster"
       [] ~IsLocal(remote) /\ ~IsPod(near) -> "none"
       [] ~IsLocal(remote) /\ IsPod(near) /\ OnLan(remote) -> "lan"
       [] ~IsLocal(remote) /\ IsPod(near) /\ ~OnLan(remote) -> "internet"

\* An end of a link, as the metric names it.
EndpointName(a) ==
  CASE IsPod(a) -> a
    [] ~IsPod(a) /\ IsLocal(a) -> "host"
    [] ~IsLocal(a) /\ OnLan(a) -> "lan"
    [] ~IsLocal(a) /\ ~OnLan(a) -> "internet"

\* The link a connection belongs to, if a Pod is on it.
Edge(c) ==
  IF IsPod(c[1]) \/ IsPod(c[2])
  THEN {<<EndpointName(c[1]), EndpointName(c[2])>>} ELSE {}

\* The links there can be.
Edges == UNION {Edge(c) : c \in Connections}

-----------------------------------------------------------------------------
\* What counters start at: every class is there, at zero.
NoTotals == [bytes |-> [k \in Classes |-> 0], edges |-> [e \in Edges |-> 0], host |-> 0]

\* Mutant of ReadDump: the rows of a connection are added up.
AddRows == [c \in DOMAIN file |-> file[c][1] + file[c][2]]

\* The forward and the reverse row of a connection are one, with the larger count.
ReadDump == [c \in DOMAIN file |-> Max({file[c][1], file[c][2]})]

\* What an entry sent since the last dump; one that shrank is another connection.
Delta(before, now, c) ==
  LET b == IF c \in DOMAIN before THEN before[c] ELSE 0
  IN IF now[c] >= b THEN now[c] - b ELSE now[c]

\* The counters with what every entry sent since the last dump added.
Fold(before, now) ==
  LET of(S) == SumFunctionOnSet([c \in DOMAIN now |-> Delta(before, now, c)], S)
  IN [bytes |-> [k \in Classes |->
                   totals.bytes[k] + of({c \in DOMAIN now : Classify(c) = k})],
      edges |-> [e \in Edges |-> totals.edges[e] + of({c \in DOMAIN now : e \in Edge(c)})],
      host |-> totals.host + of({c \in DOMAIN now : Classify(c) = "none"})]

-----------------------------------------------------------------------------
TypeOK ==
  /\ \E S \in SUBSET Connections : table \in [S -> 1..MaxSent]
  /\ sent \in [Connections -> 0..MaxSent]
  /\ file = NoFile \/ DOMAIN file \subseteq Connections
  /\ previous = NoFile \/ DOMAIN previous \subseteq Connections
  /\ totals \in [bytes : [Classes -> Nat], edges : [Edges -> Nat], host : Nat]
  /\ scraped \in [Classes -> Nat]
  /\ seen \in [Classes -> Nat]
  /\ restarts \in 0..MaxRestarts

\* Connections may be open before the exporter starts.
Init ==
  /\ \E S \in SUBSET Connections :
       /\ table = [c \in S |-> 1]
       /\ sent = [c \in Connections |-> IF c \in S THEN 1 ELSE 0]
  /\ file = NoFile
  /\ previous = NoFile
  /\ totals = NoTotals
  /\ scraped = NoTotals.bytes
  /\ seen = NoTotals.bytes
  /\ restarts = 0

-----------------------------------------------------------------------------
\* A packet on a tuple: the first of a connection opens its entry.
Transfer(c) ==
  /\ SumFunction(sent) < MaxSent
  /\ sent' = [sent EXCEPT ![c] = @ + 1]
  /\ table' = [d \in DOMAIN table \cup {c} |->
                 IF d # c THEN table[d] ELSE IF c \in DOMAIN table THEN table[c] + 1 ELSE 1]
  /\ UNCHANGED <<file, previous, totals, scraped, seen, restarts>>

\* A connection ends and its entry is gone: the tuple may be used again.
Expire(c) ==
  /\ c \in DOMAIN table
  /\ table' = Restrict(table, DOMAIN table \ {c})
  /\ UNCHANGED <<sent, file, previous, totals, scraped, seen, restarts>>

\* The sidecar dumps the table; the row of one direction can be read before the other
\* is brought up to date.  A dump made while Cilium restarts, or read before it is
\* written whole, has some of the entries only.
Dump ==
  /\ \E S \in IF Torn THEN SUBSET DOMAIN table ELSE {DOMAIN table} :
     \E late \in SUBSET S :
       file' = [c \in S |-> <<table[c], IF c \in late THEN table[c] - 1 ELSE table[c]>>]
  /\ UNCHANGED <<table, sent, previous, totals, scraped, seen, restarts>>

\* The exporter's timer: the first dump it can read is its baseline, the later ones are
\* folded in.
Sample ==
  /\ file # NoFile
  /\ totals' = IF previous = NoFile THEN totals ELSE Fold(previous, ReadDump)
  /\ previous' = ReadDump
  /\ UNCHANGED <<table, sent, file, scraped, seen, restarts>>

\* VictoriaMetrics scrapes: a counter that went down was started again.
Scrape ==
  /\ scraped' = totals.bytes
  /\ seen' = [k \in Classes |->
                 seen[k] + IF totals.bytes[k] >= scraped[k]
                            THEN totals.bytes[k] - scraped[k] ELSE totals.bytes[k]]
  /\ UNCHANGED <<table, sent, file, previous, totals, restarts>>

\* The exporter restarts: its counters and its baseline are gone, the sidecar's file stays.
Restart ==
  /\ restarts < MaxRestarts
  /\ restarts' = restarts + 1
  /\ totals' = NoTotals
  /\ previous' = NoFile
  /\ UNCHANGED <<table, sent, file, scraped, seen>>

Next ==
  \/ \E c \in Connections : Transfer(c) \/ Expire(c)
  \/ Dump
  \/ Sample
  \/ Scrape
  \/ Restart

Spec == Init /\ [][Next]_vars

-----------------------------------------------------------------------------
(* Correctness *)

\* No byte is seen twice: what is seen for a class, over every connection that came and
\* went, every reused slot and every restart, is never more than what was sent.
NothingShownTwice ==
  \A k \in Classes :
    seen[k] <= SumFunctionOnSet(sent, {c \in Connections : Classify(c) = k})

\* The page's two views of the same bytes agree: what is counted to and from the internet,
\* and the LAN, is what its links carry.
ClassesMatchLinks ==
  \A k \in {"internet", "lan"} :
    totals.bytes[k] = SumFunctionOnSet(totals.edges, {e \in Edges : k \in {e[1], e[2]}})

\* What an administrator is shown of the node's traffic is real, and the same in both views.
CountersAreFaithful == NothingShownTwice /\ ClassesMatchLinks

\* The bytes of a connection in a dump or in the table.
Has(entries, c) == IF c \in DOMAIN entries THEN entries[c] ELSE 0

\* What is taken for new in a number that follows another.
Added(before, now) == IF now >= before THEN now - before ELSE now

\* What was sent covers what was ever counted of a connection, with what the next fold will
\* add, of the dump there is or of one made now, and what the fold after that will.
Covers(counted, c) ==
  LET fold(now) == IF previous = NoFile THEN 0 ELSE Added(Has(previous, c), now)
  IN /\ counted + fold(Has(table, c)) <= sent[c]
     /\ file # NoFile =>
          counted + fold(Has(ReadDump, c)) + Added(Has(ReadDump, c), Has(table, c)) <= sent[c]

\* Dumps and folds are of connections, and numbers are numbers.
EntriesInv ==
  /\ DOMAIN table \subseteq Connections /\ \A c \in DOMAIN table : table[c] \in Nat \ {0}
  /\ sent \in [Connections -> 0..MaxSent]
  /\ file # NoFile =>
       DOMAIN file \subseteq Connections /\ \A c \in DOMAIN file : file[c] \in Nat \X Nat
  /\ previous # NoFile =>
       DOMAIN previous \subseteq Connections /\ \A c \in DOMAIN previous : previous[c] \in Nat
  /\ totals \in [bytes : [Classes -> Nat], edges : [Edges -> Nat], host : Nat]
  /\ scraped \in [Classes -> Nat] /\ seen \in [Classes -> Nat]

\* Of each connection so much was counted, over all restarts, that what is seen of a class
\* and what the next scrape will add is no more than of its connections.
AccountsInv ==
  \E counted \in [Connections -> 0..MaxSent] :
    /\ \A c \in Connections : Covers(counted[c], c)
    /\ \A k \in Classes : seen[k] + Added(scraped[k], totals.bytes[k])
         <= SumFunctionOnSet(counted, {c \in Connections : Classify(c) = k})

FlowInv == EntriesInv /\ AccountsInv /\ ClassesMatchLinks
=============================================================================
