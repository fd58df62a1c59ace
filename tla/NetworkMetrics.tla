----------------------------- MODULE NetworkMetrics ----------------------------
(***************************************************************************)
(* The networking page.  A task of the backend reads cAdvisor's counters   *)
(* from every machine, turns what a namespace moved since the last reading *)
(* into a rate, keeps a window of rates, and broadcasts the averages to    *)
(* the sockets that subscribed.  A page without a socket polls the cache.  *)
(* Bytes stand for all eight counters, which are treated alike; a rate is  *)
(* the bytes it was made of.                                               *)
(***************************************************************************)
EXTENDS Integers, Sequences, FiniteSets, Functions

CONSTANTS
  Machines, Namespaces,
  Pages,          \* open pages
  Absent,         \* no cache entry; no reading under way
  Window,         \* rates of a namespace that are kept
  Capacity,       \* messages the broadcast channel holds for its slowest receiver
  MaxBytes,       \* bound: what is moved in all
  MaxTicks        \* bound: readings published

MachinesAssumption == IsFiniteSet(Machines)

VARIABLES
  counter,        \* cAdvisor: the bytes of the Pods of a namespace on a machine
  moved,          \* what was really moved by each namespace, ever
  pods,           \* the machines each namespace has a Pod on
  reading,        \* the totals read, with what was known when they were, or Absent
  cache,          \* the last reading of a namespace, or Absent
  window,         \* its last rates
  ticks,          \* readings published so far
  messages,       \* the broadcast channel: the tick of each message sent
  page,           \* what each page is fed by: "polling", "websocket"
  feed,           \* the task that forwards to its socket: "none", "live", "ended", "closing"
  position,       \* the message that task receives next
  shown           \* the tick the page shows

metricsVars == <<counter, moved, pods, reading, cache, window, ticks, messages, page, feed,
                 position, shown>>
counters == <<counter, moved, pods>>
cached == <<reading, cache, window, ticks>>
sockets == <<page, feed, position, shown>>

-----------------------------------------------------------------------------
(* Rates *)

\* Pods of a namespace on the machines that answered: their sum, and whether some did not.
Aggregate(answered) ==
  [n \in {k \in Namespaces : pods[k] \cap answered # {}} |->
     [total |-> SumFunctionOnSet([m \in Machines |-> counter[m][n]], pods[n] \cap answered),
      moved |-> moved[n],
      partial |-> ~(pods[n] \subseteq answered)]]

\* Mutant of RateFromDelta: counters that started again are counted from zero.
ResetIsNew(current, previous, close) ==
  IF close THEN 0 ELSE IF current >= previous THEN current - previous ELSE current

\* What two totals and the time between them give; nothing if the counters started again,
\* or the two are too close.
RateFromDelta(current, previous, close) ==
  IF ~close /\ current >= previous THEN current - previous ELSE 0

\* The rate of a namespace: none for one that is new or was not read for long.
Sample(n, close) ==
  LET now == reading.totals[n]
      known == cache[n] # Absent /\ cache[n].fresh
  IN [bytes |-> IF known THEN RateFromDelta(now.total, cache[n].total, close) ELSE 0,
      moved |-> IF known THEN now.moved - cache[n].moved ELSE 0,
      partial |-> known /\ cache[n].partial]

\* A window drops its oldest rate when it is full.
AddSample(samples, s) ==
  LET all == Append(samples, s)
  IN IF Len(all) > Window THEN Tail(all) ELSE all

\* The sum of the window, which the pages are shown divided by its length.
Total(samples) == SumFunction([i \in DOMAIN samples |-> samples[i].bytes])

-----------------------------------------------------------------------------
(* The cluster *)

\* A Pod sends or receives.
Transfer(m, n) ==
  /\ m \in pods[n]
  /\ SumFunction(moved) < MaxBytes
  /\ counter' = [counter EXCEPT ![m][n] = @ + 1]
  /\ moved' = [moved EXCEPT ![n] = @ + 1]
  /\ UNCHANGED <<pods, cached, messages, sockets>>

\* A Pod is started on a machine, deleted from one, or replaced there.
Replace(m, n, there) ==
  /\ counter' = [counter EXCEPT ![m][n] = 0]
  /\ pods' = [pods EXCEPT ![n] = IF there THEN @ \cup {m} ELSE @ \ {m}]
  /\ UNCHANGED <<moved, cached, messages, sockets>>

-----------------------------------------------------------------------------
(* The broadcaster *)

Subscribers == {p \in Pages : feed[p] \in {"live", "closing"}}

\* A tick: whether anybody subscribed is looked up before the machines are asked, one by
\* one.  A machine that does not answer is left out.
Fetch ==
  /\ reading = Absent /\ ticks < MaxTicks
  /\ \E answered \in SUBSET Machines :
       reading' = [totals |-> Aggregate(answered), heard |-> Subscribers # {}]
  /\ UNCHANGED <<counters, cache, window, ticks, messages, sockets>>

\* The rates of the namespaces that were read, and the message.
Publish ==
  /\ reading # Absent
  /\ LET read == DOMAIN reading.totals IN
     \E close \in BOOLEAN :
       /\ window' = [n \in Namespaces |->
                       IF n \in read THEN AddSample(window[n], Sample(n, close)) ELSE window[n]]
       /\ cache' = [n \in Namespaces |->
                      IF n \notin read THEN cache[n]
                      ELSE [total |-> reading.totals[n].total, moved |-> reading.totals[n].moved,
                            partial |-> reading.totals[n].partial, fresh |-> TRUE]]
  /\ ticks' = ticks + 1
  /\ messages' = IF reading.heard THEN Append(messages, ticks + 1) ELSE messages
  /\ reading' = Absent
  /\ UNCHANGED <<counters, sockets>>

\* Five minutes without a reading of the namespace.
AgeOut(n) ==
  /\ cache[n] # Absent /\ cache[n].fresh
  /\ cache' = [cache EXCEPT ![n].fresh = FALSE]
  /\ UNCHANGED <<counters, reading, window, ticks, messages, sockets>>

-----------------------------------------------------------------------------
(* Pages and their sockets *)

\* A socket opens: it gets what is sent from now on, and the page stops to poll.
Connect(p) ==
  /\ page[p] = "polling" /\ feed[p] = "none"
  /\ page' = [page EXCEPT ![p] = "websocket"]
  /\ feed' = [feed EXCEPT ![p] = "live"]
  /\ position' = [position EXCEPT ![p] = Len(messages) + 1]
  /\ UNCHANGED <<counters, cached, messages, shown>>

Behind(p) == Len(messages) - position[p] + 1

\* The next message goes to the socket; one whose page is gone ends the task.
Forward(p) ==
  /\ feed[p] \in {"live", "closing"}
  /\ Behind(p) \in 1..Capacity
  /\ IF feed[p] = "live"
     THEN /\ shown' = [shown EXCEPT ![p] = messages[position[p]]]
          /\ position' = [position EXCEPT ![p] = @ + 1]
          /\ UNCHANGED feed
     ELSE feed' = [feed EXCEPT ![p] = "none"] /\ UNCHANGED <<shown, position>>
  /\ UNCHANGED <<counters, cached, messages, page>>

\* Messages were overwritten before they were received: the receiver is told, which ends
\* the loop as well.  The task that reads the socket goes on, and keeps it open.
Lagged(p) ==
  /\ feed[p] \in {"live", "closing"}
  /\ Behind(p) > Capacity
  /\ feed' = [feed EXCEPT ![p] = IF @ = "live" THEN "ended" ELSE "none"]
  /\ UNCHANGED <<counters, cached, messages, page, position, shown>>

\* The socket breaks: the page polls until it has another.  The forwarding task notices at
\* its next message.
Disconnect(p) ==
  /\ page[p] = "websocket"
  /\ page' = [page EXCEPT ![p] = "polling"]
  /\ feed' = [feed EXCEPT ![p] = IF @ = "live" THEN "closing" ELSE "none"]
  /\ UNCHANGED <<counters, cached, messages, position, shown>>

\* The cache is asked for its last rates.
Poll(p) ==
  /\ page[p] = "polling"
  /\ shown' = [shown EXCEPT ![p] = ticks]
  /\ UNCHANGED <<counters, cached, messages, page, feed, position>>

-----------------------------------------------------------------------------
Init ==
  /\ counter = [m \in Machines |-> [n \in Namespaces |-> 0]]
  /\ moved = [n \in Namespaces |-> 0]
  /\ pods = [n \in Namespaces |-> Machines]
  /\ reading = Absent
  /\ cache = [n \in Namespaces |-> Absent]
  /\ window = [n \in Namespaces |-> << >>]
  /\ ticks = 0
  /\ messages = << >>
  /\ page = [p \in Pages |-> "polling"]
  /\ feed = [p \in Pages |-> "none"]
  /\ position = [p \in Pages |-> 1]
  /\ shown = [p \in Pages |-> 0]

Next ==
  \/ \E m \in Machines, n \in Namespaces :
       Transfer(m, n) \/ \E there \in BOOLEAN : Replace(m, n, there)
  \/ Fetch
  \/ Publish
  \/ \E n \in Namespaces : AgeOut(n)
  \/ \E p \in Pages : Connect(p) \/ Forward(p) \/ Lagged(p) \/ Disconnect(p) \/ Poll(p)

Spec == Init /\ [][Next]_metricsVars

\* Tasks of the runtime are scheduled, the ticker and the forwarding ones.
FairSpec ==
  /\ Spec
  /\ WF_metricsVars(Fetch) /\ WF_metricsVars(Publish)
  /\ \A p \in Pages : WF_metricsVars(Forward(p) \/ Lagged(p))

-----------------------------------------------------------------------------
(* Correctness *)

TypeOK ==
  /\ counter \in [Machines -> [Namespaces -> 0..MaxBytes]]
  /\ moved \in [Namespaces -> 0..MaxBytes]
  /\ pods \in [Namespaces -> SUBSET Machines]
  /\ reading = Absent \/ (DOMAIN reading.totals \subseteq Namespaces /\ reading.heard \in BOOLEAN)
  /\ \A n \in Namespaces : cache[n] = Absent \/ cache[n].fresh \in BOOLEAN
  /\ \A n \in Namespaces : Len(window[n]) \in 0..Window /\ Total(window[n]) \in Nat
  /\ ticks \in 0..MaxTicks
  /\ messages \in Seq(1..MaxTicks)
  /\ page \in [Pages -> {"polling", "websocket"}]
  /\ feed \in [Pages -> {"none", "live", "ended", "closing"}]
  /\ position \in [Pages -> 1..MaxTicks + 1]
  /\ shown \in [Pages -> 0..MaxTicks]

\* No traffic is made up: a rate is at most what was moved between its two readings, over
\* Pods that come, go and start their counters again, and readings that come late.  Only
\* where a machine with Pods of the namespace had not answered the first of the two can the
\* second show, as if it had just been moved, all that machine ever counted.
RatesAreReal ==
  \A n \in Namespaces : \A i \in DOMAIN window[n] :
    LET s == window[n][i] IN s.bytes <= s.moved \/ s.partial

\* What the Pods of a namespace count now.
PodBytes(n) == SumFunctionOnSet([m \in Machines |-> counter[m][n]], pods[n])

\* A total of a namespace with what was moved when it was read: never of the future, and
\* unless some machine was left out, the counters have grown by no more than was moved since.
Bounds(n, read) ==
  /\ read.total \in Nat /\ read.moved \in 0 .. moved[n] /\ read.partial \in BOOLEAN
  /\ read.partial \/ PodBytes(n) - read.total <= moved[n] - read.moved

\* Of a rate, and of the totals the next ones are made of.
MetricsInv ==
  /\ counter \in [Machines -> [Namespaces -> Nat]] /\ moved \in [Namespaces -> Nat]
  /\ pods \in [Namespaces -> SUBSET Machines]
  /\ DOMAIN window = Namespaces /\ DOMAIN cache = Namespaces
  /\ \A n \in Namespaces :
       /\ window[n] \in Seq([bytes : Nat, moved : Nat, partial : BOOLEAN])
       /\ cache[n] # Absent => Bounds(n, cache[n])
  /\ reading # Absent =>
       /\ DOMAIN reading.totals \subseteq Namespaces
       /\ \A n \in DOMAIN reading.totals :
            LET now == reading.totals[n] IN
            /\ Bounds(n, now)
            /\ cache[n] # Absent =>
                 /\ cache[n].moved <= now.moved
                 /\ cache[n].partial \/ now.total - cache[n].total <= now.moved - cache[n].moved
  /\ RatesAreReal

\* A page with a socket is shown what is broadcast, or it loses the socket and polls.
ConnectedIsFed ==
  \A p \in Pages : \A t \in 1..MaxTicks :
    page[p] = "websocket" /\ position[p] <= Len(messages) /\ messages[position[p]] = t
      ~> shown[p] >= t \/ page[p] = "polling"
=============================================================================
