------------------------------- MODULE FlowClasses -------------------------------
(***************************************************************************)
(* The traffic panel: flows, drops and bytes by class of destination, now  *)
(* and over a window, put together from queries of several metrics.  Any   *)
(* query can time out and counts as one without rows, and what is measured *)
(* goes on changing between them.                                          *)
(***************************************************************************)
EXTENDS Naturals, FiniteSets, Functions

CONSTANTS
  Times,          \* of the points of a series; 0 is now
  Measurements,   \* what the metrics can hold
  Unknown         \* no number, no class

\* Answers are finite, rates are numbers or malformed, and one of the points is now.
MeasurementsAssumption ==
  /\ 0 \in Times /\ Unknown \notin Nat
  /\ \A m \in Measurements :
       /\ m.storage \in Nat
       /\ \A rows \in {m.external, m.internal, m.bytes} :
            IsFiniteSet(rows) /\ \A row \in rows : row.rate \in Nat \cup {Unknown}

VARIABLES
  measured,   \* rows of flows outside (external) and inside (internal), bytes, and storage
  step,       \* of the request
  totals,     \* of each class: flows, drops and bytes per second
  series,     \* of each class: its points
  heard,      \* queries that had rows
  upset       \* ghost: something changed or failed since the request began

panelVars == <<measured, step, totals, series, heard, upset>>

Networks == {"internet", "lan", "cluster"}
Classes == Networks \cup {"storage"}
Quiet == [flows |-> 0, drops |-> 0, bytes |-> 0]

\* Mutant of Classify: the address is looked at before the identity.
ClassifyAddress(labels) ==
  IF "cidr:" \in labels THEN "lan"
  ELSE IF labels \cap {"reserved:host", "reserved:remote-node", "namespace"} # {} THEN "cluster"
  ELSE IF "reserved:world" \in labels THEN "internet"
  ELSE Unknown

\* classify_destination, of the labels of a destination, the first that fits; a bare name is
\* a namespace.
Classify(labels) ==
  IF labels \cap {"reserved:host", "reserved:remote-node"} # {} \/ labels = {"namespace"}
    THEN "cluster"
  ELSE IF "cidr:" \in labels THEN "lan"
  ELSE IF "reserved:world" \in labels THEN "internet"
  ELSE Unknown

\* A malformed sample is left out, and a destination of no class.
Valid(rows) == {row \in rows : row.rate # Unknown}
Of(rows, class) == {row \in Valid(rows) : Classify(row.to) = class}
SumOf(rows) == SumFunction([row \in rows |-> row.rate])
Dropped(rows) == {row \in rows : row.dropped}
Forwarded(rows) == {row \in rows : ~row.dropped}
IsNow(rows) == {row \in rows : 0 \in row.at}

\* Forwarded and dropped are queries of their own.
Answered(rows) == {rows, Forwarded(rows), Dropped(rows), {}}

\* The totals are of this instant: absorb_totals adds up what every query had of a class.
QueryTotals ==
  /\ step = "totals" /\ step' = "bytes"
  /\ \E external \in Answered(measured.external), internal \in Answered(measured.internal) :
       /\ upset' = (upset \/ external # measured.external \/ internal # measured.internal)
       /\ LET rows == IsNow(external) \cup IsNow(internal)
          IN totals' = [c \in Classes |->
               [Quiet EXCEPT !.flows = SumOf(Of(Forwarded(rows), c)),
                             !.drops = SumOf(Of(Dropped(rows), c))]]
       /\ heard' = (IF Forwarded(IsNow(external)) # {} THEN {"external"} ELSE {})
                   \cup (IF Forwarded(IsNow(internal)) # {} THEN {"internal"} ELSE {})
  /\ UNCHANGED <<measured, series>>

\* The exporter's rows name their class; one that is not known is skipped. Storage is one sum.
QueryBytes ==
  /\ step = "bytes" /\ step' = "series"
  /\ \E bytes \in {measured.bytes, {}}, storage \in {measured.storage, 0} :
       /\ upset' = (upset \/ bytes # measured.bytes \/ storage # measured.storage)
       /\ totals' = [c \in Classes |-> [totals[c] EXCEPT !.bytes =
            IF c = "storage" THEN storage
            ELSE SumOf({row \in Valid(IsNow(bytes)) : row.class = c})]]
       /\ heard' = heard \cup (IF IsNow(bytes) # {} THEN {"bytes"} ELSE {})
  /\ UNCHANGED <<measured, series>>

\* Points of a class at times some row of it has; a query's points take the place of others.
Points(rows, c) ==
  [t \in UNION {row.at : row \in Of(rows, c)} |->
     [flows |-> SumOf({row \in Of(rows, c) : t \in row.at}), bytes |-> 0]]

AbsorbSeries(into, rows) ==
  [c \in Classes |->
     IF \E row \in rows : Classify(row.to) = c THEN Points(rows, c) ELSE into[c]]

QuerySeries ==
  /\ step = "series" /\ step' = "byte_series"
  /\ \E external \in {Forwarded(measured.external), {}},
        internal \in {Forwarded(measured.internal), {}} :
       /\ upset' = (upset \/ external # Forwarded(measured.external)
                          \/ internal # Forwarded(measured.internal))
       /\ series' = AbsorbSeries(AbsorbSeries(series, external), internal)
  /\ UNCHANGED <<measured, totals, heard>>

\* A byte sample is added to the point of its time, or is a point of its own without flows.
MergeBytePoints(points, rows) ==
  [t \in DOMAIN points \cup UNION {row.at : row \in Valid(rows)} |->
     LET point == IF t \in DOMAIN points THEN points[t] ELSE [flows |-> 0, bytes |-> 0]
     IN [point EXCEPT !.bytes = @ + SumOf({row \in Valid(rows) : t \in row.at})]]

QueryByteSeries ==
  /\ step = "byte_series" /\ step' = "done"
  /\ \E bytes \in {measured.bytes, {}}, storage \in {measured.storage, 0} :
       /\ upset' = (upset \/ bytes # measured.bytes \/ storage # measured.storage)
       /\ series' = [c \in Classes |-> MergeBytePoints(series[c],
            IF c = "storage" THEN {[rate |-> storage, at |-> Times]}
            ELSE {row \in bytes : row.class = c})]
  /\ UNCHANGED <<measured, totals, heard>>

\* Quiet to show: none of the four sources had anything.
Stale == heard = {} /\ totals["storage"].bytes = 0

Change ==
  /\ step # "done" /\ ~upset /\ upset' = TRUE
  /\ measured' \in Measurements
  /\ UNCHANGED <<step, totals, series, heard>>

Init ==
  /\ measured \in Measurements /\ step = "totals" /\ upset = FALSE
  /\ totals = [c \in Classes |-> Quiet] /\ series = [c \in Classes |-> << >>]
  /\ heard = {}

Next == QueryTotals \/ QueryBytes \/ QuerySeries \/ QueryByteSeries \/ Change

Spec == Init /\ [][Next]_panelVars

-----------------------------------------------------------------------------

TypeOK ==
  /\ measured \in Measurements
  /\ totals \in [Classes -> [flows : Nat, drops : Nat, bytes : Nat]]
  /\ DOMAIN series = Classes /\ heard \subseteq {"external", "internal", "bytes"}

\* Rows of one class that both of the flow queries have, malformed ones too: even a class of
\* these alone takes the place of the other query's.
Both(c) == \A rows \in {measured.external, measured.internal} :
             \E row \in Forwarded(rows) : Classify(row.to) = c
At(c, t) == IF t \in DOMAIN series[c] THEN series[c][t] ELSE [flows |-> 0, bytes |-> 0]

\* The panel is called stale only if it shows nothing; with nothing failed or changed, the
\* series ends at what the totals say, unless two queries had the class and one replaced the
\* other's points, and traffic with the cluster itself is never shown as another.
PanelIsHonest ==
  step = "done" =>
    /\ Stale => \A c \in Classes : totals[c].flows = 0 /\ totals[c].bytes = 0
    /\ ~upset => \A c \in Classes :
         /\ At(c, 0).bytes = totals[c].bytes
         /\ ~Both(c) => At(c, 0).flows = totals[c].flows
    /\ ~upset => totals["cluster"].flows >=
         SumOf({row \in Valid(Forwarded(IsNow(measured.external))) : "reserved:host" \in row.to})

\* What makes the panel honest, step by step. What is measured of a class at this instant:
NowOf(c) == Of(Forwarded(IsNow(measured.external) \cup IsNow(measured.internal)), c)
BytesOf(c) ==
  IF c = "storage" THEN measured.storage
  ELSE SumOf({row \in Valid(IsNow(measured.bytes)) : row.class = c})

TotalsInv ==
  /\ step # "totals" =>
       /\ heard \cap {"external", "internal"} = {} => \A c \in Classes : totals[c].flows = 0
       /\ ~upset => \A c \in Classes : totals[c].flows = SumOf(NowOf(c))
  /\ step \notin {"totals", "bytes"} =>
       /\ "bytes" \notin heard => \A c \in Networks : totals[c].bytes = 0
       /\ ~upset => \A c \in Classes : totals[c].bytes = BytesOf(c)

SeriesInv ==
  /\ step \in {"totals", "bytes", "series"} => series = [c \in Classes |-> << >>]
  /\ step = "byte_series" =>
       \A c \in Classes : \A t \in DOMAIN series[c] : series[c][t] \in [flows : Nat, bytes : {0}]
  /\ step \in {"byte_series", "done"} /\ ~upset =>
       \A c \in Classes : ~Both(c) => At(c, 0).flows = totals[c].flows
  /\ step = "done" /\ ~upset => \A c \in Classes : At(c, 0).bytes = totals[c].bytes

PanelInv ==
  /\ TypeOK /\ TotalsInv /\ SeriesInv
  /\ step \in {"totals", "bytes", "series", "byte_series", "done"}
=================================================================================
