----------------------------- MODULE MountChoices ------------------------------
(***************************************************************************)
(* The folders of the shared volume an app is installed with.  A request   *)
(* chooses them, what it leaves out stays as it was saved or is what the   *)
(* chart comes with; charts change between installs, and what a chart      *)
(* needs with them.  A path is the sequence of its segments.               *)
(***************************************************************************)
EXTENDS Naturals, Sequences, SequencesExt

CONSTANTS
  Charts,     \* of each component: mounts, required and reserved paths; and a private config
  Offers,     \* lists of mounts that can be asked for
  Configs,    \* private configs that can be asked for
  NoChoice     \* nothing chosen, nothing there

\* Paths are sequences, and so are lists of mounts.
IsSequence(s) == s \in Seq({s[i] : i \in DOMAIN s})
IsMountList(mounts) ==
  /\ mounts # NoChoice /\ IsSequence(mounts)
  /\ \A i \in DOMAIN mounts : IsSequence(mounts[i].source) /\ IsSequence(mounts[i].target)
ListsAssumption ==
  /\ \A c \in Charts : \A k \in DOMAIN c.mounts : IsMountList(c.mounts[k])
  /\ \A mounts \in Offers : IsMountList(mounts)
  /\ NoChoice # "media-data"

VARIABLES
  chart,   \* the chart the catalog has
  saved,   \* the app's saved choices, or NoChoice
  fits     \* ghost: the chart the saved choices were made for

mountVars == <<chart, saved, fits>>

Parts == UNION {DOMAIN c.mounts : c \in Charts}
Writable == "read-write"
MediaClaim == "media-data"

\* One path is the other or below it: /data and /data/tv, but not /data4k.
Overlap(a, b) == IsPrefix(a, b) \/ IsPrefix(b, a)

\* Mutant of TargetsApart: a mount may lie within another.
TargetsDiffer(mounts, i) == \A j \in 1 .. i - 1 : mounts[i].target # mounts[j].target

TargetsApart(mounts, i) == \A j \in 1 .. i - 1 : ~Overlap(mounts[i].target, mounts[j].target)

\* config is where private configs are on the shared volume.
ValidSource(source) == source # << >> /\ Head(source) # "config"

\* Mounts are looked at one by one, each with those before it.
ValidMounts(mounts, required, reserved) ==
  /\ \A i \in DOMAIN mounts :
       /\ ValidSource(mounts[i].source)
       /\ \A path \in reserved : ~Overlap(mounts[i].target, path)
       /\ TargetsApart(mounts, i)
       /\ \A j \in 1 .. i - 1 : Overlap(mounts[i].source, mounts[j].source) =>
                                  mounts[i].mode = mounts[j].mode
  /\ \A target \in required : \E i \in DOMAIN mounts :
       mounts[i].target = target /\ mounts[i].mode = Writable

\* A claim of its own, or one that is there and is not the shared volume's.
ValidConfig(config) ==
  IF config.create THEN config.existing = NoChoice ELSE config.existing \notin {NoChoice, MediaClaim}

Either(one, other) == IF one # NoChoice THEN one ELSE other
Chosen(storage, k) == IF storage = NoChoice \/ k \notin DOMAIN storage.mounts THEN NoChoice
                      ELSE storage.mounts[k]
ConfigOf(storage) == IF storage = NoChoice THEN NoChoice ELSE storage.config

\* Choices are checked with what they leave to the chart. The main component may not be
\* chosen for if the chart has none, nor may others, nor a private config.
Validate(c, storage) ==
  /\ \A k \in Parts \ DOMAIN c.mounts : Chosen(storage, k) = NoChoice
  /\ \A k \in DOMAIN c.mounts :
       ValidMounts(Either(Chosen(storage, k), c.mounts[k]), c.required[k], c.reserved[k])
  /\ c.config = NoChoice => ConfigOf(storage) = NoChoice
  /\ LET config == Either(ConfigOf(storage), c.config)
     IN config # NoChoice => ValidConfig(config)

\* What was asked for, or else saved, or else the chart's; saved choices of components the
\* chart has no more are refused before they can be lost.
Materialized(c, request) ==
  [mounts |-> [k \in DOMAIN c.mounts |->
                 Either(Chosen(request, k), Either(Chosen(saved, k), c.mounts[k]))],
   config |-> Either(ConfigOf(request), Either(ConfigOf(saved), c.config))]

-----------------------------------------------------------------------------

\* A chart is offered for installation only if its own defaults are valid.
Loads == Validate(chart, NoChoice)

\* An install saves its choices with its operation, in one transaction.
Install ==
  /\ Loads /\ Validate(chart, saved)
  /\ \E k \in Parts, mounts \in Offers \cup {NoChoice}, config \in Configs \cup {NoChoice} :
       LET request == [mounts |-> [x \in {k} |-> mounts], config |-> config]
           effective == Materialized(chart, request)
       IN /\ Validate(chart, request) /\ Validate(chart, effective)
          /\ saved' = effective
  /\ fits' = chart
  /\ UNCHANGED chart

\* Another chart is synced: see ChartMirror.
SyncChart ==
  /\ chart' \in Charts \ {chart}
  /\ UNCHANGED <<saved, fits>>

Init == chart \in Charts /\ fits = chart /\ saved = NoChoice

Next == Install \/ SyncChart

Spec == Init /\ [][Next]_mountVars

-----------------------------------------------------------------------------

TypeOK ==
  /\ chart \in Charts /\ fits \in Charts
  /\ saved # NoChoice => DOMAIN saved.mounts = DOMAIN fits.mounts

\* The mounts a path of the container is in, and the modes a folder is mounted with.
Serving(mounts, path) == {i \in DOMAIN mounts : IsPrefix(mounts[i].target, path)}
ModesOf(mounts, folder) ==
  {mounts[i].mode : i \in {j \in DOMAIN mounts : IsPrefix(mounts[j].source, folder)}}
TargetsOf(mounts) == {mounts[i].target : i \in DOMAIN mounts}
SourcesOf(mounts) == {mounts[i].source : i \in DOMAIN mounts}

\* What is saved serves an app: every path of a container is on one volume at most, no mount
\* covers or enters what the chart uses itself, what the app needs is there to be written,
\* one folder is not both writable and read-only, and private config is not the shared volume.
MountsServe ==
  saved # NoChoice =>
    /\ \A k \in DOMAIN saved.mounts :
         LET mounts == saved.mounts[k]
         IN /\ \A path \in TargetsOf(mounts) \cup fits.reserved[k] :
                 LET serving == Serving(mounts, path)
                 IN \A i, j \in serving : i = j
            /\ \A path \in fits.reserved[k] :
                 /\ Serving(mounts, path) = {}
                 /\ \A target \in TargetsOf(mounts) : ~IsPrefix(path, target)
            /\ \A path \in fits.required[k] :
                 \E i \in Serving(mounts, path) : mounts[i].mode = Writable
            /\ \A folder \in SourcesOf(mounts) :
                 \A one, other \in ModesOf(mounts, folder) : one = other
    /\ saved.config # NoChoice => saved.config.existing # MediaClaim

\* A saved choice of a component goes only when its administrator makes another: not because
\* a chart comes and goes.
ChoiceKept ==
  saved # NoChoice =>
    /\ DOMAIN saved.mounts \subseteq DOMAIN saved'.mounts
    /\ saved.config # NoChoice => saved'.config # NoChoice

\* What is saved was found valid with the chart it was saved for.
MountInv ==
  /\ chart \in Charts /\ fits \in Charts
  /\ saved # NoChoice =>
       /\ DOMAIN saved.mounts = DOMAIN fits.mounts
       /\ \A k \in DOMAIN saved.mounts : IsMountList(saved.mounts[k])
       /\ Validate(fits, saved)
================================================================================
