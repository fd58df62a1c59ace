------------------------------- MODULE ChartMirror ------------------------------
(***************************************************************************)
(* The charts of one process.  A sync discovers what is published, pulls   *)
(* every chart into a directory of the process and reloads the catalog     *)
(* from there; requests look up entries of the catalog, and versions on    *)
(* disk, at any time between.  Every backend and worker has its own.       *)
(***************************************************************************)
EXTENDS Naturals

CONSTANTS
  ChartNames,     \* charts, by the name of their directory
  Components,     \* those named like a component of Kubarr itself
  Absent,         \* no chart, no directory, no entry
  Partial,        \* a directory that has no whole chart yet
  Builtin,        \* the entry of a component that its chart does not give
  MaxVersion,     \* bound: versions published of a chart
  MaxSyncs,       \* bound: syncs
  MaxFaults       \* bound: discoveries and pulls that fail, and restarts

ComponentsAssumption == Components \subseteq ChartNames

VARIABLES
  published,      \* the repository: each chart, or Absent
  mirror,         \* the process's directory: each chart, or Absent
  staging,        \* its `.pull-` directories: a chart, Partial or Absent
  sync,           \* the sync under way
  last_synced,    \* what the last sync that counts had discovered, or Absent
  broken,         \* charts that a pull, or a restart, may have taken since
  catalog,        \* the entry of each name: the chart it was read from, Builtin or Absent
  syncs, faults   \* those so far

mirrorVars == <<published, mirror, staging, sync, last_synced, broken, catalog, syncs, faults>>

\* What decides about a chart's entry: an application, a hidden one, or neither, because
\* the chart has no category.
Charts == [version : 1..MaxVersion, kind : {"app", "hidden", "library"}]

\* A chart is none of the marks for what is not one.
MarksAssumption == Absent \notin Charts /\ Partial \notin Charts /\ Builtin # Absent

\* The step, the chart it is about, those discovered, those left to pull, and failures.
Idle == [step |-> "idle", at |-> Absent, found |-> Absent, left |-> {}, failed |-> FALSE]
Fault == faults < MaxFaults /\ faults' = faults + 1

-----------------------------------------------------------------------------
(* The catalog *)

\* The whole charts in directories of the name: a staging directory is searched like others.
Whole(n) == {mirror[n], staging[n]} \ {Absent, Partial}

\* A chart without a category is no application.
ParseChart(c) == IF c.kind = "library" THEN Absent ELSE c

\* Mutant of LoadSystemComponent: only a component without an entry is listed as built in.
LoadMissingComponent(n, entry) ==
  IF n \in Components /\ entry = Absent THEN Builtin ELSE entry

\* A component is listed as built in, unless a visible chart is its entry.
LoadSystemComponent(n, entry) ==
  IF n \in Components /\ (entry = Absent \/ entry.kind = "hidden") THEN Builtin ELSE entry

\* The entries of a name that a load can give: directories come in any order.
LoadApp(n) ==
  LET parsed == {ParseChart(c) : c \in Whole(n)} \ {Absent}
  IN {LoadSystemComponent(n, e) : e \in IF parsed = {} THEN {Absent} ELSE parsed}

\* A reload clears the catalog and loads it again, under the write lock.
Load == catalog' \in {f \in [ChartNames -> UNION {LoadApp(n) : n \in ChartNames}] :
                        \A n \in ChartNames : f[n] \in LoadApp(n)}

-----------------------------------------------------------------------------
(* Sync *)

\* A chart is published for the first time, or again with another version.
Publish(n) ==
  /\ \E c \in Charts :
       /\ c.version = IF published[n] = Absent THEN 1 ELSE published[n].version + 1
       /\ published' = [published EXCEPT ![n] = c]
  /\ UNCHANGED <<mirror, staging, sync, last_synced, broken, catalog, syncs, faults>>

\* A sync asks for the names of the charts and reads the version of each, which may have
\* changed by then.
DiscoverCharts ==
  /\ sync = Idle /\ syncs < MaxSyncs
  /\ syncs' = syncs + 1
  /\ sync' = [Idle EXCEPT !.step = "discover", !.found = [n \in ChartNames |-> Absent],
                          !.left = {n \in ChartNames : published[n] # Absent}]
  /\ UNCHANGED <<published, mirror, staging, last_synced, broken, catalog, faults>>

\* Those found are pulled next; that there are none ends the sync.
Found(charts) ==
  LET names == {n \in ChartNames : charts[n] # Absent}
  IN sync' = IF names = {} THEN Idle
             ELSE [sync EXCEPT !.step = "pull", !.found = charts, !.left = names]

ReadVersion(n) ==
  /\ sync.step = "discover" /\ n \in sync.left
  /\ LET found == [sync.found EXCEPT ![n] = published[n]]
     IN IF sync.left = {n} THEN Found(found)
        ELSE sync' = [sync EXCEPT !.found = found, !.left = @ \ {n}]
  /\ UNCHANGED <<published, mirror, staging, last_synced, broken, catalog, syncs, faults>>

\* The interface with the names fails: all of them at once from an archive.
DiscoverFromArchive ==
  /\ Fault /\ sync.step = "discover"
  /\ Found(published)
  /\ UNCHANGED <<published, mirror, staging, last_synced, broken, catalog, syncs>>

\* Nothing is pulled: there are no charts, the archive fails as well, or anything is wrong
\* with any chart of a local directory, which takes the place of both.
AbandonDiscovery ==
  /\ sync.step = "discover"
  /\ IF sync.left = {} THEN UNCHANGED faults ELSE Fault
  /\ sync' = Idle
  /\ UNCHANGED <<published, mirror, staging, last_synced, broken, catalog, syncs>>

\* The charts one after the other: the version that was discovered is unpacked into an
\* empty staging directory,
BeginPull(n) ==
  /\ sync.step = "pull" /\ n \in sync.left
  /\ staging' = [staging EXCEPT ![n] = Partial]
  /\ sync' = [sync EXCEPT !.step = "untar", !.at = n, !.left = @ \ {n}]
  /\ UNCHANGED <<published, mirror, last_synced, broken, catalog, syncs, faults>>

Untar ==
  /\ sync.step = "untar"
  /\ staging' = [staging EXCEPT ![sync.at] = sync.found[sync.at]]
  /\ sync' = [sync EXCEPT !.step = "remove"]
  /\ UNCHANGED <<published, mirror, last_synced, broken, catalog, syncs, faults>>

\* the old directory is removed,
RemoveOld ==
  /\ sync.step = "remove"
  /\ mirror' = [mirror EXCEPT ![sync.at] = Absent]
  /\ sync' = [sync EXCEPT !.step = "rename"]
  /\ UNCHANGED <<published, staging, last_synced, broken, catalog, syncs, faults>>

\* and the new one renamed to its place.
RenameNew ==
  /\ sync.step = "rename"
  /\ mirror' = [mirror EXCEPT ![sync.at] = staging[sync.at]]
  /\ staging' = [staging EXCEPT ![sync.at] = Absent]
  /\ sync' = [sync EXCEPT !.step = "pull", !.at = Absent]
  /\ UNCHANGED <<published, last_synced, broken, catalog, syncs, faults>>

\* A pull that fails leaves no staging directory, and the others go on.
FailPull ==
  /\ Fault
  /\ sync.step \in {"untar", "rename"}
  /\ staging' = [staging EXCEPT ![sync.at] = Absent]
  /\ sync' = [sync EXCEPT !.step = "pull", !.at = Absent, !.failed = TRUE]
  /\ broken' = broken \cup {sync.at}
  /\ UNCHANGED <<published, mirror, last_synced, catalog, syncs>>

\* What was pulled is loaded, also if some was not; only a sync without failures counts.
Reload ==
  /\ sync.step = "pull" /\ sync.left = {}
  /\ Load
  /\ sync' = Idle
  /\ IF sync.failed THEN UNCHANGED <<last_synced, broken>>
     ELSE last_synced' = sync.found /\ broken' = {}
  /\ UNCHANGED <<published, mirror, staging, syncs, faults>>

\* Mutant of Reload: a sync counts if it got to the end.
ReloadCounts ==
  /\ sync.step = "pull" /\ sync.left = {}
  /\ Load
  /\ sync' = Idle
  /\ last_synced' = sync.found /\ broken' = {}
  /\ UNCHANGED <<published, mirror, staging, syncs, faults>>

\* The process starts again, on its directory, or on a new one: the catalog is loaded from
\* what is there.
Restart ==
  /\ Fault
  /\ \/ Load /\ UNCHANGED <<mirror, staging>>
     \/ /\ mirror' = [n \in ChartNames |-> Absent]
        /\ staging' = [n \in ChartNames |-> Absent]
        /\ catalog' = [n \in ChartNames |-> LoadSystemComponent(n, Absent)]
  /\ sync' = Idle
  /\ last_synced' = Absent
  /\ broken' = {}
  /\ UNCHANGED <<published, syncs>>

Init ==
  /\ published = [n \in ChartNames |-> Absent]
  /\ mirror = published /\ staging = published
  /\ sync = Idle
  /\ last_synced = Absent
  /\ broken = {}
  /\ catalog = [n \in ChartNames |-> LoadSystemComponent(n, Absent)]
  /\ syncs = 0 /\ faults = 0

Next ==
  \/ \E n \in ChartNames : Publish(n) \/ ReadVersion(n) \/ BeginPull(n)
  \/ DiscoverCharts \/ DiscoverFromArchive \/ AbandonDiscovery
  \/ Untar \/ RemoveOld \/ RenameNew \/ FailPull \/ Reload
  \/ Restart

Spec == Init /\ [][Next]_mirrorVars

-----------------------------------------------------------------------------
TypeOK ==
  /\ published \in [ChartNames -> Charts \cup {Absent}]
  /\ mirror \in [ChartNames -> Charts \cup {Absent}]
  /\ staging \in [ChartNames -> Charts \cup {Absent, Partial}]
  /\ sync.step \in {"idle", "discover", "pull", "untar", "remove", "rename"}
  /\ sync.at \in ChartNames \cup {Absent} /\ sync.left \subseteq ChartNames
  /\ last_synced = Absent \/ last_synced \in [ChartNames -> Charts \cup {Absent}]
  /\ broken \subseteq ChartNames
  /\ catalog \in [ChartNames -> Charts \cup {Builtin, Absent}]
  /\ syncs \in 0..MaxSyncs /\ faults \in 0..MaxFaults

\* A component of Kubarr is in the catalog whatever the charts on disk are: an entry of
\* its own that hides it, a chart that is gone, a directory half pulled (catalog.rs:439).
ComponentsListed ==
  \A n \in Components : catalog[n] # Absent /\ (catalog[n] # Builtin => catalog[n].kind = "app")

\* The chart and the later versions of it.
FromOn(c) == {c} \cup {later \in Charts : later.version > c.version}

\* What the last sync that counts had discovered is what the catalog offers, or a later
\* version, but for charts whose pull has failed since (chart_sync.rs:176).
LastSyncedIsServed ==
  last_synced # Absent =>
    \A n \in ChartNames \ broken :
      LET c == last_synced[n] IN
      c # Absent =>
        \E served \in FromOn(c) : catalog[n] = LoadSystemComponent(n, ParseChart(served))

\* The catalog can be relied on: Kubarr's own components, and what a sync said it has.
CatalogServes == ComponentsListed /\ LastSyncedIsServed

\* Every step keeps it: what is discovered was published, and is so, or a later version;
\* those of a sync that has not failed are in place but for the chart it is about; and what
\* the last sync that counts had is still there, but for that chart between its removal and
\* the renaming.
Discovered == [ChartNames -> Charts \cup {Absent}]
Placing(n) == sync.step \in {"untar", "remove", "rename"} /\ sync.at = n
Pulling == sync.step \in {"pull", "untar", "remove", "rename"}

FilesKept ==
  /\ published \in Discovered /\ mirror \in Discovered
  /\ staging \in [ChartNames -> Charts \cup {Absent, Partial}]
SyncKept ==
  /\ sync \in [step : {"idle", "discover", "pull", "untar", "remove", "rename"},
              at : ChartNames \cup {Absent}, found : Discovered \cup {Absent},
              left : SUBSET ChartNames, failed : BOOLEAN]
  /\ sync.step # "idle" =>
       /\ sync.found \in Discovered
       /\ \A n \in ChartNames :
            sync.found[n] # Absent => published[n] \in FromOn(sync.found[n])
  /\ Pulling => \A n \in sync.left : sync.found[n] # Absent
  /\ \A n \in ChartNames : Placing(n) =>
       /\ n \notin sync.left /\ sync.found[n] # Absent
       /\ sync.step # "untar" => staging[n] = sync.found[n]
  /\ sync.step \in {"untar", "remove", "rename"} => sync.at \in ChartNames
PulledKept ==
  Pulling /\ ~sync.failed =>
    \A n \in ChartNames \ sync.left : sync.found[n] # Absent =>
      Placing(n) \/ (mirror[n] = sync.found[n] /\ staging[n] = Absent)
SyncedKept ==
  last_synced # Absent =>
    /\ last_synced \in Discovered
    /\ \A n \in ChartNames : last_synced[n] # Absent =>
         /\ published[n] \in FromOn(last_synced[n])
         /\ sync.step # "idle" /\ sync.found[n] # Absent =>
              sync.found[n] \in FromOn(last_synced[n])
         /\ staging[n] \in {Absent, Partial} \cup FromOn(last_synced[n])
         /\ \/ n \in broken \/ (Placing(n) /\ sync.step = "rename")
            \/ mirror[n] \in FromOn(last_synced[n])

MirrorInv == FilesKept /\ SyncKept /\ PulledKept /\ SyncedKept /\ CatalogServes
=============================================================================
