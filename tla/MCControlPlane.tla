---------------------------- MODULE MCControlPlane ----------------------------
(***************************************************************************)
(* The components behind the API that share no state, in one run: a        *)
(* behaviour is one of the component that is chosen first.                 *)
(***************************************************************************)
EXTENDS VersionRows, TLC

CONSTANTS Users, Logins, Tickets, Tabs, MaxSessions, Secrets, Codes, Clients, MaxSeries,
  MaxUser, FirstName, Names, Invites, Identities, Callers, Entries, Themes, Unset, MaxEdits, Members,
  Roles, Perms, Backends, Apps, Editors, Channels, Replicas, Requests, MaxStamp, Events,
  Clearers, Retentions, Providers, None, Admins, MaxOps, MaxChanges, MaxName, Protected,
  MaxFile, Browsers, DomainIds, Tokens, MaxPasses, ChartNames, Components, Absent,
  Partial, Builtin, MaxVersion, MaxSyncs, MaxFaults, Validations, Servers, Machines,
  Nobody, MaxTroubles, Pods, Node, Neighbours, Peers, NoFile, Torn, MaxSent, MaxRestarts,
  Namespaces, Pages, Window, Capacity, MaxBytes, MaxTicks, Deployments, DaemonSets,
  Targets, NoWorkload, MaxEvents, NoChoice, Resources, Roots, Nil, Omitted, MaxOrders,
  MaxTurns, Spaces, ServiceNames, PodAddresses, Unknown, MaxUpsets, Times, AppNames,
  Hosts, Unassigned, MaxRow, MaxWrites, Upstreams, NoService, Lifetime, Tuples, Offered,
  AskedFor, Zones, Measured, Reported, Shipped, MountLists, Claims

VARIABLES
  part,  \* the component
  v1, v2, v3, v4, v5, v6, v7, v8, v9, v10, v11, v12, v13, v14, v15  \* its variables, in its order

\* What ControlPlane.cfg gives the constants that are sets of records and the like; the proofs
\* about this module take those constants as they are assumed to be, never these values.

\* FlowExporter: a Pod and the node talk to the internet, and the Pod to the node.
MCTuples == (Pods \X Peers) \cup ({Node} \X Peers) \cup (Pods \X {Node})

\* GatewayRoutes: two assignments of one host and two of paths, and what is beside them.
MCOffered ==
  {[mode |-> "subdomain", domain |-> "home", host |-> <<"tv">>, prefix |-> << >>],
   [mode |-> "exact_host", domain |-> "lan", host |-> <<"tv", "home">>, prefix |-> << >>],
   [mode |-> "path", domain |-> "home", host |-> << >>, prefix |-> <<"tv">>],
   [mode |-> "path", domain |-> "lan", host |-> << >>, prefix |-> <<"tv", "4k">>]}
MCAskedFor ==
  {[host |-> h, path |-> p] : h \in {<<"home">>, <<"tv", "home">>, <<"lan">>},
     p \in {<<"">>, <<"tv">>, <<"tv", "">>, <<"tv", "4k">>, <<"tv4k">>}}
MCZones == [home |-> <<"home">>, lan |-> <<"lan">>]

\* NetworkGraph: connections between namespaces, with the internet, the LAN, nodes and hosts;
\* bytes between any two Pods and with what is outside.
MCMeasured ==
  {[flows |->
      {[from |-> "tv", to |-> "db", rate |-> 1], [from |-> "tv", to |-> "reserved:world", rate |-> 2],
       [from |-> "", to |-> "cidr:", rate |-> 1], [from |-> "", to |-> "reserved:init", rate |-> 1],
       [from |-> "", to |-> "reserved:remote-node", rate |-> 1],
       [from |-> "kube-system", to |-> "db", rate |-> 3], [from |-> "db", to |-> "db", rate |-> 3],
       [from |-> "db", to |-> "tv", rate |-> Unknown]},
    bytes |->
      {[from |-> a, to |-> b, rate |-> 1] : a \in PodAddresses, b \in PodAddresses \cup {"internet"}}
      \cup {[from |-> "lan", to |-> a, rate |-> 2] : a \in PodAddresses}
      \cup {[from |-> "host", to |-> a, rate |-> Unknown] : a \in PodAddresses}]}

\* FlowClasses: an API server has a label of the host and an address of the LAN.
Outside ==
  {[to |-> {"reserved:world"}, dropped |-> FALSE, rate |-> 2, at |-> {0, 1}],
   [to |-> {"reserved:host", "cidr:"}, dropped |-> FALSE, rate |-> 1, at |-> {0}],
   [to |-> {"cidr:"}, dropped |-> TRUE, rate |-> 1, at |-> {0}]}
Inside ==
  {[to |-> {"namespace"}, dropped |-> FALSE, rate |-> 3, at |-> {0, 1}],
   [to |-> {"reserved:init"}, dropped |-> FALSE, rate |-> Unknown, at |-> {0}]}
Bytes ==
  {[class |-> "lan", rate |-> 2, at |-> {0}], [class |-> "cluster", rate |-> 1, at |-> {0, 1}],
   [class |-> "other", rate |-> 1, at |-> {0}]}
MCReported ==
  [external : SUBSET Outside, internal : {{}, Inside}, bytes : {{}, Bytes}, storage : {0, 1}]

\* MountChoices: lists of up to two mounts; a chart that needs one of its paths, one that
\* reserves others, and one with two components.
Mounts ==
  [source : {<<"tv">>, <<"tv", "hd">>, <<"config">>}, mode : {"read", "read-write"},
   target : {<<"data">>, <<"data", "tv">>, <<"data4k">>, <<"config">>}]
Media == [source |-> <<"tv">>, target |-> <<"data">>, mode |-> "read-write"]
Films == [source |-> <<"tv", "hd">>, target |-> <<"data4k">>, mode |-> "read"]
MCMountLists == {<< >>} \cup {<<a>> : a \in Mounts} \cup {<<a, b>> : a \in {Media, Films}, b \in Mounts}
Own == [create |-> TRUE, existing |-> NoChoice]
MCShipped ==
  {[mounts |-> ("main" :> <<Media>>), required |-> ("main" :> {<<"data">>}),
    reserved |-> ("main" :> {<<"config">>}), config |-> Own],
   [mounts |-> ("main" :> <<Media>>), required |-> ("main" :> {}),
    reserved |-> ("main" :> {<<"data4k">>, <<"config">>}), config |-> NoChoice],
   [mounts |-> ("main" :> << >>) @@ ("node" :> << >>), required |-> ("main" :> {}) @@ ("node" :> {}),
    reserved |-> ("main" :> {}) @@ ("node" :> {<<"data">>}), config |-> Own]}
MCClaims ==
  {Own, [create |-> FALSE, existing |-> "old"], [create |-> FALSE, existing |-> "media-data"],
   [create |-> TRUE, existing |-> "old"]}

Sess == INSTANCE Sessions WITH rights <- v1, rows <- v2, fresh <- v3, jar <- v4,
  handling <- v5, handed <- v6, trail <- v7, purged <- v8
Two == INSTANCE TwoFactor WITH secret <- v1, enabled <- v2, codes <- v3, series <- v4,
  required <- v5, asked <- v6
Acc == INSTANCE UserAccounts WITH users <- v1, unborn <- v2, invites <- v3,
  uninvited <- v4, links <- v5, pending <- v6, invited <- v7
Edi == INSTANCE AccountEdits WITH row <- v1, theme <- v2, doing <- v3, begun <- v4,
  recorded <- v5, latest <- v6
Rol == INSTANCE UserRoles WITH people <- v1, holds <- v2, granted <- v3, replacing <- v4,
  given <- v5
Set == INSTANCE SystemSettings WITH pair <- v1, starting <- v2, keys <- v3, shared <- v4,
  deploying <- v5, secrets <- v6, setting <- v7, editing <- v8
Chan == INSTANCE Notifications WITH channels <- v1, stamp <- v2, providers <- v3,
  fingerprint <- v4, posting <- v5, raced <- v6
Aud == INSTANCE AuditTrail WITH log <- v1, unlogged <- v2, clearing <- v3, cleared <- v4
Dep == INSTANCE AppDeployment WITH provider <- v1, assigned <- v2, saved <- v3,
  chart <- v4, calling <- v5, deleting <- v6, queue <- v7, run <- v8, newest <- v9,
  retryable <- v10, release <- v11, vpnSecret <- v12, claim <- v13, cascaded <- v14,
  changes <- v15
Sto == INSTANCE SharedStorage WITH tree <- v1, unmade <- v2, browsing <- v3
Dom == INSTANCE Domains WITH domains <- v1, stored <- v2, profiles <- v3, token <- v4,
  dropped <- v5, filing <- v6, edits <- v7, passes <- v8, pass <- v9
Mir == INSTANCE ChartMirror WITH published <- v1, mirror <- v2, staging <- v3, sync <- v4,
  last_synced <- v5, broken <- v6, catalog <- v7, syncs <- v8, faults <- v9
Ver == INSTANCE StateVersions WITH state <- v1, queued <- v2, call <- v3
Tst == INSTANCE VpnTests WITH vpn <- v1, step <- v2, secretOf <- v3, podOf <- v4,
  answer <- v5, excused <- v6, edited <- v7
Val == INSTANCE StorageValidation WITH asked <- v1, step <- v2, volumes <- v3,
  claims <- v4, files <- v5, up <- v6, node <- v7, troubles <- v8, verdict <- v9,
  excused <- v10
Flo == INSTANCE FlowExporter WITH table <- v1, sent <- v2, file <- v3, previous <- v4,
  totals <- v5, scraped <- v6, seen <- v7, restarts <- v8, Connections <- Tuples
Net == INSTANCE NetworkMetrics WITH counter <- v1, moved <- v2, pods <- v3, reading <- v4,
  cache <- v5, window <- v6, ticks <- v7, messages <- v8, page <- v9, feed <- v10,
  position <- v11, shown <- v12
Hea == INSTANCE AppHealth WITH namespace <- v1, release <- v2, workloads <- v3,
  events <- v4, check <- v5, unsettled <- v6, down <- v7, held <- v8
Mou == INSTANCE MountChoices WITH chart <- v1, saved <- v2, fits <- v3, Charts <- Shipped,
  Offers <- MountLists, Configs <- Claims
Gpu == INSTANCE GpuChoice WITH offered <- v1, chart <- v2, values <- v3, order <- v4,
  failed <- v5, orders <- v6, turns <- v7, wanted <- v8
Gra == INSTANCE NetworkGraph WITH services <- v1, says <- v2, access <- v3, holders <- v4,
  step <- v5, graph <- v6, upsets <- v7, reading <- v8, told <- v9, closed <- v10,
  moved <- v11, Readings <- Measured
Pan == INSTANCE FlowClasses WITH measured <- v1, step <- v2, totals <- v3, series <- v4,
  heard <- v5, upset <- v6, Measurements <- Reported
Rou == INSTANCE AppRoutes WITH assignments <- v1, there <- v2, created <- v3,
  writes <- v4, assigning <- v5, excused <- v6
Gat == INSTANCE GatewayRoutes WITH enabled <- v1, domains <- v2, asking <- v3,
  steady <- v4, Assignments <- Offered, Zone <- Zones, Wanted <- AskedFor
End == INSTANCE EndpointCache WITH service <- v1, cached <- v2, routing <- v3,
  recent <- v4

\* The variables a component has no use for.
Off == "off"
Off15 == v15 = Off
Off13 == v13 = Off /\ v14 = Off /\ Off15
Off12 == v12 = Off /\ Off13
Off11 == v11 = Off /\ Off12
Off10 == v10 = Off /\ Off11
Off9 == v9 = Off /\ Off10
Off8 == v8 = Off /\ Off9
Off7 == v7 = Off /\ Off8
Off6 == v6 = Off /\ Off7
Off5 == v5 = Off /\ Off6
Off4 == v4 = Off /\ Off5

Init ==
  \/ part = "sessions" /\ Sess!Init /\ Off9
  \/ part = "two_factor" /\ Two!Init /\ Off7
  \/ part = "accounts" /\ Acc!Init /\ Off8
  \/ part = "edits" /\ Edi!Init /\ Off7
  \/ part = "roles" /\ Rol!Init /\ Off6
  \/ part = "settings" /\ Set!Init /\ Off9
  \/ part = "channels" /\ Chan!Init /\ Off7
  \/ part = "audit" /\ Aud!Init /\ Off5
  \/ part = "deployment" /\ Dep!Init
  \/ part = "storage" /\ Sto!Init /\ Off4
  \/ part = "domains" /\ Dom!Init /\ Off10
  \/ part = "charts" /\ Mir!Init /\ Off10
  \/ part = "versions" /\ Ver!Init /\ Off4
  \/ part = "vpn_test" /\ Tst!Init /\ Off8
  \/ part = "validation" /\ Val!Init /\ Off11
  \/ part = "flows" /\ Flo!Init /\ Off9
  \/ part = "metrics" /\ Net!Init /\ Off13
  \/ part = "health" /\ Hea!Init /\ Off9
  \/ part = "mounts" /\ Mou!Init /\ Off4
  \/ part = "gpu" /\ Gpu!Init /\ Off9
  \/ part = "graph" /\ Gra!Init /\ Off12
  \/ part = "panel" /\ Pan!Init /\ Off7
  \/ part = "routes" /\ Rou!Init /\ Off7
  \/ part = "gateway" /\ Gat!Init /\ Off5
  \/ part = "endpoints" /\ End!Init /\ Off5

Next ==
  \/ part = "sessions" /\ Sess!Next /\ UNCHANGED <<part, v9, v10, v11, v12, v13, v14,
       v15>>
  \/ part = "two_factor" /\ Two!Next /\ UNCHANGED <<part, v7, v8, v9, v10, v11, v12, v13,
       v14, v15>>
  \/ part = "accounts" /\ Acc!Next /\ UNCHANGED <<part, v8, v9, v10, v11, v12, v13, v14,
       v15>>
  \/ part = "edits" /\ Edi!Next /\ UNCHANGED <<part, v7, v8, v9, v10, v11, v12, v13, v14,
       v15>>
  \/ part = "roles" /\ Rol!Next /\ UNCHANGED <<part, v6, v7, v8, v9, v10, v11, v12, v13,
       v14, v15>>
  \/ part = "settings" /\ Set!Next /\ UNCHANGED <<part, v9, v10, v11, v12, v13, v14, v15>>
  \/ part = "channels" /\ Chan!Next /\ UNCHANGED <<part, v7, v8, v9, v10, v11, v12, v13,
       v14, v15>>
  \/ part = "audit" /\ Aud!Next /\ UNCHANGED <<part, v5, v6, v7, v8, v9, v10, v11, v12,
       v13, v14, v15>>
  \/ part = "deployment" /\ Dep!Next /\ UNCHANGED part
  \/ part = "storage" /\ Sto!Next /\ UNCHANGED <<part, v4, v5, v6, v7, v8, v9, v10, v11,
       v12, v13, v14, v15>>
  \/ part = "domains" /\ Dom!Next /\ UNCHANGED <<part, v10, v11, v12, v13, v14, v15>>
  \/ part = "charts" /\ Mir!Next /\ UNCHANGED <<part, v10, v11, v12, v13, v14, v15>>
  \/ part = "versions" /\ Ver!Next /\ UNCHANGED <<part, v4, v5, v6, v7, v8, v9, v10, v11,
       v12, v13, v14, v15>>
  \/ part = "vpn_test" /\ Tst!Next /\ UNCHANGED <<part, v8, v9, v10, v11, v12, v13, v14,
       v15>>
  \/ part = "validation" /\ Val!Next /\ UNCHANGED <<part, v11, v12, v13, v14, v15>>
  \/ part = "flows" /\ Flo!Next /\ UNCHANGED <<part, v9, v10, v11, v12, v13, v14, v15>>
  \/ part = "metrics" /\ Net!Next /\ UNCHANGED <<part, v13, v14, v15>>
  \/ part = "health" /\ Hea!Next /\ UNCHANGED <<part, v9, v10, v11, v12, v13, v14, v15>>
  \/ part = "mounts" /\ Mou!Next /\ UNCHANGED <<part, v4, v5, v6, v7, v8, v9, v10, v11,
       v12, v13, v14, v15>>
  \/ part = "gpu" /\ Gpu!Next /\ UNCHANGED <<part, v9, v10, v11, v12, v13, v14, v15>>
  \/ part = "graph" /\ Gra!Next /\ UNCHANGED <<part, v12, v13, v14, v15>>
  \/ part = "panel" /\ Pan!Next /\ UNCHANGED <<part, v7, v8, v9, v10, v11, v12, v13, v14,
       v15>>
  \/ part = "routes" /\ Rou!Next /\ UNCHANGED <<part, v7, v8, v9, v10, v11, v12, v13, v14,
       v15>>
  \/ part = "gateway" /\ Gat!Next /\ UNCHANGED <<part, v5, v6, v7, v8, v9, v10, v11, v12,
       v13, v14, v15>>
  \/ part = "endpoints" /\ End!Next /\ UNCHANGED <<part, v5, v6, v7, v8, v9, v10, v11,
       v12, v13, v14, v15>>

vars == <<part, v1, v2, v3, v4, v5, v6, v7, v8, v9, v10, v11, v12, v13, v14, v15>>

Spec == Init /\ [][Next]_vars

\* What the components assume of their constants.
ASSUME SessIdsAssumption == Sess!IdsAssumption
ASSUME ChanBoundAssumption == Chan!BoundAssumption
ASSUME DomTokensAssumption == Dom!TokensAssumption
ASSUME DepBoundAssumption == Dep!BoundAssumption
ASSUME DepNoneAssumption == Dep!NoneAssumption
ASSUME MirComponentsAssumption == Mir!ComponentsAssumption
ASSUME MirMarksAssumption == Mir!MarksAssumption
ASSUME RouUnassignedAssumption == Rou!UnassignedAssumption
ASSUME TstAbsentAssumption == Tst!AbsentAssumption
ASSUME ValServersAssumption == Val!ServersAssumption
ASSUME EndLifetimeAssumption == End!LifetimeAssumption
ASSUME GatPathsAssumption == Gat!PathsAssumption
ASSUME StoNamesAssumption == Sto!NamesAssumption
ASSUME MouListsAssumption == Mou!ListsAssumption
ASSUME GpuNilAssumption == Gpu!NilAssumption
ASSUME HeaWorkloadsAssumption == Hea!WorkloadsAssumption
ASSUME FloConnectionsAssumption == Flo!ConnectionsAssumption
ASSUME FloBoundsAssumption == Flo!BoundsAssumption
ASSUME FloNamesAssumption == Flo!NamesAssumption
ASSUME NetMachinesAssumption == Net!MachinesAssumption
ASSUME GraSpacesAssumption == Gra!SpacesAssumption
ASSUME GraReadingsAssumption == Gra!ReadingsAssumption
ASSUME PanMeasurementsAssumption == Pan!MeasurementsAssumption

\* The types of the variables of the chosen component.
TypeOK ==
  /\ part = "sessions" => Sess!TypeOK
  /\ part = "two_factor" => Two!TypeOK
  /\ part = "accounts" => Acc!TypeOK
  /\ part = "edits" => Edi!TypeOK
  /\ part = "roles" => Rol!TypeOK
  /\ part = "settings" => Set!TypeOK
  /\ part = "channels" => Chan!TypeOK
  /\ part = "audit" => Aud!TypeOK
  /\ part = "deployment" => Dep!TypeOK
  /\ part = "storage" => Sto!TypeOK
  /\ part = "domains" => Dom!TypeOK
  /\ part = "charts" => Mir!TypeOK
  /\ part = "versions" => Ver!TypeOK
  /\ part = "vpn_test" => Tst!TypeOK
  /\ part = "validation" => Val!TypeOK
  /\ part = "flows" => Flo!TypeOK
  /\ part = "metrics" => Net!TypeOK
  /\ part = "health" => Hea!TypeOK
  /\ part = "mounts" => Mou!TypeOK
  /\ part = "gpu" => Gpu!TypeOK
  /\ part = "graph" => Gra!TypeOK
  /\ part = "panel" => Pan!TypeOK
  /\ part = "routes" => Rou!TypeOK
  /\ part = "gateway" => Gat!TypeOK
  /\ part = "endpoints" => End!TypeOK

\* Requests and the like, and what most components have two of.
Symmetry == Permutations(Callers) \cup Permutations(Names) \cup Permutations(Replicas)

\* Sessions: a host transfer ticket is handed to one request only.
TicketOnce == part = "sessions" => Sess!TicketOnce

\* Sessions: the audit trail accounts for the sessions.
TrailTellsSessions == part = "sessions" => Sess!TrailTellsSessions

\* TwoFactor: recovery codes are there only with 2FA on, and of the last time it was.
CodesFollowTwoFactor == part = "two_factor" => Two!CodesFollowTwoFactor

\* UserAccounts: one account is registered with an invite, the one it says.
InviteAdmitsOne == part = "accounts" => Acc!InviteAdmitsOne

\* UserRoles: an account has the roles one request gave it, never a part or a mix.
RolesGivenTogether == part = "roles" => Rol!RolesGivenTogether

\* SystemSettings: generated keys and secrets are ones others use too.
GeneratedKeysFit == part = "settings" => Set!GeneratedKeysFit

\* Notifications: the next refresh of a replica picks up every change that was stored.
RefreshMissesNothing == part = "channels" => Chan!RefreshMissesNothing

\* AuditTrail: what is gone from the audit log is what its records say.
EveryDeletionRecorded == part = "audit" => Aud!EveryDeletionRecorded

\* AppDeployment: private data from before is never held for new.
ProofIsEarned == part = "deployment" => Dep!ProofIsEarned

\* ChartMirror: the catalog has Kubarr's own components, and what a sync said it has.
CatalogServes == part = "charts" => Mir!CatalogServes

\* StateVersions: "update available" is what the versions of the row say.
FlagFits == part = "versions" => Ver!FlagFits

\* StateVersions: an available version that is known is never forgotten, only replaced.
AvailableStays == [][part = "versions" => Ver!KeepsAvailable]_vars

\* AppRoutes: a host is assigned once, and an app has one primary assignment.
AssignmentsFit == part = "routes" => Rou!AssignmentsFit

\* SharedStorage: a file leaves the volume only by its own deletion, or in a race for a name.
\* MountChoices: a saved choice goes only for another.
NothingIsLost ==
  [][/\ part = "storage" => Sto!FileSurvives
     /\ part = "mounts" => Mou!ChoiceKept]_vars

\* Domains: what an administrator stored stays, whatever was read before.
\* AccountEdits: of two changes of an account neither undoes the other.
EditsSurvive ==
  /\ part = "domains" => Dom!EditsSurvive
  /\ part = "edits" => Edi!EditsKept

\* VpnTests: a test cleans up, and its Pod has what it needs to start.
\* StorageValidation: a validation cleans up, and fails for a reason of its own.
TestsAreTidy ==
  /\ part = "vpn_test" => Tst!TestsAreTidy
  /\ part = "validation" => Val!ValidationTells

\* AppDeployment: once an app is settled, its release uses the VPN it is assigned.
\* MountChoices: the folders of an app fit what it is made for, and each other.
\* GpuChoice: an app has the GPU that was chosen last, and no other.
ChoicesAreMet ==
  /\ part = "deployment" => Dep!SettledFollowsAssignment
  /\ part = "mounts" => Mou!MountsServe
  /\ part = "gpu" => Gpu!GpuIsAsChosen

\* GatewayRoutes: a request goes where its host and path are assigned, and keeps its path.
\* EndpointCache: it is sent to a service the app has, or had a lifetime ago.
\* AppHealth: an app is called healthy or absent only if it was, at a time.
AppsAreReached ==
  /\ part = "gateway" => Gat!RoutesAreFound
  /\ part = "endpoints" => End!EndpointsAreRecent
  /\ part = "health" => Hea!HealthIsHonest

\* FlowExporter: what is shown of a node's traffic was moved, and once.
\* NetworkMetrics: a rate that is shown is of traffic there was.
\* NetworkGraph: edges join what refers to each other, and have what was measured.
\* FlowClasses: the panel is stale only if it shows nothing, and its parts agree.
TrafficIsReal ==
  /\ part = "flows" => Flo!CountersAreFaithful
  /\ part = "metrics" => Net!RatesAreReal
  /\ part = "graph" => Gra!GraphIsTrue
  /\ part = "panel" => Pan!PanelIsHonest
=============================================================================
