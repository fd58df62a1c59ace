\* Each component on an instance of its own; sets of different components share their model
\* values, which keeps the symmetry small.
CONSTANTS
  Users = {u1}
  Logins = {b1, b2}
  Tickets = {t1}
  Tabs = {a1, a2}
  MaxSessions = 2
  Secrets = {b1, b2}
  Codes = {k1, k2}
  Clients = {a1, a2, a3}
  MaxSeries = 2
  MaxUser = 3
  FirstName = FirstName
  Names = {b1, b2}
  Invites = {i1}
  Identities = {g1}
  Callers = {a1, a2}
  Members = {b1, b2}
  Roles = {"admin", "viewer"}
  Perms = {x1}
  Backends = {b1, b2}
  Apps = {k1, k2}
  Editors = {a1, a2}
  Unset = Unset
  Channels = {b1, b2}
  Replicas = {k1, k2}
  Requests = {a1, a2}
  MaxStamp = 2
  Events = {n1, n2, n3, n4}
  Clearers = {a1, a2}
  Retentions = {0, 90}
  Providers = {b1, b2}
  None = None
  Admins = {a1}
  MaxOps = 2
  MaxChanges = 1
  MaxName = 2
  Protected = {1}
  MaxFile = 2
  Browsers = {a1, a2}
  DomainIds = {b1, b2}
  Tokens = {"t1"}
  MaxEdits = 2
  MaxPasses = 1
  ChartNames = {"kubarr-api", "radarr"}
  Components = {"kubarr-api"}
  Absent = Absent
  Partial = Partial
  Builtin = Builtin
  MaxVersion = 2
  MaxSyncs = 2
  MaxFaults = 1
  Nothing = Nothing
  Versions = {b1, b2}
  MaxOperations = 1
  Pods = {p1}
  Node = Node
  Neighbours = {l1}
  Peers = {r1}
  NoFile = NoFile
  Torn = FALSE
  MaxBytes = 2
  MaxSent = 3
  MaxRestarts = 1
  Machines = {b1, b2}
  Namespaces = {n1}
  Pages = {g1}
  Window = 1
  Capacity = 1
  MaxTicks = 2
  AppNames = {b1}
  Hosts = {h1}
  Unassigned = Unassigned
  MaxRow = 2
  MaxWrites = 2
  Upstreams = {b1, b2}
  NoService = NoService
  Lifetime = 2
  Deployments = {"web"}
  DaemonSets = {"agent"}
  Targets = {"namespace", "web", "agent"}
  NoWorkload = NoWorkload
  MaxEvents = 2
  NoChoice = NoChoice
  Resources = {k1, k2}
  Roots = {n1}
  Nil = Nil
  Omitted = Omitted
  MaxOrders = 2
  MaxTurns = 1
  Spaces = {"tv", "db"}
  ServiceNames = {"sql"}
  PodAddresses = {b1, b2}
  Unknown = Unknown
  MaxUpsets = 1
  Times = {0, 1}
  Entries = {b1, b2}
  Themes = {"system", "dark"}
  Validations = {b1, b2}
  Servers = {"nas"}
  Nobody = Nobody
  MaxTroubles = 1
  Tuples <- MCTuples
  Offered <- MCOffered
  AskedFor <- MCAskedFor
  Zones <- MCZones
  Measured <- MCMeasured
  Reported <- MCReported
  MountLists <- MCMountLists
  Shipped <- MCShipped
  Claims <- MCClaims
SPECIFICATION Spec
SYMMETRY Symmetry
INVARIANTS TypeOK TicketOnce  CodesFollowTwoFactor InviteAdmitsOne
  RolesGivenTogether GeneratedKeysFit RefreshMissesNothing EveryDeletionRecorded
   ProofIsEarned  
  FlagFits TestsAreTidy  AssignmentsFit 
 
CHECK_DEADLOCK FALSE  \* what is bounded ends
