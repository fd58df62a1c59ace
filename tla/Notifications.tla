---------------------------- MODULE Notifications ----------------------------
(***************************************************************************)
(* The notification channels an administrator configures, and the          *)
(* providers each replica of the backend loads from them.  A replica that  *)
(* answers an update reloads at once; the others compare a fingerprint of  *)
(* the table before they use a provider.  Requests overlap, in one replica *)
(* too.  A message itself, and the account's inbox, are left out: nothing  *)
(* in the program calls notify_event.                                      *)
(***************************************************************************)
EXTENDS Naturals, FiniteSets

CONSTANTS
  Channels,   \* channel types
  Replicas,   \* processes, each with its own notification service
  Requests,   \* requests that can be in flight
  MaxStamp    \* updates that are started (bound)

BoundAssumption == MaxStamp \in Nat

Stamps == 0 .. MaxStamp
NoRow == [on |-> FALSE, stamp |-> MaxStamp + 1]  \* MaxStamp + 1: there is no such row
Unloaded == MaxStamp + 1
NoFingerprint == [count |-> 0, latest |-> MaxStamp + 1]

VARIABLES
  channels,    \* the table: whether a type is enabled with a usable config, and updated_at
  stamp,       \* the clock updates are dated with
  providers,   \* the config each replica has loaded for a type, named by its date
  fingerprint, \* the fingerprint of the table each replica loaded at
  posting,     \* what the requests are doing
  raced        \* replicas that ran two loads at once, and all of them after a change
               \* was stored with an earlier date than one that was there

notifyVars == <<channels, stamp, providers, fingerprint, posting, raced>>

Idle == [op |-> "idle"]

LoadedOf(table) == [c \in Channels |-> IF table[c].on THEN table[c].stamp ELSE Unloaded]

Present(table) == {c \in Channels : table[c] # NoRow}

\* channel_fingerprint: the number of rows, and the date of the last change.
ChannelFingerprint(table) ==
  LET dates == {table[c].stamp : c \in Present(table)}
  IN [count |-> Cardinality(Present(table)),
      latest |-> IF dates = {} THEN NoFingerprint.latest
                 ELSE CHOOSE d \in dates : \A e \in dates : e <= d]

\* Every replica loaded when it started.
Init ==
  /\ channels \in [Channels -> {NoRow, [on |-> TRUE, stamp |-> 0]}]
  /\ stamp = 0
  /\ providers = [r \in Replicas |-> LoadedOf(channels)]
  /\ fingerprint = [r \in Replicas |-> ChannelFingerprint(channels)]
  /\ posting = [q \in Requests |-> Idle]
  /\ raced = {}

Step(q, r) == posting' = [posting EXCEPT ![q] = r]

-----------------------------------------------------------------------------
(* update_channel dates the change, looks for the row, and then updates or *)
(* inserts it: with a row in between, the insert meets the unique type.    *)

BeginUpdate(q, r, c) ==
  /\ posting[q] = Idle
  /\ stamp < MaxStamp
  /\ stamp' = stamp + 1
  /\ Step(q, [op |-> "store", at |-> r, channel |-> c, date |-> stamp + 1,
              found |-> channels[c] # NoRow])
  /\ UNCHANGED <<channels, providers, fingerprint, raced>>

StoreChannel(q, on) ==
  /\ posting[q].op = "store"
  /\ posting[q].found \/ channels[posting[q].channel] = NoRow
  /\ channels' = [channels EXCEPT ![posting[q].channel] = [on |-> on, stamp |-> posting[q].date]]
  /\ raced' = IF \E c \in Present(channels) : channels[c].stamp > posting[q].date
              THEN Replicas ELSE raced
  /\ Step(q, [op |-> "fingerprint", at |-> posting[q].at])
  /\ UNCHANGED <<stamp, providers, fingerprint>>

RefuseInsert(q) ==
  /\ posting[q].op = "store"
  /\ ~posting[q].found /\ channels[posting[q].channel] # NoRow
  /\ Step(q, Idle)
  /\ UNCHANGED <<channels, stamp, providers, fingerprint, raced>>

\* Before a provider is used: reload if the table no longer has the fingerprint.
RefreshIfChanged(q, r) ==
  /\ posting[q] = Idle
  /\ ChannelFingerprint(channels) # fingerprint[r]
  /\ Step(q, [op |-> "fingerprint", at |-> r])
  /\ UNCHANGED <<channels, stamp, providers, fingerprint, raced>>

-----------------------------------------------------------------------------
(* init_providers: the fingerprint, the enabled channels, and then one     *)
(* provider after the other, and the fingerprint last.                     *)

Loading(q, r) == posting[q].op \in {"load", "swap"} /\ posting[q].at = r

TakeFingerprint(q) ==
  /\ posting[q].op = "fingerprint"
  /\ Step(q, [op |-> "load", at |-> posting[q].at, print |-> ChannelFingerprint(channels)])
  /\ raced' = raced \cup {r \in {posting[q].at} : \E p \in Requests : Loading(p, r)}
  /\ UNCHANGED <<channels, stamp, providers, fingerprint>>

LoadChannels(q) ==
  /\ posting[q].op = "load"
  /\ Step(q, [op |-> "swap", at |-> posting[q].at, print |-> posting[q].print,
              loaded |-> LoadedOf(channels), left |-> Channels])
  /\ UNCHANGED <<channels, stamp, providers, fingerprint, raced>>

SwapProvider(q, c) ==
  /\ posting[q].op = "swap"
  /\ c \in posting[q].left
  /\ providers' = [providers EXCEPT ![posting[q].at][c] = posting[q].loaded[c]]
  /\ Step(q, [posting[q] EXCEPT !.left = @ \ {c}])
  /\ UNCHANGED <<channels, stamp, fingerprint, raced>>

\* Mutant of the next: the fingerprint is taken after the channels were read.
KeepLatestFingerprint(q) ==
  /\ posting[q].op = "swap"
  /\ posting[q].left = {}
  /\ fingerprint' = [fingerprint EXCEPT ![posting[q].at] = ChannelFingerprint(channels)]
  /\ Step(q, Idle)
  /\ UNCHANGED <<channels, stamp, providers, raced>>

KeepFingerprint(q) ==
  /\ posting[q].op = "swap"
  /\ posting[q].left = {}
  /\ fingerprint' = [fingerprint EXCEPT ![posting[q].at] = posting[q].print]
  /\ Step(q, Idle)
  /\ UNCHANGED <<channels, stamp, providers, raced>>

\* A statement fails; an update only warns of it, and so does a refresh.
FailLoad(q) ==
  /\ posting[q].op \in {"store", "fingerprint", "load"}
  /\ Step(q, Idle)
  /\ UNCHANGED <<channels, stamp, providers, fingerprint, raced>>

Next ==
  \E q \in Requests :
    \/ \E r \in Replicas, c \in Channels : BeginUpdate(q, r, c)
    \/ \E on \in BOOLEAN : StoreChannel(q, on)
    \/ RefuseInsert(q)
    \/ \E r \in Replicas : RefreshIfChanged(q, r)
    \/ TakeFingerprint(q) \/ LoadChannels(q)
    \/ \E c \in Channels : SwapProvider(q, c)
    \/ KeepFingerprint(q) \/ FailLoad(q)

Spec == Init /\ [][Next]_notifyVars

-----------------------------------------------------------------------------
(* What administrators are shown.                                          *)

\* A type without a row reads as disabled.
ListChannels == [c \in Channels |-> channels[c].on]
\* A test goes out if the replica has the provider, after a refresh.
TestChannel(r, c) == providers[r][c] # Unloaded

-----------------------------------------------------------------------------
Prints == [count : 0 .. Cardinality(Channels), latest : 0 .. MaxStamp + 1]
Rows == [on : BOOLEAN, stamp : Stamps] \cup {NoRow}
Loads == [Channels -> Stamps \cup {Unloaded}]

\* Types of the variables.
TypeOK ==
  /\ channels \in [Channels -> Rows]
  /\ stamp \in Stamps
  /\ providers \in [Replicas -> Loads]
  /\ fingerprint \in [Replicas -> Prints]
  /\ raced \subseteq Replicas
  /\ \A q \in Requests :
       \/ posting[q] = Idle
       \/ posting[q] \in [op : {"store"}, at : Replicas, channel : Channels,
                          date : Stamps, found : BOOLEAN]
       \/ posting[q] \in [op : {"fingerprint"}, at : Replicas]
       \/ posting[q] \in [op : {"load"}, at : Replicas, print : Prints]
       \/ posting[q] \in [op : {"swap"}, at : Replicas, print : Prints,
                          loaded : Loads, left : SUBSET Channels]

\* The next refresh picks up every change: a replica that is not loading, and whose
\* fingerprint is that of the table, has loaded what the table says, though changes were
\* stored while it was loading ("Taken before loading so a concurrent change is picked up
\* by the next refresh"). Two loads at once in one replica, or changes that are stored in
\* another order than they are dated, can leave it with an old config: `raced`.
RefreshMissesNothing ==
  \A r \in Replicas \ raced :
    (fingerprint[r] = ChannelFingerprint(channels) /\ \A q \in Requests : ~Loading(q, r))
      => providers[r] = LoadedOf(channels)

\* Every step keeps it: unless dates are out of order, the table's last one grows with every
\* change that is stored, so a replica that has it loaded no other table.
Latest == ChannelFingerprint(channels).latest
Age(latest) == IF latest = Unloaded THEN 0 ELSE latest + 1
Swapping(q, r) == posting[q].op = "swap" /\ posting[q].at = r

TableKept ==
  /\ channels \in [Channels -> Rows] /\ stamp \in Stamps
  /\ \A c \in Present(channels) : channels[c].stamp <= stamp
  /\ providers \in [Replicas -> Loads] /\ DOMAIN fingerprint = Replicas
  /\ raced \subseteq Replicas
PostsKept ==
  /\ DOMAIN posting = Requests
  /\ \A q \in Requests :
       /\ posting[q].op # "idle" => posting[q].at \in Replicas
       /\ posting[q].op = "store" =>
            /\ posting[q].date \in 1 .. stamp /\ posting[q].channel \in Channels
            /\ \A c \in Channels : channels[c].stamp # posting[q].date
            /\ \A p \in Requests \ {q} :
                 posting[p].op = "store" => posting[p].date # posting[q].date
       /\ posting[q].op = "swap" =>
            posting[q] \in [op : {"swap"}, at : Replicas, print : {posting[q].print},
                           loaded : Loads, left : SUBSET Channels]
OrderKept ==
  raced # Replicas =>
    \/ Present(channels) = {}
    \/ \E c \in Present(channels) :
         \A d \in Present(channels) : channels[d].stamp <= channels[c].stamp
PrintsKept ==
  \A r \in Replicas \ raced :
    /\ fingerprint[r].latest \in Stamps \cup {Unloaded}
    /\ Age(fingerprint[r].latest) <= Age(Latest)
    /\ \A q \in Requests : Loading(q, r) =>
         /\ posting[q].print.latest \in Stamps \cup {Unloaded}
         /\ Age(posting[q].print.latest) <= Age(Latest)
LoadsKept ==
  \A r \in Replicas \ raced :
    /\ \A p, q \in Requests : Loading(p, r) /\ Loading(q, r) => p = q
    /\ \A q \in Requests : Swapping(q, r) =>
         /\ posting[q].print.latest = Latest => posting[q].loaded = LoadedOf(channels)
         /\ \A c \in Channels \ posting[q].left : providers[r][c] = posting[q].loaded[c]
    /\ (\A q \in Requests : ~Swapping(q, r)) /\ fingerprint[r].latest = Latest =>
         providers[r] = LoadedOf(channels)

ChannelsInv == TableKept /\ PostsKept /\ OrderKept /\ PrintsKept /\ LoadsKept
=============================================================================
