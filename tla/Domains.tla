------------------------------- MODULE Domains -------------------------------
(***************************************************************************)
(* The domains an administrator configures, and the reconciler of the      *)
(* leading worker, which works from rows it read before slow calls to DNS  *)
(* providers and to Kubernetes.  Nothing here runs in a transaction: every *)
(* handler reads, checks and writes row by row.  A domain that is disabled *)
(* is one with manual DNS and a manual certificate; which app a domain is  *)
(* assigned to, and its host names, are left out.                          *)
(***************************************************************************)
EXTENDS Naturals, FiniteSets

CONSTANTS
  DomainIds, \* domains
  Editors,   \* requests that can be in flight
  Tokens,    \* credentials of the provider
  MaxEdits,  \* requests that are made (bound)
  MaxPasses  \* passes of the reconciler (bound)

NoDomain == [dns |-> "none"]
Redacted == "__redacted__"
NoToken == "none"
Profiles == {"ddns", "le"}

TokensAssumption == {NoToken, Redacted} \cap Tokens = {}

VARIABLES
  domains,  \* the rows
  stored,   \* what the last request that stored a row asked for
  profiles, \* the provider's and the certificate's profile, as far as they are there
  token,    \* the credential in the provider's profile
  dropped,  \* whether a request ever stored that profile without one
  filing,   \* the requests
  edits, passes,
  pass      \* the reconciler: what it has to do, from rows as it read them

domainVars == <<domains, stored, profiles, token, dropped, filing, edits, passes, pass>>

Idle == [op |-> "idle"]

\* What a request asks for: validate_domain's combinations, as far as the reconciler tells
\* them apart.
Asked == {[primary |-> p, dns |-> d, tls |-> t,
           secret |-> IF t = "manual" THEN "own" ELSE "unset"] :
            p \in BOOLEAN, d \in {"manual", "dynamic_dns"}, t \in {"manual", "letsencrypt"}}
Fields(a) ==
  [primary |-> a.primary, dns |-> a.dns, tls |-> a.tls, secret |-> a.secret,
   ddns |-> a.dns = "dynamic_dns", le |-> a.tls = "letsencrypt"]
NewRow(a) ==
  [f \in {"primary", "dns", "tls", "secret", "ddns", "le", "dns_status", "certificate_status"} |->
     IF f \in DOMAIN Fields(a) THEN Fields(a)[f] ELSE "unknown"]

\* There may be a domain already.
Init ==
  /\ \E a \in Asked, D \in SUBSET DomainIds :
       /\ Cardinality(D) <= 1
       /\ domains = [d \in DomainIds |-> IF d \in D THEN NewRow(a) ELSE NoDomain]
       /\ stored = [d \in DomainIds |-> IF d \in D THEN a ELSE NoDomain]
  /\ profiles = Profiles
  /\ token \in Tokens
  /\ dropped = FALSE
  /\ filing = [e \in Editors |-> Idle]
  /\ edits = 0 /\ passes = 0
  /\ pass = Idle

Rows == {d \in DomainIds : domains[d] # NoDomain}
Set(e, r) == filing' = [filing EXCEPT ![e] = r]
Begin(e, r) == filing[e] = Idle /\ edits < MaxEdits /\ edits' = edits + 1 /\ Set(e, r)

\* Mutant of the next: the row is saved as it was read.
SaveModel(row, read, set) == [f \in DOMAIN row |-> IF f \in DOMAIN set THEN set[f] ELSE read[f]]

\* An update of a model that was read writes the columns that were set.
UpdateModel(row, read, set) == [f \in DOMAIN row |-> IF f \in DOMAIN set THEN set[f] ELSE row[f]]

-----------------------------------------------------------------------------
(* create_domain and update_domain: the request is checked, then every     *)
(* domain that is primary is made not to be, then the row is written.  The *)
(* foreign keys and the unique name are checked by the database; a row     *)
(* that is gone cannot be updated.                                         *)

BeginPut(e, d, a) ==
  /\ a.tls = "letsencrypt" => "le" \in profiles
  /\ Begin(e, [op |-> "put", id |-> d, asked |-> a, new |-> domains[d] = NoDomain, clear |-> {},
               found |-> ~a.primary])
  /\ UNCHANGED <<domains, stored, profiles, token, dropped, passes, pass>>

FindPrimary(e) ==
  /\ filing[e].op = "put" /\ ~filing[e].found
  /\ Set(e, [filing[e] EXCEPT !.found = TRUE,
               !.clear = {<<d, domains[d]>> : d \in {x \in Rows : domains[x].primary}}])
  /\ UNCHANGED <<domains, stored, profiles, token, dropped, edits, passes, pass>>

ClearPrimary(e) ==
  /\ filing[e].op = "put"
  /\ \E c \in filing[e].clear :
       IF c[1] \in Rows
       THEN /\ domains' = [domains EXCEPT ![c[1]] =
                             UpdateModel(@, c[2], [primary |-> FALSE])]
            /\ Set(e, [filing[e] EXCEPT !.clear = @ \ {c}])
       ELSE Set(e, Idle) /\ UNCHANGED domains
  /\ UNCHANGED <<stored, profiles, token, dropped, edits, passes, pass>>

Storable(e) ==
  /\ filing[e].new <=> filing[e].id \notin Rows
  /\ filing[e].asked.tls = "letsencrypt" => "le" \in profiles
  /\ filing[e].asked.dns = "dynamic_dns" => "ddns" \in profiles

StorePut(e) ==
  /\ filing[e].op = "put" /\ filing[e].found /\ filing[e].clear = {}
  /\ LET d == filing[e].id
         a == filing[e].asked
     IN IF Storable(e)
        THEN /\ domains' = [domains EXCEPT ![d] = IF filing[e].new THEN NewRow(a)
                                                  ELSE UpdateModel(@, @, Fields(a))]
             /\ stored' = [stored EXCEPT ![d] = a]
        ELSE UNCHANGED <<domains, stored>>
  /\ Set(e, Idle)
  /\ UNCHANGED <<profiles, token, dropped, edits, passes, pass>>

DeleteDomain(e, d) ==
  /\ d \in Rows
  /\ filing[e] = Idle /\ edits < MaxEdits /\ edits' = edits + 1
  /\ domains' = [domains EXCEPT ![d] = NoDomain]
  /\ UNCHANGED <<stored, profiles, token, dropped, filing, passes, pass>>

(* A profile is deleted after a look for a user of it: a Let's Encrypt     *)
(* profile by a domain, a DNS profile by a Let's Encrypt profile (here: by *)
(* none).  The foreign keys of the rows become null.                       *)
BeginDeleteProfile(e, p) ==
  /\ p \in profiles
  /\ p = "le" => \A d \in Rows : ~domains[d].le
  /\ Begin(e, [op |-> "delete_profile", profile |-> p])
  /\ UNCHANGED <<domains, stored, profiles, token, dropped, passes, pass>>

CommitDeleteProfile(e) ==
  /\ filing[e].op = "delete_profile"
  /\ profiles' = profiles \ {filing[e].profile}
  /\ domains' = [d \in DomainIds |-> IF d \in Rows
                               THEN [domains[d] EXCEPT ![filing[e].profile] = FALSE]
                               ELSE NoDomain]
  /\ Set(e, Idle)
  /\ UNCHANGED <<stored, token, dropped, edits, passes, pass>>

(* update_ddns_profile: the form shows the credential redacted; sent back  *)
(* like that, the one that is stored stays.                                *)

\* Mutant of the next: the form is stored as it was sent.
ConfigAsSent(sent, existing) == sent

MergeConfig(sent, existing) ==
  IF sent = Redacted /\ existing # NoToken THEN existing ELSE sent

\* get_ddns_profile, for the form.
GetProfile(e) ==
  /\ "ddns" \in profiles
  /\ Begin(e, [op |-> "form", shown |-> IF token = NoToken THEN NoToken ELSE Redacted])
  /\ UNCHANGED <<domains, stored, profiles, token, dropped, passes, pass>>

BeginPutProfile(e, t) ==
  /\ filing[e].op = "form" /\ "ddns" \in profiles
  /\ t \in Tokens \cup {NoToken, filing[e].shown}
  /\ Set(e, [op |-> "put_profile", sent |-> t, stored |-> MergeConfig(t, token)])
  /\ UNCHANGED <<domains, stored, profiles, token, dropped, edits, passes, pass>>

StoreProfile(e) ==
  /\ filing[e].op = "put_profile"
  /\ IF "ddns" \in profiles
     THEN /\ token' = filing[e].stored
          /\ dropped' = (dropped \/ filing[e].stored = NoToken)
     ELSE UNCHANGED <<token, dropped>>
  /\ Set(e, Idle)
  /\ UNCHANGED <<domains, stored, profiles, edits, passes, pass>>

-----------------------------------------------------------------------------
(* A pass of the reconciler: the DNS records of the domains it read, then  *)
(* the certificates of those it reads next.  The call for one domain fails *)
(* on its own; an update of a row that is gone ends the pass.  Which       *)
(* status it reports, and what it finds out about a profile, is left out.  *)

Snapshot(column, value) == {<<d, domains[d]>> : d \in {x \in Rows : domains[x][column] = value}}

BeginPass ==
  /\ pass = Idle /\ passes < MaxPasses
  /\ passes' = passes + 1
  /\ \E reachable \in BOOLEAN :   \* whether the public address is found out
       pass' = [op |-> "dns", todo |-> IF reachable THEN Snapshot("dns", "dynamic_dns") ELSE {}]
  /\ UNCHANGED <<domains, stored, profiles, token, dropped, filing, edits>>

Report(s, set) ==
  IF s[1] \in Rows
  THEN /\ domains' = [domains EXCEPT ![s[1]] = UpdateModel(@, s[2], set)]
       /\ pass' = [pass EXCEPT !.todo = @ \ {s}]
  ELSE pass' = Idle /\ UNCHANGED domains

ReconcileRecord ==
  /\ pass.op = "dns"
  /\ \E s \in pass.todo : Report(s, [dns_status |-> "reported"])
  /\ UNCHANGED <<stored, profiles, token, dropped, filing, edits, passes>>

BeginCertificates ==
  /\ pass.op = "dns" /\ pass.todo = {}
  /\ pass' = [op |-> "certificates", todo |-> Snapshot("tls", "letsencrypt")]
  /\ UNCHANGED <<domains, stored, profiles, token, dropped, filing, edits, passes>>

\* The issuer and the certificate are applied, or not: the profile is disabled or gone,
\* cert-manager is missing, or Kubernetes refuses.
ReconcileCertificate ==
  /\ pass.op = "certificates"
  /\ \E s \in pass.todo :
       \/ /\ s[2].le /\ "le" \in profiles
          /\ Report(s, [certificate_status |-> "reported", secret |-> "issued"])
       \/ Report(s, [certificate_status |-> "reported"])
  /\ UNCHANGED <<stored, profiles, token, dropped, filing, edits, passes>>

EndPass ==
  /\ pass.op = "certificates" /\ pass.todo = {}
  /\ pass' = Idle
  /\ UNCHANGED <<domains, stored, profiles, token, dropped, filing, edits, passes>>

Next ==
  \/ \E e \in Editors :
       \/ \E d \in DomainIds : (\E a \in Asked : BeginPut(e, d, a)) \/ DeleteDomain(e, d)
       \/ FindPrimary(e) \/ ClearPrimary(e) \/ StorePut(e)
       \/ \E p \in Profiles : BeginDeleteProfile(e, p)
       \/ CommitDeleteProfile(e)
       \/ GetProfile(e)
       \/ \E t \in Tokens \cup {NoToken, Redacted} : BeginPutProfile(e, t)
       \/ StoreProfile(e)
  \/ BeginPass \/ ReconcileRecord \/ BeginCertificates \/ ReconcileCertificate \/ EndPass

Spec == Init /\ [][Next]_domainVars

-----------------------------------------------------------------------------
\* Types of the variables.
Row == [primary : BOOLEAN, dns : {"manual", "dynamic_dns"}, tls : {"manual", "letsencrypt"},
        secret : {"own", "unset", "issued"}, ddns : BOOLEAN, le : BOOLEAN,
        dns_status : {"unknown", "reported"},
        certificate_status : {"unknown", "reported"}]
TypeOK ==
  /\ domains \in [DomainIds -> Row \cup {NoDomain}]
  /\ stored \in [DomainIds -> Asked \cup {NoDomain}]
  /\ profiles \subseteq Profiles
  /\ token \in Tokens \cup {NoToken, Redacted} /\ dropped \in BOOLEAN
  /\ edits \in 0 .. MaxEdits /\ passes \in 0 .. MaxPasses
  /\ pass = Idle \/ (pass.op \in {"dns", "certificates"} /\ pass.todo \subseteq DomainIds \X Row)
  /\ \A e \in Editors :
       filing[e].op \in {"idle", "put", "delete_profile", "form", "put_profile"}

\* Rows keep what was asked for, but for a later primary and for the name of the Secret a
\* certificate was put in.
RowsAsStored ==
  \A d \in Rows :
    /\ domains[d].dns = stored[d].dns /\ domains[d].tls = stored[d].tls
    /\ domains[d].primary => stored[d].primary
    /\ domains[d].secret \in {stored[d].secret, "issued"}
    /\ domains[d].ddns => stored[d].dns = "dynamic_dns"
    /\ domains[d].le => stored[d].tls = "letsencrypt"

\* The placeholder is stored only after a request had stored the profile without a token.
TokenAsTyped == token = Redacted => dropped

\* What an administrator stored stays: the reconciler, which writes from rows that an
\* edit may have changed since, and a request that takes "primary" away, touch no more than
\* their own columns; and a form that is sent back redacted costs no credential.
EditsSurvive == RowsAsStored /\ TokenAsTyped

\* Every step keeps it: a request has what validate_domain lets pass, and the placeholder
\* comes only from a form that showed a credential, which is dropped when it is gone.
DomainsInv ==
  /\ domains \in [DomainIds -> Row \cup {NoDomain}]
  /\ DOMAIN stored = DomainIds /\ DOMAIN filing = Editors
  /\ \A e \in Editors :
       /\ filing[e].op = "put" =>
            /\ {"op", "id", "asked"} \subseteq DOMAIN filing[e]
            /\ filing[e].id \in DomainIds /\ filing[e].asked \in Asked
       /\ filing[e].op = "delete_profile" => filing[e].profile \in Profiles
       /\ filing[e].op = "put_profile" => (filing[e].stored = Redacted => dropped)
  /\ dropped \in BOOLEAN
  /\ token = NoToken => dropped
  /\ EditsSurvive
=============================================================================
