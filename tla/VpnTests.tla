------------------------------- MODULE VpnTests -------------------------------
(***************************************************************************)
(* Testing a VPN provider: a Secret with its credentials and a Gluetun Pod *)
(* that reads it are created for one request, and deleted by it.  Each     *)
(* call of the Kubernetes API can fail, or be applied although its answer  *)
(* is lost; the request itself can be dropped at any await.  The provider  *)
(* is edited in between.                                                   *)
(***************************************************************************)
EXTENDS Naturals

CONSTANTS
  Callers,    \* requests that test the provider
  Absent,     \* no provider, no Secret, no Pod
  MaxEdits    \* bound: edits of the provider

VARIABLES
  vpn,        \* the provider: its type, its credentials, enabled; or Absent
  step,       \* how far each request is
  secretOf,   \* the Secret of each test: the fields in it, or Absent
  podOf,      \* the Pod of each: "pending", "ready", "failed" or Absent
  answer,     \* what each request is answered
  excused,    \* requests with a call that failed to delete, or whose answer was lost
  edited      \* edits made so far

testVars == <<vpn, step, secretOf, podOf, answer, excused, edited>>
made == <<secretOf, podOf>>

-----------------------------------------------------------------------------
(* Credentials *)

VpnTypes == {"wireguard", "openvpn"}

\* Fields a type can have, and those it must.
FieldsOf(type) ==
  IF type = "wireguard" THEN {"private_key", "addresses"}
  ELSE {"username", "password", "server_countries"}

Valid(type, credentials) ==
  IF type = "wireguard" THEN "private_key" \in credentials
  ELSE {"username", "password"} \subseteq credentials

\* The Secret's fields: the type, and the credentials that the type knows.
WireguardData(credentials) == credentials \cap FieldsOf("wireguard")
OpenvpnData(credentials) == credentials \cap FieldsOf("openvpn")
Row(type, credentials, enabled) ==
  [type |-> type, credentials |-> credentials, enabled |-> enabled]
SecretData(p) ==
  {p.type} \cup IF p.type = "wireguard" THEN WireguardData(p.credentials)
                ELSE OpenvpnData(p.credentials)

AnyCredentials == SUBSET (FieldsOf("wireguard") \cup {"username", "password"})

\* Absent is not a Secret, nor what a Pod is in.
AbsentAssumption ==
  /\ \A type \in VpnTypes, c \in AnyCredentials : SecretData(Row(type, c, TRUE)) # Absent
  /\ Absent \notin {"pending", "ready", "failed"}

Edit == edited < MaxEdits /\ edited' = edited + 1

CreateProvider(type, credentials) ==
  /\ Edit /\ vpn = Absent
  /\ Valid(type, credentials)
  /\ vpn' = Row(type, credentials, TRUE)
  /\ UNCHANGED <<step, made, answer, excused>>

\* New credentials have to fit the stored type, which stays.
UpdateProvider(credentials, enabled) ==
  /\ Edit /\ vpn # Absent
  /\ Valid(vpn.type, credentials)
  /\ vpn' = Row(vpn.type, credentials, enabled)
  /\ UNCHANGED <<step, made, answer, excused>>

\* It is assigned to no app.
DeleteProvider ==
  /\ Edit /\ vpn # Absent
  /\ vpn' = Absent
  /\ UNCHANGED <<step, made, answer, excused>>

-----------------------------------------------------------------------------
(* A test *)

Go(t, s) == step' = [step EXCEPT ![t] = s]
Excuse(t) == excused' = excused \cup {t}
Result(t, r) == answer' = [answer EXCEPT ![t] = r]

\* Any end of a request before its Pod was asked is an error.
Fail(t, s) == Go(t, s) /\ Result(t, "error")

Begin(t) ==
  /\ step[t] = "idle"
  /\ IF vpn # Absent /\ vpn.enabled
     THEN Go(t, "secret") /\ UNCHANGED answer
     ELSE Fail(t, "answered")
  /\ UNCHANGED <<vpn, made, excused, edited>>

\* The provider is read again, whether it is enabled is not.
CreateSecret(t) ==
  /\ step[t] = "secret"
  /\ vpn # Absent
  /\ secretOf' = [secretOf EXCEPT ![t] = SecretData(vpn)]
  /\ \/ Go(t, "pod") /\ UNCHANGED <<answer, excused>>
     \/ Fail(t, "answered") /\ Excuse(t)
  /\ UNCHANGED <<vpn, podOf, edited>>

RefuseSecret(t) ==
  /\ step[t] = "secret"
  /\ Fail(t, "answered")
  /\ UNCHANGED <<vpn, made, excused, edited>>

CreatePod(t) ==
  /\ step[t] = "pod"
  /\ podOf' = [podOf EXCEPT ![t] = "pending"]
  /\ \/ Go(t, "wait") /\ UNCHANGED <<answer, excused>>
     \/ Fail(t, "drop secret") /\ Excuse(t)
  /\ UNCHANGED <<vpn, secretOf, edited>>

RefusePod(t) ==
  /\ step[t] = "pod"
  /\ Fail(t, "drop secret")
  /\ UNCHANGED <<vpn, made, excused, edited>>

\* The kubelet: a Pod starts once its Secret is there, becomes ready, or fails.
PodRuns(t, phase) ==
  /\ podOf[t] = "pending" /\ phase \in {"ready", "failed"}
  /\ secretOf[t] # Absent
  /\ podOf' = [podOf EXCEPT ![t] = phase]
  /\ UNCHANGED <<vpn, step, secretOf, answer, excused, edited>>

\* The Pod is polled until it is ready; it failed, cannot be read, or time is up.
WaitForPod(t) ==
  /\ step[t] = "wait"
  /\ \/ podOf[t] = "ready" /\ Go(t, "query") /\ UNCHANGED answer
     \/ Fail(t, "drop pod")
  /\ UNCHANGED <<vpn, made, excused, edited>>

\* Gluetun answers with an address, or with an error, or too late.
QueryPublicIp(t) ==
  /\ step[t] = "query"
  /\ Go(t, "drop pod")
  /\ \/ podOf[t] = "ready" /\ Result(t, "success")
     \/ Result(t, "error")
  /\ UNCHANGED <<vpn, made, excused, edited>>

\* Mutant of DropPod: a Pod that fails, or is late, is deleted but its Secret forgotten.
ForgetSecret(t) ==
  /\ step[t] = "drop pod"
  /\ IF answer[t] = "error" THEN Go(t, "answered") ELSE Go(t, "drop secret")
  /\ \/ podOf' = [podOf EXCEPT ![t] = Absent] /\ UNCHANGED excused
     \/ Excuse(t) /\ UNCHANGED podOf
  /\ UNCHANGED <<vpn, secretOf, answer, edited>>

\* A deletion that fails is logged, and the next one made.
DropPod(t) ==
  /\ step[t] = "drop pod"
  /\ Go(t, "drop secret")
  /\ \/ podOf' = [podOf EXCEPT ![t] = Absent] /\ UNCHANGED excused
     \/ Excuse(t) /\ UNCHANGED podOf
  /\ UNCHANGED <<vpn, secretOf, answer, edited>>

DropSecret(t) ==
  /\ step[t] = "drop secret"
  /\ Go(t, "answered")
  /\ \/ secretOf' = [secretOf EXCEPT ![t] = Absent] /\ UNCHANGED excused
     \/ Excuse(t) /\ UNCHANGED secretOf
  /\ UNCHANGED <<vpn, podOf, answer, edited>>

\* The browser goes away, or the backend: what was made stays.
Interrupt(t) ==
  /\ step[t] \notin {"idle", "answered", "gone"}
  /\ Go(t, "gone")
  /\ Result(t, "none")
  /\ UNCHANGED <<vpn, made, excused, edited>>

-----------------------------------------------------------------------------
Init ==
  /\ vpn \in {Row("wireguard", {"private_key"}, TRUE), Row("openvpn", {"username", "password"}, TRUE)}
  /\ step = [t \in Callers |-> "idle"]
  /\ secretOf = [t \in Callers |-> Absent]
  /\ podOf = [t \in Callers |-> Absent]
  /\ answer = [t \in Callers |-> "none"]
  /\ excused = {}
  /\ edited = 0

Next ==
  \/ \E type \in VpnTypes, c \in AnyCredentials : CreateProvider(type, c)
  \/ \E c \in AnyCredentials, e \in BOOLEAN : UpdateProvider(c, e)
  \/ DeleteProvider
  \/ \E t \in Callers :
       \/ Begin(t) \/ CreateSecret(t) \/ RefuseSecret(t) \/ CreatePod(t) \/ RefusePod(t)
       \/ WaitForPod(t) \/ QueryPublicIp(t) \/ DropPod(t) \/ DropSecret(t) \/ Interrupt(t)
       \/ \E phase \in {"ready", "failed"} : PodRuns(t, phase)

Spec == Init /\ [][Next]_testVars

-----------------------------------------------------------------------------
(* Correctness *)

TypeOK ==
  /\ vpn = Absent \/ (vpn.type \in VpnTypes /\ vpn.credentials \in AnyCredentials
                      /\ vpn.enabled \in BOOLEAN)
  /\ step \in [Callers -> {"idle", "secret", "pod", "wait", "query", "drop pod",
                         "drop secret", "answered", "gone"}]
  /\ \A t \in Callers : secretOf[t] # Absent => secretOf[t] \subseteq VpnTypes \cup
                                                UNION {FieldsOf(v) : v \in VpnTypes}
  /\ \A t \in Callers : podOf[t] \in {Absent, "pending", "ready", "failed"}
  /\ answer \in [Callers -> {"none", "error", "success"}]
  /\ excused \subseteq Callers
  /\ edited \in 0 .. MaxEdits

\* Whatever is left in the cluster, a Pod or credentials, is of a test that is under way,
\* that was dropped, or one of whose calls failed: every other way to end cleans up.
TestsLeaveNothing ==
  \A t \in Callers :
    step[t] = "answered" /\ t \notin excused => podOf[t] = Absent /\ secretOf[t] = Absent

\* A Pod that a request still waits for can start: its Secret is there, and has what its
\* VPN type needs, whatever was done to the provider meanwhile.
WaitedPodsCanStart ==
  \A t \in Callers :
    step[t] \in {"pod", "wait", "query"} =>
      /\ secretOf[t] # Absent
      /\ \E type \in VpnTypes : type \in secretOf[t] /\ Valid(type, secretOf[t])

TestsAreTidy == TestsLeaveNothing /\ WaitedPodsCanStart

-----------------------------------------------------------------------------
(* Why it holds: the invariant that is inductive.                          *)

\* The provider is complete; a request has nothing before it creates it, and nothing that
\* it deleted, unless a call failed.
TestsInv ==
  /\ vpn = Absent \/ \E type \in VpnTypes, c \in AnyCredentials, e \in BOOLEAN :
                       vpn = Row(type, c, e) /\ Valid(type, c)
  /\ DOMAIN step = Callers /\ DOMAIN secretOf = Callers /\ DOMAIN podOf = Callers
  /\ DOMAIN answer = Callers
  /\ \A t \in Callers :
       /\ step[t] \in {"idle", "secret", "pod"} => podOf[t] = Absent
       /\ step[t] \in {"idle", "secret"} => secretOf[t] = Absent
       /\ step[t] = "drop secret" /\ t \notin excused => podOf[t] = Absent
  /\ TestsAreTidy

=============================================================================
