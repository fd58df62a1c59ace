---------------------------- MODULE StorageValidation ----------------------------
(***************************************************************************)
(* Validations of a storage configuration: each claims the export in two   *)
(* namespaces of its own, writes a file from the one and reads it from the *)
(* other.  Those of one export share its directory; servers go away, and   *)
(* the managed server moves to another node while one runs.                *)
(***************************************************************************)
EXTENDS Naturals

CONSTANTS
  Validations,  \* by their random id
  Servers,      \* external servers, each with its export
  Machines,     \* that can run the managed server
  Nobody,       \* no file, no server
  MaxTroubles   \* bound: servers that go, moves and calls that fail

\* No server has another's address, and nobody's id is not one.
ServersAssumption ==
  /\ Servers \cap (Machines \cup {"managed", Nobody}) = {}
  /\ Nobody \notin Machines \cup Validations \cup {"managed"}

VARIABLES
  asked,     \* of each validation: an external server, or "managed"
  step,      \* of each
  volumes,   \* of each validation and side: the server of its volume, or Nobody
  claims,    \* the namespaces that are there, with their claim
  files,     \* of each export: whether the directory is there, and the id in its two files
  up,        \* external servers that answer
  node,      \* where the managed server runs
  troubles,  \* so far
  verdict,   \* of each: "none", "passed", "failed"
  excused    \* ghost: validations that met a trouble, or another one of their export

validationVars == <<asked, step, volumes, claims, files, up, node, troubles, verdict, excused>>
world == <<asked, files, up, node, troubles>>

Sides == {"a", "b"}
Exports == Servers \cup {"managed"}
Empty == [dir |-> FALSE, shared |-> Nobody, renamed |-> Nobody]
Running(v) == step[v] \notin {"idle", "clean_a", "clean_b", "done"}
To(v, next) == step' = [step EXCEPT ![v] = next]

\* What is behind the address in a volume: a node that the managed server has left has nothing.
Export(server) ==
  CASE server \in up -> server
    [] server \in Machines /\ server = node -> "managed"
    [] OTHER -> Nobody

\* Whoever validates the same export at the same time.
Crossed(v) == {w \in Validations \ {v} : Running(w) /\ asked[w] = asked[v]}
Meets(vs) == excused' = excused \cup vs

Trouble == troubles < MaxTroubles /\ troubles' = troubles + 1

-----------------------------------------------------------------------------

ValidateStorage(v) ==
  /\ step[v] = "idle" /\ To(v, "claim_a")
  /\ Meets(IF Crossed(v) = {} THEN {} ELSE Crossed(v) \cup {v})
  /\ UNCHANGED <<world, volumes, claims, verdict>>

\* ensure_media_pvc_for_namespace: the volume has the server's address of this moment.
EnsureClaim(v, side, at, next) ==
  /\ step[v] = at /\ To(v, next)
  /\ volumes' = [volumes EXCEPT ![v][side] = IF asked[v] = "managed" THEN node ELSE asked[v]]
  /\ claims' = claims \cup {<<v, side>>}
  /\ UNCHANGED <<world, verdict, excused>>

\* The export that the Pod of the step has mounted.
Mounted(v) == Export(volumes[v][IF step[v] = "read" THEN "b" ELSE "a"])
others == <<asked, volumes, claims, up, node, troubles, excused>>
InPod(v, s) == step[v] = s /\ Mounted(v) # Nobody /\ UNCHANGED others

Refused(v) ==
  /\ verdict' = [verdict EXCEPT ![v] = "failed"] /\ To(v, "clean_a")
  /\ UNCHANGED files

\* Mutant of MakeDirectory: the directory must not be there.
MakeNewDirectory(v) ==
  LET e == Mounted(v)
  IN /\ InPod(v, "mkdir")
     /\ IF files[e].dir THEN Refused(v)
        ELSE /\ files' = [files EXCEPT ![e] = [Empty EXCEPT !.dir = TRUE]]
             /\ To(v, "write") /\ UNCHANGED verdict

\* What earlier validations left is removed.
MakeDirectory(v) ==
  /\ InPod(v, "mkdir")
  /\ files' = [files EXCEPT ![Mounted(v)] = [Empty EXCEPT !.dir = TRUE]]
  /\ To(v, "write") /\ UNCHANGED verdict

WriteFile(v) ==
  LET e == Mounted(v)
  IN /\ InPod(v, "write")
     /\ IF ~files[e].dir THEN Refused(v)
        ELSE /\ files' = [files EXCEPT ![e].shared = v]
             /\ To(v, "move") /\ UNCHANGED verdict

MoveFile(v) ==
  LET e == Mounted(v)
  IN /\ InPod(v, "move")
     /\ IF files[e].shared # v THEN Refused(v)
        ELSE /\ files' = [files EXCEPT ![e].shared = Nobody, ![e].renamed = v]
             /\ To(v, "leave") /\ UNCHANGED verdict

\* The file for the other Pod.
LeaveFile(v) ==
  LET e == Mounted(v)
  IN /\ InPod(v, "leave")
     /\ IF files[e].renamed # v THEN Refused(v)
        ELSE /\ files' = [files EXCEPT ![e].shared = v, ![e].renamed = Nobody]
             /\ To(v, "read") /\ UNCHANGED verdict

\* The directory goes, too, if it is empty.
ReadFile(v) ==
  LET e == Mounted(v)
  IN /\ InPod(v, "read")
     /\ IF files[e].shared # v THEN Refused(v)
        ELSE /\ files' = [files EXCEPT ![e].shared = Nobody, ![e].dir = files[e].renamed # Nobody]
             /\ verdict' = [verdict EXCEPT ![v] = "passed"] /\ To(v, "clean_a")

\* run_validation_pod: three minutes without an end.
TimeOut(v) ==
  /\ step[v] \in {"mkdir", "write", "move", "leave", "read"} /\ Mounted(v) = Nobody
  /\ Refused(v) /\ UNCHANGED others

\* A call of the Kubernetes API, or Helm, fails.
FailCall(v) ==
  /\ Trouble /\ Running(v)
  /\ Refused(v) /\ Meets({v})
  /\ UNCHANGED <<asked, volumes, claims, up, node>>

\* Whatever the validation said; a call that fails is passed over.
CleanUp(v, side, at, next) ==
  /\ step[v] = at /\ To(v, next)
  /\ \/ /\ claims' = claims \ {<<v, side>>}
        /\ volumes' = [volumes EXCEPT ![v][side] = Nobody]
        /\ UNCHANGED <<troubles, excused>>
     \/ Trouble /\ Meets({v}) /\ UNCHANGED <<claims, volumes>>
  /\ UNCHANGED <<asked, files, up, node, verdict>>

-----------------------------------------------------------------------------

\* Everybody who runs has met it.
ServerGoes(s) ==
  /\ Trouble /\ up' = up \ {s} /\ s \in up
  /\ Meets({v \in Validations : Running(v) /\ asked[v] = s})
  /\ UNCHANGED <<asked, step, volumes, claims, files, node, verdict>>

ServerMoves ==
  /\ Trouble /\ node' \in Machines \ {node}
  /\ Meets({v \in Validations : Running(v) /\ asked[v] = "managed"})
  /\ UNCHANGED <<asked, step, volumes, claims, files, up, verdict>>

Init ==
  /\ asked \in [Validations -> Exports]
  /\ step = [v \in Validations |-> "idle"]
  /\ volumes = [v \in Validations |-> [s \in Sides |-> Nobody]]
  /\ claims = {} /\ files = [e \in Exports |-> Empty]
  /\ up = Servers /\ node \in Machines /\ troubles = 0
  /\ verdict = [v \in Validations |-> "none"]
  /\ excused = {}

Next ==
  \/ \E v \in Validations :
       \/ ValidateStorage(v)
       \/ EnsureClaim(v, "a", "claim_a", "claim_b") \/ EnsureClaim(v, "b", "claim_b", "mkdir")
       \/ MakeDirectory(v) \/ WriteFile(v) \/ MoveFile(v) \/ LeaveFile(v) \/ ReadFile(v)
       \/ TimeOut(v) \/ FailCall(v)
       \/ CleanUp(v, "a", "clean_a", "clean_b") \/ CleanUp(v, "b", "clean_b", "done")
  \/ \E s \in Servers : ServerGoes(s)
  \/ ServerMoves

Spec == Init /\ [][Next]_validationVars

-----------------------------------------------------------------------------
TypeOK ==
  /\ asked \in [Validations -> Exports]
  /\ verdict \in [Validations -> {"none", "passed", "failed"}]
  /\ volumes \in [Validations -> [Sides -> Servers \cup Machines \cup {Nobody}]]
  /\ claims \subseteq Validations \X Sides /\ excused \subseteq Validations

\* A validation fails only for a trouble, a server that is not there, or another validation of
\* the export at the same time, never for what an earlier one left in the directory
\* (storage_config.rs:648); what it made in the cluster and on the export is gone when it has
\* answered, whatever it said (storage_config.rs:629).
ValidationTells ==
  \A v \in Validations \ excused :
    /\ verdict[v] = "failed" => asked[v] \notin up \cup {"managed"}
    /\ step[v] = "done" =>
         /\ \A s \in Sides : <<v, s>> \notin claims /\ volumes[v][s] = Nobody
         /\ verdict[v] = "passed" =>
              \A e \in Exports : v \notin {files[e].shared, files[e].renamed}

-----------------------------------------------------------------------------
(* Why it holds: the invariant that is inductive.                          *)

Working == {"mkdir", "write", "move", "leave", "read"}
Steps == {"idle", "claim_a", "claim_b", "clean_a", "clean_b", "done"} \cup Working
Files == [dir : BOOLEAN, shared : Validations \cup {Nobody}, renamed : Validations \cup {Nobody}]

\* Addresses a volume of v can have, and the one it has if nothing happened since.
Addresses(v) == IF asked[v] = "managed" THEN Machines ELSE {asked[v]}
Address(v) == IF asked[v] = "managed" THEN node ELSE asked[v]

\* A validation mounts and writes no other export than the one it is about.
ExportsApart ==
  \A v \in Validations :
    /\ \A s \in Sides : volumes[v][s] \in Addresses(v) \cup {Nobody}
    /\ \A e \in Exports : v \in {files[e].shared, files[e].renamed} => e = asked[v]

\* Who met no trouble is alone with its export while it runs, has the current address of a
\* server that answered, and finds its files where it left them.
Undisturbed ==
  \A v \in Validations \ excused :
    /\ Running(v) => (\A w \in Validations : Running(w) /\ asked[w] = asked[v] => w = v)
    /\ step[v] \in Working \cup {"claim_b"} => volumes[v]["a"] = Address(v)
    /\ step[v] \in Working => volumes[v]["b"] = Address(v)
    /\ step[v] \in Working \ {"mkdir"} => asked[v] \in up \cup {"managed"}
    /\ step[v] = "write" => files[asked[v]].dir
    /\ files[asked[v]].shared = v <=> step[v] \in {"move", "read"}
    /\ files[asked[v]].renamed = v <=> step[v] = "leave"

\* What it claimed goes in the order in which it is deleted.
CleanedUp ==
  \A v \in Validations \ excused :
    /\ step[v] \in {"clean_b", "done"} => <<v, "a">> \notin claims /\ volumes[v]["a"] = Nobody
    /\ step[v] = "done" => <<v, "b">> \notin claims /\ volumes[v]["b"] = Nobody

ValidationInv ==
  /\ asked \in [Validations -> Exports] /\ step \in [Validations -> Steps]
  /\ volumes \in [Validations -> [Sides -> Servers \cup Machines \cup {Nobody}]]
  /\ files \in [Exports -> Files] /\ verdict \in [Validations -> {"none", "passed", "failed"}]
  /\ up \subseteq Servers /\ node \in Machines
  /\ ExportsApart /\ Undisturbed /\ CleanedUp
  /\ \A v \in Validations \ excused :
       verdict[v] = "failed" => asked[v] \notin up \cup {"managed"}
=================================================================================
