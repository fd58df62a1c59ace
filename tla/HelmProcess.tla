------------------------------- MODULE HelmProcess ------------------------------
(***************************************************************************)
(* One run of Helm: a process in a group of its own, the helpers it starts,*)
(* the two pipes they all write to, the threads that read those, and the   *)
(* caller that waits for the process, for a stop and for a deadline.  A    *)
(* process may hang, and a pipe that is full blocks who writes to it.      *)
(***************************************************************************)
EXTENDS Naturals

CONSTANTS
  Helpers,     \* processes that Helm can start
  Room,        \* what fits in a pipe
  OutputLimit, \* what is kept of the output of a pipe
  MaxOutput    \* bound: what a process writes

HelmBoundsAssumption == Room \in Nat \ {0} /\ OutputLimit \in Nat /\ MaxOutput \in Nat

VARIABLES
  step,     \* of the caller
  status,   \* what it saw Helm exit with, or "none"
  verdict,  \* what it answers
  alive,    \* processes of the group
  killed,   \* those that have been sent SIGKILL
  unborn,   \* helpers that have not been started
  exit,     \* of Helm: "none", "ok", "failed", "killed"
  release,  \* Helm's work in the cluster: "none", "begun", "done"
  left,     \* of each process: what it has yet to write
  pipe,     \* of each pipe: what is in it
  output,   \* of each pipe: what was kept
  wrote,    \* ghost, of each pipe: what was written
  stop,     \* the operation was asked to stop, or its lease is lost
  late      \* the deadline has passed

group == <<alive, killed, unborn, exit, release, left>>
pipes == <<pipe, output, wrote>>
helmVars == <<step, status, verdict, group, pipes, stop, late>>

Pipes == {"stdout", "stderr"}
Processes == {"helm"} \cup Helpers
Runs(p) == p \in alive \ killed
Goes(from, to) == step = from /\ step' = to

-----------------------------------------------------------------------------
(* The group *)

Write(p, c) ==
  /\ Runs(p) /\ left[p] > 0 /\ pipe[c] < Room
  /\ left' = [left EXCEPT ![p] = @ - 1]
  /\ pipe' = [pipe EXCEPT ![c] = @ + 1] /\ wrote' = [wrote EXCEPT ![c] = @ + 1]
  /\ UNCHANGED <<step, status, verdict, alive, killed, unborn, exit, release, output, stop, late>>

Work ==
  /\ Runs("helm") /\ release # "done"
  /\ release' = IF release = "none" THEN "begun" ELSE "done"
  /\ UNCHANGED <<step, status, verdict, alive, killed, unborn, exit, left, pipes, stop, late>>

Fork(h) ==
  /\ Runs("helm") /\ h \in unborn
  /\ alive' = alive \cup {h} /\ unborn' = unborn \ {h}
  /\ UNCHANGED <<step, status, verdict, killed, exit, release, left, pipes, stop, late>>

\* A process that has more to write waits for room.  Helpers may stay.
Exit(p) ==
  /\ Runs(p) /\ left[p] = 0
  /\ alive' = alive \ {p}
  /\ exit' \in IF p # "helm" THEN {exit}
              ELSE {"failed"} \cup (IF release = "done" THEN {"ok"} ELSE {})
  /\ UNCHANGED <<step, status, verdict, killed, unborn, release, left, pipes, stop, late>>

Die(p) ==
  /\ p \in alive \cap killed
  /\ alive' = alive \ {p}
  /\ exit' = IF p = "helm" THEN "killed" ELSE exit
  /\ UNCHANGED <<step, status, verdict, killed, unborn, release, left, pipes, stop, late>>

-----------------------------------------------------------------------------
(* The caller and its threads *)

\* A stop that came before leaves nothing to undo.
Spawn ==
  /\ step = "start"
  /\ IF stop THEN step' = "answered" /\ verdict' = "indeterminate" /\ UNCHANGED alive
     ELSE step' = "poll" /\ alive' = {"helm"} /\ UNCHANGED verdict
  /\ UNCHANGED <<status, killed, unborn, exit, release, left, pipes, stop, late>>

\* It reads on after the limit, so that nobody waits for room.
Drain(c) ==
  /\ step # "answered" /\ pipe[c] > 0
  /\ pipe' = [pipe EXCEPT ![c] = @ - 1]
  /\ output' = [output EXCEPT ![c] = IF @ < OutputLimit THEN @ + 1 ELSE @]
  /\ UNCHANGED <<step, status, verdict, group, wrote, stop, late>>

\* try_wait, which reaps a Helm that has exited.
TryWait ==
  /\ step = "poll"
  /\ IF exit # "none" THEN step' = "kill" /\ status' = exit
     ELSE step' = "decide" /\ UNCHANGED status
  /\ UNCHANGED <<verdict, group, pipes, stop, late>>

\* It had not: a stop, and then the deadline, end the wait, whatever Helm did since.
Decide ==
  /\ step = "decide"
  /\ IF stop \/ late THEN step' = "kill" /\ verdict' = "indeterminate"
     ELSE step' = "poll" /\ UNCHANGED verdict
  /\ UNCHANGED <<status, group, pipes, stop, late>>

\* Mutant of Kill: what Helm left behind when it exited is left alone.
KillHelm ==
  /\ step = "kill"
  /\ killed' = IF status = "none" THEN alive ELSE killed
  /\ step' = IF status = "none" THEN "reap" ELSE "join"
  /\ UNCHANGED <<status, verdict, alive, unborn, exit, release, left, pipes, stop, late>>

\* The whole group, also if Helm itself is gone.
Kill ==
  /\ step = "kill"
  /\ killed' = alive
  /\ step' = IF status = "none" THEN "reap" ELSE "join"
  /\ UNCHANGED <<status, verdict, alive, unborn, exit, release, left, pipes, stop, late>>

Reap ==
  /\ Goes("reap", "join") /\ "helm" \notin alive
  /\ UNCHANGED <<status, verdict, group, pipes, stop, late>>

\* The threads end when nobody holds the other end of their pipes.
Join ==
  /\ Goes("join", "answered")
  /\ alive = {} /\ \A c \in Pipes : pipe[c] = 0
  /\ verdict' = IF status = "none" THEN verdict ELSE status
  /\ UNCHANGED <<status, group, pipes, stop, late>>

Caller == Spawn \/ TryWait \/ Decide \/ Kill \/ Reap \/ Join

Stop == ~stop /\ stop' = TRUE /\ UNCHANGED <<step, status, verdict, group, pipes, late>>

Deadline ==
  /\ step \notin {"start", "answered"} /\ ~late /\ late' = TRUE
  /\ UNCHANGED <<step, status, verdict, group, pipes, stop>>

-----------------------------------------------------------------------------
Init ==
  /\ step = "start" /\ status = "none" /\ verdict = "none"
  /\ alive = {} /\ killed = {} /\ unborn = Helpers /\ exit = "none" /\ release = "none"
  /\ left \in [Processes -> 0..MaxOutput]
  /\ pipe = [c \in Pipes |-> 0] /\ output = pipe /\ wrote = pipe
  /\ stop = FALSE /\ late = FALSE

Next ==
  \/ \E p \in Processes : Exit(p) \/ Die(p) \/ \E c \in Pipes : Write(p, c)
  \/ \E h \in Helpers : Fork(h)
  \/ Work \/ \E c \in Pipes : Drain(c)
  \/ Caller \/ Stop \/ Deadline

Spec == Init /\ [][Next]_helmVars

\* Threads run, what is killed dies and time passes; Helm and its helpers owe nothing.
FairSpec ==
  /\ Spec
  /\ WF_helmVars(Caller) /\ WF_helmVars(Deadline)
  /\ \A c \in Pipes : WF_helmVars(Drain(c))
  /\ \A p \in Processes : WF_helmVars(Die(p))

-----------------------------------------------------------------------------
TypeOK ==
  /\ step \in {"start", "poll", "decide", "kill", "reap", "join", "answered"}
  /\ status \in {"none", "ok", "failed"} /\ exit \in {"none", "ok", "failed", "killed"}
  /\ verdict \in {"none", "ok", "failed", "indeterminate"}
  /\ alive \subseteq Processes /\ killed \subseteq Processes /\ unborn \subseteq Helpers
  /\ release \in {"none", "begun", "done"} /\ left \in [Processes -> 0..MaxOutput]
  /\ pipe \in [Pipes -> 0..Room] /\ output \in [Pipes -> 0..OutputLimit]
  /\ stop \in BOOLEAN /\ late \in BOOLEAN

\* The caller never waits for a process that nobody killed to close its pipes; when it
\* answers none is left, the answer is what Helm exited with, a success has its work done,
\* all of the output is there up to the limit, and an outcome is called indeterminate only
\* after a stop or the deadline (helm_process.rs:90).
HelmEndsClean ==
  /\ step = "join" => alive \subseteq killed
  /\ step = "answered" =>
       /\ alive = {}
       /\ verdict = "ok" => release = "done"
       /\ verdict \in {"ok", "failed"} =>
            /\ exit = verdict
            /\ \A c \in Pipes : output[c] = IF wrote[c] < OutputLimit THEN wrote[c] ELSE OutputLimit
       /\ verdict = "indeterminate" => stop \/ late

\* Every run is answered, even if Helm hangs, or leaves a helper that does.
Asked == step # "start"
Answered == step = "answered"
HelmAnswers == Asked ~> Answered

\* Every step keeps these: what is read and what is in a pipe is what was written;
PipesInv ==
  /\ DOMAIN pipe = Pipes /\ DOMAIN output = Pipes /\ DOMAIN wrote = Pipes
  /\ \A c \in Pipes :
       /\ pipe[c] \in Nat /\ output[c] \in Nat /\ wrote[c] \in Nat /\ pipe[c] <= wrote[c]
       /\ output[c] = IF wrote[c] - pipe[c] < OutputLimit THEN wrote[c] - pipe[c] ELSE OutputLimit

\* and Helm runs until it has exited, and is known to have exited only by its status; the
\* group is killed before the threads are waited for, which is until the pipes are empty;
\* and who answers "indeterminate" was stopped or late.
GroupInv ==
  /\ exit \in {"none", "ok", "failed", "killed"}
  /\ "helm" \in alive => exit = "none"
  /\ step = "start" => alive = {} /\ exit = "none" /\ verdict = "none"
  /\ step \in {"start", "poll", "decide"} => status = "none" /\ killed = {}
  /\ status # "none" => exit = status
  /\ step \in {"kill", "reap", "join"} => (status = "none" <=> verdict = "indeterminate")
  /\ step \in {"poll", "decide"} => verdict = "none"
  /\ exit = "ok" => release = "done"
  /\ step \in {"reap", "join"} => alive \subseteq killed
  /\ verdict = "indeterminate" => stop \/ late
  /\ step = "answered" =>
       /\ alive = {} /\ verdict \in {"indeterminate", exit}
       /\ verdict = "indeterminate" \/ \A c \in Pipes : pipe[c] = 0

HelmInv == PipesInv /\ GroupInv
=================================================================================
