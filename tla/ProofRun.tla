------------------------------ MODULE ProofRun ------------------------------
(***************************************************************************)
(* The two proof gates: `gleam-mutants-verification prove` (Lean,          *)
(* verification/src/main.rs) and `release prove` (Kani,                    *)
(* tools/release/src/proofs.rs).  A gate reads the sources, builds its     *)
(* image, then runs one command after another, each in a Docker container  *)
(* of its own behind a client process that a supervisor watches under a    *)
(* deadline (supervisor.rs).  Proofs of the text must be accepted; every   *)
(* control, a copy of the text with one fragment broken, must be refused   *)
(* by the prover and by nothing else.  The Lean gate also runs the         *)
(* production code of the tree it stands in, and reads every source again  *)
(* at the end.                                                             *)
(*                                                                         *)
(* Meanwhile somebody may edit the tree, and undo what was edited, a       *)
(* prover may be killed at its memory limit, a client may lose the daemon, *)
(* hang, or refuse to die, and the daemon may create a container after its *)
(* client is gone.                                                         *)
(***************************************************************************)
EXTENDS Naturals, Sequences

CONSTANTS
  LeanSources,  \* the Gleam modules and Lean contracts of the Lean gate
  CoreSource,   \* tools/release-core/src/lib.rs, all the Kani gate reads
  Config,       \* the inputs compiled into the verifier
  Suites, Runtimes, Contracts, Controls,   \* how many of each
  Texts,        \* the texts a file may have
  Compiled,     \* the text of the configuration inside the verifier
  MaxFaults     \* bound: faults of Docker and of the operating system

ASSUME ProofRunAssumption ==
  /\ CoreSource \notin LeanSources /\ Config \notin LeanSources \cup {CoreSource}
  /\ {Suites, Runtimes, Contracts, Controls, MaxFaults} \subseteq Nat
  /\ Compiled \in Texts

Gates == {"lean", "kani"}
Files == LeanSources \cup {CoreSource, Config}

(* What the prover says of a text when it is left to finish: it accepts it,
   it refuses it with the diagnostic the gate expects, or it ends in any
   other way (another theorem, a tool error, a missing file). *)
Verdicts == {"accepts", "refuses", "other"}

VARIABLES
  gate,       \* which gate this is
  pc,         \* where it stands
  todo,       \* the files it still has to read in this phase
  next,       \* the job of Agenda it is at
  snapshot,   \* the text of each file it holds
  tree,       \* the text of each file on disk
  client,     \* the docker client it supervises
  answer,     \* how that client ended: a verdict, "killed" or "broken"
  container,  \* that client's container: "none", "asked" of the daemon, "running"
  \* history, read by the properties only
  verdicts,   \* the verdict the prover reached on each job
  ran,        \* the trees the native programs were built from
  undone,     \* the files put back to the text the gate expects at its end,
              \* after a native program was built from another
  faults

vars == <<gate, pc, todo, next, snapshot, tree, client, answer, container,
          verdicts, ran, undone, faults>>

-----------------------------------------------------------------------------
(* The jobs of a gate, in order. *)

LeanProofs ==
  << <<"version", 0>>, <<"derive", 0>> >>
  \o [s \in 1 .. Suites |-> <<"prove", s>>]
  \o << <<"imports", 0>>, <<"replay", 0>>, <<"reference", 0>> >>
  \o [r \in 1 .. Runtimes |-> <<"bridge", r>>]

(* A contract with its fragment broken is derived and must be refused. *)
ContractJobs ==
  [i \in 1 .. 2 * Contracts |->
     << <<"derive", "break">>[1 + ((i - 1) % 2)], 1 + (i - 1) \div 2 >>]

(* A further control has a witness, which must hold of the text unbroken. *)
ControlJobs ==
  [i \in 1 .. 3 * Controls |->
     << <<"witness", "derive", "break">>[1 + ((i - 1) % 3)],
        Contracts + 1 + (i - 1) \div 3 >>]

LeanAgenda == LeanProofs \o ContractJobs \o ControlJobs

KaniAgenda ==
  << <<"version", 0>>, <<"prove", 0>> >> \o [c \in 1 .. Controls |-> <<"break", c>>]

Agenda == IF gate = "lean" THEN LeanAgenda ELSE KaniAgenda
Jobs == {LeanAgenda[i] : i \in DOMAIN LeanAgenda} \cup {KaniAgenda[i] : i \in DOMAIN KaniAgenda}
Job == Agenda[next]
Native == Job[1] = "bridge"

(* The answer that lets the gate go on after a job. *)
Wanted(job) == IF job[1] = "break" THEN {"refuses"} ELSE {"accepts"}

Sources == IF gate = "lean" THEN LeanSources ELSE {CoreSource}

(* configuration::check; the Kani gate has none. *)
Configured == gate = "kani" \/ tree[Config] = Compiled

(* The text a file must have when the Lean gate reads it again. *)
Expected(f) == IF f = Config THEN Compiled ELSE snapshot[f]

-----------------------------------------------------------------------------
Init ==
  /\ gate \in Gates
  /\ pc = IF gate = "lean" THEN "read" ELSE "build"
  /\ tree = [f \in Files |-> Compiled]
  /\ snapshot = tree
  /\ todo = Sources
  /\ next = 1
  /\ client = "none" /\ answer = "none" /\ container = "none"
  /\ verdicts = [j \in Jobs |-> "none"]
  /\ ran = {} /\ undone = {}
  /\ faults = 0

docker == <<client, answer, container>>
history == <<verdicts, ran, undone>>
Fault == faults < MaxFaults /\ faults' = faults + 1

(* An error of any kind ends the gate. *)
Fail == pc' = "failed"

(* Somebody saves a file the gate reads, with a new text or an earlier one. *)
Edit(f) ==
  /\ pc \notin {"passed", "failed"} /\ f \in Sources \cup {Config}
  /\ \E text \in Texts \ {tree[f]} :
       /\ tree' = [tree EXCEPT ![f] = text]
       /\ undone' = IF text = Expected(f) /\ \E seen \in ran : seen[f] # text
                    THEN undone \cup {f} ELSE undone
  /\ UNCHANGED <<gate, pc, todo, next, snapshot, docker, verdicts, ran, faults>>

(* Snapshot::read: the configuration, then one file after the other. *)
ReadSource(f) ==
  /\ pc = "read" /\ f \in todo
  /\ IF todo = Sources /\ ~Configured
     THEN Fail /\ UNCHANGED <<snapshot, todo>>
     ELSE /\ snapshot' = [snapshot EXCEPT ![f] = tree[f]]
          /\ todo' = todo \ {f}
          /\ pc' = IF todo' # {} THEN "read" ELSE IF gate = "lean" THEN "build" ELSE "job"
  /\ UNCHANGED <<gate, next, tree, docker, history, faults>>

(* docker build; the Kani gate reads its source after it. *)
BuildImage ==
  /\ pc = "build"
  /\ pc' \in {IF gate = "lean" THEN "job" ELSE "read", "failed"}
  /\ UNCHANGED <<gate, todo, next, snapshot, tree, docker, history, faults>>

(* model and changed write the directory of the job: a text outside the
   translator's fragment, or a control whose fragment is not in the text
   exactly once, ends the gate. *)
RefuseText ==
  /\ pc = "job" /\ next <= Len(Agenda) /\ ~Native
  /\ Fail
  /\ UNCHANGED <<gate, todo, next, snapshot, tree, docker, history, faults>>

(* bounded up to the spawn of the client. *)
StartClient ==
  /\ pc = "job" /\ next <= Len(Agenda) /\ ~Native
  /\ IF Configured
     THEN pc' = "wait" /\ client' = "running" /\ container' = "asked" /\ answer' = "none"
     ELSE Fail /\ UNCHANGED docker
  /\ UNCHANGED <<gate, todo, next, snapshot, tree, history, faults>>

(* gleam run -m proof_model_smoke: built from the tree as it is now, not from
   the snapshot.  Its records are compared with the model's: they agree when
   the trees do, and may agree by chance when they do not. *)
RunNative ==
  /\ pc = "job" /\ next <= Len(Agenda) /\ Native
  /\ ran' = ran \cup {tree}
  /\ \/ pc' = "job" /\ next' = next + 1
     \/ Fail /\ UNCHANGED next
  /\ UNCHANGED <<gate, todo, snapshot, tree, docker, verdicts, undone, faults>>

-----------------------------------------------------------------------------
(* The daemon, the container and the client. *)

CreateContainer ==
  /\ container = "asked"
  /\ container' = "running"
  /\ UNCHANGED <<gate, pc, todo, next, snapshot, tree, client, answer, history, faults>>

(* The command in the container ends; --rm removes the container and the
   client, if it still lives, ends with the status of the command. *)
Ends(how) ==
  /\ container = "running"
  /\ container' = "none"
  /\ IF client = "running"
     THEN client' = "exited" /\ answer' = how
     ELSE UNCHANGED <<client, answer>>

Finish(v) ==
  /\ Ends(v)
  /\ verdicts' = [verdicts EXCEPT ![Job] = v]
  /\ UNCHANGED <<gate, pc, todo, next, snapshot, tree, ran, undone, faults>>

(* The kernel kills the prover at its memory limit: status 137, whatever it
   had printed. *)
KillContainer ==
  /\ Fault
  /\ Ends("killed")
  /\ UNCHANGED <<gate, pc, todo, next, snapshot, tree, history>>

(* The client fails by itself: no daemon, no image, a connection that broke
   with the container still there. *)
BreakClient ==
  /\ Fault
  /\ client = "running"
  /\ client' = "exited" /\ answer' = "broken"
  /\ UNCHANGED <<gate, pc, todo, next, snapshot, tree, container, history>>

-----------------------------------------------------------------------------
(* supervisor::run *)

(* Mutant of Conclusive: anything but an acceptance refuses a control. *)
ConclusiveByFailing(a, job) ==
  IF job[1] = "break" THEN a # "accepts" ELSE a = "accepts"

(* The answers of bounded, check and counterexample with which the gate goes
   on.  A client that was killed is inconclusive. *)
Conclusive(a, job) == a # "killed" /\ a \in Wanted(job)

(* try_wait has the status of the client. *)
TakeStatus ==
  /\ pc = "wait" /\ client = "exited"
  /\ client' = "none"
  /\ IF Conclusive(answer, Job)
     THEN pc' = "job" /\ next' = next + 1
     ELSE Fail /\ UNCHANGED next
  /\ UNCHANGED <<gate, todo, snapshot, tree, answer, container, history, faults>>

(* try_wait found the client running and the deadline has passed. *)
Deadline ==
  /\ pc = "wait" /\ client = "running"
  /\ pc' = "stop"
  /\ UNCHANGED <<gate, todo, next, snapshot, tree, docker, history, faults>>

(* try_wait fails: the client is stopped as well. *)
InspectFails ==
  /\ Fault
  /\ pc = "wait"
  /\ pc' = "stop"
  /\ UNCHANGED <<gate, todo, next, snapshot, tree, docker, history>>

(* The captured output cannot be read: the status is lost. *)
CaptureFails ==
  /\ Fault
  /\ pc = "wait" /\ client = "exited"
  /\ client' = "none" /\ pc' = "cleanup"
  /\ UNCHANGED <<gate, todo, next, snapshot, tree, answer, container, history>>

(* Mutant of StopClient: stop waits for the client without a kill. *)
StopClientUnkilled ==
  /\ pc = "stop" /\ client = "exited"
  /\ client' = "none" /\ pc' = "cleanup"
  /\ UNCHANGED <<gate, todo, next, snapshot, tree, answer, container, history, faults>>

(* stop: the client is killed and reaped. *)
StopClient ==
  /\ pc = "stop"
  /\ client' = "none" /\ pc' = "cleanup"
  /\ UNCHANGED <<gate, todo, next, snapshot, tree, answer, container, history, faults>>

(* stop: the client cannot be killed or cannot be reaped. *)
StopFails ==
  /\ Fault
  /\ pc = "stop"
  /\ pc' = "cleanup"
  /\ UNCHANGED <<gate, todo, next, snapshot, tree, docker, history>>

(* docker rm --force under its own deadline.  A container the daemon has not
   created yet is not there to be removed. *)
Cleanup ==
  /\ pc = "cleanup"
  /\ container' = IF container = "running" THEN "none" ELSE container
  /\ Fail
  /\ UNCHANGED <<gate, todo, next, snapshot, tree, client, answer, history, faults>>

CleanupFails ==
  /\ Fault
  /\ pc = "cleanup"
  /\ Fail
  /\ UNCHANGED <<gate, todo, next, snapshot, tree, docker, history>>

-----------------------------------------------------------------------------
(* The end of prove: the Lean gate reads everything again. *)

(* Mutant of Proved: only the configuration is read again. *)
ProvedUnread ==
  /\ pc = "job" /\ next > Len(Agenda)
  /\ pc' = IF gate = "lean" THEN "configured" ELSE "passed"
  /\ UNCHANGED <<gate, todo, next, snapshot, tree, docker, history, faults>>

Proved ==
  /\ pc = "job" /\ next > Len(Agenda)
  /\ IF gate = "lean"
     THEN pc' = "compare" /\ todo' = Sources
     ELSE pc' = "passed" /\ UNCHANGED todo
  /\ UNCHANGED <<gate, next, snapshot, tree, docker, history, faults>>

Compare(f) ==
  /\ pc = "compare" /\ f \in todo
  /\ todo' = todo \ {f}
  /\ IF tree[f] = snapshot[f]
     THEN pc' = IF todo' = {} THEN "configured" ELSE "compare"
     ELSE Fail
  /\ UNCHANGED <<gate, next, snapshot, tree, docker, history, faults>>

CompareConfig ==
  /\ pc = "configured"
  /\ pc' = IF Configured THEN "passed" ELSE "failed"
  /\ UNCHANGED <<gate, todo, next, snapshot, tree, docker, history, faults>>

Poll == TakeStatus \/ Deadline \/ StopClient \/ Cleanup
Supervise == Poll \/ InspectFails \/ CaptureFails \/ StopFails \/ CleanupFails

Daemon ==
  CreateContainer \/ (\E v \in Verdicts : Finish(v)) \/ KillContainer \/ BreakClient

Next ==
  \/ \E f \in Files : Edit(f) \/ ReadSource(f) \/ Compare(f)
  \/ BuildImage \/ RefuseText \/ StartClient \/ RunNative
  \/ Daemon \/ Supervise
  \/ Proved \/ CompareConfig

Spec == Init /\ [][Next]_vars

(* The supervisor polls until the client ends or the deadline passes, and a
   signalled process and a docker command with a deadline end; nothing is
   assumed of the containers, the image build or the native programs. *)
FairSpec == Spec /\ WF_vars(Poll)

-----------------------------------------------------------------------------
(* Properties. *)

Over == pc \in {"passed", "failed"}

(* A gate that passes has had a verdict of the prover itself on every job of
   its agenda, an acceptance of every proof and a refusal of every control,
   and leaves neither a client nor a container behind: no timeout, resource
   kill, lost daemon or failed cleanup becomes a proof result
   (supervisor.rs wait and run, main.rs bounded, proofs.rs check). *)
PassMeansProved ==
  pc = "passed" =>
    /\ \A i \in DOMAIN Agenda :
         Agenda[i][1] # "bridge" => verdicts[Agenda[i]] \in Wanted(Agenda[i])
    /\ client = "none" /\ container = "none"

(* When the Lean gate passes, every native program it compared the model with
   was built from the very snapshot that was proved and from the compiled
   configuration, although the tree was read file by file, twice, and edited
   in between; except for a file that was edited before a build and put back
   before the last comparison, which the gate cannot notice
   (main.rs Snapshot::read, the bridge and the last comparison). *)
PassedTreeStood ==
  pc = "passed" /\ gate = "lean" =>
    \A seen \in ran, f \in LeanSources \cup {Config} :
      seen[f] = Expected(f) \/ f \in undone

(* A command the supervisor waits for, stops or cleans up after comes to an
   end, whatever the container, the client and the daemon do
   (supervisor.rs wait). *)
SupervisedRunsEnd == pc \in {"wait", "stop", "cleanup"} ~> pc \in {"job", "failed"}
=============================================================================
