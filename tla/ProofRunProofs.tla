--------------------------- MODULE ProofRunProofs ---------------------------
(***************************************************************************)
(* What a passed proof gate guarantees for every number of suites,         *)
(* runtimes, contracts and controls, every set of sources, and every order *)
(* of edits, faults and polls.                                             *)
(***************************************************************************)
EXTENDS ProofRun, SequenceTheorems, TLAPS

Before(n) == {i \in DOMAIN Agenda : i < n}

Decided(i) == Agenda[i][1] # "bridge" => verdicts[Agenda[i]] \in Wanted(Agenda[i])

\* A verdict of the prover is an answer only of the container whose verdict is
\* recorded for the job, and that container is gone.
AnswerRecorded ==
  answer \in Verdicts => container = "none" /\ verdicts[Job] = answer

\* The client that is supervised: it has not answered while it runs.
Supervised ==
  /\ next \in DOMAIN Agenda
  /\ \A i \in Before(next) : Agenda[i] # Job => Decided(i)
  /\ \/ client = "running" /\ answer = "none"
     \/ client = "exited" /\ answer \in Verdicts \cup {"killed", "broken"} /\ AnswerRecorded

\* Between two jobs nothing is left of the earlier ones but their verdicts.
Idle == client = "none" /\ container = "none"

Proving ==
  /\ gate \in Gates /\ next \in Nat \ {0}
  /\ verdicts = [j \in Jobs |-> verdicts[j]]
  /\ pc \in {"read", "build"} => Idle /\ next = 1
  /\ pc = "job" => Idle /\ \A i \in Before(next) : Decided(i)
  /\ pc = "wait" => Supervised
  /\ pc \in {"compare", "configured", "passed"} =>
       Idle /\ \A i \in DOMAIN Agenda : Decided(i)

\* Everything of a type that the texts need.
TreeTypes ==
  /\ tree = [f \in Files |-> tree[f]] /\ snapshot = [f \in Files |-> snapshot[f]]
  /\ todo \subseteq Files

Inputs == LeanSources \cup {Config}

Stood(f) == \A seen \in ran : seen[f] = Expected(f)

\* A file some native program was built from with another text than the one the
\* gate expects does not have that text now, or it was put back to it.
Noticed(f) == Stood(f) \/ f \in undone \/ tree[f] # Expected(f)

LeanStood ==
  /\ pc \in {"read", "build"} => ran = {}
  /\ \A f \in Inputs : Noticed(f)
  /\ pc = "compare" => \A f \in LeanSources \ todo : Stood(f) \/ f \in undone
  /\ pc \in {"configured", "passed"} =>
       \A f \in LeanSources : Stood(f) \/ f \in undone
  /\ pc = "passed" => Stood(Config) \/ Config \in undone

Standing == TreeTypes /\ gate \in Gates /\ (gate = "lean" => LeanStood)

-----------------------------------------------------------------------------
(* The agenda *)

Tasks == {"version", "derive", "prove", "imports", "replay", "reference", "bridge", "witness",
          "break"} \X Nat

LEMMA PartsAreSequences ==
  /\ LeanProofs \in Seq(Tasks) /\ ContractJobs \in Seq(Tasks) /\ ControlJobs \in Seq(Tasks)
  /\ Len(ContractJobs) = 2 * Contracts
<1> USE ProofRunAssumption
<1>0. \A n \in Nat : \A f \in [1 .. n -> Tasks] : f \in Seq(Tasks) /\ Len(f) = n
  BY SeqDef, LenProperties
<1>1. LeanProofs \in Seq(Tasks)
  <2>1. /\ [n \in 1 .. Suites |-> <<"prove", n>>] \in Seq(Tasks)
        /\ [r \in 1 .. Runtimes |-> <<"bridge", r>>] \in Seq(Tasks)
    BY SeqDef DEF Tasks
  <2>2. /\ << <<"version", 0>>, <<"derive", 0>> >> \in Seq(Tasks)
        /\ << <<"imports", 0>>, <<"replay", 0>>, <<"reference", 0>> >> \in Seq(Tasks)
    BY DEF Tasks
  <2>3. QED
    BY <2>1, <2>2, ConcatProperties DEF LeanProofs
<1>2. ContractJobs \in [1 .. 2 * Contracts -> Tasks]
  <2>1. \A i \in 1 .. 2 * Contracts :
          << <<"derive", "break">>[1 + ((i - 1) % 2)], 1 + (i - 1) \div 2 >> \in Tasks
    BY DEF Tasks
  <2>2. QED
    BY <2>1, Zenon DEF ContractJobs
<1>3. ControlJobs \in [1 .. 3 * Controls -> Tasks]
  <2>1. \A i \in 1 .. 3 * Controls :
          << <<"witness", "derive", "break">>[1 + ((i - 1) % 3)],
             Contracts + 1 + (i - 1) \div 3 >> \in Tasks
    BY DEF Tasks
  <2>2. QED
    BY <2>1, Zenon DEF ControlJobs
<1>4. 2 * Contracts \in Nat /\ 3 * Controls \in Nat
  OBVIOUS
<1>5. QED
  BY <1>0, <1>1, <1>2, <1>3, <1>4

\* The agenda of a gate is a sequence of its jobs.
LEMMA AgendaIs ==
  /\ Agenda \in Seq(Jobs)
  /\ Len(Agenda) \in Nat /\ DOMAIN Agenda = 1 .. Len(Agenda)
  /\ \A i \in DOMAIN Agenda : Agenda[i] \in Jobs
<1>1. LeanAgenda \in Seq(Tasks)
  BY PartsAreSequences, ConcatProperties DEF LeanAgenda
<1>2. KaniAgenda \in Seq(Tasks)
  BY ProofRunAssumption, SeqDef, ConcatProperties DEF KaniAgenda, Tasks
<1>3. LeanAgenda \in Seq(Jobs) /\ KaniAgenda \in Seq(Jobs)
  BY <1>1, <1>2 DEF Jobs
<1>4. QED
  BY <1>3 DEF Agenda

-----------------------------------------------------------------------------
(* The proofs *)

LEMMA ProvingInit == Init => Proving
BY AgendaIs DEF Init, Proving, Idle, Gates

LEMMA ProvingNext == Proving /\ [Next]_vars => Proving'
<1> SUFFICES ASSUME Proving, [Next]_vars PROVE Proving'
  OBVIOUS
<1> USE DEF Proving, Gates, docker, history
<1>0. /\ UNCHANGED gate /\ Agenda' = Agenda
      /\ Agenda \in Seq(Jobs) /\ Len(Agenda) \in Nat
      /\ DOMAIN Agenda = 1 .. Len(Agenda)
  BY AgendaIs
  DEF Next, vars, Edit, ReadSource, Compare, BuildImage, RefuseText, StartClient,
      RunNative, Daemon, CreateContainer, Finish, KillContainer, BreakClient, Supervise,
      Poll, TakeStatus, Deadline, StopClient, Cleanup, InspectFails, CaptureFails,
      StopFails, CleanupFails, Proved, CompareConfig, Agenda
<1>1. Jobs' = Jobs /\ \A i : Wanted(i)' = Wanted(i)
  BY DEF Jobs, Wanted
<1> HIDE DEF Agenda, Jobs
<1>2. ASSUME UNCHANGED verdicts, NEW i
      PROVE  Decided(i) <=> Decided(i)'
  BY <1>0, <1>1, <1>2 DEF Decided
<1>3. UNCHANGED next => Before(next)' = Before(next) /\ Job' = Job
  BY <1>0 DEF Before, Job
<1>4. CASE UNCHANGED <<pc, next, client, answer, container, verdicts>>
  <2>1. UNCHANGED <<pc, next, client, answer, container, verdicts>>
    BY <1>4
  <2>2. Supervised => Supervised'
    BY <1>0, <1>2, <1>3, <2>1 DEF Supervised, AnswerRecorded
  <2>3. Idle <=> Idle'
    BY <2>1 DEF Idle
  <2>4. QED
    BY <1>0, <1>1, <1>2, <1>3, <2>1, <2>2, <2>3
<1>5. CASE \E f \in Files : ReadSource(f) \/ Compare(f)
  BY <1>0, <1>1, <1>2, <1>3, <1>5 DEF ReadSource, Compare, Idle, Fail, Before
<1>6. CASE BuildImage \/ RefuseText \/ Proved \/ CompareConfig
  BY <1>0, <1>1, <1>2, <1>3, <1>6
  DEF BuildImage, RefuseText, Proved, CompareConfig, Idle, Fail, Before
<1>7. CASE StartClient
  BY <1>0, <1>1, <1>2, <1>3, <1>7 DEF StartClient, Supervised, Before, Fail
<1>8. CASE RunNative
  <2>1. /\ pc = "job" /\ next \in DOMAIN Agenda /\ Decided(next)
        /\ UNCHANGED <<client, answer, container, verdicts>>
    BY <1>0, <1>8 DEF RunNative, Native, Job, Decided
  <2>2. Idle' /\ \A i \in Before(next) \cup {next} : Decided(i)'
    BY <1>2, <2>1 DEF Idle
  <2>3. CASE pc' = "failed" /\ UNCHANGED next
    BY <1>0, <1>1, <2>1, <2>3
  <2>4. CASE pc' = "job" /\ next' = next + 1
    <3>1. Before(next)' \subseteq Before(next) \cup {next}
      BY <1>0, <2>4 DEF Before
    <3>2. QED
      BY <1>0, <1>1, <2>1, <2>2, <2>4, <3>1
  <2>5. QED
    BY <1>8, <2>3, <2>4 DEF RunNative, Fail
<1>9. CASE CreateContainer
  BY <1>0, <1>1, <1>2, <1>3, <1>9 DEF CreateContainer, Supervised, AnswerRecorded, Idle
<1>10. ASSUME NEW v \in Verdicts, Finish(v) PROVE Proving'
  <2>1. /\ container = "running" /\ container' = "none"
        /\ verdicts' = [verdicts EXCEPT ![Job] = v] /\ UNCHANGED <<pc, next>>
        /\ IF client = "running" THEN client' = "exited" /\ answer' = v
           ELSE UNCHANGED <<client, answer>>
    BY <1>10 DEF Finish, Ends
  <2>2. pc \notin {"read", "build", "job", "compare", "configured", "passed"}
    BY <2>1 DEF Idle
  <2>3. verdicts' = [j \in Jobs |-> verdicts'[j]]
    BY <2>1
  <2>4. CASE pc = "wait"
    <3>1. Supervised /\ Job \in Jobs
      BY <1>0, <2>4 DEF Supervised, Job
    <3>2. verdicts'[Job] = v /\ \A j \in Jobs \ {Job} : verdicts'[j] = verdicts[j]
      BY <2>1, <3>1
    <3>3. \A i \in Before(next) : Agenda[i] # Job => Decided(i)'
      BY <1>0, <1>1, <3>1, <3>2 DEF Supervised, Decided, Before
    <3>4. AnswerRecorded' /\ client' = "exited"
          /\ answer' \in Verdicts \cup {"killed", "broken"}
      BY <1>3, <2>1, <3>1, <3>2 DEF AnswerRecorded, Supervised, Verdicts
    <3>5. Supervised'
      BY <1>0, <1>3, <2>1, <3>1, <3>3, <3>4 DEF Supervised
    <3>6. QED
      BY <1>0, <1>1, <2>1, <2>3, <2>4, <3>5
  <2>5. CASE pc # "wait"
    BY <1>0, <1>1, <2>1, <2>2, <2>3, <2>5
  <2>6. QED
    BY <2>4, <2>5
<1>11. CASE KillContainer \/ BreakClient
  BY <1>0, <1>1, <1>2, <1>3, <1>11
  DEF KillContainer, BreakClient, Ends, Fault, Supervised, AnswerRecorded, Idle, Verdicts
<1>12. CASE TakeStatus
  <2>1. /\ Supervised /\ client = "exited" /\ client' = "none"
        /\ UNCHANGED <<answer, container, verdicts>>
    BY <1>12 DEF TakeStatus
  <2>2. CASE pc' = "failed" /\ UNCHANGED next
    BY <1>0, <1>1, <2>1, <2>2
  <2>3. CASE Conclusive(answer, Job) /\ pc' = "job" /\ next' = next + 1
    <3>1. answer \in Wanted(Job) /\ answer \in Verdicts
      BY <2>3 DEF Conclusive, Wanted, Verdicts
    <3>2. container = "none" /\ verdicts[Job] \in Wanted(Job)
      BY <2>1, <3>1 DEF Supervised, AnswerRecorded
    <3>3. \A i \in Before(next) \cup {next} : Decided(i)'
      BY <1>2, <2>1, <3>2 DEF Supervised, Decided, Job
    <3>4. Before(next)' \subseteq Before(next) \cup {next}
      BY <1>0, <2>3 DEF Before
    <3>5. QED
      BY <1>0, <1>1, <2>1, <2>3, <3>2, <3>3, <3>4 DEF Idle
  <2>4. QED
    BY <1>12, <2>2, <2>3 DEF TakeStatus, Fail
<1>13. CASE \/ Deadline \/ StopClient \/ Cleanup \/ InspectFails \/ CaptureFails
            \/ StopFails \/ CleanupFails
  BY <1>0, <1>1, <1>2, <1>3, <1>13
  DEF Deadline, StopClient, Cleanup, InspectFails, CaptureFails, StopFails, CleanupFails,
      Fault, Fail
<1>14. QED
  BY <1>4, <1>5, <1>6, <1>7, <1>8, <1>9, <1>10, <1>11, <1>12, <1>13
  DEF Next, vars, Edit, Daemon, Supervise, Poll

\* Passing means proved: every job of a passed gate was decided by a verdict of
\* the prover itself, an acceptance of a proof and a refusal of a control, and
\* no client or container is left, for agendas of every length and whatever was
\* killed, lost, timed out or could not be removed on the way.
\* (supervisor.rs wait and run, main.rs bounded, proofs.rs check)
THEOREM PassProved == Spec => []PassMeansProved
<1>1. Proving => PassMeansProved
  BY DEF Proving, PassMeansProved, Idle, Decided
<1>2. QED
  BY <1>1, ProvingInit, ProvingNext, PTL DEF Spec

LEMMA StandingInit == Init => Standing
BY ProofRunAssumption
DEF Init, Standing, TreeTypes, LeanStood, Noticed, Stood, Files, Sources, Gates

LEMMA StandingNext == Standing /\ [Next]_vars => Standing'
<1> SUFFICES ASSUME Standing, [Next]_vars PROVE Standing'
  OBVIOUS
<1> USE ProofRunAssumption DEF Standing, TreeTypes, Gates, docker, history
<1>0. /\ Inputs \subseteq Files /\ LeanSources \subseteq Inputs
      /\ Config \in Inputs /\ Config \notin LeanSources
      /\ Sources \subseteq Files /\ (gate = "lean" => Sources = LeanSources)
  BY DEF Files, Sources, Inputs
<1> DEFINE Held == UNCHANGED <<gate, snapshot, tree, ran, undone>>
<1>a. Held => \A f : (Stood(f) <=> Stood(f)') /\ (Noticed(f) <=> Noticed(f)')
  BY DEF Stood, Noticed, Expected
<1>1. CASE \E f \in Files : Edit(f)
  <2>1. PICK f \in Files : Edit(f)
    BY <1>1
  <2>2. PICK text \in Texts \ {tree[f]} :
          /\ tree' = [tree EXCEPT ![f] = text]
          /\ undone' = IF text = Expected(f) /\ \E seen \in ran : seen[f] # text
                       THEN undone \cup {f} ELSE undone
    BY <2>1 DEF Edit
  <2>3. UNCHANGED <<gate, pc, todo, snapshot, ran>> /\ pc \notin {"passed", "failed"}
    BY <2>1 DEF Edit
  <2>4. /\ tree' = [g \in Files |-> tree'[g]] /\ undone \subseteq undone'
        /\ \A g : (Stood(g) <=> Stood(g)') /\ Expected(g)' = Expected(g)
    BY <2>2, <2>3 DEF Stood, Expected
  <2>5. ASSUME NEW g \in Inputs, Noticed(g) PROVE Noticed(g)'
    <3>1. CASE g = f
      BY <1>0, <2>2, <2>4, <3>1 DEF Noticed, Stood
    <3>2. CASE g # f
      <4>1. tree'[g] = tree[g]
        BY <1>0, <2>2, <3>2
      <4>2. QED
        BY <2>4, <2>5, <4>1 DEF Noticed
    <3>3. QED
      BY <3>1, <3>2
  <2>6. QED
    BY <1>0, <2>3, <2>4, <2>5 DEF LeanStood
<1>2. CASE \E f \in Files : ReadSource(f)
  <2>1. PICK f \in Files : ReadSource(f)
    BY <1>2
  <2>2. TreeTypes' /\ UNCHANGED <<gate, ran>> /\ pc = "read"
        /\ pc' \in {"failed", "read", IF gate = "lean" THEN "build" ELSE "job"}
    BY <2>1 DEF ReadSource, Fail
  <2>3. gate = "lean" => ran' = {}
    BY <2>2 DEF LeanStood
  <2>4. QED
    BY <2>2, <2>3 DEF LeanStood, Noticed, Stood
<1>3. CASE \E f \in Files : Compare(f)
  <2>1. PICK f \in Files : Compare(f)
    BY <1>3
  <2>2. /\ Held /\ todo' = todo \ {f} /\ pc = "compare"
        /\ \/ tree[f] = snapshot[f] /\ pc' \in {"compare", "configured"}
              /\ (pc' = "configured" => todo' = {})
           \/ pc' = "failed"
    BY <2>1 DEF Compare, Fail
  <2>3. ASSUME gate = "lean", pc' # "failed", f \in LeanSources
        PROVE  Stood(f) \/ f \in undone
    BY <1>0, <2>2, <2>3 DEF LeanStood, Noticed, Expected
  <2>4. QED
    BY <1>0, <1>a, <2>2, <2>3 DEF LeanStood
<1>4. CASE RunNative
  <2>1. /\ UNCHANGED <<gate, todo, snapshot, tree, undone>> /\ ran' = ran \cup {tree}
        /\ pc = "job" /\ pc' \in {"job", "failed"}
    BY <1>4 DEF RunNative, Fail
  <2>2. ASSUME NEW f \in Inputs, Noticed(f) PROVE Noticed(f)'
    BY <2>1, <2>2 DEF Noticed, Stood, Expected
  <2>3. QED
    BY <2>1, <2>2 DEF LeanStood
<1>5. CASE Proved
  BY <1>0, <1>5, <1>a DEF Proved, LeanStood
<1>6. CASE CompareConfig
  <2>1. gate = "lean" /\ pc' = "passed" => Stood(Config) \/ Config \in undone
    BY <1>0, <1>6 DEF CompareConfig, Configured, LeanStood, Noticed, Expected
  <2>2. QED
    BY <1>0, <1>6, <1>a, <2>1 DEF CompareConfig, LeanStood
<1>7. CASE BuildImage \/ RefuseText \/ StartClient \/ Supervise
  <2>1. /\ Held /\ UNCHANGED todo
        /\ pc' \in {"read", "build"} => pc \in {"read", "build"}
        /\ pc' \notin {"compare", "configured", "passed"}
    BY <1>7
    DEF BuildImage, RefuseText, StartClient, Supervise, Poll, TakeStatus, Deadline,
        StopClient, Cleanup, InspectFails, CaptureFails, StopFails, CleanupFails, Fault,
        Fail
  <2>2. QED
    BY <1>a, <2>1 DEF LeanStood
<1>8. CASE Held /\ UNCHANGED <<pc, todo>>
  BY <1>8, <1>a DEF LeanStood
<1>9. ASSUME Daemon \/ UNCHANGED vars PROVE Held /\ UNCHANGED <<pc, todo>>
  BY <1>9 DEF Daemon, CreateContainer, Finish, KillContainer, BreakClient, vars
<1>10. QED
  BY <1>1, <1>2, <1>3, <1>4, <1>5, <1>6, <1>7, <1>8, <1>9 DEF Next

\* The tree a passed Lean gate was run in is the one it proved, whatever was
\* edited meanwhile, but for the files that were put back: a source that is at
\* the end what it was when it was read, and was not put back to it, has been
\* that at every build of a native program between, and so has the compiled
\* configuration.
\* (main.rs Snapshot::read, the bridge and the last comparison)
THEOREM TreeStood == Spec => []PassedTreeStood
<1>1. Standing => PassedTreeStood
  BY DEF Standing, LeanStood, Stood, Inputs, PassedTreeStood
<1>2. QED
  BY <1>1, StandingInit, StandingNext, PTL DEF Spec

-----------------------------------------------------------------------------
(* The controls *)

\* The elements of both parts of a concatenation.
LEMMA FirstPart ==
  ASSUME NEW S, NEW s \in Seq(S), NEW t \in Seq(S), NEW i \in DOMAIN s
  PROVE  i \in DOMAIN (s \o t) /\ (s \o t)[i] = s[i]
<1>1. i \in 1 .. Len(s) /\ Len(s) \in Nat /\ Len(t) \in Nat
  BY LenProperties
<1>2. DOMAIN (s \o t) = 1 .. Len(s) + Len(t)
  BY ConcatProperties, LenProperties
<1>3. QED
  BY <1>1, <1>2, ConcatProperties

LEMMA SecondPart ==
  ASSUME NEW S, NEW s \in Seq(S), NEW t \in Seq(S), NEW i \in DOMAIN t
  PROVE  Len(s) + i \in DOMAIN (s \o t) /\ (s \o t)[Len(s) + i] = t[i]
<1>1. i \in 1 .. Len(t) /\ Len(s) \in Nat /\ Len(t) \in Nat
  BY LenProperties
<1>2. DOMAIN (s \o t) = 1 .. Len(s) + Len(t)
  BY ConcatProperties, LenProperties
<1>3. QED
  BY <1>1, <1>2, ConcatProperties

\* The text with a contract's or a control's fragment broken is on the agenda
\* of the Lean gate.
LEMMA BrokenOnAgenda ==
  ASSUME NEW c \in 1 .. Contracts + Controls, gate = "lean"
  PROVE  \E i \in DOMAIN Agenda : Agenda[i] = <<"break", c>>
<1>0. /\ LeanProofs \in Seq(Tasks) /\ ContractJobs \in Seq(Tasks)
      /\ ControlJobs \in Seq(Tasks)
  BY PartsAreSequences
<1>1. Agenda = (LeanProofs \o ContractJobs) \o ControlJobs
      /\ LeanProofs \o ContractJobs \in Seq(Tasks)
  BY <1>0, ConcatProperties DEF Agenda, LeanAgenda
<1>2. CASE c <= Contracts
  <2>1. /\ 2 * c \in 1 .. 2 * Contracts
        /\ (2 * c - 1) % 2 = 1 /\ (2 * c - 1) \div 2 = c - 1
    BY <1>2, ProofRunAssumption
  <2>2. PICK n \in DOMAIN ContractJobs : ContractJobs[n] = <<"break", c>>
    <3>1. ContractJobs[2 * c] = <<"break", c>>
      BY <2>1 DEF ContractJobs
    <3>2. QED
      BY <2>1, <3>1 DEF ContractJobs
  <2>3. PICK i \in DOMAIN (LeanProofs \o ContractJobs) :
          (LeanProofs \o ContractJobs)[i] = <<"break", c>>
    <3>1. /\ Len(LeanProofs) + n \in DOMAIN (LeanProofs \o ContractJobs)
          /\ (LeanProofs \o ContractJobs)[Len(LeanProofs) + n] = ContractJobs[n]
      BY <1>0, SecondPart
    <3>2. QED
      BY <2>2, <3>1, Zenon
  <2>4. i \in DOMAIN Agenda /\ Agenda[i] = (LeanProofs \o ContractJobs)[i]
    BY <1>0, <1>1, FirstPart
  <2>5. QED
    BY <2>3, <2>4
<1>3. CASE c > Contracts
  <2> DEFINE k == c - Contracts
  <2>1. /\ 3 * k \in 1 .. 3 * Controls
        /\ (3 * k - 1) % 3 = 2 /\ (3 * k - 1) \div 3 = k - 1
    BY <1>3, ProofRunAssumption
  <2>2. PICK n \in DOMAIN ControlJobs : ControlJobs[n] = <<"break", c>>
    <3>1. Contracts + 1 + (3 * k - 1) \div 3 = c
      BY <1>3, <2>1, ProofRunAssumption
    <3> HIDE DEF k
    <3>2. ControlJobs[3 * k] = <<"break", c>>
      BY <2>1, <3>1 DEF ControlJobs
    <3>3. QED
      BY <2>1, <3>2 DEF ControlJobs
  <2>3. QED
    <3> DEFINE s == LeanProofs \o ContractJobs
    <3> HIDE DEF s
    <3>1. /\ Len(s) + n \in DOMAIN (s \o ControlJobs)
          /\ (s \o ControlJobs)[Len(s) + n] = ControlJobs[n]
      <4>1. s \in Seq(Tasks)
        BY <1>1 DEF s
      <4>2. QED
        BY <1>0, <4>1, SecondPart
    <3>2. QED
      BY <1>1, <2>2, <3>1, Zenon DEF s
<1>4. QED
  BY <1>2, <1>3, ProofRunAssumption

\* No control is left out: a Lean gate that passes has seen the prover refuse
\* every contract with its fragment broken and every further control.
\* (main.rs CONTRACTS, contracts.rs CONTROLS)
THEOREM ControlsRefused ==
  Spec => [](pc = "passed" /\ gate = "lean" =>
               \A c \in 1 .. Contracts + Controls : verdicts[<<"break", c>>] = "refuses")
<1>1. Proving /\ pc = "passed" /\ gate = "lean" =>
        \A c \in 1 .. Contracts + Controls : verdicts[<<"break", c>>] = "refuses"
  <2> SUFFICES ASSUME Proving, pc = "passed", gate = "lean",
                      NEW c \in 1 .. Contracts + Controls
               PROVE  verdicts[<<"break", c>>] = "refuses"
    OBVIOUS
  <2>1. PICK i \in DOMAIN Agenda : Agenda[i] = <<"break", c>>
    BY BrokenOnAgenda
  <2>2. Decided(i)
    BY DEF Proving
  <2>3. QED
    BY <2>1, <2>2 DEF Decided, Wanted
<1>2. QED
  BY <1>1, ProvingInit, ProvingNext, PTL DEF Spec

-----------------------------------------------------------------------------
(* The supervisor *)

\* The polls a supervised command may still need.
PollsLeft ==
  CASE pc = "wait" -> 3
    [] pc = "stop" -> 2
    [] pc = "cleanup" -> 1
    [] OTHER -> 0

\* supervisor.rs wait: what the daemon, the container, the client, an edit or a
\* fault does never gives the supervisor more to do, every poll leaves it with
\* less, and while it waits there is a client to be found running or ended, so
\* that a poll has something to do: a command is given up or concluded after at
\* most three of them.
THEOREM SupervisionProceeds ==
  Spec => /\ [](pc = "wait" => client \in {"running", "exited"})
          /\ [][/\ PollsLeft > 0 => PollsLeft' <= PollsLeft
                /\ Poll => PollsLeft' < PollsLeft]_vars
<1>1. Proving => (pc = "wait" => client \in {"running", "exited"})
  BY DEF Proving, Supervised
<1>2. ASSUME [Next]_vars
      PROVE  [/\ PollsLeft > 0 => PollsLeft' <= PollsLeft
              /\ Poll => PollsLeft' < PollsLeft]_vars
  <2>1. CASE UNCHANGED vars
    BY <2>1
  <2>2. CASE Poll
    BY <2>2 DEF Poll, TakeStatus, Deadline, StopClient, Cleanup, Fail, PollsLeft
  <2>3. CASE UNCHANGED pc /\ ~Poll
    BY <2>3 DEF PollsLeft
  <2>4. CASE InspectFails \/ CaptureFails \/ StopFails \/ CleanupFails
    BY <2>4 DEF InspectFails, CaptureFails, StopFails, CleanupFails, Fail, PollsLeft,
       Poll, TakeStatus, Deadline, StopClient, Cleanup
  <2>5. CASE pc \notin {"wait", "stop", "cleanup"}
    BY <2>5 DEF PollsLeft, Poll, TakeStatus, Deadline, StopClient, Cleanup
  <2>6. QED
    BY <1>2, <2>1, <2>2, <2>3, <2>4, <2>5
    DEF Next, Edit, ReadSource, Compare, BuildImage, RefuseText, StartClient, RunNative,
        Daemon, CreateContainer, Finish, KillContainer, BreakClient, Supervise, Proved,
        CompareConfig
<1>3. QED
  BY <1>1, <1>2, ProvingInit, ProvingNext, PTL DEF Spec

=============================================================================
