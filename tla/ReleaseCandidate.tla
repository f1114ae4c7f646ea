-------------------------- MODULE ReleaseCandidate -------------------------
(***************************************************************************)
(* One run of .github/workflows/release-candidate.yml at one source, over  *)
(* its attempts, and the readers that fetch its candidate afterwards:      *)
(* tools/release/src/runner.rs (gates, runtimes, stage), runtime.rs,       *)
(* evidence.rs and github.rs (collect, fetch).                             *)
(*                                                                         *)
(* The gates and each platform's runtime cells run side by side, each      *)
(* uploading a receipt named after its attempt; the seal job binds the     *)
(* latest receipts into a candidate, the attest job signs it, the verify   *)
(* job checks the signed copy.  A failed attempt is run again, its failed  *)
(* jobs or all of them, so one candidate may bind receipts of several      *)
(* attempts, and a reader may be reading while a later attempt runs.       *)
(* Artifacts expire.                                                       *)
(*                                                                         *)
(* A receipt is represented by the attempt it names; what its job really   *)
(* did in that attempt is kept beside it.                                  *)
(*                                                                         *)
(* Left out: the bytes of archives and receipts (read once, bounded and    *)
(* compared by digest), the account and repository checks, signatures,     *)
(* which hold for what an attest job uploaded, and the two test suites     *)
(* before a platform's cells, whose failure ends the job as a cell's does. *)
(***************************************************************************)
EXTENDS Naturals, FiniteSets

CONSTANTS
  Platforms,     \* the platforms of the runtime jobs
  GateCount,     \* how many gates there are
  CellCount,     \* how many cells a platform runs
  Decisions,     \* of a cell, the ways its mutants may have been decided
  None,          \* no artifact
  Gone,          \* an artifact that has expired
  Readers,       \* fetches of the candidate
  MaxAttempts,   \* bound: attempts of the run
  Faults,        \* bound: checks that fail and jobs ended from outside
  Expiries       \* bound: artifacts that expire

Attempts == 1..MaxAttempts
Jobs == Platforms \cup {"build", "seal", "attest", "verify"}
Checked == Platforms \cup {"build"}
Kinds == Checked \cup {"unsigned", "candidate"}

\* A run of the suite kills a mutant, is survived by it or takes too long, the
\* walk discharges it, a stored outcome is taken over, or an error is met.
Ways == {"killed", "survived", "timed out", "discharged", "stored", "error"}

ASSUME CandidateAssumption ==
  /\ IsFiniteSet(Platforms)
  /\ Platforms \cap {"build", "seal", "attest", "verify", "unsigned",
                     "candidate"} = {}
  /\ GateCount \in Nat \ {0} /\ CellCount \in Nat \ {0}
  /\ Decisions \subseteq SUBSET Ways /\ MaxAttempts \in Nat \ {0}
  /\ Faults \in Nat /\ Expiries \in Nat /\ None # Gone

VARIABLES
  attempt,    \* the run's current attempt
  concluded,  \* of each attempt: "none", "success" or "failure"
  job,        \* of each job and attempt, the entry of the job listing
  at,         \* of each job, the step it is about to take
  evidence,   \* of each gates or runtime job and attempt: its checks done, those
              \* that left a changed tree, and how its cells decided mutants
  artifact,   \* of each kind and attempt, what was uploaded
  sealed,     \* the output of the seal job: the attempt in its artifact's name
  binding,    \* the candidate the seal, attest or verify job is working on
  reader,     \* of each fetch: attempt wanted, step, producer, candidate
  faults,     \* how many more faults may happen
  expiries    \* how many more artifacts may expire

run == <<attempt, concluded, job, at, evidence, sealed, binding>>
vars == <<attempt, concluded, job, at, evidence, artifact, sealed, binding,
          reader, faults, expiries>>

\* Mutant of Needs: seal does not wait for the runtimes.
NeedsBuildOnly(j) == CASE j \in Platforms \cup {"build"} -> {}
                       [] j = "seal"   -> {"build"}
                       [] j = "attest" -> {"seal"}
                       [] j = "verify" -> {"seal", "attest"}

Needs(j) == CASE j \in Platforms \cup {"build"} -> {}
              [] j = "seal"   -> Platforms \cup {"build"}
              [] j = "attest" -> {"seal"}
              [] j = "verify" -> {"seal", "attest"}

NoChecks == [done |-> 0, drifted |-> {}, decided |-> {}]

NotFetched == [want |-> 0, at |-> "run", producer |-> 0, candidate |-> None]

Init ==
  /\ attempt = 1
  /\ concluded = [a \in Attempts |-> "none"]
  /\ job = [j \in Jobs |-> [a \in Attempts |-> IF a = 1 THEN "todo" ELSE "none"]]
  /\ at = [j \in Jobs |-> "idle"]
  /\ evidence = [j \in Checked |-> [a \in Attempts |-> NoChecks]]
  /\ artifact = [k \in Kinds |-> [a \in Attempts |-> None]]
  /\ sealed = 0
  /\ binding = None
  /\ reader = [q \in Readers |-> NotFetched]
  /\ faults = Faults /\ expiries = Expiries

-----------------------------------------------------------------------------
(* The listings *)

Highest(s) == IF s = {} THEN 0 ELSE CHOOSE n \in s : \A m \in s : m <= n

\* The producer of a job's latest entry up to an attempt, if that succeeded.
LatestSuccess(j, a) ==
  LET k == Highest({n \in 1..a : job[j][n] # "none"})
  IN IF k # 0 /\ job[j][k] = "success" THEN k ELSE 0

\* The latest artifact of a kind up to an attempt that has not expired.
SelectArtifact(k, a) == Highest({n \in 1..a : artifact[k][n] \notin {None, Gone}})

\* A report is conclusive when it counts at least one mutant and each of them
\* as killed or survived, none from the cache.  A discharged mutant is printed
\* as a survivor, and counted among the executed like every other outcome.
Conclusive(d) == d # {} /\ d \cap {"timed out", "error", "stored"} = {}

-----------------------------------------------------------------------------
(* The jobs of an attempt *)

Goes(j, step) == at' = [at EXCEPT ![j] = step] /\ UNCHANGED job

\* A job ends, and its workspace with it.
Ends(j, result) ==
  /\ at' = [at EXCEPT ![j] = "idle"]
  /\ job' = [job EXCEPT ![j][attempt] = result]
  /\ evidence' = IF result = "failure" /\ j \in Checked
                 THEN [evidence EXCEPT ![j][attempt] = NoChecks] ELSE evidence
  /\ binding' = IF j = "seal" THEN None ELSE binding

CheckFails(j) == faults > 0 /\ faults' = faults - 1 /\ Ends(j, "failure")

Uploads(k, content) == artifact' = [artifact EXCEPT ![k][attempt] = content]

Rest == UNCHANGED <<attempt, concluded, reader, faults, expiries>>

Succeeded(j) == LatestSuccess(j, attempt) # 0

Startable(j) ==
  /\ concluded[attempt] = "none" /\ job[j][attempt] = "todo"
  /\ \A n \in Needs(j) : Succeeded(n)

Start(j) ==
  /\ Startable(j)
  /\ at' = [at EXCEPT ![j] = "work"]
  /\ job' = [job EXCEPT ![j][attempt] = "running"]
  /\ UNCHANGED <<evidence, artifact, sealed, binding>> /\ Rest

\* One more check has passed, and has left the tree as it was or changed.
Passes(j, dirty, decided) ==
  LET e == evidence[j][attempt]
      n == e.done + 1
  IN evidence' = [evidence EXCEPT ![j][attempt] =
       [done |-> n, drifted |-> IF dirty THEN e.drifted \cup {n} ELSE e.drifted,
        decided |-> e.decided \cup decided]]

Done(j) == evidence[j][attempt].done
CheckCount(j) == IF j = "build" THEN GateCount ELSE CellCount

\* Mutant of Identified: the tree is checked after the last gate only.
IdentifiedLast(gates, dirty) == gates < GateCount \/ ~dirty

\* The identity of a checkout demands a clean tree.
Identified(gates, dirty) == ~dirty

\* A gate passes or fails and leaves the tree clean or not; the identity is
\* read again after each gate.
RunGate ==
  /\ at["build"] = "work" /\ Done("build") < GateCount
  /\ \E passed, dirty \in BOOLEAN :
       IF passed /\ Identified(Done("build") + 1, dirty)
       THEN /\ Passes("build", dirty, {})
            /\ Goes("build", "work") /\ UNCHANGED <<faults, binding>>
       ELSE CheckFails("build")
  /\ UNCHANGED <<artifact, sealed, attempt, concluded, reader, expiries>>

\* A cell: an inconclusive report ends the job.  The identity is read again
\* after the last cell only.
RunCell(p) ==
  /\ at[p] = "work" /\ Done(p) < CellCount
  /\ \E d \in Decisions, dirty \in BOOLEAN :
       IF Conclusive(d) /\ ~(dirty /\ Done(p) + 1 = CellCount)
       THEN /\ Passes(p, dirty, d)
            /\ Goes(p, "work") /\ UNCHANGED <<faults, binding>>
       ELSE CheckFails(p)
  /\ UNCHANGED <<artifact, sealed, attempt, concluded, reader, expiries>>

\* A receipt is written and uploaded when every check has passed.
UploadReceipt(j) ==
  /\ at[j] = "work" /\ Done(j) = CheckCount(j)
  /\ Uploads(j, attempt)
  /\ Goes(j, "finish")
  /\ UNCHANGED <<evidence, sealed, binding>> /\ Rest

\* collect and stage: each input must be the artifact of its job's latest,
\* successful producer.  An artifact that expires between its listing and its
\* download fails the job like one that had expired before.
Bind ==
  /\ at["seal"] = "work"
  /\ LET chosen == [k \in Checked |-> SelectArtifact(k, attempt)]
         usable == \A k \in Checked :
                     /\ chosen[k] # 0 /\ chosen[k] = LatestSuccess(k, attempt)
                     /\ artifact[k][chosen[k]] = chosen[k]
     IN IF usable
        THEN /\ binding' = [attempt  |-> attempt,
                            gates    |-> artifact["build"][chosen["build"]],
                            runtimes |-> [p \in Platforms |->
                                            artifact[p][chosen[p]]]]
             /\ Goes("seal", "upload") /\ UNCHANGED evidence
        ELSE Ends("seal", "failure")
  /\ UNCHANGED <<artifact, sealed>> /\ Rest

UploadUnsigned ==
  /\ at["seal"] = "upload"
  /\ Uploads("unsigned", binding)
  /\ sealed' = binding.attempt
  /\ Goes("seal", "finish")
  /\ UNCHANGED <<evidence, binding>> /\ Rest

\* The attest job signs what the latest seal job's output names, and uploads
\* it under its own attempt.
Attest ==
  /\ at["attest"] = "work"
  /\ IF artifact["unsigned"][sealed] = Gone
     THEN Ends("attest", "failure") /\ UNCHANGED artifact
     ELSE /\ Uploads("candidate", artifact["unsigned"][sealed])
          /\ Goes("attest", "finish") /\ UNCHANGED <<evidence, binding>>
  /\ UNCHANGED sealed /\ Rest

\* The verify job downloads the latest attest job's artifact.
Verify ==
  /\ at["verify"] = "work"
  /\ LET k == LatestSuccess("attest", attempt)
     IN IF artifact["candidate"][k] \in {None, Gone}
        THEN Ends("verify", "failure")
        ELSE Goes("verify", "finish") /\ UNCHANGED <<evidence, binding>>
  /\ UNCHANGED <<artifact, sealed>> /\ Rest

Finish(j) ==
  /\ at[j] = "finish" /\ Ends(j, "success")
  /\ UNCHANGED <<artifact, sealed>> /\ Rest

EndedFromOutside(j) ==
  /\ at[j] # "idle" /\ CheckFails(j)
  /\ UNCHANGED <<attempt, concluded, artifact, sealed, reader, expiries>>

\* What is left when nothing runs and nothing can start is skipped.
Conclude ==
  /\ concluded[attempt] = "none"
  /\ \A j \in Jobs : at[j] = "idle" /\ ~Startable(j)
  /\ job' = [j \in Jobs |-> [job[j] EXCEPT ![attempt] =
                               IF @ = "todo" THEN "skipped" ELSE @]]
  /\ concluded' = [concluded EXCEPT ![attempt] =
       IF \A j \in Jobs : Succeeded(j) THEN "success" ELSE "failure"]
  /\ UNCHANGED <<attempt, at, evidence, artifact, sealed, binding, reader, faults,
                 expiries>>

\* Another attempt: all jobs, or those that have not succeeded.
Rerun ==
  /\ concluded[attempt] # "none" /\ attempt < MaxAttempts
  /\ attempt' = attempt + 1
  /\ \E all \in BOOLEAN :
       /\ all \/ concluded[attempt] = "failure"
       /\ job' = [j \in Jobs |-> [job[j] EXCEPT ![attempt + 1] =
                    IF all \/ ~Succeeded(j) THEN "todo" ELSE "none"]]
  /\ UNCHANGED <<concluded, at, evidence, artifact, sealed, binding, reader,
                 faults, expiries>>

Expire(k, a) ==
  /\ expiries > 0 /\ expiries' = expiries - 1
  /\ artifact[k][a] \notin {None, Gone}
  /\ artifact' = [artifact EXCEPT ![k][a] = Gone]
  /\ UNCHANGED <<run, reader, faults>>

-----------------------------------------------------------------------------
(* A fetch of the candidate of one attempt *)

Reading == UNCHANGED <<run, artifact, faults, expiries>>

Reads(q, step) == reader' = [reader EXCEPT ![q].at = step]

\* A fetch that fails leaves nothing; it may be tried again.
FetchFails(q) == reader' = [reader EXCEPT ![q] = NotFetched]

\* validate_run, on the attempt and on the run: the attempt wanted is the
\* run's current one and it succeeded.
ReadRun(q) ==
  /\ reader[q].at = "run" /\ concluded[attempt] = "success"
  /\ reader' = [reader EXCEPT ![q].want = attempt, ![q].at = "artifacts"]
  /\ Reading

ReadArtifacts(q) ==
  /\ reader[q].at = "artifacts"
  /\ LET k == SelectArtifact("candidate", reader[q].want)
     IN IF k = 0 THEN FetchFails(q)
        ELSE reader' = [reader EXCEPT ![q].producer = k, ![q].at = "download"]
  /\ Reading

Download(q) ==
  /\ reader[q].at = "download"
  /\ LET content == artifact["candidate"][reader[q].producer]
     IN IF content = Gone THEN FetchFails(q)
        ELSE reader' = [reader EXCEPT ![q].candidate = content, ![q].at = "jobs"]
  /\ Reading

\* Mutant of ProducersMatch: the attempts are not compared.
ProducersPassed(c, producer, a) ==
  \A j \in Jobs : LatestSuccess(j, a) # 0

\* The producers a candidate must come from: the latest job of every kind up
\* to the attempt, each of them successful.
ProducersMatch(c, producer, a) ==
  /\ c.attempt = LatestSuccess("seal", a)
  /\ c.gates = LatestSuccess("build", a)
  /\ \A p \in Platforms : c.runtimes[p] = LatestSuccess(p, a)
  /\ producer = LatestSuccess("attest", a)
  /\ LatestSuccess("verify", a) # 0
  /\ c.attempt <= producer

ReadJobs(q) ==
  /\ reader[q].at = "jobs"
  /\ IF ProducersMatch(reader[q].candidate, reader[q].producer, reader[q].want)
     THEN Reads(q, "fetched") ELSE FetchFails(q)
  /\ Reading

Fetch(q) == ReadRun(q) \/ ReadArtifacts(q) \/ Download(q) \/ ReadJobs(q)

-----------------------------------------------------------------------------
Next ==
  \/ RunGate \/ Bind \/ UploadUnsigned \/ Attest \/ Verify
  \/ \E p \in Platforms : RunCell(p)
  \/ \E j \in Checked : UploadReceipt(j)
  \/ \E j \in Jobs : Start(j) \/ Finish(j) \/ EndedFromOutside(j)
  \/ Conclude \/ Rerun
  \/ \E k \in Kinds, a \in Attempts : Expire(k, a)
  \/ \E q \in Readers : Fetch(q)

Spec == Init /\ [][Next]_vars

-----------------------------------------------------------------------------
Fetched == {q \in Readers : reader[q].at = "fetched"}

\* The values the variables take; jobs run only in an attempt that is not
\* concluded, and the seal, attest and verify jobs alone.
TypeOK ==
  /\ attempt \in Attempts
  /\ concluded \in [Attempts -> {"none", "success", "failure"}]
  /\ job \in [Jobs -> [Attempts -> {"none", "todo", "running", "success",
                                    "failure", "skipped"}]]
  /\ at \in [Jobs -> {"idle", "work", "upload", "finish"}]
  /\ \A j \in Checked, a \in Attempts :
       evidence[j][a] \in [done : 0..CheckCount(j),
                           drifted : SUBSET (1..CheckCount(j)),
                           decided : SUBSET Ways]
  /\ sealed \in 0..MaxAttempts
  /\ \A q \in Readers : reader[q].producer \in 0..MaxAttempts
  /\ \A j \in Jobs : at[j] # "idle" =>
       /\ concluded[attempt] = "none" /\ job[j][attempt] = "running"
       /\ j \in {"seal", "attest", "verify"} =>
            \A k \in Jobs \ {j} : at[k] = "idle"

\* A fetched candidate is the one its attempt ended with: sealed, gated and run
\* on every platform by the latest job of each kind, and every such job passed,
\* even if a fetch overlapped with the next attempt; so the phases of one
\* publication, each with a fetch of its own, work on the same candidate.
\* (github.rs fetch, latest_success_for, select_artifact)
FetchedIsLatest ==
  \A q \in Fetched :
    LET c == reader[q].candidate
        a == reader[q].want
        Last(j) == Highest({n \in 1..a : job[j][n] # "none"})
    IN /\ concluded[a] = "success"
       /\ c.attempt = Last("seal") /\ c.gates = Last("build")
       /\ \A p \in Platforms : c.runtimes[p] = Last(p)
       /\ \A j \in Jobs : job[j][Last(j)] = "success"

\* The receipts in a fetched candidate name attempts in which their jobs did
\* what the receipts stand for: every gate passed and found the source again,
\* which a later gate cannot have put back; every cell of every platform decided
\* mutants anew, by running them or by the walk that discharges survivors, and
\* none from the cache, and the source was there after the last cell (a cell in
\* between may have run on a changed tree).  That an attempt failed after the
\* upload, or that a later one was run, does not lend a candidate a receipt
\* without the work.  (runner.rs gates, runtimes; runtime.rs conclusive)
FetchedEvidenceHolds ==
  \A q \in Fetched :
    LET c == reader[q].candidate
        gates == evidence["build"][c.gates]
    IN /\ gates.done = GateCount /\ gates.drifted = {}
       /\ \A p \in Platforms :
            LET cells == evidence[p][c.runtimes[p]]
            IN /\ cells.done = CellCount /\ CellCount \notin cells.drifted
               /\ cells.decided # {}
               /\ cells.decided \subseteq {"killed", "survived", "discharged"}
=============================================================================
