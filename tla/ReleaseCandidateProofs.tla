----------------------- MODULE ReleaseCandidateProofs -----------------------
(***************************************************************************)
(* What a fetched candidate guarantees for every set of platforms, number  *)
(* of attempts, and order of gates, cells, failures, expiries and fetches. *)
(*                                                                         *)
(* The invariant has two halves.  Evidence is followed from the checks to  *)
(* the job that succeeds with them, and receipts from the upload to the    *)
(* reader.  And the listings of a concluded attempt never change, so what  *)
(* a reader compared once stays the latest; below it, a job that has       *)
(* succeeded has only jobs that have succeeded behind it, which is why the *)
(* seal, attest and verify jobs run alone.                                 *)
(***************************************************************************)
EXTENDS ReleaseCandidate, WellFoundedInduction, FiniteSetTheorems, TLAPS

Held(k, a) == artifact[k][a] \notin {None, Gone}

\* What a candidate says it is made of.
Good(c) ==
  /\ c.attempt \in Attempts /\ c.gates \in Attempts
  /\ \A p \in Platforms : c.runtimes[p] \in Attempts

\* What an artifact of a kind must hold.
GoodContent(k, c) == k \in {"unsigned", "candidate"} => Good(c)

ArtifactsGood ==
  /\ artifact = [k \in Kinds |-> [a \in Attempts |-> artifact[k][a]]]
  /\ \A k \in Kinds, a \in Attempts : Held(k, a) => GoodContent(k, artifact[k][a])

BindingGood == at["seal"] = "upload" => Good(binding)

\* What has been checked of a gates or runtime job, however far it has come.
Sound(j, e) ==
  /\ e = [done |-> e.done, drifted |-> e.drifted, decided |-> e.decided]
  /\ e.done \in 0..CheckCount(j)
  /\ e.drifted \in SUBSET (1..CheckCount(j))
  /\ e.decided \in SUBSET {"killed", "survived", "discharged"}
  /\ j = "build" => e.drifted = {}
  /\ j \in Platforms =>
       CellCount \notin e.drifted /\ (e.done # 0 => e.decided # {})

\* A receipt is uploaded, and its job succeeds, after the last check.
EvidenceGood ==
  /\ evidence = [j \in Checked |-> [a \in Attempts |-> evidence[j][a]]]
  /\ \A j \in Checked, a \in Attempts : Sound(j, evidence[j][a])
  /\ \A j \in Checked : at[j] = "finish" => Done(j) = CheckCount(j)
  /\ \A j \in Checked, a \in Attempts :
       job[j][a] = "success" => evidence[j][a].done = CheckCount(j)

\* The output of a seal job that has finished names an attempt.
SealedNamed ==
  /\ sealed \in 0..MaxAttempts
  /\ (\/ at["seal"] = "finish"
      \/ \E a \in Attempts : job["seal"][a] = "success") => sealed \in Attempts

Kept == ArtifactsGood /\ BindingGood /\ EvidenceGood /\ SealedNamed

-----------------------------------------------------------------------------

\* Earlier attempts are concluded, later ones have not begun.
OneAttempt ==
  \A a \in Attempts :
    /\ a < attempt => concluded[a] # "none"
    /\ a > attempt => concluded[a] = "none"

\* A job runs, and has succeeded, only after the jobs it needs.
NeedsSucceeded ==
  \A j \in Jobs : at[j] # "idle" \/ Succeeded(j) =>
    \A n \in Needs(j) : Succeeded(n)

RunTypes ==
  /\ attempt \in Attempts
  /\ concluded \in [Attempts -> {"none", "success", "failure"}]
  /\ job \in [Jobs -> [Attempts -> {"none", "todo", "running", "success",
                                    "failure", "skipped"}]]
  /\ at \in [Jobs -> {"idle", "work", "upload", "finish"}]

RunningListed ==
  \A j \in Jobs : at[j] # "idle" =>
    concluded[attempt] = "none" /\ job[j][attempt] = "running"

Ordered == RunTypes /\ RunningListed /\ OneAttempt /\ NeedsSucceeded

-----------------------------------------------------------------------------

ReaderSteps == {"run", "artifacts", "download", "jobs", "fetched"}

ReaderTypes ==
  /\ reader = [q \in Readers |-> reader[q]]
  /\ \A q \in Readers :
       /\ reader[q] = [want |-> reader[q].want, at |-> reader[q].at,
                       producer |-> reader[q].producer,
                       candidate |-> reader[q].candidate]
       /\ reader[q].at \in ReaderSteps

\* A fetch is about an attempt that succeeded, and what it holds is good.
ReaderFollows(r) ==
  /\ r.producer \in 0..MaxAttempts
  /\ r.at # "run" =>
       r.want \in 1..attempt /\ concluded[r.want] = "success"
  /\ r.at \in {"download", "jobs", "fetched"} => r.producer \in 1..r.want
  /\ r.at = "download" => artifact["candidate"][r.producer] # None
  /\ r.at \in {"jobs", "fetched"} => Good(r.candidate)
  /\ r.at = "fetched" => ProducersMatch(r.candidate, r.producer, r.want)

Followed == ReaderTypes /\ \A q \in Readers : ReaderFollows(reader[q])

-----------------------------------------------------------------------------
(* The listings *)

\* A nonempty set of natural numbers has a least one.
LEMMA LeastNatural ==
  ASSUME NEW s \in SUBSET Nat, s # {}
  PROVE  \E d \in s : \A e \in s : d <= e
<1> DEFINE less == {ss \in Nat \X Nat : ss[1] < ss[2]}
<1>1. less = OpToRel(<, Nat)
  BY DEF OpToRel
<1>2. IsWellFoundedOn(less, Nat)
  BY <1>1, NatLessThanWellFounded, Zenon
<1> HIDE DEF less
<1>3. PICK d \in s : \A e \in s : ~(<<e, d>> \in less)
  BY <1>2, WFMin
<1>4. ASSUME NEW e \in s PROVE d <= e
  <2>1. <<e, d>> \in Nat \X Nat
    OBVIOUS
  <2>2. ~(e < d)
    BY <1>3, <2>1 DEF less
  <2>3. QED
    BY <2>2
<1>5. QED
  BY <1>4

\* A nonempty set of attempts has a highest.
LEMMA HighestIs ==
  ASSUME NEW a \in Nat, NEW s \in SUBSET (1..a)
  PROVE  /\ Highest(s) \in 0..a
         /\ Highest(s) = 0 <=> s = {}
         /\ s # {} => Highest(s) \in s /\ \A m \in s : m <= Highest(s)
<1>1. CASE s = {}
  BY <1>1 DEF Highest
<1>2. CASE s # {}
  <2> DEFINE down == {a - n : n \in s}
  <2>1. down \in SUBSET Nat /\ down # {}
    <3>1. PICK n \in s : TRUE
      BY <1>2
    <3>2. a - n \in down
      OBVIOUS
    <3>3. \A n1 \in s : a - n1 \in Nat
      OBVIOUS
    <3>4. QED
      BY <3>2, <3>3
  <2>2. PICK d \in down : \A e \in down : d <= e
    <3> HIDE DEF down
    <3>1. QED
      BY <2>1, LeastNatural
  <2>3. PICK n \in s : d = a - n
    BY <2>2
  <2>4. \A m \in s : m <= n
    <3> SUFFICES ASSUME NEW m \in s PROVE m <= n
      OBVIOUS
    <3>1. a - m \in down
      OBVIOUS
    <3>2. a - n <= a - m
      BY <2>2, <2>3, <3>1
    <3>3. QED
      BY <3>2
  <2>5. Highest(s) \in s /\ \A m \in s : m <= Highest(s)
    <3>1. \E h \in s : \A m \in s : m <= h
      BY <2>4
    <3>2. QED
      BY <1>2, <3>1 DEF Highest
  <2>6. Highest(s) \in 1..a
    BY <2>5
  <2>7. QED
    BY <1>2, <2>5, <2>6
<1>3. QED
  BY <1>1, <1>2

\* The latest success of one job's entries.
LastSuccess(entries, a) ==
  LET k == Highest({n \in 1..a : entries[n] # "none"})
  IN IF k # 0 /\ entries[k] = "success" THEN k ELSE 0

Unused(entries, k, a) == \A n \in (k + 1)..a : entries[n] = "none"

\* LatestSuccess in terms of the entries, so that it can be taken of the next
\* state's.
LEMMA LatestIsLast ==
  /\ \A j, a : LatestSuccess(j, a) = LastSuccess(job[j], a)
  /\ \A j, a : LatestSuccess(j, a)' = LastSuccess(job'[j], a)
  /\ \A j : Succeeded(j) <=> LastSuccess(job[j], attempt) # 0
  /\ \A j : Succeeded(j)' <=> LastSuccess(job'[j], attempt') # 0
BY DEF LatestSuccess, LastSuccess, Succeeded

\* The latest success up to an attempt is the last entry there.
LEMMA LastSuccessIs ==
  ASSUME NEW entries, NEW a \in Nat
  PROVE  /\ LastSuccess(entries, a) \in 0..a
         /\ \A k \in 1..a : LastSuccess(entries, a) = k <=>
              entries[k] = "success" /\ Unused(entries, k, a)
<1> DEFINE s == {n \in 1..a : entries[n] # "none"}
<1>1. /\ Highest(s) \in 0..a
      /\ Highest(s) = 0 <=> s = {}
      /\ s # {} => Highest(s) \in s /\ \A m \in s : m <= Highest(s)
  BY HighestIs
<1>2. LastSuccess(entries, a) =
        IF Highest(s) # 0 /\ entries[Highest(s)] = "success" THEN Highest(s) ELSE 0
  BY DEF LastSuccess
<1>3. ASSUME NEW k \in 1..a
      PROVE  LastSuccess(entries, a) = k <=>
               entries[k] = "success" /\ Unused(entries, k, a)
  <2>1. ASSUME entries[k] = "success", Unused(entries, k, a)
        PROVE  LastSuccess(entries, a) = k
    <3>1. k \in s /\ \A m \in s : m <= k
      BY <2>1 DEF Unused
    <3>2. Highest(s) = k
      BY <1>1, <3>1
    <3>3. QED
      BY <1>2, <2>1, <3>2
  <2>2. ASSUME LastSuccess(entries, a) = k
        PROVE  entries[k] = "success" /\ Unused(entries, k, a)
    <3>1. Highest(s) = k /\ entries[k] = "success"
      BY <1>2, <2>2
    <3>2. Unused(entries, k, a)
      BY <1>1, <3>1 DEF Unused
    <3>3. QED
      BY <3>1, <3>2
  <2>3. QED
    BY <2>1, <2>2
<1> HIDE DEF s
<1>4. LastSuccess(entries, a) \in 0..a
  BY <1>1, <1>2
<1>5. QED
  BY <1>3, <1>4

\* It depends on the entries up to the attempt only.
LEMMA LastSuccessSame ==
  ASSUME NEW entries, NEW others, NEW a \in Nat,
         \A n \in 1..a : others[n] = entries[n]
  PROVE  LastSuccess(others, a) = LastSuccess(entries, a)
<1>1. {n \in 1..a : others[n] # "none"} = {n \in 1..a : entries[n] # "none"}
  OBVIOUS
<1> DEFINE h == Highest({n \in 1..a : entries[n] # "none"})
<1>2. h \in 0..a
  BY HighestIs
<1>3. h # 0 => others[h] = entries[h]
  BY <1>2
<1>4. LastSuccess(others, a) = IF h # 0 /\ others[h] = "success" THEN h ELSE 0
  BY <1>1 DEF LastSuccess
<1>5. QED
  BY <1>3, <1>4 DEF LastSuccess

\* A job that is to run or runs has not succeeded.
LEMMA NotYetSucceeded ==
  ASSUME NEW entries, NEW a \in Nat \ {0}, entries[a] \notin {"none", "success"}
  PROVE  LastSuccess(entries, a) = 0
<1> SUFFICES ASSUME NEW k \in 1..a, entries[k] = "success", Unused(entries, k, a)
             PROVE  FALSE
  BY LastSuccessIs
<1>1. CASE k = a
  BY <1>1
<1>2. CASE k # a
  <2>1. a \in (k + 1)..a
    BY <1>2
  <2>2. QED
    BY <2>1 DEF Unused
<1>3. QED
  BY <1>1, <1>2

-----------------------------------------------------------------------------
(* What a step does to the jobs *)

Working == UNCHANGED <<attempt, concluded>>

\* A job goes on to its next step.
GoesOn(j) ==
  /\ Working /\ at[j] # "idle" /\ UNCHANGED job
  /\ \E step \in {"work", "upload", "finish"} : at' = [at EXCEPT ![j] = step]

\* A job ends.
Stops(j) ==
  /\ Working /\ at[j] # "idle" /\ at' = [at EXCEPT ![j] = "idle"]
  /\ \E result \in {"success", "failure"} :
       job' = [job EXCEPT ![j][attempt] = result]

Elsewhere == Working /\ UNCHANGED <<at, job>>

\* A step moves one job on, ends it or starts it, concludes the attempt,
\* begins another, or has nothing to do with the jobs.
LEMMA JobSteps ==
  ASSUME Next
  PROVE  \/ \E j \in Jobs : GoesOn(j) \/ Stops(j) \/ Start(j)
         \/ Conclude \/ Rerun \/ Elsewhere
<1> USE DEF Goes, Ends, CheckFails, Rest, GoesOn, Stops, Elsewhere, Working, Jobs
<1>1. CASE RunGate
  <2>1. "build" \in Jobs
    OBVIOUS
  <2>2. GoesOn("build") \/ Stops("build")
    BY <1>1 DEF RunGate
  <2>3. QED
    BY <2>1, <2>2
<1>2. CASE Bind \/ UploadUnsigned
  <2>1. GoesOn("seal") \/ Stops("seal")
    BY <1>2 DEF Bind, UploadUnsigned
  <2>2. QED
    BY <2>1
<1>3. CASE Attest
  <2>1. GoesOn("attest") \/ Stops("attest")
    BY <1>3 DEF Attest
  <2>2. QED
    BY <2>1
<1>4. CASE Verify
  <2>1. GoesOn("verify") \/ Stops("verify")
    BY <1>4 DEF Verify
  <2>2. QED
    BY <2>1
<1>5. CASE (\E p \in Platforms : RunCell(p)) \/ \E j \in Checked : UploadReceipt(j)
  <2>1. PICK p \in Checked : UploadReceipt(p) \/ (p \in Platforms /\ RunCell(p))
    BY <1>5 DEF Checked
  <2>2. p \in Jobs /\ (GoesOn(p) \/ Stops(p))
    BY <2>1 DEF RunCell, UploadReceipt, Checked
  <2>3. QED
    BY <2>2
<1>6. CASE \E j \in Jobs : Start(j) \/ Finish(j) \/ EndedFromOutside(j)
  BY <1>6 DEF Finish, EndedFromOutside
<1>7. CASE \E k \in Kinds, a \in Attempts : Expire(k, a)
  BY <1>7 DEF Expire, run
<1>8. CASE \E q \in Readers : Fetch(q)
  BY <1>8 DEF Fetch, ReadRun, ReadArtifacts, Download, ReadJobs, Reading, run
<1>9. QED
  BY <1>1, <1>2, <1>3, <1>4, <1>5, <1>6, <1>7, <1>8 DEF Next

LEMMA RunTypesNext == RunTypes /\ Next => RunTypes'
<1> SUFFICES ASSUME RunTypes, Next PROVE RunTypes'
  OBVIOUS
<1> USE CandidateAssumption DEF RunTypes, Attempts
<1>1. CASE \E j \in Jobs : GoesOn(j) \/ Stops(j) \/ Start(j)
  <2>1. PICK j \in Jobs : GoesOn(j) \/ Stops(j) \/ Start(j)
    BY <1>1
  <2>2. UNCHANGED <<attempt, concluded>>
    BY <2>1 DEF GoesOn, Stops, Start, Working, Rest
  <2>3. PICK step \in {"idle", "work", "upload", "finish"} : at' = [at EXCEPT ![j] = step]
    BY <2>1 DEF GoesOn, Stops, Start
  <2>4. CASE UNCHANGED job
    BY <2>2, <2>3, <2>4
  <2>5. CASE \E r \in {"success", "failure", "running"} :
               job' = [job EXCEPT ![j][attempt] = r]
    BY <2>2, <2>3, <2>5
  <2>6. QED
    BY <2>1, <2>4, <2>5 DEF GoesOn, Stops, Start
<1>2. CASE Conclude
  BY <1>2 DEF Conclude
<1>3. CASE Rerun
  BY <1>3 DEF Rerun
<1>4. CASE Elsewhere
  BY <1>4 DEF Elsewhere, Working
<1>5. QED
  BY <1>1, <1>2, <1>3, <1>4, JobSteps

\* The entries of earlier attempts never change, and of the current one only
\* those of jobs that are about to run or run.
LEMMA EntriesNext ==
  ASSUME RunTypes, RunningListed, Next
  PROVE  /\ attempt <= attempt'
         /\ \A j \in Jobs, n \in Attempts :
              /\ n < attempt => job'[j][n] = job[j][n]
              /\ n <= attempt => (job'[j][n] = "none" <=> job[j][n] = "none")
              /\ n <= attempt /\ job[j][n] = "success" => job'[j][n] = "success"
<1> USE CandidateAssumption DEF RunTypes, Attempts
<1>1. CASE \E j \in Jobs : GoesOn(j) \/ Stops(j) \/ Start(j)
  <2>1. PICK j \in Jobs : GoesOn(j) \/ Stops(j) \/ Start(j)
    BY <1>1
  <2>2. CASE UNCHANGED job
    BY <2>1, <2>2 DEF GoesOn, Stops, Start, Working, Rest
  <2>3. CASE Stops(j) \/ Start(j)
    <3>1. job[j][attempt] \in {"todo", "running"}
      BY <2>3 DEF Stops, Start, Startable, RunningListed
    <3>2. PICK r \in {"success", "failure", "running"} :
            job' = [job EXCEPT ![j][attempt] = r]
      BY <2>3 DEF Stops, Start
    <3>3. \A i \in Jobs, n \in Attempts :
            job'[i][n] = IF i = j /\ n = attempt THEN r ELSE job[i][n]
      BY <3>2
    <3>4. UNCHANGED attempt
      BY <2>3 DEF Stops, Start, Working, Rest
    <3>5. attempt \in Nat /\ attempt \in Attempts /\ Attempts \subseteq Nat
      OBVIOUS
    <3>6. job[j][attempt] # "none" /\ job[j][attempt] # "success" /\ r # "none"
      BY <3>1, <3>2
    <3>7. \A i \in Jobs, n \in Attempts :
            /\ n < attempt => job'[i][n] = job[i][n]
            /\ (job'[i][n] = "none" <=> job[i][n] = "none")
            /\ job[i][n] = "success" => job'[i][n] = "success"
      <4> TAKE i \in Jobs, n \in Attempts
      <4>1. n \in Nat /\ (n < attempt => n # attempt)
        BY <3>5
      <4> HIDE CandidateAssumption DEF RunTypes, Attempts
      <4>2. CASE i = j /\ n = attempt
        BY <3>3, <3>6, <4>1, <4>2
      <4>3. CASE ~(i = j /\ n = attempt)
        BY <3>3, <4>3
      <4>4. QED
        BY <4>2, <4>3
    <3>8. QED
      BY <3>4, <3>5, <3>7
  <2>4. QED
    BY <2>1, <2>2, <2>3 DEF GoesOn
<1>2. CASE Conclude
  BY <1>2 DEF Conclude
<1>3. CASE Rerun
  BY <1>3 DEF Rerun
<1>4. CASE Elsewhere
  BY <1>4 DEF Elsewhere, Working
<1>5. QED
  BY <1>1, <1>2, <1>3, <1>4, JobSteps

LEMMA ListedNext ==
  RunTypes /\ RunningListed /\ OneAttempt /\ Next => RunningListed' /\ OneAttempt'
<1> SUFFICES ASSUME RunTypes, RunningListed, OneAttempt, Next
             PROVE  RunningListed' /\ OneAttempt'
  OBVIOUS
<1> USE CandidateAssumption DEF RunTypes, Attempts, RunningListed, OneAttempt
<1>1. CASE \E j \in Jobs : GoesOn(j) \/ Stops(j) \/ Start(j)
  <2>1. PICK j \in Jobs : GoesOn(j) \/ Stops(j) \/ Start(j)
    BY <1>1
  <2>2. UNCHANGED <<attempt, concluded>>
    BY <2>1 DEF GoesOn, Stops, Start, Working, Rest
  <2>3. \A i \in Jobs \ {j} : at'[i] = at[i] /\ job'[i] = job[i]
    BY <2>1 DEF GoesOn, Stops, Start
  <2>4. at'[j] # "idle" => concluded[attempt] = "none" /\ job'[j][attempt] = "running"
    BY <2>1 DEF GoesOn, Stops, Start, Startable
  <2>5. QED
    BY <2>2, <2>3, <2>4
<1>2. CASE Conclude
  BY <1>2 DEF Conclude
<1>3. CASE Rerun
  BY <1>3 DEF Rerun, Conclude
<1>4. CASE Elsewhere
  BY <1>4 DEF Elsewhere, Working
<1>5. QED
  BY <1>1, <1>2, <1>3, <1>4, JobSteps

LEMMA NeedsAre ==
  /\ \A j \in Platforms \cup {"build"} : Needs(j) = {}
  /\ Needs("seal") = Platforms \cup {"build"}
  /\ Needs("attest") = {"seal"} /\ Needs("verify") = {"seal", "attest"}
  /\ \A j \in Jobs : Needs(j) \subseteq Jobs
BY CandidateAssumption DEF Needs, Jobs

\* A success stays one while the attempt is the same.
LEMMA SuccessStays ==
  ASSUME RunTypes, RunningListed, Next, UNCHANGED attempt, NEW j \in Jobs, Succeeded(j)
  PROVE  Succeeded(j)'
<1> USE CandidateAssumption DEF RunTypes, Attempts
<1>1. PICK k \in 1..attempt : job[j][k] = "success" /\ Unused(job[j], k, attempt)
  BY LatestIsLast, LastSuccessIs
<1>2. job'[j][k] = "success" /\ Unused(job'[j], k, attempt)
  BY <1>1, EntriesNext DEF Unused
<1>3. LastSuccess(job'[j], attempt) = k
  BY <1>2, LastSuccessIs
<1>4. QED
  BY <1>3, LatestIsLast

\* A job succeeds by ending.
LEMMA SuccessEnds ==
  ASSUME RunTypes, RunningListed, Next, UNCHANGED attempt, NEW j \in Jobs,
         Succeeded(j)', ~Succeeded(j)
  PROVE  at[j] # "idle"
<1> USE CandidateAssumption DEF RunTypes, Attempts
<1>1. PICK k \in 1..attempt : job'[j][k] = "success" /\ Unused(job'[j], k, attempt)
  <2>1. LastSuccess(job'[j], attempt) # 0
    BY LatestIsLast
  <2>2. QED
    BY <2>1, LastSuccessIs
<1>2. Unused(job[j], k, attempt)
  BY <1>1, EntriesNext DEF Unused
<1>3. job[j][k] # "success"
  BY <1>2, LatestIsLast, LastSuccessIs
<1>4. CASE \E i \in Jobs : GoesOn(i) \/ Stops(i) \/ Start(i)
  <2>1. PICK i \in Jobs : GoesOn(i) \/ Stops(i) \/ Start(i)
    BY <1>4
  <2>2. i = j
    BY <1>1, <1>3, <2>1 DEF GoesOn, Stops, Start
  <2>3. ~Start(j)
    BY <1>1, <1>3 DEF Start
  <2>4. QED
    BY <2>1, <2>2, <2>3 DEF GoesOn, Stops
<1>5. CASE Conclude
  BY <1>1, <1>3, <1>5 DEF Conclude
<1>6. CASE Rerun \/ Elsewhere
  BY <1>1, <1>3, <1>6 DEF Rerun, Elsewhere
<1>7. QED
  BY <1>4, <1>5, <1>6, JobSteps

LEMMA NeedsNext == Ordered /\ Next => NeedsSucceeded'
<1> SUFFICES ASSUME Ordered, Next, NEW j \in Jobs, NEW n \in Needs(j),
                    at'[j] # "idle" \/ Succeeded(j)'
             PROVE  Succeeded(n)'
  BY DEF NeedsSucceeded
<1> USE CandidateAssumption DEF Ordered
<1>1. n \in Jobs /\ attempt \in Nat \ {0}
  BY NeedsAre DEF RunTypes, Attempts
<1>2. CASE UNCHANGED attempt
  <2>1. at[j] # "idle" \/ Succeeded(j) \/ Start(j)
    <3>1. CASE Succeeded(j)'
      BY <1>2, <3>1, SuccessEnds
    <3>2. CASE at'[j] # "idle" /\ at[j] = "idle"
      BY <3>2, JobSteps DEF GoesOn, Stops, Start, Conclude, Rerun, Elsewhere, RunTypes
    <3>3. QED
      BY <3>1, <3>2
  <2>2. Succeeded(n)
    BY <2>1 DEF Start, Startable, NeedsSucceeded
  <2>3. QED
    BY <1>1, <1>2, <2>2, SuccessStays
<1>3. CASE Rerun
  <2>1. attempt' = attempt + 1 /\ at[j] = "idle" /\ at'[j] = "idle"
    BY <1>3 DEF Rerun, RunningListed, RunTypes, Attempts
  <2>2. PICK all \in BOOLEAN :
          job' = [i \in Jobs |-> [job[i] EXCEPT ![attempt + 1] =
                                   IF all \/ ~Succeeded(i) THEN "todo" ELSE "none"]]
    BY <1>3 DEF Rerun
  <2>3. attempt + 1 \in Attempts
    BY <1>3 DEF Rerun, RunTypes, Attempts
  <2>4. ~all /\ Succeeded(j)
    <3>1. job'[j][attempt + 1] # "todo"
      BY <1>1, <2>1, NotYetSucceeded, LatestIsLast
    <3>2. QED
      BY <2>2, <2>3, <3>1 DEF RunTypes
  <2>5. Succeeded(n)
    BY <2>4 DEF NeedsSucceeded
  <2>6. job'[n][attempt + 1] = "none" /\ \A m \in 1..attempt : job'[n][m] = job[n][m]
    BY <1>1, <2>2, <2>3, <2>4, <2>5 DEF RunTypes, Attempts
  <2>7. PICK k \in 1..attempt : job[n][k] = "success" /\ Unused(job[n], k, attempt)
    BY <1>1, <2>5, LatestIsLast, LastSuccessIs
  <2>8. job'[n][k] = "success" /\ Unused(job'[n], k, attempt + 1)
    BY <1>1, <2>6, <2>7 DEF Unused
  <2>9. LastSuccess(job'[n], attempt + 1) = k
    BY <1>1, <2>8, LastSuccessIs
  <2>10. QED
    BY <2>1, <2>9, LatestIsLast
<1>4. QED
  BY <1>2, <1>3, JobSteps DEF GoesOn, Stops, Start, Rest, Working, Conclude, Elsewhere

\* The seal, attest and verify jobs run alone.
LEMMA RunAlone ==
  ASSUME Ordered, NEW j \in {"seal", "attest", "verify"}, at[j] # "idle",
         NEW k \in Jobs \ {j}
  PROVE  at[k] = "idle"
<1> USE CandidateAssumption DEF Ordered
<1>1. j \in Jobs /\ attempt \in Nat \ {0}
  BY DEF Jobs, RunTypes, Attempts
<1>2. \A i \in Jobs : at[i] # "idle" => ~Succeeded(i)
  BY <1>1, NotYetSucceeded, LatestIsLast DEF RunningListed
<1>3. \A i \in Jobs : at[i] # "idle" \/ Succeeded(i) => \A n \in Needs(i) : Succeeded(n)
  BY DEF NeedsSucceeded
<1>4. "seal" \in Jobs /\ "attest" \in Jobs /\ "verify" \in Jobs
  BY DEF Jobs
<1>5. k \in Platforms \cup {"build", "seal", "attest", "verify"}
  BY DEF Jobs
<1>6. CASE j = "seal"
  BY <1>2, <1>3, <1>4, <1>5, <1>6, NeedsAre
<1>7. CASE j = "attest"
  BY <1>2, <1>3, <1>4, <1>5, <1>7, NeedsAre
<1>8. CASE j = "verify"
  BY <1>2, <1>3, <1>4, <1>5, <1>8, NeedsAre
<1>9. QED
  BY <1>6, <1>7, <1>8

-----------------------------------------------------------------------------
(* The evidence *)

LEMMA NamesDiffer ==
  /\ {"build", "seal", "attest", "verify"} \subseteq Jobs
  /\ {"build", "unsigned", "candidate"} \subseteq Kinds
  /\ Platforms \subseteq Jobs /\ Platforms \subseteq Kinds
  /\ Platforms \cap {"build", "seal", "attest", "verify", "unsigned", "candidate"} = {}
BY CandidateAssumption DEF Jobs, Kinds, Checked

\* Uploading good content keeps every artifact good.
LEMMA UploadGood ==
  ASSUME ArtifactsGood, attempt \in Attempts, NEW k \in Kinds, NEW content,
         Uploads(k, content),
         content \notin {None, Gone} => GoodContent(k, content)
  PROVE  ArtifactsGood'
<1>1. \A l \in Kinds, a \in Attempts :
        artifact'[l][a] = IF l = k /\ a = attempt THEN content ELSE artifact[l][a]
  BY DEF Uploads, ArtifactsGood
<1>2. artifact' = [l \in Kinds |-> [a \in Attempts |-> artifact'[l][a]]]
  BY DEF Uploads, ArtifactsGood
<1>3. ASSUME NEW l \in Kinds, NEW a \in Attempts, artifact'[l][a] \notin {None, Gone}
      PROVE  GoodContent(l, artifact'[l][a])
  BY <1>1, <1>3 DEF ArtifactsGood, Held
<1>4. QED
  BY <1>2, <1>3 DEF ArtifactsGood, Held, GoodContent, Good

\* When the attest job runs, the output of the seal job names an attempt.
LEMMA SealedHeld ==
  ASSUME Ordered, SealedNamed, at["attest"] # "idle"
  PROVE  sealed \in Attempts
<1>1. Succeeded("seal")
  BY NeedsAre, NamesDiffer DEF Ordered, NeedsSucceeded
<1>2. PICK k \in 1..attempt : job["seal"][k] = "success"
  BY <1>1, LatestIsLast, LastSuccessIs DEF Ordered, RunTypes, Attempts
<1>3. k \in Attempts
  BY CandidateAssumption DEF Ordered, RunTypes, Attempts
<1>4. QED
  BY <1>2, <1>3 DEF SealedNamed

LEMMA ArtifactsNext ==
  ASSUME Ordered, Kept, Next
  PROVE  ArtifactsGood'
<1> USE NamesDiffer DEF Ordered, Kept, RunTypes
<1>1. ASSUME NEW j \in Checked, Uploads(j, attempt)
      PROVE  ArtifactsGood'
  <2>1. j \in Kinds /\ GoodContent(j, attempt)
    BY DEF Kinds, Checked, GoodContent
  <2>2. QED
    BY <1>1, <2>1, UploadGood
<1>2. CASE UploadUnsigned
  <2>1. GoodContent("unsigned", binding) /\ Uploads("unsigned", binding)
    BY <1>2 DEF UploadUnsigned, BindingGood, GoodContent
  <2>2. QED
    BY <2>1, UploadGood
<1>3. CASE Attest
  <2>1. sealed \in Attempts
    BY <1>3, SealedHeld DEF Attest
  <2>2. CASE UNCHANGED artifact
    BY <2>2 DEF ArtifactsGood, Held
  <2>3. CASE Uploads("candidate", artifact["unsigned"][sealed])
    <3> DEFINE c == artifact["unsigned"][sealed]
    <3>1. c \notin {None, Gone} => GoodContent("candidate", c)
      BY <2>1 DEF ArtifactsGood, Held, GoodContent
    <3>2. Uploads("candidate", c)
      BY <2>3
    <3> HIDE DEF c
    <3>3. QED
      BY <3>1, <3>2, UploadGood
  <2>4. QED
    BY <1>3, <2>2, <2>3 DEF Attest
<1>4. CASE \E k \in Kinds, a \in Attempts : Expire(k, a)
  <2>1. PICK k \in Kinds, a \in Attempts : Expire(k, a)
    BY <1>4
  <2>2. \A l \in Kinds, b \in Attempts :
          artifact'[l][b] = IF l = k /\ b = a THEN Gone ELSE artifact[l][b]
    BY <2>1 DEF Expire, ArtifactsGood
  <2>3. artifact' = [l \in Kinds |-> [b \in Attempts |-> artifact'[l][b]]]
    BY <2>1 DEF Expire, ArtifactsGood
  <2>4. \A l \in Kinds, b \in Attempts :
          artifact'[l][b] \notin {None, Gone} => GoodContent(l, artifact'[l][b])
    BY <2>2 DEF ArtifactsGood, Held
  <2>5. QED
    BY <2>3, <2>4 DEF ArtifactsGood, Held, GoodContent, Good
<1>5. CASE UNCHANGED artifact
  BY <1>5 DEF ArtifactsGood, Held
<1>6. QED
  BY <1>1, <1>2, <1>3, <1>4, <1>5
  DEF Next, UploadReceipt, RunGate, Bind, Verify, RunCell, Start, Finish,
      EndedFromOutside, Conclude, Rerun, Fetch, ReadRun, ReadArtifacts, Download,
      ReadJobs, Reading

\* The artifact a listing selects has not expired.
LEMMA SelectedHeld ==
  ASSUME NEW k, NEW a \in Nat, SelectArtifact(k, a) # 0
  PROVE  SelectArtifact(k, a) \in 1..a /\ Held(k, SelectArtifact(k, a))
<1> DEFINE s == {n \in 1..a : artifact[k][n] \notin {None, Gone}}
<1>1. s \in SUBSET (1..a) /\ SelectArtifact(k, a) = Highest(s)
  BY DEF SelectArtifact
<1>2. Highest(s) \in s
  BY <1>1, HighestIs
<1>3. QED
  BY <1>1, <1>2 DEF Held

\* What stage binds names attempts: every input is the receipt of its producer.
LEMMA BindGood ==
  ASSUME Ordered, Kept, Bind, at'["seal"] = "upload"
  PROVE  Good(binding')
<1> USE NamesDiffer DEF Ordered, Kept, RunTypes
<1> DEFINE chosen == [k \in Checked |-> SelectArtifact(k, attempt)]
<1>1. /\ \A k \in Checked : chosen[k] # 0 /\ artifact[k][chosen[k]] = chosen[k]
      /\ binding' = [attempt  |-> attempt,
                      gates    |-> artifact["build"][chosen["build"]],
                      runtimes |-> [p \in Platforms |-> artifact[p][chosen[p]]]]
  BY DEF Bind, Ends
<1>2. attempt \in Nat /\ \A n \in 1..attempt : n \in Attempts
  BY CandidateAssumption DEF Attempts
<1>3. \A k \in Checked : chosen[k] \in Attempts
  <2> SUFFICES ASSUME NEW k \in Checked PROVE chosen[k] \in Attempts
    OBVIOUS
  <2>1. chosen[k] \in 1..attempt
    BY <1>1, <1>2, SelectedHeld
  <2>2. QED
    BY <1>2, <2>1
<1> HIDE DEF chosen
<1>4. "build" \in Checked /\ \A p \in Platforms : p \in Checked
  BY DEF Checked
<1>5. QED
  BY <1>1, <1>3, <1>4 DEF Good

LEMMA BindingNext ==
  ASSUME Ordered, Kept, Next
  PROVE  BindingGood'
<1> USE NamesDiffer DEF Ordered, Kept, RunTypes, BindingGood, Goes, Ends, CheckFails,
        Rest
<1>0. Good(binding) /\ UNCHANGED binding => Good(binding')
  BY DEF Good
<1>1. CASE Bind
  BY <1>0, <1>1, BindGood DEF Bind
<1>2. CASE RunGate \/ UploadUnsigned \/ Attest \/ Verify
  BY <1>0, <1>2 DEF RunGate, UploadUnsigned, Attest, Verify
<1>3. ASSUME NEW p \in Platforms, RunCell(p)
      PROVE  BindingGood'
  BY <1>0, <1>3 DEF RunCell
<1>4. ASSUME NEW j \in Checked, UploadReceipt(j)
      PROVE  BindingGood'
  BY <1>0, <1>4 DEF UploadReceipt
<1>5. CASE \E j \in Jobs : Start(j) \/ Finish(j) \/ EndedFromOutside(j)
  BY <1>0, <1>5 DEF Start, Finish, EndedFromOutside
<1>6. CASE Conclude \/ Rerun
  BY <1>0, <1>6 DEF Conclude, Rerun
<1>7. CASE \E k \in Kinds, a \in Attempts : Expire(k, a)
  BY <1>0, <1>7 DEF Expire, run
<1>8. CASE \E q \in Readers : Fetch(q)
  BY <1>0, <1>8 DEF Fetch, ReadRun, ReadArtifacts, Download, ReadJobs, Reading, run
<1>9. QED
  BY <1>1, <1>2, <1>3, <1>4, <1>5, <1>6, <1>7, <1>8 DEF Next

\* A check that passes keeps what is known of its job's evidence.
LEMMA PassesSound ==
  ASSUME NEW j \in Checked, NEW e, Sound(j, e), e.done < CheckCount(j),
         NEW dirty \in BOOLEAN, NEW d \in SUBSET {"killed", "survived", "discharged"},
         j = "build" => ~dirty,
         j \in Platforms => d # {} /\ ~(dirty /\ e.done + 1 = CellCount)
  PROVE  Sound(j, [done |-> e.done + 1,
                   drifted |-> IF dirty THEN e.drifted \cup {e.done + 1} ELSE e.drifted,
                   decided |-> e.decided \cup d])
<1>1. CheckCount(j) \in Nat /\ e.done \in Nat
  BY CandidateAssumption DEF CheckCount, Sound
<1>2. e.done + 1 \in 1..CheckCount(j)
  BY <1>1
<1>3. QED
  BY <1>1, <1>2 DEF Sound

\* A step leaves the evidence and its jobs alone, or is one of a gates or
\* runtime job in the current attempt.
EvidenceStays ==
  /\ UNCHANGED <<evidence, attempt>>
  /\ \A j \in Checked : at'[j] = "finish" => at[j] = "finish"
  /\ \A j \in Checked, a \in Attempts : job'[j][a] = "success" => job[j][a] = "success"

LEMMA StaysGood ==
  ASSUME EvidenceGood, EvidenceStays
  PROVE  EvidenceGood'
BY DEF EvidenceGood, EvidenceStays, Sound, Done

\* The evidence of one job in the current attempt is replaced.
LEMMA ReplacedGood ==
  ASSUME EvidenceGood, RunTypes, NEW j \in Checked, NEW e, Sound(j, e),
         evidence' = [evidence EXCEPT ![j][attempt] = e], UNCHANGED attempt,
         job'[j][attempt] # "success", at'[j] # "finish",
         \A i \in Checked : i # j => at'[i] = at[i] /\ job'[i] = job[i],
         \A a \in Attempts : a # attempt => job'[j][a] = job[j][a]
  PROVE  EvidenceGood'
<1>1. \A i \in Checked, a \in Attempts :
        evidence'[i][a] = IF i = j /\ a = attempt THEN e ELSE evidence[i][a]
  BY DEF EvidenceGood, RunTypes
<1>2. evidence' = [i \in Checked |-> [a \in Attempts |-> evidence'[i][a]]]
  BY DEF EvidenceGood
<1>3. \A i \in Checked, a \in Attempts : Sound(i, evidence'[i][a])
  BY <1>1 DEF EvidenceGood
<1>4. \A i \in Checked : at'[i] = "finish" => evidence'[i][attempt].done = CheckCount(i)
  BY <1>1 DEF EvidenceGood, RunTypes, Done
<1>5. \A i \in Checked, a \in Attempts :
        job'[i][a] = "success" => evidence'[i][a].done = CheckCount(i)
  BY <1>1 DEF EvidenceGood
<1>6. QED
  BY <1>2, <1>3, <1>4, <1>5 DEF EvidenceGood, Sound, Done

LEMMA EvidenceNext ==
  ASSUME Ordered, Kept, Next
  PROVE  EvidenceGood'
<1> USE NamesDiffer DEF Ordered, Kept, RunTypes
<1>0. /\ EvidenceGood /\ RunTypes
      /\ \A j \in Checked : j \in Jobs /\ j \notin {"seal", "attest", "verify"}
  BY DEF Jobs, Checked
<1>1. ASSUME NEW j \in Checked, Ends(j, "failure"), UNCHANGED attempt
      PROVE  EvidenceGood'
  <2>1. Sound(j, NoChecks)
    BY CandidateAssumption DEF Sound, NoChecks, CheckCount
  <2>2. /\ evidence' = [evidence EXCEPT ![j][attempt] = NoChecks]
        /\ at' = [at EXCEPT ![j] = "idle"]
        /\ job' = [job EXCEPT ![j][attempt] = "failure"]
    BY <1>1 DEF Ends
  <2>3. QED
    BY <1>0, <1>1, <2>1, <2>2, ReplacedGood
<1>2. ASSUME NEW j \in Checked, NEW dirty \in BOOLEAN,
             NEW d \in SUBSET {"killed", "survived", "discharged"},
             at[j] = "work", Done(j) < CheckCount(j), Passes(j, dirty, d),
             Goes(j, "work"), UNCHANGED attempt,
             j = "build" => ~dirty,
             j \in Platforms => d # {} /\ ~(dirty /\ Done(j) + 1 = CellCount)
      PROVE  EvidenceGood'
  <2> DEFINE e == evidence[j][attempt]
             f == [done |-> e.done + 1,
                   drifted |-> IF dirty THEN e.drifted \cup {e.done + 1} ELSE e.drifted,
                   decided |-> e.decided \cup d]
  <2>1. Sound(j, e)
    BY <1>0 DEF EvidenceGood
  <2>2. Sound(j, f)
    BY <1>2, <2>1, PassesSound DEF Done
  <2>3. evidence' = [evidence EXCEPT ![j][attempt] = f]
    BY <1>2 DEF Passes
  <2>4. /\ at' = [at EXCEPT ![j] = "work"] /\ job' = job
        /\ job[j][attempt] = "running"
    BY <1>0, <1>2 DEF Goes, RunningListed
  <2> HIDE DEF f
  <2>5. QED
    BY <1>0, <1>2, <2>2, <2>3, <2>4, ReplacedGood
<1>3. CASE RunGate
  <2>1. PICK passed \in BOOLEAN, dirty \in BOOLEAN :
          \/ ~dirty /\ Passes("build", dirty, {}) /\ Goes("build", "work")
          \/ Ends("build", "failure")
    BY <1>3 DEF RunGate, Identified, CheckFails
  <2>2. /\ "build" \in Checked /\ "build" \notin Platforms /\ at["build"] = "work"
        /\ Done("build") < CheckCount("build") /\ UNCHANGED attempt
    BY <1>3 DEF RunGate, Checked, CheckCount
  <2>3. QED
    BY <1>1, <1>2, <2>1, <2>2
<1>4. ASSUME NEW p \in Platforms, RunCell(p)
      PROVE  EvidenceGood'
  <2>1. PICK d \in Decisions, dirty \in BOOLEAN :
          \/ /\ Conclusive(d) /\ ~(dirty /\ Done(p) + 1 = CellCount)
             /\ Passes(p, dirty, d) /\ Goes(p, "work")
          \/ Ends(p, "failure")
    BY <1>4 DEF RunCell, CheckFails
  <2>2. /\ p \in Checked /\ p # "build" /\ at[p] = "work"
        /\ Done(p) < CheckCount(p) /\ UNCHANGED attempt
    BY <1>4 DEF RunCell, Checked, CheckCount
  <2>3. Conclusive(d) => d # {} /\ d \in SUBSET {"killed", "survived", "discharged"}
    BY CandidateAssumption DEF Conclusive, Ways
  <2>4. QED
    BY <1>1, <1>2, <2>1, <2>2, <2>3
<1>5. ASSUME NEW j \in Checked, UploadReceipt(j)
      PROVE  EvidenceGood'
  <2>1. /\ UNCHANGED <<evidence, attempt, job>> /\ Done(j) = CheckCount(j)
        /\ at' = [at EXCEPT ![j] = "finish"]
    BY <1>5 DEF UploadReceipt, Goes, Rest
  <2>2. QED
    BY <1>0, <2>1 DEF EvidenceGood, Sound, Done
<1>6. ASSUME NEW j \in Jobs, Finish(j)
      PROVE  EvidenceGood'
  <2>1. /\ UNCHANGED <<evidence, attempt>> /\ at[j] = "finish"
        /\ at' = [at EXCEPT ![j] = "idle"]
        /\ job' = [job EXCEPT ![j][attempt] = "success"]
    BY <1>6 DEF Finish, Ends, Rest
  <2>2. j \in Checked => evidence[j][attempt].done = CheckCount(j)
    BY <1>0, <2>1 DEF EvidenceGood, Done
  <2>3. \A i \in Checked, a \in Attempts :
          job'[i][a] = "success" =>
            job[i][a] = "success" \/ (i = j /\ a = attempt)
    BY <1>0, <2>1
  <2>4. \A i \in Checked : at'[i] = "finish" => at[i] = "finish"
    BY <1>0, <2>1
  <2>5. QED
    BY <1>0, <2>1, <2>2, <2>3, <2>4 DEF EvidenceGood, Sound, Done
<1>7. ASSUME NEW j \in Jobs, EndedFromOutside(j)
      PROVE  EvidenceGood'
  <2>1. Ends(j, "failure") /\ UNCHANGED attempt
    BY <1>7 DEF EndedFromOutside, CheckFails
  <2>2. CASE j \in Checked
    BY <1>1, <2>1, <2>2
  <2>3. CASE j \notin Checked
    <3>1. EvidenceStays
      BY <1>0, <2>1, <2>3 DEF Ends, EvidenceStays
    <3>2. QED
      BY <1>0, <3>1, StaysGood
  <2>4. QED
    BY <2>2, <2>3
<1>8. CASE Bind \/ UploadUnsigned \/ Attest \/ Verify
  <2>1. UNCHANGED <<evidence, attempt>>
    BY <1>0, <1>8 DEF Bind, UploadUnsigned, Attest, Verify, Ends, Rest, Checked
  <2>2. PICK j \in {"seal", "attest", "verify"} :
          /\ \E step \in {"upload", "finish", "idle"} : at' = [at EXCEPT ![j] = step]
          /\ UNCHANGED job \/ job' = [job EXCEPT ![j][attempt] = "failure"]
    BY <1>8 DEF Bind, UploadUnsigned, Attest, Verify, Goes, Ends
  <2>3. EvidenceStays
    BY <1>0, <2>1, <2>2 DEF EvidenceStays
  <2>4. QED
    BY <1>0, <2>3, StaysGood
<1>9. ASSUME NEW j \in Jobs, Start(j)
      PROVE  EvidenceGood'
  <2>1. EvidenceStays
    BY <1>0, <1>9 DEF Start, Rest, EvidenceStays
  <2>2. QED
    BY <1>0, <2>1, StaysGood
<1>10. CASE Conclude
  <2>1. EvidenceStays
    BY <1>0, <1>10 DEF Conclude, EvidenceStays
  <2>2. QED
    BY <1>0, <2>1, StaysGood
<1>11. CASE Rerun
  <2>1. /\ UNCHANGED <<evidence, at>> /\ attempt' = attempt + 1
        /\ \A j \in Jobs, a \in Attempts : job'[j][a] = "success" => job[j][a] = "success"
    BY <1>0, <1>11 DEF Rerun
  <2>2. \A j \in Jobs : at[j] = "idle"
    BY <1>0, <1>11 DEF Rerun, RunningListed
  <2>3. QED
    BY <1>0, <2>1, <2>2 DEF EvidenceGood, Sound, Done
<1>12. CASE (\E k \in Kinds, a \in Attempts : Expire(k, a)) \/ \E q \in Readers : Fetch(q)
  <2>1. EvidenceStays
    BY <1>12 DEF Expire, Fetch, ReadRun, ReadArtifacts, Download, ReadJobs, Reading, run,
                 EvidenceStays
  <2>2. QED
    BY <1>0, <2>1, StaysGood
<1>13. QED
  BY <1>3, <1>4, <1>5, <1>6, <1>7, <1>8, <1>9, <1>10, <1>11, <1>12 DEF Next

\* Only a seal job that has uploaded succeeds.
LEMMA SealNext ==
  ASSUME Ordered, Kept, Next
  PROVE  SealedNamed'
<1> USE NamesDiffer DEF Ordered, Kept, RunTypes, Goes, Ends, CheckFails, Rest
<1> DEFINE Quiet ==
      /\ UNCHANGED sealed
      /\ at'["seal"] = "finish" => at["seal"] = "finish"
      /\ \A a \in Attempts : job'["seal"][a] = "success" =>
           job["seal"][a] = "success" \/ at["seal"] = "finish"
<1>1. ASSUME Quiet PROVE SealedNamed'
  BY <1>1 DEF SealedNamed
<1>2. CASE UploadUnsigned
  BY <1>2, CandidateAssumption DEF UploadUnsigned, BindingGood, Good, SealedNamed, Attempts
<1>3. CASE RunGate \/ Bind \/ Attest \/ Verify
  <2>1. ASSUME RunGate PROVE Quiet
    BY <2>1 DEF RunGate
  <2>2. ASSUME Bind PROVE Quiet
    <3>1. /\ UNCHANGED sealed
          /\ \E step \in {"upload", "idle"} : at' = [at EXCEPT !["seal"] = step]
          /\ UNCHANGED job \/ job' = [job EXCEPT !["seal"][attempt] = "failure"]
      BY <2>2 DEF Bind
    <3>2. QED
      BY <3>1
  <2>3. ASSUME Attest \/ Verify PROVE Quiet
    BY <2>3 DEF Attest, Verify
  <2>4. QED
    BY <1>1, <1>3, <2>1, <2>2, <2>3
<1>4. CASE (\E p \in Platforms : RunCell(p)) \/ \E j \in Checked : UploadReceipt(j)
  <2>1. Quiet
    BY <1>4 DEF RunCell, UploadReceipt, Checked
  <2>2. QED
    BY <1>1, <2>1
<1>5. CASE \E j \in Jobs : Start(j) \/ Finish(j) \/ EndedFromOutside(j)
  <2>1. PICK j \in Jobs : Start(j) \/ Finish(j) \/ EndedFromOutside(j)
    BY <1>5
  <2>2. CASE j = "seal"
    <3>1. Quiet
      BY <2>1, <2>2 DEF Start, Finish, EndedFromOutside
    <3>2. QED
      BY <1>1, <3>1
  <2>3. CASE j # "seal"
    <3>1. Quiet
      BY <2>1, <2>3 DEF Start, Finish, EndedFromOutside
    <3>2. QED
      BY <1>1, <3>1
  <2>4. QED
    BY <2>2, <2>3
<1>6. CASE Conclude \/ Rerun
  <2>1. Quiet
    BY <1>6 DEF Conclude, Rerun
  <2>2. QED
    BY <1>1, <2>1
<1>7. CASE \E k \in Kinds, a \in Attempts : Expire(k, a)
  <2>1. Quiet
    BY <1>7 DEF Expire, run
  <2>2. QED
    BY <1>1, <2>1
<1>8. CASE \E q \in Readers : Fetch(q)
  <2>1. Quiet
    BY <1>8 DEF Fetch, ReadRun, ReadArtifacts, Download, ReadJobs, Reading, run
  <2>2. QED
    BY <1>1, <2>1
<1>9. QED
  BY <1>2, <1>3, <1>4, <1>5, <1>6, <1>7, <1>8 DEF Next

-----------------------------------------------------------------------------
(* The fetches *)

\* The listings of a concluded attempt stay as they are.
LEMMA ConcludedFixed ==
  ASSUME Ordered, Next, NEW w \in 1..attempt, concluded[w] # "none"
  PROVE  /\ w \in 1..attempt' /\ concluded'[w] = concluded[w]
         /\ \A j \in Jobs, n \in 1..w : job'[j][n] = job[j][n]
<1> USE CandidateAssumption DEF Ordered, RunTypes, RunningListed, Attempts
<1>1. attempt' \in Attempts /\ attempt <= attempt'
  BY RunTypesNext, EntriesNext
<1>2. CASE \E j \in Jobs : GoesOn(j) \/ Stops(j) \/ Start(j)
  <2>1. PICK j \in Jobs : GoesOn(j) \/ Stops(j) \/ Start(j)
    BY <1>2
  <2>2. concluded[attempt] = "none" /\ UNCHANGED <<attempt, concluded>>
    BY <2>1 DEF GoesOn, Stops, Start, Startable, Working, Rest
  <2>3. w < attempt
    BY <2>2
  <2>4. QED
    BY <2>2, <2>3, EntriesNext
<1>3. CASE Conclude
  <2>1. w < attempt
    BY <1>3 DEF Conclude
  <2>2. QED
    BY <1>3, <2>1, EntriesNext DEF Conclude
<1>4. CASE Rerun
  <2>1. \A j \in Jobs, n \in 1..w : job'[j][n] = job[j][n]
    BY <1>4 DEF Rerun
  <2>2. QED
    BY <1>1, <1>4, <2>1 DEF Rerun
<1>5. CASE Elsewhere
  BY <1>5 DEF Elsewhere, Working
<1>6. QED
  BY <1>2, <1>3, <1>4, <1>5, JobSteps

\* A candidate of a concluded attempt may expire but is not replaced.
LEMMA CandidatesStay ==
  ASSUME Ordered, Kept, Next, NEW w \in 1..attempt, concluded[w] # "none",
         NEW n \in 1..w, artifact["candidate"][n] # None
  PROVE  artifact'["candidate"][n] # None
<1> USE NamesDiffer, CandidateAssumption
    DEF Ordered, Kept, RunTypes, ArtifactsGood, Attempts
<1>1. CASE \E k \in Kinds \ {"candidate"} : \E content : Uploads(k, content)
  BY <1>1 DEF Uploads
<1>2. CASE Attest
  <2>1. n # attempt
    BY <1>2 DEF Attest, RunningListed
  <2>2. QED
    BY <1>2, <2>1 DEF Attest, Uploads
<1>3. CASE \E k \in Kinds, a \in Attempts : Expire(k, a)
  <2>1. PICK k \in Kinds, a \in Attempts : artifact' = [artifact EXCEPT ![k][a] = Gone]
    BY <1>3 DEF Expire
  <2>2. \A l \in Kinds, b \in Attempts :
          artifact'[l][b] = IF l = k /\ b = a THEN Gone ELSE artifact[l][b]
    BY <2>1
  <2>3. QED
    BY <2>2
<1>4. CASE UNCHANGED artifact
  BY <1>4
<1>5. QED
  BY <1>1, <1>2, <1>3, <1>4
  DEF Next, UploadReceipt, Checked, UploadUnsigned, RunGate, Bind, Verify, RunCell,
      Start, Finish, EndedFromOutside, Conclude, Rerun, Fetch, ReadRun, ReadArtifacts,
      Download, ReadJobs, Reading

\* What a fetch has compared stays so.
LEMMA MatchStays ==
  ASSUME Ordered, Next, NEW w \in 1..attempt, concluded[w] # "none",
         NEW c, NEW producer, ProducersMatch(c, producer, w)
  PROVE  ProducersMatch(c, producer, w)'
<1>1. \A j \in Jobs : LatestSuccess(j, w)' = LatestSuccess(j, w)
  <2>1. w \in Nat
    BY CandidateAssumption DEF Ordered, RunTypes, Attempts
  <2>2. QED
    BY <2>1, ConcludedFixed, LastSuccessSame, LatestIsLast
<1>2. QED
  BY <1>1, NamesDiffer DEF ProducersMatch

LEMMA ReadersNext ==
  ASSUME Ordered, Kept, Followed, Next
  PROVE  Followed'
<1> USE NamesDiffer DEF Ordered, Kept, RunTypes
<1>0. /\ attempt \in Nat /\ attempt' \in Nat /\ MaxAttempts \in Nat
      /\ \A n \in 1..attempt : n \in Attempts
      /\ \A n \in 1..attempt : n \in 0..MaxAttempts
  BY CandidateAssumption, RunTypesNext DEF Attempts
<1>1. ASSUME NEW r, ReaderFollows(r) PROVE ReaderFollows(r)'
  <2>1. r.at # "run" => r.want \in 1..attempt' /\ concluded'[r.want] = "success"
    BY <1>1, ConcludedFixed DEF ReaderFollows
  <2>2. r.at = "download" => artifact'["candidate"][r.producer] # None
    BY <1>1, CandidatesStay DEF ReaderFollows
  <2>3. r.at = "fetched" => ProducersMatch(r.candidate, r.producer, r.want)'
    BY <1>1, MatchStays DEF ReaderFollows
  <2>4. QED
    BY <1>1, <2>1, <2>2, <2>3 DEF ReaderFollows, Good
<1>2. CASE UNCHANGED reader
  BY <1>1, <1>2 DEF Followed, ReaderTypes
<1>3. CASE \E q \in Readers : Fetch(q)
  <2>1. PICK q \in Readers : Fetch(q)
    BY <1>3
  <2> DEFINE r == reader[q]
  <2>2. /\ r = [want |-> r.want, at |-> r.at, producer |-> r.producer,
                candidate |-> r.candidate]
        /\ ReaderFollows(r) /\ r.at \in ReaderSteps
    BY DEF Followed, ReaderTypes
  <2>3. UNCHANGED <<attempt, concluded, job, artifact>>
    BY <2>1 DEF Fetch, ReadRun, ReadArtifacts, Download, ReadJobs, Reading, run
  <2>4. ASSUME NEW s, ReaderFollows(s) PROVE ReaderFollows(s)'
    BY <1>1, <2>4
  <2>5. ASSUME NEW s, reader' = [reader EXCEPT ![q] = s],
               s = [want |-> s.want, at |-> s.at, producer |-> s.producer,
                    candidate |-> s.candidate],
               s.at \in ReaderSteps, ReaderFollows(s)
        PROVE  Followed'
    BY <1>1, <2>5 DEF Followed, ReaderTypes
  <2>6. CASE reader' = [reader EXCEPT ![q] = NotFetched]
    <3>1. ReaderFollows(NotFetched) /\ NotFetched.at \in ReaderSteps
      BY <1>0 DEF ReaderFollows, NotFetched, ReaderSteps
    <3>2. NotFetched = [want |-> NotFetched.want, at |-> NotFetched.at,
                        producer |-> NotFetched.producer,
                        candidate |-> NotFetched.candidate]
      BY DEF NotFetched
    <3>3. QED
      BY <2>5, <2>6, <3>1, <3>2
  <2>7. CASE ReadRun(q)
    <3> DEFINE s == [want |-> attempt, at |-> "artifacts", producer |-> r.producer,
                     candidate |-> r.candidate]
    <3>1. reader' = [reader EXCEPT ![q] = s]
      <4>1. reader' = [reader EXCEPT ![q].want = attempt, ![q].at = "artifacts"]
        BY <2>7 DEF ReadRun
      <4>2. reader = [x \in Readers |-> reader[x]]
        BY DEF Followed, ReaderTypes
      <4>3. reader'[q] = s
        BY <2>2, <4>1, <4>2
      <4>4. /\ reader' = [x \in Readers |-> reader'[x]]
            /\ \A x \in Readers \ {q} : reader'[x] = reader[x]
        BY <4>1, <4>2
      <4> HIDE DEF s
      <4>5. QED
        BY <4>2, <4>3, <4>4
    <3>2. ReaderFollows(s)
      BY <1>0, <2>2, <2>7, CandidateAssumption DEF ReadRun, ReaderFollows, Attempts
    <3>3. QED
      BY <2>5, <3>1, <3>2 DEF ReaderSteps
  <2>8. CASE ReadArtifacts(q) /\ reader' # [reader EXCEPT ![q] = NotFetched]
    <3> DEFINE k == SelectArtifact("candidate", r.want)
    <3> DEFINE s == [want |-> r.want, at |-> "download", producer |-> k,
                     candidate |-> r.candidate]
    <3>1. reader' = [reader EXCEPT ![q] = s] /\ k # 0 /\ r.at = "artifacts"
      BY <2>2, <2>8 DEF ReadArtifacts, FetchFails
    <3>2. r.want \in 1..attempt /\ concluded[r.want] = "success" /\ r.want \in Nat
      BY <1>0, <2>2, <3>1 DEF ReaderFollows
    <3>3. k \in 1..r.want /\ Held("candidate", k)
      BY <3>1, <3>2, SelectedHeld
    <3>4. ReaderFollows(s)
      BY <1>0, <3>2, <3>3 DEF ReaderFollows, Held
    <3>5. QED
      BY <2>5, <3>1, <3>4 DEF ReaderSteps
  <2>9. CASE Download(q) /\ reader' # [reader EXCEPT ![q] = NotFetched]
    <3> DEFINE c == artifact["candidate"][r.producer]
    <3> DEFINE s == [want |-> r.want, at |-> "jobs", producer |-> r.producer,
                     candidate |-> c]
    <3>1. reader' = [reader EXCEPT ![q] = s] /\ c # Gone /\ r.at = "download"
      BY <2>2, <2>9 DEF Download, FetchFails
    <3>2. /\ r.want \in 1..attempt /\ concluded[r.want] = "success"
          /\ r.producer \in 1..r.want /\ c # None
      BY <2>2, <3>1 DEF ReaderFollows
    <3>3. Good(c)
      BY <1>0, <3>1, <3>2 DEF ArtifactsGood, Held, GoodContent
    <3>4. /\ s.want = r.want /\ s.at = "jobs" /\ s.producer = r.producer
          /\ s.candidate = c
      OBVIOUS
    <3>5. r.producer \in 0..MaxAttempts
      BY <2>2 DEF ReaderFollows
    <3> HIDE DEF s, c
    <3>6. ReaderFollows(s)
      BY <3>2, <3>3, <3>4, <3>5 DEF ReaderFollows
    <3>7. s = [want |-> s.want, at |-> s.at, producer |-> s.producer,
               candidate |-> s.candidate]
      BY DEF s
    <3>8. QED
      BY <2>5, <3>1, <3>4, <3>6, <3>7 DEF ReaderSteps
  <2>10. CASE ReadJobs(q) /\ reader' # [reader EXCEPT ![q] = NotFetched]
    <3> DEFINE s == [want |-> r.want, at |-> "fetched", producer |-> r.producer,
                     candidate |-> r.candidate]
    <3>1. /\ reader' = [reader EXCEPT ![q] = s] /\ r.at = "jobs"
          /\ ProducersMatch(r.candidate, r.producer, r.want)
      BY <2>2, <2>10 DEF ReadJobs, Reads, FetchFails
    <3>2. ReaderFollows(s)
      BY <2>2, <3>1 DEF ReaderFollows
    <3>3. QED
      BY <2>5, <3>1, <3>2 DEF ReaderSteps
  <2>11. QED
    BY <2>1, <2>6, <2>7, <2>8, <2>9, <2>10 DEF Fetch
<1>4. QED
  BY <1>2, <1>3
  DEF Next, UploadReceipt, UploadUnsigned, RunGate, Bind, Attest, Verify, RunCell,
      Start, Finish, EndedFromOutside, Conclude, Rerun, Expire, Rest

-----------------------------------------------------------------------------
(* The theorems *)

LEMMA AtFirst == Init => Ordered /\ Kept /\ Followed
<1> SUFFICES ASSUME Init PROVE Ordered /\ Kept /\ Followed
  OBVIOUS
<1> USE NamesDiffer, CandidateAssumption DEF Init, Attempts
<1>1. RunTypes /\ RunningListed /\ OneAttempt
  BY DEF RunTypes, RunningListed, OneAttempt
<1>2. \A j \in Jobs : ~Succeeded(j)
  <2>1. SUFFICES ASSUME NEW j \in Jobs PROVE LastSuccess(job[j], 1) = 0
    BY LatestIsLast
  <2>2. job[j][1] \notin {"none", "success"} /\ 1 \in Nat \ {0}
    OBVIOUS
  <2>3. QED
    BY <2>2, NotYetSucceeded
<1>3. NeedsSucceeded
  BY <1>2 DEF NeedsSucceeded
<1>4. ArtifactsGood
  BY DEF ArtifactsGood, Held
<1>5. BindingGood /\ SealedNamed
  BY DEF BindingGood, SealedNamed
<1>6. EvidenceGood
  <2>1. \A j : Sound(j, NoChecks)
    BY DEF Sound, NoChecks, CheckCount
  <2>2. \A j \in Checked : j \in Jobs
    BY DEF Checked, Jobs
  <2>3. QED
    BY <2>1, <2>2 DEF EvidenceGood
<1>7. Followed
  BY DEF Followed, ReaderTypes, ReaderFollows, NotFetched, ReaderSteps
<1>8. QED
  BY <1>1, <1>3, <1>4, <1>5, <1>6, <1>7 DEF Ordered, Kept

LEMMA StepKeeps ==
  Ordered /\ Kept /\ Followed /\ [Next]_vars => (Ordered /\ Kept /\ Followed)'
<1> SUFFICES ASSUME Ordered, Kept, Followed, [Next]_vars
             PROVE  (Ordered /\ Kept /\ Followed)'
  OBVIOUS
<1>1. CASE Next
  <2>1. Ordered'
    BY <1>1, RunTypesNext, ListedNext, NeedsNext DEF Ordered
  <2>2. Kept'
    BY <1>1, ArtifactsNext, BindingNext, EvidenceNext, SealNext DEF Kept
  <2>3. Followed'
    BY <1>1, ReadersNext
  <2>4. QED
    BY <2>1, <2>2, <2>3
<1>2. CASE UNCHANGED vars
  <2> USE <1>2 DEF vars
  <2>1. /\ \A j : Succeeded(j)' <=> Succeeded(j)
        /\ \A j, a : LatestSuccess(j, a)' = LatestSuccess(j, a)
    BY LatestIsLast
  <2>2. Ordered'
    BY <2>1 DEF Ordered, RunTypes, RunningListed, OneAttempt, NeedsSucceeded
  <2>3. Kept'
    BY DEF Kept, ArtifactsGood, BindingGood, EvidenceGood, SealedNamed, Held,
           GoodContent, Good, Sound, Done
  <2>4. \A c, k, a : ProducersMatch(c, k, a)' <=> ProducersMatch(c, k, a)
    BY <2>1 DEF ProducersMatch
  <2>5. Followed'
    BY <2>4 DEF Followed, ReaderTypes, ReaderFollows, Good
  <2>6. QED
    BY <2>2, <2>3, <2>5
<1>3. QED
  BY <1>1, <1>2

LEMMA Invariant == Spec => [](Ordered /\ Kept /\ Followed)
BY AtFirst, StepKeeps, PTL DEF Spec

\* The variables keep their types; a job runs only in an attempt that is not
\* concluded and as the listing says, and the seal, attest and verify jobs run
\* alone, because each waits for every job before it.
\* (release-candidate.yml `needs`; github.rs JobRecord)
THEOREM TypeCorrect == Spec => []TypeOK
<1>1. Ordered /\ Kept /\ Followed => TypeOK
  <2> SUFFICES ASSUME Ordered, Kept, Followed PROVE TypeOK
    OBVIOUS
  <2>1. \A j \in Checked, a \in Attempts :
          evidence[j][a] \in [done : 0..CheckCount(j),
                              drifted : SUBSET (1..CheckCount(j)),
                              decided : SUBSET Ways]
    <3> SUFFICES ASSUME NEW j \in Checked, NEW a \in Attempts
                 PROVE  evidence[j][a] \in [done : 0..CheckCount(j),
                                            drifted : SUBSET (1..CheckCount(j)),
                                            decided : SUBSET Ways]
      OBVIOUS
    <3>1. Sound(j, evidence[j][a])
      BY DEF Kept, EvidenceGood
    <3>2. QED
      BY <3>1 DEF Sound, Ways
  <2>2. \A q \in Readers : reader[q].producer \in 0..MaxAttempts
    BY DEF Followed, ReaderFollows
  <2>3. QED
    BY <2>1, <2>2, RunAlone
    DEF TypeOK, Ordered, RunTypes, RunningListed, Kept, SealedNamed
<1>2. QED
  BY <1>1, Invariant, PTL

\* A fetched candidate is what its attempt ended with: of every kind of job the
\* latest entry up to that attempt succeeded and produced the part bound in the
\* candidate, and no later attempt can make it untrue.
\* (github.rs fetch, latest_success_for, select_artifact)
THEOREM LatestFetched == Spec => []FetchedIsLatest
<1>1. Ordered /\ Kept /\ Followed => FetchedIsLatest
  <2> SUFFICES ASSUME Ordered, Kept, Followed, NEW q \in Fetched
               PROVE  LET c == reader[q].candidate
                          a == reader[q].want
                          Last(j) == Highest({n \in 1..a : job[j][n] # "none"})
                      IN /\ concluded[a] = "success"
                         /\ c.attempt = Last("seal") /\ c.gates = Last("build")
                         /\ \A p \in Platforms : c.runtimes[p] = Last(p)
                         /\ \A j \in Jobs : job[j][Last(j)] = "success"
    BY DEF FetchedIsLatest
  <2> DEFINE c == reader[q].candidate
             a == reader[q].want
             Last(j) == Highest({n \in 1..a : job[j][n] # "none"})
  <2>1. /\ concluded[a] = "success" /\ Good(c)
        /\ reader[q].producer \in 1..a
        /\ ProducersMatch(c, reader[q].producer, a)
    BY DEF Followed, ReaderFollows, Fetched
  <2>2. \A j : LatestSuccess(j, a) =
                IF Last(j) # 0 /\ job[j][Last(j)] = "success" THEN Last(j) ELSE 0
    BY DEF LatestSuccess
  <2>3. \A n \in Attempts : n # 0
    BY DEF Attempts
  <2> HIDE DEF Last
  <2>4. \A j \in Jobs : LatestSuccess(j, a) # 0
    BY <2>1, <2>3, NamesDiffer DEF ProducersMatch, Good, Jobs
  <2>5. \A j \in Jobs : job[j][Last(j)] = "success" /\ LatestSuccess(j, a) = Last(j)
    BY <2>2, <2>4
  <2>6. /\ c.attempt = Last("seal") /\ c.gates = Last("build")
        /\ \A p \in Platforms : c.runtimes[p] = Last(p)
    BY <2>1, <2>5 DEF ProducersMatch, Jobs
  <2>7. QED
    BY <2>1, <2>5, <2>6 DEF Last
<1>2. QED
  BY <1>1, Invariant, PTL

\* Behind a fetched candidate every gate passed and left the source as it was,
\* and every cell decided mutants by running or discharging them, none from the
\* cache, with the source there after the last: in the very attempts its
\* receipts name, because those are of jobs that succeeded.
\* (runner.rs gates, runtimes; runtime.rs conclusive; github.rs fetch)
THEOREM EvidenceFetched == Spec => []FetchedEvidenceHolds
<1>1. Ordered /\ Kept /\ Followed => FetchedEvidenceHolds
  <2> SUFFICES ASSUME Ordered, Kept, Followed, NEW q \in Fetched
               PROVE  LET c == reader[q].candidate
                          gates == evidence["build"][c.gates]
                      IN /\ gates.done = GateCount /\ gates.drifted = {}
                         /\ \A p \in Platforms :
                              LET cells == evidence[p][c.runtimes[p]]
                              IN /\ cells.done = CellCount
                                 /\ CellCount \notin cells.drifted
                                 /\ cells.decided # {}
                                 /\ cells.decided
                                      \subseteq {"killed", "survived", "discharged"}
    BY DEF FetchedEvidenceHolds
  <2> DEFINE c == reader[q].candidate
             a == reader[q].want
  <2>1. Good(c) /\ a \in 1..attempt /\ ProducersMatch(c, reader[q].producer, a)
    BY DEF Followed, ReaderFollows, Fetched
  <2>2. a \in Nat /\ \A n \in 1..a : n \in Attempts
    BY <2>1, CandidateAssumption DEF Ordered, RunTypes, Attempts
  <2>3. ASSUME NEW j \in Checked, NEW n \in Attempts, n = LatestSuccess(j, a)
        PROVE  Sound(j, evidence[j][n]) /\ evidence[j][n].done = CheckCount(j)
    <3>1. n = LastSuccess(job[j], a) /\ n # 0
      BY <2>3, LatestIsLast DEF Attempts
    <3>2. n \in 1..a
      BY <2>2, <3>1, LastSuccessIs
    <3>3. job[j][n] = "success"
      BY <2>2, <3>1, <3>2, LastSuccessIs
    <3>4. QED
      BY <2>3, <3>3 DEF Kept, EvidenceGood
  <2>4. /\ c.gates \in Attempts /\ c.gates = LatestSuccess("build", a)
        /\ \A p \in Platforms :
             c.runtimes[p] \in Attempts /\ c.runtimes[p] = LatestSuccess(p, a)
    BY <2>1 DEF Good, ProducersMatch
  <2>5. evidence["build"][c.gates].done = GateCount /\ evidence["build"][c.gates].drifted = {}
    BY <2>3, <2>4 DEF Checked, Sound, CheckCount
  <2>6. ASSUME NEW p \in Platforms
        PROVE  LET cells == evidence[p][c.runtimes[p]]
               IN /\ cells.done = CellCount /\ CellCount \notin cells.drifted
                  /\ cells.decided # {}
                  /\ cells.decided \subseteq {"killed", "survived", "discharged"}
    <3> DEFINE cells == evidence[p][c.runtimes[p]]
    <3>1. p \in Checked /\ CheckCount(p) = CellCount /\ CellCount # 0
      BY NamesDiffer, CandidateAssumption DEF Checked, CheckCount
    <3>2. Sound(p, cells) /\ cells.done = CheckCount(p)
      BY <2>3, <2>4, <3>1
    <3> HIDE DEF cells
    <3>3. /\ cells.done = CellCount /\ CellCount \notin cells.drifted
          /\ cells.decided # {}
          /\ cells.decided \subseteq {"killed", "survived", "discharged"}
      BY <3>1, <3>2 DEF Sound
    <3>4. QED
      BY <3>3 DEF cells
  <2>7. QED
    BY <2>5, <2>6
<1>2. QED
  BY <1>1, Invariant, PTL
=============================================================================
