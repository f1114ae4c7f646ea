-------------------------- MODULE MutantRunProofs ---------------------------
(***************************************************************************)
(* What a mutation run reports and stores, for every plan, suite, number   *)
(* of workers, set of inputs and sequence of interrupted and killed runs.  *)
(*                                                                         *)
(* Three arguments meet.  Every outcome is followed from the process that  *)
(* gave it, or from the cache, and is the full suite's or says that it was *)
(* not found out.  What has no outcome yet is always ahead of the position *)
(* in the waves and runtimes, so that a run that reaches its end has them  *)
(* all.  And the counts of the summary are the outcomes there are, and in  *)
(* the phase that records them those about to be.                          *)
(*                                                                         *)
(* The last part is about the end of a run: the steps it may still take    *)
(* are a number that every step of its own lowers.                         *)
(***************************************************************************)
EXTENDS MutantRun, FiniteSetTheorems, SequenceTheorems, WellFoundedInduction, TLAPS

Waving == {"preliminary", "confirmation", "record"}
Started == {"plan", "workers"} \cup Waving

\* The run has every outcome, and nothing has gone wrong.
Finished == phase = "reported" \/ (phase = "dispose" /\ error = "none")

Types ==
  /\ phase \in Running \cup Ended /\ runs \in 0..MaxRuns /\ input \in Inputs
  /\ cache \in [Keys -> Outcomes \cup {"none"}]
  /\ outcomes \in [Mutants -> [Runtimes -> Outcomes \cup {"none"}]]
  /\ missing \in Seq(Mutants)
  /\ mode \in [Mutants -> [Runtimes -> {"full", "narrowed", "fallback"}]]
  /\ turn \in DOMAIN RuntimeOrder
  /\ results = [m \in DOMAIN results |-> results[m]] /\ DOMAIN results \subseteq Mutants
  /\ counts \in [hits : Nat, discharged : Nat, narrowed : Nat, confirmations : Nat,
                 fallbacks : Nat]

\* The workers there are and those that were left, at most Jobs together.
Pool ==
  /\ workers \in Nat /\ leaked \in Nat /\ workers + leaked <= Jobs
  /\ phase \in {"idle", "preload", "plan", "reported", "failed"} => workers = 0
  /\ phase \notin {"dispose", "failed", "dead"} => leaked = 0
  /\ phase = "workers" => workers < worker_count /\ (groups # {} => workers = 0)

\* Where the run is in what is missing.
Placed ==
  /\ wave \in 1..(Len(missing) + Jobs)
  /\ phase \in Started => Len(missing) > 0 /\ error = "none"
  /\ phase = "preload" => error = "none"
  /\ phase \in {"idle", "preload", "plan", "workers"} => wave = 1 /\ turn = 1
  /\ phase \in Waving => wave <= Len(missing) /\ groups = {}

\* Results are of mutants that have no outcome yet.
Fresh ==
  /\ phase \in {"preload", "plan", "workers", "preliminary"} => DOMAIN results = {}
  /\ phase \in Waving => \A m \in DOMAIN results : outcomes[m][Runtime] = "none"
  /\ phase = "preload" =>
       \A m \in Mutants, r \in Runtimes : outcomes[m][r] = "none"

\* What is said of a mutant is what the full suite says, or that it was not
\* found out.
Faithful(outcome, m, r) ==
  outcome \in {"none", "timed-out", "test-error", Truth(input, m, r)}

\* The walk may also have discharged a mutant whose parting was lost.
Told(outcome, m, r) ==
  Faithful(outcome, m, r) \/ (outcome = "survived" /\ m \in LostPartings[input][r])

Measured ==
  /\ \A m \in Mutants, r \in Runtimes : Told(outcomes[m][r], m, r)
  /\ \A m \in DOMAIN results :
       /\ phase = "confirmation" =>
            m \in Confirmations \/ Faithful(process_outcome(results[m]), m, Runtime)
       /\ phase = "record" => Faithful(process_outcome(results[m]), m, Runtime)

\* In a later wave, or in this one on a later runtime, or on this one before it
\* is recorded.
Waits(m, k) ==
  \E n \in wave..Len(missing) :
    /\ missing[n] = m
    /\ n < wave + worker_count =>
         /\ turn <= k
         /\ turn = k /\ phase \in {"confirmation", "record"} => m \in DOMAIN results

\* What has no outcome yet is still ahead.
Ahead ==
  /\ phase \in Started =>
       \A m \in Mutants, k \in DOMAIN RuntimeOrder :
         outcomes[m][RuntimeOrder[k]] = "none" => Waits(m, k)
  /\ Finished => \A m \in Mutants, r \in Runtimes : outcomes[m][r] # "none"

\* What a reading run has to find out is not stored.
NotStored ==
  Reads /\ phase \in Started =>
    \A m \in Mutants, r \in Runtimes :
      outcomes[m][r] = "none" => cache[Key(m, r)] = "none"

Judged == {s \in Sites : outcomes[s[1]][s[2]] # "none"}
Returned == {<<m, Runtime>> : m \in DOMAIN results}
Total == counts.hits + counts.discharged + counts.narrowed + counts.fallbacks

Evidence == \A r \in Runtimes : impact[r] # "disabled"

\* With evidence everything runs on a selection or falls back from one.
Moded ==
  Evidence /\ phase \in Waving \cup {"workers"} =>
    \A m \in Mutants, r \in Runtimes : outcomes[m][r] = "none" =>
      \/ mode[m][r] \in {"narrowed", "fallback"}
      \/ Narrowable(m, r) /\ <<r, Selectors[m][r]>> \in groups

\* The summary counts what is judged, and what is about to be.
Counted ==
  /\ counts.confirmations <= counts.narrowed
  /\ phase = "preload" => counts.narrowed = 0 /\ counts.fallbacks = 0
  /\ Evidence =>
       /\ Finished \/ phase \in Started \ {"record"} => Total = Cardinality(Judged)
       /\ phase = "record" => Total = Cardinality(Judged \cup Returned)

-----------------------------------------------------------------------------
(* The operators of the model *)

LEMMA MinIs ==
  ASSUME NEW a \in Int, NEW b \in Int
  PROVE  Min({a, b}) = IF a <= b THEN a ELSE b
BY DEF Min

\* The elements of a part of a sequence.
LEMMA PartIs ==
  ASSUME NEW S, NEW s \in Seq(S), NEW a \in 1..Len(s), NEW b \in 1..Len(s), a <= b
  PROVE  /\ ToSet(SubSeq(s, a, b)) = {s[n] : n \in a..b}
         /\ \E k \in Nat : DOMAIN SubSeq(s, a, b) = 1..k
<1> DEFINE t == SubSeq(s, a, b)
<1>1. DOMAIN t = 1..(b - a + 1) /\ \A i \in 1..(b - a + 1) : t[i] = s[a + i - 1]
  <2>1. \A i \in a..b : s[i] \in S
    OBVIOUS
  <2>2. /\ t \in Seq(S) /\ Len(t) = b - a + 1
        /\ \A i \in 1..(b - a + 1) : t[i] = s[a + i - 1]
    BY <2>1, SubSeqProperties
  <2>3. QED
    BY <2>2, LenProperties
<1> HIDE DEF t
<1>2. ASSUME NEW n \in a..b PROVE s[n] \in ToSet(t)
  <2>1. n - a + 1 \in 1..(b - a + 1) /\ a + (n - a + 1) - 1 = n
    OBVIOUS
  <2>2. QED
    BY <1>1, <2>1 DEF ToSet
<1>3. ASSUME NEW i \in 1..(b - a + 1) PROVE t[i] \in {s[n] : n \in a..b}
  BY <1>1
<1>4. b - a + 1 \in Nat
  OBVIOUS
<1>5. QED
  BY <1>1, <1>2, <1>3, <1>4 DEF ToSet, t

\* Selected has the elements at the positions and no others.
LEMMA SelectedIs ==
  ASSUME NEW S, NEW s \in Seq(S), NEW P \in SUBSET DOMAIN s
  PROVE  /\ Selected(s, P) \in Seq(S)
         /\ Len(Selected(s, P)) = 0 <=> P = {}
         /\ Len(Selected(s, P)) <= Len(s)
         /\ \A i \in P : \E n \in 1..Len(Selected(s, P)) : Selected(s, P)[n] = s[i]
<1> DEFINE upTo(i) == {j \in P : j <= i}
           rank(i) == Cardinality({j \in P : j <= i})
           c == Cardinality(P)
<1>1. /\ DOMAIN s = 1..Len(s) /\ Len(s) \in Nat /\ P \subseteq Int
      /\ IsFiniteSet(P) /\ c \in Nat /\ c <= Len(s)
  <2>1. DOMAIN s = 1..Len(s) /\ Len(s) \in Nat
    BY LenProperties
  <2>2. IsFiniteSet(P) /\ c <= Len(s)
    <3>1. IsFiniteSet(1..Len(s)) /\ Cardinality(1..Len(s)) = Len(s)
      <4>1. PICK l \in Nat : l = Len(s)
        BY <2>1
      <4>2. IsFiniteSet(1..l) /\ Cardinality(1..l) = l
        BY FS_Interval
      <4>3. QED
        BY <4>1, <4>2
    <3>2. QED
      BY <2>1, <3>1, FS_Subset
  <2>3. QED
    BY <2>1, <2>2, FS_CardinalityType
<1>2. ASSUME NEW i \in P
      PROVE  /\ IsFiniteSet(upTo(i)) /\ rank(i) = Cardinality(upTo(i)) /\ rank(i) \in 1..c
  <2>1. upTo(i) \in SUBSET P /\ upTo(i) # {}
    BY <1>1
  <2>2. IsFiniteSet(upTo(i)) /\ Cardinality(upTo(i)) <= c
    BY <1>1, <2>1, FS_Subset
  <2>3. Cardinality(upTo(i)) \in Nat /\ Cardinality(upTo(i)) # 0
    BY <2>1, <2>2, FS_CardinalityType, FS_EmptySet
  <2>4. QED
    BY <1>1, <2>2, <2>3
<1>3. ASSUME NEW i \in P, NEW j \in P, i < j
      PROVE  rank(i) # rank(j)
  <2>1. upTo(i) \in SUBSET upTo(j) /\ j \in upTo(j) /\ j \notin upTo(i)
    BY <1>1, <1>3
  <2>2. upTo(i) # upTo(j)
    BY <2>1
  <2>3. Cardinality(upTo(i)) # Cardinality(upTo(j))
    <3> HIDE DEF upTo
    <3>1. QED
      BY <1>2, <2>1, <2>2, FS_Subset
  <2>4. QED
    BY <1>2, <2>3
<1> HIDE DEF rank, c, upTo
<1>4. \A i, j \in P : rank(i) = rank(j) => i = j
  <2>1. \A i, j \in P : i < j \/ j < i \/ i = j
    BY <1>1
  <2>2. QED
    BY <1>3, <2>1
<1>5. \A n \in 1..c : \E i \in P : rank(i) = n
  <2> DEFINE f == [i \in P |-> rank(i)]
  <2>1. f \in Injection(P, 1..c)
    BY <1>2, <1>4 DEF Injection, IsInjective
  <2>2. IsFiniteSet(1..c) /\ Cardinality(1..c) = c
    BY <1>1, FS_Interval
  <2>3. f \in Surjection(P, 1..c)
    BY <2>1, <2>2, FS_Injection DEF c
  <2>4. QED
    BY <2>3 DEF Surjection
<1>6. Selected(s, P) = [n \in 1..c |-> s[CHOOSE i \in P : rank(i) = n]]
  BY DEF Selected, rank, c
<1>7. Selected(s, P) \in [1..c -> S]
  <2>1. \A n \in 1..c : (CHOOSE i \in P : rank(i) = n) \in DOMAIN s
    BY <1>5
  <2>2. \A i \in DOMAIN s : s[i] \in S
    BY <1>1, ElementOfSeq
  <2>3. QED
    BY <1>6, <2>1, <2>2
<1>8. Selected(s, P) \in Seq(S) /\ Len(Selected(s, P)) = c
  BY <1>1, <1>7, SeqDef, LenProperties
<1>9. ASSUME NEW i \in P
      PROVE  rank(i) \in 1..c /\ Selected(s, P)[rank(i)] = s[i]
  <2>1. (CHOOSE k \in P : rank(k) = rank(i)) = i
    BY <1>4
  <2>2. QED
    BY <1>2, <1>6, <2>1
<1>10. c = 0 <=> P = {}
  BY <1>1, FS_EmptySet DEF c
<1>11. QED
  BY <1>1, <1>8, <1>9, <1>10

-----------------------------------------------------------------------------
(* Processes and batches *)

\* A process that ran tests says what they say, or that it was not found out.
LEMMA ProcessSays ==
  ASSUME NEW m, NEW tests, NEW p \in ProcessResults(m, tests)
  PROVE  process_outcome(p) \in
           {"timed-out", "test-error",
            IF Failing[input][m][Runtime] \cap tests = {} THEN "survived" ELSE "killed"}
BY DEF ProcessResults, Process, process_outcome, Runtime

\* A batch that is not interrupted has an undisturbed result for each mutant.
LEMMA BatchHolds ==
  ASSUME NEW suite, NEW batch \in Batches(suite) \cup SignalledBatches(suite),
         ~check_batch(batch)
  PROVE  /\ batch = [m \in DOMAIN suite |-> batch[m]]
         /\ \A m \in DOMAIN suite : batch[m] \in ProcessResults(m, suite[m])
<1>1. batch \notin SignalledBatches(suite)
  BY DEF SignalledBatches, check_batch, Interrupted
<1>2. QED
  BY <1>1 DEF Batches

\* A test that fails is a test of the suite.
LEMMA SuiteDecides ==
  ASSUME NEW i \in Inputs, NEW m \in Mutants, NEW r \in Runtimes
  PROVE  /\ Failing[i][m][r] \cap Tests = Failing[i][m][r]
         /\ Truth(i, m, r) \in {"survived", "killed"}
         /\ Truth(i, m, r) = "survived" <=> Failing[i][m][r] = {}
BY RunAssumption DEF Truth

-----------------------------------------------------------------------------
(* The position in the waves *)

LEMMA RuntimeIs == ASSUME Types PROVE Runtime \in Runtimes
BY DEF Types, Runtime, Runtimes, ToSet

LEMMA CountIs ==
  ASSUME Types
  PROVE  /\ Len(missing) \in Nat /\ Jobs \in Nat \ {0} /\ worker_count \in 0..Jobs
         /\ worker_count <= Len(missing)
         /\ Len(missing) > 0 => worker_count > 0
<1>1. Len(missing) \in Nat /\ Jobs \in Nat \ {0}
  BY RunAssumption DEF Types
<1>2. QED
  BY <1>1, MinIs DEF worker_count

LEMMA WaveIs ==
  ASSUME Types, wave \in 1..Len(missing)
  PROVE  /\ ToSet(Wave) \subseteq Mutants
         /\ \A n \in wave..Len(missing) :
              n < wave + worker_count => missing[n] \in ToSet(Wave)
         /\ \E k \in Nat : DOMAIN Wave = 1..k
<1> DEFINE last == Min({wave + worker_count - 1, Len(missing)})
<1>1. Len(missing) \in Nat /\ worker_count \in Nat /\ worker_count > 0 /\ wave \in Nat
  BY CountIs
<1>2. /\ last \in 1..Len(missing) /\ wave <= last
      /\ \A n \in wave..Len(missing) : n < wave + worker_count => n \in wave..last
  BY <1>1, MinIs
<1>3. ToSet(Wave) = {missing[n] : n \in wave..last} /\ \E k \in Nat : DOMAIN Wave = 1..k
  <2> HIDE DEF last
  <2>1. /\ ToSet(SubSeq(missing, wave, last)) = {missing[n] : n \in wave..last}
        /\ \E k \in Nat : DOMAIN SubSeq(missing, wave, last) = 1..k
    BY <1>2, PartIs DEF Types
  <2>2. QED
    BY <2>1 DEF Wave, last
<1> HIDE DEF last
<1>4. \A n \in wave..last : missing[n] \in Mutants
  BY <1>1, <1>2 DEF Types
<1>5. QED
  BY <1>2, <1>3, <1>4

-----------------------------------------------------------------------------
(* The plan *)

LEMMA PlanFinite ==
  /\ IsFiniteSet(Mutants) /\ IsFiniteSet(Runtimes)
  /\ Cardinality(Mutants) = Len(Planned) /\ Cardinality(Runtimes) = Len(RuntimeOrder)
  /\ IsFiniteSet(Sites)
  /\ Cardinality(Sites) = Len(Planned) * Len(RuntimeOrder)
<1>1. ASSUME NEW S, NEW s \in Seq(S), IsInjective(s)
      PROVE  IsFiniteSet(ToSet(s)) /\ Cardinality(ToSet(s)) = Len(s)
  <2>1. DOMAIN s = 1..Len(s) /\ Len(s) \in Nat /\ s \in [1..Len(s) -> S]
    BY LenProperties
  <2>2. s \in [1..Len(s) -> ToSet(s)]
    BY <2>1 DEF ToSet
  <2>3. s \in Bijection(1..Len(s), ToSet(s))
    BY <1>1, <2>1, <2>2 DEF Bijection, Injection, Surjection, IsInjective, ToSet
  <2>4. ExistsBijection(1..Len(s), ToSet(s))
    BY <2>3 DEF ExistsBijection
  <2>5. IsFiniteSet(1..Len(s)) /\ Cardinality(1..Len(s)) = Len(s)
    BY <2>1, FS_Interval
  <2>6. QED
    BY <2>4, <2>5, FS_Bijection
<1>2. /\ IsFiniteSet(Mutants) /\ Cardinality(Mutants) = Len(Planned)
      /\ IsFiniteSet(Runtimes) /\ Cardinality(Runtimes) = Len(RuntimeOrder)
  BY <1>1, RunAssumption DEF Mutants, Runtimes
<1>3. QED
  <2>1. /\ IsFiniteSet(Sites)
        /\ Cardinality(Sites) = Cardinality(Mutants) * Cardinality(Runtimes)
    BY <1>2, FS_Product, Zenon DEF Sites
  <2>2. QED
    BY <1>2, <2>1

-----------------------------------------------------------------------------
(* The types *)

\* What a phase that runs a batch leaves in results.
LEMMA ReturnIs ==
  ASSUME Types, NEW suite, DOMAIN suite \subseteq Mutants, NEW next, Return(suite, next)
  PROVE  \/ phase' = "dispose" /\ error' = "interrupted" /\ UNCHANGED results
         \/ /\ phase' = next /\ UNCHANGED error
            /\ results' = [m \in DOMAIN results' |-> results'[m]]
            /\ DOMAIN results' = DOMAIN suite \cup DOMAIN results
            /\ \A m \in DOMAIN suite : results'[m] \in ProcessResults(m, suite[m])
            /\ \A m \in DOMAIN results \ DOMAIN suite : results'[m] = results[m]
<1>1. PICK batch \in Batches(suite) \cup SignalledBatches(suite) : Completed(batch, next)
  BY DEF Return
<1>2. CASE check_batch(batch)
  BY <1>1, <1>2 DEF Completed
<1>3. CASE ~check_batch(batch)
  <2>1. /\ DOMAIN batch = DOMAIN suite
        /\ \A m \in DOMAIN suite : batch[m] \in ProcessResults(m, suite[m])
    BY <1>3, BatchHolds
  <2>2. /\ phase' = next /\ UNCHANGED error
        /\ results' = [m \in DOMAIN batch \cup DOMAIN results |->
                         IF m \in DOMAIN batch THEN batch[m] ELSE results[m]]
    BY <1>1, <1>3 DEF Completed
  <2>3. QED
    BY <2>1, <2>2
<1>4. QED
  BY <1>2, <1>3

\* The mutants that wait in a wave and the tests each is run on.
LEMMA PreliminaryIs ==
  ASSUME Types, Placed, Preliminary
  PROVE  /\ phase = "preliminary" /\ Pending \subseteq Mutants
         /\ UNCHANGED <<runs, inputs, cache, outcomes, missing, groups, workers, leaked,
                        wave, turn, counts>>
         /\ \A m \in Mutants : \A r \in Runtimes :
              mode'[m][r] # mode[m][r] => mode'[m][r] = "fallback" /\ r = Runtime
         /\ mode' \in [Mutants -> [Runtimes -> {"full", "narrowed", "fallback"}]]
         /\ Return([m \in Pending |-> IF mode'[m][Runtime] = "narrowed"
                                       THEN Selectors[m][Runtime] ELSE Tests],
                   "confirmation")
<1>1. PICK unwritten \in SUBSET {m \in Pending : Narrowed(m)} :
        /\ mode' = [m \in Mutants |->
                      IF m \in unwritten THEN [mode[m] EXCEPT ![Runtime] = "fallback"]
                      ELSE mode[m]]
        /\ Return([m \in Pending |-> IF Narrowed(m) /\ m \notin unwritten
                                      THEN Selectors[m][Runtime] ELSE Tests],
                  "confirmation")
  BY DEF Preliminary
<1>2. Pending \subseteq Mutants
  BY WaveIs, CountIs DEF Pending, Preliminary, Placed, Waving
<1>3. Runtime \in Runtimes
  BY RuntimeIs
<1>4. \A m \in Mutants : \A r \in Runtimes :
        mode'[m][r] = IF m \in unwritten /\ r = Runtime THEN "fallback" ELSE mode[m][r]
  BY <1>1, <1>3 DEF Types
<1>5. \A m \in Pending : (Narrowed(m) /\ m \notin unwritten) <=> mode'[m][Runtime] = "narrowed"
  BY <1>2, <1>3, <1>4 DEF Narrowed
<1>6. [m \in Pending |-> IF Narrowed(m) /\ m \notin unwritten
                         THEN Selectors[m][Runtime] ELSE Tests]
      = [m \in Pending |-> IF mode'[m][Runtime] = "narrowed"
                           THEN Selectors[m][Runtime] ELSE Tests]
  BY <1>5
<1>7. mode' \in [Mutants -> [Runtimes -> {"full", "narrowed", "fallback"}]]
  BY <1>1, <1>3 DEF Types
<1>8. QED
  BY <1>1, <1>2, <1>4, <1>6, <1>7 DEF Preliminary

LEMMA TypesNext ==
  ASSUME Types, Placed, Next
  PROVE  Types'
<1> USE DEF inputs, planning, Running, Ended
<1>0. /\ Len(RuntimeOrder) \in Nat \ {0} /\ DOMAIN RuntimeOrder = 1..Len(RuntimeOrder)
      /\ MaxRuns \in Nat
  BY RunAssumption, EmptySeq, LenProperties
<1>1. CASE Begin
  <2>1. << >> \in Seq(Mutants)
    BY EmptySeq
  <2>2. runs' \in 0..MaxRuns /\ turn' \in DOMAIN RuntimeOrder
    BY <1>0, <1>1 DEF Begin, Types
  <2>3. /\ counts' \in [hits : Nat, discharged : Nat, narrowed : Nat, confirmations : Nat,
                         fallbacks : Nat]
        /\ results' = [m \in DOMAIN results' |-> results'[m]] /\ DOMAIN results' \subseteq Mutants
    BY <1>1 DEF Begin
  <2>4. QED
    BY <1>1, <2>1, <2>2, <2>3 DEF Begin, Types, Outcomes
<1>2. CASE Preload
  <2>1. \A m \in Mutants, r \in Runtimes : Settled(m, r) \in Outcomes \cup {"none"}
    BY DEF Settled, Cached, Key, Keys, Types, Outcomes, fingerprint
  <2>2. missing' \in Seq(Mutants)
    BY <1>2, RunAssumption, SelectedIs DEF Preload
  <2>3. counts' \in [hits : Nat, discharged : Nat, narrowed : Nat, confirmations : Nat,
                     fallbacks : Nat]
    <3> DEFINE hits == {s \in Sites : Cached(s[1], s[2]) # "none"}
               settled == {s \in Sites : Settled(s[1], s[2]) # "none"}
    <3>1. IsFiniteSet(hits) /\ IsFiniteSet(settled \ hits)
      BY PlanFinite, FS_Subset
    <3>2. Cardinality(hits) \in Nat /\ Cardinality(settled \ hits) \in Nat
      BY <3>1, FS_CardinalityType
    <3>3. QED
      BY <1>2, <3>2 DEF Preload, Types
  <2>4. QED
    BY <1>2, <2>1, <2>2, <2>3 DEF Preload, Types
<1>3. CASE Plan \/ \E g \in groups : PartialBaseline(g)
  <2>1. CASE Plan
    BY <2>1 DEF Plan, Types
  <2>2. CASE \E g \in groups : PartialBaseline(g)
    <3>1. PICK g \in groups : PartialBaseline(g)
      BY <2>2
    <3>2. mode' \in [Mutants -> [Runtimes -> {"full", "narrowed", "fallback"}]]
      BY <3>1 DEF PartialBaseline, Types
    <3>3. QED
      BY <3>1, <3>2 DEF PartialBaseline, Types
  <2>3. QED
    BY <1>3, <2>1, <2>2
<1>4. CASE CreateWorker \/ CreateWorkerFails \/ DisposeWorker \/ Conclude
           \/ PartialBaselineInterrupted \/ Kill
  BY <1>4
  DEF CreateWorker, CreateWorkerFails, DisposeWorker, Conclude, PartialBaselineInterrupted,
      Kill, Types
<1>5. CASE Preliminary
  <2>1. /\ results' = [m \in DOMAIN results' |-> results'[m]]
        /\ DOMAIN results' \subseteq Mutants /\ phase' \in {"dispose", "confirmation"}
    <3> DEFINE suite == [m \in Pending |-> IF mode'[m][Runtime] = "narrowed"
                                           THEN Selectors[m][Runtime] ELSE Tests]
    <3>1. DOMAIN suite \subseteq Mutants /\ Return(suite, "confirmation")
      BY <1>5, PreliminaryIs
    <3> HIDE DEF suite
    <3>2. QED
      BY <3>1, ReturnIs DEF Types
  <2>2. QED
    BY <1>5, <2>1, PreliminaryIs DEF Types
<1>6. CASE Confirm
  <2> DEFINE suite == [m \in Confirmations |-> Tests]
  <2>1. Return(suite, "record") /\ DOMAIN suite \subseteq Mutants
    BY <1>6 DEF Confirm, Confirmations, Types
  <2> HIDE DEF suite
  <2>2. /\ results' = [m \in DOMAIN results' |-> results'[m]]
        /\ DOMAIN results' \subseteq Mutants /\ phase' \in {"dispose", "record"}
    BY <2>1, ReturnIs DEF Types
  <2>3. counts' \in [hits : Nat, discharged : Nat, narrowed : Nat, confirmations : Nat,
                     fallbacks : Nat]
    <3> DEFINE n == {m \in DOMAIN results : Narrowed(m)}
               f == {m \in DOMAIN results : mode[m][Runtime] = "fallback"}
    <3>1. IsFiniteSet(n) /\ IsFiniteSet(f) /\ IsFiniteSet(Confirmations)
      BY PlanFinite, FS_Subset DEF Types, Confirmations
    <3>2. Cardinality(n) \in Nat /\ Cardinality(f) \in Nat
          /\ Cardinality(Confirmations) \in Nat
      BY <3>1, FS_CardinalityType
    <3>3. \/ UNCHANGED counts
          \/ counts' = [counts EXCEPT !.narrowed = counts.narrowed + Cardinality(n),
                          !.confirmations = counts.confirmations + Cardinality(Confirmations),
                          !.fallbacks = counts.fallbacks + Cardinality(f)]
      BY <1>6 DEF Confirm
    <3> HIDE DEF n, f
    <3>4. /\ counts.narrowed \in Nat /\ counts.confirmations \in Nat
          /\ counts.fallbacks \in Nat
          /\ counts \in [hits : Nat, discharged : Nat, narrowed : Nat,
                         confirmations : Nat, fallbacks : Nat]
      BY DEF Types
    <3>5. /\ counts.narrowed + Cardinality(n) \in Nat
          /\ counts.confirmations + Cardinality(Confirmations) \in Nat
          /\ counts.fallbacks + Cardinality(f) \in Nat
      BY <3>2, <3>4
    <3>6. QED
      BY <3>3, <3>4, <3>5
  <2>4. QED
    BY <1>6, <2>2, <2>3 DEF Confirm, Types
<1>7. CASE NextRuntime \/ NextWave
  BY <1>0, <1>7 DEF NextRuntime, NextWave, Types
<1>8. CASE \E m \in Mutants : Record(m)
  <2>1. PICK m \in Mutants : Record(m)
    BY <1>8
  <2>2. Runtime \in Runtimes /\ process_outcome(results[m]) \in Outcomes
    BY RuntimeIs DEF process_outcome, Outcomes
  <2>3. /\ outcomes' \in [Mutants -> [Runtimes -> Outcomes \cup {"none"}]]
        /\ cache' \in [Keys -> Outcomes \cup {"none"}]
    BY <2>1, <2>2 DEF Record, Types
  <2>4. /\ results' = [n \in DOMAIN results' |-> results'[n]]
        /\ DOMAIN results' \subseteq Mutants
    BY <2>1 DEF Record, Types
  <2>5. QED
    BY <2>1, <2>3, <2>4 DEF Record, Types
<1>9. CASE (\E m \in Mutants : RecordFails(m)) \/ CleanEntry
  BY <1>9 DEF RecordFails, CleanEntry, Types
<1>10. QED
  BY <1>1, <1>2, <1>3, <1>4, <1>5, <1>6, <1>7, <1>8, <1>9 DEF Next, Progress, Planning, Waves

-----------------------------------------------------------------------------
(* The pool, the position and the results *)

LEMMA PoolNext ==
  ASSUME Types, Pool, Placed, Next
  PROVE  Pool'
<1> USE DEF inputs, planning, Running, Ended, Started, Waving
<1>0. /\ Jobs \in Nat \ {0} /\ Len(missing) \in Nat /\ worker_count \in 0..Jobs
      /\ Len(missing) > 0 => worker_count > 0
      /\ UNCHANGED missing => worker_count' = worker_count
  BY CountIs DEF worker_count
<1>1. CASE Begin \/ Preload
  <2>1. CASE Begin
    <3>1. workers' = 0 /\ leaked' = 0 /\ phase' = "preload"
      BY <2>1 DEF Begin
    <3>2. QED
      BY <1>0, <3>1 DEF Pool
  <2>2. CASE Preload
    <3>1. UNCHANGED <<workers, leaked>> /\ phase = "preload" /\ phase' \in {"plan", "reported"}
      BY <2>2 DEF Preload
    <3>2. QED
      BY <1>0, <3>1 DEF Pool
  <2>3. QED
    BY <1>1, <2>1, <2>2
<1>2. CASE Plan \/ (\E g \in groups : PartialBaseline(g)) \/ PartialBaselineInterrupted
  BY <1>0, <1>2 DEF Plan, PartialBaseline, PartialBaselineInterrupted, Pool, Placed
<1>3. CASE CreateWorker \/ CreateWorkerFails \/ DisposeWorker \/ Conclude \/ Kill
  BY <1>0, <1>3
  DEF CreateWorker, CreateWorkerFails, DisposeWorker, Conclude, Kill, Pool
<1>4. CASE Preliminary
  <2>1. phase' \in {"dispose", "confirmation"} /\ UNCHANGED <<workers, leaked>>
    BY <1>4 DEF Preliminary, Return, Completed
  <2>2. QED
    BY <1>4, <2>1 DEF Pool, Preliminary
<1>5. CASE Confirm
  <2>1. phase' \in {"dispose", "record"} /\ UNCHANGED <<workers, leaked>>
    BY <1>5 DEF Confirm, Return, Completed
  <2>2. QED
    BY <1>5, <2>1 DEF Pool, Confirm
<1>6. CASE NextRuntime \/ NextWave \/ \E m \in Mutants : Record(m) \/ RecordFails(m)
  BY <1>6 DEF NextRuntime, NextWave, Record, RecordFails, Pool
<1>7. CASE CleanEntry
  BY <1>0, <1>7 DEF CleanEntry, Pool
<1>8. QED
  BY <1>1, <1>2, <1>3, <1>4, <1>5, <1>6, <1>7 DEF Next, Progress, Planning, Waves

LEMMA PlacedNext ==
  ASSUME Types, Placed, Next
  PROVE  Placed'
<1> USE DEF inputs, planning, Running, Ended, Started, Waving
<1>0. /\ Jobs \in Nat \ {0} /\ Len(missing) \in Nat /\ worker_count \in 0..Jobs
      /\ Len(missing) > 0 => worker_count > 0
      /\ Len(RuntimeOrder) \in Nat
  BY CountIs, RunAssumption, LenProperties
<1>1. CASE Begin
  <2>1. Len(<< >>) = 0
    OBVIOUS
  <2>2. QED
    BY <1>0, <1>1, <2>1 DEF Begin, Placed
<1>2. CASE Preload
  <2>1. missing' \in Seq(Mutants)
    BY TypesNext DEF Types
  <2>2. Len(missing') \in Nat /\ (missing' # << >> => Len(missing') > 0)
    BY <2>1, EmptySeq, LenProperties
  <2>3. QED
    BY <1>0, <1>2, <2>2 DEF Preload, Placed
<1>3. CASE Plan \/ (\E g \in groups : PartialBaseline(g)) \/ PartialBaselineInterrupted
  BY <1>0, <1>3 DEF Plan, PartialBaseline, PartialBaselineInterrupted, Placed
<1>4. CASE CreateWorker \/ CreateWorkerFails \/ DisposeWorker \/ Conclude \/ Kill
  BY <1>0, <1>4
  DEF CreateWorker, CreateWorkerFails, DisposeWorker, Conclude, Kill, Placed
<1>5. CASE Preliminary
  <2>1. \/ phase' = "dispose"
        \/ phase' = "confirmation" /\ UNCHANGED error
    BY <1>5 DEF Preliminary, Return, Completed
  <2>2. QED
    BY <1>5, <2>1 DEF Placed, Preliminary
<1>6. CASE Confirm
  <2>1. \/ phase' = "dispose"
        \/ phase' = "record" /\ UNCHANGED error
    BY <1>6 DEF Confirm, Return, Completed
  <2>2. QED
    BY <1>6, <2>1 DEF Placed, Confirm
<1>7. CASE NextRuntime \/ NextWave
  BY <1>0, <1>7 DEF NextRuntime, NextWave, Placed
<1>8. CASE \E m \in Mutants : Record(m) \/ RecordFails(m)
  BY <1>8 DEF Record, RecordFails, Placed
<1>9. CASE CleanEntry
  BY <1>0, <1>9 DEF CleanEntry, Placed
<1>10. QED
  BY <1>1, <1>2, <1>3, <1>4, <1>5, <1>6, <1>7, <1>8, <1>9
  DEF Next, Progress, Planning, Waves

\* What the two batches leave in results.
LEMMA PreliminaryResults ==
  ASSUME Types, Placed, Fresh, Preliminary, phase' = "confirmation"
  PROVE  /\ DOMAIN results' = Pending /\ Pending \subseteq Mutants
         /\ UNCHANGED <<outcomes, input, turn, error>>
         /\ \A m \in Pending :
              results'[m] \in ProcessResults(m, IF mode'[m][Runtime] = "narrowed"
                                                THEN Selectors[m][Runtime] ELSE Tests)
<1> DEFINE suite == [m \in Pending |-> IF mode'[m][Runtime] = "narrowed"
                                       THEN Selectors[m][Runtime] ELSE Tests]
<1>1. DOMAIN suite = Pending /\ Pending \subseteq Mutants /\ Return(suite, "confirmation")
  BY PreliminaryIs
<1>2. DOMAIN results = {}
  BY PreliminaryIs DEF Fresh
<1>3. \A m \in Pending : suite[m] = IF mode'[m][Runtime] = "narrowed"
                                     THEN Selectors[m][Runtime] ELSE Tests
  OBVIOUS
<1> HIDE DEF suite
<1>4. /\ DOMAIN results' = Pending /\ UNCHANGED error
      /\ \A m \in Pending : results'[m] \in ProcessResults(m, suite[m])
  BY <1>1, <1>2, ReturnIs
<1>5. QED
  BY <1>1, <1>3, <1>4, PreliminaryIs DEF inputs

LEMMA ConfirmResults ==
  ASSUME Types, Confirm, phase' = "record"
  PROVE  /\ DOMAIN results' = DOMAIN results
         /\ UNCHANGED <<outcomes, input, turn, error>>
         /\ \A m \in Confirmations : results'[m] \in ProcessResults(m, Tests)
         /\ \A m \in DOMAIN results \ Confirmations : results'[m] = results[m]
<1> DEFINE suite == [m \in Confirmations |-> Tests]
<1>1. /\ DOMAIN suite = Confirmations /\ Confirmations \subseteq DOMAIN results
      /\ Confirmations \subseteq Mutants /\ Return(suite, "record")
      /\ \A m \in Confirmations : suite[m] = Tests
  BY DEF Confirm, Confirmations, Types
<1> HIDE DEF suite
<1>2. /\ DOMAIN results' = DOMAIN suite \cup DOMAIN results /\ UNCHANGED error
      /\ \A m \in DOMAIN suite : results'[m] \in ProcessResults(m, suite[m])
      /\ \A m \in DOMAIN results \ DOMAIN suite : results'[m] = results[m]
  BY <1>1, ReturnIs
<1>3. UNCHANGED <<outcomes, input, turn>>
  BY DEF Confirm, inputs
<1>4. QED
  BY <1>1, <1>2, <1>3

LEMMA FreshNext ==
  ASSUME Types, Placed, Fresh, Next
  PROVE  Fresh'
<1> USE DEF inputs, planning, Running, Ended, Started, Waving, Runtime
<1>1. CASE Begin \/ Preload
  BY <1>1 DEF Begin, Preload, Fresh
<1>2. CASE Plan \/ (\E g \in groups : PartialBaseline(g)) \/ PartialBaselineInterrupted
  BY <1>2 DEF Plan, PartialBaseline, PartialBaselineInterrupted, Fresh
<1>3. CASE CreateWorker \/ CreateWorkerFails \/ DisposeWorker \/ Conclude \/ Kill
  BY <1>3 DEF CreateWorker, CreateWorkerFails, DisposeWorker, Conclude, Kill, Fresh
<1>4. CASE Preliminary
  <2>1. phase' \in {"dispose", "confirmation"}
    BY <1>4 DEF Preliminary, Return, Completed
  <2>2. CASE phase' = "dispose"
    BY <2>2 DEF Fresh
  <2>3. CASE phase' = "confirmation"
    <3>1. DOMAIN results' = Pending /\ UNCHANGED <<outcomes, turn>>
      BY <1>4, <2>3, PreliminaryResults
    <3>2. QED
      BY <2>3, <3>1 DEF Fresh, Pending
  <2>4. QED
    BY <2>1, <2>2, <2>3
<1>5. CASE Confirm
  <2>1. phase = "confirmation" /\ phase' \in {"dispose", "record"}
    BY <1>5 DEF Confirm, Return, Completed
  <2>2. CASE phase' = "dispose"
    BY <2>2 DEF Fresh
  <2>3. CASE phase' = "record"
    <3>1. DOMAIN results' = DOMAIN results /\ UNCHANGED <<outcomes, turn>>
      BY <1>5, <2>3, ConfirmResults
    <3>2. QED
      BY <2>1, <2>3, <3>1 DEF Fresh
  <2>4. QED
    BY <2>1, <2>2, <2>3
<1>6. CASE NextRuntime \/ NextWave
  BY <1>6 DEF NextRuntime, NextWave, Fresh
<1>7. CASE \E m \in Mutants : Record(m) \/ RecordFails(m)
  <2>1. PICK m \in Mutants : Record(m) \/ RecordFails(m)
    BY <1>7
  <2>2. CASE RecordFails(m)
    BY <2>2 DEF RecordFails, Fresh
  <2>3. CASE Record(m)
    <3>1. \A n \in Mutants \ {m} : outcomes'[n] = outcomes[n]
      BY <2>3 DEF Record, Types
    <3>2. DOMAIN results' = DOMAIN results \ {m} /\ UNCHANGED turn
          /\ phase = "record" /\ phase' = "record"
      BY <2>3 DEF Record
    <3>3. QED
      BY <3>1, <3>2 DEF Fresh, Types
  <2>4. QED
    BY <2>1, <2>2, <2>3
<1>8. CASE CleanEntry
  BY <1>8 DEF CleanEntry, Fresh
<1>9. QED
  BY <1>1, <1>2, <1>3, <1>4, <1>5, <1>6, <1>7, <1>8 DEF Next, Progress, Planning, Waves

-----------------------------------------------------------------------------
(* What is said and what is stored *)

\* The result of the full suite is faithful; of a selection, a kill is.
LEMMA ResultFaithful ==
  ASSUME Types, NEW m \in Mutants, NEW tests \in SUBSET Tests,
         NEW p \in ProcessResults(m, tests),
         tests = Tests \/ process_outcome(p) = "killed"
  PROVE  Faithful(process_outcome(p), m, Runtime)
<1>1. /\ Runtime \in Runtimes /\ input \in Inputs
  BY RuntimeIs DEF Types
<1>2. process_outcome(p) \in
        {"timed-out", "test-error",
         IF Failing[input][m][Runtime] \cap tests = {} THEN "survived" ELSE "killed"}
  BY ProcessSays
<1>3. /\ Failing[input][m][Runtime] \cap Tests = Failing[input][m][Runtime]
      /\ Truth(input, m, Runtime) = "survived" <=> Failing[input][m][Runtime] = {}
      /\ Truth(input, m, Runtime) \in {"survived", "killed"}
  BY <1>1, SuiteDecides
<1>4. QED
  BY <1>2, <1>3 DEF Faithful

LEMMA CacheNext ==
  ASSUME Types, CacheSound, Measured, Next
  PROVE  CacheSound'
<1>1. CASE UNCHANGED cache
  BY <1>1 DEF CacheSound, Truth, fingerprint
<1>2. CASE CleanEntry
  <2>1. PICK k \in Keys : cache' = [cache EXCEPT ![k] = "none"]
    BY <1>2 DEF CleanEntry
  <2>2. \A x \in Keys : cache'[x] \in {cache[x], "none"}
    BY <2>1 DEF Types
  <2>3. \A i \in Inputs, m \in Mutants, r \in Runtimes : <<i, m, r>> \in Keys
    BY DEF Keys, fingerprint
  <2>4. QED
    BY <2>2, <2>3 DEF CacheSound, Truth, fingerprint
<1>3. CASE \E m \in Mutants : Record(m)
  <2>1. PICK m \in Mutants : Record(m)
    BY <1>3
  <2> DEFINE outcome == process_outcome(results[m])
  <2>2. CASE ~(Writes /\ Cacheable(outcome))
    <3>1. UNCHANGED cache
      BY <2>1, <2>2 DEF Record
    <3>2. QED
      BY <1>1, <3>1
  <2>3. CASE Writes /\ Cacheable(outcome)
    <3>1. cache' = [cache EXCEPT ![<<input, m, Runtime>>] = outcome]
      BY <2>1, <2>3 DEF Record, Key, fingerprint
    <3>2. outcome = Truth(input, m, Runtime)
      <4>1. phase = "record" /\ m \in DOMAIN results
        BY <2>1 DEF Record, Unrecorded
      <4>2. Faithful(outcome, m, Runtime)
        BY <4>1 DEF Measured
      <4>3. outcome \in {"killed", "survived"}
        BY <2>3 DEF Cacheable
      <4> HIDE DEF outcome
      <4>4. QED
        BY <4>2, <4>3 DEF Faithful
    <3> HIDE DEF outcome
    <3>3. ASSUME NEW i \in Inputs, NEW n \in Mutants, NEW r \in Runtimes
          PROVE  cache'[<<i, n, r>>] \in {"none", Truth(i, n, r)}
      <4>1. <<i, n, r>> \in Keys /\ cache[<<i, n, r>>] \in {"none", Truth(i, n, r)}
        BY DEF CacheSound, fingerprint, Keys
      <4>2. CASE <<i, n, r>> = <<input, m, Runtime>>
        <5>1. i = input /\ n = m /\ r = Runtime
          BY <4>2
        <5>2. cache'[<<i, n, r>>] = outcome
          BY <3>1, <4>1, <4>2 DEF Types
        <5>3. QED
          BY <3>2, <5>1, <5>2
      <4>3. CASE <<i, n, r>> # <<input, m, Runtime>>
        BY <3>1, <4>1, <4>3 DEF Types
      <4>4. QED
        BY <4>2, <4>3
    <3>4. QED
      BY <3>3 DEF CacheSound, fingerprint, Truth
  <2>4. QED
    BY <2>2, <2>3
<1>4. QED
  BY <1>1, <1>2, <1>3
  DEF Next, Progress, Planning, Waves, Begin, Preload, Plan, PartialBaselineInterrupted,
      PartialBaseline, CreateWorker, CreateWorkerFails, Preliminary, Confirm, NextRuntime,
      NextWave, RecordFails, DisposeWorker, Conclude, Kill

LEMMA MeasuredNext ==
  ASSUME Types, Placed, Fresh, CacheSound, Measured, Next
  PROVE  Measured'
<1> USE DEF inputs, planning, Running, Ended, Started, Waving
<1> DEFINE Outcomes1 == \A m \in Mutants, r \in Runtimes : Told(outcomes[m][r], m, r)
<1>0. Outcomes1 /\ UNCHANGED <<outcomes, input>> => Outcomes1'
  BY DEF Told, Faithful, Truth
<1>1. CASE Begin
  BY <1>1 DEF Begin, Measured, Told, Faithful
<1>2. CASE Preload
  <2>1. ASSUME NEW m \in Mutants, NEW r \in Runtimes
        PROVE  Told(Settled(m, r), m, r)
    <3>1. Cached(m, r) \in {"none", Truth(input, m, r)}
      BY DEF Cached, Key, CacheSound, Types
    <3>2. m \in Discharged[input][r] =>
            Truth(input, m, r) = "survived" \/ m \in LostPartings[input][r]
      BY DischargeAssumption DEF Truth, Types
    <3>3. QED
      BY <3>1, <3>2 DEF Settled, Told, Faithful
  <2>2. \A m \in Mutants, r \in Runtimes : outcomes'[m][r] = Settled(m, r)
    BY <1>2 DEF Preload
  <2>3. phase' \notin {"confirmation", "record"} /\ UNCHANGED input
    BY <1>2 DEF Preload
  <2>4. QED
    BY <2>1, <2>2, <2>3 DEF Measured, Told, Faithful, Truth
<1>3. CASE Plan \/ (\E g \in groups : PartialBaseline(g)) \/ PartialBaselineInterrupted
  BY <1>0, <1>3 DEF Plan, PartialBaseline, PartialBaselineInterrupted, Measured
<1>4. CASE CreateWorker \/ CreateWorkerFails \/ DisposeWorker \/ Conclude \/ Kill
  BY <1>0, <1>4 DEF CreateWorker, CreateWorkerFails, DisposeWorker, Conclude, Kill, Measured
<1>5. CASE Preliminary
  <2>1. phase' \in {"dispose", "confirmation"} /\ UNCHANGED <<outcomes, input>>
    BY <1>5 DEF Preliminary, Return, Completed
  <2>2. CASE phase' = "dispose"
    BY <1>0, <2>1, <2>2 DEF Measured
  <2>3. CASE phase' = "confirmation"
    <3>1. ASSUME NEW m \in Pending
          PROVE  \/ m \in Confirmations'
                 \/ Faithful(process_outcome(results[m]), m, Runtime)'
      <4> DEFINE tests == IF mode'[m][Runtime] = "narrowed" THEN Selectors[m][Runtime]
                          ELSE Tests
      <4>1. /\ results'[m] \in ProcessResults(m, tests) /\ m \in Mutants
            /\ m \in DOMAIN results' /\ UNCHANGED <<turn, input>>
        BY <1>5, <2>3, PreliminaryResults
      <4>2. tests \in SUBSET Tests
        BY <4>1, RuntimeIs, RunAssumption
      <4>3. /\ Runtime' = Runtime
            /\ \A o : Faithful(o, m, Runtime)' <=> Faithful(o, m, Runtime)
        BY <4>1 DEF Runtime, Faithful, Truth
      <4>4. CASE tests = Tests \/ process_outcome(results'[m]) = "killed"
        <5> HIDE DEF tests
        <5>1. Faithful(process_outcome(results'[m]), m, Runtime)
          BY <4>1, <4>2, <4>4, ResultFaithful
        <5>2. process_outcome(results'[m]) = process_outcome(results[m])'
          BY DEF process_outcome
        <5>3. QED
          BY <4>1, <5>1, <5>2 DEF Runtime, Faithful, Truth
      <4>5. CASE tests # Tests /\ process_outcome(results'[m]) # "killed"
        <5>1. process_outcome(results'[m]) = process_outcome(results[m])'
          BY DEF process_outcome
        <5>2. mode'[m][Runtime'] = "narrowed"
          BY <4>3, <4>5
        <5>3. QED
          BY <4>1, <4>5, <5>1, <5>2 DEF Confirmations, Narrowed
      <4>6. QED
        BY <4>4, <4>5
    <3>2. DOMAIN results' = Pending
      BY <1>5, <2>3, PreliminaryResults
    <3>3. QED
      BY <1>0, <2>1, <2>3, <3>1, <3>2 DEF Measured
  <2>4. QED
    BY <2>1, <2>2, <2>3
<1>6. CASE Confirm
  <2>1. /\ phase' \in {"dispose", "record"} /\ UNCHANGED <<outcomes, input>>
        /\ phase = "confirmation"
    BY <1>6 DEF Confirm, Return, Completed
  <2>2. CASE phase' = "dispose"
    BY <1>0, <2>1, <2>2 DEF Measured
  <2>3. CASE phase' = "record"
    <3>1. /\ DOMAIN results' = DOMAIN results /\ UNCHANGED <<input, turn>>
          /\ \A m \in Confirmations : results'[m] \in ProcessResults(m, Tests)
          /\ \A m \in DOMAIN results \ Confirmations : results'[m] = results[m]
      BY <1>6, <2>3, ConfirmResults
    <3>2. ASSUME NEW m \in DOMAIN results
          PROVE  Faithful(process_outcome(results'[m]), m, Runtime)
      <4>1. CASE m \in Confirmations
        BY <3>1, <4>1, ResultFaithful DEF Types
      <4>2. CASE m \notin Confirmations
        BY <2>1, <3>1, <4>2 DEF Measured
      <4>3. QED
        BY <4>1, <4>2
    <3>3. \A m \in DOMAIN results' : Faithful(process_outcome(results[m]), m, Runtime)'
      BY <3>1, <3>2 DEF Faithful, Truth, Runtime, process_outcome
    <3>4. QED
      BY <1>0, <2>1, <2>3, <3>3 DEF Measured
  <2>4. QED
    BY <2>1, <2>2, <2>3
<1>7. CASE NextRuntime \/ NextWave
  BY <1>0, <1>7 DEF NextRuntime, NextWave, Measured
<1>8. CASE \E m \in Mutants : Record(m) \/ RecordFails(m)
  <2>1. PICK m \in Mutants : Record(m) \/ RecordFails(m)
    BY <1>8
  <2>2. CASE RecordFails(m)
    BY <1>0, <2>2 DEF RecordFails, Measured
  <2>3. CASE Record(m)
    <3>1. /\ m \in DOMAIN results /\ phase = "record" /\ phase' = "record"
          /\ UNCHANGED <<input, turn>>
          /\ outcomes' = [outcomes EXCEPT ![m][Runtime] = process_outcome(results[m])]
          /\ results' = [n \in DOMAIN results \ {m} |-> results[n]]
      BY <2>3 DEF Record, Unrecorded
    <3>2. \A n \in Mutants, r \in Runtimes :
            outcomes'[n][r] = IF n = m /\ r = Runtime THEN process_outcome(results[m])
                              ELSE outcomes[n][r]
      BY <3>1 DEF Types
    <3>3. \A n \in Mutants, r \in Runtimes : Told(outcomes'[n][r], n, r)
      BY <3>1, <3>2 DEF Measured, Told
    <3>4. \A n \in DOMAIN results' : results'[n] = results[n] /\ n \in DOMAIN results
      BY <3>1
    <3>5. \A n \in DOMAIN results' : Faithful(process_outcome(results[n]), n, Runtime)'
      BY <3>1, <3>4 DEF Measured, Faithful, Truth, Runtime, process_outcome
    <3>6. QED
      BY <3>1, <3>3, <3>5 DEF Measured, Told, Faithful, Truth
  <2>4. QED
    BY <2>1, <2>2, <2>3
<1>9. CASE CleanEntry
  BY <1>0, <1>9 DEF CleanEntry, Measured, Runtime, Confirmations, Narrowed, process_outcome,
     Faithful, Truth
<1>10. QED
  BY <1>1, <1>2, <1>3, <1>4, <1>5, <1>6, <1>7, <1>8, <1>9
  DEF Next, Progress, Planning, Waves

-----------------------------------------------------------------------------
(* What is ahead *)

LEMMA AheadNext ==
  ASSUME Types, Placed, Fresh, Ahead, Next
  PROVE  Ahead'
<1> USE DEF inputs, planning, Running, Ended, Started, Waving, Finished
<1>0. /\ Len(missing) \in Nat /\ worker_count \in Nat /\ wave \in Nat /\ wave > 0
      /\ DOMAIN RuntimeOrder = 1..Len(RuntimeOrder) /\ Len(RuntimeOrder) \in Nat
      /\ UNCHANGED missing => worker_count' = worker_count
      /\ turn \in 1..Len(RuntimeOrder)
      /\ \A r \in Runtimes : \E k \in DOMAIN RuntimeOrder : RuntimeOrder[k] = r
      /\ \A k \in DOMAIN RuntimeOrder : RuntimeOrder[k] \in Runtimes
  <2>1. DOMAIN RuntimeOrder = 1..Len(RuntimeOrder) /\ Len(RuntimeOrder) \in Nat
    BY RunAssumption, LenProperties
  <2>2. /\ \A r \in Runtimes : \E k \in DOMAIN RuntimeOrder : RuntimeOrder[k] = r
        /\ \A k \in DOMAIN RuntimeOrder : RuntimeOrder[k] \in Runtimes
    BY DEF Runtimes, ToSet
  <2>3. UNCHANGED missing => worker_count' = worker_count
    BY DEF worker_count
  <2>4. Len(missing) \in Nat /\ Jobs \in Nat /\ worker_count \in Nat
    BY CountIs
  <2>5. wave \in Nat /\ wave > 0
    BY <2>4 DEF Placed
  <2>6. QED
    BY <2>1, <2>2, <2>3, <2>4, <2>5 DEF Types
<1>1. CASE Begin
  BY <1>1 DEF Begin, Ahead
<1>2. CASE Preload
  <2> DEFINE at == {i \in DOMAIN Planned : Lacks(Planned[i])}
  <2>1. /\ phase = "preload" /\ wave' = 1 /\ turn' = 1
        /\ missing' = Selected(Planned, at)
        /\ phase' = IF missing' = <<>> THEN "reported" ELSE "plan"
    BY <1>2 DEF Preload, Placed
  <2>2. /\ Selected(Planned, at) \in Seq(Mutants)
        /\ \A i \in at : \E n \in 1..Len(Selected(Planned, at)) :
             Selected(Planned, at)[n] = Planned[i]
    <3>1. at \in SUBSET DOMAIN Planned /\ Planned \in Seq(Mutants)
      BY RunAssumption
    <3> HIDE DEF at
    <3>2. QED
      BY <3>1, SelectedIs
  <2>3. \A m \in Mutants, r \in Runtimes :
          outcomes'[m][r] = "none" => \E i \in at : Planned[i] = m
    BY <1>2 DEF Preload, Lacks, Mutants, ToSet
  <2> HIDE DEF at
  <2>4. \A m \in Mutants, r \in Runtimes :
          outcomes'[m][r] = "none" => \E n \in 1..Len(missing') : missing'[n] = m
    BY <2>1, <2>2, <2>3
  <2>5. CASE phase' = "reported"
    <3>1. Len(missing') = 0
      BY <2>1, <2>5
    <3>2. QED
      BY <2>4, <2>5, <3>1 DEF Ahead
  <2>6. CASE phase' = "plan"
    <3>1. ASSUME NEW m \in Mutants, NEW k \in DOMAIN RuntimeOrder,
                 outcomes'[m][RuntimeOrder[k]] = "none"
          PROVE  Waits(m, k)'
      BY <1>0, <2>1, <2>4, <2>6, <3>1 DEF Waits
    <3>2. QED
      BY <2>6, <3>1 DEF Ahead
  <2>7. QED
    BY <2>1, <2>5, <2>6
<1>3. CASE UNCHANGED <<outcomes, missing, wave, turn, results>> /\ phase' \in Started
           /\ (phase' \in {"confirmation", "record"} => phase \in {"confirmation", "record"})
           /\ phase \in Started
  BY <1>0, <1>3 DEF Ahead, Waits
<1>4. CASE phase' \notin Started /\ ~Finished'
  BY <1>4 DEF Ahead
<1>5. CASE Finished /\ UNCHANGED outcomes /\ phase' \notin Started
  BY <1>5 DEF Ahead
<1>6. CASE Plan \/ (\E g \in groups : PartialBaseline(g)) \/ PartialBaselineInterrupted
  BY <1>3, <1>4, <1>6 DEF Plan, PartialBaseline, PartialBaselineInterrupted
<1>7. CASE CreateWorker \/ CreateWorkerFails \/ DisposeWorker \/ Conclude \/ Kill
  BY <1>3, <1>4, <1>5, <1>7 DEF CreateWorker, CreateWorkerFails, DisposeWorker, Conclude, Kill
<1>8. CASE Preliminary
  <2>1. /\ UNCHANGED <<outcomes, missing, wave, turn>> /\ phase = "preliminary"
        /\ phase' = "confirmation" \/ (phase' = "dispose" /\ error' = "interrupted")
    BY <1>8 DEF Preliminary, Return, Completed
  <2>2. CASE phase' = "confirmation"
    <3>1. DOMAIN results' = Pending
      BY <1>8, <2>2, PreliminaryResults
    <3>2. ASSUME NEW m \in Mutants, NEW k \in DOMAIN RuntimeOrder,
                 outcomes'[m][RuntimeOrder[k]] = "none"
          PROVE  Waits(m, k)'
      <4>1. PICK n \in wave..Len(missing) :
              missing[n] = m /\ (n < wave + worker_count => turn <= k)
        BY <2>1, <3>2 DEF Ahead, Waits
      <4>2. n < wave + worker_count => m \in ToSet(Wave)
        BY <1>0, <4>1, WaveIs
      <4>3. n < wave + worker_count /\ turn = k => m \in Pending
        BY <2>1, <3>2, <4>2 DEF Pending, Runtime
      <4>4. QED
        BY <1>0, <2>1, <3>1, <4>1, <4>3 DEF Waits
    <3>3. QED
      BY <2>2, <3>2 DEF Ahead
  <2>3. QED
    BY <1>4, <2>1, <2>2
<1>9. CASE Confirm
  <2>1. /\ UNCHANGED <<outcomes, missing, wave, turn>> /\ phase = "confirmation"
        /\ phase' = "record" \/ (phase' = "dispose" /\ error' = "interrupted")
    BY <1>9 DEF Confirm, Return, Completed
  <2>2. CASE phase' = "record"
    <3>1. DOMAIN results' = DOMAIN results
      BY <1>9, <2>2, ConfirmResults
    <3>2. QED
      BY <1>0, <2>1, <2>2, <3>1 DEF Ahead, Waits
  <2>3. QED
    BY <1>4, <2>1, <2>2
<1>10. CASE NextRuntime
  <2>1. /\ UNCHANGED <<outcomes, missing, wave>> /\ turn' = turn + 1
        /\ phase = "record" /\ phase' = "preliminary" /\ DOMAIN results = {}
    BY <1>10 DEF NextRuntime
  <2>2. ASSUME NEW m \in Mutants, NEW k \in DOMAIN RuntimeOrder,
               outcomes[m][RuntimeOrder[k]] = "none"
        PROVE  Waits(m, k)'
    <3>1. Waits(m, k)
      BY <2>1, <2>2 DEF Ahead
    <3>2. QED
      BY <1>0, <2>1, <3>1 DEF Waits
  <2>3. QED
    BY <2>1, <2>2 DEF Ahead
<1>11. CASE NextWave
  <2>1. /\ UNCHANGED <<outcomes, missing, error>> /\ turn' = 1 /\ wave' = wave + worker_count
        /\ phase = "record" /\ DOMAIN results = {} /\ turn = Len(RuntimeOrder)
        /\ phase' = IF wave' <= Len(missing) THEN "preliminary" ELSE "dispose"
    BY <1>11 DEF NextWave
  <2>2. ASSUME NEW m \in Mutants, NEW k \in DOMAIN RuntimeOrder,
               outcomes[m][RuntimeOrder[k]] = "none"
        PROVE  wave' <= Len(missing) /\ Waits(m, k)'
    <3>1. PICK n \in wave..Len(missing) :
            /\ missing[n] = m
            /\ n < wave + worker_count => turn <= k /\ (turn = k => m \in DOMAIN results)
      BY <2>1, <2>2 DEF Ahead, Waits
    <3>2. n >= wave + worker_count
      BY <1>0, <2>1, <3>1
    <3>3. QED
      BY <1>0, <2>1, <3>1, <3>2 DEF Waits
  <2>3. QED
    BY <1>0, <2>1, <2>2 DEF Ahead
<1>12. CASE \E m \in Mutants : Record(m) \/ RecordFails(m)
  <2>1. PICK m \in Mutants : Record(m) \/ RecordFails(m)
    BY <1>12
  <2>2. CASE RecordFails(m)
    BY <1>4, <2>2 DEF RecordFails
  <2>3. CASE Record(m)
    <3>1. /\ phase = "record" /\ phase' = "record" /\ UNCHANGED <<missing, wave, turn>>
          /\ outcomes' = [outcomes EXCEPT ![m][Runtime] = process_outcome(results[m])]
          /\ DOMAIN results' = DOMAIN results \ {m}
      BY <2>3 DEF Record
    <3>2. \A n \in Mutants, r \in Runtimes :
            outcomes'[n][r] = IF n = m /\ r = Runtime THEN process_outcome(results[m])
                              ELSE outcomes[n][r]
      BY <3>1 DEF Types
    <3>3. process_outcome(results[m]) # "none" /\ Runtime = RuntimeOrder[turn]
      BY DEF process_outcome, Runtime
    <3>4. ASSUME NEW n \in Mutants, NEW k \in DOMAIN RuntimeOrder,
                 outcomes'[n][RuntimeOrder[k]] = "none"
          PROVE  Waits(n, k)'
      <4>1. outcomes[n][RuntimeOrder[k]] = "none" /\ (turn = k => n # m)
        BY <1>0, <3>2, <3>3, <3>4
      <4>2. Waits(n, k)
        BY <3>1, <4>1 DEF Ahead
      <4>3. QED
        BY <1>0, <3>1, <4>1, <4>2 DEF Waits
    <3>5. QED
      BY <3>1, <3>4 DEF Ahead
  <2>4. QED
    BY <2>1, <2>2, <2>3
<1>13. CASE CleanEntry
  <2>1. UNCHANGED <<phase, outcomes, missing, wave, turn, results, error>>
    BY <1>13 DEF CleanEntry
  <2>2. QED
    BY <1>0, <2>1 DEF Ahead, Waits
<1>14. QED
  BY <1>1, <1>2, <1>6, <1>7, <1>8, <1>9, <1>10, <1>11, <1>12, <1>13
  DEF Next, Progress, Planning, Waves

-----------------------------------------------------------------------------
(* What the cache lacks, the suites and the counts *)

\* The outcomes of one record.
LEMMA RecordIs ==
  ASSUME Types, NEW m \in Mutants, Record(m)
  PROVE  /\ phase = "record" /\ phase' = "record" /\ m \in DOMAIN results
         /\ UNCHANGED <<runs, inputs, planning, workers, leaked, wave, turn, counts, error>>
         /\ DOMAIN results' = DOMAIN results \ {m} /\ process_outcome(results[m]) # "none"
         /\ \A n \in Mutants, r \in Runtimes :
              outcomes'[n][r] = IF n = m /\ r = Runtime THEN process_outcome(results[m])
                                ELSE outcomes[n][r]
         /\ \A x \in Keys : x # Key(m, Runtime) => cache'[x] = cache[x]
<1>1. outcomes' = [outcomes EXCEPT ![m][Runtime] = process_outcome(results[m])]
  BY DEF Record
<1>2. \A n \in Mutants, r \in Runtimes :
        outcomes'[n][r] = IF n = m /\ r = Runtime THEN process_outcome(results[m])
                          ELSE outcomes[n][r]
  BY <1>1 DEF Types
<1>3. cache' = cache \/ cache' = [cache EXCEPT ![Key(m, Runtime)] = process_outcome(results[m])]
  BY DEF Record
<1>4. \A x \in Keys : x # Key(m, Runtime) => cache'[x] = cache[x]
  BY <1>3 DEF Types
<1>5. process_outcome(results[m]) # "none"
  BY DEF process_outcome
<1>6. QED
  BY <1>2, <1>4, <1>5 DEF Record, Unrecorded

LEMMA NotStoredNext ==
  ASSUME Types, NotStored, Next
  PROVE  NotStored'
<1> USE DEF inputs, planning, Running, Ended, Started, Waving
<1>1. CASE UNCHANGED <<inputs, cache, outcomes>> /\ (phase' \in Started => phase \in Started)
  BY <1>1 DEF NotStored, Reads, Key, fingerprint
<1>2. CASE phase' \notin Started
  BY <1>2 DEF NotStored
<1>3. CASE Preload
  <2>1. UNCHANGED <<inputs, cache>>
        /\ \A m \in Mutants, r \in Runtimes : outcomes'[m][r] = Settled(m, r)
    BY <1>3 DEF Preload
  <2>2. \A m \in Mutants, r \in Runtimes :
          Settled(m, r) = "none" /\ Reads => cache[Key(m, r)] = "none"
    BY DEF Settled, Cached
  <2>3. QED
    BY <2>1, <2>2 DEF NotStored, Reads, Key, fingerprint
<1>4. CASE \E m \in Mutants : Record(m)
  <2>1. PICK m \in Mutants : Record(m)
    BY <1>4
  <2>2. /\ phase = "record" /\ UNCHANGED inputs /\ process_outcome(results[m]) # "none"
        /\ \A n \in Mutants, r \in Runtimes :
              outcomes'[n][r] = IF n = m /\ r = Runtime THEN process_outcome(results[m])
                                ELSE outcomes[n][r]
        /\ \A x \in Keys : x # Key(m, Runtime) => cache'[x] = cache[x]
    BY <2>1, RecordIs
  <2>3. \A n \in Mutants, r \in Runtimes : Key(n, r) \in Keys
    BY DEF Key, Keys, Types
  <2>4. ASSUME NEW n \in Mutants, NEW r \in Runtimes, Reads, outcomes'[n][r] = "none"
        PROVE  cache'[Key(n, r)] = "none"
    <3>1. ~(n = m /\ r = Runtime) /\ outcomes[n][r] = "none"
      BY <2>2, <2>4
    <3>2. Key(n, r) # Key(m, Runtime)
      BY <3>1 DEF Key
    <3>3. cache[Key(n, r)] = "none"
      BY <2>2, <2>4, <3>1 DEF NotStored
    <3>4. QED
      BY <2>2, <2>3, <3>2, <3>3
  <2>5. QED
    BY <2>2, <2>4 DEF NotStored, Reads, Key, fingerprint
<1>5. CASE CleanEntry
  <2>1. PICK k \in Keys : cache' = [cache EXCEPT ![k] = "none"]
    BY <1>5 DEF CleanEntry
  <2>2. \A x \in Keys : cache[x] = "none" => cache'[x] = "none"
    BY <2>1 DEF Types
  <2>3. \A n \in Mutants, r \in Runtimes : Key(n, r) \in Keys
    BY DEF Key, Keys, Types
  <2>4. UNCHANGED <<phase, inputs, outcomes>>
    BY <1>5 DEF CleanEntry
  <2>5. QED
    BY <2>2, <2>3, <2>4 DEF NotStored, Reads, Key, fingerprint
<1>6. CASE Preliminary \/ Confirm
  BY <1>1, <1>6 DEF Preliminary, Confirm, Return, Completed
<1>7. CASE Plan \/ PartialBaselineInterrupted \/ CreateWorker \/ CreateWorkerFails
           \/ DisposeWorker \/ Conclude \/ Kill \/ Begin \/ NextRuntime \/ NextWave
           \/ (\E g \in groups : PartialBaseline(g)) \/ \E m \in Mutants : RecordFails(m)
  BY <1>1, <1>2, <1>7
  DEF Plan, PartialBaselineInterrupted, PartialBaseline, CreateWorker, CreateWorkerFails,
      DisposeWorker, Conclude, Kill, Begin, NextRuntime, NextWave, RecordFails
<1>8. QED
  BY <1>3, <1>4, <1>5, <1>6, <1>7 DEF Next, Progress, Planning, Waves

LEMMA ModedNext ==
  ASSUME Types, Placed, Moded, Next
  PROVE  Moded'
<1> USE DEF inputs, planning, Running, Ended, Started, Waving
<1>1. CASE /\ UNCHANGED <<inputs, outcomes, mode, groups>>
           /\ phase' \in Waving \cup {"workers"} => phase \in Waving \cup {"workers"}
  BY <1>1 DEF Moded, Evidence, Narrowable
<1>2. CASE phase' \notin Waving \cup {"workers"}
  BY <1>2 DEF Moded
<1>3. CASE Plan
  <2>1. /\ UNCHANGED <<inputs, outcomes>>
        /\ mode' = [m \in Mutants |-> [r \in Runtimes |->
             IF <<m, r>> \in Lacking /\ impact[r] # "disabled" /\ ~Narrowable(m, r)
             THEN "fallback" ELSE "full"]]
        /\ groups' = {<<s[2], Selectors[s[1]][s[2]]>> :
                        s \in {t \in Lacking : Narrowable(t[1], t[2])}}
    BY <1>3 DEF Plan
  <2>2. ASSUME NEW m \in Mutants, NEW r \in Runtimes, outcomes[m][r] = "none",
               impact[r] # "disabled"
        PROVE  \/ mode'[m][r] = "fallback"
               \/ Narrowable(m, r) /\ <<r, Selectors[m][r]>> \in groups'
    <3>1. <<m, r>> \in Lacking
      BY <2>2 DEF Lacking, Sites
    <3>2. CASE Narrowable(m, r)
      BY <2>1, <3>1, <3>2
    <3>3. CASE ~Narrowable(m, r)
      BY <2>1, <2>2, <3>1, <3>3
    <3>4. QED
      BY <3>2, <3>3
  <2>3. QED
    BY <2>1, <2>2 DEF Moded, Evidence, Narrowable
<1>4. CASE \E g \in groups : PartialBaseline(g)
  <2>1. PICK g \in groups : PartialBaseline(g)
    BY <1>4
  <2>2. PICK passed \in BOOLEAN :
          mode' = [m \in Mutants |-> [r \in Runtimes |->
            IF <<m, r>> \notin Group(g) THEN mode[m][r]
            ELSE IF passed THEN "narrowed" ELSE "fallback"]]
    BY <2>1 DEF PartialBaseline
  <2>3. UNCHANGED <<phase, inputs, outcomes>> /\ groups' = groups \ {g} /\ phase = "workers"
    BY <2>1 DEF PartialBaseline
  <2>4. ASSUME NEW m \in Mutants, NEW r \in Runtimes, outcomes[m][r] = "none", Evidence
        PROVE  \/ mode'[m][r] \in {"narrowed", "fallback"}
               \/ Narrowable(m, r) /\ <<r, Selectors[m][r]>> \in groups'
    <3>1. CASE <<m, r>> \in Group(g)
      BY <2>2, <3>1
    <3>2. CASE <<m, r>> \notin Group(g)
      <4>1. mode'[m][r] = mode[m][r]
        BY <2>2, <3>2
      <4>2. ~(Narrowable(m, r) /\ <<r, Selectors[m][r]>> = g)
        BY <2>4, <3>2 DEF Group, Lacking, Sites
      <4>3. QED
        BY <2>3, <2>4, <4>1, <4>2 DEF Moded
    <3>3. QED
      BY <3>1, <3>2
  <2>5. QED
    BY <2>3, <2>4 DEF Moded, Evidence, Narrowable
<1>5. CASE Preliminary
  <2>1. /\ UNCHANGED <<inputs, outcomes, groups>> /\ phase = "preliminary"
        /\ \A m \in Mutants : \A r \in Runtimes :
              mode'[m][r] # mode[m][r] => mode'[m][r] = "fallback"
    BY <1>5, PreliminaryIs
  <2>2. QED
    BY <2>1 DEF Moded, Evidence, Narrowable
<1>6. CASE Confirm
  BY <1>1, <1>6 DEF Confirm
<1>7. CASE \E m \in Mutants : Record(m)
  <2>1. PICK m \in Mutants : Record(m)
    BY <1>7
  <2>2. /\ phase = "record" /\ UNCHANGED <<inputs, mode, groups>>
        /\ \A n \in Mutants, r \in Runtimes :
             outcomes'[n][r] = "none" => outcomes[n][r] = "none"
    BY <2>1, RecordIs
  <2>3. QED
    BY <2>2 DEF Moded, Evidence, Narrowable
<1>8. CASE Preload \/ Begin \/ PartialBaselineInterrupted \/ CreateWorker
           \/ CreateWorkerFails \/ DisposeWorker \/ Conclude \/ Kill \/ NextRuntime
           \/ NextWave \/ CleanEntry \/ \E m \in Mutants : RecordFails(m)
  BY <1>1, <1>2, <1>8
  DEF Preload, Begin, PartialBaselineInterrupted, CreateWorker, CreateWorkerFails,
      DisposeWorker, Conclude, Kill, NextRuntime, NextWave, CleanEntry, RecordFails
<1>9. QED
  BY <1>3, <1>4, <1>5, <1>6, <1>7, <1>8 DEF Next, Progress, Planning, Waves

\* The counted results of the preliminary and confirming batches of a wave.
LEMMA ReturnedCount ==
  ASSUME Types, Placed, Fresh, Moded, Evidence, phase = "confirmation"
  PROVE  Cardinality(Judged \cup Returned)
           = Cardinality(Judged)
             + Cardinality({m \in DOMAIN results : Narrowed(m)})
             + Cardinality({m \in DOMAIN results : mode[m][Runtime] = "fallback"})
<1> DEFINE D == DOMAIN results
           n == {m \in D : Narrowed(m)}
           f == {m \in D : mode[m][Runtime] = "fallback"}
<1>1. D \subseteq Mutants /\ Runtime \in Runtimes /\ IsFiniteSet(D)
  BY RuntimeIs, PlanFinite, FS_Subset DEF Types
<1>2. D = n \cup f /\ n \cap f = {}
  <2>1. \A m \in D : outcomes[m][Runtime] = "none" /\ groups = {}
    BY DEF Fresh, Placed, Waving
  <2>2. QED
    BY <1>1, <2>1 DEF Moded, Waving, Narrowed
<1>3. IsFiniteSet(Judged) /\ IsFiniteSet(n) /\ IsFiniteSet(f)
  BY <1>1, PlanFinite, FS_Subset DEF Judged
<1>4. Cardinality(D) = Cardinality(n) + Cardinality(f)
  <2> HIDE DEF n, f, D
  <2>1. Cardinality(n \cup f) = Cardinality(n) + Cardinality(f) - Cardinality(n \cap f)
    BY <1>3, FS_Union
  <2>2. Cardinality(n \cap f) = 0 /\ Cardinality(n) \in Nat /\ Cardinality(f) \in Nat
    BY <1>2, <1>3, FS_EmptySet, FS_CardinalityType
  <2>3. Cardinality(D) = Cardinality(n \cup f)
    BY <1>2
  <2>4. QED
    BY <2>1, <2>2, <2>3
<1>5. IsFiniteSet(Returned) /\ Cardinality(Returned) = Cardinality(D)
  <2> DEFINE pair == [m \in D |-> <<m, Runtime>>]
  <2>1. pair \in Bijection(D, Returned)
    BY DEF Returned, Bijection, Injection, Surjection, IsInjective
  <2>2. ExistsBijection(D, Returned)
    BY <2>1 DEF ExistsBijection
  <2>3. QED
    BY <1>1, <2>2, FS_Bijection
<1>6. Judged \cap Returned = {}
  BY DEF Judged, Returned, Fresh, Waving
<1>7. Cardinality(Judged \cup Returned) = Cardinality(Judged) + Cardinality(Returned)
  <2>1. Cardinality(Judged \cup Returned)
          = Cardinality(Judged) + Cardinality(Returned) - Cardinality(Judged \cap Returned)
    BY <1>3, <1>5, FS_Union
  <2>2. /\ Cardinality(Judged \cap Returned) = 0
        /\ Cardinality(Judged) \in Nat /\ Cardinality(Returned) \in Nat
    BY <1>3, <1>5, <1>6, FS_EmptySet, FS_CardinalityType
  <2>3. QED
    BY <2>1, <2>2
<1> HIDE DEF n, f, D
<1>8. QED
  <2>1. Cardinality(Judged) \in Nat /\ Cardinality(n) \in Nat /\ Cardinality(f) \in Nat
    BY <1>3, FS_CardinalityType
  <2>2. Cardinality(Judged \cup Returned)
          = Cardinality(Judged) + Cardinality(n) + Cardinality(f)
    BY <1>4, <1>5, <1>7, <2>1
  <2>3. QED
    BY <2>2 DEF n, f, D

\* The hits and the discharged mutants are what is judged from the start.
LEMMA PreloadCount ==
  ASSUME Types, Counted, Preload
  PROVE  Total' = Cardinality(Judged') /\ counts'.narrowed = 0 /\ UNCHANGED counts.confirmations
<1> DEFINE hits == {s \in Sites : Cached(s[1], s[2]) # "none"}
           settled == {s \in Sites : Settled(s[1], s[2]) # "none"}
<1>1. hits \subseteq settled /\ IsFiniteSet(hits) /\ IsFiniteSet(settled)
  BY PlanFinite, FS_Subset DEF Settled
<1>2. Judged' = settled
  BY DEF Judged, Preload, Sites
<1>3. /\ phase = "preload"
      /\ counts' = [counts EXCEPT !.hits = Cardinality(hits),
                                  !.discharged = Cardinality(settled \ hits)]
  BY DEF Preload
<1> HIDE DEF hits, settled
<1>4. Cardinality(settled \ hits) = Cardinality(settled) - Cardinality(hits)
  <2>1. Cardinality(settled \ hits)
          = Cardinality(settled) - Cardinality(settled \cap hits)
    BY <1>1, FS_Difference
  <2>2. settled \cap hits = hits
    BY <1>1
  <2>3. QED
    BY <2>1, <2>2
<1>5. Cardinality(hits) \in Nat /\ Cardinality(settled) \in Nat
  BY <1>1, FS_CardinalityType
<1>6. counts.narrowed = 0 /\ counts.fallbacks = 0 /\ counts.confirmations \in Nat
  BY <1>3 DEF Counted, Types
<1>7. /\ counts'.hits = Cardinality(hits) /\ counts'.discharged = Cardinality(settled \ hits)
      /\ counts'.narrowed = counts.narrowed /\ counts'.fallbacks = counts.fallbacks
      /\ counts'.confirmations = counts.confirmations
  BY <1>3 DEF Types
<1>8. QED
  BY <1>2, <1>4, <1>5, <1>6, <1>7 DEF Total

LEMMA CountedNext ==
  ASSUME Types, Placed, Fresh, Moded, Counted, Next
  PROVE  Counted'
<1> USE DEF inputs, planning, Running, Ended, Started, Waving, Finished
<1>1. CASE /\ UNCHANGED <<inputs, outcomes, counts>> /\ phase' \notin {"preload", "record"}
           /\ Finished' \/ phase' \in Started =>
                Finished \/ phase \in Started \ {"record"}
  BY <1>1 DEF Counted, Evidence, Judged, Total
<1>2. CASE Begin
  BY <1>2 DEF Begin, Counted
<1>3. CASE Preload
  <2>1. Total' = Cardinality(Judged') /\ counts'.narrowed = 0 /\ UNCHANGED counts.confirmations
    BY <1>3, PreloadCount
  <2>2. phase = "preload" /\ phase' \in {"plan", "reported"}
    BY <1>3 DEF Preload
  <2>3. counts.confirmations <= 0
    BY <2>2 DEF Counted
  <2>4. QED
    BY <2>1, <2>2, <2>3 DEF Counted
<1>4. CASE Preliminary
  <2>1. /\ UNCHANGED <<inputs, outcomes, counts>> /\ phase = "preliminary"
        /\ phase' = "confirmation" \/ (phase' = "dispose" /\ error' = "interrupted")
    BY <1>4 DEF Preliminary, Return, Completed
  <2>2. QED
    BY <1>1, <2>1
<1>5. CASE Confirm
  <2>1. /\ UNCHANGED <<inputs, outcomes, mode, turn>> /\ phase = "confirmation"
        /\ phase' = "record" \/ (phase' = "dispose" /\ error' = "interrupted")
    BY <1>5 DEF Confirm, Return, Completed
  <2>2. CASE phase' = "dispose"
    <3>1. UNCHANGED counts
      BY <1>5, <2>2 DEF Confirm
    <3>2. QED
      BY <1>1, <2>1, <2>2, <3>1
  <2>3. CASE phase' = "record"
    <3> DEFINE n == {m \in DOMAIN results : Narrowed(m)}
               f == {m \in DOMAIN results : mode[m][Runtime] = "fallback"}
    <3>1. counts' = [counts EXCEPT
                       !.narrowed = counts.narrowed + Cardinality(n),
                       !.confirmations = counts.confirmations + Cardinality(Confirmations),
                       !.fallbacks = counts.fallbacks + Cardinality(f)]
      BY <1>5, <2>3 DEF Confirm
    <3>2. /\ Cardinality(n) \in Nat /\ Cardinality(f) \in Nat
          /\ Cardinality(Confirmations) \in Nat /\ Cardinality(Confirmations) <= Cardinality(n)
      <4>1. IsFiniteSet(n) /\ IsFiniteSet(f) /\ Confirmations \in SUBSET n
        BY PlanFinite, FS_Subset DEF Types, Confirmations
      <4> HIDE DEF n, f
      <4>2. IsFiniteSet(Confirmations) /\ Cardinality(Confirmations) <= Cardinality(n)
        BY <4>1, FS_Subset
      <4>3. QED
        BY <4>1, <4>2, FS_CardinalityType
    <3>3. Judged' = Judged /\ Returned' = Returned
      <4>1. DOMAIN results' = DOMAIN results
        BY <1>5, <2>3, ConfirmResults
      <4>2. QED
        BY <2>1, <4>1 DEF Judged, Returned, Runtime
    <3>4. Evidence => Cardinality(Judged \cup Returned)
                        = Cardinality(Judged) + Cardinality(n) + Cardinality(f)
      BY <2>1, ReturnedCount
    <3>5. Evidence => Total = Cardinality(Judged)
      BY <2>1 DEF Counted
    <3>6. Evidence' = Evidence
      BY <2>1 DEF Evidence
    <3> HIDE DEF n, f
    <3>7. /\ counts'.hits = counts.hits /\ counts'.discharged = counts.discharged
          /\ counts'.narrowed = counts.narrowed + Cardinality(n)
          /\ counts'.confirmations = counts.confirmations + Cardinality(Confirmations)
          /\ counts'.fallbacks = counts.fallbacks + Cardinality(f)
          /\ counts.hits \in Nat /\ counts.discharged \in Nat /\ counts.narrowed \in Nat
          /\ counts.confirmations \in Nat /\ counts.fallbacks \in Nat
      BY <3>1 DEF Types
    <3>8. Total' = Total + Cardinality(n) + Cardinality(f)
      BY <3>2, <3>7 DEF Total
    <3>9. Evidence => Total' = Cardinality(Judged \cup Returned)
      BY <3>2, <3>4, <3>5, <3>8
    <3>10. counts.confirmations <= counts.narrowed
      BY DEF Counted
    <3>11. counts'.confirmations <= counts'.narrowed
      BY <3>2, <3>7, <3>10
    <3>12. QED
      BY <2>3, <3>3, <3>6, <3>9, <3>11 DEF Counted
  <2>4. QED
    BY <2>1, <2>2, <2>3
<1>6. CASE NextRuntime \/ NextWave
  <2>1. /\ UNCHANGED <<inputs, outcomes, counts>> /\ phase = "record"
        /\ phase' \in {"preliminary", "dispose"} /\ DOMAIN results = {}
    BY <1>6 DEF NextRuntime, NextWave
  <2>2. Judged \cup Returned = Judged
    BY <2>1 DEF Returned
  <2>3. QED
    BY <2>1, <2>2 DEF Counted, Evidence, Judged, Total
<1>7. CASE \E m \in Mutants : Record(m)
  <2>1. PICK m \in Mutants : Record(m)
    BY <1>7
  <2>2. /\ phase = "record" /\ phase' = "record" /\ UNCHANGED <<inputs, counts, turn>>
        /\ m \in DOMAIN results
        /\ DOMAIN results' = DOMAIN results \ {m} /\ process_outcome(results[m]) # "none"
        /\ \A n \in Mutants, r \in Runtimes :
             outcomes'[n][r] = IF n = m /\ r = Runtime THEN process_outcome(results[m])
                               ELSE outcomes[n][r]
    BY <2>1, RecordIs
  <2>3. Runtime \in Runtimes /\ Runtime' = Runtime
    BY <2>2, RuntimeIs DEF Runtime
  <2>4. Judged' = Judged \cup {<<m, Runtime>>}
    BY <2>2, <2>3 DEF Judged, Sites
  <2>5. Returned' = Returned \ {<<m, Runtime>>} /\ <<m, Runtime>> \in Returned
    BY <2>2, <2>3 DEF Returned
  <2>6. Judged' \cup Returned' = Judged \cup Returned
    BY <2>4, <2>5
  <2>7. QED
    BY <2>2, <2>6 DEF Counted, Evidence, Total
<1>8. CASE Plan \/ (\E g \in groups : PartialBaseline(g)) \/ PartialBaselineInterrupted
           \/ CreateWorker \/ CreateWorkerFails \/ DisposeWorker \/ Conclude \/ Kill
           \/ \E m \in Mutants : RecordFails(m)
  BY <1>1, <1>8
  DEF Plan, PartialBaseline, PartialBaselineInterrupted, CreateWorker, CreateWorkerFails,
      DisposeWorker, Conclude, Kill, RecordFails
<1>9. CASE CleanEntry
  BY <1>9 DEF CleanEntry, Counted, Evidence, Judged, Returned, Runtime, Total
<1>10. QED
  BY <1>2, <1>3, <1>4, <1>5, <1>6, <1>7, <1>8, <1>9 DEF Next, Progress, Planning, Waves

-----------------------------------------------------------------------------
(* The inductive invariant *)

Inv ==
  /\ Types /\ Pool /\ Placed /\ Fresh /\ Measured /\ CacheSound
  /\ Ahead /\ NotStored /\ Moded /\ Counted

LEMMA InvInit == Init => Inv
<1> SUFFICES ASSUME Init PROVE Inv
  OBVIOUS
<1> USE DEF Init, Running, Ended, Started, Waving, Finished
<1>1. Types
  <2>1. /\ Len(RuntimeOrder) \in Nat \ {0} /\ DOMAIN RuntimeOrder = 1..Len(RuntimeOrder)
        /\ MaxRuns \in Nat
    BY RunAssumption, EmptySeq, LenProperties
  <2>2. missing \in Seq(Mutants) /\ input \in Inputs
    BY EmptySeq, RunAssumption
  <2>3. turn \in DOMAIN RuntimeOrder /\ runs \in 0..MaxRuns
    BY <2>1
  <2>4. QED
    BY <2>2, <2>3 DEF Types, Outcomes
<1>2. Pool /\ Placed
  <2>1. Jobs \in Nat \ {0} /\ Len(missing) = 0
    BY RunAssumption
  <2>2. QED
    BY <2>1 DEF Pool, Placed
<1>3. Fresh /\ Ahead /\ NotStored /\ Moded /\ Counted
  BY DEF Fresh, Ahead, NotStored, Moded, Counted
<1>4. Measured
  BY DEF Measured, Told, Faithful
<1>5. CacheSound
  BY DEF CacheSound, Keys, fingerprint
<1>6. QED
  BY <1>1, <1>2, <1>3, <1>4, <1>5 DEF Inv

LEMMA InvNext == Inv /\ [Next]_vars => Inv'
<1> SUFFICES ASSUME Inv, [Next]_vars PROVE Inv'
  OBVIOUS
<1>1. CASE Next
  BY <1>1, TypesNext, PoolNext, PlacedNext, FreshNext, MeasuredNext, CacheNext, AheadNext,
     NotStoredNext, ModedNext, CountedNext DEF Inv
<1>2. CASE UNCHANGED vars
  <2> USE <1>2 DEF vars, inputs, planning
  <2>1. (Types /\ Pool /\ Placed)'
    BY DEF Inv, Types, Pool, Placed, worker_count
  <2>2. (Fresh /\ Ahead)'
    BY DEF Inv, Fresh, Ahead, Waits, Finished, worker_count, Runtime
  <2>3. (Measured /\ CacheSound)'
    BY DEF Inv, Measured, CacheSound, Told, Faithful, Confirmations, Narrowed, process_outcome,
       Truth, Runtime, fingerprint
  <2>4. (NotStored /\ Moded)'
    BY DEF Inv, NotStored, Reads, Key, fingerprint, Moded, Evidence, Narrowable
  <2>5. Counted'
    BY DEF Inv, Counted, Evidence, Finished, Total, Judged, Returned, Runtime
  <2>6. QED
    BY <2>1, <2>2, <2>3, <2>4, <2>5 DEF Inv
<1>3. QED
  BY <1>1, <1>2

LEMMA InvHolds == Spec => []Inv
BY InvInit, InvNext, PTL DEF Spec

-----------------------------------------------------------------------------
(* The results *)

\* engine.run_mutants keeps each of its variables in its type, whatever is
\* planned: never more than Jobs workers, never a wave or a runtime beyond the
\* last.
THEOREM TypeCorrect == Spec => []TypeOK
<1>1. Inv => TypeOK
  <2> SUFFICES ASSUME Inv PROVE TypeOK
    OBVIOUS
  <2>1. ToSet(missing) \subseteq Mutants
    <3>1. \A i \in DOMAIN missing : missing[i] \in Mutants
      BY DEF Inv, Types
    <3>2. QED
      BY <3>1 DEF ToSet
  <2>2. workers \in 0..Jobs /\ leaked \in 0..Jobs
    BY RunAssumption DEF Inv, Pool
  <2>3. turn \in 1..Len(RuntimeOrder)
    BY RunAssumption, LenProperties DEF Inv, Types
  <2>4. QED
    BY <2>1, <2>2, <2>3 DEF Inv, Types, Placed, TypeOK
<1>2. QED
  BY <1>1, InvHolds, PTL

\* cache.read finds what cache.write stored: under every fingerprint only the
\* verdict that the full suite gives for those inputs, across any sequence of
\* runs, kills, interruptions and cleanings.
THEOREM CacheSoundAlways == Spec => []CacheSound
<1>1. Inv => CacheSound
  BY DEF Inv
<1>2. QED
  BY <1>1, InvHolds, PTL

LEMMA SoundReport == Inv => ReportSound
<1> SUFFICES ASSUME Inv, phase = "reported", NEW m \in Mutants
             PROVE  /\ Reported(m) = "killed" =>
                         \A r \in Runtimes : Truth(input, m, r) = "killed"
                    /\ Reported(m) = "survived" =>
                         \E r \in Runtimes : \/ Truth(input, m, r) = "survived"
                                            \/ m \in LostPartings[input][r]
  BY DEF ReportSound
<1> DEFINE of == {outcomes[m][r] : r \in Runtimes}
<1>1. \A r \in Runtimes : outcomes[m][r] # "none" /\ Told(outcomes[m][r], m, r)
  BY DEF Inv, Ahead, Finished, Measured
<1>2. \A r \in Runtimes : Truth(input, m, r) \in {"survived", "killed"}
  BY SuiteDecides DEF Inv, Types
<1>3. ASSUME aggregate(of) = "killed", NEW r \in Runtimes
      PROVE  Truth(input, m, r) = "killed"
  <2>1. outcomes[m][r] \in of
    OBVIOUS
  <2> HIDE DEF of
  <2>2. of \cap {"test-error", "survived", "timed-out"} = {}
    BY <1>3 DEF aggregate
  <2>3. QED
    BY <1>1, <1>2, <2>1, <2>2 DEF Told, Faithful
<1>4. ASSUME aggregate(of) = "survived"
      PROVE  \E r \in Runtimes : \/ Truth(input, m, r) = "survived"
                               \/ m \in LostPartings[input][r]
  <2>1. "survived" \in of
    <3> HIDE DEF of
    <3>1. QED
      BY <1>4 DEF aggregate
  <2>2. PICK r \in Runtimes : outcomes[m][r] = "survived"
    BY <2>1
  <2>3. QED
    BY <1>1, <2>2 DEF Told, Faithful
<1>5. QED
  BY <1>3, <1>4 DEF Reported

\* engine.run_mutants never reports a kill that a runtime's full suite does not
\* make, nor a survivor that every runtime's suite kills, unless a walk lost its
\* parting: whichever of cache, walk, selection, confirmation and suite each
\* outcome came from.
THEOREM ReportSoundAlways == Spec => []ReportSound
BY SoundReport, InvHolds, PTL

LEMMA CompleteReport == Inv => ReportComplete
<1> SUFFICES ASSUME Inv PROVE ReportComplete
  OBVIOUS
<1>1. phase \in {"reported", "failed"} => workers = 0
  BY DEF Inv, Pool
<1>2. ASSUME phase = "reported"
      PROVE  /\ \A m \in Mutants, r \in Runtimes : outcomes[m][r] # "none"
             /\ counts.confirmations <= counts.narrowed /\ leaked = 0
  BY <1>2 DEF Inv, Ahead, Finished, Counted, Pool
<1>3. ASSUME phase = "reported", \A r \in Runtimes : impact[r] # "disabled"
      PROVE  Total = Len(Planned) * Len(RuntimeOrder)
  <2>1. Judged = Sites
    BY <1>2, <1>3 DEF Judged, Sites
  <2>2. Total = Cardinality(Judged)
    BY <1>3 DEF Inv, Counted, Finished, Evidence
  <2>3. QED
    BY <2>1, <2>2, PlanFinite
<1>4. QED
  BY <1>1, <1>2, <1>3 DEF ReportComplete, Total

\* "mutation result ordering failed" is never the answer of engine.run_mutants:
\* a report has every outcome, counts each of them once, and no worker is left
\* behind it unsaid.
THEOREM ReportCompleteAlways == Spec => []ReportComplete
BY CompleteReport, InvHolds, PTL

\* The three together: the results of engine.run_mutants, stored and reported,
\* on every number of runtimes.
THEOREM ResultsSoundAlways == Spec => []ResultsSound
<1>1. Inv => ResultsSound
  BY SoundReport, CompleteReport DEF Inv, ResultsSound
<1>2. QED
  BY <1>1, InvHolds, PTL

\* engine.run_runtime_phases never overwrites an outcome of its run: no mutant is
\* run for a runtime that has judged it.
THEOREM VerdictsFinal == Spec => VerdictIsFinal
<1>1. ASSUME Inv, [Next]_vars, NEW m \in Mutants, NEW r \in Runtimes,
             runs' = runs, outcomes[m][r] # "none"
      PROVE  outcomes'[m][r] = outcomes[m][r]
  <2>1. CASE Begin
    <3>1. runs \in Int
      BY <1>1 DEF Inv, Types
    <3>2. QED
      BY <1>1, <2>1, <3>1 DEF Begin
  <2>2. CASE Preload
    BY <1>1, <2>2 DEF Preload, Inv, Fresh
  <2>3. CASE \E n \in Mutants : Record(n)
    <3>1. PICK n \in Mutants : Record(n)
      BY <2>3
    <3>2. /\ phase = "record" /\ n \in DOMAIN results
          /\ outcomes'[m][r] = IF m = n /\ r = Runtime THEN process_outcome(results[n])
                               ELSE outcomes[m][r]
      BY <1>1, <3>1, RecordIs DEF Inv
    <3>3. outcomes[n][Runtime] = "none"
      BY <1>1, <3>2 DEF Inv, Fresh, Waving
    <3>4. QED
      BY <1>1, <3>2, <3>3
  <2>4. CASE UNCHANGED outcomes
    BY <2>4
  <2>5. QED
    BY <1>1, <2>1, <2>2, <2>3, <2>4
    DEF Next, Progress, Planning, Waves, Plan, PartialBaselineInterrupted, PartialBaseline,
        CreateWorker, CreateWorkerFails, Preliminary, Confirm, NextRuntime, NextWave,
        RecordFails, DisposeWorker, Conclude, Kill, CleanEntry, vars
<1>2. Inv /\ [Next]_vars =>
        \A m \in Mutants, r \in Runtimes :
          runs' = runs /\ outcomes[m][r] # "none" => outcomes'[m][r] = outcomes[m][r]
  BY <1>1
<1>3. QED
  BY <1>2, InvHolds, PTL DEF Spec, VerdictIsFinal

\* After an interruption or a kill, the next run of engine.run_mutants starts no
\* process for a verdict its cache already holds.
THEOREM StoredWorkKept == Spec => StoredWorkNotRepeated
<1>1. ASSUME Inv, Preliminary, Reads
      PROVE  \A m \in Pending : cache[Key(m, Runtime)] = "none"
  <2>1. phase = "preliminary" /\ Pending \subseteq Mutants /\ Runtime \in Runtimes
    BY <1>1, PreliminaryIs, RuntimeIs DEF Inv
  <2>2. \A m \in Pending : outcomes[m][Runtime] = "none"
    BY DEF Pending
  <2>3. QED
    BY <1>1, <2>1, <2>2 DEF Inv, NotStored, Started, Waving
<1>2. Inv /\ [Next]_vars =>
        (Preliminary /\ Reads => \A m \in Pending : cache[Key(m, Runtime)] = "none")
  BY <1>1
<1>3. QED
  BY <1>2, InvHolds, PTL DEF Spec, StoredWorkNotRepeated

-----------------------------------------------------------------------------
(* How much of a run is left *)

\* The turns of n waves, and the steps they are given: a batch, its confirmation,
\* a record for each of its mutants, and the way to the next.
TurnsOf(n) == n * Len(RuntimeOrder)
StepsOf(turns) == turns * (Len(Planned) + 3)

\* The turns after this one, and what is left of this one.
TurnsLeft == TurnsOf(Len(Planned) - wave) + Len(RuntimeOrder) - turn
TurnWork ==
  CASE phase = "preliminary" -> Len(Planned) + 2
    [] phase = "confirmation" -> Len(Planned) + 1
    [] OTHER -> Cardinality(DOMAIN results)

\* The steps of all the waves and of the disposal.
FullWork == StepsOf(TurnsOf(Len(Planned))) + Jobs + 2

\* The steps this run may still take.
Left ==
  CASE phase = "preload" -> FullWork + Cardinality(Sites) + Jobs + 2
    [] phase = "plan" -> FullWork + Cardinality(Sites) + Jobs + 1
    [] phase = "workers" -> FullWork + Cardinality(groups) + Jobs - workers
    [] phase \in Waving -> StepsOf(TurnsLeft) + TurnWork + Jobs + 2
    [] phase = "dispose" -> workers + 1
    [] OTHER -> 0

Groupings == {<<s[2], Selectors[s[1]][s[2]]>> : s \in Sites}

\* There is no more to run than the plan has, nor to select.
LeftInv ==
  /\ Types /\ Pool /\ Placed /\ Fresh
  /\ Len(missing) <= Len(Planned)
  /\ groups \subseteq Groupings

LEMMA TimesIs ==
  ASSUME NEW a \in Nat, NEW b \in Nat, NEW k \in Nat
  PROVE  a * k \in Nat /\ (a < b => a * k + k <= b * k)
<1>1. a * k \in Nat /\ b * k \in Nat
  OBVIOUS
<1>2. ASSUME a < b PROVE a * k + k <= b * k
  <2>1. PICK d \in Nat : b = a + 1 + d
    <3>1. b - a - 1 \in Nat /\ b = a + 1 + (b - a - 1)
      BY <1>2
    <3>2. QED
      BY <3>1
  <2>2. b * k = a * k + k + d * k /\ d * k \in Nat
    BY <2>1
  <2>3. QED
    BY <1>1, <2>2
<1>3. QED
  BY <1>1, <1>2

\* More waves are at least a round of turns more, and more turns a turn's steps.
LEMMA StepsAre ==
  /\ Len(Planned) \in Nat \ {0} /\ Len(RuntimeOrder) \in Nat \ {0} /\ Jobs \in Nat \ {0}
  /\ \A n \in Nat : TurnsOf(n) \in Nat /\ StepsOf(n) \in Nat
  /\ \A n, l \in Nat : n < l => /\ TurnsOf(n) + Len(RuntimeOrder) <= TurnsOf(l)
                                /\ StepsOf(n) + Len(Planned) + 3 <= StepsOf(l)
<1>1. /\ Len(Planned) \in Nat \ {0} /\ Len(RuntimeOrder) \in Nat \ {0}
      /\ Jobs \in Nat \ {0}
  BY RunAssumption, EmptySeq, LenProperties
<1>2. Len(Planned) + 3 \in Nat
  BY <1>1
<1>3. \A n \in Nat : TurnsOf(n) \in Nat /\ StepsOf(n) \in Nat
  BY <1>1, <1>2, TimesIs DEF TurnsOf, StepsOf
<1>4. ASSUME NEW n \in Nat, NEW l \in Nat, n < l
      PROVE  /\ TurnsOf(n) + Len(RuntimeOrder) <= TurnsOf(l)
             /\ StepsOf(n) + Len(Planned) + 3 <= StepsOf(l)
  <2>1. TurnsOf(n) + Len(RuntimeOrder) <= TurnsOf(l)
    BY <1>1, <1>4, TimesIs DEF TurnsOf
  <2>2. StepsOf(n) + (Len(Planned) + 3) <= StepsOf(l)
    BY <1>2, <1>4, TimesIs DEF StepsOf
  <2>3. PICK p \in Nat, a \in Nat : p = Len(Planned) /\ a = StepsOf(n)
    BY <1>1, <1>3
  <2>4. a + (p + 3) = a + p + 3
    OBVIOUS
  <2>5. QED
    BY <2>1, <2>2, <2>3, <2>4
<1>5. QED
  BY <1>1, <1>3, <1>4

\* There are no more selections than mutants on runtimes.
LEMMA GroupsAre ==
  ASSUME NEW G \in SUBSET Groupings
  PROVE  /\ IsFiniteSet(G) /\ Cardinality(G) \in Nat /\ Cardinality(Sites) \in Nat
         /\ Cardinality(G) <= Cardinality(Sites)
<1> DEFINE f == [s \in Sites |-> <<s[2], Selectors[s[1]][s[2]]>>]
<1>1. IsFiniteSet(Sites) /\ Cardinality(Sites) \in Nat
  BY PlanFinite, FS_CardinalityType
<1>2. f \in Surjection(Sites, Groupings)
  BY DEF Surjection, Groupings
<1>3. IsFiniteSet(Groupings) /\ Cardinality(Groupings) <= Cardinality(Sites)
  BY <1>1, <1>2, FS_Surjection
<1>4. IsFiniteSet(G) /\ Cardinality(G) <= Cardinality(Groupings)
  BY <1>3, FS_Subset
<1>5. Cardinality(G) \in Nat /\ Cardinality(Groupings) \in Nat
  BY <1>3, <1>4, FS_CardinalityType
<1>6. QED
  BY <1>1, <1>3, <1>4, <1>5

\* What is left while a wave runs.
Amid ==
  phase \in Waving =>
    /\ TurnsLeft \in Nat /\ TurnsLeft < TurnsOf(Len(Planned))
    /\ TurnWork \in 0..(Len(Planned) + 2)
    /\ Left = StepsOf(TurnsLeft) + TurnWork + Jobs + 2

LEMMA AmidIs == LeftInv => Amid
<1> SUFFICES ASSUME LeftInv, phase \in Waving
             PROVE  /\ TurnsLeft \in Nat /\ TurnsLeft < TurnsOf(Len(Planned))
                    /\ TurnWork \in 0..(Len(Planned) + 2)
                    /\ Left = StepsOf(TurnsLeft) + TurnWork + Jobs + 2
  BY DEF Amid
<1>1. /\ wave \in 1..Len(Planned) /\ turn \in 1..Len(RuntimeOrder)
      /\ DOMAIN results \subseteq Mutants
  <2>1. DOMAIN RuntimeOrder = 1..Len(RuntimeOrder)
    BY RunAssumption, LenProperties
  <2>2. Len(missing) \in Nat
    BY DEF LeftInv, Types
  <2>3. QED
    BY <2>1, <2>2, StepsAre DEF LeftInv, Types, Placed
<1>2. Len(Planned) - wave \in Nat /\ Len(Planned) - wave < Len(Planned)
  BY <1>1, StepsAre
<1>3. TurnsLeft \in Nat /\ TurnsLeft < TurnsOf(Len(Planned))
  <2>1. PICK n \in Nat : n = Len(Planned) - wave
    BY <1>2
  <2>2. TurnsOf(n) \in Nat /\ TurnsOf(n) + Len(RuntimeOrder) <= TurnsOf(Len(Planned))
    BY <1>2, <2>1, StepsAre
  <2>3. TurnsLeft = TurnsOf(n) + Len(RuntimeOrder) - turn
    BY <2>1 DEF TurnsLeft
  <2>4. PICK a \in Nat, r \in Nat, t \in Nat :
          /\ a = TurnsOf(n) /\ r = Len(RuntimeOrder) /\ t = TurnsOf(Len(Planned))
    BY <2>2, StepsAre
  <2>5. a + r - turn \in Nat /\ a + r - turn < t
    BY <1>1, <2>2, <2>4
  <2>6. QED
    BY <2>3, <2>4, <2>5
<1>4. Cardinality(DOMAIN results) \in 0..Len(Planned)
  <2>1. /\ Cardinality(DOMAIN results) <= Cardinality(Mutants)
        /\ IsFiniteSet(DOMAIN results)
    BY <1>1, PlanFinite, FS_Subset
  <2>2. QED
    BY <2>1, PlanFinite, FS_CardinalityType, StepsAre
<1>5. TurnWork \in 0..(Len(Planned) + 2)
  BY <1>4, StepsAre DEF TurnWork
<1>6. QED
  BY <1>3, <1>5 DEF Left, Waving

LEMMA AmidNext == LeftInv' => Amid'
BY AmidIs, PTL

\* A run in its waves has less to do than one that has not begun them.
LEMMA AmidBounded ==
  ASSUME Amid, phase \in Waving
  PROVE  Left \in Nat /\ Left < FullWork /\ Left > Jobs + 1
<1>1. PICK t \in Nat : t = TurnsLeft
  BY DEF Amid
<1>2. TurnsOf(Len(Planned)) \in Nat
  BY StepsAre
<1>3. /\ StepsOf(t) \in Nat /\ StepsOf(TurnsOf(Len(Planned))) \in Nat
      /\ StepsOf(t) + Len(Planned) + 3 <= StepsOf(TurnsOf(Len(Planned)))
  BY <1>1, <1>2, StepsAre DEF Amid
<1>4. PICK p \in Nat, j \in Nat, w \in Nat, a \in Nat, b \in Nat :
        /\ p = Len(Planned) /\ j = Jobs /\ w = TurnWork
        /\ a = StepsOf(t) /\ b = StepsOf(TurnsOf(Len(Planned)))
  <2>1. TurnWork \in Nat /\ Len(Planned) \in Nat /\ Jobs \in Nat
    BY StepsAre DEF Amid
  <2>2. QED
    BY <1>3, <2>1
<1>5. a + p + 3 <= b /\ w <= p + 2
  BY <1>3, <1>4 DEF Amid
<1>6. Left = a + w + j + 2 /\ FullWork = b + j + 2
  BY <1>1, <1>4 DEF Amid, FullWork
<1>7. /\ a + w + j + 2 \in Nat /\ a + w + j + 2 < b + j + 2
      /\ a + w + j + 2 > j + 1
  BY <1>5
<1>8. QED
  BY <1>4, <1>6, <1>7


\* What there is to run and to select stays within the plan.
Within == Len(missing) <= Len(Planned) /\ groups \subseteq Groupings

LEMMA WithinNext ==
  ASSUME Types, Within, [Next]_vars
  PROVE  Within'
<1> USE DEF inputs, planning
<1>1. CASE Begin
  <2>1. missing' = << >> /\ groups' = {}
    BY <1>1 DEF Begin
  <2>2. Len(<< >>) = 0
    OBVIOUS
  <2>3. QED
    BY <2>1, <2>2, StepsAre DEF Within
<1>2. CASE Preload
  <2> DEFINE at == {i \in DOMAIN Planned : Lacks(Planned[i])}
  <2>1. at \in SUBSET DOMAIN Planned /\ missing' = Selected(Planned, at) /\ groups' = groups
    BY <1>2 DEF Preload
  <2> HIDE DEF at
  <2>2. Len(Selected(Planned, at)) <= Len(Planned)
    BY <2>1, SelectedIs, RunAssumption
  <2>3. QED
    BY <2>1, <2>2 DEF Within
<1>3. CASE Plan
  <2>1. groups' \subseteq Groupings
    BY <1>3 DEF Plan, Groupings, Lacking
  <2>2. QED
    BY <1>3, <2>1 DEF Plan, Within
<1>4. CASE \E g \in groups : PartialBaseline(g)
  BY <1>4 DEF PartialBaseline, Within
<1>5. CASE UNCHANGED <<missing, groups>>
  BY <1>5 DEF Within
<1>6. QED
  BY <1>1, <1>2, <1>3, <1>4, <1>5
  DEF Next, Progress, Planning, Waves, PartialBaselineInterrupted, CreateWorker,
      CreateWorkerFails, Preliminary, Confirm, NextRuntime, NextWave, Record, RecordFails,
      DisposeWorker, Conclude, Kill, CleanEntry, vars

LEMMA LeftInvHolds == Spec => []LeftInv
<1>1. Init => Within
  <2>1. Len(<< >>) = 0
    OBVIOUS
  <2>2. QED
    BY <2>1, StepsAre DEF Init, Within
<1>2. Inv /\ Within /\ [Next]_vars => Within'
  BY WithinNext DEF Inv
<1>3. Inv /\ Within => LeftInv
  BY DEF Inv, Within, LeftInv
<1>4. QED
  BY <1>1, <1>2, <1>3, InvHolds, PTL DEF Spec

\* The steps of a run are bounded from its first.
LEMMA LeftIs ==
  ASSUME LeftInv, Amid
  PROVE  Left \in 0..(FullWork + Cardinality(Sites) + Jobs + 2)
<1>1. /\ FullWork \in Nat /\ Jobs \in Nat /\ Cardinality(Sites) \in Nat
      /\ Cardinality(groups) \in Nat /\ Cardinality(groups) <= Cardinality(Sites)
  <2>1. /\ Cardinality(Sites) \in Nat /\ Cardinality(groups) \in Nat
        /\ Cardinality(groups) <= Cardinality(Sites)
    BY GroupsAre DEF LeftInv
  <2>2. StepsOf(TurnsOf(Len(Planned))) \in Nat /\ Jobs \in Nat
    BY StepsAre
  <2>3. QED
    BY <2>1, <2>2 DEF FullWork
<1>2. workers \in 0..Jobs
  BY <1>1 DEF LeftInv, Pool
<1>3. CASE phase \in Waving
  <2>1. Left \in Nat /\ Left < FullWork
    BY <1>3, AmidBounded
  <2>2. QED
    BY <1>1, <2>1
<1>4. CASE phase \notin Waving
  BY <1>1, <1>2, <1>4 DEF Left
<1>5. QED
  BY <1>3, <1>4

\* Before the waves: what the plan and the pool still need.
LEMMA PlanningFalls ==
  ASSUME LeftInv, LeftInv', Amid',
         \/ Planning \/ CreateWorker \/ CreateWorkerFails
  PROVE  Left' < Left
<1> USE DEF inputs, planning, Waving
<1>1. /\ FullWork \in Nat /\ Jobs \in Nat \ {0} /\ Cardinality(Sites) \in Nat
      /\ FullWork > Jobs + 1
      /\ Cardinality(groups) \in Nat /\ Cardinality(groups)' \in Nat
      /\ Cardinality(groups)' <= Cardinality(Sites) /\ IsFiniteSet(groups)
  <2>1. /\ IsFiniteSet(groups) /\ Cardinality(groups) \in Nat /\ Cardinality(Sites) \in Nat
        /\ Cardinality(groups') \in Nat /\ Cardinality(groups') <= Cardinality(Sites)
    BY GroupsAre DEF LeftInv
  <2>2. StepsOf(TurnsOf(Len(Planned))) \in Nat /\ Jobs \in Nat \ {0}
    BY StepsAre
  <2>3. QED
    BY <2>1, <2>2 DEF FullWork
<1>2. workers \in 0..Jobs /\ workers' \in 0..Jobs
  <2>1. /\ workers \in Nat /\ leaked \in Nat /\ workers + leaked <= Jobs
        /\ workers' \in Nat /\ leaked' \in Nat /\ workers' + leaked' <= Jobs
    BY DEF LeftInv, Pool
  <2>2. Jobs \in Nat
    BY StepsAre
  <2>3. \A n, l, j \in Nat : n + l <= j => n \in 0..j
    OBVIOUS
  <2>4. QED
    BY <2>1, <2>2, <2>3
<1>3. CASE Preload
  <2>1. phase = "preload" /\ phase' \in {"plan", "reported"}
    BY <1>3 DEF Preload
  <2>2. QED
    BY <1>1, <2>1 DEF Left
<1>4. CASE Plan
  <2>1. phase = "plan" /\ phase' = "workers"
    BY <1>4 DEF Plan
  <2>2. Left = FullWork + Cardinality(Sites) + Jobs + 1
    BY <2>1 DEF Left
  <2>3. Left' = FullWork + Cardinality(groups)' + Jobs - workers'
    BY <2>1 DEF Left, FullWork
  <2>4. QED
    BY <1>1, <1>2, <2>2, <2>3
<1>5. ASSUME phase = "workers"
      PROVE  /\ Left = FullWork + Cardinality(groups) + Jobs - workers
             /\ workers < Jobs
  <2>1. workers < Jobs
    <3>1. worker_count \in 0..Jobs
      BY CountIs DEF LeftInv
    <3>2. QED
      BY <1>1, <1>2, <1>5, <3>1 DEF LeftInv, Pool
  <2>2. QED
    BY <1>5, <2>1 DEF Left
<1>6. CASE \E g \in groups : PartialBaseline(g)
  <2>1. PICK g \in groups : PartialBaseline(g)
    BY <1>6
  <2>2. /\ phase = "workers" /\ phase' = "workers" /\ workers' = workers
        /\ groups' = groups \ {g}
    BY <2>1 DEF PartialBaseline
  <2>3. Cardinality(groups)' = Cardinality(groups) - 1
    BY <1>1, <2>2, FS_RemoveElement
  <2>4. Left' = FullWork + Cardinality(groups)' + Jobs - workers'
    BY <2>2 DEF Left, FullWork
  <2>5. QED
    BY <1>1, <1>2, <1>5, <2>2, <2>3, <2>4
<1>7. CASE PartialBaselineInterrupted
  <2>1. phase = "workers" /\ phase' = "failed"
    BY <1>7 DEF PartialBaselineInterrupted
  <2>2. Left' = 0
    BY <2>1 DEF Left
  <2>3. QED
    BY <1>1, <1>2, <1>5, <2>1, <2>2
<1>8. CASE CreateWorker
  <2>1. /\ phase = "workers" /\ phase' \in {"workers", "preliminary"}
        /\ workers' = workers + 1 /\ groups' = groups
    BY <1>8 DEF CreateWorker
  <2>2. CASE phase' = "workers"
    <3>1. Left' = FullWork + Cardinality(groups)' + Jobs - workers'
      BY <2>2 DEF Left, FullWork
    <3>2. QED
      BY <1>1, <1>2, <1>5, <2>1, <3>1
  <2>3. CASE phase' = "preliminary"
    <3>1. Left' \in Nat /\ Left' < FullWork
      <4>1. Amid' /\ (phase \in Waving)'
        BY <2>3
      <4>2. (Amid /\ phase \in Waving => Left \in Nat /\ Left < FullWork)'
        BY AmidBounded, PTL
      <4>3. QED
        BY <4>1, <4>2 DEF FullWork
    <3>2. QED
      BY <1>1, <1>2, <1>5, <2>1, <3>1
  <2>4. QED
    BY <2>1, <2>2, <2>3
<1>9. CASE CreateWorkerFails
  <2>1. phase = "workers" /\ phase' = "dispose" /\ workers' = workers
    BY <1>9 DEF CreateWorkerFails
  <2>2. Left' = workers + 1
    BY <2>1 DEF Left
  <2>3. QED
    BY <1>1, <1>2, <1>5, <2>1, <2>2
<1>10. QED
  BY <1>3, <1>4, <1>6, <1>7, <1>8, <1>9 DEF Planning

\* In the waves: a batch, a record, the next turn, or their end.
LEMMA WavesFall ==
  ASSUME LeftInv, LeftInv', Amid, Amid', Waves
  PROVE  Left' < Left
<1> USE DEF inputs, planning
<1>1. /\ phase \in Waving /\ phase' \in Waving \cup {"dispose"}
      /\ UNCHANGED <<workers, missing>>
  <2>1. CASE Preliminary
    BY <2>1 DEF Preliminary, Return, Completed, Waving
  <2>2. CASE Confirm
    BY <2>2 DEF Confirm, Return, Completed, Waving
  <2>3. CASE NextRuntime \/ NextWave \/ \E m \in Mutants : Record(m) \/ RecordFails(m)
    BY <2>3 DEF NextRuntime, NextWave, Record, RecordFails, Waving
  <2>4. QED
    BY <2>1, <2>2, <2>3 DEF Waves
<1>2. PICK p \in Nat, j \in Nat, t \in Nat, w \in Nat, a \in Nat :
        /\ p = Len(Planned) /\ j = Jobs /\ t = TurnsLeft /\ w = TurnWork
        /\ a = StepsOf(t)
  <2>1. TurnsLeft \in Nat /\ TurnWork \in Nat /\ Len(Planned) \in Nat /\ Jobs \in Nat
    BY <1>1, StepsAre DEF Amid
  <2>2. StepsOf(TurnsLeft) \in Nat
    BY <2>1, StepsAre
  <2>3. QED
    BY <2>1, <2>2
<1>3. Left = a + w + j + 2
  BY <1>1, <1>2 DEF Amid
<1>4. ASSUME phase' = "dispose" PROVE Left' < Left
  <2>1. Left' = workers + 1
    BY <1>1, <1>4 DEF Left, Waving
  <2>2. workers \in Nat /\ workers <= j
    <3>1. workers \in Nat /\ leaked \in Nat /\ workers + leaked <= Jobs
      BY DEF LeftInv, Pool
    <3>2. QED
      BY <1>2, <3>1
  <2>3. QED
    BY <1>3, <2>1, <2>2
<1>5. ASSUME phase' \in Waving, NEW x \in Nat, NEW y \in Nat,
             x = TurnsLeft', y = TurnWork', x < t \/ (x = t /\ y < w)
      PROVE  Left' < Left
  <2>1. PICK b \in Nat : b = StepsOf(x)
    BY StepsAre
  <2>2. y <= p + 2
    BY <1>2, <1>5 DEF Amid
  <2>3. Left' = b + y + j + 2
    <3>1. Left' = StepsOf(TurnsLeft)' + TurnWork' + Jobs + 2
      BY <1>5 DEF Amid
    <3>2. StepsOf(TurnsLeft)' = b
      BY <1>5, <2>1 DEF StepsOf
    <3>3. QED
      BY <1>2, <1>5, <3>1, <3>2
  <2>4. x < t => b + p + 3 <= a
    BY <1>2, <2>1, StepsAre
  <2>5. x = t => b = a
    BY <1>2, <2>1
  <2>6. CASE x < t
    <3>1. b + y + j + 2 < a + w + j + 2
      BY <2>2, <2>4, <2>6
    <3>2. QED
      BY <1>3, <2>3, <3>1
  <2>7. CASE x = t /\ y < w
    <3>1. b + y + j + 2 < a + w + j + 2
      BY <2>5, <2>7
    <3>2. QED
      BY <1>3, <2>3, <3>1
  <2>8. QED
    BY <1>5, <2>6, <2>7
<1>6. ASSUME phase' \in Waving
      PROVE  TurnsLeft' \in Nat /\ TurnWork' \in Nat
  BY <1>6, <1>2 DEF Amid
<1>7. ASSUME UNCHANGED <<wave, turn>>, phase' \in Waving, TurnWork' < TurnWork
      PROVE  Left' < Left
  <2>1. TurnsLeft' = TurnsLeft
    BY <1>7 DEF TurnsLeft, TurnsOf
  <2>2. QED
    BY <1>2, <1>5, <1>6, <1>7, <2>1
<1>8. ASSUME phase' \in Waving, TurnsLeft' < TurnsLeft
      PROVE  Left' < Left
  BY <1>2, <1>5, <1>6, <1>8
<1>9. /\ DOMAIN RuntimeOrder = 1..Len(RuntimeOrder) /\ Len(RuntimeOrder) \in Nat \ {0}
      /\ turn \in 1..Len(RuntimeOrder) /\ wave \in Nat /\ wave <= Len(Planned)
  <2>1. DOMAIN RuntimeOrder = 1..Len(RuntimeOrder) /\ Len(RuntimeOrder) \in Nat \ {0}
    BY RunAssumption, LenProperties, StepsAre
  <2>2. wave \in Nat /\ wave <= Len(missing) /\ Len(missing) \in Nat
    BY <1>1, CountIs DEF LeftInv, Placed
  <2>3. turn \in 1..Len(RuntimeOrder) /\ Len(missing) <= Len(Planned)
    BY <2>1 DEF LeftInv, Types
  <2>4. Len(Planned) \in Nat
    BY StepsAre
  <2>5. QED
    BY <2>1, <2>2, <2>3, <2>4
<1>10. CASE Preliminary
  <2>1. phase = "preliminary" /\ phase' \in {"confirmation", "dispose"}
        /\ UNCHANGED <<wave, turn>>
    BY <1>10 DEF Preliminary, Return, Completed
  <2>2. phase' = "confirmation" => TurnWork' = p + 1 /\ TurnWork = p + 2
    BY <1>2, <2>1 DEF TurnWork
  <2>3. QED
    BY <1>2, <1>4, <1>7, <2>1, <2>2 DEF Waving
<1>11. CASE Confirm
  <2>1. phase = "confirmation" /\ phase' \in {"record", "dispose"} /\ UNCHANGED <<wave, turn>>
    BY <1>11 DEF Confirm, Return, Completed
  <2>2. TurnWork = p + 1
    BY <1>2, <2>1 DEF TurnWork
  <2>3. ASSUME phase' = "record" PROVE TurnWork' \in Nat /\ TurnWork' <= p
    <3>1. TurnWork' = Cardinality(DOMAIN results')
      BY <2>3 DEF TurnWork
    <3>2. DOMAIN results' \subseteq Mutants
      BY DEF LeftInv, Types
    <3>3. /\ IsFiniteSet(DOMAIN results') /\ Cardinality(DOMAIN results') <= Cardinality(Mutants)
      BY <3>2, PlanFinite, FS_Subset
    <3>4. Cardinality(DOMAIN results') \in Nat
      BY <3>3, FS_CardinalityType
    <3>5. QED
      BY <1>2, <3>1, <3>3, <3>4, PlanFinite
  <2>4. QED
    BY <1>4, <1>7, <2>1, <2>2, <2>3 DEF Waving
<1>12. CASE NextRuntime
  <2>1. phase' = "preliminary" /\ wave' = wave /\ turn' = turn + 1
    BY <1>12 DEF NextRuntime
  <2>2. TurnsLeft' = TurnsLeft - 1
    <3>1. PICK c \in Nat : c = TurnsOf(Len(Planned) - wave)
      <4>1. Len(Planned) - wave \in Nat
        BY <1>9, StepsAre
      <4>2. QED
        BY <4>1, StepsAre
    <3>2. TurnsOf(Len(Planned) - wave)' = c
      BY <2>1, <3>1 DEF TurnsOf
    <3>3. QED
      BY <1>9, <2>1, <3>1, <3>2 DEF TurnsLeft
  <2>3. QED
    BY <1>2, <1>8, <2>1, <2>2 DEF Waving
<1>13. CASE NextWave
  <2>1. /\ turn = Len(RuntimeOrder) /\ turn' = 1 /\ wave' = wave + worker_count
        /\ phase' \in {"preliminary", "dispose"}
    BY <1>13 DEF NextWave
  <2>2. ASSUME phase' = "preliminary" PROVE TurnsLeft' < TurnsLeft
    <3>1. worker_count \in Nat \ {0}
      BY <1>1, CountIs DEF LeftInv, Placed, Started
    <3>2. wave' \in Nat /\ wave' <= Len(Planned) /\ wave < wave'
      <4>1. wave' \in Nat /\ wave < wave'
        BY <1>9, <2>1, <3>1
      <4>2. wave' <= Len(missing')
        BY <2>2 DEF LeftInv, Placed, Waving
      <4>3. Len(missing') \in Nat /\ Len(missing') <= Len(Planned)
        BY LenProperties DEF LeftInv, Types
      <4>4. Len(Planned) \in Nat
        BY StepsAre
      <4>5. QED
        BY <4>1, <4>2, <4>3, <4>4
    <3>3. PICK n \in Nat, l \in Nat :
            n = Len(Planned) - wave' /\ l = Len(Planned) - wave /\ n < l
      <4>1. Len(Planned) - wave' \in Nat /\ Len(Planned) - wave \in Nat
            /\ Len(Planned) - wave' < Len(Planned) - wave
        <5>1. Len(Planned) \in Nat
          BY StepsAre
        <5>2. QED
          BY <1>9, <3>2, <5>1
      <4>2. QED
        BY <4>1
    <3>4. PICK c \in Nat, d \in Nat, r \in Nat :
            c = TurnsOf(n) /\ d = TurnsOf(l) /\ r = Len(RuntimeOrder)
      BY <1>9, StepsAre
    <3>5. c + r <= d
      BY <3>3, <3>4, StepsAre
    <3>6. TurnsLeft = d + r - r
      BY <2>1, <3>3, <3>4 DEF TurnsLeft
    <3>7. TurnsLeft' = c + r - 1
      BY <2>1, <3>3, <3>4 DEF TurnsLeft, TurnsOf
    <3>8. QED
      BY <3>5, <3>6, <3>7
  <2>3. QED
    BY <1>4, <1>8, <2>1, <2>2 DEF Waving
<1>14. CASE \E m \in Mutants : Record(m) \/ RecordFails(m)
  <2>1. PICK m \in Mutants : Record(m) \/ RecordFails(m)
    BY <1>14
  <2>2. CASE RecordFails(m)
    BY <1>4, <2>2 DEF RecordFails
  <2>3. CASE Record(m)
    <3>1. /\ phase = "record" /\ phase' = "record" /\ UNCHANGED <<wave, turn>>
          /\ m \in DOMAIN results /\ DOMAIN results' = DOMAIN results \ {m}
      BY <2>3 DEF Record, Unrecorded
    <3>2. IsFiniteSet(DOMAIN results)
      BY PlanFinite, FS_Subset DEF LeftInv, Types
    <3>3. Cardinality(DOMAIN results') = Cardinality(DOMAIN results) - 1
      BY <3>1, <3>2, FS_RemoveElement
    <3>4. TurnWork = Cardinality(DOMAIN results) /\ TurnWork' = Cardinality(DOMAIN results')
      BY <3>1 DEF TurnWork
    <3>5. TurnWork' < TurnWork
      BY <1>2, <3>3, <3>4
    <3>6. QED
      BY <1>7, <3>1, <3>5 DEF Waving
  <2>4. QED
    BY <2>1, <2>2, <2>3
<1>15. QED
  BY <1>10, <1>11, <1>12, <1>13, <1>14 DEF Waves

\* engine.run_mutants, run_runtime_phases and create_workers: every step of a
\* run, however its processes answer, brings it nearer to its report or error,
\* and neither a kill nor a cleaning of the cache takes it back, so a run takes
\* at most as many steps as the bound says: one turn of each runtime for each
\* missing mutant, each a batch, a confirmation and its records.
THEOREM RunsAreBounded ==
  Spec => [][/\ Left \in 0..(FullWork + Cardinality(Sites) + Jobs + 2)
             /\ runs' = runs => Left' <= Left
             /\ Progress => Left' < Left]_vars
<1>1. ASSUME LeftInv, LeftInv', Amid, Amid', [Next]_vars
      PROVE  [/\ Left \in 0..(FullWork + Cardinality(Sites) + Jobs + 2)
              /\ runs' = runs => Left' <= Left
              /\ Progress => Left' < Left]_vars
  <2>1. CASE UNCHANGED vars
    BY <2>1
  <2>2. Left \in 0..(FullWork + Cardinality(Sites) + Jobs + 2) /\ Left \in Nat
    BY <1>1, LeftIs
  <2>3. Left' \in Nat
    <3>1. (LeftInv /\ Amid => Left \in 0..(FullWork + Cardinality(Sites) + Jobs + 2))'
      BY LeftIs, PTL
    <3>2. Left' \in 0..(FullWork + Cardinality(Sites) + Jobs + 2)'
      BY <1>1, <3>1
    <3>3. QED
      BY <3>2
  <2>4. ASSUME Progress PROVE Left' < Left
    <3>1. CASE Planning \/ CreateWorker \/ CreateWorkerFails
      BY <1>1, <3>1, PlanningFalls
    <3>2. CASE Waves
      BY <1>1, <3>2, WavesFall
    <3>3. CASE DisposeWorker
      <4>1. phase = "dispose" /\ phase' = "dispose" /\ workers' = workers - 1
        BY <3>3 DEF DisposeWorker
      <4>2. workers \in Nat
        BY <1>1 DEF LeftInv, Pool
      <4>3. QED
        BY <4>1, <4>2 DEF Left, Waving
    <3>4. CASE Conclude
      <4>1. phase = "dispose" /\ phase' \in {"reported", "failed"} /\ workers = 0
        BY <3>4 DEF Conclude
      <4>2. QED
        BY <4>1 DEF Left, Waving
    <3>5. QED
      BY <2>4, <3>1, <3>2, <3>3, <3>4 DEF Progress
  <2>5. ASSUME Begin PROVE runs' # runs
    BY <1>1, <2>5 DEF Begin, LeftInv, Types
  <2>6. ASSUME Kill PROVE Left' = 0
    BY <2>6 DEF Kill, Left, Waving
  <2>7. ASSUME CleanEntry PROVE Left' = Left
    <3>1. UNCHANGED <<phase, workers, groups, wave, turn, results>>
      BY <2>7 DEF CleanEntry, planning
    <3>2. TurnsLeft' = TurnsLeft /\ TurnWork' = TurnWork
      BY <3>1 DEF TurnsLeft, TurnsOf, TurnWork
    <3>3. QED
      BY <3>1, <3>2 DEF Left, StepsOf, FullWork
  <2>8. QED
    BY <2>1, <2>2, <2>3, <2>4, <2>5, <2>6, <2>7, <1>1 DEF Next
<1>2. LeftInv /\ LeftInv' /\ Amid /\ Amid' /\ [Next]_vars
      => [/\ Left \in 0..(FullWork + Cardinality(Sites) + Jobs + 2)
          /\ runs' = runs => Left' <= Left
          /\ Progress => Left' < Left]_vars
  BY <1>1
<1>3. QED
  BY <1>2, AmidIs, AmidNext, LeftInvHolds, PTL DEF Spec

\* A nonempty set of natural numbers has a least one.
LEMMA LeastNatural ==
  ASSUME NEW s \in SUBSET Nat, s # {}
  PROVE  \E d \in s : \A e \in s : d <= e
<1> DEFINE less == {ss \in Nat \X Nat : ss[1] < ss[2]}
<1>1. less = OpToRel(<, Nat)
  BY DEF OpToRel
<1>2. IsWellFoundedOn(less, Nat)
  BY <1>1, NatLessThanWellFounded, Zenon
<1> HIDE DEF less
<1>3. PICK d \in s : \A e \in s : ~(<<e, d>> \in less)
  BY <1>2, WFMin
<1>4. ASSUME NEW e \in s PROVE d <= e
  <2>1. <<e, d>> \in Nat \X Nat
    OBVIOUS
  <2>2. ~(e < d)
    BY <1>3, <2>1 DEF less
  <2>3. QED
    BY <2>2
<1>5. QED
  BY <1>4

\* Every result of a wave is of one of its mutants.
OfWave == phase \in Waving => DOMAIN results \subseteq ToSet(Wave)

LEMMA OfWaveNext ==
  ASSUME Types, Placed, Fresh, OfWave, [Next]_vars
  PROVE  OfWave'
<1> USE DEF inputs, planning, Waving
<1>1. UNCHANGED <<missing, wave>> => ToSet(Wave)' = ToSet(Wave)
  BY DEF Wave, worker_count
<1>2. CASE phase' \notin Waving
  BY <1>2 DEF OfWave
<1>3. CASE UNCHANGED <<phase, missing, wave, results>>
  BY <1>1, <1>3 DEF OfWave
<1>4. CASE CreateWorker \/ NextRuntime \/ NextWave
  <2>1. DOMAIN results' = {}
    BY <1>4 DEF CreateWorker, NextRuntime, NextWave, Fresh
  <2>2. QED
    BY <2>1 DEF OfWave
<1>5. CASE Preliminary /\ phase' = "confirmation"
  <2>1. DOMAIN results' = Pending /\ UNCHANGED <<missing, wave>>
    BY <1>5, PreliminaryResults, PreliminaryIs
  <2>2. QED
    BY <1>1, <2>1 DEF OfWave, Pending
<1>6. CASE Confirm /\ phase' = "record"
  <2>1. /\ DOMAIN results' = DOMAIN results /\ UNCHANGED <<missing, wave>>
        /\ phase = "confirmation"
    BY <1>6, ConfirmResults DEF Confirm
  <2>2. QED
    BY <1>1, <2>1 DEF OfWave
<1>7. CASE \E m \in Mutants : Record(m)
  <2>1. /\ DOMAIN results' \subseteq DOMAIN results /\ UNCHANGED <<missing, wave>>
        /\ phase = "record"
    BY <1>7, RecordIs
  <2>2. QED
    BY <1>1, <2>1 DEF OfWave
<1>8. /\ Preliminary => phase' \in {"confirmation", "dispose"}
      /\ Confirm => phase' \in {"record", "dispose"}
  BY DEF Preliminary, Confirm, Return, Completed
<1>9. QED
  BY <1>2, <1>3, <1>4, <1>5, <1>6, <1>7, <1>8
  DEF Next, Begin, Progress, Planning, Waves, Preload, Plan, PartialBaselineInterrupted,
      PartialBaseline, CreateWorkerFails, RecordFails, DisposeWorker, Conclude, Kill,
      CleanEntry, vars

\* engine.run_runtime_phases goes through the contexts of the wave and finds the
\* result of each: whatever was confirmed and recorded before, a result that is
\* left has its context in the wave, so none is dropped and the recording always
\* gets to its last.
THEOREM RecordsGoOn ==
  Spec => [](phase = "record" =>
               DOMAIN results = {} \/ \E m \in DOMAIN results : Unrecorded(m))
<1>1. Init => OfWave
  BY DEF Init, OfWave, Waving
<1>2. Inv /\ OfWave /\ [Next]_vars => OfWave'
  BY OfWaveNext DEF Inv
<1>3. ASSUME Inv, OfWave, phase = "record", DOMAIN results # {}
      PROVE  \E m \in DOMAIN results : Unrecorded(m)
  <2> DEFINE at == {i \in DOMAIN Wave : Wave[i] \in DOMAIN results}
  <2>1. DOMAIN Wave \subseteq Nat \ {0}
    BY <1>3, WaveIs, CountIs DEF Inv, Placed, Waving
  <2>2. at \in SUBSET Nat /\ at # {}
    BY <1>3, <2>1 DEF OfWave, Waving, ToSet
  <2>3. PICK d \in at : \A e \in at : d <= e
    <3> HIDE DEF at
    <3>1. QED
      BY <2>2, LeastNatural
  <2>4. ASSUME NEW j \in 1..(d - 1) PROVE Wave[j] \notin DOMAIN results
    <3>1. j \in DOMAIN Wave
      BY <1>3, <2>1, <2>3, WaveIs, CountIs DEF Inv, Placed, Waving
    <3>2. j \notin at
      BY <2>1, <2>3
    <3>3. QED
      BY <3>1, <3>2
  <2>5. QED
    BY <2>3, <2>4 DEF Unrecorded
<1>4. Inv /\ OfWave => (phase = "record" =>
        DOMAIN results = {} \/ \E m \in DOMAIN results : Unrecorded(m))
  BY <1>3
<1>5. QED
  BY <1>1, <1>2, <1>4, InvHolds, PTL DEF Spec

=============================================================================
