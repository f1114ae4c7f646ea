----------------------------- MODULE MutantRun -----------------------------
(***************************************************************************)
(* The mutation run of engine.run_mutants and the outcome cache that       *)
(* outlives it: verdicts read from the cache, verdicts settled by the      *)
(* instrumented baseline, the narrowing plan with its partial baselines,   *)
(* the worker pool, the waves of at most Jobs mutants, the preliminary and *)
(* confirming batches on every runtime, the recording of each verdict and  *)
(* the disposal of the workers.  Runs follow one another, each may be      *)
(* killed, and `cache clean` may remove entries at any time.               *)
(*                                                                         *)
(* A test process is what it reports: a status and whether it timed out.   *)
(* The suite is deterministic: which tests fail with a mutant active is a  *)
(* constant of the run's inputs.  What may vary is whether a process can   *)
(* be started, times out or is signalled.                                  *)
(***************************************************************************)
EXTENDS Integers, Sequences, FiniteSets, SequencesExt, FiniteSetsExt

CONSTANTS
  Planned,          \* the sequence of mutants of the plan
  RuntimeOrder,     \* the sequence of runtimes of the run
  Tests,            \* the tests of the suite
  Jobs,             \* how many workers a run may have
  Inputs,           \* the inputs of a run: records with the fields digest,
                    \* command, timeout and execution, what is hashed
  Failing,          \* of each input, mutant and runtime: the tests that fail
  Selectors,        \* of each mutant and runtime: the tests that reach it
  Discharged,       \* of each input and runtime: the mutants whose two
                    \* answers were never recorded to part
  LostPartings,     \* those of them that did part, where it was not recorded
  CacheModes,       \* the effective cache modes runs may have
  ImpactStates,     \* the states of the impact evidence runs may have
  TimeoutStatuses,  \* the statuses a timed out process is reported with
  MaxRuns           \* bound: how many runs are made

Mutants == ToSet(Planned)
Runtimes == ToSet(RuntimeOrder)

ASSUME RunAssumption ==
  /\ Planned \in Seq(Mutants) /\ RuntimeOrder \in Seq(Runtimes)
  /\ IsInjective(Planned) /\ IsInjective(RuntimeOrder)
  /\ Planned # <<>> /\ RuntimeOrder # <<>>
  /\ Jobs \in Nat \ {0} /\ MaxRuns \in Nat /\ Inputs # {}
  /\ Failing \in [Inputs -> [Mutants -> [Runtimes -> SUBSET Tests]]]
  /\ Selectors \in [Mutants -> [Runtimes -> SUBSET Tests]]
  /\ Discharged \in [Inputs -> [Runtimes -> SUBSET Mutants]]
  /\ LostPartings \in [Inputs -> [Runtimes -> SUBSET Mutants]]
  /\ CacheModes \subseteq {"off", "read-only", "write-only", "read-write"}
  /\ ImpactStates \subseteq {"disabled", "unavailable", "ready"}
  /\ TimeoutStatuses \subseteq Int

\* A mutant that always answered like the original fails no test.  Of one whose
\* parting was lost (a write and an erasure that failed, Observations) nothing
\* is assumed.
ASSUME DischargeAssumption ==
  \A i \in Inputs, r \in Runtimes :
    \A m \in Discharged[i][r] \ LostPartings[i][r] : Failing[i][m][r] = {}

VARIABLES
  phase,      \* where the run is
  runs,       \* how many runs have begun
  input,      \* this run's inputs
  cache_mode, \* its effective cache mode
  impact,     \* of each runtime, its impact evidence
  cache,      \* the stored outcome of each fingerprint, mutant and runtime
  outcomes,   \* of each mutant and runtime, this run's outcome
  missing,    \* the mutants that lack one, in the order of the plan
  mode,       \* of each mutant and runtime, the suite it is to run
  groups,     \* the selections still without a partial baseline
  workers,    \* how many worker snapshots there are
  leaked,     \* how many of them could not be removed
  wave,       \* the position in missing of this wave's first mutant
  turn,       \* the position of this wave's runtime
  results,    \* the process results of this phase not recorded yet
  counts,     \* the execution summary
  error       \* the error the run is to end with

inputs == <<input, cache_mode, impact>>
planning == <<missing, mode, groups>>
vars == <<phase, runs, inputs, cache, outcomes, planning, workers, leaked,
          wave, turn, results, counts, error>>

Outcomes == {"killed", "survived", "timed-out", "test-error"}
Ended == {"idle", "reported", "failed", "dead"}
Running == {"preload", "plan", "workers", "preliminary", "confirmation",
            "record", "dispose"}

-----------------------------------------------------------------------------
(* What a test process reports, and what is made of it *)

\* What the full suite says of a mutant.
Truth(i, m, r) == IF Failing[i][m][r] = {} THEN "survived" ELSE "killed"

Process(status, timed_out) == [status |-> status, timed_out |-> timed_out]

\* The results of one undisturbed process: its verdict on `tests`, an
\* execution error, or a timeout.
ProcessResults(m, tests) ==
  LET r == RuntimeOrder[turn] IN
    {Process(IF Failing[input][m][r] \cap tests = {} THEN 0 ELSE 1, FALSE),
     Process(-2, FALSE)}
    \cup {Process(status, TRUE) : status \in TimeoutStatuses}

Interrupted(status) == status = 130 \/ status = 143

\* Mutant of check_batch: only a batch all of whose processes were interrupted.
AllInterrupted(batch) ==
  DOMAIN batch # {} /\ \A m \in DOMAIN batch : Interrupted(batch[m].status)

\* The batch fails at the first interrupted process.
check_batch(batch) == \E m \in DOMAIN batch : Interrupted(batch[m].status)

process_outcome(result) ==
  CASE result.timed_out -> "timed-out"
    [] ~result.timed_out /\ result.status = 0 -> "survived"
    [] ~result.timed_out /\ result.status = 1 -> "killed"
    [] OTHER -> "test-error"

\* The batches run_process_batch can return for the mutants `runs_of`, each on
\* the tests suite[m].  A signal leaves nothing certain but one status 130.
Batches(suite) ==
  {batch \in [DOMAIN suite -> UNION {ProcessResults(m, suite[m]) : m \in DOMAIN suite}] :
     \A m \in DOMAIN suite : batch[m] \in ProcessResults(m, suite[m])}

SignalledBatches(suite) ==
  {batch \in [DOMAIN suite -> {Process(s, FALSE) : s \in {0, 1, 130}}] :
     \E m \in DOMAIN suite : batch[m].status = 130}

-----------------------------------------------------------------------------
(* The outcome cache *)

\* Mutant of fingerprint: the execution context is left out.
FingerprintOfSource(i) == [digest |-> i.digest, command |-> i.command,
                           timeout |-> i.timeout]

\* The hash of all the inputs; the runtimes are the same in every run here.
fingerprint(i) == i

Keys == {<<fingerprint(i), m, r>> : i \in Inputs, m \in Mutants, r \in Runtimes}
Key(m, r) == <<fingerprint(input), m, r>>

Reads == cache_mode \in {"read-only", "read-write"}
Writes == cache_mode \in {"write-only", "read-write"}

Cacheable(outcome) == outcome \in {"killed", "survived"}

-----------------------------------------------------------------------------
(* Between runs, and what may happen at any time *)

Init ==
  /\ phase = "idle" /\ runs = 0
  /\ input = CHOOSE i \in Inputs : TRUE
  /\ cache_mode = "off"
  /\ impact = [r \in Runtimes |-> "disabled"]
  /\ cache = [k \in Keys |-> "none"]
  /\ outcomes = [m \in Mutants |-> [r \in Runtimes |-> "none"]]
  /\ missing = <<>> /\ groups = {}
  /\ mode = [m \in Mutants |-> [r \in Runtimes |-> "full"]]
  /\ workers = 0 /\ leaked = 0 /\ wave = 1 /\ turn = 1
  /\ results = [m \in {} |-> Process(0, FALSE)]
  /\ counts = [hits |-> 0, discharged |-> 0, narrowed |-> 0,
               confirmations |-> 0, fallbacks |-> 0]
  /\ error = "none"

\* A prepared run: the capture, the candidates, the validation and the
\* baselines have settled its inputs and its impact evidence.
Begin ==
  /\ phase \in Ended
  /\ runs < MaxRuns
  /\ runs' = runs + 1
  /\ phase' = "preload"
  /\ input' \in Inputs
  /\ cache_mode' \in CacheModes
  /\ impact' \in [Runtimes -> ImpactStates]
  /\ outcomes' = [m \in Mutants |-> [r \in Runtimes |-> "none"]]
  /\ missing' = <<>> /\ groups' = {}
  /\ mode' = [m \in Mutants |-> [r \in Runtimes |-> "full"]]
  /\ workers' = 0 /\ leaked' = 0 /\ wave' = 1 /\ turn' = 1
  /\ results' = [m \in {} |-> Process(0, FALSE)]
  /\ counts' = [hits |-> 0, discharged |-> 0, narrowed |-> 0,
                confirmations |-> 0, fallbacks |-> 0]
  /\ error' = "none"
  /\ UNCHANGED cache

\* The run is killed: what it holds in memory is lost, the cache is not.
Kill ==
  /\ phase \in Running
  /\ phase' = "dead"
  /\ UNCHANGED <<runs, inputs, cache, outcomes, planning, workers, leaked,
                 wave, turn, results, counts, error>>

\* `cache clean` takes no lock and removes the stored outcomes one by one.
CleanEntry ==
  /\ \E k \in Keys :
       /\ cache[k] # "none"
       /\ cache' = [cache EXCEPT ![k] = "none"]
  /\ UNCHANGED <<phase, runs, inputs, outcomes, planning, workers, leaked,
                 wave, turn, results, counts, error>>

-----------------------------------------------------------------------------
(* Before the workers: cached and discharged outcomes, the narrowing plan *)

Cached(m, r) == IF Reads THEN cache[Key(m, r)] ELSE "none"

\* Mutant of Settled: what the cache holds is not used.
SettledByWalk(m, r) == IF m \in Discharged[input][r] THEN "survived" ELSE "none"

Settled(m, r) ==
  IF Cached(m, r) # "none" THEN Cached(m, r)
  ELSE IF m \in Discharged[input][r] THEN "survived"
  ELSE "none"

Sites == Mutants \X Runtimes

Lacks(m) == \E r \in Runtimes : Settled(m, r) = "none"

\* The elements of a sequence at some positions, in its order.
Selected(s, at) ==
  [n \in 1..Cardinality(at) |->
     s[CHOOSE i \in at : Cardinality({j \in at : j <= i}) = n]]

\* The cache is read once, as one step.
Preload ==
  /\ phase = "preload"
  /\ outcomes' = [m \in Mutants |-> [r \in Runtimes |-> Settled(m, r)]]
  /\ missing' = Selected(Planned, {i \in DOMAIN Planned : Lacks(Planned[i])})
  /\ LET hits == {s \in Sites : Cached(s[1], s[2]) # "none"}
         settled == {s \in Sites : Settled(s[1], s[2]) # "none"}
     IN counts' = [counts EXCEPT !.hits = Cardinality(hits),
                                 !.discharged = Cardinality(settled \ hits)]
  /\ phase' = IF missing' = <<>> THEN "reported" ELSE "plan"
  /\ UNCHANGED <<runs, inputs, cache, mode, groups, workers, leaked, wave,
                 turn, results, error>>

Lacking == {s \in Sites : outcomes[s[1]][s[2]] = "none"}

Narrowable(m, r) == impact[r] = "ready" /\ Selectors[m][r] # {}

\* A runtime without evidence, and a mutant no known test reached, run the full
\* suite; the others are grouped by the tests that reach them.
Plan ==
  /\ phase = "plan"
  /\ mode' = [m \in Mutants |-> [r \in Runtimes |->
       IF <<m, r>> \in Lacking /\ impact[r] # "disabled" /\ ~Narrowable(m, r)
       THEN "fallback" ELSE "full"]]
  /\ groups' = {<<s[2], Selectors[s[1]][s[2]]>> :
                  s \in {t \in Lacking : Narrowable(t[1], t[2])}}
  /\ phase' = "workers"
  /\ UNCHANGED <<runs, inputs, cache, outcomes, missing, workers, leaked, wave,
                 turn, results, counts, error>>

Group(g) == {s \in Lacking : Narrowable(s[1], s[2])
                             /\ <<s[2], Selectors[s[1]][s[2]]>> = g}

\* The base snapshot passes the selected tests, or they are not used: the run
\* failed or timed out, or the selection could not be written.  The code takes
\* the groups in the order of the plan.
PartialBaseline(g) ==
  /\ phase = "workers"
  /\ g \in groups
  /\ \E passed \in BOOLEAN :
       mode' = [m \in Mutants |-> [r \in Runtimes |->
         IF <<m, r>> \notin Group(g) THEN mode[m][r]
         ELSE IF passed THEN "narrowed" ELSE "fallback"]]
  /\ groups' = groups \ {g}
  /\ UNCHANGED <<phase, runs, inputs, cache, outcomes, missing, workers, leaked,
                 wave, turn, results, counts, error>>

\* The only failure of a partial baseline that ends the run: a signal, or a
\* timeout whose status is one of a signal.
PartialBaselineInterrupted ==
  /\ phase = "workers"
  /\ groups # {}
  /\ error' = "interrupted"
  /\ phase' = "failed"
  /\ UNCHANGED <<runs, inputs, cache, outcomes, planning, workers, leaked,
                 wave, turn, results, counts>>

-----------------------------------------------------------------------------
(* The workers *)

\* Mutant of worker_count: a worker for every mutant.
worker_each == Len(missing)

worker_count == Min({Jobs, Len(missing)})

\* One more snapshot.duplicate; the last one starts the first wave.
CreateWorker ==
  /\ phase = "workers" /\ groups = {}
  /\ workers' = workers + 1
  /\ phase' = IF workers' = worker_count THEN "preliminary" ELSE "workers"
  /\ UNCHANGED <<runs, inputs, cache, outcomes, planning, leaked, wave, turn,
                 results, counts, error>>

\* It failed: the workers there are are disposed of, and the run ends.
CreateWorkerFails ==
  /\ phase = "workers" /\ groups = {}
  /\ error' = "workers"
  /\ phase' = "dispose"
  /\ UNCHANGED <<runs, inputs, cache, outcomes, planning, workers, leaked,
                 wave, turn, results, counts>>

\* Every worker is disposed of, also after one that could not be.
DisposeWorker ==
  /\ phase = "dispose"
  /\ workers > 0
  /\ workers' = workers - 1
  /\ leaked' \in {leaked, leaked + 1}
  /\ UNCHANGED <<phase, runs, inputs, cache, outcomes, planning, wave, turn,
                 results, counts, error>>

\* An error of the waves comes first in the message of the run.
Conclude ==
  /\ phase = "dispose"
  /\ workers = 0
  /\ error' = IF error = "none" /\ leaked > 0 THEN "cleanup" ELSE error
  /\ phase' = IF error' = "none" THEN "reported" ELSE "failed"
  /\ UNCHANGED <<runs, inputs, cache, outcomes, planning, workers, leaked,
                 wave, turn, results, counts>>

-----------------------------------------------------------------------------
(* The waves *)

Runtime == RuntimeOrder[turn]
Wave == SubSeq(missing, wave, Min({wave + worker_count - 1, Len(missing)}))

\* Mutant of Pending: the whole wave runs, settled or not.
PendingAll == ToSet(Wave)

\* The mutants of the wave without an outcome on this runtime.
Pending == {m \in ToSet(Wave) : outcomes[m][Runtime] = "none"}

\* A batch came back: an interrupted process ends the run, and nothing of the
\* batch is recorded.
Completed(batch, next) ==
  IF check_batch(batch)
  THEN /\ error' = "interrupted" /\ phase' = "dispose"
       /\ UNCHANGED results
  ELSE /\ phase' = next
       /\ results' = [m \in DOMAIN batch \cup DOMAIN results |->
                        IF m \in DOMAIN batch THEN batch[m] ELSE results[m]]
       /\ UNCHANGED error

Return(suite, next) ==
  \E batch \in Batches(suite) \cup SignalledBatches(suite) : Completed(batch, next)

Narrowed(m) == mode[m][Runtime] = "narrowed"

\* Every pending mutant runs in its own worker, on the tests of its selection
\* or on the suite.  A selection that cannot be written falls back to it.
Preliminary ==
  /\ phase = "preliminary"
  /\ \E unwritten \in SUBSET {m \in Pending : Narrowed(m)} :
       /\ mode' = [m \in Mutants |->
            IF m \in unwritten THEN [mode[m] EXCEPT ![Runtime] = "fallback"]
            ELSE mode[m]]
       /\ Return([m \in Pending |-> IF Narrowed(m) /\ m \notin unwritten
                                    THEN Selectors[m][Runtime] ELSE Tests],
                 "confirmation")
  /\ UNCHANGED <<runs, inputs, cache, outcomes, missing, groups, workers,
                 leaked, wave, turn, counts>>

Confirmations ==
  {m \in DOMAIN results : Narrowed(m) /\ process_outcome(results[m]) # "killed"}

\* What a selection did not kill runs again on the full suite, and that result
\* counts.
Confirm ==
  /\ phase = "confirmation"
  /\ Return([m \in Confirmations |-> Tests], "record")
  /\ counts' = IF phase' # "record" THEN counts ELSE
       [counts EXCEPT
          !.narrowed = @ + Cardinality({m \in DOMAIN results : Narrowed(m)}),
          !.confirmations = @ + Cardinality(Confirmations),
          !.fallbacks = @ + Cardinality({m \in DOMAIN results :
                                           mode[m][Runtime] = "fallback"})]
  /\ UNCHANGED <<runs, inputs, cache, outcomes, planning, workers, leaked,
                 wave, turn>>

\* The first mutant of the wave whose result is not recorded yet.
Unrecorded(m) ==
  \E i \in DOMAIN Wave :
    /\ Wave[i] = m /\ m \in DOMAIN results
    /\ \A j \in 1..(i - 1) : Wave[j] \notin DOMAIN results

\* The outcome is stored, when it may be, before it counts.
Record(m) ==
  /\ phase = "record" /\ Unrecorded(m)
  /\ LET outcome == process_outcome(results[m]) IN
       /\ outcomes' = [outcomes EXCEPT ![m][Runtime] = outcome]
       /\ cache' = IF Writes /\ Cacheable(outcome)
                   THEN [cache EXCEPT ![Key(m, Runtime)] = outcome] ELSE cache
  /\ results' = [n \in DOMAIN results \ {m} |-> results[n]]
  /\ UNCHANGED <<phase, runs, inputs, planning, workers, leaked, wave, turn,
                 counts, error>>

\* It cannot be stored: the run ends.
RecordFails(m) ==
  /\ phase = "record" /\ Unrecorded(m)
  /\ Writes /\ Cacheable(process_outcome(results[m]))
  /\ error' = "cache"
  /\ phase' = "dispose"
  /\ UNCHANGED <<runs, inputs, cache, outcomes, planning, workers, leaked,
                 wave, turn, results, counts>>

\* The same wave on the next runtime.
NextRuntime ==
  /\ phase = "record" /\ DOMAIN results = {}
  /\ turn < Len(RuntimeOrder)
  /\ turn' = turn + 1
  /\ phase' = "preliminary"
  /\ UNCHANGED <<runs, inputs, cache, outcomes, planning, workers, leaked,
                 wave, results, counts, error>>

\* Mutant of NextWave: the wave is not dropped from what remains.
SameWave ==
  /\ phase = "record" /\ DOMAIN results = {}
  /\ turn = Len(RuntimeOrder)
  /\ turn' = 1
  /\ phase' = "preliminary"
  /\ UNCHANGED <<runs, inputs, cache, outcomes, planning, workers, leaked,
                 wave, results, counts, error>>

\* Mutant of NextWave: a last mutant alone in its wave is dropped.
NextWaveDropsLast ==
  /\ phase = "record" /\ DOMAIN results = {}
  /\ turn = Len(RuntimeOrder)
  /\ turn' = 1
  /\ wave' = wave + worker_count
  /\ phase' = IF wave' < Len(missing) THEN "preliminary" ELSE "dispose"
  /\ UNCHANGED <<runs, inputs, cache, outcomes, planning, workers, leaked,
                 results, counts, error>>

\* The next wave on the first runtime; after the last one, the disposal.
NextWave ==
  /\ phase = "record" /\ DOMAIN results = {}
  /\ turn = Len(RuntimeOrder)
  /\ turn' = 1
  /\ wave' = wave + worker_count
  /\ phase' = IF wave' <= Len(missing) THEN "preliminary" ELSE "dispose"
  /\ UNCHANGED <<runs, inputs, cache, outcomes, planning, workers, leaked,
                 results, counts, error>>

-----------------------------------------------------------------------------

Planning ==
  Preload \/ Plan \/ PartialBaselineInterrupted \/ \E g \in groups : PartialBaseline(g)

Waves ==
  \/ Preliminary \/ Confirm \/ NextRuntime \/ NextWave
  \/ \E m \in Mutants : Record(m) \/ RecordFails(m)

Progress ==
  Planning \/ CreateWorker \/ CreateWorkerFails \/ Waves \/ DisposeWorker \/ Conclude

Next == Begin \/ Progress \/ Kill \/ CleanEntry

Spec == Init /\ [][Next]_vars

\* A run that has begun keeps going: every process it starts has a timeout.
FairSpec == Spec /\ WF_vars(Progress)

-----------------------------------------------------------------------------
(* Properties *)

\* run_mutants keeps each of its variables in the type its code gives it.
TypeOK ==
  /\ phase \in Running \cup Ended
  /\ runs \in 0..MaxRuns
  /\ input \in Inputs
  /\ cache \in [Keys -> Outcomes \cup {"none"}]
  /\ outcomes \in [Mutants -> [Runtimes -> Outcomes \cup {"none"}]]
  /\ ToSet(missing) \subseteq Mutants
  /\ mode \in [Mutants -> [Runtimes -> {"full", "narrowed", "fallback"}]]
  /\ workers \in 0..Jobs /\ leaked \in 0..Jobs
  /\ wave \in 1..(Len(missing) + Jobs) /\ turn \in 1..Len(RuntimeOrder)
  /\ DOMAIN results \subseteq Mutants

\* cache.read: whatever a run stored, and whenever it was killed, interrupted
\* or its cache cleaned, a stored outcome is the verdict of the full suite for
\* every run whose fingerprint finds it.  Timeouts and errors are never stored.
CacheSound ==
  \A i \in Inputs, m \in Mutants, r \in Runtimes :
    cache[<<fingerprint(i), m, r>>] \in {"none", Truth(i, m, r)}

\* Mutant of aggregate: one kill is enough.
aggregate_any(of) == IF "killed" \in of THEN "killed" ELSE CHOOSE o \in of : TRUE

\* outcome.aggregate: an error before a survival before a timeout before a kill.
aggregate(of) ==
  CASE "test-error" \in of -> "test-error"
    [] "test-error" \notin of /\ "survived" \in of -> "survived"
    [] of \cap {"test-error", "survived"} = {} /\ "timed-out" \in of -> "timed-out"
    [] OTHER -> "killed"

Reported(m) == aggregate({outcomes[m][r] : r \in Runtimes})

\* engine.run_mutants: a reported kill is one the full suite makes on every
\* runtime, and a reported survivor survives it on one of them, whether the
\* verdict was read, discharged, narrowed, confirmed or run; unless, on a runtime
\* where the walk discharged it, its parting was lost.
ReportSound ==
  phase = "reported" => \A m \in Mutants :
    /\ Reported(m) = "killed" => \A r \in Runtimes : Truth(input, m, r) = "killed"
    /\ Reported(m) = "survived" =>
         \E r \in Runtimes :
           Truth(input, m, r) = "survived" \/ m \in LostPartings[input][r]

\* "mutation result ordering failed" is never the answer: a report has an
\* outcome for every planned mutant on every runtime, its counts account for
\* each of them, and no worker snapshot is left behind it unsaid.
ReportComplete ==
  /\ phase = "reported" =>
       /\ \A m \in Mutants, r \in Runtimes : outcomes[m][r] # "none"
       /\ counts.confirmations <= counts.narrowed
       /\ (\A r \in Runtimes : impact[r] # "disabled") =>
            counts.hits + counts.discharged + counts.narrowed + counts.fallbacks
              = Len(Planned) * Len(RuntimeOrder)
       /\ leaked = 0
  /\ phase \in {"reported", "failed"} => workers = 0

\* run_mutants on several runtimes: what it stores is the suite's verdict on the
\* runtime it is stored for, also where a lost parting discharges a mutant the
\* suite kills, and its report, whose outcomes may be cached on one runtime,
\* discharged on another and measured on a third, is sound and complete.
ResultsSound == CacheSound /\ ReportSound /\ ReportComplete

\* run_runtime_phases: an outcome, cached, discharged or measured, is final in
\* its run, so no mutant runs again for a runtime that has judged it.
VerdictIsFinal ==
  [][\A m \in Mutants, r \in Runtimes :
       runs' = runs /\ outcomes[m][r] # "none" => outcomes'[m][r] = outcomes[m][r]]_vars

\* A run interrupted or killed between two records is resumed, not repeated: no
\* process is started for a verdict that a run with the same fingerprint stored.
StoredWorkNotRepeated ==
  [][Preliminary /\ Reads => \A m \in Pending : cache[Key(m, Runtime)] = "none"]_vars

\* Every run ends, with a report or an error, unless it is killed.
EveryRunEnds == phase = "preload" ~> phase \in Ended

=============================================================================
