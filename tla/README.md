# A verification project for gleam-mutants

gleam-mutants is a mutation tester for Gleam. `gleam_mutants run` copies the
workspace, instruments the copy with every mutant the compiler accepts, runs
the project's suite once per mutant on each runtime, stores what it learned and
writes reports. Beside the tool the repository has the Rust programs that
release it: `tools/release` and `tools/release-core` build, collect and publish a
version from GitHub Actions, and `verification` proves parts of the sources.
This directory holds TLA+ models of the parts of both that run concurrently,
survive crashes or decide verdicts, the TLC configurations that check them, and
TLAPS proofs about them. Paths below are relative to `src/` of
the repository's copy; `gm/` stands for `src/src/gleam_mutants/`.

## The system

A *run* is one operating-system process (an *invocation*), on the Erlang or on
the JavaScript host. Several may be made at the same time, in the same or in
different workspaces; they share the file system and nothing else. The
interactions that matter are through files: the lock, the kept copies with
their markers, the stored outcomes, the observation markers, the reports.

A *release* is made of workflow runs. `release-candidate.yml` gates one commit, runs
it on three platforms and uploads a signed candidate; `release-publish.yml` fetches
the candidate and publishes it to GitHub, Hex and npm. Their jobs are separate
processes on separate machines that share only GitHub's listings and artifacts,
the tag, the releases and the registries; a workflow run may be run again, in
part or whole, and any of its requests may be lost or answered late.

| Component | State | Operations | Interacts with |
|---|---|---|---|
| workspace lock (`gm/workspace_lock.gleam`, the two `gleam_mutants_platform_ffi` files) | `run.lock`: absent, empty, or a pid and a token | acquire with a deadline, reclaim of an ended owner's lock, release | every run; the collection takes other workspaces' locks |
| kept snapshots (`gm/snapshot.gleam`, `gm/cache.gleam`, `gm/engine.gleam`) | one copy of each workspace, `snapshot.used` | `keep`, `duplicate`, `mark_snapshot_used`, `collect_snapshots`, `clean` | lock, session, workers |
| outcome cache (`gm/cache.gleam`) | one file per fingerprint, runtime and mutant | `read`, `write`, `clean`, the fingerprint | mutation run |
| mutation run (`gm/engine.gleam`, `run_mutants` and below) | outcomes, missing mutants, modes, workers, counts | preload, discharge, plan, partial baselines, waves, phases, recording, disposal | cache, process batches, worker copies |
| session and preparation (`gm/engine.gleam`, `with_session`, `prepare_*`) | the snapshot in use, digests, baselines, selectors | capture, configuration, candidates, validation, baselines | all of the above |
| compiler validation (`gm/engine.gleam`, delta validation) | accepted and rejected mutants | bisection of rejected batches | worker copies, process batches |
| process runner (platform ffi files) | children, a shared cursor, deadlines | `run_process`, `run_process_batch`, interruption | every component that starts a process |
| instrumented observations (`gm/runtime.gleam`) | a `same` or `differing` marker for each mutant | recorded by the baseline's processes, read by discharge | mutation run |
| snapshot capture (`gm/snapshot.gleam`) | a tree and its digest | copy, scan, prune, compare | kept snapshots |
| local dependencies (`gm/local_dependencies.gleam`) | the closure of path dependencies | discovery, relocation | snapshot capture |
| reports (`gm/project_report.gleam` and the formatters) | JSON, HTML, history | replace, restore, append | end of a run |
| test impact (`gm/test_impact.gleam`) | the manifest of tests and the mutants they reach | validation, selection | mutation run |
| mutation catalog (`gm/core/catalog.gleam`, `gm/core/interval_tree.gleam`, ...) | candidates | syntax walk, overlap queries | preparation |
| scoring and exit policy (`gm/core/`) | none | `aggregate`, `score`, exit code | end of a run |
| command line and configuration | none | parsing | everything |
| release candidate (`tools/release/src/runner.rs`, `runtime.rs`, `evidence.rs`, `github.rs`, `release-candidate.yml`) | attempts, jobs, receipts, artifacts | gates, cells, collect and seal, attest, verify, fetch | publication, proof gates |
| release publication (`tools/release/src/publication.rs`, `registry.rs`, `tools/release-core`, `release-publish.yml`) | tag, releases and their assets, registry versions, controller runs | preflight, draft, readiness, hex, npm, finalize; rerun, dispatch | release candidate |
| proof gates (`verification/src/main.rs`, `supervisor.rs`, `tools/release/src/proofs.rs`) | a snapshot of the sources, a container, a client process | prove, control, supervise, compare again | release candidate's gates |
| release proposal and audit, verification contracts, scripts, vendored code, fuzzing | none | - | - |

`PROJECT.json` says of each of them whether it is modelled, partly or not.

### What is hard here, and what makes each part right

* **Lock.** The lock file is created, written, read, probed, deleted and
  re-created in separate system calls, by processes of two hosts, any of which
  may be killed in between. It is right when two runs never both believe they
  hold a workspace, when a dead owner's lock is reclaimed, and when every call
  answers by its deadline. It does not always exclude, and one call need not answer
  (below, "Where the code and its documents disagree").
* **Kept snapshots.** Every run collects the copies of every workspace, holding
  its own lock and trying others', and orders them by wall-clock markers that may
  tie, step back or be missing. It is right when nobody removes or rewrites a
  copy a run works in as long as the lock excludes, when two collections cannot wait
  for each other, when failed removals leave no lock behind, and when the budget is
  kept.
* **Outcome cache and mutation run.** Verdicts are assembled from stored
  outcomes, from baseline observations, from narrowed selections and from the
  suite, on several runtimes; a run may be signalled, killed or fail between
  any two records. It is right when a stored or reported verdict is always the
  one the whole suite gives, nothing is lost, nothing is judged twice, and each
  run ends with its workers removed or with an error.
* **Process runner.** Concurrent workers share a cursor; timeouts race answers;
  an interruption drops results. It is right when each request gets its own
  result or the batch ends as interrupted.
* **Observations.** Several processes, and several threads of each, record into
  one directory; any write may fail and any of them may end. It is right when
  only what was seen to agree is discharged, and a parting is lost only where
  the code can do nothing about it.
* **Validation.** A rejected batch is bisected. It is right when
  the mutants rejected are exactly those that do not compile, also when the
  workspace itself stops compiling in between.
* **Reports.** Two files and a history are replaced without a transaction.
* **Publication.** A version in a registry, a tag and a published release cannot be
  taken back. Each is written by a job that may not learn whether its write
  happened, and that another attempt or another controller run repeats. It is
  right when whatever is public has a complete, verified release beside it, when
  one candidate is published once, and when rerunning leads to the end.
* **Candidate.** The evidence of one candidate comes from jobs of several attempts,
  and is fetched while a later attempt may be running. It is right when a
  fetched candidate is the latest success of every job, and its evidence holds.
* **Proof gates.** Provers hang and are killed, sources are edited meanwhile, and a
  negative control passes by *failing*. They are right when only the prover's own
  answer about the text that is on disk makes a gate pass, and when each
  supervised command ends.

Every such hazard is listed in `PROJECT.json` at its line, with the properties
that cover it or a note saying why none does.

## Modules

| Module | Models |
|---|---|
| `WorkspaceLock` | `acquire_lock` and `release_lock`, call by call, on both hosts |
| `MCWorkspaceLock` | its instances for TLC |
| `WorkspaceLockProofs` | its theorems |
| `KeptSnapshots` | the life of kept copies: capture, marking, collection, duplication, cleaning |
| `MCKeptSnapshots` | its instances for TLC |
| `KeptSnapshotsProofs` | its theorems |
| `MutantRun` | `run_mutants` and everything below it, with the outcome cache |
| `MCMutantRun` | its instances for TLC |
| `MutantRunProofs` | its theorems |
| `CompilerPartition` | what compiler validation promises: an error, or the exact partition |
| `DeltaValidate` | `delta_validate`, `validate_base`, `validate_batch`, `compile_targets`, refining it |
| `MCDeltaValidate` | its instance for TLC |
| `DeltaValidateProofs` | its theorems, the refinement among them |
| `Observations` | the generated `compare` and `observe`, and `read_observations` |
| `MCObservations` | its instances for TLC |
| `ObservationsProofs` | its theorems |
| `ReleasePromise` | what the publication of one version promises, whatever fails |
| `Publication` | the jobs of controller runs, the servers they write to, the operator; refining it |
| `MCPublication` | its instances for TLC |
| `PublicationProofs` | its theorems, the refinement among them |
| `ReleaseCandidate` | a candidate's workflow run over its attempts, and fetches beside it |
| `MCReleaseCandidate` | its instance for TLC |
| `ReleaseCandidateProofs` | its theorems |
| `ProofRun` | the Lean and the Kani gate, their supervisor and Docker |
| `MCProofRun` | its instance for TLC |
| `ProofRunProofs` | its theorems |

`PROJECT.json` "map" gives the lines behind each definition. In each module the
definitions whose comment begins "Mutant of" are plausible bugs, not the code;
nothing else refers to them.

### WorkspaceLock

A process is one invocation that acquires once, works, releases once and ends;
its pid and its token are its identity. `pc` is the place in
`acquire_lock_loop` (Erlang) or in the loop of `acquire_lock` (JavaScript) and
later in `release_lock`; every system call is one action, so any two calls
interleave. The file is `None`, empty (`~written`) or its owner's metadata.

* Both hosts open exclusively, then write. A failed write deletes the path on
  Erlang and leaves the empty file on JavaScript (`WriteFailed`).
* A waiter reads the owner, asks the operating system whether the pid answers,
  and unlinks the *path* when it does not (`OwnerGone`, `Reclaim`). A path that
  has gone meanwhile is retried at once on Erlang and waits on JavaScript
  (`ReclaimMissed`).
* The release reads the file back and then deletes the path (`ReadBack`,
  `Release`).
* A deletion of a file that exists may be refused to the processes of `Denied`
  (`WriteFailedKept`, `ReclaimRefused`, `ReleaseRefused`). The Erlang loop drops the
  error of its reclaim and opens again without a look at the deadline, so a
  file system that goes on refusing keeps it spinning; JavaScript waits, and is refused
  in the end.
* `End`, `Kill` and `RecyclePid` are the operating system's.

Abstracted: the 50 ms sleeps and the clock, into `Patience`, the most sleeps
that fit before the deadline (a slow machine may have fewer, so `Refuse` is
always possible at the wait); a partial write of the metadata, which reads like
an empty file; `EPERM` of `kill -0`, since one user owns all the processes;
Windows' `tasklist`.

### KeptSnapshots

An invocation is `run` or `cache clean`. The lock is one variable for each
workspace, and taking it is one step; what the calls of `WorkspaceLock` may do besides
are steps of their own. A killed owner's lock goes to the next acquire, or to nobody (`stuck`:
its metadata was not written, or its pid is somebody else's now). `Rob` removes a living
owner's file, as a stale reclaim does: some invocation has ended and another is about to
acquire there; after a first robbery the robbed owner's own release may do it again. The
robbed owner does not know and works on, and a next acquire succeeds beside it; its
release then fails (`Unlock`). A waiter may always give up, as in `WorkspaceLock`, whose
refused deletions are not repeated here.

A copy is absent, torn or whole; a capture or a deletion
is a step that tears it and one that completes it, so everything may happen in
between. `used` is the marker: the wall clock's milliseconds when it was written, any
of `Stamps`, so that two markers may tie and a later one be smaller; 0 when there is
none, which a failed write leaves too. Ties are broken by `MostRecent` in any way.

`Mark` to `Collected` are `mark_snapshot_used` and `collect_snapshots`: the
directories are read one by one, sorted, and each victim is locked without
patience, deleted, unmarked and unlocked. A deletion may fail half way. The work
of the run is `Duplicate`, any number of times (workers, batches and lanes all
duplicate the tree) and `Finish`. `CleanBegins` to `CleanUnmarks` are `cache clean`, which
takes no lock. Not modelled here: what a capture copies and prunes, which is one
step that ends whole or fails.

### MutantRun

`phase` is the function the run is in. `Preload` reads the cache and discharges;
`Plan` assigns modes; `PartialBaseline` runs a selection on the base copy;
`CreateWorker` duplicates; `Preliminary`, `Confirm`, `Record`, `NextRuntime` and
`NextWave` are `run_runtime_phases` and `run_mutant_waves`; `DisposeWorker` and
`Conclude` end the run. `Begin` starts another run on the cache the last one
left, with its own inputs, cache mode and impact evidence; `Kill` and
`CleanEntry` may happen at any time.

A test process is its status and whether it timed out. The suite is
deterministic: `Failing` gives the tests that fail for each input, mutant and
runtime. A process may nevertheless not start, time out with any of
`TimeoutStatuses`, or be signalled. `Discharged` is what the walk discharges.
`DischargeAssumption` says that a mutant whose answers never part fails no test;
of `LostPartings`, the discharged mutants whose answers did part where it was not
recorded (`Observations` says when that happens), it says nothing, and the suite may
kill them.

Abstracted: a batch of processes and the reading of the cache are one step each;
the cache's format and checks are one lookup; the order of the partial baselines is
free, which adds behaviours; the session around the run is in the inputs `Begin` chooses;
runs follow one another, since the workspace lock orders runs that share a
cache directory.

### DeltaValidate and CompilerPartition

The recursion of `delta_validate` is the stack `batches`, left half first. A
build is `Instrument` (the copy and the sources), one `CompileTarget` for each
target in any order, and a removal of the copy that succeeds within the answer
or is `DisposeFails`; `base` says whether it is `validate_base`'s. A build that is
no answer (a timeout, a signal, another status) is `BuildFails`, then `Abort`.
`Break` is the environment: what a build needs besides the sources may go.

Assumed: a target rejects a batch exactly if it rejects one of its candidates or
the workspace itself; so two candidates that only together do not compile, and
mutation spans that cross (which `interval_tree.build` rejects and the catalog
does not produce), are left out. A workspace that breaks stays broken: one that
broke for a single build would have a sound candidate rejected, as in the code.

`PartitionsExactly` says that the module implements `CompilerPartition`, in which one
step takes the answer from "none" to an error or to the two lists, in the order of
the catalogs. It says what the lists are (`Lists`: every member of a set once, in the
catalogs' order) and not how they come about; when there is no candidate the answer is there
from the start, as `delta_validate` makes no build then.

### Observations

A thread goes through `observe` call by call: `Compare` (both answers, and the
table if there is none), `Look`, `Written` or `WriteFails`, `Erase`, `Remember`. A
process keeps one table; on Erlang it belongs to the thread that made it, and
`Exit` of that thread takes it from the others, whose `ets` calls then raise
(`LookRaises`, `RememberRaises`). `Kill` ends a child process, `Return` the suite's own, with
what its Erlang threads were doing; children go on while `ListSame` and
`ListDiffering` read the directories one after the other.

Five history variables say what was met and what was lost, for the properties
only. Left out: several runtimes, which have directories of their own; partial
writes, since the files are empty; the test impact table of the same walk.

### Publication and ReleasePromise

The servers' state is `tag`, `release`, `asset`, `held` and `shown`: what GitHub and the
two registries store, and how much of a version they already show. `at` is the
step each job of the active run is about to take; one step is one request, so
the two registry jobs, late writes and other writers interleave between any two
requests. `runs` keeps what GitHub Actions keeps of a controller run: its inputs,
the attempt, the result of the latest job of each phase and the draft job's
output. `hand` is the memory of the only job that has any.

* `SelectDraft` to `VerifyDraft` are `create_draft` and `reconcile`; `RegistryReady` is the
  phase of that name; `PlanRegistry`, `PostArchive` and the two readbacks are the hex and
  npm phases, which differ in how they wait; `InspectDraft` to `ConfirmRelease` are
  the finalize phase.
* `Answered` is a write that succeeds, `RefusedWrite` one that a server does not
  accept (`Accepts`), `UnansweredWrite` one whose answer is lost: the job fails and
  `Deliver` may perform it at any later time, or never. `EndedFromOutside` is a
  cancelled or lost job.
* `Dispatch` starts a run, for either candidate and with or without a draft id;
  `Rerun` runs failed jobs or all. With `Patient` the operator does what
  `docs/releasing.md` says: wait until registries show what they hold, rerun the
  failed jobs, and name a draft when there are several.
* `ForeignWrite` is somebody else's tag, draft, asset or version.
* The list of releases is a read that may be behind: `LaggingSelect` chooses a draft
  from any part of what there is, and may make a second one; `LaggingPreflight` misses
  a release that is published. Each counts as a fault. A read by name or by id
  (an asset, a tag, a confirmed draft, a version) shows what its server holds.

`PromiseKept` says the module implements `ReleasePromise`, in which there are only a tag,
complete candidates, archives and the published candidate.

Left out: credentials, approvals and the checks a job makes of its own context,
which do not change within a run; the client and configuration checks of npm; the
proposal of the next version; the removal of anything by a person. Two attempts
of one run do not overlap, as GitHub Actions has it; runs of one version do not
either, by the workflow's concurrency group.

What the model shows without any property being violated, and `docs/releasing.md`
tells the operator about: a truncated asset blocks its draft until a person
deletes it; a version in which two drafts of different candidates were
begun may end with one candidate's archive in each registry, and then can never
be published; a finalize whose answer is lost cannot succeed when it is rerun,
because the release it finds is no draft any more, though everything is right.

### ReleaseCandidate

`job` is GitHub's listing of jobs, by job and attempt; a partial rerun lists only the
jobs it runs. `Start`, `RunGate`, `RunCell`, `UploadReceipt`, `Bind`,
`UploadUnsigned`, `Attest` and `Verify` are the steps of the jobs; `Conclude` and `Rerun`
those of GitHub Actions; `Expire` takes an artifact away. A fetch reads the run, the
artifacts, one archive and the jobs in four steps (`ReadRun` to `ReadJobs`), between
which a rerun may begin.

A receipt is the attempt it names. What its job really did there is `evidence`: how
many of its checks it did, after which the tree was another one, and in which ways its
cells decided mutants. The gates read the source's identity after each check, the cells once
after the last. `Conclusive` reads a report as `runtime.rs` does, by its printed
counts, in which a mutant the walk discharged is an executed survivor
(`engine.gleam:576`, `engine.gleam:1744`): so a cell may pass in which not every mutant was run, and
`FetchedEvidenceHolds` says "decided anew", by the suite or by the walk, never from the cache.
Left out: bytes and digests, account checks, and signatures,
which hold for whatever an attest job uploaded; the two test suites before
a platform's cells, which fail the job as a cell does.

### ProofRun

`Agenda` is the sequence of commands a gate runs: versions, proofs, the file that imports
all contracts, the references, the native programs and, for each contract, a witness,
the derivation and a broken copy that must be refused. `StartClient` to `CleanupFails` are one command: the docker
client, the container behind it, `supervisor::wait`, `stop` and the cleanup. A
container may be created after its client is gone, be killed at its memory limit,
or outlive a client that broke. `Edit` saves any file of the tree with any other text, an
earlier one included, as often as anybody likes. An edit that is undone before the last
comparison goes unnoticed, although a native program may have been built from it:
`undone` is the history of those files, and `PassedTreeStood` excepts them and no
others. Left out: what the translators
write and the provers compute, which is an answer; the image build's and the
native programs' time, which has no deadline in the code. `docker rm` that finds no container
leaves one that the daemon creates later.

## What the runs check

Run any of them with `tlc -workers 2 -config <cfg> <module>`.

| Run | Instance | Shows |
|---|---|---|
| `lock_calls` | 3 processes, two on Erlang, two killable, one recycled pid, failing writes, refused deletions on both hosts, one sleep; fairness | `ExclusiveUntilRobbed`, `SafeWhileAllLive`, `LostOnlyIfRobbed`, `WrittenStaleReclaimed`, `EveryCallAnswers` |
| `lock_exclusion` | 3 processes, nobody killed | `MutualExclusion` is violated |
| `kept_shared` | 3 runs, two in one workspace, one killable, locks that are robbed, markers that tie, step back or fail | `WholeUnlessRobbed`, `QuietCollectionInBudget` |
| `kept_cleaned` | 2 runs and a `cache clean`, two of them in one workspace, one killable, one that may keep nothing; fairness | `TornByCleanOrRobbery`, `ResultsLeaveNothing`, `EveryInvocationEnds` |
| `run_waves` | 3 mutants, 1 runtime, 2 workers, 2 runs in different environments | `CacheSound`, `ReportSound`, `ReportComplete`, `StoredWorkNotRepeated` |
| `run_runtimes` | 3 mutants, one of them discharged by a lost parting, 2 runtimes, 1 worker, 2 runs; fairness | `ResultsSound` (the first three of `run_waves`), `VerdictIsFinal`, `EveryRunEnds` |
| `validate_bisect` | 5 candidates, 3 runtimes on 2 targets, every set of rejected candidates for each target, a workspace that may break | `PartitionsExactly`, `AnswerLeavesNoCopy`, `BisectionLogarithmic` |
| `walk_families` | 1 mutant, 2 threads of an Erlang process and a child process, every file operation may fail | `DischargeNeedsAgreement`, `LostPartingExplained`, `AgreementSettles` |
| `publish_faults` | 2 candidates of one commit, 2 controller runs of 2 attempts, 1 fault (a lost answer, an ended job or a list that is behind), 1 foreign write, 3 release ids, any operator | `FinishedReleaseExact`, `RegistryFollowsDraft`, `DraftsFollowFaults`, `PromiseKept` |
| `publish_recovers` | 1 candidate, 2 runs of 6 attempts, 2 such faults, a patient operator; fairness | `Recovers` |
| `candidate_fetch` | 1 platform, 2 gates, 2 cells, 3 attempts, 2 faults, 1 expiry, 1 fetch | `FetchedIsLatest`, `FetchedEvidenceHolds` |
| `proof_runs` | both gates, 2 sources, 1 suite, 2 runtimes, 1 contract, 1 further control, 2 texts of each file, any number of edits, 2 faults; fairness | `PassMeansProved`, `PassedTreeStood`, `SupervisedRunsEnd` |

`lock_calls`, `kept_shared`, `run_waves`, `validate_bisect`, `walk_families`,
`publish_faults` and `candidate_fetch` also check the type invariants of their modules.

### Where the code and its documents disagree

`lock_exclusion` shows the first of these; the sentence it contradicts is quoted in
`PROJECT.json` "findings". The other six are behaviours of the models, each a
choice the modules make as the code does, that the properties are worded around.

1. *The lock does not always exclude.* A waiter reads the metadata of an owner,
   which then releases and exits; a third run creates its lock; the waiter, whose
   probe finds the first owner gone, deletes the path. Nothing crashes. What does
   hold is `ExclusiveUntilRobbed`, and `SafeWhileAllLive`: no run loses its lock
   before some invocation has ended.
2. *A torn lock is never reclaimed.* An owner killed between the open and the write
   (`gleam_mutants_platform_ffi.erl:163-167`) leaves an empty file that nobody's pid
   explains, although `docs/errors.md:111` says a stale lock is reclaimed.
   `WrittenStaleReclaimed` is the claim that holds.
3. *`cache clean` tears a copy in use* (`cache.gleam:374`). It takes no lock, while
   `snapshot.gleam:60-61` has the tree held by the run's lock. Another run tears it too
   once the lock has been robbed (1). `TornByCleanOrRobbery` says that these two are all.
4. *A timeout may end the run as interrupted* (`engine.gleam:2821`). A status of 143 is
   looked at before the timeout is, although `docs/usage.md:91` has timeouts count as detected.
5. *A lost parting is discharged* (`runtime.gleam:173`). A parting that cannot be
   written takes an earlier agreement with it, but not a later one: the mutant is
   then discharged although its answers parted (`engine.gleam:1269` says they never
   did). `LostPartingExplained` names this and the other ways a parting can be
   lost, and says that there are no more. `ResultsSound` follows it on: the mutant is
   reported as a survivor, and nothing else in the report or in the cache is wrong.
6. *An acquire need not answer* (`gleam_mutants_platform_ffi.erl:182`). The Erlang host
   ignores that a stale lock could not be deleted and retries without looking at the
   deadline, so in a directory it may not write to it spins. `EveryCallAnswers` excepts
   this, and `CallsAreBounded` shows that it is the only retry without progress.
7. *An undone edit is not noticed* (`verification/src/main.rs:429`). The Lean gate
   compares the sources once, at the end, so its native programs may have been built from a text that
   was put back before. `PassedTreeStood` says that this is the only way.

### Bounds, and why they are enough

* Three invocations: one holds, one waits with stale knowledge, one arrives; the
  lock's and the copies' races involve at most a victim, a thief and a
  beneficiary. The exclusion itself is proved for any number.
* `Patience` 1: a process that sleeps meets each branch of the loop before and after a
  sleep; a second sleep repeats them.
* Two invocations to which deletions are refused, one of each host: the file system
  refuses at any of the three places where the code deletes.
* A budget of one copy with two workspaces: there is always a victim. Two stamps
  (`Stamps`) tie, step back and advance; with "no marker" there are three orders
  between two copies. The theorems have any set of stamps.
* Three mutants with two workers: a full wave and a shorter one; with
  one worker: up to three waves; a batch of two has mixed results. Two tests, one known
  to reach a mutant and one that kills it unseen: the case the confirmation
  exists for. Two runs (`MaxRuns`): one stores, one reads; the same or different
  fingerprints. The suite in `MCMutantRun` has a mutant killed by its selection, one
  killed only by a test outside of it, one that survives, and one whose fate
  depends on the environment; on two runtimes the last is discharged by a lost parting in
  the environment in which the suite kills it.
* Five candidates halve into two and three, then into one and two: odd and even
  batches, a batch of two, lone candidates; two targets each of which may accept
  what the other rejects.
* One compared mutant: no step relates two mutants' files. Two threads share a
  table, a third has one of its own; `Return` leaves the third running. The
  theorems have any number.
* Two candidates of one commit are the case the tag cannot tell apart. Two runs
  let a second take over from a first, with a draft of either; two attempts let a
  rerun meet what the first left. One lost write or ended job, at any step, and one
  foreign write, of any kind, combine with all of that, and so does a list that is
  behind once; three release ids are one
  for each run and one more. The theorems have any number of each. For the
  recovery, six attempts in two runs are more than two faults make necessary:
  the run itself shows that the bound never stops it.
* Three attempts: one whose job failed, one that reruns a part, and one under way
  while a fetch reads. One fetch, because a fetch changes nothing that another reads. Two
  cells, since the last one is checked differently; one platform, since platforms share
  nothing before the seal. A cell's report is conclusive with or without a discharge, empty,
  cut short, or has taken over an outcome.
* One contract and one control for each gate, two native runtimes (edited between
  them), two texts of each file (the expected one and another, so that an edit is
  made and undone any number of times), two faults (a client that breaks and
  a cleanup that fails).
* Counters that need a bound: `MaxRuns` in MutantRun and in Publication, `MaxAttempts`,
  `MaxReleases`, `Faults`, `Foreign`, `Expiries`, `MaxFaults`, and `Patience` in
  WorkspaceLock.

Deadlock is checked in `validate_bisect`, whose answer is followed by `Done`. It is not in
the others: when every invocation has ended, or the walk has been read, there is
nothing left to do.

### Fairness

* `WorkspaceLock`: weak fairness of each process's own calls: the host keeps
  running a process. Nothing makes a process begin, die or have its pid reused, and nothing
  makes a refused deletion succeed in the end.
* `KeptSnapshots`: weak fairness of each invocation's progress. The work of a run is
  assumed to end, because every process it starts has a timeout; duplicating is
  not forced.
* `MutantRun`: weak fairness of the run's progress, for the same reason.
* `Publication`: weak fairness of each job's steps (a job is scheduled, and its
  requests have deadlines, so each is answered or fails), of the conclusion
  of a run, of the registries showing what they accepted, and of an operator
  who acts. A lost write need never be performed.
* `ProofRun`: weak fairness of the supervisor's loop, whose polls, deadline, kill and
  cleanup (under a deadline of its own) need nobody else. Nothing is assumed of
  containers, the image build or the native programs.

No strong fairness is used anywhere, and none on the operating system's actions.

## What is proved

Every theorem is proved for every value of the constants, from the module's named
assumption about them only. Each has the same shape: an inductive invariant, a
lemma that `Init` establishes it, lemmas that each action keeps it, and a last step with
PTL. What makes each invariant inductive is said below. Check a module with
`tlapm <module>.tla`.

Four modules also prove what is safe about their liveness: a number of steps that is left
(`Work`, `Left`, `PollsLeft`), which every step that fairness forces lowers and which no other
actor, fault, kill or cleaning raises; the one exception, in `WorkspaceLock`, is in the
theorem. Whatever is scheduled, the forced steps are then at most as
many as that number: nothing can make a call, an invocation, a run or a supervised
command go round for ever. What TLC adds in the liveness properties is that
the forced step is possible whenever one is needed (ENABLED) and that fairness then
takes it.

### WorkspaceLockProofs

For every set of processes, hosts, killable processes, recycled pids and every
patience (`LockAssumption`).

| Theorem | Statement |
|---|---|
| `TypeCorrect` | `Spec => []TypeOK` |
| `Exclusion` | `Spec => []ExclusiveUntilRobbed` |
| `NoRobberyWhileAllLive` | `Spec => []SafeWhileAllLive` (and mutual exclusion while all live) |
| `LostMeansRobbed` | `Spec => []LostOnlyIfRobbed` |
| `StaleLockReclaimed` | `Spec => []WrittenStaleReclaimed` |
| `CallsAreBounded` | `Work` is at most `WorkLimit`, every step of a call's own lowers it, and nothing raises it, but for `Spins` |

The invariant of the first four, `LockInv`, adds to the types:

* a process between its exclusive open and its release, and not robbed, is the
  owner of the file at the path (exclusion follows: the file has one owner);
* once its metadata has been written, the file at the path has it;
* only a live process's pid is sure to answer, so a reclaim that removes
  somebody else's file was preceded by an end (nobody is robbed while all live).

`StaleLockReclaimed` needs another one, `ReclaimInv`: what a process knows that is alone with
the lock of an ended owner. The file at the path is the ended owner's or its own;
it probes the ended owner's pid only, which does not answer; and it waits only
before a file without metadata. "Alone" cannot become true again, because a
process that has begun has begun (`BegunStays`).

`CallsAreBounded` is for finitely many processes (its hypothesis; the module itself allows any
set). The clock bounds the sleeps, but a retry after a reclaim does not look at it: what bounds
those is that each owner whose file a process can still read is one of `Unread`, that a
file is created once by each process and so only vanishes, and that a process
reclaims a file it has read. `Work` weighs the sleeps left over the files unread over the place
in the loop. `Spins` is the retry of the Erlang host after a refused deletion, the one step
that may raise `Work` or leave it; the JavaScript host waits then, which lowers it. So a call that is refused a
deletion finitely often answers, and one that never answers is refused again and again:
that is how `EveryCallAnswers` is worded.

### KeptSnapshotsProofs

For every set of invocations and workspaces, whatever is killed, robbed, cannot be removed
or cannot be marked, and whatever the clock shows (`KeptAssumption`, in which the
workspaces are finitely many).

| Theorem | Statement |
|---|---|
| `LocksOwned` | `Spec => []Owned` |
| `TypeCorrect` | `Spec => []TypeOK` |
| `NothingLeft` | `Spec => []ResultsLeaveNothing` |
| `KeptCopies` | `Spec => []CopyWhole` |
| `WorkingCopies` | `Cleaners = {}` gives `Spec => []WholeUnlessRobbed` |
| `TornCopies` | `Spec => []TornByCleanOrRobbery` |
| `QuietCollectionBounded` | `Spec => []QuietBudget` |
| `QuietCollection` | `Cleaners = {}` gives `Spec => []QuietCollectionInBudget` |
| `InvocationsAreBounded` | every step of an invocation's own lowers `Left`, at most 7 for each workspace and 15; nothing raises it |

`Owned` is about locks: a living run owns its own workspace's from the session to the
release and its victim's while it removes it, or somebody was robbed of that lock; and
it owns nothing else. Whoever damages a copy
therefore owns its lock, except `cache clean`, or the lock was robbed. Exclusion is not assumed: `Rob` is
free to happen in every state in which `WorkspaceLock` lets a reclaim be wrong, and what holds
beside it is stated with `robbed`. `KeptCopies` is `WholeUnlessRobbed` for every run
whose workspace no `cache clean` has touched, so that the hypothesis of
`WorkingCopies` (the instance of `kept_shared`) is not a restriction of the argument but of
the claim, which is false beside a clean. In the same way `QuietCollectionBounded` is the
part of `QuietCollectionInBudget` that a clean cannot break. The budget rests on
counting: a collection that nothing overlaps lists exactly the copies there are
(`ListingExact`), and from then on the copies that are not
among its victims are at most as many as it may keep (`CollectsToBudget`). A victim leaves
the count by being removed, except two kinds: a copy behind a lock nobody reclaims
(outside `Collectable`), and its run's own, which markers that tie or step back may make a victim
and which its own lock then protects. Hence "besides its own", and within the budget
altogether when its marker is the latest (`Latest`).
In `InvocationsAreBounded` a listing goes through each workspace once and each victim
is tried once, in a fixed number of steps, so a lock somebody else holds or has robbed, a removal that fails or a copy that
another run recreates behind the collection costs no second round; the calls inside one acquire
are `CallsAreBounded`'s. Duplicating is not among the steps
counted, and changes nothing that is.

### MutantRunProofs

For every plan, suite, number of workers, set of inputs, runtimes and sequence of
interrupted and killed runs (`RunAssumption`, `DischargeAssumption`).

| Theorem | Statement |
|---|---|
| `TypeCorrect` | `Spec => []TypeOK` |
| `CacheSoundAlways` | `Spec => []CacheSound` |
| `ReportSoundAlways` | `Spec => []ReportSound` |
| `ReportCompleteAlways` | `Spec => []ReportComplete` |
| `ResultsSoundAlways` | `Spec => []ResultsSound` |
| `VerdictsFinal` | `Spec => VerdictIsFinal` |
| `StoredWorkKept` | `Spec => StoredWorkNotRepeated` |
| `RunsAreBounded` | every step of a run lowers `Left`, bounded by mutants, runtimes and workers; no kill or cleaning raises it |
| `RecordsGoOn` | while results are not recorded yet, one of them has its turn in the wave |

Three arguments meet in `Inv`. Every outcome is followed from where it came from: it is the
full suite's, or says that it was not found out, or is a survivor the walk discharged on a
lost parting (`Told`, `Fresh`, `Measured`); the last is never stored, so `CacheSound` and the kills
of `ReportSound` have no exception. What has no outcome is ahead of the
position in the waves and the runtimes (`Ahead`, `Placed`), so a run that reaches its end
has them all. And the counts of the summary are the outcomes there are (`Counted`), because with
impact evidence every mutant runs on a selection or falls back from one (`Moded`): no
report is incomplete. `NotStored` says that what a run still has to find out its cache
does not have; `StoredWorkKept` follows.

`Left` weighs the turns still to come (a wave on a runtime, `TurnsLeft`) over what is left of this one: a
batch, its confirmation and a record for each of its mutants. It starts from the plan's size because
`missing` is never longer than it and a wave never empty (`Within`, `CountIs`). `RecordsGoOn` is the one guard of the run
that does not hold at sight: a result always belongs to a mutant of the wave (`OfWave`),
so the recording, which follows the wave, reaches it.

### DeltaValidateProofs

For every sequence of distinct candidates, every set of runtimes, and however
builds, copies and removals fail (`ValidateAssumption`).

| Theorem | Statement |
|---|---|
| `TypeCorrect` | `Spec => []TypeOK` |
| `NoCopyLeft` | `Spec => []AnswerLeavesNoCopy` |
| `ValidationPartitions` | `Spec => PartitionsExactly`, the refinement |
| `BuildsLogarithmic` | `Spec => []BisectionLogarithmic` |

The invariant has the batches as consecutive slices of the candidates up to the last
(`Sliced`): what precedes the first slice is decided and in one of the two lists,
in order. A batch is blamed only after a build of the base has succeeded on every
target (`Shown`), so a lone candidate that is rejected is rejected for itself.

`BuildsLogarithmic` keeps a budget. A batch on level `d` has at most `Power[d]` candidates, and may spend
one build when none of them offends and `3 * d + 2` for each that does (`Spend`); `Within` says there
is a level for each batch still on the stack such that the builds made and the
budgets of those batches stay within that of the first. A rejected batch costs its own build
and one of the base, and its halves are a level lower and share its offenders: one half may
have none, and then costs a build, which the third `d` pays (`SpendHalves`). The levels are
a witness in the invariant, not a variable, so the model has no ghost state. The logarithm
is the first power of two that is not below the candidates; `Power` is a recursive function, whose
equation the prover does not give by itself: `PowersExist` and `PowersAgree` derive it from the least
counterexample (`LeastNatural`), not from an induction theorem.

### ObservationsProofs

For every set of mutants, threads and processes, every choice of Erlang processes
and of operations that may fail (`ObservationsAssumption`).

| Theorem | Statement |
|---|---|
| `TypeCorrect` | `Spec => []TypeOK` |
| `Discharge` | `Spec => []DischargeNeedsAgreement` |
| `Explained` | `Spec => []LostPartingExplained` |
| `Settled` | `Spec => []AgreementSettles` |

The invariant has three parts. `Known` follows an answer from the guard to the
listing: what a thread observes, what is in a file and what is listed was met,
and a parting in a table is in a file; `Discharge` follows. `PartingTraced` says, phase by
phase, that a parting met beside a recorded agreement is in a file, still being
observed by some thread, or accounted for in `lost` or `overtaken`; `Explained` is its last
conjunct. `AgreementKept` says that nothing erases the agreement of a mutant that
never parts. `SuiteTraced` reduces the second part to five conditions on a step,
which `TracedStep` shows for each action.

### PublicationProofs

For every set of candidates, commits and asset names, every archive and source of
a candidate, and every number of releases, runs, attempts, readback checks,
faults and foreign writes (`PublicationAssumption`).

| Theorem | Statement |
|---|---|
| `TypeCorrect` | `Spec => []TypeOK` |
| `ArchivesFollowDrafts` | `Spec => []RegistryFollowsDraft` |
| `FinishedRunsAreExact` | `Spec => []FinishedReleaseExact` |
| `ControllerKeepsPromise` | `Spec => PromiseKept`, the refinement |
| `DraftsAreCounted` | `Spec => []DraftsFollowFaults` |

The invariant `Inv` adds to the types what each job knows when it writes. A job runs
only after those it needs succeeded (`JobsInOrder`); a draft job that succeeded left a
tag and a complete release behind (`DraftsReady`); what the draft and the finalize
job read before they went on is still so (`DraftHolds`, `DraftTagged`, `FinalHolds`,
`FinalServed`); and a write that was never answered does no harm whenever it is
performed (`WritesHarmless`). It is inductive because nothing written remotely is
ever taken back: lemma `ServerStepPermanent`, of `Permanent`. The proof treats
the jobs (`ControlStep`) and the servers (`ServerStep`) apart, so that each of the
controller's steps is looked at once.

`DraftsAreCounted` counts, besides the releases there are, those that are still to come:
the unanswered creations, each paid for by a fault, and the one the draft job has
decided on, which it did when there was none or when the list was behind, a fault too
(`DraftsPaid`). Each step is one of seven kinds (`DraftsStep`, `Overlooks` for the last),
and none of them brings the sum above what was paid.

### ReleaseCandidateProofs

For every finite set of platforms, number of gates, attempts, faults and expiries
and any number of fetches (`CandidateAssumption`).

| Theorem | Statement |
|---|---|
| `TypeCorrect` | `Spec => []TypeOK` |
| `LatestFetched` | `Spec => []FetchedIsLatest` |
| `EvidenceFetched` | `Spec => []FetchedEvidenceHolds` |

The listings of a concluded attempt never change, so what a reader compared once stays
the latest success; a job that has succeeded has only jobs that have succeeded behind
it, which is why the jobs after the cells run alone. Evidence is followed from the step that
produced it into the artifact, the binding, the candidate and the reader: an attempt's evidence no
longer changes once its receipt is uploaded, whatever later attempts do.

### ProofRunProofs

For every number of suites, runtimes, contracts, controls and faults, any edits and every
set of sources and texts (`ProofRunAssumption`).

| Theorem | Statement |
|---|---|
| `PassProved` | `Spec => []PassMeansProved` |
| `TreeStood` | `Spec => []PassedTreeStood` |
| `ControlsRefused` | a Lean gate that passed saw every contract's and every further control refused |
| `SupervisionProceeds` | a waiting supervisor has a client to poll, every poll lowers `PollsLeft`, nothing raises it |

The first invariant says that the jobs before the current one were decided by the
verdict they wanted, and that an answer of the prover is the one recorded for the
container that gave it, which is gone. The second follows each file (`Noticed`): once a native program has been
built from another text than the expected one, the file either still differs, and the last comparison finds
it, or was put back, and is `undone`.
`ControlsRefused` unfolds the agenda, whose length depends on the constants.
`SupervisionProceeds` is the same for the supervisor's loop: no edit, daemon, container or
fault sends it back.

### Only model-checked

* Liveness (`EveryCallAnswers`, `EveryInvocationEnds`, `EveryRunEnds`, `Recovers`,
  `SupervisedRunsEnd`): fairness and ENABLED are out of the prover's reach. Of all but
  `Recovers` the bounds above are proved; an operator may always begin another attempt, so there
  `MaxAttempts` is the only bound.
* That `MutualExclusion` fails is a counterexample of TLC, `lock_exclusion`.

## What is not modelled, and why

* The formatters, the command line, the configuration, the catalog's syntax walk,
  the interval forest, the local dependencies, the impact manifest and the score
  are sequential and keep no shared state: parsing and data, which the
  repository tests directly.
* The capture of a snapshot and a batch of processes are one step each in the
  modules that use them; what they promise is assumed there. Reports are replaced by
  the one process that holds the workspace lock.
* The candidate's archive, manifest and licence checks (`tools/release/src/candidate.rs`), the
  audit and the proposal of the next version compare data and stop at the first
  difference.
* The translators and contracts of `verification/` (`span.rs`, `contracts.rs` and their
  neighbours) are functions on text whose results Lean checks.
* The scripts, the vendored code and the fuzzing targets are not the program's logic.

Worth doing next, in this order: the shared cursor of a process batch refining one atomic
batch; the composition of a candidate's fetch with the phases of a publication.
