---------------------------- MODULE Publication ----------------------------
(***************************************************************************)
(* The publication controller of tools/release/src/publication.rs, run by  *)
(* .github/workflows/release-publish.yml for one version: the preflight    *)
(* plan, the draft phase (tag, draft release, assets), the registry        *)
(* readiness check, the hex and npm phases side by side, and the phase     *)
(* that publishes the draft.  Runs of one version are serial (the          *)
(* workflow's concurrency group); a run may be run again, its failed jobs  *)
(* or all of them, and another run may take over from it.                  *)
(*                                                                         *)
(* The state the jobs share is remote.  A write may be answered, refused,  *)
(* or unanswered: the job then fails, and the server may perform the write *)
(* at any later time or never.  A job may end at any point.  Other people  *)
(* may write to the same tag, releases and registries.  The list of        *)
(* releases may be behind; what is read by name or id (the tag, a release  *)
(* and its assets, a version) is current.                                  *)
(*                                                                         *)
(* Left out: credentials, approvals and the contexts a job checks about    *)
(* itself (they do not change within a run), the verification of the       *)
(* downloaded candidate (ReleaseCandidate models it), and the removal of   *)
(* tags, drafts, assets or versions by a person.                           *)
(***************************************************************************)
EXTENDS Naturals, FiniteSets

CONSTANTS
  Candidates,      \* verified candidates of the version
  Source,          \* of each candidate, the commit it was built from
  Sources,         \* commits a tag may name
  Archive,         \* of each registry and candidate, the archive's digest
  Names,           \* the assets a complete draft has
  Extra,           \* the name of an asset no candidate has
  None,            \* nothing is there
  Alien,           \* bytes that belong to no candidate
  MaxReleases,     \* bound: releases of the version's tag
  MaxRuns,         \* bound: dispatches of the workflow
  MaxAttempts,     \* bound: attempts of one run
  ReadbackChecks,  \* how often npm is read after an upload
  Faults,          \* bound: answers lost, jobs ended from outside, and
                   \* listings that do not show a release yet
  Foreign,         \* bound: writes that are not the controller's
  Patient          \* whether the operator follows docs/releasing.md

Registries == {"hex", "npm"}
Ids == 1..MaxReleases
Runs == 1..MaxRuns
Jobs == {"preflight", "draft", "ready", "hex", "npm", "finalize"}

ASSUME PublicationAssumption ==
  /\ Source \in [Candidates -> Sources]
  /\ None \notin Candidates \cup Sources /\ Alien \notin Candidates
  /\ Alien # None
  /\ \A g \in Registries, c \in Candidates :
       Archive[g][c] \notin {None, Alien}
  /\ Extra \notin Names /\ Names # {}
  /\ MaxReleases \in Nat /\ MaxRuns \in Nat /\ MaxAttempts \in Nat \ {0}
  /\ ReadbackChecks \in Nat \ {0}
  /\ Faults \in Nat /\ Foreign \in Nat
  /\ Patient \in BOOLEAN

VARIABLES
  tag,       \* the commit the version's tag names
  release,   \* of each release id: "none", "draft" or "published"
  asset,     \* of each release and asset name, whose bytes it holds
  held,      \* of each registry, the digest of the version's archive
  shown,     \* of each registry: "hidden", "metadata" or "public"
  inflight,  \* unanswered writes the server may still perform
  runs,      \* of each run: its inputs, attempt, job results and output
  active,    \* the run in progress, 0 if none
  at,        \* of each job of that run, the step it is about to take
  hand,      \* what the draft, npm or finalize job remembers
  faults,    \* how many more faults may happen
  aliens     \* how many more foreign writes may happen

server == <<tag, release, asset, held, shown>>
vars == <<tag, release, asset, held, shown, inflight, runs, active, at, hand,
          faults, aliens>>

\* Mutant of Needs: the release is published without the npm packages.
NeedsWithoutNpm ==
  [preflight |-> {}, draft |-> {"preflight"}, ready |-> {"draft"},
   hex |-> {"ready"}, npm |-> {"ready"}, finalize |-> {"draft", "hex"}]

Needs == [preflight |-> {}, draft |-> {"preflight"}, ready |-> {"draft"},
          hex |-> {"ready"}, npm |-> {"ready"},
          finalize |-> {"draft", "hex", "npm"}]

First == [preflight |-> "plan", draft |-> "select", ready |-> "plan-hex",
          hex |-> "plan", npm |-> "plan", finalize |-> "draft"]

Empty == [id |-> 0, pending |-> {}, checks |-> 0]
NoResult == [j \in Jobs |-> "todo"]
My == runs[active].candidate

Init ==
  /\ tag = None
  /\ release = [i \in Ids |-> "none"]
  /\ asset = [i \in Ids |-> [n \in Names \cup {Extra} |-> None]]
  /\ held = [g \in Registries |-> None]
  /\ shown = [g \in Registries |-> "hidden"]
  /\ inflight = {}
  /\ runs = [r \in Runs |-> [candidate |-> None, requested |-> 0,
                             attempt |-> 0, output |-> 0,
                             result |-> NoResult]]
  /\ active = 0
  /\ at = [j \in Jobs |-> "idle"]
  /\ hand = Empty
  /\ faults = Faults /\ aliens = Foreign

-----------------------------------------------------------------------------
(* What the controller reads *)

TagOf(c) == CASE tag = None      -> "missing"
              [] tag = Source[c] -> "matching"
              [] OTHER           -> "conflicting"

\* Mutant of Observe: a public version counts, whatever its archive holds.
ObserveVersionOnly(g, c) ==
  CASE shown[g] = "hidden"   -> "missing"
    [] shown[g] = "metadata" -> "error"
    [] shown[g] = "public"   -> "matching"

\* A version is read in two requests, metadata and archive.  Both only ever
\* appear, so reading them at once loses no outcome.
Observe(g, c) ==
  CASE shown[g] = "hidden"           -> "missing"
    [] shown[g] = "metadata"         -> "error"
    [] shown[g] = "public"           ->
         IF held[g] = Archive[g][c] THEN "matching" ELSE "conflicting"

\* Mutant of PlanWrite: what an earlier attempt wrote is not reused.
PlanWriteNeverReuse(existing) ==
  IF existing = "missing" THEN "create" ELSE "refuse"

PlanWrite(existing) ==
  CASE existing = "missing"  -> "create"
    [] existing = "matching" -> "reuse"
    [] OTHER                 -> "refuse"

Listed == {i \in Ids : release[i] # "none"}
Published == {i \in Ids : release[i] = "published"}

\* Mutant of Selectable: the releases of the tag are not listed.
SelectableRequestedOnly(q, seen) == IF q = 0 THEN {0} ELSE {q}

\* The release a draft phase works on: the requested one, or the only one of
\* the tag it has seen, if it is a draft; 0 when it has seen none.
Selectable(q, seen) ==
  LET found == IF q = 0 THEN seen ELSE {q}
  IN {i \in Ids \cup {0} :
        /\ found = IF i = 0 THEN {} ELSE {i}
        /\ i # 0 => release[i] = "draft"}

Missing(i) == {n \in Names : asset[i][n] = None}
Conflicts(i, c) == {n \in Names : asset[i][n] \notin {None, c}}
\* Mutant of Reconcilable: the digests are not compared.
ReconcilableByName(i, c) == asset[i][Extra] = None

Reconcilable(i, c) == asset[i][Extra] = None /\ Conflicts(i, c) = {}
Reconciled(i, c) == Reconcilable(i, c) /\ Missing(i) = {}

\* The latest draft job of the run, in whatever attempt, succeeded.
CompletedPreparation == runs[active].result["draft"] = "success"

RegistryPlan(g, c) ==
  IF TagOf(c) = "matching" /\ CompletedPreparation
  THEN PlanWrite(Observe(g, c))
  ELSE "refuse"

CanFinalize(c) ==
  /\ TagOf(c) = "matching"
  /\ \A g \in Registries : Observe(g, c) = "matching"

-----------------------------------------------------------------------------
(* What the servers do with a write *)

CreateTag(c) == [op |-> "tag", candidate |-> c]
CreateRelease(r) == [op |-> "release", run |-> r, attempt |-> runs[r].attempt]
UploadAsset(i, n, c) ==
  [op |-> "asset", id |-> i, name |-> n, candidate |-> c]
PublishArchive(g, c) == [op |-> "archive", registry |-> g, candidate |-> c]
Undraft(i, c) == [op |-> "undraft", id |-> i, candidate |-> c]

NextId == CHOOSE i \in Ids : release[i] = "none"

\* A protected tag is created once, an asset name, a registry version and the
\* published release of a tag are taken once, a published release is frozen.
Accepts(w) ==
  CASE w.op = "tag"     -> tag = None
    [] w.op = "release" -> Listed # Ids
    [] w.op = "asset"   -> /\ release[w.id] = "draft"
                           /\ asset[w.id][w.name] = None
    [] w.op = "archive" -> held[w.registry] = None
    [] w.op = "undraft" -> Published \subseteq {w.id}

Apply(w) ==
  /\ tag' = IF w.op = "tag" THEN Source[w.candidate] ELSE tag
  /\ release' = CASE w.op = "release" -> [release EXCEPT ![NextId] = "draft"]
                  [] w.op = "undraft" -> [release EXCEPT ![w.id] = "published"]
                  [] OTHER            -> release
  /\ asset' = IF w.op = "asset"
              THEN [asset EXCEPT ![w.id][w.name] = w.candidate] ELSE asset
  /\ held' = IF w.op = "archive"
             THEN [held EXCEPT ![w.registry] = Archive[w.registry][w.candidate]]
             ELSE held
  /\ UNCHANGED shown

Answered(w) == Accepts(w) /\ Apply(w) /\ UNCHANGED <<inflight, faults, aliens>>

Deliver ==
  \E w \in inflight :
    /\ inflight' = inflight \ {w}
    /\ \/ Accepts(w) /\ Apply(w)
       \/ ~Accepts(w) /\ UNCHANGED server
    /\ UNCHANGED <<runs, active, at, hand, faults, aliens>>

\* An accepted version becomes readable in two steps.
Expose(g) ==
  /\ held[g] # None
  /\ \/ shown[g] = "hidden" /\ shown' = [shown EXCEPT ![g] = "metadata"]
     \/ shown[g] = "metadata" /\ shown' = [shown EXCEPT ![g] = "public"]
  /\ UNCHANGED <<tag, release, asset, held, inflight, runs, active, at, hand,
                 faults, aliens>>

\* Somebody else writes the tag, a draft, an asset or a version.
ForeignWrite ==
  /\ aliens > 0 /\ aliens' = aliens - 1
  /\ \/ /\ tag = None /\ \E s \in Sources : tag' = s
        /\ UNCHANGED <<release, asset, held, shown>>
     \/ /\ Listed # Ids
        /\ release' = [release EXCEPT ![NextId] = "draft"]
        /\ UNCHANGED <<tag, asset, held, shown>>
     \/ \E i \in Ids, n \in Names \cup {Extra} :
          /\ release[i] = "draft" /\ asset[i][n] = None
          /\ asset' = [asset EXCEPT ![i][n] = Alien]
          /\ UNCHANGED <<tag, release, held, shown>>
     \/ \E g \in Registries :
          /\ held[g] = None
          /\ held' = [held EXCEPT ![g] = Alien]
          /\ shown' = [shown EXCEPT ![g] = "public"]
          /\ UNCHANGED <<tag, release, asset>>
  /\ UNCHANGED <<inflight, runs, active, at, hand, faults>>

-----------------------------------------------------------------------------
(* The jobs of a run *)

Go(j, step) == at' = [at EXCEPT ![j] = step] /\ UNCHANGED <<runs, active>>

End(j, result) ==
  /\ at' = [at EXCEPT ![j] = "idle"]
  /\ runs' = [runs EXCEPT ![active].result[j] = result]
  /\ hand' = IF j = "hex" THEN hand ELSE Empty
  /\ UNCHANGED active

Fail(j) == End(j, "failure")

Proceed(j, ok, step) ==
  IF ok THEN Go(j, step) /\ UNCHANGED hand ELSE Fail(j)

\* A step that only reads, with its continuation.
Reads == UNCHANGED <<server, inflight, faults, aliens>>

Startable(j) ==
  /\ at[j] = "idle" /\ runs[active].result[j] = "todo"
  /\ \A n \in Needs[j] : runs[active].result[n] = "success"

Start(j) ==
  /\ active # 0 /\ Startable(j)
  /\ Go(j, First[j]) /\ UNCHANGED hand /\ Reads

\* Nothing runs and nothing can start: what is left is skipped.
Conclude ==
  /\ active # 0
  /\ \A j \in Jobs : at[j] = "idle" /\ ~Startable(j)
  /\ active' = 0
  /\ UNCHANGED <<runs, at, hand>> /\ Reads

Unopposed ==
  /\ TagOf(My) # "conflicting"
  /\ \A g \in Registries : PlanWrite(Observe(g, My)) # "refuse"

\* The plan's read-only token sees published releases only, so a listed
\* release is refused by require_draft.
Preflight ==
  /\ at["preflight"] = "plan"
  /\ IF Published = {} /\ Unopposed
     THEN End("preflight", "success") ELSE Fail("preflight")
  /\ Reads

Select(seen) ==
  LET found == Selectable(runs[active].requested, seen)
  IN  /\ at["draft"] = "select"
      /\ \/ \E i \in found : hand' = [hand EXCEPT !.id = i] /\ Go("draft", "tag")
         \/ found = {} /\ Fail("draft")

SelectDraft == Select(Listed) /\ Reads

\* acquire_draft_from: the selected draft is kept, or one is created.
AfterTag == IF hand.id = 0 THEN "post-release" ELSE "hold"

PlanTag ==
  /\ at["draft"] = "tag"
  /\ \/ TagOf(My) = "missing" /\ Go("draft", "post-tag") /\ UNCHANGED hand
     \/ TagOf(My) = "matching" /\ Go("draft", "confirm") /\ UNCHANGED hand
     \/ TagOf(My) = "conflicting" /\ Fail("draft")
  /\ Reads

PostTag ==
  /\ at["draft"] = "post-tag"
  /\ Answered(CreateTag(My))
  /\ Go("draft", "confirm") /\ UNCHANGED hand

\* The tag is read again, created or not.
ConfirmTag ==
  /\ at["draft"] = "confirm"
  /\ Proceed("draft", TagOf(My) = "matching", AfterTag)
  /\ Reads

PostRelease ==
  /\ at["draft"] = "post-release"
  /\ Answered(CreateRelease(active))
  /\ hand' = [hand EXCEPT !.id = NextId] /\ Go("draft", "hold")

HoldTag ==
  /\ at["draft"] = "hold"
  /\ Proceed("draft", TagOf(My) = "matching", "inventory")
  /\ Reads

\* Every conflict is found before the first upload.
Inventory ==
  /\ at["draft"] = "inventory"
  /\ \/ /\ Reconcilable(hand.id, My)
        /\ hand' = [hand EXCEPT !.pending = Missing(hand.id)]
        /\ Go("draft", "upload")
     \/ ~Reconcilable(hand.id, My) /\ Fail("draft")
  /\ Reads

Upload ==
  /\ at["draft"] = "upload"
  /\ \E n \in hand.pending :
       /\ Answered(UploadAsset(hand.id, n, My))
       /\ hand' = [hand EXCEPT !.pending = @ \ {n}]
  /\ Go("draft", "upload")

\* The upload breaks off: the server keeps an incomplete asset.
TruncatedUpload ==
  /\ at["draft"] = "upload" /\ aliens > 0 /\ aliens' = aliens - 1
  /\ \E n \in hand.pending :
       /\ Accepts(UploadAsset(hand.id, n, My))
       /\ asset' = [asset EXCEPT ![hand.id][n] = Alien]
  /\ Fail("draft")
  /\ UNCHANGED <<tag, release, held, shown, inflight, faults>>

VerifyDraft ==
  /\ at["draft"] = "upload" /\ hand.pending = {}
  /\ \/ /\ Reconciled(hand.id, My)
        /\ at' = [at EXCEPT !["draft"] = "idle"]
        /\ runs' = [runs EXCEPT ![active].result["draft"] = "success",
                                ![active].output = hand.id]
        /\ hand' = Empty /\ UNCHANGED active
     \/ ~Reconciled(hand.id, My) /\ Fail("draft")
  /\ Reads

RegistryReady ==
  /\ \/ /\ at["ready"] = "plan-hex"
        /\ Proceed("ready", RegistryPlan("hex", My) # "refuse", "plan-npm")
     \/ /\ at["ready"] = "plan-npm"
        /\ End("ready", IF RegistryPlan("npm", My) = "refuse"
                        THEN "failure" ELSE "success")
  /\ Reads

PlanRegistry(g) ==
  /\ at[g] = "plan"
  /\ LET plan == RegistryPlan(g, My)
     IN \/ plan = "create" /\ Go(g, "post") /\ UNCHANGED hand
        \/ plan = "reuse" /\ End(g, "success")
        \/ plan = "refuse" /\ Fail(g)
  /\ Reads

PostArchive(g) ==
  /\ at[g] = "post"
  /\ Answered(PublishArchive(g, My))
  /\ hand' = IF g = "npm" THEN [hand EXCEPT !.checks = 1] ELSE hand
  /\ Go(g, "readback")

HexReadback ==
  /\ at["hex"] = "readback"
  /\ End("hex", IF Observe("hex", My) = "matching"
                THEN "success" ELSE "failure")
  /\ Reads

\* await_matching: only a missing version is read again.
NpmReadback ==
  /\ at["npm"] = "readback"
  /\ LET seen == Observe("npm", My)
     IN \/ /\ seen = "missing" /\ hand.checks < ReadbackChecks
           /\ hand' = [hand EXCEPT !.checks = @ + 1] /\ Go("npm", "readback")
        \/ seen = "matching" /\ End("npm", "success")
        \/ /\ seen # "matching"
           /\ seen = "missing" => hand.checks = ReadbackChecks
           /\ Fail("npm")
  /\ Reads

InspectDraft ==
  /\ at["finalize"] = "draft"
  /\ LET i == runs[active].output
     IN \/ /\ TagOf(My) = "matching" /\ release[i] = "draft"
           /\ hand' = [hand EXCEPT !.id = i] /\ Go("finalize", "assets")
        \/ ~(TagOf(My) = "matching" /\ release[i] = "draft")
           /\ Fail("finalize")
  /\ Reads

InspectAssets ==
  /\ at["finalize"] = "assets"
  /\ Proceed("finalize", Reconciled(hand.id, My), "gate")
  /\ Reads

FinalGate ==
  /\ at["finalize"] = "gate"
  /\ Proceed("finalize", CanFinalize(My), "patch")
  /\ Reads

PublishRelease ==
  /\ at["finalize"] = "patch"
  /\ Answered(Undraft(hand.id, My))
  /\ Go("finalize", "published") /\ UNCHANGED hand

\* Mutant of ConfirmRelease: the assets are not read again.
ConfirmReleaseUnread ==
  /\ at["finalize"] = "published"
  /\ End("finalize", IF release[hand.id] = "published" /\ TagOf(My) = "matching"
                     THEN "success" ELSE "failure")
  /\ Reads

ConfirmRelease ==
  /\ at["finalize"] = "published"
  /\ End("finalize",
         IF /\ release[hand.id] = "published" /\ TagOf(My) = "matching"
            /\ Reconciled(hand.id, My)
         THEN "success" ELSE "failure")
  /\ Reads

\* The writes a job may be about to send.
Writing(j) ==
  CASE j = "draft" /\ at[j] = "post-tag"     -> {CreateTag(My)}
    [] j = "draft" /\ at[j] = "post-release" -> {CreateRelease(active)}
    [] j = "draft" /\ at[j] = "upload"       ->
         {UploadAsset(hand.id, n, My) : n \in hand.pending}
    [] j \in Registries /\ at[j] = "post"    -> {PublishArchive(j, My)}
    [] j = "finalize" /\ at[j] = "patch"     -> {Undraft(hand.id, My)}
    [] OTHER                                 -> {}

RefusedWrite(j) ==
  /\ \E w \in Writing(j) : ~Accepts(w)
  /\ Fail(j) /\ Reads

UnansweredWrite(j) ==
  /\ faults > 0 /\ faults' = faults - 1
  /\ \E w \in Writing(j) : inflight' = inflight \cup {w}
  /\ Fail(j) /\ UNCHANGED <<server, aliens>>

\* The runner is lost, the job is cancelled or its time is over.
EndedFromOutside(j) ==
  /\ at[j] # "idle" /\ faults > 0 /\ faults' = faults - 1
  /\ Fail(j) /\ UNCHANGED <<server, inflight, aliens>>

\* The list of releases is a read of its own, which need not show yet what an
\* answered creation or publication has made.
LaggingPreflight ==
  /\ at["preflight"] = "plan" /\ faults > 0 /\ faults' = faults - 1
  /\ Published # {} /\ Unopposed
  /\ End("preflight", "success")
  /\ UNCHANGED <<server, inflight, aliens>>

LaggingSelect ==
  /\ at["draft"] = "select" /\ runs[active].requested = 0
  /\ faults > 0 /\ faults' = faults - 1
  /\ \E seen \in SUBSET Listed \ {Listed} : Select(seen)
  /\ UNCHANGED <<server, inflight, aliens>>

-----------------------------------------------------------------------------
(* The operator *)

Dispatched == {r \in Runs : runs[r].candidate # None}
Ambiguous == \E i, k \in Listed : i # k
Stuck(r) == runs[r].result["draft"] # "success" /\ runs[r].requested = 0
            /\ Ambiguous

\* "Wait for the original version and archive, then rerun the failed jobs."
Settled ==
  /\ Published = {}
  /\ \A g \in Registries : held[g] # None => shown[g] = "public"

Dispatch(c, q) ==
  /\ active = 0
  /\ q # 0 => q \in Listed
  /\ Patient => /\ Settled
                /\ \/ Dispatched = {} /\ q = 0
                   \/ q # 0 /\ \E r \in Dispatched : Stuck(r)
  /\ \E r \in Runs :
       /\ r \notin Dispatched /\ 1..(r - 1) \subseteq Dispatched
       /\ runs' = [runs EXCEPT ![r] = [candidate |-> c, requested |-> q,
                                       attempt |-> 1, output |-> 0,
                                       result |-> NoResult]]
       /\ active' = r
  /\ UNCHANGED <<at, hand>> /\ Reads

Rerun(r, all) ==
  /\ active = 0 /\ r \in Dispatched /\ runs[r].attempt < MaxAttempts
  /\ all \/ \E j \in Jobs : runs[r].result[j] = "failure"
  /\ Patient => Settled /\ ~all /\ ~Stuck(r) /\ r + 1 \notin Dispatched
  /\ runs' = [runs EXCEPT
       ![r].attempt = @ + 1,
       ![r].result = [j \in Jobs |-> IF all \/ @[j] = "failure"
                                     THEN "todo" ELSE @[j]]]
  /\ active' = r
  /\ UNCHANGED <<at, hand>> /\ Reads

-----------------------------------------------------------------------------
RegistryStep(g) == PlanRegistry(g) \/ PostArchive(g)

Step(j) ==
  \/ Start(j)
  \/ j = "preflight" /\ Preflight
  \/ j = "draft" /\ (\/ SelectDraft \/ PlanTag \/ PostTag \/ ConfirmTag
                     \/ PostRelease \/ HoldTag \/ Inventory \/ Upload
                     \/ VerifyDraft)
  \/ j = "ready" /\ RegistryReady
  \/ j \in Registries /\ RegistryStep(j)
  \/ j = "hex" /\ HexReadback
  \/ j = "npm" /\ NpmReadback
  \/ j = "finalize" /\ (\/ InspectDraft \/ InspectAssets \/ FinalGate
                        \/ PublishRelease \/ ConfirmRelease)
  \/ RefusedWrite(j)

Operate ==
  \/ \E c \in Candidates, q \in Ids \cup {0} : Dispatch(c, q)
  \/ \E r \in Runs, all \in BOOLEAN : Rerun(r, all)

Fault ==
  \/ TruncatedUpload \/ LaggingPreflight \/ LaggingSelect
  \/ \E j \in Jobs : UnansweredWrite(j) \/ EndedFromOutside(j)

Next ==
  \/ \E j \in Jobs : Step(j)
  \/ Conclude \/ Operate \/ Fault
  \/ Deliver \/ ForeignWrite
  \/ \E g \in Registries : Expose(g)

Spec == Init /\ [][Next]_vars

\* Jobs are scheduled and answered or fail, registries show what they
\* accepted, and the operator acts.  A lost write need never be performed.
Fairness ==
  /\ \A j \in Jobs : WF_vars(Step(j))
  /\ WF_vars(Conclude)
  /\ WF_vars(Operate)
  /\ \A g \in Registries : WF_vars(Expose(g))

FairSpec == Spec /\ Fairness

-----------------------------------------------------------------------------
Steps == {"idle", "plan", "select", "tag", "post-tag", "confirm",
          "post-release", "hold", "inventory", "upload", "plan-hex",
          "plan-npm", "post", "readback", "draft", "assets", "gate",
          "patch", "published"}

RunRecord == [candidate : Candidates \cup {None}, requested : Ids \cup {0},
              attempt : 0..MaxAttempts, output : Ids \cup {0},
              result : [Jobs -> {"todo", "success", "failure"}]]

Writes ==
  [op : {"tag"}, candidate : Candidates]
  \cup [op : {"release"}, run : Runs, attempt : 0..MaxAttempts]
  \cup [op : {"asset"}, id : Ids, name : Names, candidate : Candidates]
  \cup [op : {"archive"}, registry : Registries, candidate : Candidates]
  \cup [op : {"undraft"}, id : Ids, candidate : Candidates]

\* The values the variables take, and that at most one of the jobs that use
\* `hand` is running: only hex shares its time with another job.
TypeOK ==
  /\ tag \in Sources \cup {None}
  /\ release \in [Ids -> {"none", "draft", "published"}]
  /\ asset \in [Ids -> [Names \cup {Extra} -> Candidates \cup {None, Alien}]]
  /\ DOMAIN held = Registries
  /\ shown \in [Registries -> {"hidden", "metadata", "public"}]
  /\ inflight \subseteq Writes
  /\ runs \in [Runs -> RunRecord]
  /\ active \in Runs \cup {0}
  /\ at \in [Jobs -> Steps]
  /\ hand \in [id : Ids \cup {0}, pending : SUBSET Names,
               checks : 0..ReadbackChecks]
  /\ faults \in 0..Faults /\ aliens \in 0..Foreign
  /\ \A j, k \in Jobs \ {"hex"} : at[j] # "idle" /\ at[k] # "idle" => j = k

\* The releases that hold every asset of a candidate, with its own bytes.
Complete(i, c) == \A n \in Names : asset[i][n] = c

\* A run whose last phase succeeded left what it claims, for good: the
\* release its draft phase verified is published with exactly its candidate's
\* assets, the tag names the candidate's source and both registries serve its
\* archives.  (publication.rs execute, Phase::Finalize)
FinishedReleaseExact ==
  \A r \in Runs : runs[r].result["finalize"] = "success" =>
    LET c == runs[r].candidate
        i == runs[r].output
    IN /\ release[i] = "published"
       /\ Complete(i, c) /\ asset[i][Extra] = None
       /\ tag = Source[c]
       /\ \A g \in Registries : Observe(g, c) = "matching"

\* An archive the controller put into a registry, which cannot be taken back,
\* has a complete release and the matching tag beside it, also when the upload
\* was answered late or by an earlier run.
\* (ADR verify-drafts-before-registry-publication)
RegistryFollowsDraft ==
  \A g \in Registries : held[g] \notin {None, Alien} =>
    \E c \in Candidates, i \in Ids :
      held[g] = Archive[g][c] /\ Complete(i, c) /\ tag = Source[c]

\* Every draft beyond the first is paid for by a lost answer, by a listing that
\* does not show yet what has been created, or by somebody else's write:
\* running jobs or runs again never makes more of them than that.
\* (create_draft, acquire_draft_from, release_from)
DraftsFollowFaults ==
  Cardinality(Listed) <= 1 + (Faults - faults) + (Foreign - aliens)

\* What the controller implements: one complete candidate is published once,
\* after its tag, its complete draft and both its archives.
\* (ADR preserve-confirmed-release-identities, can_finalize)
PublishedCandidate ==
  IF Published = {} THEN None
  ELSE IF \E c \in Candidates : \A i \in Published : Complete(i, c)
       THEN CHOOSE c \in Candidates : \A i \in Published : Complete(i, c)
       ELSE Alien

Promise == INSTANCE ReleasePromise WITH
  tagged <- tag,
  complete <- {c \in Candidates : \E i \in Ids : Complete(i, c)},
  archives <- held,
  published <- PublishedCandidate

PromiseKept == Promise!Spec

\* Whatever answers are lost and jobs end, an operator who waits for the
\* registries and runs the failed jobs again gets the release published, as
\* long as nobody else writes.  (docs/releasing.md, "Recovery")
Recovers == <>(Published # {})
=============================================================================
