------------------------- MODULE PublicationProofs -------------------------
(***************************************************************************)
(* Proofs about Publication: types, that an archive in a registry has its  *)
(* complete release and tag beside it, that a finished run left what it    *)
(* claims, that the controller keeps ReleasePromise, and that the drafts   *)
(* beyond the first follow from faults.                                    *)
(*                                                                         *)
(* The argument: whatever is written remotely stays (lemma Permanent).  A  *)
(* draft job that succeeded therefore leaves its tag and its complete      *)
(* release behind for good, and the order of the jobs carries that fact    *)
(* to every later write, also to one that is performed long after its job  *)
(* has gone.                                                               *)
(***************************************************************************)
EXTENDS Publication, FiniteSetTheorems, TLAPS

-----------------------------------------------------------------------------
(* The inductive invariant. *)

\* Nothing runs outside a run, and a run has a candidate.
RunsHaveCandidates ==
  /\ active = 0 => \A j \in Jobs : at[j] = "idle"
  /\ active # 0 => runs[active].candidate \in Candidates
  /\ \A r \in Runs : \A j \in Jobs :
       runs[r].result[j] # "todo" => runs[r].candidate \in Candidates

\* A job has run, or runs, only after everything it needs succeeded.
After(r, j) == \A n \in Needs[j] : runs[r].result[n] = "success"

JobsInOrder ==
  /\ \A r \in Runs, j \in Jobs : runs[r].result[j] # "todo" => After(r, j)
  /\ \A j \in Jobs : at[j] # "idle" =>
       runs[active].result[j] = "todo" /\ After(active, j)

Ready(i, c) == i \in Ids /\ c \in Candidates /\ tag = Source[c] /\ Complete(i, c)
Prepared(c) == \E i \in Ids : Ready(i, c)
Served(c) == \A g \in Registries : held[g] = Archive[g][c] /\ shown[g] = "public"

\* What the draft and finalize jobs hold in their hand, and what they read
\* before they went on, is so.
DraftHolds == at["draft"] \in {"hold", "inventory", "upload"} => hand.id \in Ids
DraftTagged == at["draft"] \in {"inventory", "upload"} => tag = Source[My]

FinalHolds ==
  at["finalize"] \in {"assets", "gate", "patch", "published"} =>
    hand.id = runs[active].output
FinalServed == at["finalize"] \in {"patch", "published"} => Served(My)

\* A draft job that succeeded left its tag and its complete release behind.
DraftsReady ==
  \A r \in Runs : runs[r].result["draft"] = "success" =>
    Ready(runs[r].output, runs[r].candidate)

\* A write the server may still perform does no harm when it does.
Harmless(w) ==
  /\ w \in Writes
  /\ w.op = "asset" => tag = Source[w.candidate]
  /\ w.op = "archive" => Prepared(w.candidate)
  /\ w.op = "undraft" => Ready(w.id, w.candidate) /\ Served(w.candidate)

WritesHarmless == \A w \in inflight : Harmless(w)

Inv ==
  /\ TypeOK /\ RunsHaveCandidates /\ JobsInOrder
  /\ DraftHolds /\ DraftTagged /\ FinalHolds /\ FinalServed
  /\ DraftsReady /\ WritesHarmless

-----------------------------------------------------------------------------
(* What a step does to the jobs. *)

Started(j) ==
  /\ active # 0 /\ Startable(j)
  /\ UNCHANGED <<runs, active>> /\ at' = [at EXCEPT ![j] = First[j]]

Moved(j, s) ==
  /\ at[j] # "idle" /\ s # "idle"
  /\ UNCHANGED <<runs, active>> /\ at' = [at EXCEPT ![j] = s]

Ended(j, x) ==
  /\ at[j] # "idle" /\ (j = "draft" => x = "failure")
  /\ at' = [at EXCEPT ![j] = "idle"]
  /\ runs' = [runs EXCEPT ![active].result[j] = x]
  /\ UNCHANGED active

DraftVerified ==
  /\ at["draft"] = "upload" /\ Reconciled(hand.id, My)
  /\ at' = [at EXCEPT !["draft"] = "idle"]
  /\ runs' = [runs EXCEPT ![active].result["draft"] = "success",
                          ![active].output = hand.id]
  /\ UNCHANGED <<active, server>>

JobStep(j) ==
  \/ Started(j)
  \/ \E s \in Steps : Moved(j, s)
  \/ \E x \in {"success", "failure"} : Ended(j, x)

Hands == [id : Ids \cup {0}, pending : SUBSET Names, checks : 0..ReadbackChecks]

\* Only hex shares its time with another job, and it leaves the hand alone.
HandStep(j) ==
  /\ hand' \in Hands
  /\ j = "hex" => hand' = hand
  /\ j = "draft" => DraftHolds' /\ DraftTagged'
  /\ j = "finalize" => FinalHolds' /\ FinalServed'

ControlStep ==
  \/ UNCHANGED <<runs, active, at, hand>>
  \/ \E j \in Jobs : JobStep(j) /\ HandStep(j)
  \/ DraftVerified /\ hand' \in Hands
  \/ /\ UNCHANGED hand
     /\ \/ Conclude
        \/ \E c \in Candidates, q \in Ids \cup {0} : Dispatch(c, q)
        \/ \E r \in Runs, all \in BOOLEAN : Rerun(r, all)

LEMMA TypesOfControl ==
  ASSUME TypeOK
  PROVE  /\ at \in [Jobs -> Steps] /\ hand \in Hands /\ Empty \in Hands
         /\ active \in Runs \cup {0} /\ runs \in [Runs -> RunRecord]
BY PublicationAssumption DEF TypeOK, Hands, Empty

LEMMA EndsAJob ==
  ASSUME TypeOK, NEW j \in Jobs, NEW x \in {"success", "failure"}, at[j] # "idle",
         j = "draft" => x = "failure", End(j, x)
  PROVE  JobStep(j) /\ HandStep(j)
<1>1. at'[j] = "idle" /\ hand' \in Hands /\ (j = "hex" => hand' = hand)
  BY TypesOfControl DEF End
<1>2. HandStep(j)
  BY <1>1 DEF HandStep, DraftHolds, DraftTagged, FinalHolds, FinalServed
<1>3. QED
  BY <1>2 DEF End, Ended, JobStep

LEMMA FailsAJob ==
  ASSUME TypeOK, NEW j \in Jobs, at[j] # "idle", Fail(j)
  PROVE  JobStep(j) /\ HandStep(j)
BY EndsAJob DEF Fail

LEMMA MovesAJob ==
  ASSUME NEW j \in Jobs, NEW s \in Steps \ {"idle"}, at[j] # "idle", Go(j, s)
  PROVE  JobStep(j)
BY DEF Go, Moved, JobStep

\* The steps before which a job has nothing to establish.
Free == Steps \ {"idle", "hold", "inventory", "upload",
                 "assets", "gate", "patch", "published"}

LEMMA GoesOn ==
  ASSUME TypeOK, NEW j \in Jobs, NEW s \in Free, at[j] # "idle", Go(j, s),
         hand' \in Hands, j = "hex" => hand' = hand
  PROVE  JobStep(j) /\ HandStep(j)
<1>1. at'[j] = s
  BY TypesOfControl DEF Go
<1>2. HandStep(j)
  BY <1>1 DEF HandStep, DraftHolds, DraftTagged, FinalHolds, FinalServed, Free
<1>3. QED
  BY <1>2, MovesAJob DEF Free

LEMMA WritingRuns ==
  ASSUME NEW j \in Jobs, NEW w \in Writing(j)
  PROVE  at[j] # "idle"
BY DEF Writing, Registries

\* The steps of the draft job, with what it holds and has read.
LEMMA DraftGoesOn ==
  ASSUME TypeOK, DraftHolds, DraftTagged, at["draft"] # "idle",
         NEW s \in Steps \ {"idle"}, Go("draft", s), hand' \in Hands,
         s \in {"hold", "inventory", "upload"} => hand'.id \in Ids,
         s \in {"inventory", "upload"} => tag' = Source[My]
  PROVE  JobStep("draft") /\ HandStep("draft")
<1>1. at'["draft"] = s /\ My' = My
  BY TypesOfControl DEF Go, Jobs, My
<1>2. HandStep("draft")
  BY <1>1 DEF HandStep, DraftHolds, DraftTagged
<1>3. QED
  BY <1>2, MovesAJob DEF Jobs

\* The draft the phase works on is chosen, whatever the list shows.
LEMMA SelectGoesOn ==
  ASSUME TypeOK, NEW seen, Select(seen)
  PROVE  JobStep("draft") /\ HandStep("draft")
<1> DEFINE found == Selectable(runs[active].requested, seen)
<1>1. hand \in Hands /\ "draft" \in Jobs /\ at["draft"] # "idle" /\ "tag" \in Free
  BY TypesOfControl DEF Hands, Jobs, Select, Free, Steps
<1>2. CASE Fail("draft")
  BY <1>1, <1>2, FailsAJob
<1>3. ASSUME NEW i \in found, hand' = [hand EXCEPT !.id = i], Go("draft", "tag")
      PROVE  JobStep("draft") /\ HandStep("draft")
  <2>1. hand' \in Hands
    BY <1>1, <1>3 DEF Selectable, Hands
  <2>2. QED
    BY <1>1, <1>3, <2>1, GoesOn
<1>4. QED
  BY <1>2, <1>3 DEF Select

LEMMA DraftSteps ==
  ASSUME TypeOK, DraftHolds, DraftTagged,
         \/ SelectDraft \/ PlanTag \/ PostTag \/ ConfirmTag \/ PostRelease
         \/ HoldTag \/ Inventory \/ Upload \/ VerifyDraft
  PROVE  ControlStep
<1> USE DEF Jobs
<1>1. /\ hand \in Hands /\ at \in [Jobs -> Steps] /\ Empty \in Hands
      /\ hand.id \in Ids \cup {0} /\ hand.pending \subseteq Names
  BY TypesOfControl DEF Hands
<1>2. CASE SelectDraft
  BY <1>2, SelectGoesOn DEF SelectDraft, ControlStep
<1>3. CASE PlanTag
  <2>1. CASE Fail("draft")
    BY <1>3, <2>1, FailsAJob DEF PlanTag, ControlStep
  <2>2. CASE Go("draft", "post-tag") /\ UNCHANGED hand
    BY <1>1, <1>3, <2>2, GoesOn DEF PlanTag, ControlStep, Steps, Free
  <2>3. CASE Go("draft", "confirm") /\ UNCHANGED hand
    BY <1>1, <1>3, <2>3, GoesOn DEF PlanTag, ControlStep, Steps, Free
  <2>4. QED
    BY <1>3, <2>1, <2>2, <2>3 DEF PlanTag
<1>4. CASE PostTag
  BY <1>1, <1>4, GoesOn DEF PostTag, ControlStep, Steps, Free
<1>5. CASE ConfirmTag
  <2>1. AfterTag = "hold" => hand.id \in Ids
    BY <1>1 DEF AfterTag
  <2>2. CASE Fail("draft")
    BY <1>5, <2>2, FailsAJob DEF ConfirmTag, ControlStep
  <2>3. CASE Go("draft", AfterTag) /\ UNCHANGED hand
    BY <1>1, <1>5, <2>1, <2>3, DraftGoesOn DEF ConfirmTag, ControlStep, Steps, AfterTag
  <2>4. QED
    BY <1>5, <2>2, <2>3 DEF ConfirmTag, Proceed
<1>6. CASE PostRelease
  <2>1. Listed # Ids
    BY <1>6 DEF PostRelease, Answered, Accepts, CreateRelease
  <2>2. NextId \in Ids
    BY <2>1 DEF Listed, NextId
  <2>3. hand' \in Hands /\ hand'.id \in Ids
    BY <1>1, <1>6, <2>2 DEF PostRelease, Hands
  <2>4. QED
    BY <1>6, <2>3, DraftGoesOn DEF PostRelease, ControlStep, Steps
<1>7. CASE HoldTag
  <2>1. CASE Fail("draft")
    BY <1>7, <2>1, FailsAJob DEF HoldTag, ControlStep
  <2>2. CASE TagOf(My) = "matching" /\ Go("draft", "inventory") /\ UNCHANGED hand
    <3>1. tag' = Source[My]
      BY <1>7, <2>2 DEF HoldTag, TagOf, Reads, server
    <3>2. hand.id \in Ids
      BY <1>7 DEF HoldTag, DraftHolds
    <3>3. QED
      BY <1>1, <1>7, <2>2, <3>1, <3>2, DraftGoesOn DEF HoldTag, ControlStep, Steps
  <2>3. QED
    BY <1>7, <2>1, <2>2 DEF HoldTag, Proceed
<1>8. CASE Inventory
  <2>1. CASE Fail("draft")
    BY <1>8, <2>1, FailsAJob DEF Inventory, ControlStep
  <2>2. CASE hand' = [hand EXCEPT !.pending = Missing(hand.id)] /\ Go("draft", "upload")
    <3>1. hand' \in Hands /\ hand'.id = hand.id
      BY <1>1, <2>2 DEF Hands, Missing
    <3>2. hand.id \in Ids /\ tag' = Source[My]
      BY <1>8 DEF Inventory, DraftHolds, DraftTagged, Reads, server
    <3>3. QED
      BY <1>8, <2>2, <3>1, <3>2, DraftGoesOn DEF Inventory, ControlStep, Steps
  <2>3. QED
    BY <1>8, <2>1, <2>2 DEF Inventory
<1>9. CASE Upload
  <2>1. PICK n \in hand.pending : /\ Answered(UploadAsset(hand.id, n, My))
                                  /\ hand' = [hand EXCEPT !.pending = @ \ {n}]
    BY <1>9 DEF Upload
  <2>2. hand' \in Hands /\ hand'.id = hand.id
    BY <1>1, <2>1 DEF Hands
  <2>3. hand.id \in Ids /\ tag' = Source[My]
    BY <1>9, <2>1 DEF Upload, DraftHolds, DraftTagged, Answered, Apply, UploadAsset
  <2>4. QED
    BY <1>9, <2>2, <2>3, DraftGoesOn DEF Upload, ControlStep, Steps
<1>10. CASE VerifyDraft
  <2>1. CASE Fail("draft")
    BY <1>10, <2>1, FailsAJob DEF VerifyDraft, ControlStep
  <2>2. CASE ~Fail("draft")
    BY <1>1, <1>10, <2>2 DEF VerifyDraft, ControlStep, DraftVerified, Reads
  <2>3. QED
    BY <2>1, <2>2
<1>11. QED
  BY <1>2, <1>3, <1>4, <1>5, <1>6, <1>7, <1>8, <1>9, <1>10

LEMMA FinalGoesOn ==
  ASSUME TypeOK, FinalHolds, at["finalize"] # "idle",
         NEW s \in Steps \ {"idle"}, Go("finalize", s), hand' \in Hands,
         hand'.id = runs[active].output,
         s \in {"patch", "published"} => Served(My)'
  PROVE  JobStep("finalize") /\ HandStep("finalize")
<1>1. at'["finalize"] = s /\ UNCHANGED <<runs, active>>
  BY TypesOfControl DEF Go, Jobs
<1>2. HandStep("finalize")
  BY <1>1 DEF HandStep, FinalHolds, FinalServed
<1>3. QED
  BY <1>2, MovesAJob DEF Jobs

LEMMA FinalSteps ==
  ASSUME TypeOK, RunsHaveCandidates, FinalHolds, FinalServed,
         InspectDraft \/ InspectAssets \/ FinalGate \/ PublishRelease \/ ConfirmRelease
  PROVE  ControlStep
<1> USE DEF Jobs
<1>1. hand \in Hands /\ at \in [Jobs -> Steps] /\ runs \in [Runs -> RunRecord]
  BY TypesOfControl
<1>2. CASE InspectDraft
  <2>1. CASE Fail("finalize")
    BY <1>2, <2>1, FailsAJob DEF InspectDraft, ControlStep
  <2>2. CASE /\ hand' = [hand EXCEPT !.id = runs[active].output]
             /\ Go("finalize", "assets") /\ active \in Runs
    <3>1. hand' \in Hands /\ hand'.id = runs[active].output
      BY <1>1, <2>2 DEF Hands, RunRecord
    <3>2. QED
      BY <1>2, <2>2, <3>1, FinalGoesOn DEF InspectDraft, ControlStep, Steps
  <2>3. active \in Runs
    BY <1>2, TypesOfControl DEF InspectDraft, RunsHaveCandidates
  <2>4. QED
    BY <1>2, <2>1, <2>2, <2>3 DEF InspectDraft
<1>3. CASE InspectAssets
  <2>1. CASE Fail("finalize")
    BY <1>3, <2>1, FailsAJob DEF InspectAssets, ControlStep
  <2>2. CASE Go("finalize", "gate") /\ UNCHANGED hand
    BY <1>1, <1>3, <2>2, FinalGoesOn DEF InspectAssets, FinalHolds, ControlStep, Steps
  <2>3. QED
    BY <1>3, <2>1, <2>2 DEF InspectAssets, Proceed
<1>4. CASE FinalGate
  <2>1. CASE Fail("finalize")
    BY <1>4, <2>1, FailsAJob DEF FinalGate, ControlStep
  <2>2. CASE CanFinalize(My) /\ Go("finalize", "patch") /\ UNCHANGED hand
    <3>1. Served(My)
      BY <1>4, <2>2 DEF FinalGate, CanFinalize, Observe, Served, TypeOK
    <3>2. Served(My)'
      BY <1>4, <2>2, <3>1 DEF FinalGate, Reads, server, Served, My, Go
    <3>3. QED
      BY <1>1, <1>4, <2>2, <3>2, FinalGoesOn DEF FinalGate, FinalHolds, ControlStep, Steps
  <2>3. QED
    BY <1>4, <2>1, <2>2 DEF FinalGate, Proceed
<1>5. CASE PublishRelease
  <2>1. Served(My)' /\ UNCHANGED hand /\ Go("finalize", "published")
    BY <1>5 DEF PublishRelease, FinalServed, Served, Answered, Apply, Undraft, My, Go
  <2>2. QED
    BY <1>1, <1>5, <2>1, FinalGoesOn DEF PublishRelease, FinalHolds, ControlStep, Steps
<1>6. CASE ConfirmRelease
  BY <1>6, EndsAJob DEF ConfirmRelease, ControlStep
<1>7. QED
  BY <1>2, <1>3, <1>4, <1>5, <1>6

LEMMA RegistrySteps ==
  ASSUME TypeOK,
         \/ Preflight \/ RegistryReady \/ HexReadback \/ NpmReadback
         \/ \E g \in Registries : RegistryStep(g)
  PROVE  ControlStep
<1> USE DEF Jobs
<1>1. hand \in Hands /\ at \in [Jobs -> Steps]
  BY TypesOfControl
<1>2. CASE Preflight
  BY <1>2, EndsAJob, FailsAJob DEF Preflight, ControlStep
<1>3. CASE RegistryReady
  BY <1>1, <1>3, GoesOn, EndsAJob, FailsAJob
     DEF RegistryReady, Proceed, ControlStep, Steps, Free
<1>4. CASE HexReadback
  BY <1>4, EndsAJob DEF HexReadback, ControlStep
<1>5. CASE NpmReadback
  <2>1. CASE hand' = [hand EXCEPT !.checks = @ + 1] /\ hand.checks < ReadbackChecks
             /\ Go("npm", "readback")
    <3>1. hand' \in Hands
      BY <1>1, <2>1, PublicationAssumption DEF Hands
    <3>2. QED
      BY <1>5, <2>1, <3>1, GoesOn DEF NpmReadback, ControlStep, Steps, Free
  <2>2. CASE End("npm", "success") \/ Fail("npm")
    BY <1>5, <2>2, EndsAJob, FailsAJob DEF NpmReadback, ControlStep
  <2>3. QED
    BY <1>5, <2>1, <2>2 DEF NpmReadback
<1>6. ASSUME NEW g \in Registries, PlanRegistry(g)
      PROVE  ControlStep
  BY <1>1, <1>6, GoesOn, EndsAJob, FailsAJob
     DEF PlanRegistry, ControlStep, Steps, Free, Registries
<1>7. ASSUME NEW g \in Registries, PostArchive(g)
      PROVE  ControlStep
  <2>1. hand' \in Hands /\ (g = "hex" => hand' = hand)
    BY <1>1, <1>7, PublicationAssumption DEF PostArchive, Hands
  <2>2. QED
    BY <1>7, <2>1, GoesOn DEF PostArchive, ControlStep, Steps, Free, Registries
<1>8. QED
  BY <1>2, <1>3, <1>4, <1>5, <1>6, <1>7 DEF RegistryStep

LEMMA NextIsControlStep ==
  ASSUME Inv, [Next]_vars
  PROVE  ControlStep
<1> USE DEF Inv
<1>1. ASSUME NEW j \in Jobs, Step(j)
      PROVE  ControlStep
  <2>1. CASE Start(j)
    <3>1. at' = [at EXCEPT ![j] = First[j]] /\ UNCHANGED hand /\ at \in [Jobs -> Steps]
      BY <2>1, TypesOfControl DEF Start, Go
    <3>2. HandStep(j)
      BY <3>1, TypesOfControl
         DEF HandStep, DraftHolds, DraftTagged, FinalHolds, FinalServed, First, Jobs
    <3>3. QED
      BY <2>1, <3>2 DEF Start, Started, JobStep, ControlStep, Go
  <2>2. CASE RefusedWrite(j)
    BY <2>2, WritingRuns, FailsAJob DEF RefusedWrite, ControlStep
  <2>3. QED
    BY <1>1, <2>1, <2>2, DraftSteps, FinalSteps, RegistrySteps DEF Step
<1>2. ASSUME NEW j \in Jobs, UnansweredWrite(j) \/ EndedFromOutside(j)
      PROVE  ControlStep
  BY <1>2, WritingRuns, FailsAJob DEF UnansweredWrite, EndedFromOutside, ControlStep
<1>3. CASE TruncatedUpload
  BY <1>3, FailsAJob DEF TruncatedUpload, ControlStep, Jobs
<1>4. CASE Conclude \/ Operate
  BY <1>4 DEF Operate, Conclude, Dispatch, Rerun, ControlStep
<1>5. CASE Deliver \/ ForeignWrite \/ \E g \in Registries : Expose(g)
  BY <1>5 DEF Deliver, ForeignWrite, Expose, ControlStep
<1>6. CASE UNCHANGED vars
  BY <1>6 DEF vars, ControlStep
<1>7. CASE LaggingPreflight
  BY <1>7, EndsAJob DEF LaggingPreflight, ControlStep, Jobs
<1>8. CASE LaggingSelect
  BY <1>8, SelectGoesOn DEF LaggingSelect, ControlStep, Jobs
<1>9. QED
  BY <1>1, <1>2, <1>3, <1>4, <1>5, <1>6, <1>7, <1>8 DEF Next, Fault

-----------------------------------------------------------------------------
(* What a step does to the servers. *)

Sent(w) == w \in inflight \/ \E j \in Jobs : w \in Writing(j)

Performed(w) == Sent(w) /\ Accepts(w) /\ Apply(w)

\* Bytes of no candidate, in a place that was free.
Spoiled ==
  \E i \in Ids, n \in Names \cup {Extra} :
    /\ release[i] = "draft" /\ asset[i][n] = None
    /\ asset' = [asset EXCEPT ![i][n] = Alien]
    /\ UNCHANGED <<tag, release, held, shown>>

Exposed ==
  \E g \in Registries :
    /\ held[g] # None /\ shown[g] # "public"
    /\ shown' \in {[shown EXCEPT ![g] = "metadata"], [shown EXCEPT ![g] = "public"]}
    /\ UNCHANGED <<tag, release, asset, held>>

Intruded ==
  \/ /\ tag = None /\ tag' \in Sources
     /\ UNCHANGED <<release, asset, held, shown>>
  \/ /\ Listed # Ids
     /\ release' = [release EXCEPT ![NextId] = "draft"]
     /\ UNCHANGED <<tag, asset, held, shown>>
  \/ \E g \in Registries :
       /\ held[g] = None
       /\ held' = [held EXCEPT ![g] = Alien]
       /\ shown' = [shown EXCEPT ![g] = "public"]
       /\ UNCHANGED <<tag, release, asset>>

ServerStep ==
  \/ UNCHANGED server
  \/ \E w : Performed(w)
  \/ Spoiled \/ Exposed \/ Intruded

LEMMA NextIsServerStep ==
  ASSUME TypeOK, DraftHolds, [Next]_vars
  PROVE  ServerStep
<1>1. ASSUME NEW j \in Jobs, Step(j)
      PROVE  ServerStep
  <2>1. CASE Start(j) \/ RefusedWrite(j)
    BY <2>1 DEF Start, RefusedWrite, Reads, ServerStep
  <2>2. CASE \/ Preflight \/ SelectDraft \/ PlanTag \/ ConfirmTag \/ HoldTag
             \/ Inventory \/ VerifyDraft \/ RegistryReady
    BY <2>2 DEF Preflight, SelectDraft, PlanTag, ConfirmTag, HoldTag, Inventory,
                VerifyDraft, RegistryReady, Reads, ServerStep
  <2>3. CASE HexReadback \/ NpmReadback \/ InspectDraft \/ InspectAssets
             \/ FinalGate \/ ConfirmRelease
    BY <2>3 DEF HexReadback, NpmReadback, InspectDraft, InspectAssets, FinalGate,
                ConfirmRelease, Reads, ServerStep
  <2>4. CASE PostTag
    <3>1. CreateTag(My) \in Writing("draft")
      BY <2>4 DEF PostTag, Writing
    <3>2. QED
      BY <3>1, <2>4 DEF PostTag, Answered, ServerStep, Performed, Sent, Jobs
  <2>5. CASE PostRelease
    <3>1. CreateRelease(active) \in Writing("draft")
      BY <2>5 DEF PostRelease, Writing
    <3>2. QED
      BY <3>1, <2>5 DEF PostRelease, Answered, ServerStep, Performed, Sent, Jobs
  <2>6. CASE Upload
    <3>1. PICK n \in hand.pending : Answered(UploadAsset(hand.id, n, My))
      BY <2>6 DEF Upload
    <3>2. UploadAsset(hand.id, n, My) \in Writing("draft")
      BY <2>6 DEF Upload, Writing
    <3>3. QED
      BY <3>1, <3>2 DEF Answered, ServerStep, Performed, Sent, Jobs
  <2>7. ASSUME NEW g \in Registries, PostArchive(g)
        PROVE  ServerStep
    <3>1. PublishArchive(g, My) \in Writing(g) /\ g \in Jobs
      BY <2>7 DEF PostArchive, Writing, Registries, Jobs
    <3>2. QED
      BY <3>1, <2>7 DEF PostArchive, Answered, ServerStep, Performed, Sent
  <2>8. ASSUME NEW g \in Registries, PlanRegistry(g)
        PROVE  ServerStep
    BY <2>8 DEF PlanRegistry, Reads, ServerStep
  <2>9. CASE PublishRelease
    <3>1. Undraft(hand.id, My) \in Writing("finalize")
      BY <2>9 DEF PublishRelease, Writing, Registries
    <3>2. QED
      BY <3>1, <2>9 DEF PublishRelease, Answered, ServerStep, Performed, Sent, Jobs
  <2>10. QED
    BY <1>1, <2>1, <2>2, <2>3, <2>4, <2>5, <2>6, <2>7, <2>8, <2>9 DEF Step, RegistryStep
<1>2. ASSUME \/ \E j \in Jobs : UnansweredWrite(j) \/ EndedFromOutside(j)
             \/ LaggingPreflight \/ LaggingSelect
      PROVE  ServerStep
  BY <1>2 DEF UnansweredWrite, EndedFromOutside, LaggingPreflight, LaggingSelect,
              ServerStep
<1>3. CASE TruncatedUpload
  <2>1. PICK n \in hand.pending :
          /\ Accepts(UploadAsset(hand.id, n, My))
          /\ asset' = [asset EXCEPT ![hand.id][n] = Alien]
    BY <1>3 DEF TruncatedUpload
  <2>2. hand.id \in Ids /\ n \in Names
    BY <1>3 DEF TruncatedUpload, TypeOK, DraftHolds
  <2>3. release[hand.id] = "draft" /\ asset[hand.id][n] = None
    BY <2>1 DEF Accepts, UploadAsset
  <2>4. QED
    BY <1>3, <2>1, <2>2, <2>3 DEF TruncatedUpload, Spoiled, ServerStep
<1>4. CASE Conclude \/ Operate
  BY <1>4 DEF Conclude, Operate, Dispatch, Rerun, Reads, ServerStep
<1>5. CASE Deliver
  <2>1. PICK w \in inflight : \/ Accepts(w) /\ Apply(w)
                              \/ UNCHANGED server
    BY <1>5 DEF Deliver
  <2>2. QED
    BY <2>1 DEF ServerStep, Performed, Sent
<1>6. CASE ForeignWrite
  BY <1>6 DEF ForeignWrite, ServerStep, Spoiled, Intruded
<1>7. ASSUME NEW g \in Registries, Expose(g)
      PROVE  ServerStep
  BY <1>7 DEF Expose, ServerStep, Exposed
<1>8. CASE UNCHANGED vars
  BY <1>8 DEF vars, server, ServerStep
<1>9. QED
  BY <1>1, <1>2, <1>3, <1>4, <1>5, <1>6, <1>7, <1>8 DEF Next, Fault

\* The kinds of writes, with the fields each has.
LEMMA WriteKinds ==
  ASSUME NEW w \in Writes
  PROVE  \/ w.op = "tag" /\ w.candidate \in Candidates
         \/ w.op = "release"
         \/ w.op = "asset" /\ w.id \in Ids /\ w.name \in Names /\ w.candidate \in Candidates
         \/ w.op = "archive" /\ w.registry \in Registries /\ w.candidate \in Candidates
         \/ w.op = "undraft" /\ w.id \in Ids /\ w.candidate \in Candidates
BY DEF Writes

LEMMA NextIdIsFree ==
  ASSUME Listed # Ids
  PROVE  NextId \in Ids /\ release[NextId] = "none"
BY DEF Listed, NextId

\* The type of what the servers hold.
ServerTypeOK ==
  /\ tag \in Sources \cup {None}
  /\ release \in [Ids -> {"none", "draft", "published"}]
  /\ asset \in [Ids -> [Names \cup {Extra} -> Candidates \cup {None, Alien}]]
  /\ DOMAIN held = Registries
  /\ shown \in [Registries -> {"hidden", "metadata", "public"}]

\* What is written stays: the tag, an asset, an archive and its visibility,
\* a published release and all its assets.
Permanent ==
  /\ tag # None => tag' = tag
  /\ \A i \in Ids, n \in Names \cup {Extra} :
       asset[i][n] # None => asset'[i][n] = asset[i][n]
  /\ \A g \in Registries : held[g] # None => held'[g] = held[g]
  /\ \A g \in Registries : held[g] # None /\ shown[g] = "public" => shown'[g] = "public"
  /\ \A i \in Ids : release[i] = "published" =>
       release'[i] = "published" /\ asset'[i] = asset[i]

Wrote(i, n, b) ==
  \A k \in Ids, m \in Names \cup {Extra} :
    asset'[k][m] = IF k = i /\ m = n THEN b ELSE asset[k][m]

\* One asset is written in a place of a draft that was free.
LEMMA AssetWritten ==
  ASSUME ServerTypeOK,
         NEW i \in Ids, NEW n \in Names \cup {Extra}, NEW b \in Candidates \cup {Alien},
         release[i] = "draft", asset[i][n] = None,
         asset' = [asset EXCEPT ![i][n] = b], UNCHANGED <<tag, release, held, shown>>
  PROVE  ServerTypeOK' /\ Permanent /\ Wrote(i, n, b)
<1>1. asset' = [asset EXCEPT ![i] = [asset[i] EXCEPT ![n] = b]]
  OBVIOUS
<1>2. /\ asset'[i] = [asset[i] EXCEPT ![n] = b]
      /\ \A k \in Ids : k # i => asset'[k] = asset[k]
  BY <1>1 DEF ServerTypeOK
<1>3. \A m \in Names \cup {Extra} : asset'[i][m] = IF m = n THEN b ELSE asset[i][m]
  BY <1>2 DEF ServerTypeOK
<1>4. asset'[i] \in [Names \cup {Extra} -> Candidates \cup {None, Alien}]
  BY <1>2 DEF ServerTypeOK
<1>5. ServerTypeOK'
  BY <1>1, <1>4, <1>2 DEF ServerTypeOK
<1>6. Wrote(i, n, b)
  BY <1>2, <1>3 DEF Wrote
<1>7. Permanent
  BY <1>2, <1>6 DEF Permanent, Wrote
<1>8. QED
  BY <1>5, <1>6, <1>7

LEMMA ServerStepPermanent ==
  ASSUME ServerTypeOK, ServerStep, \A w : Sent(w) => w \in Writes
  PROVE  ServerTypeOK' /\ Permanent
<1> USE PublicationAssumption
<1>1. CASE UNCHANGED server
  BY <1>1 DEF server, ServerTypeOK, Permanent
<1>2. ASSUME NEW w, Performed(w)
      PROVE  ServerTypeOK' /\ Permanent
  <2>1. w \in Writes
    BY <1>2 DEF Performed
  <2>2. CASE w.op = "tag" /\ w.candidate \in Candidates
    <3>1. tag = None /\ tag' = Source[w.candidate]
          /\ UNCHANGED <<release, asset, held, shown>>
      BY <1>2, <2>2 DEF Performed, Accepts, Apply
    <3>2. QED
      BY <3>1, <2>2 DEF ServerTypeOK, Permanent
  <2>3. CASE w.op = "release"
    <3>1. Listed # Ids /\ release' = [release EXCEPT ![NextId] = "draft"]
          /\ UNCHANGED <<tag, asset, held, shown>>
      BY <1>2, <2>3 DEF Performed, Accepts, Apply
    <3>2. QED
      BY <3>1, NextIdIsFree DEF ServerTypeOK, Permanent
  <2>4. CASE w.op = "asset" /\ w.id \in Ids /\ w.name \in Names /\ w.candidate \in Candidates
    <3>1. /\ release[w.id] = "draft" /\ asset[w.id][w.name] = None
          /\ asset' = [asset EXCEPT ![w.id][w.name] = w.candidate]
          /\ UNCHANGED <<tag, release, held, shown>>
      BY <1>2, <2>4 DEF Performed, Accepts, Apply
    <3>2. QED
      BY <3>1, <2>4, AssetWritten
  <2>5. CASE w.op = "archive" /\ w.registry \in Registries /\ w.candidate \in Candidates
    <3>1. /\ held[w.registry] = None
          /\ held' = [held EXCEPT ![w.registry] = Archive[w.registry][w.candidate]]
          /\ UNCHANGED <<tag, release, asset, shown>>
      BY <1>2, <2>5 DEF Performed, Accepts, Apply
    <3>2. QED
      BY <3>1, <2>5 DEF ServerTypeOK, Permanent
  <2>6. CASE w.op = "undraft" /\ w.id \in Ids
    <3>1. release' = [release EXCEPT ![w.id] = "published"]
          /\ UNCHANGED <<tag, asset, held, shown>>
      BY <1>2, <2>6 DEF Performed, Accepts, Apply
    <3>2. QED
      BY <3>1, <2>6 DEF ServerTypeOK, Permanent
  <2>7. QED
    BY <2>1, <2>2, <2>3, <2>4, <2>5, <2>6, WriteKinds
<1>3. CASE Spoiled
  <2>1. PICK i \in Ids, n \in Names \cup {Extra} :
          /\ release[i] = "draft" /\ asset[i][n] = None
          /\ asset' = [asset EXCEPT ![i][n] = Alien]
          /\ UNCHANGED <<tag, release, held, shown>>
    BY <1>3 DEF Spoiled
  <2>2. QED
    BY <2>1, AssetWritten
<1>4. CASE Exposed
  BY <1>4 DEF Exposed, ServerTypeOK, Permanent
<1>5. CASE Intruded
  BY <1>5, NextIdIsFree DEF Intruded, ServerTypeOK, Permanent
<1>6. QED
  BY <1>1, <1>2, <1>3, <1>4, <1>5 DEF ServerStep

-----------------------------------------------------------------------------
(* The order of the jobs. *)

Exclusive ==
  \A j, k \in Jobs \ {"hex"} : at[j] # "idle" /\ at[k] # "idle" => j = k

\* The jobs that share the hand come one after the other.
LEMMA OrderExcludes ==
  ASSUME NEW res, NEW pos,
         \A j \in Jobs : res[j] # "todo" => \A n \in Needs[j] : res[n] = "success",
         \A j \in Jobs : pos[j] # "idle" =>
           res[j] = "todo" /\ \A n \in Needs[j] : res[n] = "success"
  PROVE  \A j, k \in Jobs \ {"hex"} : pos[j] # "idle" /\ pos[k] # "idle" => j = k
<1>1. /\ res["finalize"] # "todo" \/ pos["finalize"] # "idle" => res["npm"] = "success"
      /\ res["npm"] # "todo" \/ pos["npm"] # "idle" => res["ready"] = "success"
      /\ res["ready"] # "todo" \/ pos["ready"] # "idle" => res["draft"] = "success"
      /\ res["draft"] # "todo" \/ pos["draft"] # "idle" => res["preflight"] = "success"
  BY DEF Needs, Jobs
<1>2. QED
  BY <1>1 DEF Jobs

ControlOK ==
  /\ runs \in [Runs -> RunRecord]
  /\ active \in Runs \cup {0}
  /\ at \in [Jobs -> Steps]
  /\ RunsHaveCandidates /\ JobsInOrder

LEMMA ControlExcludes == (ControlOK => Exclusive) /\ (ControlOK' => Exclusive')
<1>1. ControlOK => Exclusive
  <2>1. CASE active = 0
    BY <2>1 DEF ControlOK, RunsHaveCandidates, Exclusive
  <2>2. CASE active \in Runs /\ ControlOK
    BY <2>2, OrderExcludes DEF ControlOK, JobsInOrder, After, Exclusive
  <2>3. QED
    BY <2>1, <2>2 DEF ControlOK
<1>2. ControlOK' => Exclusive'
  <2>1. CASE active' = 0
    BY <2>1 DEF ControlOK, RunsHaveCandidates, Exclusive
  <2>2. CASE active' \in Runs /\ ControlOK'
    BY <2>2, OrderExcludes DEF ControlOK, JobsInOrder, After, Exclusive
  <2>3. QED
    BY <2>1, <2>2 DEF ControlOK
<1>3. QED
  BY <1>1, <1>2

\* A registry or finalize job runs only after the draft job of its run.
LEMMA AfterTheDraft ==
  ASSUME Inv, NEW j \in {"hex", "npm", "finalize"}, at[j] # "idle"
  PROVE  /\ active \in Runs /\ runs[active].result["draft"] = "success"
         /\ Ready(runs[active].output, My)
<1>1. active \in Runs
  BY TypesOfControl DEF Inv, RunsHaveCandidates, Jobs
<1>2. After(active, j)
  BY DEF Inv, JobsInOrder, Jobs
<1>3. CASE j = "finalize"
  BY <1>1, <1>2, <1>3 DEF After, Needs, Inv, DraftsReady, My
<1>4. CASE j \in {"hex", "npm"}
  <2>1. runs[active].result["ready"] = "success"
    BY <1>2, <1>4 DEF After, Needs
  <2>2. After(active, "ready")
    BY <1>1, <2>1 DEF Inv, JobsInOrder, Jobs
  <2>3. QED
    BY <1>1, <2>2 DEF After, Needs, Inv, DraftsReady, My
<1>5. QED
  BY <1>3, <1>4

\* A job of the active run ends with a result.
LEMMA ResultWritten ==
  ASSUME ControlOK, active \in Runs, active' = active,
         NEW j \in Jobs, NEW x \in {"success", "failure"}, NEW rec \in RunRecord,
         rec.candidate = runs[active].candidate,
         rec.result = [runs[active].result EXCEPT ![j] = x],
         at[j] # "idle", at' = [at EXCEPT ![j] = "idle"],
         runs' = [runs EXCEPT ![active] = rec]
  PROVE  ControlOK'
<1> DEFINE old == runs[active].result
           new == runs'[active].result
<1>1. runs' \in [Runs -> RunRecord] /\ at' \in [Jobs -> Steps] /\ active' \in Runs
  BY DEF ControlOK, Steps
<1>2. /\ \A r \in Runs : r # active => runs'[r] = runs[r]
      /\ runs'[active].candidate = runs[active].candidate
      /\ new = [old EXCEPT ![j] = x]
  BY DEF ControlOK
<1>3. old \in [Jobs -> {"todo", "success", "failure"}]
  BY DEF ControlOK, RunRecord
<1>4. old[j] = "todo" /\ new[j] = x /\ \A k \in Jobs : k # j => new[k] = old[k]
  BY <1>2, <1>3 DEF ControlOK, JobsInOrder
<1>5. at'[j] = "idle" /\ \A k \in Jobs : k # j => at'[k] = at[k]
  BY DEF ControlOK
<1>6. \A k \in Jobs : Needs[k] \subseteq Jobs
  BY DEF Needs, Jobs
<1>7. \A k \in Jobs : (\A n \in Needs[k] : old[n] = "success")
                       => \A n \in Needs[k] : new[n] = "success"
  BY <1>4, <1>6
<1>8. /\ \A k \in Jobs : old[k] # "todo" => \A n \in Needs[k] : old[n] = "success"
      /\ \A k \in Jobs : at[k] # "idle" =>
           old[k] = "todo" /\ \A n \in Needs[k] : old[n] = "success"
  BY DEF ControlOK, JobsInOrder, After
<1>9. /\ \A k \in Jobs : new[k] # "todo" => \A n \in Needs[k] : new[n] = "success"
      /\ \A k \in Jobs : at'[k] # "idle" =>
           new[k] = "todo" /\ \A n \in Needs[k] : new[n] = "success"
  BY <1>4, <1>5, <1>7, <1>8
<1>10. JobsInOrder'
  BY <1>2, <1>9 DEF ControlOK, JobsInOrder, After
<1>11. RunsHaveCandidates'
  BY <1>2, <1>4 DEF ControlOK, RunsHaveCandidates
<1>12. QED
  BY <1>1, <1>10, <1>11 DEF ControlOK

LEMMA ControlPreserved ==
  ASSUME Inv, ControlStep
  PROVE  ControlOK' /\ hand' \in Hands
<1>1. ControlOK /\ hand \in Hands
  BY TypesOfControl DEF Inv, ControlOK
<1>2. CASE UNCHANGED <<runs, active, at, hand>>
  BY <1>1, <1>2 DEF ControlOK, RunsHaveCandidates, JobsInOrder, After
<1>3. ASSUME NEW j \in Jobs, Started(j), HandStep(j)
      PROVE  ControlOK' /\ hand' \in Hands
  <2>1. First[j] \in Steps
    BY DEF First, Steps, Jobs
  <2>2. \A k \in Jobs : at'[k] = IF k = j THEN First[j] ELSE at[k]
    BY <1>1, <1>3 DEF Started, ControlOK
  <2>3. RunsHaveCandidates'
    BY <1>1, <1>3 DEF Started, ControlOK, RunsHaveCandidates
  <2>4. JobsInOrder'
    BY <1>1, <1>3, <2>2 DEF Started, Startable, ControlOK, JobsInOrder, After
  <2>5. QED
    BY <1>1, <1>3, <2>1, <2>3, <2>4 DEF Started, ControlOK, HandStep
<1>4. ASSUME NEW j \in Jobs, NEW s \in Steps, Moved(j, s), HandStep(j)
      PROVE  ControlOK' /\ hand' \in Hands
  <2>1. \A k \in Jobs : at'[k] = IF k = j THEN s ELSE at[k]
    BY <1>1, <1>4 DEF Moved, ControlOK
  <2>2. RunsHaveCandidates'
    BY <1>1, <1>4 DEF Moved, ControlOK, RunsHaveCandidates
  <2>3. JobsInOrder'
    BY <1>1, <1>4, <2>1 DEF Moved, ControlOK, JobsInOrder, After
  <2>4. QED
    BY <1>1, <1>4, <2>2, <2>3 DEF Moved, ControlOK, HandStep
<1>5. ASSUME NEW j \in Jobs, NEW x \in {"success", "failure"}, Ended(j, x), HandStep(j)
      PROVE  ControlOK' /\ hand' \in Hands
  <2> DEFINE rec == [runs[active] EXCEPT !.result = [runs[active].result EXCEPT ![j] = x]]
  <2>1. active \in Runs
    BY <1>1, <1>5 DEF Ended, ControlOK, RunsHaveCandidates
  <2>2. runs[active] \in RunRecord
    BY <1>1, <2>1 DEF ControlOK
  <2>3. /\ rec \in RunRecord /\ rec.candidate = runs[active].candidate
        /\ rec.result = [runs[active].result EXCEPT ![j] = x]
    BY <2>2 DEF RunRecord
  <2>4. runs' = [runs EXCEPT ![active] = rec]
    BY <1>5 DEF Ended
  <2>5. QED
    BY <1>1, <1>5, <2>1, <2>3, <2>4, ResultWritten DEF Ended, HandStep
<1>6. CASE DraftVerified /\ hand' \in Hands
  <2> DEFINE rec == [runs[active] EXCEPT
                       !.result = [runs[active].result EXCEPT !["draft"] = "success"],
                       !.output = hand.id]
  <2>1. active \in Runs
    BY <1>1, <1>6 DEF DraftVerified, ControlOK, RunsHaveCandidates, Jobs
  <2>2. runs[active] \in RunRecord /\ hand.id \in Ids \cup {0}
    BY <1>1, <2>1 DEF ControlOK, Hands
  <2>3. /\ rec \in RunRecord /\ rec.candidate = runs[active].candidate
        /\ rec.result = [runs[active].result EXCEPT !["draft"] = "success"]
    BY <2>2 DEF RunRecord, Jobs
  <2>4. runs' = [runs EXCEPT ![active] = rec]
    BY <1>6 DEF DraftVerified
  <2>5. QED
    BY <1>1, <1>6, <2>1, <2>3, <2>4, ResultWritten DEF DraftVerified, Jobs
<1>7. CASE Conclude /\ UNCHANGED hand
  BY <1>1, <1>7 DEF Conclude, ControlOK, RunsHaveCandidates, JobsInOrder, After
<1>8. ASSUME NEW c \in Candidates, NEW q \in Ids \cup {0}, Dispatch(c, q), UNCHANGED hand
      PROVE  ControlOK' /\ hand' \in Hands
  <2>1. PICK r \in Runs :
          /\ runs' = [runs EXCEPT ![r] = [candidate |-> c, requested |-> q, attempt |-> 1,
                                          output |-> 0, result |-> NoResult]]
          /\ active' = r
    BY <1>8 DEF Dispatch
  <2>2. UNCHANGED at /\ \A j \in Jobs : at[j] = "idle"
    BY <1>1, <1>8 DEF Dispatch, ControlOK, RunsHaveCandidates
  <2>3. [candidate |-> c, requested |-> q, attempt |-> 1, output |-> 0,
         result |-> NoResult] \in RunRecord
    BY PublicationAssumption DEF RunRecord, NoResult
  <2>4. /\ runs' \in [Runs -> RunRecord] /\ runs'[r].candidate = c
        /\ \A j \in Jobs : runs'[r].result[j] = "todo"
        /\ \A k \in Runs : k # r => runs'[k] = runs[k]
    BY <1>1, <2>1, <2>3 DEF ControlOK, NoResult
  <2>5. RunsHaveCandidates'
    BY <1>1, <2>1, <2>2, <2>4 DEF ControlOK, RunsHaveCandidates
  <2>6. JobsInOrder'
    BY <1>1, <2>1, <2>2, <2>4 DEF ControlOK, JobsInOrder, After
  <2>7. QED
    BY <1>1, <1>8, <2>1, <2>2, <2>4, <2>5, <2>6 DEF ControlOK
<1>9. ASSUME NEW r \in Runs, NEW all \in BOOLEAN, Rerun(r, all), UNCHANGED hand
      PROVE  ControlOK' /\ hand' \in Hands
  <2> DEFINE old == runs[r].result
             new == [j \in Jobs |-> IF all \/ old[j] = "failure" THEN "todo" ELSE old[j]]
             rec == [runs[r] EXCEPT !.attempt = @ + 1, !.result = new]
  <2>1. runs[r] \in RunRecord
    BY <1>1 DEF ControlOK
  <2>2. runs[r].attempt + 1 \in 0..MaxAttempts
    BY <1>9, <2>1, PublicationAssumption DEF Rerun, RunRecord
  <2>3. rec \in RunRecord /\ rec.candidate = runs[r].candidate /\ rec.result = new
    BY <2>1, <2>2 DEF RunRecord
  <2>4. runs' = [runs EXCEPT ![r] = rec] /\ active' = r /\ UNCHANGED at
    BY <1>9 DEF Rerun
  <2>5. \A j \in Jobs : at[j] = "idle"
    BY <1>1, <1>9 DEF Rerun, ControlOK, RunsHaveCandidates
  <2>6. runs[r].candidate \in Candidates
    BY <1>9, <2>1 DEF Rerun, Dispatched, RunRecord
  <2>7. /\ runs' \in [Runs -> RunRecord]
        /\ runs'[r].candidate = runs[r].candidate /\ runs'[r].result = new
        /\ \A k \in Runs : k # r => runs'[k] = runs[k]
    BY <1>1, <2>3, <2>4 DEF ControlOK
  <2>8. RunsHaveCandidates'
    BY <1>1, <2>4, <2>5, <2>6, <2>7 DEF ControlOK, RunsHaveCandidates
  <2>9. \A j \in Jobs : new[j] # "todo" => \A n \in Needs[j] : new[n] = "success"
    <3> SUFFICES ASSUME NEW j \in Jobs, new[j] # "todo", NEW n \in Needs[j]
                 PROVE  new[n] = "success"
      OBVIOUS
    <3>1. n \in Jobs
      BY DEF Needs, Jobs
    <3>2. ~all /\ old[j] # "todo"
      OBVIOUS
    <3>3. old[n] = "success"
      BY <1>1, <3>2 DEF ControlOK, JobsInOrder, After
    <3>4. QED
      BY <3>1, <3>2, <3>3
  <2>10. JobsInOrder'
    BY <1>1, <2>4, <2>5, <2>7, <2>9 DEF ControlOK, JobsInOrder, After
  <2>11. QED
    BY <1>1, <1>9, <2>4, <2>7, <2>8, <2>10 DEF ControlOK
<1>10. QED
  BY <1>2, <1>3, <1>4, <1>5, <1>6, <1>7, <1>8, <1>9, ControlStep DEF ControlStep, JobStep

-----------------------------------------------------------------------------
(* What was read stays true, and every write is harmless. *)

LEMMA ReadyStays ==
  ASSUME ServerTypeOK, Permanent, NEW i, NEW c, Ready(i, c)
  PROVE  Ready(i, c)'
<1>1. i \in Ids /\ c \in Candidates /\ tag = Source[c] /\ Source[c] # None /\ c # None
  BY PublicationAssumption DEF Ready
<1>2. \A n \in Names : asset'[i][n] = c
  BY <1>1 DEF Ready, Complete, Permanent
<1>3. QED
  BY <1>1, <1>2 DEF Ready, Complete, Permanent

LEMMA ServedStays ==
  ASSUME Permanent, NEW c \in Candidates, Served(c)
  PROVE  Served(c)'
BY PublicationAssumption DEF Served, Permanent

LEMMA HarmlessStays ==
  ASSUME ServerTypeOK, Permanent, NEW w, Harmless(w)
  PROVE  Harmless(w)'
<1>1. w \in Writes
  BY DEF Harmless
<1>2. CASE w.op = "asset" /\ w.candidate \in Candidates
  BY <1>1, <1>2, PublicationAssumption DEF Harmless, Permanent
<1>3. CASE w.op = "archive"
  <2>1. PICK i \in Ids : Ready(i, w.candidate)
    BY <1>3 DEF Harmless, Prepared
  <2>2. Ready(i, w.candidate)'
    BY <2>1, ReadyStays
  <2>3. Prepared(w.candidate)'
    BY <2>2 DEF Prepared
  <2>4. QED
    BY <1>1, <1>3, <2>3 DEF Harmless
<1>4. CASE w.op = "undraft" /\ w.candidate \in Candidates
  BY <1>1, <1>4, ReadyStays, ServedStays DEF Harmless
<1>5. CASE w.op \in {"tag", "release"}
  BY <1>1, <1>5 DEF Harmless
<1>6. QED
  BY <1>1, <1>2, <1>3, <1>4, <1>5, WriteKinds

LEMMA WritingHarmless ==
  ASSUME Inv, NEW j \in Jobs, NEW w \in Writing(j)
  PROVE  Harmless(w)
<1>1. active \in Runs /\ My \in Candidates /\ hand \in Hands /\ runs[active] \in RunRecord
  BY WritingRuns, TypesOfControl DEF Inv, RunsHaveCandidates, My
<1>2. CASE j = "draft" /\ at[j] = "post-tag"
  <2>1. w = CreateTag(My)
    BY <1>2 DEF Writing
  <2>2. QED
    BY <1>1, <2>1 DEF CreateTag, Harmless, Writes
<1>3. CASE j = "draft" /\ at[j] = "post-release"
  <2>1. w = CreateRelease(active)
    BY <1>3 DEF Writing
  <2>2. QED
    BY <1>1, <2>1 DEF CreateRelease, Harmless, Writes, RunRecord
<1>4. CASE j = "draft" /\ at[j] = "upload"
  <2>1. PICK n \in hand.pending : w = UploadAsset(hand.id, n, My)
    BY <1>4 DEF Writing
  <2>2. hand.id \in Ids /\ n \in Names /\ tag = Source[My]
    BY <1>1, <1>4 DEF Inv, DraftHolds, DraftTagged, Hands
  <2>3. QED
    BY <1>1, <2>1, <2>2 DEF UploadAsset, Harmless, Writes
<1>5. CASE j \in Registries /\ at[j] = "post"
  <2>1. w = PublishArchive(j, My)
    BY <1>5 DEF Writing, Registries
  <2>2. Prepared(My)
    BY <1>5, AfterTheDraft DEF Registries, Prepared, Ready
  <2>3. QED
    BY <1>1, <1>5, <2>1, <2>2 DEF PublishArchive, Harmless, Writes
<1>6. CASE j = "finalize" /\ at[j] = "patch"
  <2>1. w = Undraft(hand.id, My)
    BY <1>6 DEF Writing, Registries
  <2>2. Ready(hand.id, My) /\ Served(My)
    BY <1>6, AfterTheDraft DEF Inv, FinalHolds, FinalServed
  <2>3. QED
    BY <1>1, <2>1, <2>2 DEF Undraft, Harmless, Writes, Ready
<1>7. QED
  BY <1>2, <1>3, <1>4, <1>5, <1>6 DEF Writing

LEMMA SentHarmless ==
  ASSUME Inv, NEW w, Sent(w)
  PROVE  Harmless(w)
BY WritingHarmless DEF Inv, WritesHarmless, Sent

\* The requests in flight and the budgets.
LEMMA NextIsBounded ==
  ASSUME TypeOK, [Next]_vars
  PROVE  /\ \A w \in inflight' : Sent(w)
         /\ faults' \in 0..Faults /\ aliens' \in 0..Foreign
<1> USE PublicationAssumption
<1>1. inflight \subseteq Writes /\ faults \in 0..Faults /\ aliens \in 0..Foreign
  BY DEF TypeOK
<1>2. CASE UNCHANGED <<inflight, faults, aliens>>
  BY <1>1, <1>2 DEF Sent
<1>3. ASSUME NEW j \in Jobs, Step(j)
      PROVE  UNCHANGED <<inflight, faults, aliens>>
  BY <1>3 DEF Step, Start, RefusedWrite, Preflight, SelectDraft, PlanTag, PostTag,
       ConfirmTag, PostRelease, HoldTag, Inventory, Upload, VerifyDraft, RegistryReady,
       RegistryStep, PlanRegistry, PostArchive, HexReadback, NpmReadback, InspectDraft,
       InspectAssets, FinalGate, PublishRelease, ConfirmRelease, Reads, Answered
<1>4. ASSUME NEW j \in Jobs, UnansweredWrite(j)
      PROVE  /\ \A w \in inflight' : Sent(w)
             /\ faults' \in 0..Faults /\ aliens' \in 0..Foreign
  BY <1>1, <1>4 DEF UnansweredWrite, Sent
<1>5. ASSUME NEW j \in Jobs, EndedFromOutside(j)
      PROVE  /\ \A w \in inflight' : Sent(w)
             /\ faults' \in 0..Faults /\ aliens' \in 0..Foreign
  BY <1>1, <1>5 DEF EndedFromOutside, Sent
<1>6. CASE TruncatedUpload \/ LaggingPreflight \/ LaggingSelect
  BY <1>1, <1>6 DEF TruncatedUpload, LaggingPreflight, LaggingSelect, Sent
<1>7. CASE Conclude \/ Operate
  BY <1>7, <1>2 DEF Conclude, Operate, Dispatch, Rerun, Reads
<1>8. CASE Deliver
  BY <1>1, <1>8 DEF Deliver, Sent
<1>9. CASE ForeignWrite
  BY <1>1, <1>9 DEF ForeignWrite, Sent
<1>10. CASE \E g \in Registries : Expose(g)
  BY <1>10, <1>2 DEF Expose
<1>11. CASE UNCHANGED vars
  BY <1>11, <1>2 DEF vars
<1>12. QED
  BY <1>2, <1>3, <1>4, <1>5, <1>6, <1>7, <1>8, <1>9, <1>10, <1>11 DEF Next, Fault

LEMMA InvIsPermanent ==
  ASSUME Inv, [Next]_vars
  PROVE  ServerTypeOK /\ ServerTypeOK' /\ Permanent
<1>1. ServerTypeOK /\ ServerStep
  BY NextIsServerStep DEF Inv, TypeOK, ServerTypeOK
<1>2. \A w : Sent(w) => w \in Writes
  BY SentHarmless DEF Harmless
<1>3. QED
  BY <1>1, <1>2, ServerStepPermanent

-----------------------------------------------------------------------------
(* The invariant is inductive. *)

\* What a job found stays true while the other jobs work.
LEMMA HandPreserved ==
  ASSUME Inv, ControlStep, ControlOK', ServerTypeOK, Permanent
  PROVE  (DraftHolds /\ DraftTagged /\ FinalHolds /\ FinalServed)'
<1> USE DEF Jobs
<1>1. /\ at \in [Jobs -> Steps] /\ at' \in [Jobs -> Steps] /\ runs \in [Runs -> RunRecord]
      /\ Exclusive /\ Exclusive'
  BY TypesOfControl, ControlExcludes DEF Inv, ControlOK
<1>2. at["draft"] # "idle" \/ at["finalize"] # "idle" => active \in Runs /\ My \in Candidates
  BY TypesOfControl DEF Inv, RunsHaveCandidates, My
<1>3. ASSUME active' = active, My' = My, hand' = hand, at'["draft"] = at["draft"]
      PROVE  (DraftHolds /\ DraftTagged)'
  <2>1. DraftHolds'
    BY <1>3 DEF Inv, DraftHolds
  <2>2. ASSUME at["draft"] \in {"inventory", "upload"}
        PROVE  tag' = Source[My]
    <3>1. My \in Candidates /\ tag = Source[My]
      BY <2>2, <1>2 DEF Inv, DraftTagged
    <3>2. QED
      BY <3>1, PublicationAssumption DEF Permanent
  <2>3. DraftTagged'
    BY <1>3, <2>2 DEF DraftTagged
  <2>4. QED
    BY <2>1, <2>3
<1>4. ASSUME active' = active, My' = My, hand' = hand, at'["finalize"] = at["finalize"],
             runs'[active].output = runs[active].output
      PROVE  (FinalHolds /\ FinalServed)'
  <2>1. FinalHolds'
    BY <1>4 DEF Inv, FinalHolds
  <2>2. ASSUME at["finalize"] \in {"patch", "published"}
        PROVE  Served(My)'
    BY <2>2, <1>2, <1>4, ServedStays DEF Inv, FinalServed, Served
  <2>3. FinalServed'
    BY <1>4, <2>2 DEF FinalServed
  <2>4. QED
    BY <2>1, <2>3
<1>5. CASE UNCHANGED <<runs, active, at, hand>>
  BY <1>3, <1>4, <1>5 DEF My
<1>6. ASSUME NEW j \in Jobs, JobStep(j), HandStep(j)
      PROVE  (DraftHolds /\ DraftTagged /\ FinalHolds /\ FinalServed)'
  <2>1. /\ active' = active /\ active \in Runs
        /\ \A k \in Jobs : k # j => at'[k] = at[k]
        /\ at[j] # "idle" \/ at'[j] # "idle"
    BY <1>1, <1>6, TypesOfControl
       DEF JobStep, Started, Moved, Ended, Inv, RunsHaveCandidates, First
  <2>2. My' = My /\ runs'[active].output = runs[active].output
    BY <1>1, <1>6, <2>1, TypesOfControl DEF JobStep, Started, Moved, Ended, My, RunRecord, Inv
  <2>3. \A k \in {"draft", "finalize"} : j \notin {k, "hex"} => at[k] = "idle" /\ at'[k] = "idle"
    BY <1>1, <2>1 DEF Exclusive
  <2>4. (DraftHolds /\ DraftTagged)'
    <3>1. CASE j = "draft"
      BY <1>6, <3>1 DEF HandStep
    <3>2. CASE j = "hex"
      BY <1>3, <1>6, <2>1, <2>2, <3>2 DEF HandStep
    <3>3. CASE j \notin {"draft", "hex"}
      BY <2>3, <3>3 DEF DraftHolds, DraftTagged
    <3>4. QED
      BY <3>1, <3>2, <3>3
  <2>5. (FinalHolds /\ FinalServed)'
    <3>1. CASE j = "finalize"
      BY <1>6, <3>1 DEF HandStep
    <3>2. CASE j = "hex"
      BY <1>4, <1>6, <2>1, <2>2, <3>2 DEF HandStep
    <3>3. CASE j \notin {"finalize", "hex"}
      BY <2>3, <3>3 DEF FinalHolds, FinalServed
    <3>4. QED
      BY <3>1, <3>2, <3>3
  <2>6. QED
    BY <2>4, <2>5
<1>7. CASE DraftVerified
  <2>1. at'["draft"] = "idle" /\ at'["finalize"] = "idle"
    BY <1>1, <1>7 DEF DraftVerified, Exclusive
  <2>2. QED
    BY <2>1 DEF DraftHolds, DraftTagged, FinalHolds, FinalServed
<1>8. CASE \/ Conclude
           \/ \E c \in Candidates, q \in Ids \cup {0} : Dispatch(c, q)
           \/ \E r \in Runs, all \in BOOLEAN : Rerun(r, all)
  <2>1. at'["draft"] = "idle" /\ at'["finalize"] = "idle"
    BY <1>8 DEF Conclude, Dispatch, Rerun, Inv, RunsHaveCandidates
  <2>2. QED
    BY <2>1 DEF DraftHolds, DraftTagged, FinalHolds, FinalServed
<1>9. QED
  BY <1>5, <1>6, <1>7, <1>8, ControlStep DEF ControlStep

LEMMA DraftsStayReady ==
  ASSUME Inv, ControlStep, ServerTypeOK, Permanent
  PROVE  DraftsReady'
<1>1. runs \in [Runs -> RunRecord] /\ hand.id \in Ids \cup {0}
  BY TypesOfControl DEF Inv, Hands
<1>2. SUFFICES ASSUME NEW r \in Runs, runs'[r].result["draft"] = "success"
               PROVE  Ready(runs[r].output, runs[r].candidate)'
  BY DEF DraftsReady, Ready, Complete
<1>3. ASSUME runs[r].result["draft"] = "success", runs'[r].output = runs[r].output,
             runs'[r].candidate = runs[r].candidate
      PROVE  Ready(runs[r].output, runs[r].candidate)'
  <2>1. Ready(runs[r].output, runs[r].candidate)
    BY <1>3 DEF Inv, DraftsReady
  <2> DEFINE i == runs[r].output
             c == runs[r].candidate
  <2>2. /\ i \in Ids /\ c \in Candidates /\ tag' = Source[c]
        /\ \A n \in Names : asset'[i][n] = c
    <3> HIDE DEF i, c
    <3>1. Ready(i, c)
      BY <2>1 DEF i, c
    <3>2. QED
      BY <3>1, PublicationAssumption DEF Ready, Complete, Permanent
  <2>3. QED
    BY <1>3, <2>2 DEF Ready, Complete
<1>4. CASE UNCHANGED <<runs, active, at, hand>>
  BY <1>2, <1>3, <1>4
<1>5. ASSUME NEW j \in Jobs, JobStep(j)
      PROVE  Ready(runs[r].output, runs[r].candidate)'
  <2>1. CASE UNCHANGED runs
    BY <1>2, <1>3, <2>1
  <2>2. ASSUME NEW x \in {"success", "failure"}, Ended(j, x)
        PROVE  Ready(runs[r].output, runs[r].candidate)'
    <3>1. /\ runs'[r].output = runs[r].output /\ runs'[r].candidate = runs[r].candidate
          /\ runs[r].result["draft"] = "success"
      BY <1>1, <1>2, <2>2 DEF Ended, RunRecord, Jobs
    <3>2. QED
      BY <1>3, <3>1
  <2>3. QED
    BY <1>5, <2>1, <2>2 DEF JobStep, Started, Moved
<1>6. CASE DraftVerified
  <2>1. CASE r # active
    BY <1>1, <1>2, <1>3, <1>6, <2>1 DEF DraftVerified
  <2>2. CASE r = active
    <3>1. /\ runs'[r].output = hand.id /\ runs'[r].candidate = My
          /\ My \in Candidates /\ hand.id \in Ids /\ tag' = Source[My]
      BY <1>1, <1>6, <2>2
         DEF DraftVerified, Inv, DraftHolds, DraftTagged, RunsHaveCandidates, My, server,
             RunRecord, Jobs
    <3>2. \A n \in Names : asset'[hand.id][n] = My
      BY <1>6 DEF DraftVerified, Reconciled, Reconcilable, Conflicts, Missing, server
    <3>3. QED
      BY <3>1, <3>2 DEF Ready, Complete
  <2>3. QED
    BY <2>1, <2>2
<1>7. CASE Conclude
  BY <1>2, <1>3, <1>7 DEF Conclude
<1>8. ASSUME NEW c \in Candidates, NEW q \in Ids \cup {0}, Dispatch(c, q)
      PROVE  Ready(runs[r].output, runs[r].candidate)'
  <2>1. PICK d \in Runs : runs' = [runs EXCEPT ![d] =
          [candidate |-> c, requested |-> q, attempt |-> 1, output |-> 0, result |-> NoResult]]
    BY <1>8 DEF Dispatch
  <2>2. r # d
    BY <1>1, <1>2, <2>1 DEF NoResult, Jobs
  <2>3. runs'[r] = runs[r]
    BY <1>1, <2>1, <2>2
  <2>4. QED
    BY <1>2, <1>3, <2>3
<1>9. ASSUME NEW d \in Runs, NEW all \in BOOLEAN, Rerun(d, all)
      PROVE  Ready(runs[r].output, runs[r].candidate)'
  <2>1. /\ runs'[r].output = runs[r].output /\ runs'[r].candidate = runs[r].candidate
        /\ runs[r].result["draft"] = "success"
    BY <1>1, <1>2, <1>9 DEF Rerun, RunRecord, Jobs
  <2>2. QED
    BY <1>3, <2>1
<1>10. QED
  BY <1>4, <1>5, <1>6, <1>7, <1>8, <1>9, ControlStep DEF ControlStep

LEMMA InitInv == Init => Inv
<1> SUFFICES ASSUME Init
             PROVE  Inv
  OBVIOUS
<1> USE PublicationAssumption DEF Init
<1>1. runs \in [Runs -> RunRecord] /\ \A r \in Runs, j \in Jobs : runs[r].result[j] = "todo"
  BY DEF RunRecord, NoResult
<1>2. hand \in [id : Ids \cup {0}, pending : SUBSET Names, checks : 0..ReadbackChecks]
  BY DEF Empty
<1>3. at \in [Jobs -> Steps] /\ \A j \in Jobs : at[j] = "idle"
  BY DEF Steps
<1>4. faults \in 0..Faults /\ aliens \in 0..Foreign
  OBVIOUS
<1>5. TypeOK
  BY <1>1, <1>2, <1>3, <1>4 DEF TypeOK
<1>6. RunsHaveCandidates /\ JobsInOrder
  BY <1>1, <1>3 DEF RunsHaveCandidates, JobsInOrder
<1>7. DraftHolds /\ DraftTagged /\ FinalHolds /\ FinalServed
  BY <1>3 DEF DraftHolds, DraftTagged, FinalHolds, FinalServed, Jobs
<1>8. DraftsReady /\ WritesHarmless
  BY <1>1 DEF DraftsReady, WritesHarmless, Jobs
<1>9. QED
  BY <1>5, <1>6, <1>7, <1>8 DEF Inv

LEMMA NextInv == Inv /\ [Next]_vars => Inv'
<1> SUFFICES ASSUME Inv, [Next]_vars
             PROVE  Inv'
  OBVIOUS
<1>1. ControlStep /\ ControlOK' /\ hand' \in Hands
  BY NextIsControlStep, ControlPreserved
<1>2. ServerTypeOK /\ ServerTypeOK' /\ Permanent
  BY InvIsPermanent
<1>3. /\ \A w \in inflight' : Sent(w)
      /\ faults' \in 0..Faults /\ aliens' \in 0..Foreign
  BY NextIsBounded DEF Inv
<1>4. WritesHarmless'
  BY <1>2, <1>3, SentHarmless, HarmlessStays DEF WritesHarmless
<1>5. inflight' \subseteq Writes
  BY <1>4 DEF WritesHarmless, Harmless
<1>6. Exclusive'
  BY <1>1, ControlExcludes
<1>7. TypeOK'
  BY <1>1, <1>2, <1>3, <1>5, <1>6 DEF TypeOK, ServerTypeOK, ControlOK, Hands, Exclusive
<1>8. (DraftHolds /\ DraftTagged /\ FinalHolds /\ FinalServed)' /\ DraftsReady'
  BY <1>1, <1>2, HandPreserved, DraftsStayReady
<1>9. QED
  BY <1>1, <1>4, <1>7, <1>8 DEF Inv, ControlOK

LEMMA Invariance == Spec => []Inv
BY InitInv, NextInv, PTL DEF Spec

\* The variables keep their types, and of the jobs that share their memory at
\* most one is running.
THEOREM TypeCorrect == Spec => []TypeOK
<1>1. Inv => TypeOK
  BY DEF Inv
<1>2. QED
  BY <1>1, Invariance, PTL

-----------------------------------------------------------------------------
(* The archives. *)

\* The archive a step puts into a registry is prepared, or somebody else's.
LEMMA ArchivesArePrepared ==
  ASSUME Inv, [Next]_vars
  PROVE  \A g \in Registries :
           \/ held'[g] = held[g]
           \/ held[g] = None /\ held'[g] = Alien
           \/ /\ held[g] = None
              /\ \E c \in Candidates : held'[g] = Archive[g][c] /\ Prepared(c)
<1>1. ServerStep /\ DOMAIN held = Registries
  BY NextIsServerStep DEF Inv, TypeOK
<1>2. CASE UNCHANGED server \/ Spoiled \/ Exposed
  BY <1>2 DEF server, Spoiled, Exposed
<1>3. CASE Intruded
  BY <1>1, <1>3 DEF Intruded
<1>4. ASSUME NEW w, Performed(w), w.op # "archive"
      PROVE  held' = held
  BY <1>4 DEF Performed, Apply
<1>5. ASSUME NEW w, Performed(w), w.op = "archive"
      PROVE  /\ w.registry \in Registries /\ w.candidate \in Candidates
             /\ held[w.registry] = None /\ Prepared(w.candidate)
             /\ held' = [held EXCEPT ![w.registry] = Archive[w.registry][w.candidate]]
  <2>1. Harmless(w)
    BY <1>5, SentHarmless DEF Performed
  <2>2. w \in Writes /\ Prepared(w.candidate)
    BY <1>5, <2>1 DEF Harmless
  <2>3. w.registry \in Registries /\ w.candidate \in Candidates
    BY <1>5, <2>2, WriteKinds
  <2>4. QED
    BY <1>5, <2>2, <2>3 DEF Performed, Accepts, Apply
<1>6. ASSUME NEW w, Performed(w)
      PROVE  \A g \in Registries :
           \/ held'[g] = held[g]
           \/ /\ held[g] = None
              /\ \E c \in Candidates : held'[g] = Archive[g][c] /\ Prepared(c)
  <2>1. CASE w.op # "archive"
    BY <1>4, <1>6, <2>1
  <2>2. CASE w.op = "archive"
    BY <1>1, <1>5, <1>6, <2>2
  <2>3. QED
    BY <2>1, <2>2
<1>7. QED
  BY <1>1, <1>2, <1>3, <1>6 DEF ServerStep

Backed == \A g \in Registries : held[g] \notin {None, Alien} =>
            \E c \in Candidates : held[g] = Archive[g][c] /\ Prepared(c)

LEMMA PreparedStays ==
  ASSUME ServerTypeOK, Permanent, NEW c, Prepared(c)
  PROVE  Prepared(c)'
<1>1. PICK i \in Ids : Ready(i, c)
  BY DEF Prepared
<1>2. Ready(i, c)'
  BY <1>1, ReadyStays
<1>3. QED
  BY <1>2 DEF Prepared

LEMMA BackedStays ==
  ASSUME Inv, Backed, [Next]_vars
  PROVE  Backed'
<1>1. ServerTypeOK /\ Permanent
  BY InvIsPermanent
<1>2. \A c \in Candidates : Prepared(c) => Prepared(c)'
  BY <1>1, PreparedStays
<1>3. SUFFICES ASSUME NEW g \in Registries, held'[g] \notin {None, Alien}
               PROVE  \E c \in Candidates : held'[g] = Archive[g][c] /\ Prepared(c)'
  BY DEF Backed
<1>4. PICK c \in Candidates : held'[g] = Archive[g][c] /\ Prepared(c)
  BY <1>3, ArchivesArePrepared DEF Backed
<1>5. QED
  BY <1>2, <1>4

\* Whenever a registry holds an archive of the controller, its candidate's
\* release is complete and its tag names the candidate's source.
THEOREM ArchivesFollowDrafts == Spec => []RegistryFollowsDraft
<1>1. Init => Backed
  BY DEF Init, Backed
<1>2. Inv /\ Backed /\ [Next]_vars => Backed'
  BY BackedStays
<1>3. Inv /\ Backed => RegistryFollowsDraft
  BY DEF Backed, Prepared, Ready, RegistryFollowsDraft
<1>4. QED
  BY <1>1, <1>2, <1>3, Invariance, PTL DEF Spec

-----------------------------------------------------------------------------
(* The finished runs. *)

\* What a finished run claims, and claims for good.
Final(i, c) ==
  /\ Ready(i, c) /\ Served(c)
  /\ release[i] = "published" /\ asset[i][Extra] = None

LEMMA FinalStays ==
  ASSUME ServerTypeOK, Permanent, NEW i, NEW c, Final(i, c)
  PROVE  Final(i, c)'
<1>1. i \in Ids /\ c \in Candidates
  BY DEF Final, Ready
<1>2. Ready(i, c)' /\ Served(c)'
  BY <1>1, ReadyStays, ServedStays DEF Final
<1>3. release'[i] = "published" /\ asset'[i] = asset[i]
  BY <1>1 DEF Final, Permanent
<1>4. QED
  BY <1>2, <1>3 DEF Final

Finished(r) == runs[r].result["finalize"] = "success"
Same(r) == runs'[r].output = runs[r].output /\ runs'[r].candidate = runs[r].candidate

LEMMA EndsUnfinished ==
  ASSUME runs \in [Runs -> RunRecord], NEW r \in Runs, NEW j \in Jobs, NEW x,
         j # "finalize" \/ x # "success", End(j, x), Finished(r)'
  PROVE  Finished(r) /\ Same(r)
BY DEF End, RunRecord, Jobs, Finished, Same

\* The last phase of a run succeeds only by reading the published release.
LEMMA OnlyConfirmationFinishes ==
  ASSUME Inv, [Next]_vars, NEW r \in Runs, Finished(r)'
  PROVE  \/ Finished(r) /\ Same(r)
         \/ /\ at["finalize"] = "published" /\ r = active /\ UNCHANGED server
            /\ runs' = [runs EXCEPT ![active].result["finalize"] = "success"]
            /\ release[hand.id] = "published" /\ TagOf(My) = "matching"
            /\ Reconciled(hand.id, My)
<1> USE DEF Jobs, Registries
<1>1. runs \in [Runs -> RunRecord]
  BY DEF Inv, TypeOK
<1>2. ASSUME runs' = runs
      PROVE  Finished(r) /\ Same(r)
  BY <1>2 DEF Finished, Same
<1>3. ASSUME NEW j \in Jobs, NEW x, j # "finalize" \/ x # "success", End(j, x)
      PROVE  Finished(r) /\ Same(r)
  BY <1>1, <1>3, EndsUnfinished
<1>4. ASSUME NEW j \in Jobs, Fail(j)
      PROVE  Finished(r) /\ Same(r)
  BY <1>3, <1>4 DEF Fail
<1>5. ASSUME NEW j, NEW s, Go(j, s)
      PROVE  Finished(r) /\ Same(r)
  BY <1>2, <1>5 DEF Go
<1>6. ASSUME NEW j \in Jobs, NEW ok, NEW s, Proceed(j, ok, s)
      PROVE  Finished(r) /\ Same(r)
  <2>1. Go(j, s) \/ Fail(j)
    BY <1>6 DEF Proceed
  <2>2. QED
    BY <2>1, <1>4, <1>5
<1>7. ASSUME NEW j \in Jobs, Step(j), ~VerifyDraft, ~ConfirmRelease
      PROVE  Finished(r) /\ Same(r)
  <2>1. CASE Start(j) \/ RefusedWrite(j) \/ Preflight
    BY <1>5, <1>3, <1>4, <2>1 DEF Start, RefusedWrite, Preflight
  <2>2. CASE \/ SelectDraft \/ PlanTag \/ PostTag \/ ConfirmTag
             \/ PostRelease \/ HoldTag \/ Inventory \/ Upload
    BY <1>5, <1>4, <1>6, <2>2 DEF SelectDraft, Select, PlanTag, PostTag, ConfirmTag,
         PostRelease, HoldTag, Inventory, Upload
  <2>3. CASE RegistryReady
    BY <1>3, <1>6, <2>3 DEF RegistryReady
  <2>4. ASSUME j \in Registries, RegistryStep(j)
        PROVE  Finished(r) /\ Same(r)
    BY <1>5, <1>3, <1>4, <2>4 DEF RegistryStep, PlanRegistry, PostArchive
  <2>5. CASE HexReadback \/ NpmReadback
    BY <1>5, <1>3, <1>4, <2>5 DEF HexReadback, NpmReadback
  <2>6. CASE InspectDraft \/ InspectAssets \/ FinalGate \/ PublishRelease
    BY <1>5, <1>4, <1>6, <2>6 DEF InspectDraft, InspectAssets, FinalGate, PublishRelease
  <2>7. QED
    BY <1>7, <2>1, <2>2, <2>3, <2>4, <2>5, <2>6 DEF Step
<1>8. CASE VerifyDraft
  <2>1. CASE Fail("draft")
    BY <1>4, <2>1
  <2>2. CASE runs' = [runs EXCEPT ![active].result["draft"] = "success",
                                  ![active].output = hand.id]
    <3>1. Finished(r)
      BY <1>1, <2>2 DEF RunRecord, Finished
    <3>2. r # active
      <4>1. r = active => runs[r].result["draft"] = "todo"
        BY <1>8 DEF VerifyDraft, Inv, JobsInOrder
      <4>2. runs[r].result["draft"] = "success"
        BY <3>1 DEF Finished, Inv, JobsInOrder, After, Needs
      <4>3. QED
        BY <4>1, <4>2
    <3>3. QED
      BY <1>1, <2>2, <3>1, <3>2 DEF Same
  <2>3. QED
    BY <1>8, <2>1, <2>2 DEF VerifyDraft
<1>9. CASE ConfirmRelease
  <2> DEFINE ok == /\ release[hand.id] = "published" /\ TagOf(My) = "matching"
                   /\ Reconciled(hand.id, My)
  <2>1. CASE ~ok
    BY <1>3, <1>9, <2>1 DEF ConfirmRelease
  <2>2. CASE ok
    <3>1. /\ runs' = [runs EXCEPT ![active].result["finalize"] = "success"]
          /\ at["finalize"] = "published" /\ UNCHANGED server
      BY <1>9, <2>2 DEF ConfirmRelease, End, Reads
    <3>2. CASE r = active
      BY <2>2, <3>1, <3>2
    <3>3. CASE r # active
      BY <1>1, <3>1, <3>3 DEF Finished, Same
    <3>4. QED
      BY <3>2, <3>3
  <2>3. QED
    BY <2>1, <2>2
<1>10. CASE Conclude \/ Deliver \/ ForeignWrite \/ \E g \in Registries : Expose(g)
  BY <1>2, <1>10 DEF Conclude, Deliver, ForeignWrite, Expose
<1>11. CASE Fault
  BY <1>3, <1>4, <1>5, <1>11 DEF Fault, TruncatedUpload, UnansweredWrite,
       EndedFromOutside, LaggingPreflight, LaggingSelect, Select
<1>12. CASE Operate
  <2>1. ASSUME NEW c \in Candidates, NEW q \in Ids \cup {0}, Dispatch(c, q)
        PROVE  Finished(r) /\ Same(r)
    BY <1>1, <2>1 DEF Dispatch, NoResult, Finished, Same
  <2>2. ASSUME NEW d \in Runs, NEW all \in BOOLEAN, Rerun(d, all)
        PROVE  Finished(r) /\ Same(r)
    BY <1>1, <2>2 DEF Rerun, RunRecord, Finished, Same
  <2>3. QED
    BY <1>12, <2>1, <2>2 DEF Operate
<1>13. CASE UNCHANGED vars
  BY <1>2, <1>13 DEF vars
<1>14. QED
  BY <1>7, <1>8, <1>9, <1>10, <1>11, <1>12, <1>13 DEF Next

FinishedFinal ==
  \A r \in Runs : Finished(r) => Final(runs[r].output, runs[r].candidate)

LEMMA FinishedStaysFinal ==
  ASSUME Inv, FinishedFinal, [Next]_vars
  PROVE  FinishedFinal'
<1>1. ServerTypeOK /\ Permanent
  BY InvIsPermanent
<1>2. SUFFICES ASSUME NEW r \in Runs, Finished(r)'
               PROVE  Final(runs[r].output, runs[r].candidate)'
  BY DEF FinishedFinal
<1>3. CASE Finished(r) /\ Same(r)
  <2> DEFINE i == runs[r].output
             c == runs[r].candidate
  <2>1. Final(i, c)
    BY <1>3 DEF FinishedFinal
  <2>2. /\ i \in Ids /\ c \in Candidates /\ tag' = Source[c]
        /\ \A n \in Names : asset'[i][n] = c
        /\ \A g \in Registries : held'[g] = Archive[g][c] /\ shown'[g] = "public"
        /\ release'[i] = "published" /\ asset'[i][Extra] = None
    <3> HIDE DEF i, c
    <3>1. Ready(i, c) /\ Served(c) /\ release[i] = "published" /\ asset[i][Extra] = None
      BY <2>1 DEF Final
    <3>2. i \in Ids /\ c \in Candidates /\ tag = Source[c] /\ \A n \in Names : asset[i][n] = c
      BY <3>1 DEF Ready, Complete
    <3>3. tag' = Source[c] /\ release'[i] = "published" /\ asset'[i] = asset[i]
      BY <1>1, <3>1, <3>2, PublicationAssumption DEF Permanent
    <3>4. \A g \in Registries : held'[g] = Archive[g][c] /\ shown'[g] = "public"
      BY <1>1, <3>1, <3>2, PublicationAssumption DEF Permanent, Served
    <3>5. QED
      BY <3>1, <3>2, <3>3, <3>4
  <2>3. QED
    BY <1>3, <2>2 DEF Same, Final, Ready, Served, Complete
<1>4. CASE /\ at["finalize"] = "published" /\ r = active /\ UNCHANGED server
           /\ runs' = [runs EXCEPT ![active].result["finalize"] = "success"]
           /\ release[hand.id] = "published" /\ TagOf(My) = "matching"
           /\ Reconciled(hand.id, My)
  <2>1. Ready(runs[r].output, My) /\ Served(My) /\ hand.id = runs[r].output
    BY <1>4, AfterTheDraft DEF Inv, FinalServed, FinalHolds
  <2>2. /\ runs'[r].output = runs[r].output /\ runs'[r].candidate = My
    BY <1>4 DEF Inv, TypeOK, RunRecord, My
  <2>3. asset[hand.id][Extra] = None
    BY <1>4 DEF Reconciled, Reconcilable
  <2>4. QED
    BY <1>4, <2>1, <2>2, <2>3 DEF Final, Ready, Served, Complete, server
<1>5. QED
  BY <1>2, <1>3, <1>4, OnlyConfirmationFinishes

\* A run whose last phase succeeded left the published release with exactly
\* its candidate's assets, its tag and both its archives, for good.
THEOREM FinishedRunsAreExact == Spec => []FinishedReleaseExact
<1>1. Init => FinishedFinal
  BY DEF Init, FinishedFinal, Finished, NoResult, Jobs
<1>2. Inv /\ FinishedFinal /\ [Next]_vars => FinishedFinal'
  BY FinishedStaysFinal
<1>3. Inv /\ FinishedFinal => FinishedReleaseExact
  BY DEF FinishedFinal, Finished, Final, Ready, Served, Observe, FinishedReleaseExact
<1>4. QED
  BY <1>1, <1>2, <1>3, Invariance, PTL DEF Spec

-----------------------------------------------------------------------------
(* The controller keeps ReleasePromise. *)

Completed == {c \in Candidates : \E i \in Ids : Complete(i, c)}

LEMMA OneCandidate ==
  ASSUME NEW a, NEW P, NEW i \in P, NEW c \in Candidates,
         \A k \in P : \A n \in Names : a[k][n] = c
  PROVE  (CHOOSE d \in Candidates : \A k \in P : \A n \in Names : a[k][n] = d) = c
<1> DEFINE Is(d) == \A k \in P : \A n \in Names : a[k][n] = d
           chosen == CHOOSE d \in Candidates : Is(d)
<1>1. chosen \in Candidates /\ Is(chosen)
  OBVIOUS
<1>2. PICK n \in Names : TRUE
  BY PublicationAssumption
<1>3. a[i][n] = chosen /\ a[i][n] = c
  BY <1>1, <1>2
<1>4. QED
  BY <1>3

LEMMA PublishedIs ==
  ASSUME NEW c \in Candidates
  PROVE  /\ Published # {} /\ (\A i \in Published : Complete(i, c))
              => PublishedCandidate = c
         /\ Published' # {} /\ (\A i \in Published' : \A n \in Names : asset'[i][n] = c)
              => PublishedCandidate' = c
<1>1. ASSUME Published # {}, \A i \in Published : Complete(i, c)
      PROVE  PublishedCandidate = c
  <2>1. PICK i \in Published : TRUE
    BY <1>1
  <2>2. (CHOOSE d \in Candidates : \A k \in Published : \A n \in Names : asset[k][n] = d) = c
    BY <1>1, <2>1, OneCandidate DEF Complete
  <2>3. QED
    BY <1>1, <2>2 DEF PublishedCandidate, Complete
<1>2. ASSUME Published' # {}, \A i \in Published' : \A n \in Names : asset'[i][n] = c
      PROVE  PublishedCandidate' = c
  <2>1. PICK i \in Published' : TRUE
    BY <1>2
  <2>2. (CHOOSE d \in Candidates : \A k \in Published' : \A n \in Names : asset'[k][n] = d) = c
    BY <1>2, <2>1, OneCandidate
  <2>3. QED
    BY <1>2, <2>2 DEF PublishedCandidate, Complete
<1>3. QED
  BY <1>1, <1>2

\* No write to a draft changes what is published.
LEMMA PublishedStays ==
  ASSUME Published' = Published, \A i \in Published : asset'[i] = asset[i]
  PROVE  PublishedCandidate' = PublishedCandidate
<1>1. CASE Published = {}
  BY <1>1 DEF PublishedCandidate
<1>2. ASSUME NEW c \in Candidates, Published # {}, \A i \in Published : Complete(i, c)
      PROVE  PublishedCandidate' = PublishedCandidate
  BY <1>2, PublishedIs DEF Complete
<1>3. CASE Published # {} /\ ~\E c \in Candidates : \A i \in Published : Complete(i, c)
  <2>1. ~\E c \in Candidates : \A i \in Published' : Complete(i, c)'
    BY <1>3 DEF Complete
  <2>2. QED
    BY <1>3, <2>1 DEF PublishedCandidate
<1>4. QED
  BY <1>1, <1>2, <1>3

\* An asset written in a free place completes at most its own candidate.
LEMMA CompletedGrows ==
  ASSUME ServerTypeOK,
         NEW i \in Ids, NEW n \in Names \cup {Extra}, NEW b \in Candidates \cup {Alien},
         asset[i][n] = None, Wrote(i, n, b)
  PROVE  \/ Completed' = Completed
         \/ b \in Candidates /\ Completed' = Completed \cup {b}
<1> USE PublicationAssumption
<1>1. Completed \subseteq Completed'
  <2>1. SUFFICES ASSUME NEW d \in Candidates, NEW k \in Ids, Complete(k, d)
                 PROVE  Complete(k, d)'
    BY DEF Completed
  <2>2. ~(k = i /\ n \in Names)
    BY <2>1 DEF Complete
  <2>3. \A m \in Names : asset'[k][m] = asset[k][m]
    BY <2>2 DEF Wrote
  <2>4. QED
    BY <2>1, <2>3 DEF Complete
<1>2. ASSUME NEW d \in Candidates, NEW k \in Ids, Complete(k, d)', d # b
      PROVE  Complete(k, d)
  <2>1. \A m \in Names : asset'[k][m] = d
    BY <1>2 DEF Complete
  <2>2. \A m \in Names : asset[k][m] = d
    BY <1>2, <2>1 DEF Wrote
  <2>3. QED
    BY <2>2 DEF Complete
<1>3. \A d \in Completed' : d \in Completed \/ d = b
  BY <1>2 DEF Completed
<1>4. Completed' \subseteq Candidates
  BY DEF Completed
<1>5. QED
  BY <1>1, <1>3, <1>4

Kept == UNCHANGED <<tag, Completed, held, PublishedCandidate>>

LEMMA KeptStutters == Kept => [Promise!Next]_Promise!promise
BY DEF Kept, Completed, Promise!promise

LEMMA PublishedSame ==
  ASSUME UNCHANGED release
  PROVE  Published' = Published
BY DEF Published

\* What a performed write means to the promise: a tag, a completed candidate,
\* an archive, the publication, or nothing.
LEMMA PerformedKeeps ==
  ASSUME Inv, [Next]_vars, NEW w, Performed(w)
  PROVE  [Promise!Next]_Promise!promise
<1> USE PublicationAssumption
<1>1. ServerTypeOK /\ Permanent /\ Harmless(w) /\ w \in Writes
  BY InvIsPermanent, SentHarmless DEF Performed, Harmless
<1>2. CASE w.op = "tag" /\ w.candidate \in Candidates
  <2>1. tag = None /\ tag' = Source[w.candidate] /\ UNCHANGED <<release, asset, held, shown>>
    BY <1>2 DEF Performed, Accepts, Apply
  <2>2. PublishedCandidate' = PublishedCandidate
    BY <2>1, PublishedSame, PublishedStays
  <2>3. Completed' = Completed
    BY <2>1 DEF Completed, Complete
  <2>4. tag' # None
    BY <1>2, <2>1
  <2>5. QED
    BY <2>1, <2>2, <2>3, <2>4 DEF Completed, Promise!Next, Promise!Tag
<1>3. CASE w.op = "release"
  <2>1. /\ Listed # Ids /\ release' = [release EXCEPT ![NextId] = "draft"]
        /\ UNCHANGED <<tag, asset, held, shown>>
    BY <1>3 DEF Performed, Accepts, Apply
  <2>2. Published' = Published
    BY <1>1, <2>1, NextIdIsFree DEF Published, ServerTypeOK
  <2>3. PublishedCandidate' = PublishedCandidate
    BY <2>1, <2>2, PublishedStays
  <2>4. Completed' = Completed
    BY <2>1 DEF Completed, Complete
  <2>5. QED
    BY <2>1, <2>3, <2>4, KeptStutters DEF Kept
<1>4. CASE /\ w.op = "asset" /\ w.id \in Ids /\ w.name \in Names
           /\ w.candidate \in Candidates
  <2>1. /\ release[w.id] = "draft" /\ asset[w.id][w.name] = None
        /\ asset' = [asset EXCEPT ![w.id][w.name] = w.candidate]
        /\ UNCHANGED <<tag, release, held, shown>>
    BY <1>4 DEF Performed, Accepts, Apply
  <2>2. tag = Source[w.candidate]
    BY <1>1, <1>4 DEF Harmless
  <2>3. PublishedCandidate' = PublishedCandidate
    BY <1>1, <2>1, PublishedSame, PublishedStays DEF Permanent, Published
  <2>4. Wrote(w.id, w.name, w.candidate)
    BY <1>1, <1>4, <2>1, AssetWritten
  <2>5. Completed' = Completed \/ Completed' = Completed \cup {w.candidate}
    BY <1>1, <1>4, <2>1, <2>4, CompletedGrows
  <2>6. CASE Completed' = Completed
    BY <2>1, <2>3, <2>6, KeptStutters DEF Kept
  <2>7. CASE Completed' = Completed \cup {w.candidate}
    <3>1. Promise!Complete(w.candidate)
      BY <2>1, <2>2, <2>3, <2>7 DEF Promise!Complete, Completed
    <3>2. QED
      BY <1>4, <3>1 DEF Promise!Next
  <2>8. QED
    BY <2>5, <2>6, <2>7
<1>5. CASE w.op = "archive" /\ w.registry \in Registries /\ w.candidate \in Candidates
  <2>1. /\ held[w.registry] = None
        /\ held' = [held EXCEPT ![w.registry] = Archive[w.registry][w.candidate]]
        /\ UNCHANGED <<tag, release, asset, shown>>
    BY <1>5 DEF Performed, Accepts, Apply
  <2>2. w.candidate \in Completed
    BY <1>1, <1>5 DEF Harmless, Prepared, Ready, Completed
  <2>3. PublishedCandidate' = PublishedCandidate
    BY <2>1, PublishedSame, PublishedStays
  <2>4. Completed' = Completed
    BY <2>1 DEF Completed, Complete
  <2>5. Promise!Hold(w.registry)
    BY <2>1, <2>2, <2>3, <2>4 DEF Promise!Hold, Completed
  <2>6. QED
    BY <1>5, <2>5 DEF Promise!Next
<1>6. CASE w.op = "undraft" /\ w.id \in Ids /\ w.candidate \in Candidates
  <2>1. /\ Published \subseteq {w.id}
        /\ release' = [release EXCEPT ![w.id] = "published"]
        /\ UNCHANGED <<tag, asset, held, shown>>
    BY <1>6 DEF Performed, Accepts, Apply
  <2>2. Complete(w.id, w.candidate) /\ Served(w.candidate)
    BY <1>1, <1>6 DEF Harmless, Ready
  <2>3. Published' = {w.id}
    BY <1>1, <1>6, <2>1 DEF Published, ServerTypeOK
  <2>4. PublishedCandidate' = w.candidate
    BY <1>6, <2>1, <2>2, <2>3, PublishedIs DEF Complete
  <2>5. Completed' = Completed /\ w.candidate \in Completed
    BY <1>6, <2>1, <2>2 DEF Completed, Complete
  <2>6. CASE Published = {}
    <3>1. PublishedCandidate = None
      BY <2>6 DEF PublishedCandidate
    <3>2. Promise!Publish(w.candidate)
      BY <2>1, <2>2, <2>4, <2>5, <3>1 DEF Promise!Publish, Completed, Served
    <3>3. QED
      BY <1>6, <3>2 DEF Promise!Next
  <2>7. CASE Published = {w.id}
    <3>1. PublishedCandidate = w.candidate
      BY <1>6, <2>2, <2>7, PublishedIs
    <3>2. QED
      BY <2>1, <2>4, <2>5, <3>1, KeptStutters DEF Kept
  <2>8. QED
    BY <2>1, <2>6, <2>7
<1>7. QED
  BY <1>1, <1>2, <1>3, <1>4, <1>5, <1>6, WriteKinds

\* Every step of the controller is a step of the promise, or none.
LEMMA NextKeeps ==
  ASSUME Inv, [Next]_vars
  PROVE  [Promise!Next]_Promise!promise
<1> USE PublicationAssumption
<1>1. ServerTypeOK /\ Permanent /\ ServerStep
  BY InvIsPermanent, NextIsServerStep DEF Inv
<1>2. CASE UNCHANGED server
  <2>1. PublishedCandidate' = PublishedCandidate
    BY <1>2, PublishedSame, PublishedStays DEF server
  <2>2. QED
    BY <1>2, <2>1, KeptStutters DEF server, Kept, Completed, Complete
<1>3. CASE Spoiled
  <2>1. PICK i \in Ids, n \in Names \cup {Extra} :
          /\ release[i] = "draft" /\ asset[i][n] = None
          /\ asset' = [asset EXCEPT ![i][n] = Alien]
          /\ UNCHANGED <<tag, release, held, shown>>
    BY <1>3 DEF Spoiled
  <2>2. PublishedCandidate' = PublishedCandidate
    BY <1>1, <2>1, PublishedSame, PublishedStays DEF Permanent, Published
  <2>3. Wrote(i, n, Alien)
    BY <1>1, <2>1, AssetWritten
  <2>4. Completed' = Completed
    BY <1>1, <2>1, <2>3, CompletedGrows
  <2>5. QED
    BY <2>1, <2>2, <2>4, KeptStutters DEF Kept
<1>4. CASE Exposed
  <2>1. UNCHANGED <<tag, release, asset, held>>
    BY <1>4 DEF Exposed
  <2>2. PublishedCandidate' = PublishedCandidate
    BY <2>1, PublishedSame, PublishedStays
  <2>3. QED
    BY <2>1, <2>2, KeptStutters DEF Kept, Completed, Complete
<1>5. ASSUME tag = None, tag' \in Sources, UNCHANGED <<release, asset, held, shown>>
      PROVE  [Promise!Next]_Promise!promise
  <2>1. PublishedCandidate' = PublishedCandidate
    BY <1>5, PublishedSame, PublishedStays
  <2>2. Completed' = Completed /\ tag' # None
    BY <1>5 DEF Completed, Complete
  <2>3. QED
    BY <1>5, <2>1, <2>2 DEF Completed, Promise!Next, Promise!Tag
<1>6. ASSUME Listed # Ids, release' = [release EXCEPT ![NextId] = "draft"],
             UNCHANGED <<tag, asset, held, shown>>
      PROVE  [Promise!Next]_Promise!promise
  <2>1. Published' = Published
    BY <1>1, <1>6, NextIdIsFree DEF Published, ServerTypeOK
  <2>2. PublishedCandidate' = PublishedCandidate
    BY <1>6, <2>1, PublishedStays
  <2>3. QED
    BY <1>6, <2>2, KeptStutters DEF Kept, Completed, Complete
<1>7. ASSUME NEW g \in Registries, held[g] = None, held' = [held EXCEPT ![g] = Alien],
             UNCHANGED <<tag, release, asset>>
      PROVE  [Promise!Next]_Promise!promise
  <2>1. PublishedCandidate' = PublishedCandidate
    BY <1>7, PublishedSame, PublishedStays
  <2>2. Completed' = Completed
    BY <1>7 DEF Completed, Complete
  <2>3. Promise!Hold(g)
    BY <1>7, <2>1, <2>2 DEF Promise!Hold, Completed
  <2>4. QED
    BY <2>3 DEF Promise!Next
<1>8. CASE Intruded
  BY <1>5, <1>6, <1>7, <1>8 DEF Intruded
<1>9. QED
  BY <1>1, <1>2, <1>3, <1>4, <1>8, PerformedKeeps DEF ServerStep

\* The controller implements the promise: a candidate is complete before its
\* archives reach a registry, and one candidate is published, once, after both
\* registries hold its archives.
THEOREM ControllerKeepsPromise == Spec => PromiseKept
<1>1. Init => Promise!Init
  <2> SUFFICES ASSUME Init
               PROVE  Promise!Init
    OBVIOUS
  <2>1. PublishedCandidate = None
    BY DEF Init, Published, PublishedCandidate
  <2>2. PICK n \in Names : TRUE
    BY PublicationAssumption
  <2>3. \A c \in Candidates, i \in Ids : asset[i][n] # c
    BY PublicationAssumption DEF Init
  <2>4. Completed = {}
    BY <2>3 DEF Completed, Complete
  <2>5. QED
    BY <2>1, <2>4 DEF Init, Promise!Init, Completed
<1>2. Inv /\ [Next]_vars => [Promise!Next]_Promise!promise
  BY NextKeeps
<1>3. QED
  BY <1>1, <1>2, Invariance, PTL DEF Spec, PromiseKept, Promise!Spec
-----------------------------------------------------------------------------
(* The number of drafts. *)

\* The draft job has found no release and will create one.
Creating ==
  \/ at["draft"] = "post-release"
  \/ at["draft"] \in {"tag", "post-tag", "confirm"} /\ hand.id = 0

\* The unanswered creations of a release.
Lost == {w \in inflight : w.op = "release"}

Paid == (Faults - faults) + (Foreign - aliens)

AssetsHaveReleases ==
  \A i \in Ids : release[i] = "none" => \A n \in Names : asset[i][n] = None

\* Each lost creation was paid for, and with those still to come the releases
\* beyond the first are.
DraftsPaid ==
  /\ IsFiniteSet(Lost) /\ Cardinality(Lost) <= Faults - faults
  /\ Cardinality(Listed) + Cardinality(Lost) + (IF Creating THEN 1 ELSE 0) <= 1 + Paid

LEMMA ListsOneMore ==
  ASSUME TypeOK, Listed # Ids, release' = [release EXCEPT ![NextId] = "draft"]
  PROVE  NextId \in Ids /\ Listed' = Listed \cup {NextId}
<1>1. NextId \in Ids /\ release[NextId] = "none"
  BY NextIdIsFree
<1>2. QED
  BY <1>1 DEF Listed, TypeOK

\* Only the creation of a release adds one: what is published was a draft.
LEMMA OtherWritesListNone ==
  ASSUME Inv, AssetsHaveReleases, NEW w, Performed(w), w.op # "release"
  PROVE  Listed' = Listed /\ AssetsHaveReleases'
<1>1. Harmless(w) /\ w \in Writes
  BY SentHarmless DEF Performed, Harmless
<1>2. CASE w.op \in {"tag", "archive"}
  <2>1. UNCHANGED <<release, asset>>
    BY <1>2 DEF Performed, Apply
  <2>2. QED
    BY <2>1 DEF Listed, AssetsHaveReleases
<1>3. CASE w.op = "asset" /\ w.id \in Ids /\ w.name \in Names /\ w.candidate \in Candidates
  <2>1. /\ release[w.id] = "draft" /\ asset[w.id][w.name] = None
        /\ asset' = [asset EXCEPT ![w.id][w.name] = w.candidate]
        /\ UNCHANGED <<tag, release, held, shown>>
    BY <1>3 DEF Performed, Accepts, Apply
  <2>2. \A k \in Ids : k # w.id => asset'[k] = asset[k]
    BY <2>1 DEF Inv, TypeOK
  <2>3. QED
    BY <2>1, <2>2 DEF Listed, AssetsHaveReleases
<1>4. CASE w.op = "undraft" /\ w.id \in Ids /\ w.candidate \in Candidates
  <2>1. release' = [release EXCEPT ![w.id] = "published"] /\ UNCHANGED asset
    BY <1>4 DEF Performed, Accepts, Apply
  <2>2. Complete(w.id, w.candidate) /\ w.candidate # None
    BY <1>1, <1>4, PublicationAssumption DEF Harmless, Ready
  <2>3. release[w.id] # "none"
    BY <1>4, <2>2, PublicationAssumption DEF Complete, AssetsHaveReleases
  <2>4. QED
    BY <1>4, <2>1, <2>3 DEF Listed, AssetsHaveReleases, Inv, TypeOK
<1>5. QED
  BY <1>1, <1>2, <1>3, <1>4, WriteKinds

LEMMA CreationLists ==
  ASSUME Inv, AssetsHaveReleases, NEW w, Accepts(w), Apply(w), w.op = "release"
  PROVE  NextId \in Ids /\ Listed' = Listed \cup {NextId} /\ AssetsHaveReleases'
<1>1. /\ Listed # Ids /\ release' = [release EXCEPT ![NextId] = "draft"]
      /\ UNCHANGED asset
  BY DEF Accepts, Apply
<1>2. QED
  BY <1>1, ListsOneMore DEF AssetsHaveReleases, Inv, TypeOK

\* The steps of the other jobs: they leave the draft job where it is, and its
\* memory while it runs.
LEMMA OtherJobs ==
  ASSUME NEW j \in Jobs \ {"draft"},
         Step(j) \/ UnansweredWrite(j) \/ EndedFromOutside(j)
  PROVE  /\ \E s : at' = [at EXCEPT ![j] = s]
         /\ hand' = hand \/ (j # "hex" /\ at[j] # "idle")
<1> DEFINE Here == /\ \E s : at' = [at EXCEPT ![j] = s]
                   /\ hand' = hand \/ (j # "hex" /\ at[j] # "idle")
<1>1. ASSUME at[j] # "idle", NEW x, End(j, x) PROVE Here
  BY <1>1 DEF End
<1>2. ASSUME NEW s, Go(j, s), hand' = hand \/ (j # "hex" /\ at[j] # "idle") PROVE Here
  BY <1>2 DEF Go
<1>3. ASSUME at[j] # "idle", NEW ok, NEW s, Proceed(j, ok, s) PROVE Here
  BY <1>1, <1>2, <1>3 DEF Proceed, Fail
<1> SUFFICES Here
  OBVIOUS
<1> HIDE DEF Here
<1>4. CASE Start(j)
  BY <1>2, <1>4 DEF Start
<1>5. CASE RefusedWrite(j) \/ UnansweredWrite(j) \/ EndedFromOutside(j)
  BY <1>1, <1>5, WritingRuns DEF RefusedWrite, UnansweredWrite, EndedFromOutside, Fail
<1>6. CASE j = "preflight" /\ Preflight
  BY <1>1, <1>6 DEF Preflight, Fail
<1>7. CASE j = "ready" /\ RegistryReady
  BY <1>1, <1>3, <1>7 DEF RegistryReady
<1>8. CASE j \in Registries /\ PlanRegistry(j)
  BY <1>1, <1>2, <1>8 DEF PlanRegistry, Fail
<1>9. CASE j \in Registries /\ PostArchive(j)
  BY <1>2, <1>9 DEF PostArchive, Registries
<1>10. CASE j = "hex" /\ HexReadback
  BY <1>1, <1>10 DEF HexReadback
<1>11. CASE j = "npm" /\ NpmReadback
  BY <1>1, <1>2, <1>11 DEF NpmReadback, Fail
<1>12. CASE j = "finalize" /\ (InspectDraft \/ InspectAssets \/ FinalGate)
  BY <1>1, <1>2, <1>3, <1>12 DEF InspectDraft, InspectAssets, FinalGate, Fail
<1>13. CASE j = "finalize" /\ (PublishRelease \/ ConfirmRelease)
  BY <1>1, <1>2, <1>13 DEF PublishRelease, ConfirmRelease
<1>14. QED
  BY <1>4, <1>5, <1>6, <1>7, <1>8, <1>9, <1>10, <1>11, <1>12, <1>13
     DEF Step, RegistryStep

LEMMA OtherJobsCreateNone ==
  ASSUME TypeOK, NEW j \in Jobs \ {"draft"},
         Step(j) \/ UnansweredWrite(j) \/ EndedFromOutside(j), Creating'
  PROVE  Creating
<1>1. PICK s : at' = [at EXCEPT ![j] = s]
  BY OtherJobs
<1>2. at'["draft"] = at["draft"] /\ at["draft"] # "idle"
  BY <1>1 DEF TypeOK, Jobs, Creating
<1>3. ~(j # "hex" /\ at[j] # "idle")
  BY <1>2 DEF TypeOK, Jobs
<1>4. QED
  BY <1>2, <1>3, OtherJobs DEF Creating

\* What a step does to the releases and to those that are still to come.
Calm ==
  /\ Listed' = Listed /\ Lost' = Lost /\ (Creating' => Creating)
  /\ faults' \in {faults, faults - 1} /\ aliens' \in {aliens, aliens - 1}

FindsNone ==
  Listed = {} /\ Listed' = Listed /\ Lost' = Lost /\ UNCHANGED <<faults, aliens>>

\* What was listed has been overlooked, and another draft is on its way.
Overlooks ==
  /\ Listed' = Listed /\ Lost' = Lost /\ ~Creating
  /\ faults' = faults - 1 /\ UNCHANGED aliens

Creates ==
  /\ Listed' = Listed \cup {NextId} /\ Lost' = Lost /\ Creating /\ ~Creating'
  /\ UNCHANGED <<faults, aliens>>

LosesCreation ==
  /\ \E w : Lost' = Lost \cup {w}
  /\ Listed' = Listed /\ Creating /\ ~Creating'
  /\ faults' = faults - 1 /\ UNCHANGED aliens

PerformsLost ==
  /\ \E w \in Lost : Lost' = Lost \ {w}
  /\ Listed' \in {Listed, Listed \cup {NextId}}
  /\ Creating' = Creating /\ UNCHANGED <<faults, aliens>>

Intrudes ==
  /\ Listed' \in {Listed, Listed \cup {NextId}}
  /\ Lost' = Lost /\ Creating' = Creating
  /\ aliens' = aliens - 1 /\ UNCHANGED faults

DraftsStep ==
  \/ Calm \/ FindsNone \/ Overlooks \/ Creates \/ LosesCreation \/ PerformsLost \/ Intrudes

\* The steps of the draft job.
LEMMA DraftJobCounts ==
  ASSUME Inv, AssetsHaveReleases, Step("draft")
  PROVE  DraftsStep /\ AssetsHaveReleases'
<1> USE DEF Lost
<1>0. at \in [Jobs -> Steps] /\ "draft" \in Jobs /\ hand \in Hands
  BY TypesOfControl DEF Inv, Jobs
<1>1. ASSUME \/ Start("draft") \/ RefusedWrite("draft") \/ PlanTag \/ ConfirmTag
             \/ HoldTag \/ Inventory \/ VerifyDraft
      PROVE  Calm /\ AssetsHaveReleases'
  <2>1. UNCHANGED <<release, asset, inflight, faults, aliens>>
    BY <1>1 DEF Start, RefusedWrite, PlanTag, ConfirmTag, HoldTag, Inventory,
       VerifyDraft, Reads, server
  <2>2. Creating' => Creating
    <3>1. CASE Start("draft")
      BY <1>0, <3>1 DEF Start, Go, First, Creating
    <3>2. CASE RefusedWrite("draft")
      BY <1>0, <3>2 DEF RefusedWrite, Fail, End, Creating
    <3>3. CASE PlanTag \/ ConfirmTag
      BY <1>0, <3>3 DEF PlanTag, ConfirmTag, AfterTag, Proceed, Go, Fail, End, Creating
    <3>4. CASE HoldTag \/ Inventory \/ VerifyDraft
      BY <1>0, <3>4 DEF HoldTag, Inventory, VerifyDraft, Proceed, Go, Fail, End, Creating
    <3>5. QED
      BY <1>1, <3>1, <3>2, <3>3, <3>4
  <2>3. QED
    BY <2>1, <2>2 DEF Calm, Listed, AssetsHaveReleases
<1>2. CASE SelectDraft
  <2>1. UNCHANGED <<release, asset, inflight, faults, aliens>>
    BY <1>2 DEF SelectDraft, Reads, server
  <2>2. CASE \E i \in Selectable(runs[active].requested, Listed) :
               hand' = [hand EXCEPT !.id = i] /\ Go("draft", "tag")
    <3>1. PICK i \in Selectable(runs[active].requested, Listed) :
            hand' = [hand EXCEPT !.id = i] /\ Go("draft", "tag")
      BY <2>2
    <3>2. CASE i = 0
      <4>1. Listed = {}
        BY <3>2 DEF Selectable
      <4>2. QED
        BY <2>1, <4>1 DEF DraftsStep, FindsNone, Listed, AssetsHaveReleases
    <3>3. CASE i # 0
      <4>1. ~Creating'
        BY <1>0, <3>1, <3>3 DEF Go, Creating, Hands
      <4>2. QED
        BY <2>1, <4>1 DEF DraftsStep, Calm, Listed, AssetsHaveReleases
    <3>4. QED
      BY <3>2, <3>3
  <2>3. CASE Fail("draft")
    <3>1. ~Creating'
      BY <1>0, <2>3 DEF Fail, End, Creating
    <3>2. QED
      BY <2>1, <3>1 DEF DraftsStep, Calm, Listed, AssetsHaveReleases
  <2>4. QED
    BY <1>2, <2>2, <2>3 DEF SelectDraft, Select
<1>3. CASE PostTag
  <2>1. CreateTag(My) \in Writing("draft") /\ CreateTag(My).op = "tag"
    BY <1>3 DEF PostTag, Writing, CreateTag
  <2>2. Performed(CreateTag(My)) /\ UNCHANGED <<inflight, faults, aliens>>
    BY <1>0, <1>3, <2>1 DEF PostTag, Answered, Performed, Sent
  <2>3. Listed' = Listed /\ AssetsHaveReleases'
    BY <2>1, <2>2, OtherWritesListNone
  <2>4. Creating' => Creating
    BY <1>0, <1>3 DEF PostTag, Go, Creating
  <2>5. QED
    BY <2>2, <2>3, <2>4 DEF DraftsStep, Calm
<1>4. CASE PostRelease
  <2>1. CreateRelease(active).op = "release"
    BY DEF CreateRelease
  <2>2. /\ Accepts(CreateRelease(active)) /\ Apply(CreateRelease(active))
        /\ UNCHANGED <<inflight, faults, aliens>>
    BY <1>4 DEF PostRelease, Answered
  <2>3. NextId \in Ids /\ Listed' = Listed \cup {NextId} /\ AssetsHaveReleases'
    BY <2>1, <2>2, CreationLists
  <2>4. ~Creating'
    BY <1>0, <1>4 DEF PostRelease, Go, Creating
  <2>5. CASE Creating
    BY <2>2, <2>3, <2>4, <2>5 DEF DraftsStep, Creates
  <2>6. Creating
    BY <1>4 DEF PostRelease, Creating
  <2>7. QED
    BY <2>5, <2>6
<1>5. CASE Upload
  <2>1. PICK n \in hand.pending : Answered(UploadAsset(hand.id, n, My))
    BY <1>5 DEF Upload
  <2>2. /\ UploadAsset(hand.id, n, My) \in Writing("draft")
        /\ UploadAsset(hand.id, n, My).op = "asset"
    BY <1>5 DEF Upload, Writing, UploadAsset
  <2>3. Performed(UploadAsset(hand.id, n, My)) /\ UNCHANGED <<inflight, faults, aliens>>
    BY <1>0, <2>1, <2>2 DEF Answered, Performed, Sent
  <2>4. Listed' = Listed /\ AssetsHaveReleases'
    BY <2>2, <2>3, OtherWritesListNone
  <2>5. ~Creating'
    BY <1>0, <1>5 DEF Upload, Go, Creating
  <2>6. QED
    BY <2>3, <2>4, <2>5 DEF DraftsStep, Calm
<1>6. QED
  BY <1>1, <1>2, <1>3, <1>4, <1>5 DEF Step, DraftsStep, Registries

LEMMA DraftsCounted ==
  ASSUME Inv, AssetsHaveReleases, [Next]_vars
  PROVE  DraftsStep /\ AssetsHaveReleases'
<1> USE DEF Lost
<1>0. /\ at \in [Jobs -> Steps] /\ "draft" \in Jobs /\ hand \in Hands
      /\ faults \in 0..Faults /\ aliens \in 0..Foreign
  BY TypesOfControl DEF Inv, Jobs, TypeOK
<1>1. ASSUME UNCHANGED <<release, asset, inflight>>, Creating' => Creating,
             faults' \in {faults, faults - 1}, aliens' \in {aliens, aliens - 1}
      PROVE  DraftsStep /\ AssetsHaveReleases'
  BY <1>1 DEF DraftsStep, Calm, Listed, AssetsHaveReleases
<1>2. ASSUME NEW j \in Jobs \ {"draft"}, Step(j)
      PROVE  DraftsStep /\ AssetsHaveReleases'
  <2>1. Creating' => Creating
    BY <1>2, OtherJobsCreateNone DEF Inv
  <2>2. ASSUME NEW w \in Writing(j), Answered(w), w.op # "release"
        PROVE  DraftsStep /\ AssetsHaveReleases'
    <3>1. Performed(w) /\ UNCHANGED <<inflight, faults, aliens>>
      BY <2>2 DEF Answered, Performed, Sent
    <3>2. QED
      BY <2>1, <2>2, <3>1, OtherWritesListNone DEF DraftsStep, Calm
  <2>3. CASE j \in Registries /\ PostArchive(j)
    <3>1. PublishArchive(j, My) \in Writing(j) /\ PublishArchive(j, My).op = "archive"
      BY <2>3 DEF PostArchive, Writing, Registries, PublishArchive
    <3>2. QED
      BY <2>2, <2>3, <3>1 DEF PostArchive
  <2>4. CASE j = "finalize" /\ PublishRelease
    <3>1. Undraft(hand.id, My) \in Writing(j) /\ Undraft(hand.id, My).op = "undraft"
      BY <2>4 DEF PublishRelease, Writing, Registries, Undraft
    <3>2. QED
      BY <2>2, <2>4, <3>1 DEF PublishRelease
  <2>5. CASE Reads
    BY <1>1, <2>1, <2>5 DEF Reads, server
  <2>6. CASE j \in Registries /\ PlanRegistry(j)
    BY <2>5, <2>6 DEF PlanRegistry
  <2>7. Reads \/ (j \in Registries /\ RegistryStep(j)) \/ (j = "finalize" /\ PublishRelease)
    BY <1>2 DEF Step, Start, Preflight, RegistryReady, HexReadback, NpmReadback,
       InspectDraft, InspectAssets, FinalGate, ConfirmRelease, RefusedWrite
  <2>8. QED
    BY <2>3, <2>4, <2>5, <2>6, <2>7 DEF RegistryStep
<1>3. ASSUME NEW j \in Jobs, UnansweredWrite(j)
      PROVE  DraftsStep /\ AssetsHaveReleases'
  <2>1. PICK w \in Writing(j) : inflight' = inflight \cup {w}
    BY <1>3 DEF UnansweredWrite
  <2>2. UNCHANGED <<release, asset, aliens>> /\ faults' = faults - 1
    BY <1>3 DEF UnansweredWrite, server
  <2>3. Listed' = Listed /\ AssetsHaveReleases'
    BY <2>2 DEF Listed, AssetsHaveReleases
  <2>4. Creating' => Creating
    <3>1. CASE j = "draft"
      BY <1>0, <1>3, <3>1 DEF UnansweredWrite, Fail, End, Creating
    <3>2. QED
      BY <1>3, <3>1, OtherJobsCreateNone DEF Inv
  <2>5. CASE w.op # "release"
    <3>1. Lost' = Lost
      BY <2>1, <2>5
    <3>2. QED
      BY <2>2, <2>3, <2>4, <3>1 DEF DraftsStep, Calm
  <2>6. CASE w.op = "release"
    <3>1. Lost' = Lost \cup {w}
      BY <2>1, <2>6
    <3>2. j = "draft" /\ at[j] = "post-release"
      BY <2>1, <2>6 DEF Writing, CreateTag, UploadAsset, PublishArchive, Undraft
    <3>3. Creating /\ ~Creating'
      BY <1>0, <1>3, <3>2 DEF UnansweredWrite, Fail, End, Creating
    <3>4. QED
      BY <2>2, <2>3, <3>1, <3>3 DEF DraftsStep, LosesCreation
  <2>7. QED
    BY <2>5, <2>6
<1>4. ASSUME NEW j \in Jobs, EndedFromOutside(j)
      PROVE  DraftsStep /\ AssetsHaveReleases'
  <2>1. Creating' => Creating
    <3>1. CASE j = "draft"
      BY <1>0, <1>4, <3>1 DEF EndedFromOutside, Fail, End, Creating
    <3>2. QED
      BY <1>4, <3>1, OtherJobsCreateNone DEF Inv
  <2>2. QED
    BY <1>1, <1>4, <2>1 DEF EndedFromOutside, server
<1>5. CASE TruncatedUpload
  <2>1. PICK n \in hand.pending :
          /\ Accepts(UploadAsset(hand.id, n, My))
          /\ asset' = [asset EXCEPT ![hand.id][n] = Alien]
    BY <1>5 DEF TruncatedUpload
  <2>2. release[hand.id] = "draft" /\ hand.id \in Ids
    BY <1>5, <2>1 DEF Accepts, UploadAsset, TruncatedUpload, Inv, DraftHolds
  <2>3. \A k \in Ids : k # hand.id => asset'[k] = asset[k]
    BY <2>1 DEF Inv, TypeOK
  <2>4. /\ UNCHANGED <<release, inflight, faults>> /\ aliens' = aliens - 1
        /\ ~Creating'
    BY <1>0, <1>5 DEF TruncatedUpload, Fail, End, Creating
  <2>5. AssetsHaveReleases'
    BY <2>2, <2>3, <2>4 DEF AssetsHaveReleases
  <2>6. QED
    BY <2>4, <2>5 DEF DraftsStep, Calm, Listed
<1>6. CASE Conclude \/ Operate
  BY <1>1, <1>6 DEF Conclude, Operate, Dispatch, Rerun, Reads, server, Creating
<1>7. CASE Deliver
  <2>1. PICK w \in inflight : /\ inflight' = inflight \ {w}
                              /\ \/ Accepts(w) /\ Apply(w)
                                 \/ UNCHANGED server
    BY <1>7 DEF Deliver
  <2>2. Creating' = Creating /\ UNCHANGED <<faults, aliens>>
    BY <1>7 DEF Deliver, Creating
  <2>3. UNCHANGED server => Listed' = Listed /\ AssetsHaveReleases'
    BY DEF server, Listed, AssetsHaveReleases
  <2>4. CASE w.op # "release"
    <3>1. Lost' = Lost
      BY <2>1, <2>4
    <3>2. Listed' = Listed /\ AssetsHaveReleases'
      BY <2>1, <2>3, <2>4, OtherWritesListNone DEF Performed, Sent
    <3>3. QED
      BY <2>2, <3>1, <3>2 DEF DraftsStep, Calm
  <2>5. CASE w.op = "release"
    <3>1. w \in Lost /\ Lost' = Lost \ {w}
      BY <2>1, <2>5
    <3>2. Listed' \in {Listed, Listed \cup {NextId}} /\ AssetsHaveReleases'
      BY <2>1, <2>3, <2>5, CreationLists
    <3>3. QED
      BY <2>2, <3>1, <3>2 DEF DraftsStep, PerformsLost
  <2>6. QED
    BY <2>4, <2>5
<1>8. CASE ForeignWrite
  <2>1. /\ UNCHANGED <<inflight, faults>> /\ aliens' = aliens - 1
        /\ Creating' = Creating
    BY <1>8 DEF ForeignWrite, Creating
  <2>2. CASE UNCHANGED <<release, asset>>
    BY <1>1, <2>1, <2>2
  <2>3. CASE Listed # Ids /\ release' = [release EXCEPT ![NextId] = "draft"] /\ UNCHANGED asset
    <3>1. NextId \in Ids /\ Listed' = Listed \cup {NextId}
      BY <2>3, ListsOneMore DEF Inv
    <3>2. AssetsHaveReleases'
      BY <2>3, <3>1 DEF AssetsHaveReleases, Inv, TypeOK
    <3>3. QED
      BY <2>1, <3>1, <3>2 DEF DraftsStep, Intrudes
  <2>4. ASSUME NEW i \in Ids, NEW n \in Names \cup {Extra}, release[i] = "draft",
               asset' = [asset EXCEPT ![i][n] = Alien], UNCHANGED release
        PROVE  DraftsStep /\ AssetsHaveReleases'
    <3>1. \A k \in Ids : k # i => asset'[k] = asset[k]
      BY <2>4 DEF Inv, TypeOK
    <3>2. AssetsHaveReleases'
      BY <2>4, <3>1 DEF AssetsHaveReleases
    <3>3. QED
      BY <2>1, <2>4, <3>2 DEF DraftsStep, Calm, Listed
  <2>5. QED
    BY <1>8, <2>2, <2>3, <2>4 DEF ForeignWrite
<1>9. CASE \E g \in Registries : Expose(g)
  BY <1>1, <1>9 DEF Expose, Creating
<1>10. CASE UNCHANGED vars
  BY <1>1, <1>10 DEF vars, Creating
<1>11. CASE LaggingPreflight
  <2>1. ~Creating'
    BY <1>0, <1>11 DEF LaggingPreflight, End, Creating, Inv, TypeOK, Jobs
  <2>2. QED
    BY <1>1, <1>11, <2>1 DEF LaggingPreflight, server
<1>12. CASE LaggingSelect
  <2>1. /\ UNCHANGED <<release, asset, inflight, aliens>> /\ faults' = faults - 1
        /\ ~Creating
    BY <1>12 DEF LaggingSelect, Select, server, Creating
  <2>2. QED
    BY <2>1 DEF DraftsStep, Overlooks, Listed, AssetsHaveReleases
<1>13. QED
  BY <1>2, <1>3, <1>4, <1>5, <1>6, <1>7, <1>8, <1>9, <1>10, <1>11, <1>12,
     DraftJobCounts DEF Next, Fault

LEMMA ListedIsFinite == IsFiniteSet(Listed)
<1>1. IsFiniteSet(1..MaxReleases)
  BY FS_Interval, PublicationAssumption
<1>2. QED
  BY <1>1, FS_Subset DEF Listed, Ids

\* Every kind of step leaves the drafts paid for.
LEMMA DraftsStayPaid ==
  ASSUME TypeOK, TypeOK', DraftsPaid, DraftsStep
  PROVE  DraftsPaid'
<1> DEFINE l == Cardinality(Listed)
           m == Cardinality(Lost)
<1>1. /\ faults \in Nat /\ faults' \in Nat /\ aliens \in Nat /\ aliens' \in Nat
      /\ Faults \in Nat /\ Foreign \in Nat /\ faults <= Faults /\ aliens <= Foreign
  BY PublicationAssumption DEF TypeOK
<1>2. l \in Nat /\ m \in Nat
  BY ListedIsFinite, FS_CardinalityType DEF DraftsPaid
<1>3. Listed' = Listed => Cardinality(Listed)' = l
  OBVIOUS
<1>4. Listed' = Listed \cup {NextId} => Cardinality(Listed)' \in {l, l + 1}
  BY ListedIsFinite, FS_AddElement
<1>5. Lost' = Lost => IsFiniteSet(Lost)' /\ Cardinality(Lost)' = m
  <2>1. IsFiniteSet(Lost)
    BY DEF DraftsPaid
  <2> HIDE DEF Lost
  <2>2. QED
    BY <2>1
<1>6. /\ m <= Faults - faults
      /\ l + m + (IF Creating THEN 1 ELSE 0) <= 1 + ((Faults - faults) + (Foreign - aliens))
  BY DEF DraftsPaid, Paid
<1> DEFINE Bounded(a, b) ==
             /\ b <= Faults - faults'
             /\ a + b + (IF Creating' THEN 1 ELSE 0)
                  <= 1 + ((Faults - faults') + (Foreign - aliens'))
<1>7. IsFiniteSet(Lost)' /\ Bounded(Cardinality(Listed)', Cardinality(Lost)')
        => DraftsPaid'
  BY DEF DraftsPaid, Paid
<1> HIDE DEF l, m
<1>8. ASSUME Calm
      PROVE  IsFiniteSet(Lost)' /\ Bounded(Cardinality(Listed)', Cardinality(Lost)')
  <2>1. /\ Cardinality(Listed)' = l /\ IsFiniteSet(Lost)' /\ Cardinality(Lost)' = m
        /\ Creating' => Creating
        /\ faults' \in {faults, faults - 1} /\ aliens' \in {aliens, aliens - 1}
    BY <1>3, <1>5, <1>8 DEF Calm
  <2>2. PICK f \in Nat, a \in Nat : f = faults' /\ a = aliens'
    BY <1>1
  <2>3. f <= faults /\ a <= aliens
    BY <1>1, <2>1, <2>2
  <2>4. m <= Faults - f
    BY <1>1, <1>2, <1>6, <2>3
  <2>5. l + m + (IF Creating' THEN 1 ELSE 0) <= 1 + ((Faults - f) + (Foreign - a))
    BY <1>1, <1>2, <1>6, <2>1, <2>3
  <2>6. QED
    BY <2>1, <2>2, <2>4, <2>5
<1>9. ASSUME FindsNone
      PROVE  IsFiniteSet(Lost)' /\ Bounded(Cardinality(Listed)', Cardinality(Lost)')
  <2>1. l = 0
    BY <1>9, FS_EmptySet DEF FindsNone, l
  <2>2. QED
    BY <1>1, <1>2, <1>3, <1>5, <1>6, <1>9, <2>1 DEF FindsNone
<1>10. ASSUME Creates
      PROVE  IsFiniteSet(Lost)' /\ Bounded(Cardinality(Listed)', Cardinality(Lost)')
  BY <1>1, <1>2, <1>4, <1>5, <1>6, <1>10 DEF Creates
<1>11. ASSUME LosesCreation
      PROVE  IsFiniteSet(Lost)' /\ Bounded(Cardinality(Listed)', Cardinality(Lost)')
  <2>1. IsFiniteSet(Lost)' /\ Cardinality(Lost)' \in {m, m + 1}
    BY <1>11, FS_AddElement DEF LosesCreation, DraftsPaid, m
  <2>2. QED
    BY <1>1, <1>2, <1>3, <1>6, <1>11, <2>1 DEF LosesCreation
<1>12. ASSUME PerformsLost
      PROVE  IsFiniteSet(Lost)' /\ Bounded(Cardinality(Listed)', Cardinality(Lost)')
  <2>1. IsFiniteSet(Lost)' /\ Cardinality(Lost)' = m - 1
    BY <1>12, FS_RemoveElement DEF PerformsLost, DraftsPaid, m
  <2>2. QED
    BY <1>1, <1>2, <1>3, <1>4, <1>6, <1>12, <2>1 DEF PerformsLost
<1>13. ASSUME Intrudes
      PROVE  IsFiniteSet(Lost)' /\ Bounded(Cardinality(Listed)', Cardinality(Lost)')
  BY <1>1, <1>2, <1>3, <1>4, <1>5, <1>6, <1>13 DEF Intrudes
<1>14. ASSUME Overlooks
      PROVE  IsFiniteSet(Lost)' /\ Bounded(Cardinality(Listed)', Cardinality(Lost)')
  BY <1>1, <1>2, <1>3, <1>5, <1>6, <1>14 DEF Overlooks
<1>15. QED
  BY <1>7, <1>8, <1>9, <1>10, <1>11, <1>12, <1>13, <1>14 DEF DraftsStep

\* However often the jobs are rerun, the releases of the version beyond the
\* first were paid for by a lost answer, by a list that did not show yet what had
\* been created, or by a foreign write: the draft job lists what there is before
\* it creates one (release_from, acquire_draft_from).
THEOREM DraftsAreCounted == Spec => []DraftsFollowFaults
<1>1. Init => AssetsHaveReleases /\ DraftsPaid
  <2> SUFFICES ASSUME Init PROVE AssetsHaveReleases /\ DraftsPaid
    OBVIOUS
  <2>1. Listed = {} /\ Lost = {} /\ ~Creating /\ Paid = 0
    BY PublicationAssumption DEF Init, Listed, Lost, Creating, Paid, Jobs
  <2>2. QED
    BY <2>1, FS_EmptySet, PublicationAssumption DEF Init, AssetsHaveReleases, DraftsPaid
<1>2. Inv /\ Inv' /\ AssetsHaveReleases /\ DraftsPaid /\ [Next]_vars
        => (AssetsHaveReleases /\ DraftsPaid)'
  BY DraftsCounted, DraftsStayPaid DEF Inv
<1>3. Inv /\ DraftsPaid => DraftsFollowFaults
  <2> SUFFICES ASSUME Inv, DraftsPaid PROVE DraftsFollowFaults
    OBVIOUS
  <2>1. Cardinality(Listed) \in Nat /\ Cardinality(Lost) \in Nat
    BY ListedIsFinite, FS_CardinalityType DEF DraftsPaid
  <2>2. faults \in Nat /\ aliens \in Nat /\ Faults \in Nat /\ Foreign \in Nat
    BY PublicationAssumption DEF Inv, TypeOK
  <2>3. QED
    BY <2>1, <2>2 DEF DraftsPaid, Paid, DraftsFollowFaults
<1>4. QED
  BY <1>1, <1>2, <1>3, Invariance, PTL DEF Spec

=============================================================================
