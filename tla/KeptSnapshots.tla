--------------------------- MODULE KeptSnapshots ---------------------------
(***************************************************************************)
(* The workspace copies a run keeps for the next one, and who removes      *)
(* them: the run that captures over one (snapshot.keep), the collection    *)
(* each run makes of the least recently used copies of all workspaces      *)
(* (cache.collect_snapshots), and the command `cache clean` (cache.clean). *)
(*                                                                         *)
(* The lock file of a workspace is one variable here: taking it, with the  *)
(* reclaim of a dead owner's, is one step.  That it does not exclude every *)
(* other run (WorkspaceLock) is the action Rob: a living owner's file is   *)
(* removed, it does not know, and the next acquire succeeds beside it.     *)
(* Captures and deletions of a tree are not atomic: each is a step that    *)
(* leaves the tree torn and one that completes it.                         *)
(***************************************************************************)
EXTENDS Naturals, FiniteSets

CONSTANTS
  Procs,       \* the invocations of the command that ever run
  Cleaners,    \* those that are `cache clean`; the others are `run`
  Killable,    \* those that may be killed before they end by themselves
  Workspaces,  \* the workspaces that share one cache directory
  Home,        \* the workspace each invocation is made in
  Keeps,       \* the values of keep_snapshots each invocation may find: how
               \* many copies its collection retains; 0 also when the cache is off
  MarkersFail, \* TRUE when a marker may fail to be written
  Stamps,      \* what the wall clock may show when a marker is written
  None         \* no process

ASSUME KeptAssumption ==
  /\ Cleaners \subseteq Procs
  /\ Killable \subseteq Procs
  /\ Home \in [Procs -> Workspaces]
  /\ Keeps \in [Procs -> SUBSET Nat]
  /\ IsFiniteSet(Workspaces)
  /\ MarkersFail \in BOOLEAN
  /\ Stamps \subseteq Nat
  /\ None \notin Procs

VARIABLES
  pc,       \* the step each invocation is at
  keep,     \* keep_snapshots of each invocation that has begun
  failed,   \* the invocations whose result is an error
  killed,   \* those that were killed
  stuck,    \* those of them whose lock file nobody reclaims: its metadata was
            \* not written yet, or another process has their pid now
  lock,     \* whose lock file is in each workspace's directory
  robbed,   \* history: the workspaces whose lock a living owner has lost
  copy,     \* each workspace's kept copy: absent, torn or whole
  used,     \* each workspace's snapshot.used marker; 0 when there is none
  private,  \* the invocations with a temporary copy of their own on disk
  pending,  \* the directories each collection has not looked at yet
  noted,    \* the markers each collection read, of the copies it saw
  victims,  \* the workspaces each collection has still to remove
  target,   \* the one it is removing
  torn,     \* history: the runs that duplicated a copy that was not whole
  quiet     \* history: the collections no other invocation overlapped

vars == <<pc, keep, failed, killed, stuck, lock, robbed, copy, used, private,
          pending, noted, victims, target, torn, quiet>>

ended == <<killed, stuck>>
locks == <<lock, robbed>>
collection == <<pending, noted, victims, target>>
history == <<torn, quiet>>

Steps == {"idle", "locking", "session", "capturing", "discard", "private",
          "mark", "list", "collect", "delete", "deleting", "unmark", "unlock",
          "work", "dispose", "release", "clean", "cleaning", "cleaned", "done",
          "killed"}

TypeOK ==
  /\ pc \in [Procs -> Steps]
  /\ keep \in [Procs -> Nat]
  /\ failed \subseteq Procs /\ killed \subseteq Procs /\ stuck \subseteq killed
  /\ lock \in [Workspaces -> Procs \cup {None}]
  /\ copy \in [Workspaces -> {"absent", "torn", "whole"}]
  /\ robbed \subseteq Workspaces
  /\ used \in [Workspaces -> Stamps \cup {0}]
  /\ private \subseteq Procs
  /\ pending \in [Procs -> SUBSET Workspaces]
  /\ \A p \in Procs : noted[p] \in [DOMAIN noted[p] -> Stamps \cup {0}]
  /\ victims \in [Procs -> SUBSET Workspaces]
  /\ \A p \in Procs : victims[p] \subseteq DOMAIN noted[p]
  /\ target \in [Procs -> Workspaces]
  /\ torn \subseteq Procs /\ quiet \subseteq Procs

Init ==
  /\ pc = [p \in Procs |-> "idle"]
  /\ keep = [p \in Procs |-> 0]
  /\ failed = {} /\ killed = {} /\ stuck = {} /\ private = {}
  /\ lock = [w \in Workspaces |-> None]
  /\ copy = [w \in Workspaces |-> "absent"]
  /\ robbed = {}
  /\ used = [w \in Workspaces |-> 0]
  /\ pending = [p \in Procs |-> {}]
  /\ noted = [p \in Procs |-> [w \in {} |-> 0]]
  /\ victims = [p \in Procs |-> {}]
  /\ target = [p \in Procs |-> Home[p]]
  /\ torn = {} /\ quiet = {}

Move(p, from, to) ==
  /\ p \notin killed
  /\ pc[p] = from
  /\ pc' = [pc EXCEPT ![p] = to]

Go(p, from, to) == Move(p, from, to) /\ UNCHANGED keep

\* An acquire without a wait succeeds: there is no lock file, or its owner is
\* dead and known to be.
Free(w) == lock[w] \in (killed \ stuck) \cup {None}

Fail(p) == failed' = failed \cup {p}

\* What a collection knows goes with it.
Forget(p) ==
  /\ pending' = [pending EXCEPT ![p] = {}]
  /\ noted' = [noted EXCEPT ![p] = [w \in {} |-> 0]]
  /\ victims' = [victims EXCEPT ![p] = {}]
  /\ target' = [target EXCEPT ![p] = Home[p]]

\* release_lock: a file that is not there, or another's, is an error and stays.
Unlock(p, w) ==
  \/ lock[w] = p /\ lock' = [lock EXCEPT ![w] = None] /\ UNCHANGED failed
  \/ lock[w] # p /\ Fail(p) /\ UNCHANGED lock

-----------------------------------------------------------------------------
(* engine.run: the lock and the session *)

\* A new invocation overlaps every collection but its own.
Begin(p) ==
  /\ Move(p, "idle", IF p \in Cleaners THEN "clean" ELSE "locking")
  /\ \E k \in Keeps[p] : keep' = [keep EXCEPT ![p] = k]
  /\ quiet' = quiet \cap {p}
  /\ UNCHANGED <<failed, ended, locks, copy, used, private, collection,
                 torn>>

Lock(p) ==
  /\ Free(Home[p])
  /\ Go(p, "locking", "session")
  /\ lock' = [lock EXCEPT ![Home[p]] = p]
  /\ UNCHANGED <<failed, ended, robbed, copy, used, private, collection,
                 history>>

LockRefused(p) ==
  /\ ~Free(Home[p])
  /\ Go(p, "locking", "done")
  /\ Fail(p)
  /\ UNCHANGED <<ended, locks, copy, used, private, collection, history>>

\* with_session's checks of the configuration and the changed paths.
SessionRejected(p) ==
  /\ Go(p, "session", "release")
  /\ Fail(p)
  /\ UNCHANGED <<ended, locks, copy, used, private, collection, history>>

\* snapshot.keep starts to write over the kept copy.
CaptureBegins(p) ==
  /\ keep[p] > 0
  /\ Go(p, "session", "capturing")
  /\ copy' = [copy EXCEPT ![Home[p]] = "torn"]
  /\ UNCHANGED <<failed, ended, locks, used, private, collection, history>>

\* It is the workspace, byte for byte.
Captured(p) ==
  /\ Go(p, "capturing", "mark")
  /\ copy' = [copy EXCEPT ![Home[p]] = "whole"]
  /\ UNCHANGED <<failed, ended, locks, used, private, collection, history>>

\* Mutant of CaptureFailed: a copy that does not match is used all the same.
CaptureUnchecked(p) ==
  /\ Go(p, "capturing", "mark")
  /\ UNCHANGED <<failed, ended, locks, copy, used, private, collection,
                 history>>

\* The copy cannot be written, or the workspace changed, or the two differ.
CaptureFailed(p) ==
  /\ Go(p, "capturing", "discard")
  /\ UNCHANGED <<failed, ended, locks, copy, used, private, collection,
                 history>>

\* The result of this deletion is ignored.
Discard(p) ==
  /\ Go(p, "discard", "private")
  /\ \E left \in {"absent", "torn"} : copy' = [copy EXCEPT ![Home[p]] = left]
  /\ UNCHANGED <<failed, ended, locks, used, private, collection, history>>

\* Nothing is kept: with_session goes to a temporary copy directly.
SessionPrivate(p) ==
  /\ keep[p] = 0
  /\ Go(p, "session", "private")
  /\ UNCHANGED <<failed, ended, locks, copy, used, private, collection,
                 history>>

\* snapshot.create_excluding.
CreatePrivate(p) ==
  /\ Go(p, "private", "work")
  /\ private' = private \cup {p}
  /\ UNCHANGED <<failed, ended, locks, copy, used, collection, history>>

\* It failed and removed what it had written.
CreateFailed(p) ==
  /\ Go(p, "private", "release")
  /\ Fail(p)
  /\ UNCHANGED <<ended, locks, copy, used, private, collection, history>>

-----------------------------------------------------------------------------
(* cache.mark_snapshot_used and cache.collect_snapshots *)

\* After the marker, the directories of the workspaces are listed.
Marked(p) ==
  /\ Go(p, "mark", "list")
  /\ pending' = [pending EXCEPT ![p] = Workspaces]
  /\ quiet' = IF \A q \in Procs \ {p} : pc[q] \in {"idle", "done"} \/ q \in killed
              THEN quiet \cup {p} ELSE quiet
  /\ UNCHANGED <<failed, ended, locks, copy, private, noted, victims, target,
                 torn>>

\* The marker holds what the wall clock shows: the time another marker has
\* already, or an earlier one, when it is read twice in a millisecond or set
\* back.
Mark(p) ==
  /\ Marked(p)
  /\ \E now \in Stamps : used' = [used EXCEPT ![Home[p]] = now]

\* The marker cannot be written, which nothing reports: the old one stays, or
\* is left empty.
MarkFailed(p) ==
  /\ MarkersFail
  /\ Marked(p)
  /\ \E left \in {0, used[Home[p]]} : used' = [used EXCEPT ![Home[p]] = left]

\* What a reader may find in a marker: nothing also while it is written.
Shown(w) ==
  {used[w]} \cup {0 : p \in {q \in Procs : Home[q] = w /\ pc[q] = "mark"}}

\* One directory is looked at: does it hold a copy, and when was it used.
Note(p, w) ==
  /\ w \in pending[p]
  /\ Go(p, "list", "list")
  /\ pending' = [pending EXCEPT ![p] = @ \ {w}]
  /\ \E time \in Shown(w) :
       noted' = [noted EXCEPT ![p] =
         IF copy[w] = "absent" THEN @
         ELSE [v \in DOMAIN @ \cup {w} |-> IF v = w THEN time ELSE @[v]]]
  /\ UNCHANGED <<failed, ended, locks, copy, used, private, victims,
                 target, history>>

Least(a, b) == IF a < b THEN a ELSE b

\* The mutant of MostRecent keeps the least recently used.
LeastRecent(markers, budget, kept) ==
  /\ kept \subseteq DOMAIN markers
  /\ Cardinality(kept) = Least(budget, Cardinality(DOMAIN markers))
  /\ \A w \in kept, v \in DOMAIN markers \ kept : markers[v] >= markers[w]

\* `kept` are the `budget` most recently used of `markers`, whichever of equal
\* ones.
MostRecent(markers, budget, kept) ==
  /\ kept \subseteq DOMAIN markers
  /\ Cardinality(kept) = Least(budget, Cardinality(DOMAIN markers))
  /\ \A w \in kept, v \in DOMAIN markers \ kept : markers[v] <= markers[w]

\* Mutant of Select: what is not among those to keep is removed, listed or not.
SelectUnlisted(p) ==
  /\ pending[p] = {}
  /\ Go(p, "list", "collect")
  /\ \E kept \in SUBSET DOMAIN noted[p] :
       /\ MostRecent(noted[p], keep[p], kept)
       /\ victims' = [victims EXCEPT ![p] = Workspaces \ kept]
  /\ UNCHANGED <<failed, ended, locks, copy, used, private, pending,
                 noted, target, history>>

\* Sort by use, drop the first keep: the rest are to be removed, the run's own
\* copy among them when other markers are as late as its own.
Select(p) ==
  /\ pending[p] = {}
  /\ Go(p, "list", "collect")
  /\ \E kept \in SUBSET DOMAIN noted[p] :
       /\ MostRecent(noted[p], keep[p], kept)
       /\ victims' = [victims EXCEPT ![p] = DOMAIN noted[p] \ kept]
  /\ UNCHANGED <<failed, ended, locks, copy, used, private, pending,
                 noted, target, history>>

\* Mutant of CollectLocks: the copy is removed under whoever holds it.
CollectUnlocked(p, w) ==
  /\ w \in victims[p]
  /\ Go(p, "collect", "delete")
  /\ victims' = [victims EXCEPT ![p] = @ \ {w}]
  /\ target' = [target EXCEPT ![p] = w]
  /\ UNCHANGED <<failed, ended, locks, copy, used, private, pending,
                 noted, history>>

\* acquire_lock with no patience: a held lock skips its workspace, also the
\* collector's own, whose pid answers.
CollectLocks(p, w) ==
  /\ w \in victims[p]
  /\ Free(w)
  /\ Go(p, "collect", "delete")
  /\ lock' = [lock EXCEPT ![w] = p]
  /\ victims' = [victims EXCEPT ![p] = @ \ {w}]
  /\ target' = [target EXCEPT ![p] = w]
  /\ UNCHANGED <<failed, ended, robbed, copy, used, private, pending, noted,
                 history>>

\* Mutant of CollectSkips: the collection waits for the lock.
CollectWaits(p, w) ==
  /\ w \in victims[p]
  /\ ~Free(w)
  /\ Go(p, "collect", "collect")
  /\ UNCHANGED <<failed, ended, locks, copy, used, private, collection,
                 history>>

CollectSkips(p, w) ==
  /\ w \in victims[p]
  /\ ~Free(w)
  /\ Go(p, "collect", "collect")
  /\ victims' = [victims EXCEPT ![p] = @ \ {w}]
  /\ UNCHANGED <<failed, ended, locks, copy, used, private, pending,
                 noted, target, history>>

DeleteBegins(p) ==
  /\ Go(p, "delete", "deleting")
  /\ copy' = [copy EXCEPT ![target[p]] = IF @ = "absent" THEN @ ELSE "torn"]
  /\ UNCHANGED <<failed, ended, locks, used, private, collection, history>>

Deleted(p) ==
  /\ Go(p, "deleting", "unmark")
  /\ copy' = [copy EXCEPT ![target[p]] = "absent"]
  /\ UNCHANGED <<failed, ended, locks, used, private, collection, history>>

DeleteFailed(p) ==
  /\ Go(p, "deleting", "unlock")
  /\ Fail(p)
  /\ UNCHANGED <<ended, locks, copy, used, private, collection, history>>

Unmark(p) ==
  /\ Go(p, "unmark", "unlock")
  /\ used' = [used EXCEPT ![target[p]] = 0]
  /\ UNCHANGED <<failed, ended, locks, copy, private, collection, history>>

UnmarkFailed(p) ==
  /\ Go(p, "unmark", "unlock")
  /\ Fail(p)
  /\ UNCHANGED <<ended, locks, copy, used, private, collection, history>>

\* A removal or a release that failed ends the collection, and the run with
\* it; there is no temporary copy to dispose of then.
UnlockTarget(p) ==
  /\ Unlock(p, target[p])
  /\ IF p \in failed' THEN Go(p, "unlock", "release") /\ Forget(p)
     ELSE Go(p, "unlock", "collect") /\ UNCHANGED collection
  /\ UNCHANGED <<ended, robbed, copy, used, private, history>>

Collected(p) ==
  /\ victims[p] = {}
  /\ Go(p, "collect", "work")
  /\ UNCHANGED <<failed, ended, locks, copy, used, private, collection,
                 history>>

-----------------------------------------------------------------------------
(* The rest of the run, and cache.clean *)

\* snapshot.duplicate, which digests nothing: a worker's copy is whatever the
\* kept tree is now.  As often as there are workers, batches and lanes.
Duplicate(p) ==
  /\ Go(p, "work", "work")
  /\ torn' = IF p \in private \/ copy[Home[p]] = "whole"
             THEN torn ELSE torn \cup {p}
  /\ UNCHANGED <<failed, ended, locks, copy, used, private, collection,
                 quiet>>

\* The action returned, with or without an error.
Finish(p) ==
  /\ Go(p, "work", "dispose")
  /\ failed' \in {failed, failed \cup {p}}
  /\ Forget(p)
  /\ UNCHANGED <<ended, locks, copy, used, private, history>>

\* Mutant of Dispose: a temporary copy that stays behind is not reported.
DisposeUnreported(p) ==
  /\ Go(p, "dispose", "release")
  /\ \/ private' = private \ {p}
     \/ p \in private /\ UNCHANGED private
  /\ UNCHANGED <<failed, ended, locks, copy, used, collection, history>>

\* snapshot.dispose: nothing to do for a kept copy; a temporary one is
\* deleted, or stays behind and makes the result an error.
Dispose(p) ==
  /\ Go(p, "dispose", "release")
  /\ \/ private' = private \ {p} /\ UNCHANGED failed
     \/ p \in private /\ UNCHANGED private /\ Fail(p)
  /\ UNCHANGED <<ended, locks, copy, used, collection, history>>

\* An error of the release is the run's (GMU7003).
Release(p) ==
  /\ Unlock(p, Home[p])
  /\ Go(p, "release", "done")
  /\ UNCHANGED <<ended, robbed, copy, used, private, collection, history>>

\* `cache clean` takes no lock.
CleanBegins(p) ==
  /\ Go(p, "clean", "cleaning")
  /\ copy' = [copy EXCEPT ![Home[p]] = IF @ = "absent" THEN @ ELSE "torn"]
  /\ UNCHANGED <<failed, ended, locks, used, private, collection, history>>

Cleaned(p) ==
  /\ Go(p, "cleaning", "cleaned")
  /\ copy' = [copy EXCEPT ![Home[p]] = "absent"]
  /\ UNCHANGED <<failed, ended, locks, used, private, collection, history>>

\* The outcomes, the copy or the marker cannot be removed.
CleanFailed(p) ==
  /\ \E from \in {"clean", "cleaning", "cleaned"} : Go(p, from, "done")
  /\ Fail(p)
  /\ UNCHANGED <<ended, locks, copy, used, private, collection, history>>

CleanUnmarks(p) ==
  /\ Go(p, "cleaned", "done")
  /\ used' = [used EXCEPT ![Home[p]] = 0]
  /\ UNCHANGED <<failed, ended, locks, copy, private, collection, history>>

\* A marker it was writing may stay empty.
Kill(p) ==
  /\ p \in Killable
  /\ \E from \in Steps \ {"idle", "done"} : Go(p, from, "killed")
  /\ killed' = killed \cup {p}
  /\ stuck' \in {stuck, stuck \cup {p}}
  /\ \/ UNCHANGED used
     \/ pc[p] = "mark" /\ used' = [used EXCEPT ![Home[p]] = 0]
  /\ Forget(p)
  /\ UNCHANGED <<failed, locks, copy, private, history>>

\* An acquire that once read the lock of an invocation that has ended unlinks
\* the path, and a living owner's file with it.  A robbed owner that releases,
\* or fails to write its metadata, may do the same to the next.
Rob(w) ==
  /\ lock[w] \notin killed \cup {None}
  /\ \/ w \in robbed
     \/ /\ \E p \in Procs : p \in killed \/ pc[p] = "done"
        /\ \E p \in Procs \ (killed \cup {lock[w]}) :
             \/ pc[p] = "locking" /\ Home[p] = w
             \/ pc[p] = "collect" /\ w \in victims[p]
  /\ lock' = [lock EXCEPT ![w] = None]
  /\ robbed' = robbed \cup {w}
  /\ UNCHANGED <<pc, keep, failed, ended, copy, used, private, collection,
                 history>>

-----------------------------------------------------------------------------

Session(p) ==
  \/ Lock(p) \/ LockRefused(p) \/ SessionRejected(p)
  \/ CaptureBegins(p) \/ Captured(p) \/ CaptureFailed(p) \/ Discard(p)
  \/ SessionPrivate(p) \/ CreatePrivate(p) \/ CreateFailed(p)

Collection(p) ==
  \/ Mark(p) \/ MarkFailed(p) \/ Select(p)
  \/ \E w \in Workspaces : Note(p, w) \/ CollectLocks(p, w) \/ CollectSkips(p, w)
  \/ DeleteBegins(p) \/ Deleted(p) \/ DeleteFailed(p)
  \/ Unmark(p) \/ UnmarkFailed(p) \/ UnlockTarget(p) \/ Collected(p)

Clean(p) == CleanBegins(p) \/ Cleaned(p) \/ CleanFailed(p) \/ CleanUnmarks(p)

Progress(p) ==
  Session(p) \/ Collection(p) \/ Finish(p) \/ Dispose(p) \/ Release(p) \/ Clean(p)

Act(p) == Begin(p) \/ Progress(p) \/ Duplicate(p) \/ Kill(p)

Next == (\E p \in Procs : Act(p)) \/ (\E w \in Workspaces : Rob(w))

Spec == Init /\ [][Next]_vars

\* The host keeps running an invocation that has begun, and the work of a run
\* ends; nothing obliges an invocation to begin or to be killed.
FairSpec == Spec /\ \A p \in Procs : WF_vars(Progress(p))

-----------------------------------------------------------------------------
(* Properties *)

\* The runs that work in their kept copy, from the end of its capture on.
InKeptCopy(p) ==
  /\ p \notin killed \cup private
  /\ pc[p] \in {"mark", "list", "collect", "delete", "deleting", "unmark",
                "unlock", "work"}

\* No other run, capture or collection damages the copy a run works in, and
\* neither does its own collection, unless some run of that workspace has had
\* its lock removed from under it: then two runs may work there, or one work
\* where another removes.
WholeUnlessRobbed ==
  \A p \in Procs :
    InKeptCopy(p) => copy[Home[p]] = "whole" \/ Home[p] \in robbed

\* A run whose worker got a torn tree overlapped a `cache clean` of its own
\* workspace, or that workspace's lock was removed from under its owner: as
\* long as the lock excludes, captures, collections, killed runs and failed
\* deletions of others never tear the copy it duplicates.
TornByCleanOrRobbery ==
  \A p \in torn :
    \/ \E c \in Cleaners : Home[c] = Home[p] /\ pc[c] # "idle"
    \/ Home[p] \in robbed

\* Every returned result has passed through lock release, a collection's
\* locks on other workspaces included, and through the disposal of its
\* temporary copy, or says that this failed.
ResultsLeaveNothing ==
  \A p \in Procs :
    pc[p] = "done" =>
      /\ \A w \in Workspaces : lock[w] # p
      /\ p \in private => p \in failed

Copies == {w \in Workspaces : copy[w] # "absent"}

\* The copies that are not behind the lock of a dead owner nobody reclaims.
Collectable == {w \in Copies : lock[w] \notin stuck}

\* The marker of the run's own copy is later than all the others it read.
Latest(p) ==
  /\ Home[p] \in DOMAIN noted[p]
  /\ \A w \in DOMAIN noted[p] \ {Home[p]} : noted[p][w] < noted[p][Home[p]]

\* A collection that nothing overlapped leaves, besides the copy its own run
\* works in, at most its budget of the copies it can lock; with it too when the
\* clock gave its marker a later time than the others have.  Its own copy is
\* left whatever the markers say: the run's own lock protects it, unless that
\* was removed from under it.
QuietCollectionInBudget ==
  \A p \in quiet \ killed :
    pc[p] = "work" =>
      /\ Cardinality(Collectable \ {Home[p]}) <= keep[p]
      /\ Latest(p) => Cardinality(Collectable) <= keep[p]
      /\ Home[p] \in Copies \cup robbed

\* Every invocation ends unless it is killed: a collection that meets a held
\* lock, of a run that may be collecting too, does not wait for it.
EveryInvocationEnds ==
  \A p \in Procs : pc[p] # "idle" ~> (pc[p] = "done" \/ p \in killed)

=============================================================================
