------------------------ MODULE KeptSnapshotsProofs ------------------------
(***************************************************************************)
(* What the kept copies guarantee for every number of invocations and      *)
(* workspaces, whatever is killed, cannot be removed or cannot be written. *)
(*                                                                         *)
(* The invariant is about ownership: a living run owns its own workspace's *)
(* lock from the session to the release and, while it removes a victim,    *)
(* that of another workspace, unless that lock has been removed from under *)
(* somebody, and it never owns anything else.  Whoever damages a kept copy *)
(* then owns its lock, or is `cache clean`, or the lock has been robbed,   *)
(* so in all other cases no run that works in the copy can be alive.       *)
(***************************************************************************)
EXTENDS KeptSnapshots, FiniteSetTheorems, TLAPS

Holding == {"session", "capturing", "discard", "private", "mark", "list",
            "collect", "delete", "deleting", "unmark", "unlock", "work",
            "dispose", "release"}

Removing == {"delete", "deleting", "unmark", "unlock"}

Alive == Procs \ killed

NotedTypes ==
  /\ noted = [p \in Procs |-> noted[p]]
  /\ \A p \in Procs : DOMAIN noted[p] \subseteq Workspaces

HomeHeld ==
  \A p \in Alive : pc[p] \in Holding => lock[Home[p]] = p \/ Home[p] \in robbed

TargetHeld ==
  \A p \in Alive : pc[p] \in Removing =>
    /\ lock[target[p]] = p \/ target[p] \in robbed
    /\ target[p] = Home[p] => Home[p] \in robbed

NothingElseHeld ==
  \A w \in Workspaces, p \in Alive : lock[w] = p =>
    \/ pc[p] \in Holding /\ w = Home[p]
    \/ pc[p] \in Removing /\ w = target[p]

KilledStay == \A p \in killed : pc[p] = "killed"

CleanersClean ==
  \A p \in Procs : pc[p] \in {"clean", "cleaning", "cleaned"} => p \in Cleaners

\* Whoever still has a temporary copy when it releases its lock says so.
PrivateAccounted ==
  \A p \in private :
    /\ pc[p] \in {"work", "dispose", "release", "done", "killed"}
    /\ pc[p] \in {"release", "done"} => p \in failed

\* A `cache clean` of p's workspace has begun.
CleanedUnder(p) == \E c \in Cleaners : Home[c] = Home[p] /\ pc[c] # "idle"

CopyWhole ==
  \A p \in Procs :
    InKeptCopy(p) => copy[Home[p]] = "whole" \/ CleanedUnder(p) \/ Home[p] \in robbed

Owned ==
  /\ TypeOK /\ NotedTypes
  /\ HomeHeld /\ TargetHeld /\ NothingElseHeld
  /\ KilledStay /\ CleanersClean /\ PrivateAccounted

-----------------------------------------------------------------------------
\* The collection that nothing overlaps

BeforeListing == {"idle", "locking", "session", "capturing", "mark"}

NothingNoted == \A p \in Procs : pc[p] \in BeforeListing => DOMAIN noted[p] = {}

KeepsSome == \A p \in Procs : pc[p] \in {"capturing", "mark"} => keep[p] > 0

QuietListed ==
  \A p \in quiet :
    /\ pc[p] \in {"list", "collect", "work", "dispose", "release", "done", "killed"}
               \cup Removing
    /\ keep[p] > 0 /\ p \notin private

QuietAlone ==
  \A p \in quiet \ killed : \A q \in Procs \ {p} : pc[q] \in {"idle", "done"} \/ q \in killed

\* A listing has noted every copy it has come across, and no other.
ListingExact(p) == DOMAIN noted[p] = Copies \ pending[p]

\* The copies it can lock that a collection will not remove any more.
Kept(p) ==
  Collectable \ (victims[p] \cup (IF pc[p] \in {"delete", "deleting"} THEN {target[p]} ELSE {}))

Collecting(p) ==
  \/ pc[p] \in {"collect", "delete", "deleting", "unmark"}
  \/ pc[p] = "unlock" /\ p \notin failed

\* Of `copies`, the run's own is beyond the budget only when its marker is not
\* the latest.
WithinBudget(p, copies) ==
  /\ Cardinality(copies \ {Home[p]}) <= keep[p]
  /\ Latest(p) => Cardinality(copies) <= keep[p]

CollectsToBudget(p) ==
  /\ pc[p] = "list" => ListingExact(p)
  /\ Collecting(p) => WithinBudget(p, Kept(p)) /\ (Latest(p) => Home[p] \notin victims[p])
  /\ pc[p] = "work" => WithinBudget(p, Collectable)

QuietCollects == \A p \in quiet \ killed : CollectsToBudget(p)

Unhurried ==
  /\ NothingNoted /\ KeepsSome /\ QuietListed /\ QuietAlone /\ QuietCollects
-----------------------------------------------------------------------------
(* Types *)

RunTypes ==
  /\ pc \in [Procs -> Steps]
  /\ keep \in [Procs -> Nat]
  /\ failed \subseteq Procs /\ killed \subseteq Procs /\ private \subseteq Procs
  /\ torn \subseteq Procs /\ quiet \subseteq Procs
  /\ stuck \subseteq killed /\ robbed \subseteq Workspaces

LockTypes ==
  /\ lock \in [Workspaces -> Procs \cup {None}]
  /\ copy \in [Workspaces -> {"absent", "torn", "whole"}]
  /\ target \in [Procs -> Workspaces]
  /\ victims \in [Procs -> SUBSET Workspaces]
  /\ pending \in [Procs -> SUBSET Workspaces]

MarkerTypes ==
  /\ used \in [Workspaces -> Stamps \cup {0}]
  /\ noted = [p \in Procs |-> noted[p]]
  /\ \A p \in Procs : DOMAIN noted[p] \subseteq Workspaces
  /\ \A p \in Procs : noted[p] \in [DOMAIN noted[p] -> Stamps \cup {0}]
  /\ \A p \in Procs : victims[p] \subseteq DOMAIN noted[p]

\* The types by what changes together.
LEMMA TypeParts == TypeOK /\ NotedTypes <=> RunTypes /\ LockTypes /\ MarkerTypes
  BY DEF TypeOK, NotedTypes, RunTypes, LockTypes, MarkerTypes

LEMMA TypesInit == Init => RunTypes /\ LockTypes /\ MarkerTypes
<1> SUFFICES ASSUME Init PROVE RunTypes /\ LockTypes /\ MarkerTypes
  OBVIOUS
<1>1. RunTypes /\ LockTypes
  BY KeptAssumption DEF Init, RunTypes, LockTypes, Steps
<1>2. MarkerTypes
  BY DEF Init, MarkerTypes
<1>3. QED
  BY <1>1, <1>2

LEMMA RunTypesNext ==
  ASSUME RunTypes, NEW p \in Procs, Act(p)
  PROVE  RunTypes'
<1> USE DEF RunTypes, Move, Go, Fail, Unlock, Forget, Steps, collection, history, ended, locks
<1>1. CASE Session(p)
  BY <1>1 DEF Session, Lock, LockRefused, SessionRejected, CaptureBegins, Captured,
              CaptureFailed, Discard, SessionPrivate, CreatePrivate, CreateFailed
<1>2. CASE Collection(p)
  BY <1>2 DEF Collection, Mark, MarkFailed, Marked, Select, Note, CollectLocks, CollectSkips,
              DeleteBegins, Deleted, DeleteFailed, Unmark, UnmarkFailed,
              UnlockTarget, Collected
<1>3. CASE Clean(p)
  BY <1>3 DEF Clean, CleanBegins, Cleaned, CleanFailed, CleanUnmarks
<1>4. CASE Begin(p) \/ Duplicate(p)
  BY <1>4, KeptAssumption DEF Begin, Duplicate
<1>5. CASE Finish(p) \/ Dispose(p) \/ Release(p)
  BY <1>5 DEF Finish, Dispose, Release
<1>6. CASE Kill(p)
  <2>1. PICK from \in Steps : Go(p, from, "killed")
    BY <1>6 DEF Kill
  <2>2. QED
    BY <1>6, <2>1 DEF Kill
<1>7. QED
  BY <1>1, <1>2, <1>3, <1>4, <1>5, <1>6 DEF Act, Progress

LEMMA LockTypesNext ==
  ASSUME LockTypes, MarkerTypes, NEW p \in Procs, Act(p)
  PROVE  LockTypes'
<1> USE KeptAssumption DEF LockTypes, Move, Go, Fail, Unlock, Forget, collection, history, ended, locks
<1>1. CASE Session(p)
  BY <1>1 DEF Session, Lock, LockRefused, SessionRejected, CaptureBegins, Captured,
              CaptureFailed, Discard, SessionPrivate, CreatePrivate, CreateFailed
<1>2. CASE Collection(p)
  <2>1. CASE \E w \in Workspaces : Note(p, w)
    BY <2>1 DEF Note
  <2>2. CASE \E w \in Workspaces : CollectLocks(p, w) \/ CollectSkips(p, w)
    BY <2>2 DEF CollectLocks, CollectSkips
  <2>3. CASE Mark(p) \/ MarkFailed(p)
    BY <2>3 DEF Mark, MarkFailed, Marked
  <2>4. CASE Select(p)
    <3>1. DOMAIN noted[p] \subseteq Workspaces
      BY DEF MarkerTypes
    <3>2. PICK kept \in SUBSET DOMAIN noted[p] :
            victims' = [victims EXCEPT ![p] = DOMAIN noted[p] \ kept]
      BY <2>4 DEF Select
    <3>3. DOMAIN noted[p] \ kept \in SUBSET Workspaces
      BY <3>1
    <3>4. UNCHANGED <<lock, copy, target, pending>>
      BY <2>4 DEF Select
    <3>5. QED
      BY <3>2, <3>3, <3>4
  <2>5. CASE DeleteBegins(p) \/ Deleted(p) \/ DeleteFailed(p) \/ Unmark(p)
             \/ UnmarkFailed(p) \/ UnlockTarget(p) \/ Collected(p)
    BY <2>5 DEF DeleteBegins, Deleted, DeleteFailed, Unmark, UnmarkFailed,
                UnlockTarget, Collected
  <2>6. QED
    BY <1>2, <2>1, <2>2, <2>3, <2>4, <2>5 DEF Collection
<1>3. CASE Clean(p)
  BY <1>3 DEF Clean, CleanBegins, Cleaned, CleanFailed, CleanUnmarks
<1>4. CASE Begin(p) \/ Duplicate(p) \/ Kill(p)
  BY <1>4, KeptAssumption DEF Begin, Duplicate, Kill
<1>5. CASE Finish(p) \/ Dispose(p) \/ Release(p)
  BY <1>5 DEF Finish, Dispose, Release
<1>6. QED
  BY <1>1, <1>2, <1>3, <1>4, <1>5 DEF Act, Progress

\* What a collection forgets leaves the markers typed.
LEMMA Forgotten ==
  ASSUME LockTypes, MarkerTypes, NEW p \in Procs, Forget(p),
         used' \in [Workspaces -> Stamps \cup {0}]
  PROVE  MarkerTypes'
<1>1. [w \in {} |-> 0] \in [{} -> Stamps \cup {0}]
  OBVIOUS
<1>2. PICK nothing : nothing = [w \in {} |-> 0] /\ nothing \in [{} -> Stamps \cup {0}]
                     /\ DOMAIN nothing = {}
  BY <1>1
<1>3. noted' = [noted EXCEPT ![p] = nothing] /\ victims' = [victims EXCEPT ![p] = {}]
  BY <1>2 DEF Forget
<1>4. QED
  BY <1>2, <1>3 DEF LockTypes, MarkerTypes

LEMMA MarkerTypesNext ==
  ASSUME LockTypes, MarkerTypes, NEW p \in Procs, Act(p)
  PROVE  MarkerTypes'
<1> USE KeptAssumption DEF MarkerTypes, LockTypes, Move, Go, Fail, Unlock, Forget, collection, history, ended, locks
<1>1. CASE Session(p)
  BY <1>1 DEF Session, Lock, LockRefused, SessionRejected, CaptureBegins, Captured,
              CaptureFailed, Discard, SessionPrivate, CreatePrivate, CreateFailed
<1>2. CASE Collection(p)
  <2>1. ASSUME NEW w \in Workspaces, Note(p, w)
        PROVE  MarkerTypes'
    <3>0. PICK time \in Shown(w) :
            noted' = [noted EXCEPT ![p] =
              IF copy[w] = "absent" THEN @
              ELSE [v \in DOMAIN @ \cup {w} |-> IF v = w THEN time ELSE @[v]]]
      BY <2>1 DEF Note
    <3> DEFINE new == [v \in DOMAIN noted[p] \cup {w} |->
                        IF v = w THEN time ELSE noted[p][v]]
    <3>1. time \in Stamps \cup {0}
      BY <3>0 DEF Shown
    <3>2. new \in [DOMAIN noted[p] \cup {w} -> Stamps \cup {0}]
      BY <3>1
    <3>3. noted' = [noted EXCEPT ![p] = IF copy[w] = "absent" THEN noted[p] ELSE new]
      BY <3>0
    <3>4. UNCHANGED <<used, victims>>
      BY <2>1 DEF Note
    <3>5. DOMAIN noted[p] \subseteq DOMAIN new /\ DOMAIN new = DOMAIN noted[p] \cup {w}
      OBVIOUS
    <3> HIDE DEF new
    <3>6. QED
      BY <3>2, <3>3, <3>4, <3>5
  <2>2. CASE \E w \in Workspaces : CollectLocks(p, w) \/ CollectSkips(p, w)
    BY <2>2 DEF CollectLocks, CollectSkips
  <2>3. CASE Mark(p) \/ MarkFailed(p)
    BY <2>3 DEF Mark, MarkFailed, Marked
  <2>4. CASE Select(p)
    BY <2>4 DEF Select
  <2>5. CASE DeleteBegins(p) \/ Deleted(p) \/ DeleteFailed(p) \/ Unmark(p)
             \/ UnmarkFailed(p) \/ Collected(p)
    BY <2>5 DEF DeleteBegins, Deleted, DeleteFailed, Unmark, UnmarkFailed, Collected
  <2>6. CASE UnlockTarget(p)
    <3>1. CASE UNCHANGED collection
      BY <2>6, <3>1 DEF UnlockTarget
    <3>2. CASE Forget(p)
      <4>1. UNCHANGED used
        BY <2>6 DEF UnlockTarget
      <4>2. QED
        BY <3>2, <4>1, Forgotten
    <3>3. QED
      BY <2>6, <3>1, <3>2 DEF UnlockTarget
  <2>7. QED
    BY <1>2, <2>1, <2>2, <2>3, <2>4, <2>5, <2>6 DEF Collection
<1>3. CASE Clean(p)
  BY <1>3 DEF Clean, CleanBegins, Cleaned, CleanFailed, CleanUnmarks
<1>4. CASE Begin(p) \/ Duplicate(p) \/ Kill(p)
  <2>1. CASE Begin(p) \/ Duplicate(p)
    BY <2>1 DEF Begin, Duplicate
  <2>2. CASE Kill(p)
    <3>1. used' \in [Workspaces -> Stamps \cup {0}]
      BY <2>2 DEF Kill
    <3>2. Forget(p)
      BY <2>2 DEF Kill
    <3>3. QED
      BY <3>1, <3>2, Forgotten
  <2>3. QED
    BY <1>4, <2>1, <2>2
<1>5. CASE Dispose(p) \/ Release(p)
  BY <1>5 DEF Dispose, Release
<1>6. CASE Finish(p)
  <2>1. UNCHANGED used /\ Forget(p)
    BY <1>6 DEF Finish
  <2>2. QED
    BY <2>1, Forgotten
<1>7. QED
  BY <1>1, <1>2, <1>3, <1>4, <1>5, <1>6 DEF Act, Progress

-----------------------------------------------------------------------------
(* Ownership of the locks *)

LEMMA OwnedInit == Init => Owned
<1> SUFFICES ASSUME Init PROVE Owned
  OBVIOUS
<1>1. TypeOK /\ NotedTypes
  BY TypesInit, TypeParts
<1>2. QED
  BY <1>1, KeptAssumption DEF Init, Owned, HomeHeld, TargetHeld, NothingElseHeld,
     KilledStay, CleanersClean, PrivateAccounted, Holding, Removing, Alive

\* A step among those that hold the same locks.
LEMMA SameLocks ==
  ASSUME HomeHeld, TargetHeld, NothingElseHeld, RunTypes, LockTypes,
         NEW p \in Procs, UNCHANGED <<lock, robbed, killed>>,
         NEW to \in Steps, pc' = [pc EXCEPT ![p] = to],
         \/ UNCHANGED target
         \/ target' = [target EXCEPT ![p] = Home[p]] /\ to \notin Removing,
         pc[p] \in Holding <=> to \in Holding,
         pc[p] \in Removing <=> to \in Removing
  PROVE  HomeHeld' /\ TargetHeld' /\ NothingElseHeld'
BY DEF HomeHeld, TargetHeld, NothingElseHeld, RunTypes, LockTypes, Alive

\* Every step keeps who owns which lock.
LEMMA LocksNext ==
  ASSUME HomeHeld, TargetHeld, NothingElseHeld, RunTypes, LockTypes,
         NEW p \in Procs, Act(p)
  PROVE  HomeHeld' /\ TargetHeld' /\ NothingElseHeld'
<1> USE KeptAssumption DEF Move, Go, collection, history, ended, locks
<1> DEFINE Same(to) == /\ UNCHANGED <<lock, robbed, killed>>
                       /\ pc' = [pc EXCEPT ![p] = to]
                       /\ \/ UNCHANGED target
                          \/ target' = [target EXCEPT ![p] = Home[p]] /\ to \notin Removing
<1>1. CASE Lock(p) \/ Release(p)
  BY <1>1 DEF Lock, Release, Unlock, Fail, HomeHeld, TargetHeld, NothingElseHeld, RunTypes, LockTypes,
              Holding, Removing, Alive, Free
<1>2. CASE UnlockTarget(p)
  <2>1. /\ p \notin killed /\ pc[p] = "unlock" /\ UNCHANGED <<robbed, killed>>
        /\ \/ pc' = [pc EXCEPT ![p] = "release"] /\ target' = [target EXCEPT ![p] = Home[p]]
           \/ pc' = [pc EXCEPT ![p] = "collect"] /\ UNCHANGED target
    BY <1>2 DEF UnlockTarget, Forget
  <2>2. \/ lock[target[p]] = p /\ lock' = [lock EXCEPT ![target[p]] = None]
        \/ lock[target[p]] # p /\ UNCHANGED lock
    BY <1>2 DEF UnlockTarget, Unlock
  <2>3. HomeHeld'
    BY <2>1, <2>2 DEF HomeHeld, TargetHeld, RunTypes, LockTypes, Holding, Removing, Alive
  <2>4. TargetHeld'
    BY <2>1, <2>2 DEF TargetHeld, RunTypes, LockTypes, Removing, Alive
  <2>5. NothingElseHeld'
    BY <2>1, <2>2 DEF NothingElseHeld, RunTypes, LockTypes, Holding, Removing, Alive
  <2>6. QED
    BY <2>3, <2>4, <2>5
<1>3. CASE \E w \in Workspaces : CollectLocks(p, w)
  BY <1>3 DEF CollectLocks, HomeHeld, TargetHeld, NothingElseHeld, RunTypes, LockTypes,
              Holding, Removing, Alive, Free
<1>4. CASE Begin(p) \/ LockRefused(p) \/ Clean(p)
  <2>1. PICK to \in {"clean", "locking", "done", "cleaning", "cleaned"} : Same(to)
    BY <1>4 DEF Begin, LockRefused, Clean, CleanBegins, Cleaned, CleanFailed, CleanUnmarks
  <2>2. pc[p] \in {"idle", "locking", "clean", "cleaning", "cleaned"}
    BY <1>4 DEF Begin, LockRefused, Clean, CleanBegins, Cleaned, CleanFailed, CleanUnmarks
  <2>3. QED
    BY <2>1, <2>2, SameLocks DEF Holding, Removing, Steps
<1>5. CASE \/ SessionRejected(p) \/ CaptureBegins(p) \/ Captured(p) \/ CaptureFailed(p)
           \/ Discard(p) \/ SessionPrivate(p) \/ CreatePrivate(p) \/ CreateFailed(p)
           \/ Finish(p) \/ Dispose(p) \/ Duplicate(p)
  <2>1. PICK to \in Holding \ Removing : Same(to)
    BY <1>5 DEF SessionRejected, CaptureBegins, Captured, CaptureFailed, Discard,
                SessionPrivate, CreatePrivate, CreateFailed, Finish, Dispose, Duplicate,
                Forget, Holding, Removing
  <2>2. pc[p] \in Holding \ Removing
    BY <1>5 DEF SessionRejected, CaptureBegins, Captured, CaptureFailed, Discard,
                SessionPrivate, CreatePrivate, CreateFailed, Finish, Dispose, Duplicate,
                Holding, Removing
  <2>3. QED
    BY <2>1, <2>2, SameLocks DEF Holding, Removing, Steps
<1>6. CASE \/ Mark(p) \/ MarkFailed(p) \/ Select(p) \/ Collected(p)
           \/ \E w \in Workspaces : Note(p, w) \/ CollectSkips(p, w)
  <2>1. PICK to \in {"list", "collect", "work"} : Same(to)
    BY <1>6 DEF Mark, MarkFailed, Marked, Select, Collected, Note, CollectSkips
  <2>2. pc[p] \in {"mark", "list", "collect"}
    BY <1>6 DEF Mark, MarkFailed, Marked, Select, Collected, Note, CollectSkips
  <2>3. QED
    BY <2>1, <2>2, SameLocks DEF Holding, Removing, Steps
<1>7. CASE \/ DeleteBegins(p) \/ Deleted(p) \/ DeleteFailed(p)
           \/ Unmark(p) \/ UnmarkFailed(p)
  <2>1. PICK to \in Removing : Same(to)
    BY <1>7 DEF DeleteBegins, Deleted, DeleteFailed, Unmark, UnmarkFailed, Removing
  <2>2. pc[p] \in Removing
    BY <1>7 DEF DeleteBegins, Deleted, DeleteFailed, Unmark, UnmarkFailed, Removing
  <2>3. QED
    BY <2>1, <2>2, SameLocks DEF Holding, Removing, Steps
<1>8. CASE Kill(p)
  BY <1>8 DEF Kill, Forget, HomeHeld, TargetHeld, NothingElseHeld, RunTypes, LockTypes, Alive
<1>9. QED
  BY <1>1, <1>2, <1>3, <1>4, <1>5, <1>6, <1>7, <1>8
  DEF Act, Progress, Session, Collection

\* A killed invocation stays where it was, only cleaners clean, and a temporary
\* copy is disposed of or accounted for.
LEMMA RolesNext ==
  ASSUME KilledStay, CleanersClean, PrivateAccounted, RunTypes,
         NEW p \in Procs, Act(p)
  PROVE  KilledStay' /\ CleanersClean' /\ PrivateAccounted'
<1> USE KeptAssumption DEF Move, Go, Fail, Unlock, Forget, collection, history, ended, locks,
        KilledStay, CleanersClean, PrivateAccounted, RunTypes
<1>1. CASE Session(p)
  BY <1>1 DEF Session, Lock, LockRefused, SessionRejected, CaptureBegins, Captured,
              CaptureFailed, Discard, SessionPrivate, CreatePrivate, CreateFailed
<1>2. CASE \/ Mark(p) \/ MarkFailed(p) \/ Select(p) \/ Collected(p)
           \/ \E w \in Workspaces : Note(p, w) \/ CollectLocks(p, w) \/ CollectSkips(p, w)
  BY <1>2 DEF Mark, MarkFailed, Marked, Select, Collected, Note, CollectLocks, CollectSkips
<1>3. CASE \/ DeleteBegins(p) \/ Deleted(p) \/ DeleteFailed(p)
           \/ Unmark(p) \/ UnmarkFailed(p) \/ UnlockTarget(p)
  BY <1>3 DEF DeleteBegins, Deleted, DeleteFailed, Unmark, UnmarkFailed, UnlockTarget
<1>4. CASE Clean(p)
  BY <1>4 DEF Clean, CleanBegins, Cleaned, CleanFailed, CleanUnmarks
<1>5. CASE Begin(p) \/ Duplicate(p) \/ Kill(p)
  BY <1>5 DEF Begin, Duplicate, Kill
<1>6. CASE Finish(p) \/ Dispose(p) \/ Release(p)
  BY <1>6 DEF Finish, Dispose, Release
<1>7. QED
  BY <1>1, <1>2, <1>3, <1>4, <1>5, <1>6 DEF Act, Progress, Collection

\* A lock removed from under its owner is somebody's no more.
LEMMA RobNext ==
  ASSUME Owned, NEW w \in Workspaces, Rob(w)
  PROVE  Owned'
<1>1. RunTypes /\ LockTypes /\ MarkerTypes
  BY TypeParts DEF Owned
<1> USE DEF Rob, ended, collection, history
<1>2. RunTypes' /\ LockTypes' /\ MarkerTypes'
  <2>1. RunTypes'
    BY <1>1 DEF RunTypes
  <2>2. LockTypes'
    BY <1>1 DEF LockTypes
  <2>3. MarkerTypes'
    BY <1>1 DEF MarkerTypes
  <2>4. QED
    BY <2>1, <2>2, <2>3
<1>3. TypeOK' /\ NotedTypes'
  BY <1>2 DEF TypeOK, NotedTypes, RunTypes, LockTypes, MarkerTypes
<1>4. HomeHeld' /\ TargetHeld' /\ NothingElseHeld'
  BY <1>1, KeptAssumption DEF Owned, HomeHeld, TargetHeld, NothingElseHeld, LockTypes, RunTypes, Alive
<1>5. KilledStay' /\ CleanersClean' /\ PrivateAccounted'
  BY DEF Owned, KilledStay, CleanersClean, PrivateAccounted
<1>6. QED
  BY <1>3, <1>4, <1>5 DEF Owned

LEMMA OwnedNext == Owned /\ [Next]_vars => Owned'
<1> SUFFICES ASSUME Owned, [Next]_vars PROVE Owned'
  OBVIOUS
<1>1. RunTypes /\ LockTypes /\ MarkerTypes
  BY TypeParts DEF Owned
<1>2. CASE \E p \in Procs : Act(p)
  <2>1. PICK p \in Procs : Act(p)
    BY <1>2
  <2>2. RunTypes' /\ LockTypes' /\ MarkerTypes'
    BY <1>1, <2>1, RunTypesNext, LockTypesNext, MarkerTypesNext
  <2>3. TypeOK' /\ NotedTypes'
    BY <2>2 DEF TypeOK, NotedTypes, RunTypes, LockTypes, MarkerTypes
  <2>4. HomeHeld' /\ TargetHeld' /\ NothingElseHeld'
    BY <1>1, <2>1, LocksNext DEF Owned
  <2>5. KilledStay' /\ CleanersClean' /\ PrivateAccounted'
    BY <1>1, <2>1, RolesNext DEF Owned
  <2>6. QED
    BY <2>3, <2>4, <2>5 DEF Owned
<1>3. CASE UNCHANGED vars
  BY <1>3 DEF vars, Owned, TypeOK, NotedTypes, HomeHeld, TargetHeld, NothingElseHeld,
     KilledStay, CleanersClean, PrivateAccounted, Alive
<1>4. QED
  BY <1>2, <1>3, RobNext DEF Next

\* A living run owns its workspace's lock from the session to the release and
\* its victim's while it removes it, or somebody has been robbed of that lock,
\* and it owns no other at any time: every path of engine.run and
\* cache.collect_snapshots, their errors and kills included, releases what it
\* took and removes nobody's lock but its own.
THEOREM LocksOwned == Spec => []Owned
BY OwnedInit, OwnedNext, PTL DEF Spec

\* Every reachable state of the kept copies is well typed.
THEOREM TypeCorrect == Spec => []TypeOK
<1>1. Owned => TypeOK
  BY DEF Owned
<1>2. QED
  BY <1>1, LocksOwned, PTL

\* A run that returns has released every lock it took and has disposed of its
\* temporary copy or fails (engine.run, with_session, snapshot.dispose).
THEOREM NothingLeft == Spec => []ResultsLeaveNothing
<1>1. Owned => ResultsLeaveNothing
  BY DEF Owned, ResultsLeaveNothing, TypeOK, KilledStay, NothingElseHeld,
         PrivateAccounted, Alive, Holding, Removing
<1>2. QED
  BY <1>1, LocksOwned, PTL

-----------------------------------------------------------------------------
(* The copy a run works in *)

\* Nobody but `cache clean` writes in the workspace of a run that works in its
\* copy, as long as nobody has been robbed of that workspace's lock.
LEMMA CopyUntouched ==
  ASSUME Owned, NEW p \in Procs, NEW q \in Procs, InKeptCopy(q), q # p,
         Act(p)
  PROVE  \/ copy'[Home[q]] = copy[Home[q]]
         \/ Home[q] \in robbed
         \/ p \in Cleaners /\ Home[p] = Home[q] /\ pc'[p] # "idle"
<1>1. RunTypes /\ LockTypes
  BY TypeParts DEF Owned
<1>2. lock[Home[q]] = q \/ Home[q] \in robbed
  BY DEF Owned, HomeHeld, InKeptCopy, Alive, Holding
<1> USE <1>1, <1>2, KeptAssumption DEF RunTypes, LockTypes
<1>3. CASE CaptureBegins(p) \/ Captured(p) \/ Discard(p)
  <2>1. p \in Alive /\ pc[p] \in Holding
    BY <1>3 DEF CaptureBegins, Captured, Discard, Go, Move, Alive, Holding
  <2>2. Home[p] # Home[q] \/ Home[q] \in robbed
    BY <2>1 DEF Owned, HomeHeld
  <2>3. QED
    BY <1>3, <2>2 DEF CaptureBegins, Captured, Discard
<1>4. CASE DeleteBegins(p) \/ Deleted(p)
  <2>1. p \in Alive /\ pc[p] \in Removing
    BY <1>4 DEF DeleteBegins, Deleted, Go, Move, Alive, Removing
  <2>2. target[p] # Home[q] \/ Home[q] \in robbed
    BY <2>1 DEF Owned, TargetHeld
  <2>3. QED
    BY <1>4, <2>2 DEF DeleteBegins, Deleted
<1>5. CASE CleanBegins(p) \/ Cleaned(p)
  <2>1. p \in Cleaners /\ pc'[p] # "idle"
    BY <1>5 DEF CleanBegins, Cleaned, Go, Move, Owned, CleanersClean
  <2>2. Home[p] # Home[q] => copy'[Home[q]] = copy[Home[q]]
    BY <1>5 DEF CleanBegins, Cleaned
  <2>3. QED
    BY <2>1, <2>2
<1>6. CASE UNCHANGED copy
  BY <1>6
<1>7. QED
  BY <1>3, <1>4, <1>5, <1>6
  DEF Act, Progress, Session, Collection, Clean, Begin, Duplicate, Kill,
      Lock, LockRefused, SessionRejected, CaptureFailed, SessionPrivate,
      CreatePrivate, CreateFailed, Mark, MarkFailed, Marked, Select, Collected, Note,
      CollectLocks, CollectSkips, DeleteFailed, Unmark, UnmarkFailed, UnlockTarget,
      CleanFailed, CleanUnmarks, Finish, Dispose, Release, ended, locks

\* Its own steps neither.
LEMMA CopyKept ==
  ASSUME Owned, NEW p \in Procs, InKeptCopy(p)',
         Act(p)
  PROVE  \/ copy'[Home[p]] = "whole"
         \/ Home[p] \in robbed
         \/ InKeptCopy(p) /\ copy'[Home[p]] = copy[Home[p]]
<1>1. RunTypes /\ LockTypes
  BY TypeParts DEF Owned
<1> USE <1>1, KeptAssumption DEF RunTypes, LockTypes, Go, Move, InKeptCopy
<1>2. CASE Session(p)
  BY <1>2 DEF Session, Lock, LockRefused, SessionRejected, CaptureBegins, Captured,
              CaptureFailed, Discard, SessionPrivate, CreatePrivate, CreateFailed
<1>3. CASE \/ Mark(p) \/ MarkFailed(p) \/ Select(p) \/ Collected(p)
           \/ \E w \in Workspaces : Note(p, w) \/ CollectLocks(p, w) \/ CollectSkips(p, w)
  BY <1>3 DEF Mark, MarkFailed, Marked, Select, Collected, Note, CollectLocks, CollectSkips
<1>4. CASE DeleteBegins(p) \/ Deleted(p)
  <2>1. target[p] # Home[p] \/ Home[p] \in robbed
    BY <1>4 DEF DeleteBegins, Deleted, Owned, TargetHeld, Alive, Removing
  <2>2. QED
    BY <1>4, <2>1 DEF DeleteBegins, Deleted
<1>5. CASE DeleteFailed(p) \/ Unmark(p) \/ UnmarkFailed(p) \/ UnlockTarget(p)
  BY <1>5 DEF DeleteFailed, Unmark, UnmarkFailed, UnlockTarget
<1>6. CASE Clean(p) \/ Begin(p)
  BY <1>6 DEF Clean, CleanBegins, Cleaned, CleanFailed, CleanUnmarks, Begin
<1>7. CASE Duplicate(p) \/ Kill(p)
  BY <1>7 DEF Duplicate, Kill
<1>8. CASE Finish(p) \/ Dispose(p) \/ Release(p)
  BY <1>8 DEF Finish, Dispose, Release
<1>9. QED
  BY <1>2, <1>3, <1>4, <1>5, <1>6, <1>7, <1>8 DEF Act, Progress, Collection

\* A step of p changes no other invocation, and none goes back to the start.
LEMMA OnlyOneMoves ==
  ASSUME RunTypes, NEW p \in Procs, NEW q \in Procs,
         Act(p)
  PROVE  /\ q # p => /\ pc'[q] = pc[q] /\ keep'[q] = keep[q]
                     /\ q \in failed' <=> q \in failed
                     /\ q \in killed' <=> q \in killed
                     /\ q \in private' <=> q \in private
         /\ pc[q] # "idle" => pc'[q] # "idle" /\ keep'[q] = keep[q]
         /\ q \in killed => q \in killed'
<1> USE DEF RunTypes, Go, Move, Fail, Unlock, ended, locks, collection, history
<1>1. CASE Session(p)
  BY <1>1 DEF Session, Lock, LockRefused, SessionRejected, CaptureBegins, Captured,
              CaptureFailed, Discard, SessionPrivate, CreatePrivate, CreateFailed
<1>2. CASE \/ Mark(p) \/ MarkFailed(p) \/ Select(p) \/ Collected(p)
           \/ \E w \in Workspaces : Note(p, w) \/ CollectLocks(p, w) \/ CollectSkips(p, w)
  BY <1>2 DEF Mark, MarkFailed, Marked, Select, Collected, Note, CollectLocks, CollectSkips
<1>3. CASE \/ DeleteBegins(p) \/ Deleted(p) \/ DeleteFailed(p)
           \/ Unmark(p) \/ UnmarkFailed(p) \/ UnlockTarget(p)
  BY <1>3 DEF DeleteBegins, Deleted, DeleteFailed, Unmark, UnmarkFailed, UnlockTarget
<1>4. CASE Clean(p)
  BY <1>4 DEF Clean, CleanBegins, Cleaned, CleanFailed, CleanUnmarks
<1>5. CASE Begin(p) \/ Duplicate(p) \/ Kill(p)
  BY <1>5 DEF Begin, Duplicate, Kill
<1>6. CASE Finish(p) \/ Dispose(p) \/ Release(p)
  BY <1>6 DEF Finish, Dispose, Release
<1>7. QED
  BY <1>1, <1>2, <1>3, <1>4, <1>5, <1>6 DEF Act, Progress, Collection

\* The invariant of the copies.
Whole == Owned /\ CopyWhole /\ TornByCleanOrRobbery

\* The steps of an invocation remove nobody else's lock.
LEMMA RobbedByNobody ==
  ASSUME NEW p \in Procs, Act(p)
  PROVE  UNCHANGED robbed
BY DEF Act, Progress, Session, Collection, Clean, Begin, Duplicate,
       Kill, Lock, LockRefused, SessionRejected, CaptureBegins, Captured,
       CaptureFailed, Discard, SessionPrivate, CreatePrivate, CreateFailed, Mark,
       MarkFailed, Marked, Select, Note, CollectLocks, CollectSkips, Collected,
       DeleteBegins, Deleted, DeleteFailed, Unmark, UnmarkFailed, UnlockTarget, Finish,
       Dispose, Release, CleanBegins, Cleaned, CleanFailed, CleanUnmarks, locks

LEMMA WholeNext == Whole /\ [Next]_vars => Whole'
<1> SUFFICES ASSUME Whole, [Next]_vars PROVE Whole'
  OBVIOUS
<1>1. Owned'
  BY OwnedNext DEF Whole
<1>2. RunTypes /\ LockTypes
  BY TypeParts DEF Whole, Owned
<1>3. CASE \E p \in Procs : Act(p)
  <2>1. PICK p \in Procs : Act(p)
    BY <1>3
  <2>2. \A q \in Procs : CleanedUnder(q) => CleanedUnder(q)'
    BY <1>2, <2>1, OnlyOneMoves, KeptAssumption DEF CleanedUnder
  <2>r. robbed' = robbed
    BY <2>1, RobbedByNobody
  <2>3. ASSUME NEW q \in Procs, InKeptCopy(q)'
        PROVE  copy'[Home[q]] = "whole" \/ CleanedUnder(q)' \/ Home[q] \in robbed'
    <3>1. CASE q = p
      BY <2>1, <2>2, <2>r, <2>3, <3>1, CopyKept DEF Whole, CopyWhole
    <3>2. CASE q # p
      <4>1. InKeptCopy(q)
        BY <1>2, <2>1, <2>3, <3>2, OnlyOneMoves DEF InKeptCopy
      <4>2. \/ copy'[Home[q]] = copy[Home[q]]
            \/ Home[q] \in robbed
            \/ p \in Cleaners /\ Home[p] = Home[q] /\ pc'[p] # "idle"
        BY <2>1, <3>2, <4>1, CopyUntouched DEF Whole
      <4>3. QED
        BY <2>2, <2>r, <4>1, <4>2 DEF Whole, CopyWhole, CleanedUnder
    <3>3. QED
      BY <3>1, <3>2
  <2>4. ASSUME NEW q \in torn' PROVE CleanedUnder(q)' \/ Home[q] \in robbed'
    <3>1. CASE q \in torn
      <4>1. CleanedUnder(q) \/ Home[q] \in robbed
        BY <3>1 DEF Whole, TornByCleanOrRobbery, CleanedUnder
      <4>2. QED
        BY <1>2, <2>2, <2>r, <3>1, <4>1 DEF RunTypes
    <3>2. CASE q \notin torn
      <4>1. q = p /\ Duplicate(p) /\ p \notin private /\ copy[Home[p]] # "whole"
        BY <2>1, <2>4, <3>2 DEF Act, Progress, Session, Collection, Clean, Begin, Duplicate,
           Kill, Lock, LockRefused, SessionRejected, CaptureBegins, Captured,
           CaptureFailed, Discard, SessionPrivate, CreatePrivate, CreateFailed, Mark,
           MarkFailed, Marked, Select, Note, CollectLocks, CollectSkips, Collected, DeleteBegins,
           Deleted, DeleteFailed, Unmark, UnmarkFailed, UnlockTarget, Finish, Dispose,
           Release, CleanBegins, Cleaned, CleanFailed, CleanUnmarks, Marked, history
      <4>2. InKeptCopy(p)
        BY <4>1 DEF Duplicate, Go, Move, InKeptCopy
      <4>3. QED
        BY <2>2, <2>r, <4>1, <4>2 DEF Whole, CopyWhole
    <3>3. QED
      BY <3>1, <3>2
  <2>5. QED
    BY <1>1, <2>3, <2>4 DEF Whole, CopyWhole, TornByCleanOrRobbery, CleanedUnder
<1>4. CASE UNCHANGED vars
  BY <1>1, <1>4 DEF vars, Whole, CopyWhole, TornByCleanOrRobbery, CleanedUnder,
                    InKeptCopy
<1>5. CASE \E w \in Workspaces : Rob(w)
  BY <1>1, <1>5 DEF Rob, ended, Whole, CopyWhole, TornByCleanOrRobbery, CleanedUnder,
                    InKeptCopy, history
<1>6. QED
  BY <1>3, <1>4, <1>5 DEF Next

LEMMA WholeAlways == Spec => []Whole
<1>1. Init => Whole
  BY OwnedInit DEF Init, Whole, CopyWhole, TornByCleanOrRobbery, InKeptCopy
<1>2. QED
  BY <1>1, WholeNext, PTL DEF Spec

\* The copy a living run works in is whole, whatever captures, collections,
\* kills and failed deletions do, unless `cache clean` has begun in its workspace
\* or a reclaim has removed that workspace's lock from under a living owner.
THEOREM KeptCopies == Spec => []CopyWhole
<1>1. Whole => CopyWhole
  BY DEF Whole
<1>2. QED
  BY <1>1, WholeAlways, PTL

\* Without `cache clean` nothing but a robbed lock can damage the copy a run
\* works in (snapshot.keep, cache.collect_snapshots).
THEOREM WorkingCopies == ASSUME Cleaners = {} PROVE Spec => []WholeUnlessRobbed
<1>1. Whole => WholeUnlessRobbed
  BY DEF Whole, CopyWhole, CleanedUnder, WholeUnlessRobbed
<1>2. QED
  BY <1>1, WholeAlways, PTL

\* A worker that was given a torn tree overlapped a `cache clean` of its own
\* workspace, or that workspace's lock was removed from under a living owner
\* (snapshot.duplicate against cache.clean and acquire_lock's reclaim).
THEOREM TornCopies == Spec => []TornByCleanOrRobbery
<1>1. Whole => TornByCleanOrRobbery
  BY DEF Whole
<1>2. QED
  BY <1>1, WholeAlways, PTL

-----------------------------------------------------------------------------
(* The collection nothing overlaps *)

\* No more than the budget are kept, and one later than all others is.
LEMMA MostRecentKept ==
  ASSUME NEW markers, NEW kept, NEW budget \in Nat, NEW w \in Workspaces,
         budget > 0, DOMAIN markers \subseteq Workspaces,
         \A v \in DOMAIN markers : markers[v] \in Nat,
         MostRecent(markers, budget, kept)
  PROVE  /\ Cardinality(kept) <= budget
         /\ /\ w \in DOMAIN markers
            /\ \A v \in DOMAIN markers \ {w} : markers[v] < markers[w]
            => w \in kept
<1>1. IsFiniteSet(DOMAIN markers)
  BY FS_Subset, KeptAssumption
<1>2. Cardinality(DOMAIN markers) \in Nat
  BY <1>1, FS_CardinalityType
<1>3. Cardinality(kept) <= budget
  BY <1>2 DEF MostRecent, Least
<1>4. ASSUME w \in DOMAIN markers, w \notin kept,
             \A v \in DOMAIN markers \ {w} : markers[v] < markers[w]
      PROVE  FALSE
  <2>1. kept = {}
    BY <1>4 DEF MostRecent
  <2>2. Cardinality(kept) = 0
    BY <2>1, FS_EmptySet
  <2>3. Cardinality(DOMAIN markers) = 0
    BY <1>2, <2>2 DEF MostRecent, Least
  <2>4. DOMAIN markers = {}
    BY <1>1, <2>3, FS_EmptySet
  <2>5. QED
    BY <1>4, <2>4
<1>5. QED
  BY <1>3, <1>4

LEMMA WorkspacesCounted ==
  ASSUME NEW s \in SUBSET Workspaces
  PROVE  IsFiniteSet(s) /\ Cardinality(s) \in 0..Cardinality(Workspaces)
<1>1. Cardinality(Workspaces) \in Nat
  BY KeptAssumption, FS_CardinalityType
<1>2. IsFiniteSet(s) /\ Cardinality(s) <= Cardinality(Workspaces)
  BY KeptAssumption, FS_Subset
<1>3. Cardinality(s) \in Nat
  BY <1>2, FS_CardinalityType
<1>4. QED
  BY <1>1, <1>2, <1>3

\* A part of what is within a budget is within it.
LEMMA FewerCopies ==
  ASSUME NEW few, NEW many \in SUBSET Workspaces, few \subseteq many
  PROVE  Cardinality(few) <= Cardinality(many)
BY KeptAssumption, FS_Subset

\* Nothing is noted before the listing, and who marks keeps some copies.
LEMMA ListingNext ==
  ASSUME NothingNoted, KeepsSome, RunTypes, MarkerTypes, NEW p \in Procs,
         Act(p)
  PROVE  NothingNoted' /\ KeepsSome'
<1> USE DEF NothingNoted, KeepsSome, BeforeListing, Go, Move, RunTypes, MarkerTypes,
            collection, Forget
<1>1. CASE Session(p)
  BY <1>1 DEF Session, Lock, LockRefused, SessionRejected, CaptureBegins, Captured,
              CaptureFailed, Discard, SessionPrivate, CreatePrivate, CreateFailed
<1>2. CASE \/ Mark(p) \/ MarkFailed(p) \/ Select(p) \/ Collected(p)
           \/ \E w \in Workspaces : CollectLocks(p, w) \/ CollectSkips(p, w)
  BY <1>2 DEF Mark, MarkFailed, Marked, Select, Collected, CollectLocks, CollectSkips
<1>3. CASE \E w \in Workspaces : Note(p, w)
  <2>1. \A q \in Procs \ {p} : noted'[q] = noted[q]
    BY <1>3 DEF Note
  <2>2. pc' = pc /\ pc[p] = "list" /\ keep' = keep
    BY <1>3 DEF Note
  <2>3. QED
    BY <2>1, <2>2
<1>4. CASE \/ DeleteBegins(p) \/ Deleted(p) \/ DeleteFailed(p)
           \/ Unmark(p) \/ UnmarkFailed(p) \/ UnlockTarget(p)
  BY <1>4 DEF DeleteBegins, Deleted, DeleteFailed, Unmark, UnmarkFailed, UnlockTarget
<1>5. CASE Clean(p)
  BY <1>5 DEF Clean, CleanBegins, Cleaned, CleanFailed, CleanUnmarks
<1>6. CASE Begin(p) \/ Duplicate(p) \/ Kill(p)
  BY <1>6 DEF Begin, Duplicate, Kill
<1>7. CASE Finish(p) \/ Dispose(p) \/ Release(p)
  BY <1>7 DEF Finish, Dispose, Release
<1>8. QED
  BY <1>1, <1>2, <1>3, <1>4, <1>5, <1>6, <1>7 DEF Act, Progress, Collection

\* Only a marked run's collection becomes quiet, and only Begin ends that.
LEMMA QuietNext ==
  ASSUME Owned, Unhurried, NEW p \in Procs,
         Act(p)
  PROVE  QuietListed' /\ QuietAlone'
<1>1. RunTypes
  BY TypeParts DEF Owned
<1> USE <1>1 DEF Unhurried, QuietListed, QuietAlone, Go, Move, RunTypes, Removing, history,
            ended, locks, Fail, Unlock
<1>2. CASE Session(p)
  BY <1>2 DEF Session, Lock, LockRefused, SessionRejected, CaptureBegins, Captured,
              CaptureFailed, Discard, SessionPrivate, CreatePrivate, CreateFailed
<1>3. CASE Marked(p)
  <2>1. /\ pc[p] = "mark" /\ p \notin killed /\ UNCHANGED <<keep, private, killed>>
        /\ \A q \in Procs : pc'[q] = IF q = p THEN "list" ELSE pc[q]
        /\ quiet' = IF \A q \in Procs \ {p} : pc[q] \in {"idle", "done"} \/ q \in killed
                    THEN quiet \cup {p} ELSE quiet
    BY <1>3 DEF Marked
  <2>2. p \notin quiet /\ p \notin private /\ keep[p] > 0
    BY <2>1 DEF KeepsSome, Owned, PrivateAccounted
  <2>3. QuietListed'
    BY <2>1, <2>2
  <2>4. QuietAlone'
    <3>1. ASSUME NEW r \in quiet \ killed PROVE FALSE
      <4>1. r \in Procs /\ r # p
        BY <2>2 DEF RunTypes
      <4>2. pc[p] \in {"idle", "done"} \/ p \in killed
        BY <4>1
      <4>3. QED
        BY <2>1, <4>2
    <3>2. quiet' \ killed' \subseteq {p}
      BY <2>1, <3>1
    <3>3. ASSUME p \in quiet', NEW q \in Procs \ {p}
          PROVE  pc'[q] \in {"idle", "done"} \/ q \in killed'
      <4>1. pc[q] \in {"idle", "done"} \/ q \in killed
        BY <2>1, <2>2, <3>3
      <4>2. pc'[q] = pc[q]
        BY <2>1
      <4>3. QED
        BY <2>1, <4>1, <4>2
    <3> HIDE DEF RunTypes
    <3>4. QED
      BY <3>2, <3>3
  <2>5. QED
    BY <2>3, <2>4
<1>4. CASE \/ Select(p) \/ Collected(p)
           \/ \E w \in Workspaces : Note(p, w) \/ CollectLocks(p, w) \/ CollectSkips(p, w)
  <2>2. CASE Select(p) \/ Collected(p)
    BY <2>2 DEF Select, Collected
  <2>3. ASSUME NEW w \in Workspaces, Note(p, w) PROVE QuietListed' /\ QuietAlone'
    BY <2>3 DEF Note
  <2>4. ASSUME NEW w \in Workspaces, CollectLocks(p, w) \/ CollectSkips(p, w)
        PROVE  QuietListed' /\ QuietAlone'
    BY <2>4 DEF CollectLocks, CollectSkips
  <2>5. QED
    BY <1>4, <2>2, <2>3, <2>4
<1>5. CASE \/ DeleteBegins(p) \/ Deleted(p) \/ DeleteFailed(p)
           \/ Unmark(p) \/ UnmarkFailed(p) \/ UnlockTarget(p)
  <2>1. CASE DeleteBegins(p) \/ Deleted(p) \/ DeleteFailed(p)
    BY <2>1 DEF DeleteBegins, Deleted, DeleteFailed
  <2>2. CASE Unmark(p) \/ UnmarkFailed(p) \/ UnlockTarget(p)
    BY <2>2 DEF Unmark, UnmarkFailed, UnlockTarget
  <2>3. QED
    BY <1>5, <2>1, <2>2
<1>6. CASE Clean(p)
  BY <1>6 DEF Clean, CleanBegins, Cleaned, CleanFailed, CleanUnmarks
<1>7. CASE Begin(p)
  BY <1>7 DEF Begin
<1>8. CASE Duplicate(p) \/ Kill(p)
  BY <1>8 DEF Duplicate, Kill
<1>9. CASE Finish(p) \/ Dispose(p) \/ Release(p)
  BY <1>9 DEF Finish, Dispose, Release
<1>10. QED
  BY <1>2, <1>3, <1>4, <1>5, <1>6, <1>7, <1>8, <1>9
  DEF Act, Progress, Collection, Mark, MarkFailed

\* A step of the collection that keeps the same copies.
LEMMA SameBudget ==
  ASSUME Unhurried, RunTypes, NEW p \in quiet, p \notin killed, Collecting(p),
         Kept(p)' = Kept(p), UNCHANGED <<keep, noted>>,
         victims'[p] \subseteq victims[p], pc'[p] \notin {"list", "work"}
  PROVE  CollectsToBudget(p)'
<1>1. WithinBudget(p, Kept(p)) /\ (Latest(p) => Home[p] \notin victims[p])
  BY DEF Unhurried, QuietCollects, CollectsToBudget
<1>2. QED
  BY <1>1 DEF CollectsToBudget, WithinBudget, Latest

\* The steps of the collection itself, while nothing else runs.
LEMMA CollectsNext ==
  ASSUME Owned, Unhurried, NEW p \in Procs, p \in quiet \/ Marked(p),
         Act(p), p \notin killed', p \in quiet'
  PROVE  CollectsToBudget(p)'
<1>1. RunTypes /\ LockTypes /\ MarkerTypes
  BY TypeParts DEF Owned
<1> USE <1>1, KeptAssumption DEF Go, Move, Fail, RunTypes, LockTypes,
        collection, history, ended, locks
<1>2. p \notin killed
  BY OnlyOneMoves
<1>3. CASE Marked(p)
  <2>1. DOMAIN noted'[p] = {}
    BY <1>3 DEF Marked, Unhurried, NothingNoted, BeforeListing
  <2>2. pending'[p] = Workspaces /\ pc'[p] = "list"
    BY <1>3 DEF Marked
  <2>3. ListingExact(p)'
    BY <2>1, <2>2 DEF ListingExact, Copies
  <2>4. QED
    BY <2>2, <2>3 DEF CollectsToBudget, Collecting
<1>4. CASE p \in quiet /\ \E w \in Workspaces : Note(p, w)
  <2>1. PICK w \in Workspaces : Note(p, w)
    BY <1>4
  <2>2. pc[p] = "list" /\ pc'[p] = "list" /\ ListingExact(p)
    BY <1>2, <1>4, <2>1 DEF Note, Unhurried, QuietCollects, CollectsToBudget
  <2>3. UNCHANGED copy /\ pending'[p] = pending[p] \ {w} /\ w \in pending[p]
    BY <2>1 DEF Note
  <2>4. DOMAIN noted'[p] = DOMAIN noted[p] \cup (IF copy[w] = "absent" THEN {} ELSE {w})
    BY <2>1 DEF Note, MarkerTypes
  <2>5. DOMAIN noted'[p] = Copies' \ pending'[p]
    BY <2>2, <2>3, <2>4 DEF ListingExact, Copies
  <2>6. QED
    BY <2>2, <2>5 DEF CollectsToBudget, ListingExact, Collecting
<1>5. CASE p \in quiet /\ Select(p)
  <2>1. pc[p] = "list" /\ pc'[p] = "collect" /\ ListingExact(p) /\ keep[p] > 0
    BY <1>2, <1>5 DEF Select, Unhurried, QuietCollects, QuietListed, CollectsToBudget
  <2>2. PICK kept \in SUBSET DOMAIN noted[p] :
          /\ MostRecent(noted[p], keep[p], kept)
          /\ victims'[p] = DOMAIN noted[p] \ kept
    BY <1>5 DEF Select
  <2>3. pending[p] = {} /\ UNCHANGED <<copy, keep, lock, stuck, noted>>
    BY <1>5 DEF Select
  <2>4. DOMAIN noted[p] = Copies /\ Collectable' \subseteq Copies
    BY <2>1, <2>3 DEF ListingExact, Copies, Collectable
  <2>5. \A v \in DOMAIN noted[p] : noted[p][v] \in Nat
    BY DEF MarkerTypes
  <2>6. Cardinality(kept) <= keep[p] /\ (Latest(p) => Home[p] \in kept)
    BY <2>1, <2>2, <2>4, <2>5, MostRecentKept DEF Copies, Latest
  <2>7. Kept(p)' \subseteq kept /\ kept \in SUBSET Workspaces
    BY <2>1, <2>2, <2>4 DEF Kept, Copies
  <2>8. /\ Cardinality(Kept(p)') <= Cardinality(kept)
        /\ Cardinality(Kept(p)' \ {Home[p]}) <= Cardinality(kept)
    BY <2>7, FewerCopies
  <2>9. WithinBudget(p, Kept(p))'
    <3>1. /\ Cardinality(kept) \in Nat /\ Cardinality(Kept(p)') \in Nat
          /\ Cardinality(Kept(p)' \ {Home[p]}) \in Nat
      BY <2>7, WorkspacesCounted
    <3>2. QED
      BY <2>3, <2>6, <2>8, <3>1 DEF WithinBudget
  <2>10. Latest(p)' => Home[p] \notin victims'[p]
    BY <2>2, <2>3, <2>6 DEF Latest
  <2>11. QED
    BY <2>1, <2>9, <2>10 DEF CollectsToBudget
<1>6. CASE p \in quiet /\ \E w \in Workspaces : CollectLocks(p, w)
  <2>1. PICK w \in Workspaces : CollectLocks(p, w)
    BY <1>6
  <2>2. pc[p] = "collect" /\ pc'[p] = "delete" /\ w \in victims[p]
        /\ victims'[p] = victims[p] \ {w} /\ target'[p] = w
        /\ UNCHANGED <<copy, keep, noted, stuck>>
    BY <2>1 DEF CollectLocks
  <2>3. Free(w) /\ lock' = [lock EXCEPT ![w] = p] /\ p \notin stuck
    BY <1>2, <2>1 DEF CollectLocks
  <2>4. Collectable' = Collectable
    BY <2>2, <2>3 DEF Collectable, Copies, Free
  <2>5. Kept(p)' = Kept(p)
    BY <2>2, <2>4 DEF Kept
  <2>6. QED
    BY <1>2, <1>6, <2>2, <2>5, SameBudget DEF Collecting
<1>7. CASE p \in quiet /\ \E w \in Workspaces : CollectSkips(p, w)
  <2>1. PICK w \in Workspaces : CollectSkips(p, w)
    BY <1>7
  <2>2. pc[p] = "collect" /\ pc'[p] = "collect" /\ w \in victims[p]
        /\ victims'[p] = victims[p] \ {w}
        /\ UNCHANGED <<copy, keep, noted, stuck, lock>>
    BY <2>1 DEF CollectSkips
  <2>3. lock[w] \in stuck \/ lock[w] \in Alive
    BY <2>1 DEF CollectSkips, Free, Alive
  <2>4. lock[w] \in Alive => w = Home[p]
    BY <1>2, <1>7, <2>2, <2>3 DEF Unhurried, QuietAlone, Owned, NothingElseHeld, Alive,
       Holding, Removing
  <2>5. Collectable' = Collectable /\ (w \in Collectable => w = Home[p])
    BY <2>2, <2>3, <2>4 DEF Collectable, Copies
  <2>6. WithinBudget(p, Kept(p)) /\ (Latest(p) => Home[p] \notin victims[p])
    BY <1>2, <1>7, <2>2 DEF Unhurried, QuietCollects, CollectsToBudget, Collecting
  <2>7. Kept(p)' \ {Home[p]} = Kept(p) \ {Home[p]}
    BY <2>2, <2>5 DEF Kept
  <2>8. Latest(p) => Kept(p)' = Kept(p)
    BY <2>2, <2>5, <2>6 DEF Kept
  <2>9. WithinBudget(p, Kept(p))'
    BY <2>2, <2>6, <2>7, <2>8 DEF WithinBudget, Latest
  <2>10. QED
    BY <2>2, <2>6, <2>9 DEF CollectsToBudget, Latest
<1>8. CASE p \in quiet /\ (DeleteBegins(p) \/ Deleted(p))
  <2>1. /\ pc[p] \in {"delete", "deleting"} /\ pc'[p] \in {"deleting", "unmark"}
        /\ UNCHANGED <<victims, keep, noted, stuck, lock, target>>
    BY <1>8 DEF DeleteBegins, Deleted
  <2>2. Collectable' \ {target[p]} = Collectable \ {target[p]}
    BY <1>8 DEF DeleteBegins, Deleted, Collectable, Copies
  <2>3. pc'[p] = "unmark" => target[p] \notin Collectable'
    BY <1>8 DEF DeleteBegins, Deleted, Collectable, Copies
  <2>4. Kept(p)' = Kept(p)
    BY <2>1, <2>2, <2>3 DEF Kept
  <2>5. QED
    BY <1>2, <1>8, <2>1, <2>4, SameBudget DEF Collecting
<1>9. CASE p \in quiet /\ (DeleteFailed(p) \/ UnmarkFailed(p))
  BY <1>9 DEF DeleteFailed, UnmarkFailed, CollectsToBudget, Collecting
<1>10. CASE p \in quiet /\ Unmark(p)
  <2>1. /\ pc[p] = "unmark" /\ pc'[p] = "unlock"
        /\ UNCHANGED <<victims, keep, noted, stuck, lock, target, copy, failed>>
    BY <1>10 DEF Unmark
  <2>2. Kept(p)' = Kept(p)
    BY <2>1 DEF Kept, Collectable, Copies
  <2>3. QED
    BY <1>2, <1>10, <2>1, <2>2, SameBudget DEF Collecting
<1>11. CASE p \in quiet /\ UnlockTarget(p)
  <2>1. CASE p \in failed'
    BY <1>11, <2>1 DEF UnlockTarget, CollectsToBudget, Collecting
  <2>2. CASE p \notin failed'
    <3>1. /\ pc[p] = "unlock" /\ pc'[p] = "collect" /\ p \notin failed
          /\ UNCHANGED <<victims, keep, noted, stuck, target, copy>>
          /\ lock[target[p]] = p /\ lock' = [lock EXCEPT ![target[p]] = None]
      BY <1>11, <2>2 DEF UnlockTarget, Unlock
    <3>2. Collectable' = Collectable
      BY <1>2, <3>1 DEF Collectable, Copies
    <3>3. Kept(p)' = Kept(p)
      BY <3>1, <3>2 DEF Kept
    <3>4. QED
      BY <1>2, <1>11, <3>1, <3>3, SameBudget DEF Collecting
  <2>3. QED
    BY <2>1, <2>2
<1>12. CASE p \in quiet /\ Collected(p)
  <2>1. /\ pc[p] = "collect" /\ pc'[p] = "work" /\ victims[p] = {}
        /\ UNCHANGED <<copy, keep, noted, stuck, lock>>
    BY <1>12 DEF Collected
  <2>2. WithinBudget(p, Collectable)
    BY <1>2, <1>12, <2>1 DEF Unhurried, QuietCollects, CollectsToBudget, Collecting, Kept
  <2>3. Collectable' = Collectable
    BY <2>1 DEF Collectable, Copies
  <2>4. QED
    BY <2>1, <2>2, <2>3 DEF CollectsToBudget, Collecting, WithinBudget, Latest
<1>13. CASE p \in quiet /\ Duplicate(p)
  <2>1. pc[p] = "work" /\ pc'[p] = "work" /\ UNCHANGED <<copy, keep, noted, stuck, lock>>
    BY <1>13 DEF Duplicate
  <2>2. WithinBudget(p, Collectable)
    BY <1>2, <1>13, <2>1 DEF Unhurried, QuietCollects, CollectsToBudget
  <2>3. Collectable' = Collectable
    BY <2>1 DEF Collectable, Copies
  <2>4. QED
    BY <2>1, <2>2, <2>3 DEF CollectsToBudget, Collecting, WithinBudget, Latest
<1>14. CASE p \in quiet /\ (Finish(p) \/ Dispose(p) \/ Release(p))
  BY <1>14 DEF Finish, Dispose, Release, CollectsToBudget, Collecting
<1>15. CASE Kill(p)
  BY <1>15 DEF Kill
<1>16. CASE p \in quiet /\ (Session(p) \/ Clean(p) \/ Begin(p))
  <2>1. pc[p] \in {"list", "collect", "work", "dispose", "release", "done", "killed"}
                \cup Removing
    BY <1>16 DEF Unhurried, QuietListed
  <2>2. QED
    BY <1>16, <2>1 DEF Removing, Session, Lock, LockRefused, SessionRejected,
       CaptureBegins, Captured, CaptureFailed, Discard, SessionPrivate, CreatePrivate,
       CreateFailed, Clean, CleanBegins, Cleaned, CleanFailed, CleanUnmarks, Begin
<1>17. QED
  BY <1>3, <1>4, <1>5, <1>6, <1>7, <1>8, <1>9, <1>10, <1>11, <1>12, <1>13, <1>14, <1>15,
     <1>16
  DEF Act, Progress, Collection, Mark, MarkFailed

\* No other step makes a collection quiet.
LEMMA OnlyMarkQuiets ==
  ASSUME NEW p \in Procs, Act(p)
  PROVE  quiet' \subseteq quiet \/ (Marked(p) /\ quiet' \subseteq quiet \cup {p})
<1> USE DEF history
<1>1. CASE Session(p)
  BY <1>1 DEF Session, Lock, LockRefused, SessionRejected, CaptureBegins, Captured,
              CaptureFailed, Discard, SessionPrivate, CreatePrivate, CreateFailed
<1>2. CASE Marked(p)
  BY <1>2 DEF Marked
<1>3. CASE \/ Select(p) \/ Collected(p)
           \/ \E w \in Workspaces : Note(p, w) \/ CollectLocks(p, w) \/ CollectSkips(p, w)
  BY <1>3 DEF Select, Collected, Note, CollectLocks, CollectSkips
<1>4. CASE \/ DeleteBegins(p) \/ Deleted(p) \/ DeleteFailed(p)
           \/ Unmark(p) \/ UnmarkFailed(p) \/ UnlockTarget(p)
  BY <1>4 DEF DeleteBegins, Deleted, DeleteFailed, Unmark, UnmarkFailed, UnlockTarget
<1>5. CASE Clean(p)
  BY <1>5 DEF Clean, CleanBegins, Cleaned, CleanFailed, CleanUnmarks
<1>6. CASE Begin(p) \/ Duplicate(p) \/ Kill(p)
  BY <1>6 DEF Begin, Duplicate, Kill
<1>7. CASE Finish(p) \/ Dispose(p) \/ Release(p)
  BY <1>7 DEF Finish, Dispose, Release
<1>8. QED
  BY <1>1, <1>2, <1>3, <1>4, <1>5, <1>6, <1>7 DEF Act, Progress, Collection, Mark, MarkFailed

\* A collection that another invocation only begins beside.
LEMMA OthersBudget ==
  ASSUME Unhurried, NEW q \in quiet, q \notin killed, keep'[q] = keep[q],
         pc'[q] = pc[q],
         UNCHANGED <<copy, lock, stuck, failed, pending, noted, victims, target>>
  PROVE  CollectsToBudget(q)'
<1>1. Collectable' = Collectable /\ Copies' = Copies
  BY DEF Collectable, Copies
<1>2. CollectsToBudget(q)
  BY DEF Unhurried, QuietCollects
<1>3. QED
  BY <1>1, <1>2 DEF CollectsToBudget, ListingExact, Collecting, Kept, WithinBudget, Latest

LEMMA UnhurriedNext == Owned /\ Unhurried /\ [Next]_vars => Unhurried'
<1> SUFFICES ASSUME Owned, Unhurried, [Next]_vars PROVE Unhurried'
  OBVIOUS
<1>1. RunTypes /\ LockTypes /\ MarkerTypes
  BY TypeParts DEF Owned
<1>2. CASE \E p \in Procs : Act(p)
  <2>1. PICK p \in Procs : Act(p)
    BY <1>2
  <2>2. NothingNoted' /\ KeepsSome'
    BY <1>1, <2>1, ListingNext DEF Unhurried
  <2>3. QuietListed' /\ QuietAlone'
    BY <2>1, QuietNext
  <2>4. ASSUME NEW q \in quiet' \ killed' PROVE CollectsToBudget(q)'
    <3>1. quiet' \subseteq quiet \cup {p}
      BY <2>1, OnlyMarkQuiets
    <3>2. q \in Procs
      BY <1>1, <2>4, <3>1 DEF RunTypes
    <3>3. CASE q = p
      <4>1. CASE Marked(p)
        BY <2>1, <2>4, <3>3, <4>1, CollectsNext
      <4>2. CASE quiet' \subseteq quiet
        BY <2>1, <2>4, <3>3, <4>2, CollectsNext
      <4>3. QED
        BY <2>1, <4>1, <4>2, OnlyMarkQuiets
    <3>4. CASE q # p
      <4>1. q \in quiet \ killed
        BY <1>1, <2>1, <2>4, <3>1, <3>2, <3>4, OnlyOneMoves
      <4>2. pc[p] \in {"idle", "done"} \/ p \in killed
        BY <3>4, <4>1 DEF Unhurried, QuietAlone
      <4>3. Begin(p)
        BY <2>1, <4>2 DEF Act, Progress, Session, Collection, Clean, Begin, Duplicate,
           Kill, Lock, LockRefused, SessionRejected, CaptureBegins, Captured,
           CaptureFailed, Discard, SessionPrivate, CreatePrivate, CreateFailed, Mark,
           MarkFailed, Marked, Select, Note, CollectLocks, CollectSkips, Collected, DeleteBegins,
           Deleted, DeleteFailed, Unmark, UnmarkFailed, UnlockTarget, Finish, Dispose,
           Release, CleanBegins, Cleaned, CleanFailed, CleanUnmarks, Go, Move
      <4>4. QED
        BY <2>4, <3>4, <4>1, <4>3, OthersBudget DEF Begin, ended, locks, collection
    <3>5. QED
      BY <3>3, <3>4
  <2>5. QED
    BY <2>2, <2>3, <2>4 DEF Unhurried, QuietCollects
<1>3. CASE UNCHANGED vars
  BY <1>3 DEF vars, Unhurried, NothingNoted, KeepsSome, QuietListed, QuietAlone,
     QuietCollects, CollectsToBudget, ListingExact, Collecting, Kept, Copies, Collectable,
     WithinBudget, Latest
<1>4. ASSUME NEW w \in Workspaces, Rob(w) PROVE Unhurried'
  <2>1. NothingNoted' /\ KeepsSome' /\ QuietListed' /\ QuietAlone'
    BY <1>4 DEF Rob, ended, collection, history, Unhurried, NothingNoted, KeepsSome,
       QuietListed, QuietAlone
  <2>2. lock' = [lock EXCEPT ![w] = None] /\ lock[w] \notin stuck /\ None \notin stuck
    BY <1>1, <1>4, KeptAssumption DEF Rob, RunTypes
  <2>3. Collectable' = Collectable
    <3>1. UNCHANGED <<copy, stuck>> /\ lock \in [Workspaces -> Procs \cup {None}]
      BY <1>1, <1>4 DEF Rob, ended, LockTypes
    <3>2. QED
      BY <2>2, <3>1 DEF Collectable, Copies
  <2>4. QuietCollects'
    BY <1>4, <2>3 DEF Rob, ended, collection, history, Unhurried, QuietCollects,
       CollectsToBudget, ListingExact, Collecting, Kept, Copies, WithinBudget, Latest
  <2>5. QED
    BY <2>1, <2>4 DEF Unhurried
<1>5. QED
  BY <1>2, <1>3, <1>4 DEF Next

LEMMA UnhurriedAlways == Spec => []Unhurried
<1>1. Init => Unhurried
  BY DEF Init, Unhurried, NothingNoted, KeepsSome, QuietListed, QuietAlone, QuietCollects
<1>2. QED
  BY <1>1, UnhurriedNext, LocksOwned, PTL DEF Spec

\* The budget holds whether or not the workspace was cleaned.
QuietBudget ==
  \A p \in quiet \ killed : pc[p] = "work" => WithinBudget(p, Collectable)

\* A collection nothing overlapped leaves at most keep_snapshots of the copies it
\* can lock besides its run's own, and with it too when its marker is the latest,
\* whatever times the clock gave the markers and whichever could not be written,
\* also when `cache clean` has run before (cache.collect_snapshots).
THEOREM QuietCollectionBounded == Spec => []QuietBudget
<1>1. Unhurried => QuietBudget
  BY DEF Unhurried, QuietCollects, CollectsToBudget, QuietBudget
<1>2. QED
  BY <1>1, UnhurriedAlways, PTL

\* Without `cache clean` the copy of the run that collects is moreover still
\* there, unless that workspace's lock was removed from under its owner: a
\* collection that chose it by its marker meets its own lock.
THEOREM QuietCollection == ASSUME Cleaners = {} PROVE Spec => []QuietCollectionInBudget
<1>1. Unhurried /\ Whole => QuietCollectionInBudget
  <2> SUFFICES ASSUME Unhurried, Whole, NEW p \in quiet \ killed, pc[p] = "work"
               PROVE  /\ Cardinality(Collectable \ {Home[p]}) <= keep[p]
                      /\ Latest(p) => Cardinality(Collectable) <= keep[p]
                      /\ Home[p] \in Copies \cup robbed
    BY DEF QuietCollectionInBudget
  <2>1. /\ Cardinality(Collectable \ {Home[p]}) <= keep[p]
        /\ Latest(p) => Cardinality(Collectable) <= keep[p]
    BY DEF Unhurried, QuietCollects, CollectsToBudget, WithinBudget
  <2>2. p \in Procs
    BY TypeParts DEF Whole, Owned, RunTypes
  <2>3. p \notin private /\ p \notin killed
    BY DEF Unhurried, QuietListed
  <2>4. CopyWhole /\ ~CleanedUnder(p)
    BY DEF Whole, CleanedUnder
  <2>5. copy[Home[p]] = "whole" \/ Home[p] \in robbed
    BY <2>2, <2>3, <2>4 DEF CopyWhole, InKeptCopy
  <2>6. Home[p] \in Copies \cup robbed
    BY <2>2, <2>5, KeptAssumption DEF Copies
  <2>7. QED
    BY <2>1, <2>6
<1>2. QED
  BY <1>1, UnhurriedAlways, WholeAlways, PTL

-----------------------------------------------------------------------------
(* How long an invocation may take *)

\* The steps an invocation has left at most, the calls of snapshot.duplicate
\* while it works left aside: one for each directory it lists, and five for
\* each copy it removes.
Left(p) ==
  LET n == Cardinality(Workspaces)
      v == 6 * Cardinality(victims[p])
  IN  CASE pc[p] = "idle"      -> 7 * n + 15
        [] pc[p] = "locking"   -> 7 * n + 14
        [] pc[p] = "session"   -> 7 * n + 13
        [] pc[p] = "capturing" -> 7 * n + 12
        [] pc[p] = "mark"      -> 7 * n + 11
        [] pc[p] = "list"      -> 6 * n + 10 + Cardinality(pending[p])
        [] pc[p] = "delete"    -> v + 9
        [] pc[p] = "deleting"  -> v + 8
        [] pc[p] = "unmark"    -> v + 7
        [] pc[p] = "unlock"    -> v + 6
        [] pc[p] = "collect"   -> v + 4
        [] pc[p] = "discard"   -> 6
        [] pc[p] = "private"   -> 5
        [] pc[p] = "clean"     -> 4
        [] pc[p] = "cleaning"  -> 3
        [] pc[p] = "work"      -> 3
        [] pc[p] = "cleaned"   -> 2
        [] pc[p] = "dispose"   -> 2
        [] pc[p] = "release"   -> 1
        [] OTHER               -> 0

\* Another invocation's step does not touch what is left of this one.
LEMMA LeftToOthers ==
  ASSUME Owned, NEW p \in Procs, NEW q \in Procs \ {p},
         Act(q)
  PROVE  Left(p)' = Left(p)
<1> USE DEF Move, Go, collection, history, ended, locks
<1>1. pc \in [Procs -> Steps] /\ pending \in [Procs -> SUBSET Workspaces]
      /\ victims \in [Procs -> SUBSET Workspaces]
  BY DEF Owned, TypeOK
<1>2. pc'[p] = pc[p] /\ pending'[p] = pending[p] /\ victims'[p] = victims[p]
  <2>1. CASE Session(q)
    BY <1>1, <2>1 DEF Session, Lock, LockRefused, SessionRejected, CaptureBegins, Captured,
                CaptureFailed, Discard, SessionPrivate, CreatePrivate, CreateFailed
  <2>2. CASE Mark(q) \/ MarkFailed(q) \/ Select(q)
    BY <1>1, <2>2 DEF Mark, MarkFailed, Marked, Select
  <2>3. CASE \E w \in Workspaces : Note(q, w) \/ CollectLocks(q, w) \/ CollectSkips(q, w)
    BY <1>1, <2>3 DEF Note, CollectLocks, CollectSkips
  <2>4. CASE \/ DeleteBegins(q) \/ Deleted(q) \/ DeleteFailed(q) \/ Unmark(q)
             \/ UnmarkFailed(q) \/ UnlockTarget(q) \/ Collected(q)
    BY <1>1, <2>4 DEF DeleteBegins, Deleted, DeleteFailed, Unmark, UnmarkFailed,
                UnlockTarget, Collected, Forget
  <2>5. CASE Clean(q)
    BY <1>1, <2>5 DEF Clean, CleanBegins, Cleaned, CleanFailed, CleanUnmarks
  <2>6. CASE Begin(q) \/ Duplicate(q) \/ Kill(q) \/ Finish(q) \/ Dispose(q) \/ Release(q)
    BY <1>1, <2>6 DEF Begin, Duplicate, Kill, Finish, Dispose, Release, Forget
  <2>7. QED
    BY <2>1, <2>2, <2>3, <2>4, <2>5, <2>6 DEF Act, Progress, Collection
<1>3. QED
  BY <1>2 DEF Left

\* One directory or one victim less.
LEMMA OneLess ==
  ASSUME NEW s \in SUBSET Workspaces, NEW w \in s
  PROVE  Cardinality(s \ {w}) = Cardinality(s) - 1 /\ Cardinality(s) \in Nat \ {0}
<1>1. IsFiniteSet(s) /\ Cardinality(s) \in Nat
  BY WorkspacesCounted
<1>2. Cardinality(s) # 0
  BY <1>1, FS_EmptySet
<1>3. QED
  BY <1>1, <1>2, FS_RemoveElement

\* Each step of its own leaves less.
LEMMA LeftFalls ==
  ASSUME Owned, NEW p \in Procs, Begin(p) \/ Progress(p)
  PROVE  Left(p)' < Left(p)
<1>0. /\ pc \in [Procs -> Steps] /\ pending \in [Procs -> SUBSET Workspaces]
      /\ victims \in [Procs -> SUBSET Workspaces]
  BY DEF Owned, TypeOK
<1>1. PICK n \in Nat : n = Cardinality(Workspaces)
  BY KeptAssumption, FS_CardinalityType
<1>2. PICK v \in 0..n : v = Cardinality(victims[p])
  BY <1>0, <1>1, WorkspacesCounted
<1>3. PICK l \in 0..n : l = Cardinality(pending[p])
  BY <1>0, <1>1, WorkspacesCounted
<1> USE DEF Move, Go, collection, history, ended, locks
<1>4. CASE Begin(p)
  BY <1>0, <1>1, <1>4 DEF Begin, Left
<1>5. CASE Session(p)
  BY <1>0, <1>1, <1>5 DEF Session, Lock, LockRefused, SessionRejected, CaptureBegins,
    Captured, CaptureFailed, Discard, SessionPrivate, CreatePrivate, CreateFailed, Left
<1>6. CASE Mark(p) \/ MarkFailed(p)
  <2>1. pc[p] = "mark" /\ pc'[p] = "list" /\ pending'[p] = Workspaces
    BY <1>0, <1>6 DEF Mark, MarkFailed, Marked
  <2>2. Left(p) = 7 * n + 11 /\ Left(p)' = 6 * n + 10 + n
    BY <1>1, <2>1 DEF Left
  <2>3. QED
    BY <2>2
<1>7. CASE \E w \in Workspaces : Note(p, w)
  <2>1. PICK w \in pending[p] : pc[p] = "list" /\ pc'[p] = "list"
                                /\ pending'[p] = pending[p] \ {w}
    BY <1>0, <1>7 DEF Note
  <2>2. Cardinality(pending'[p]) = l - 1
    BY <1>0, <1>3, <2>1, OneLess
  <2>3. Left(p) = 6 * n + 10 + l /\ Left(p)' = 6 * n + 10 + (l - 1)
    BY <1>1, <1>3, <2>1, <2>2 DEF Left
  <2>4. QED
    BY <2>3
<1>8. CASE Select(p)
  <2>1. pc[p] = "list" /\ pc'[p] = "collect"
    BY <1>0, <1>8 DEF Select
  <2>2. victims'[p] \in SUBSET Workspaces
    <3>1. PICK kept \in SUBSET DOMAIN noted[p] :
            victims' = [victims EXCEPT ![p] = DOMAIN noted[p] \ kept]
      BY <1>8 DEF Select
    <3>2. DOMAIN noted[p] \subseteq Workspaces
      BY DEF Owned, NotedTypes
    <3>3. QED
      BY <1>0, <3>1, <3>2
  <2>3. PICK u \in 0..n : u = Cardinality(victims'[p])
    BY <1>1, <2>2, WorkspacesCounted
  <2>4. Left(p) = 6 * n + 10 + l /\ Left(p)' = 6 * u + 4
    BY <1>1, <1>3, <2>1, <2>3 DEF Left
  <2>5. QED
    BY <2>4
<1>9. CASE \E w \in Workspaces : CollectLocks(p, w) \/ CollectSkips(p, w)
  <2>1. PICK w \in victims[p] : pc[p] = "collect" /\ pc'[p] \in {"delete", "collect"}
                                /\ victims'[p] = victims[p] \ {w}
    BY <1>0, <1>9 DEF CollectLocks, CollectSkips
  <2>2. Cardinality(victims'[p]) = v - 1 /\ v >= 1
    BY <1>0, <1>2, <2>1, OneLess
  <2>3. /\ Left(p) = 6 * v + 4
        /\ Left(p)' = 6 * (v - 1) + 9 \/ Left(p)' = 6 * (v - 1) + 4
    BY <1>2, <2>1, <2>2 DEF Left
  <2>4. QED
    BY <2>2, <2>3
<1>u. CASE UnlockTarget(p) /\ pc'[p] = "release"
  <2>1. pc[p] = "unlock"
    BY <1>u DEF UnlockTarget
  <2>2. Left(p) = 6 * v + 6 /\ Left(p)' = 1
    BY <1>2, <1>u, <2>1 DEF Left
  <2>3. QED
    BY <2>2
<1>10. CASE \/ DeleteBegins(p) \/ Deleted(p) \/ DeleteFailed(p) \/ Unmark(p)
            \/ UnmarkFailed(p) \/ Collected(p)
            \/ UnlockTarget(p) /\ pc'[p] # "release"
  <2>1. victims'[p] = victims[p]
    BY <1>0, <1>10 DEF DeleteBegins, Deleted, DeleteFailed, Unmark, UnmarkFailed,
                UnlockTarget, Collected
  <2>2. \/ pc[p] = "delete" /\ pc'[p] = "deleting"
        \/ pc[p] = "deleting" /\ pc'[p] \in {"unmark", "unlock"}
        \/ pc[p] = "unmark" /\ pc'[p] = "unlock"
        \/ pc[p] = "unlock" /\ pc'[p] \in {"release", "collect"}
        \/ pc[p] = "collect" /\ pc'[p] = "work"
    BY <1>0, <1>10 DEF DeleteBegins, Deleted, DeleteFailed, Unmark, UnmarkFailed,
                UnlockTarget, Collected
  <2>3. PICK k \in Nat : k = 6 * v
    <3>1. 6 * v \in Nat
      OBVIOUS
    <3>2. QED
      BY <3>1
  <2>4. Left(p) = CASE pc[p] = "delete"   -> k + 9
                    [] pc[p] = "deleting" -> k + 8
                    [] pc[p] = "unmark"   -> k + 7
                    [] pc[p] = "unlock"   -> k + 6
                    [] OTHER              -> k + 4
    BY <1>2, <2>2, <2>3 DEF Left
  <2>5. Left(p)' = CASE pc'[p] = "deleting" -> k + 8
                     [] pc'[p] = "unmark"   -> k + 7
                     [] pc'[p] = "unlock"   -> k + 6
                     [] pc'[p] = "collect"  -> k + 4
                     [] pc'[p] = "work"     -> 3
                     [] OTHER               -> 1
    BY <1>2, <2>1, <2>2, <2>3 DEF Left
  <2>6. QED
    BY <2>2, <2>4, <2>5
<1>11. CASE Clean(p)
  BY <1>0, <1>11 DEF Clean, CleanBegins, Cleaned, CleanFailed, CleanUnmarks, Left
<1>12. CASE Finish(p) \/ Dispose(p) \/ Release(p)
  BY <1>0, <1>12 DEF Finish, Dispose, Release, Left
<1>13. QED
  BY <1>4, <1>5, <1>6, <1>7, <1>8, <1>9, <1>u, <1>10, <1>11, <1>12 DEF Progress, Collection

LEMMA LeftIs ==
  ASSUME NEW CONSTANT p \in Procs
  PROVE  Owned => Left(p) \in 0..(7 * Cardinality(Workspaces) + 15)
<1> SUFFICES ASSUME Owned PROVE Left(p) \in 0..(7 * Cardinality(Workspaces) + 15)
  OBVIOUS
<1>1. /\ pending \in [Procs -> SUBSET Workspaces] /\ victims \in [Procs -> SUBSET Workspaces]
  BY DEF Owned, TypeOK
<1>2. PICK n \in Nat : n = Cardinality(Workspaces)
  BY KeptAssumption, FS_CardinalityType
<1>3. PICK v \in 0..n : v = Cardinality(victims[p])
  BY <1>1, <1>2, WorkspacesCounted
<1>4. PICK l \in 0..n : l = Cardinality(pending[p])
  BY <1>1, <1>2, WorkspacesCounted
<1>5. Left(p) \in Nat
  BY <1>2, <1>3, <1>4 DEF Left
<1>6. Left(p) <= 7 * n + 15
  BY <1>2, <1>3, <1>4 DEF Left
<1>7. QED
  BY <1>2, <1>5, <1>6

LEMMA LeftStays ==
  ASSUME NEW CONSTANT p \in Procs
  PROVE  Owned' => (Left(p) \in 0..(7 * Cardinality(Workspaces) + 15))'
BY LeftIs, PTL

\* engine.run, cache.collect_snapshots and cache.clean: every step of an
\* invocation brings it nearer to its end, and no other invocation, kill, lock
\* or removal takes it back: for every number of workspaces and whatever locks
\* it meets, an invocation takes at most 7 steps for each workspace and 15 more,
\* not counting how often its workers copy the tree.
THEOREM InvocationsAreBounded ==
  Spec => [][\A p \in Procs :
               /\ Left(p) \in 0..(7 * Cardinality(Workspaces) + 15) /\ Left(p)' <= Left(p)
               /\ Begin(p) \/ Progress(p) => Left(p)' < Left(p)]_vars
<1>1. ASSUME Owned, [Next]_vars, NEW p \in Procs
      PROVE  [/\ Left(p) \in 0..(7 * Cardinality(Workspaces) + 15) /\ Left(p)' <= Left(p)
              /\ Begin(p) \/ Progress(p) => Left(p)' < Left(p)]_vars
  <2>1. CASE UNCHANGED vars
    BY <2>1
  <2>2. /\ Left(p) \in 0..(7 * Cardinality(Workspaces) + 15)
        /\ Left(p)' \in 0..(7 * Cardinality(Workspaces) + 15)
    BY <1>1, OwnedNext, LeftIs, LeftStays
  <2>3. ASSUME NEW q \in Procs, Act(q)
        PROVE  Left(p)' <= Left(p)
    <3>1. CASE q # p
      BY <1>1, <2>2, <2>3, <3>1, LeftToOthers
    <3>2. CASE q = p /\ (Begin(q) \/ Progress(q))
      <4>1. Left(p)' < Left(p)
        BY <1>1, <3>2, LeftFalls
      <4>2. QED
        BY <2>2, <4>1
    <3>k. CASE q = p /\ Kill(q)
      <4>1. pc'[p] = "killed"
        BY <1>1, <3>k DEF Kill, Go, Move, Owned, TypeOK
      <4>2. Left(p)' = 0
        BY <4>1 DEF Left
      <4>3. QED
        BY <2>2, <4>2
    <3>3. CASE q = p /\ Duplicate(q)
      <4>1. pc'[p] = pc[p] /\ UNCHANGED <<pending, victims>>
        BY <1>1, <3>3 DEF Duplicate, Go, Move, collection, Owned, TypeOK
      <4>2. Left(p)' = Left(p)
        BY <4>1 DEF Left
      <4>3. QED
        BY <2>2, <4>2
    <3>4. QED
      BY <2>3, <3>1, <3>2, <3>3, <3>k DEF Act
  <2>4. Begin(p) \/ Progress(p) => Left(p)' < Left(p)
    BY <1>1, LeftFalls
  <2>5. ASSUME NEW w \in Workspaces, Rob(w) PROVE Left(p)' <= Left(p)
    <3>1. UNCHANGED <<pc, pending, victims>>
      BY <2>5 DEF Rob, collection
    <3>2. Left(p)' = Left(p)
      BY <3>1 DEF Left
    <3>3. QED
      BY <2>2, <3>2
  <2>6. QED
    BY <1>1, <2>1, <2>2, <2>3, <2>4, <2>5 DEF Next
<1>2. Owned /\ [Next]_vars
      => [\A p \in Procs :
            /\ Left(p) \in 0..(7 * Cardinality(Workspaces) + 15) /\ Left(p)' <= Left(p)
            /\ Begin(p) \/ Progress(p) => Left(p)' < Left(p)]_vars
  BY <1>1
<1>3. QED
  BY <1>2, LocksOwned, PTL DEF Spec

=============================================================================
