------------------------ MODULE WorkspaceLockProofs ------------------------
(***************************************************************************)
(* What the lock guarantees for every set of processes, every assignment   *)
(* of hosts, kills, recycled pids and deadlines.                           *)
(*                                                                         *)
(* The invariant behind exclusion: a pid that answers covers every process *)
(* that is alive; a process about to reclaim read a file whose owner has   *)
(* ended; and a process that created the file, and was not robbed, still   *)
(* finds it at the path until it removes it itself.  The last two theorems *)
(* have invariants of their own: what a process knows that is alone with   *)
(* the lock of an ended owner, and how many files a process may still meet *)
(* before its call ends.                                                   *)
(***************************************************************************)
EXTENDS WorkspaceLock, FiniteSetTheorems, TLAPS

\* A process that created the file and has not removed it.
Owning(p) == p \in alive /\ pc[p] \in {"write", "holding", "remove"}

AliveAnswers == alive \subseteq answering

ReclaimsOfEnded ==
  \A p \in Procs : pc[p] = "unlink" => seen[p] \in Procs \ alive

ChecksWhatItRead == \A p \in Procs : pc[p] = "check" => seen[p] \in Procs

OwnersKeepFile ==
  \A p \in Procs : Owning(p) /\ p \notin robbed => file = p

HoldersWrote ==
  \A p \in Procs :
    Owning(p) /\ p \notin robbed /\ pc[p] # "write" => written

LockInv ==
  /\ TypeOK
  /\ AliveAnswers
  /\ ChecksWhatItRead
  /\ ReclaimsOfEnded
  /\ OwnersKeepFile
  /\ HoldersWrote
  /\ SafeWhileAllLive
  /\ LostOnlyIfRobbed

-----------------------------------------------------------------------------

\* The initial state is typed.
LEMMA TypeInit == Init => TypeOK
<1> SUFFICES ASSUME Init PROVE TypeOK
  OBVIOUS
<1>1. pc \in [Procs -> Steps]
  BY DEF Init, Steps
<1>2. /\ seen \in [Procs -> Procs \cup {None}]
      /\ staleAt \in [Procs -> Procs \cup {None}]
  BY DEF Init
<1>3. polls \in [Procs -> Nat]
  BY DEF Init
<1>4. QED
  BY <1>1, <1>2, <1>3 DEF Init, TypeOK

\* Every step of every process keeps the types.
LEMMA TypeStep == TypeOK /\ [Next]_vars => TypeOK'
<1> SUFFICES ASSUME TypeOK, [Next]_vars PROVE TypeOK'
  OBVIOUS
<1> USE LockAssumption DEF TypeOK, Steps, Go, Remove, Refused, Retry, Ended
<1>1. ASSUME NEW p \in Procs, Begin(p) PROVE TypeOK'
  BY <1>1 DEF Begin
<1>2. ASSUME NEW p \in Procs, Acquire(p) PROVE TypeOK'
  <2>1. CASE Create(p) \/ Exists(p) \/ WriteMetadata(p)
    BY <2>1 DEF Create, Exists, WriteMetadata
  <2>2. CASE WriteFailed(p) \/ WriteFailedKept(p)
    <3>1. CASE WriteFailed(p) /\ p \in Erlang
      BY <3>1 DEF WriteFailed
    <3>2. CASE WriteFailed(p) /\ p \notin Erlang
      BY <3>2 DEF WriteFailed
    <3>3. CASE WriteFailedKept(p)
      BY <3>3 DEF WriteFailedKept
    <3>4. QED
      BY <2>2, <3>1, <3>2, <3>3
  <2>3. CASE ReadOwner(p) \/ ReadNothing(p)
    BY <2>3 DEF ReadOwner, ReadNothing
  <2>4. CASE OwnerAnswers(p) \/ OwnerGone(p)
    BY <2>4 DEF OwnerAnswers, OwnerGone
  <2>5. CASE Reclaim(p) \/ ReclaimMissed(p) \/ ReclaimRefused(p)
    BY <2>5 DEF Reclaim, ReclaimMissed, ReclaimRefused
  <2>6. CASE Sleep(p) \/ Refuse(p)
    BY <2>6 DEF Sleep, Refuse
  <2>7. QED
    BY <1>2, <2>1, <2>2, <2>3, <2>4, <2>5, <2>6 DEF Acquire
<1>3. ASSUME NEW p \in Procs, Finish(p) PROVE TypeOK'
  BY <1>3 DEF Finish, ReadBack, Release, ReleaseRefused, Refused
<1>4. ASSUME NEW p \in Procs, Exit(p) \/ Kill(p) PROVE TypeOK'
  BY <1>4 DEF Exit, Kill, End
<1>5. ASSUME NEW p \in Procs, RecyclePid(p) PROVE TypeOK'
  BY <1>5 DEF RecyclePid
<1>6. CASE UNCHANGED vars
  BY <1>6 DEF vars
<1>7. QED
  BY <1>1, <1>2, <1>3, <1>4, <1>5, <1>6 DEF Next

\* Every variable keeps its type, on both hosts, whatever is killed: this is
\* the typing of WorkspaceLock's state, the base of the proofs below.
THEOREM TypeCorrect == Spec => []TypeOK
<1> QED
  BY TypeInit, TypeStep, PTL DEF Spec

-----------------------------------------------------------------------------

\* Init establishes the invariant: nobody owns the absent file.
LEMMA LockInit == Init => LockInv
<1> SUFFICES ASSUME Init PROVE LockInv
  OBVIOUS
<1>1. TypeOK
  BY TypeInit
<1>2. QED
  BY <1>1 DEF Init, LockInv, AliveAnswers, ChecksWhatItRead, ReclaimsOfEnded,
    OwnersKeepFile, HoldersWrote, Owning, SafeWhileAllLive, LostOnlyIfRobbed

\* A step of acquire_lock keeps the invariant.  The two that remove the path
\* record in `robbed` the owner they did not mean to remove.
LEMMA AcquireKeeps ==
  ASSUME LockInv, TypeOK', NEW p \in Procs, Acquire(p)
  PROVE  LockInv'
<1> USE DEF LockInv, TypeOK, AliveAnswers, ChecksWhatItRead, ReclaimsOfEnded,
      OwnersKeepFile, HoldersWrote, Owning, SafeWhileAllLive,
      LostOnlyIfRobbed, Go
<1> USE LockAssumption
<1>1. CASE Create(p) \/ Exists(p)
  BY <1>1 DEF Create, Exists
<1>2. CASE WriteMetadata(p)
  BY <1>2 DEF WriteMetadata
<1>3. CASE WriteFailed(p) \/ WriteFailedKept(p)
  BY <1>3 DEF WriteFailed, WriteFailedKept, Remove, Refused
<1>4. CASE ReadOwner(p) \/ ReadNothing(p)
  BY <1>4 DEF ReadOwner, ReadNothing
<1>5. CASE OwnerAnswers(p) \/ OwnerGone(p)
  BY <1>5 DEF OwnerAnswers, OwnerGone
<1>6. CASE Reclaim(p) \/ ReclaimMissed(p) \/ ReclaimRefused(p)
  BY <1>6 DEF Reclaim, ReclaimMissed, ReclaimRefused, Remove, Refused, Retry
<1>7. CASE Sleep(p) \/ Refuse(p)
  BY <1>7 DEF Sleep, Refuse
<1>8. QED
  BY <1>1, <1>2, <1>3, <1>4, <1>5, <1>6, <1>7 DEF Acquire

\* Every step keeps the invariant.
LEMMA LockStep == LockInv /\ [Next]_vars => LockInv'
<1> SUFFICES ASSUME LockInv, [Next]_vars PROVE LockInv'
  OBVIOUS
<1>0. TypeOK'
  BY TypeStep DEF LockInv
<1> USE DEF LockInv, TypeOK, AliveAnswers, ChecksWhatItRead, ReclaimsOfEnded,
      OwnersKeepFile, HoldersWrote, Owning, SafeWhileAllLive,
      LostOnlyIfRobbed, Go
<1>1. ASSUME NEW p \in Procs, Begin(p) PROVE LockInv'
  BY <1>0, <1>1 DEF Begin
<1>2. ASSUME NEW p \in Procs, Acquire(p) PROVE LockInv'
  BY <1>0, <1>2, AcquireKeeps
<1>3. ASSUME NEW p \in Procs, ReadBack(p) PROVE LockInv'
  BY <1>0, <1>3 DEF ReadBack
<1>4. ASSUME NEW p \in Procs, Release(p) \/ ReleaseRefused(p) PROVE LockInv'
  BY <1>0, <1>4, LockAssumption DEF Release, ReleaseRefused, Remove, Refused
<1>5. ASSUME NEW p \in Procs, Exit(p) \/ Kill(p) PROVE LockInv'
  BY <1>0, <1>5 DEF Exit, Kill, End
<1>6. ASSUME NEW p \in Procs, RecyclePid(p) PROVE LockInv'
  BY <1>0, <1>6 DEF RecyclePid
<1>7. CASE UNCHANGED vars
  BY <1>0, <1>7 DEF vars
<1>8. QED
  BY <1>1, <1>2, <1>3, <1>4, <1>5, <1>6, <1>7 DEF Next, Finish

\* Of two processes that both believe they hold the workspace, one had its
\* file removed from under it: the exclusive open, the token check of the
\* release and the liveness check of the reclaim admit no other way.
THEOREM Exclusion == Spec => []ExclusiveUntilRobbed
<1>1. LockInv => ExclusiveUntilRobbed
  BY DEF LockInv, OwnersKeepFile, Owning, ExclusiveUntilRobbed, Holding
<1>2. QED
  BY <1>1, LockInit, LockStep, PTL DEF Spec

\* No lock is taken from its owner before some invocation has ended, so the
\* invocations that are all still running exclude each other.
THEOREM NoRobberyWhileAllLive ==
  Spec => [](SafeWhileAllLive /\ (alive = Procs => MutualExclusion))
<1>1. LockInv => SafeWhileAllLive /\ (alive = Procs => MutualExclusion)
  BY DEF LockInv, OwnersKeepFile, Owning, SafeWhileAllLive, MutualExclusion,
    Holding
<1>2. QED
  BY <1>1, LockInit, LockStep, PTL DEF Spec

\* A release that finds its lock gone or changed (GMU7003) tells the truth:
\* somebody removed this process's file.
THEOREM LostMeansRobbed == Spec => []LostOnlyIfRobbed
<1>1. LockInv => LostOnlyIfRobbed
  BY DEF LockInv
<1>2. QED
  BY <1>1, LockInit, LockStep, PTL DEF Spec

-----------------------------------------------------------------------------
(* Reclaiming a written lock *)

\* No process but p and the ended owner of the lock it met has begun.
Alone(p) == \A q \in Procs \ {p, staleAt[p]} : pc[q] = "idle"

\* What a process p alone with such a lock, whose owner's pid nobody reuses,
\* can know: the file at the path is the ended owner's or p's own; p checks
\* and unlinks the former only, and waits only before one without metadata,
\* or after a deletion that was refused.
MeetsEnded(p) ==
  /\ file \in {staleAt[p], p, None}
  /\ pc[p] \in {"open", "read", "check", "unlink", "wait", "refused"} => file # p
  /\ pc[p] = "check" => seen[p] = staleAt[p]
  /\ pc[p] \in {"wait", "refused"} => ~written \/ p \in denied

EndedSilent == \A q \in Procs \ (alive \cup Recycled) : q \notin answering

\* A process that met an ended owner has begun, and is not that owner.
StaleHasEnded ==
  \A p \in Procs : staleAt[p] # None =>
    pc[p] # "idle" /\ staleAt[p] # p /\ staleAt[p] \notin alive

MeetsOnlyEnded ==
  \A p \in Procs : staleAt[p] \notin Recycled \cup {None} /\ Alone(p) => MeetsEnded(p)

ReclaimInv ==
  /\ TypeOK
  /\ file = None => ~written
  /\ EndedSilent /\ StaleHasEnded /\ MeetsOnlyEnded

LEMMA ReclaimInit == Init => ReclaimInv
<1> SUFFICES ASSUME Init PROVE ReclaimInv
  OBVIOUS
<1>1. TypeOK
  BY TypeInit
<1>2. QED
  BY <1>1 DEF Init, ReclaimInv, EndedSilent, StaleHasEnded, MeetsOnlyEnded

\* What has begun has begun, and what a process met when it began stays.
LEMMA BegunStays ==
  ASSUME TypeOK, StaleHasEnded, Next, NEW p \in Procs
  PROVE  /\ pc[p] # "idle" => pc'[p] # "idle" /\ staleAt'[p] = staleAt[p]
         /\ alive' \subseteq alive
<1> USE DEF TypeOK, Go, Steps
<1>1. ASSUME NEW q \in Procs, Begin(q)
      PROVE  /\ pc[p] # "idle" => pc'[p] # "idle" /\ staleAt'[p] = staleAt[p]
             /\ alive' \subseteq alive
  BY <1>1 DEF Begin
<1>2. ASSUME NEW q \in Procs, Acquire(q)
      PROVE  /\ pc[p] # "idle" => pc'[p] # "idle" /\ staleAt'[p] = staleAt[p]
             /\ alive' \subseteq alive
  BY <1>2 DEF Acquire, Create, Exists, WriteMetadata, WriteFailed, WriteFailedKept, ReadOwner,
    ReadNothing, OwnerAnswers, OwnerGone, Reclaim, ReclaimMissed,
    ReclaimRefused, Refused, Retry, Sleep, Refuse
<1>3. ASSUME NEW q \in Procs, Finish(q)
      PROVE  /\ pc[p] # "idle" => pc'[p] # "idle" /\ staleAt'[p] = staleAt[p]
             /\ alive' \subseteq alive
  BY <1>3 DEF Finish, ReadBack, Release, ReleaseRefused, Refused
<1>4. ASSUME NEW q \in Procs, Exit(q) \/ Kill(q) \/ RecyclePid(q)
      PROVE  /\ pc[p] # "idle" => pc'[p] # "idle" /\ staleAt'[p] = staleAt[p]
             /\ alive' \subseteq alive
  BY <1>4 DEF Exit, Kill, End, RecyclePid
<1>5. QED
  BY <1>1, <1>2, <1>3, <1>4 DEF Next

\* The steps of the process that met the ended owner.
LEMMA MeetsStep ==
  ASSUME ReclaimInv, NEW p \in Procs, Acquire(p) \/ Finish(p),
         staleAt[p] \notin Recycled \cup {None}, MeetsEnded(p)
  PROVE  MeetsEnded(p)'
<1> USE LockAssumption
    DEF ReclaimInv, TypeOK, EndedSilent, StaleHasEnded, MeetsEnded, Go, Steps
<1>0. staleAt[p] \in Procs /\ staleAt[p] \notin answering
  OBVIOUS
<1>1. CASE Create(p) \/ Exists(p) \/ WriteMetadata(p)
  BY <1>1 DEF Create, Exists, WriteMetadata
<1>2. CASE WriteFailed(p) \/ WriteFailedKept(p)
  BY <1>2 DEF WriteFailed, WriteFailedKept, Remove, Refused
<1>3. CASE ReadOwner(p) \/ ReadNothing(p)
  BY <1>3 DEF ReadOwner, ReadNothing
<1>4. CASE OwnerAnswers(p) \/ OwnerGone(p)
  BY <1>0, <1>4 DEF OwnerAnswers, OwnerGone
<1>5. CASE Reclaim(p) \/ ReclaimMissed(p) \/ ReclaimRefused(p)
  BY <1>5 DEF Reclaim, ReclaimMissed, ReclaimRefused, Retry, Refused, Remove
<1>6. CASE Sleep(p) \/ Refuse(p)
  BY <1>6 DEF Sleep, Refuse
<1>7. CASE Finish(p)
  BY <1>7 DEF Finish, ReadBack, Release, ReleaseRefused, Refused, Remove
<1>8. QED
  BY <1>1, <1>2, <1>3, <1>4, <1>5, <1>6, <1>7 DEF Acquire

\* Nobody but the process itself acts while it is alone with the ended owner.
LEMMA OnlyItself ==
  ASSUME ReclaimInv, NEW p \in Procs, pc[p] # "idle", staleAt[p] # None, Alone(p)',
         staleAt'[p] = staleAt[p],
         NEW q \in Procs, Begin(q) \/ Acquire(q) \/ Finish(q)
  PROVE  q = p /\ (Acquire(p) \/ Finish(p))
<1> USE DEF ReclaimInv, TypeOK, StaleHasEnded, Go, Steps
<1>1. q \in alive /\ pc'[q] # "idle"
  <2>1. CASE Begin(q)
    BY <2>1 DEF Begin
  <2>2. CASE Acquire(q)
    BY <2>2 DEF Acquire, Create, Exists, WriteMetadata, WriteFailed, WriteFailedKept, ReadOwner,
      ReadNothing, OwnerAnswers, OwnerGone, Reclaim, ReclaimMissed,
      ReclaimRefused, Refused, Retry, Sleep, Refuse
  <2>3. CASE Finish(q)
    BY <2>3 DEF Finish, ReadBack, Release, ReleaseRefused, Refused
  <2>4. QED
    BY <2>1, <2>2, <2>3
<1>2. q = p
  BY <1>1 DEF Alone
<1>3. ~Begin(p)
  BY DEF Begin
<1>4. QED
  BY <1>2, <1>3

\* Every step keeps the invariant.
LEMMA ReclaimStep == ReclaimInv /\ [Next]_vars => ReclaimInv'
<1> SUFFICES ASSUME ReclaimInv, [Next]_vars PROVE ReclaimInv'
  OBVIOUS
<1>0. TypeOK /\ TypeOK'
  BY TypeStep DEF ReclaimInv
<1>1. CASE UNCHANGED vars
  BY <1>0, <1>1 DEF vars, ReclaimInv, EndedSilent, StaleHasEnded, MeetsOnlyEnded,
    MeetsEnded, Alone
<1> SUFFICES ASSUME Next PROVE ReclaimInv'
  BY <1>1
<1>2. \A p \in Procs : /\ pc[p] # "idle" => pc'[p] # "idle" /\ staleAt'[p] = staleAt[p]
                       /\ alive' \subseteq alive
  BY BegunStays DEF ReclaimInv
<1>3. (file = None => ~written)' /\ EndedSilent'
  <2> USE <1>0 DEF ReclaimInv, TypeOK, EndedSilent, Go
  <2> USE LockAssumption
  <2>1. ASSUME NEW q \in Procs, Begin(q)
        PROVE  (file = None => ~written)' /\ EndedSilent'
    BY <2>1 DEF Begin
  <2>2. ASSUME NEW q \in Procs, Acquire(q)
        PROVE  (file = None => ~written)' /\ EndedSilent'
    BY <2>2 DEF Acquire, Create, Exists, WriteMetadata, WriteFailed, WriteFailedKept, ReadOwner,
      ReadNothing, OwnerAnswers, OwnerGone, Reclaim, ReclaimMissed,
      ReclaimRefused, Refused, Retry, Sleep, Refuse,
      Remove
  <2>3. ASSUME NEW q \in Procs, Finish(q)
        PROVE  (file = None => ~written)' /\ EndedSilent'
    BY <2>3 DEF Finish, ReadBack, Release, ReleaseRefused, Refused, Remove
  <2>4. ASSUME NEW q \in Procs, Exit(q) \/ Kill(q) \/ RecyclePid(q)
        PROVE  (file = None => ~written)' /\ EndedSilent'
    BY <2>4 DEF Exit, Kill, End, RecyclePid
  <2>5. QED
    BY <2>1, <2>2, <2>3, <2>4 DEF Next
<1>4. ASSUME NEW p \in Procs, pc[p] = "idle", staleAt'[p] # None
      PROVE  Begin(p) /\ staleAt'[p] = file /\ file \in Procs \ alive
  <2> USE <1>0 DEF ReclaimInv, TypeOK, StaleHasEnded
  <2>1. staleAt[p] = None
    BY <1>4
  <2>2. ASSUME NEW q \in Procs, ~Begin(q),
               \/ Acquire(q) \/ Finish(q) \/ Exit(q) \/ Kill(q) \/ RecyclePid(q)
        PROVE  UNCHANGED staleAt
    BY <2>2 DEF Acquire, Create, Exists, WriteMetadata, WriteFailed, WriteFailedKept, ReadOwner,
      ReadNothing, OwnerAnswers, OwnerGone, Reclaim, ReclaimMissed,
      ReclaimRefused, Refused, Retry, Sleep, Refuse,
      Finish, ReadBack, Release, ReleaseRefused, Exit, Kill, End, RecyclePid
  <2>3. PICK q \in Procs : Begin(q)
    BY <1>4, <2>1, <2>2 DEF Next
  <2>4. q = p
    BY <1>4, <2>1, <2>3 DEF Begin
  <2>5. QED
    BY <1>4, <2>3, <2>4 DEF Begin
<1>5. StaleHasEnded'
  <2> SUFFICES ASSUME NEW p \in Procs, staleAt'[p] # None
               PROVE  pc'[p] # "idle" /\ staleAt'[p] # p /\ staleAt'[p] \notin alive'
    BY DEF StaleHasEnded
  <2>1. CASE pc[p] = "idle"
    BY <1>0, <1>4, <2>1 DEF Begin, Go, TypeOK
  <2>2. CASE pc[p] # "idle"
    BY <1>2, <2>2 DEF ReclaimInv, StaleHasEnded
  <2>3. QED
    BY <2>1, <2>2
<1>6. MeetsOnlyEnded'
  <2> SUFFICES ASSUME NEW p \in Procs, staleAt'[p] \notin Recycled \cup {None},
                      Alone(p)'
               PROVE  MeetsEnded(p)'
    BY DEF MeetsOnlyEnded
  <2>1. CASE pc[p] = "idle"
    BY <1>0, <1>4, <2>1 DEF Begin, Go, TypeOK, MeetsEnded
  <2>2. CASE pc[p] # "idle"
    <3>1. staleAt'[p] = staleAt[p]
      BY <1>2, <2>2
    <3>2. Alone(p)
      BY <1>2, <3>1 DEF Alone
    <3>3. MeetsEnded(p)
      BY <3>1, <3>2 DEF ReclaimInv, MeetsOnlyEnded
    <3>4. ASSUME NEW q \in Procs, Begin(q) \/ Acquire(q) \/ Finish(q)
          PROVE  MeetsEnded(p)'
      BY <2>2, <3>1, <3>3, <3>4, OnlyItself, MeetsStep
    <3>5. ASSUME NEW q \in Procs, Exit(q) \/ Kill(q) \/ RecyclePid(q)
          PROVE  MeetsEnded(p)'
      BY <3>1, <3>3, <3>5 DEF Exit, Kill, End, RecyclePid, MeetsEnded
    <3>6. QED
      BY <3>4, <3>5 DEF Next
  <2>3. QED
    BY <2>1, <2>2
<1>7. QED
  BY <1>0, <1>3, <1>5, <1>6 DEF ReclaimInv

\* A process that finds a written lock of an ended owner and is refused was
\* not alone with it, or the owner's pid was reused: acquire_lock_loop and
\* acquire_lock both reclaim it before they look at the deadline.
THEOREM StaleLockReclaimed == Spec => []WrittenStaleReclaimed
<1>1. ReclaimInv => WrittenStaleReclaimed
  BY DEF ReclaimInv, MeetsOnlyEnded, MeetsEnded, Alone, WrittenStaleReclaimed
<1>2. QED
  BY <1>1, ReclaimInit, ReclaimStep, PTL DEF Spec

-----------------------------------------------------------------------------
(* How long a call may take *)

\* The processes that have created the lock file once; nobody does so twice.
Created == {q \in Procs : pc[q] \in {"write", "holding", "remove", "released", "kept", "lost", "failed"}}

\* The files there can still be at the path, the one that is there included.
Files == (Procs \ Created) \cup ({file} \ {None})

\* Those of them a process has not read yet in its present attempt.
Unread(p) == Files \ (IF pc[p] \in {"check", "unlink"} THEN {seen[p]} ELSE {})

InLoop == {"idle", "open", "read", "check", "unlink", "wait"}

\* The attempts before the deadline, twice: each has a turn and a wait.
Turns(p) == 2 * (Patience[p] - polls[p]) + (IF pc[p] = "wait" THEN 0 ELSE 1)

\* How far a process is from the end of its attempt, and of its call.
Rank(p) == CASE pc[p] = "idle"   -> 5
             [] pc[p] = "check"  -> 4
             [] pc[p] = "unlink" -> 3
             [] pc[p] = "open"   -> 2
             [] pc[p] = "read"   -> 1
             [] OTHER            -> 0

Rest(p) == CASE pc[p] = "write"   -> 3
             [] pc[p] = "holding" -> 2
             [] pc[p] = "remove"  -> 1
             [] OTHER             -> 0

\* The steps a process has left at most: the attempts count most, then the
\* files it may still meet.
Work(p) ==
  IF pc[p] \in InLoop
  THEN 6 * (Turns(p) * (Cardinality(Procs) + 1) + Cardinality(Unread(p))) + Rank(p) + 4
  ELSE Rest(p)

\* The most of them: before its first attempt, with every file unread.
WorkLimit(p) ==
  6 * ((2 * Patience[p] + 1) * (Cardinality(Procs) + 1) + Cardinality(Procs)) + 9

\* The retry that does not bring a call nearer to its answer.
Spins(p) == p \in Erlang /\ ReclaimRefused(p)

MeetsCreated ==
  /\ file # None => file \in Created
  /\ \A p \in Procs : pc[p] \in {"check", "unlink"} => seen[p] \in Created

PollsInTime == \A p \in Procs : polls[p] <= Patience[p]

WorkInv == TypeOK /\ MeetsCreated /\ PollsInTime

LEMMA WorkInit == Init => WorkInv
<1> SUFFICES ASSUME Init PROVE WorkInv
  OBVIOUS
<1>1. TypeOK
  BY TypeInit
<1>2. QED
  BY <1>1, LockAssumption DEF Init, WorkInv, MeetsCreated, PollsInTime

\* A step of one process leaves what the others are at alone.
LEMMA OthersStay ==
  ASSUME TypeOK, NEW p \in Procs, NEW q \in Procs \ {p},
         Begin(q) \/ Acquire(q) \/ Finish(q) \/ Exit(q) \/ Kill(q) \/ RecyclePid(q)
  PROVE  pc'[p] = pc[p] /\ seen'[p] = seen[p] /\ polls'[p] = polls[p]
<1> USE DEF TypeOK, Go
<1>1. CASE Begin(q) \/ Exit(q) \/ Kill(q) \/ RecyclePid(q)
  BY <1>1 DEF Begin, Exit, Kill, End, RecyclePid
<1>2. CASE Acquire(q)
  BY <1>2 DEF Acquire, Create, Exists, WriteMetadata, WriteFailed, WriteFailedKept, ReadOwner,
    ReadNothing, OwnerAnswers, OwnerGone, Reclaim, ReclaimMissed,
    ReclaimRefused, Refused, Retry, Sleep, Refuse
<1>3. CASE Finish(q)
  BY <1>3 DEF Finish, ReadBack, Release, ReleaseRefused, Refused
<1>4. QED
  BY <1>1, <1>2, <1>3

\* Whoever created the lock file will not again, so no step puts a file at the
\* path that was neither there before nor still to be created.
LEMMA FilesShrink ==
  ASSUME WorkInv, NEW q \in Procs,
         Begin(q) \/ Acquire(q) \/ Finish(q) \/ Exit(q) \/ Kill(q) \/ RecyclePid(q)
  PROVE  /\ Created \subseteq Created' /\ Files' \subseteq Files
         /\ file' # None => file' \in Created'
<1> USE LockAssumption DEF WorkInv, TypeOK, MeetsCreated, Go, Steps, Created, Files
<1>1. CASE Begin(q) \/ Exit(q) \/ Kill(q) \/ RecyclePid(q)
  BY <1>1 DEF Begin, Exit, Kill, End, RecyclePid
<1>2. CASE Create(q)
  BY <1>2 DEF Create
<1>3. CASE WriteFailed(q) \/ WriteFailedKept(q) \/ Reclaim(q)
  BY <1>3 DEF WriteFailed, WriteFailedKept, Reclaim, Remove, Refused
<1>4. CASE Exists(q) \/ WriteMetadata(q) \/ ReadOwner(q) \/ ReadNothing(q)
  BY <1>4 DEF Exists, WriteMetadata, ReadOwner, ReadNothing
<1>5. CASE \/ OwnerAnswers(q) \/ OwnerGone(q) \/ ReclaimMissed(q) \/ ReclaimRefused(q)
           \/ Sleep(q) \/ Refuse(q)
  BY <1>5 DEF OwnerAnswers, OwnerGone, ReclaimMissed, ReclaimRefused, Retry, Refused,
    Sleep, Refuse
<1>6. CASE Finish(q)
  BY <1>6 DEF Finish, ReadBack, Release, ReleaseRefused, Refused, Remove
<1>7. QED
  BY <1>1, <1>2, <1>3, <1>4, <1>5, <1>6 DEF Acquire

LEMMA WorkStep == WorkInv /\ [Next]_vars => WorkInv'
<1> SUFFICES ASSUME WorkInv, [Next]_vars PROVE WorkInv'
  OBVIOUS
<1>0. TypeOK /\ TypeOK'
  BY TypeStep DEF WorkInv
<1>1. CASE UNCHANGED vars
  BY <1>0, <1>1 DEF vars, WorkInv, MeetsCreated, PollsInTime, Created
<1>2. ASSUME NEW q \in Procs,
             Begin(q) \/ Acquire(q) \/ Finish(q) \/ Exit(q) \/ Kill(q) \/ RecyclePid(q)
      PROVE  WorkInv'
  <2>1. Created \subseteq Created' /\ (file' # None => file' \in Created')
    BY <1>2, FilesShrink
  <2>2. ASSUME NEW p \in Procs
        PROVE  /\ pc'[p] \in {"check", "unlink"} => seen'[p] \in Created'
               /\ polls'[p] <= Patience[p]
    <3>1. CASE p # q
      <4>1. pc'[p] = pc[p] /\ seen'[p] = seen[p] /\ polls'[p] = polls[p]
        BY <1>0, <1>2, <3>1, OthersStay
      <4>2. QED
        BY <2>1, <4>1 DEF WorkInv, MeetsCreated, PollsInTime
    <3>2. CASE p = q
      <4> USE LockAssumption, <1>0 DEF TypeOK, Go, Steps
      <4> HIDE DEF Created
      <4>0. /\ pc[q] \in {"check", "unlink"} => seen[q] \in Created
            /\ file # None => file \in Created
            /\ polls[q] \in Nat /\ Patience[q] \in Nat /\ polls[q] <= Patience[q]
        BY DEF WorkInv, MeetsCreated, PollsInTime
      <4>1. CASE Begin(q) \/ Exit(q) \/ Kill(q) \/ RecyclePid(q)
        BY <2>1, <3>2, <4>0, <4>1 DEF Begin, Exit, Kill, End, RecyclePid
      <4>2. CASE Sleep(q)
        BY <2>1, <3>2, <4>0, <4>2 DEF Sleep
      <4>3. CASE ReadOwner(q)
        BY <2>1, <3>2, <4>0, <4>3 DEF ReadOwner
      <4>4. CASE Acquire(q) /\ ~Sleep(q) /\ ~ReadOwner(q)
        <5>1. CASE Reclaim(q) \/ ReclaimMissed(q) \/ ReclaimRefused(q)
          BY <2>1, <3>2, <4>0, <5>1 DEF Reclaim, ReclaimMissed, ReclaimRefused, Retry, Refused
        <5>2. CASE \/ Create(q) \/ Exists(q) \/ WriteMetadata(q) \/ WriteFailed(q)
                  \/ WriteFailedKept(q)
          BY <2>1, <3>2, <4>0, <5>2 DEF Create, Exists, WriteMetadata, WriteFailed,
            WriteFailedKept, Refused
        <5>3. CASE ReadNothing(q) \/ OwnerAnswers(q) \/ OwnerGone(q) \/ Refuse(q)
          BY <2>1, <3>2, <4>0, <5>3 DEF ReadNothing, OwnerAnswers, OwnerGone, Refuse
        <5>4. QED
          BY <4>4, <5>1, <5>2, <5>3 DEF Acquire
      <4>5. CASE Finish(q)
        BY <2>1, <3>2, <4>0, <4>5 DEF Finish, ReadBack, Release, ReleaseRefused, Refused
      <4>6. QED
        BY <1>2, <4>1, <4>2, <4>3, <4>4, <4>5
    <3>3. QED
      BY <3>1, <3>2
  <2>3. QED
    BY <1>0, <2>1, <2>2 DEF WorkInv, MeetsCreated, PollsInTime
<1>3. QED
  BY <1>1, <1>2 DEF Next

LEMMA WorkHolds == Spec => []WorkInv
BY WorkInit, WorkStep, PTL DEF Spec

-----------------------------------------------------------------------------

\* The numbers a process's work is made of.
Parts(p) ==
  /\ Turns(p) \in Nat /\ Rank(p) \in 0..5 /\ Rest(p) \in 0..3 /\ Unread(p) \subseteq Procs
  /\ IsFiniteSet(Unread(p)) /\ Cardinality(Unread(p)) \in 0..Cardinality(Procs)
  /\ Work(p) \in Nat /\ Work(p) \in 0..WorkLimit(p)

LEMMA PartsAre ==
  ASSUME IsFiniteSet(Procs), NEW CONSTANT p \in Procs
  PROVE  WorkInv => Parts(p)
<1> SUFFICES ASSUME WorkInv PROVE Parts(p)
  OBVIOUS
<1>1. Files \subseteq Procs
  BY DEF WorkInv, TypeOK, Files
<1>2. Unread(p) \in SUBSET Procs
  BY <1>1 DEF Unread
<1>3. Cardinality(Procs) \in Nat
  BY FS_CardinalityType
<1>4. IsFiniteSet(Unread(p)) /\ Cardinality(Unread(p)) <= Cardinality(Procs)
  BY <1>2, FS_Subset
<1>5. Cardinality(Unread(p)) \in Nat
  BY <1>4, FS_CardinalityType
<1>6. Turns(p) \in Nat /\ Patience[p] \in Nat /\ Turns(p) <= 2 * Patience[p] + 1
  <2>1. polls[p] \in Nat /\ Patience[p] \in Nat /\ polls[p] <= Patience[p]
    BY LockAssumption DEF WorkInv, TypeOK, PollsInTime
  <2>2. Patience[p] - polls[p] \in Nat
    BY <2>1
  <2>3. QED
    BY <2>1, <2>2 DEF Turns
<1>7. Rank(p) \in 0..5 /\ Rest(p) \in 0..3
  BY DEF Rank, Rest
<1>8. Work(p) \in Nat
  <2>1. Turns(p) * (Cardinality(Procs) + 1) \in Nat
    BY <1>3, <1>6
  <2>2. QED
    BY <1>3, <1>5, <1>7, <2>1 DEF Work
<1>9. Work(p) <= WorkLimit(p)
  <2>1. PICK n \in Nat : n = Cardinality(Procs)
    BY <1>3
  <2>2. PICK a \in Nat : a = Turns(p) * (n + 1)
    <3>1. Turns(p) * (n + 1) \in Nat
      BY <1>6
    <3>2. QED
      BY <3>1
  <2>3. PICK b \in Nat : b = (2 * Patience[p] + 1) * (n + 1)
    <3>1. (2 * Patience[p] + 1) * (n + 1) \in Nat
      BY <1>6
    <3>2. QED
      BY <3>1
  <2>4. a <= b
    <3>1. \A t, u, m \in Nat : t <= u => t * (m + 1) <= u * (m + 1)
      OBVIOUS
    <3>2. 2 * Patience[p] + 1 \in Nat
      BY <1>6
    <3>3. QED
      BY <1>6, <2>2, <2>3, <3>1, <3>2
  <2>5. CASE pc[p] \in InLoop
    <3>1. Work(p) = 6 * (a + Cardinality(Unread(p))) + Rank(p) + 4
      BY <2>1, <2>2, <2>5 DEF Work
    <3>2. WorkLimit(p) = 6 * (b + n) + 9
      BY <2>1, <2>3 DEF WorkLimit
    <3>3. QED
      BY <1>4, <1>5, <1>7, <2>1, <2>4, <3>1, <3>2
  <2>6. CASE pc[p] \notin InLoop
    <3>1. WorkLimit(p) = 6 * (b + n) + 9
      BY <2>1, <2>3 DEF WorkLimit
    <3>2. QED
      BY <1>7, <2>6, <3>1 DEF Work
  <2>7. QED
    BY <2>5, <2>6
<1>10. WorkLimit(p) \in Nat
  <2>1. (2 * Patience[p] + 1) * (Cardinality(Procs) + 1) \in Nat
    BY <1>3, <1>6
  <2>2. QED
    BY <1>3, <2>1 DEF WorkLimit
<1>11. QED
  BY <1>2, <1>3, <1>4, <1>5, <1>6, <1>7, <1>8, <1>9, <1>10 DEF Parts

LEMMA PartsStay ==
  ASSUME IsFiniteSet(Procs), NEW CONSTANT p \in Procs
  PROVE  WorkInv' => Parts(p)'
BY PartsAre, PTL

\* One attempt less outweighs all the files, and one file less every step.
LEMMA Outweighs ==
  ASSUME NEW n \in Nat, NEW t \in Nat, NEW u \in Nat, NEW v \in 0..n, NEW w \in 0..n,
         NEW r \in 0..5, NEW s \in 0..5,
         \/ u < t
         \/ u = t /\ w < v
         \/ u = t /\ w = v /\ s < r
  PROVE  6 * (u * (n + 1) + w) + s < 6 * (t * (n + 1) + v) + r
<1>1. PICK x \in Nat : x = u * (n + 1)
  <2>1. u * (n + 1) \in Nat
    OBVIOUS
  <2>2. QED
    BY <2>1
<1>2. CASE u < t
  <2>1. PICK y \in Nat : t = u + 1 + y
    <3>1. t - u - 1 \in Nat /\ t = u + 1 + (t - u - 1)
      BY <1>2
    <3>2. QED
      BY <3>1
  <2>2. t * (n + 1) = u * (n + 1) + (n + 1) + y * (n + 1) /\ y * (n + 1) \in Nat
    BY <2>1
  <2>3. PICK z \in Nat : z = y * (n + 1)
    BY <2>2
  <2>4. 6 * (x + w) + s < 6 * (x + (n + 1) + z + v) + r
    OBVIOUS
  <2>5. QED
    BY <1>1, <2>2, <2>3, <2>4
<1>3. CASE u = t
  <2>1. 6 * (x + w) + s < 6 * (x + v) + r
    BY <1>3
  <2>2. QED
    BY <1>1, <1>3, <2>1
<1>4. QED
  BY <1>2, <1>3

\* A step of another process does not add to the work of this one.
LEMMA OthersAddNothing ==
  ASSUME WorkInv, WorkInv', IsFiniteSet(Procs), NEW p \in Procs, NEW q \in Procs \ {p},
         Begin(q) \/ Acquire(q) \/ Finish(q) \/ Exit(q) \/ Kill(q) \/ RecyclePid(q)
  PROVE  Work(p)' <= Work(p)
<1>1. pc'[p] = pc[p] /\ seen'[p] = seen[p] /\ polls'[p] = polls[p]
  BY OthersStay DEF WorkInv
<1>2. Files' \subseteq Files
  BY FilesShrink
<1>3. Turns(p)' = Turns(p) /\ Rank(p)' = Rank(p) /\ Rest(p)' = Rest(p)
  BY <1>1 DEF Turns, Rank, Rest
<1>4. Unread(p)' \subseteq Unread(p)
  BY <1>1, <1>2 DEF Unread
<1>5. /\ Cardinality(Procs) \in Nat /\ Turns(p) \in Nat /\ Rank(p) \in 0..5 /\ Rest(p) \in 0..3
      /\ IsFiniteSet(Unread(p)) /\ Cardinality(Unread(p)) \in 0..Cardinality(Procs)
  BY PartsAre, FS_CardinalityType DEF Parts
<1>6. PICK s : s = Unread(p)'
  OBVIOUS
<1>7. IsFiniteSet(s) /\ Cardinality(s) <= Cardinality(Unread(p))
  BY <1>4, <1>5, <1>6, FS_Subset
<1>8. Cardinality(s) \in Nat
  BY <1>7, FS_CardinalityType
<1>9. CASE pc[p] \in InLoop
  <2>1. PICK x \in Nat : x = Turns(p) * (Cardinality(Procs) + 1)
    <3>1. Turns(p) * (Cardinality(Procs) + 1) \in Nat
      BY <1>5
    <3>2. QED
      BY <3>1
  <2>2. /\ Work(p) = 6 * (x + Cardinality(Unread(p))) + Rank(p) + 4
        /\ Work(p)' = 6 * (x + Cardinality(s)) + Rank(p) + 4
    BY <1>1, <1>3, <1>6, <1>9, <2>1 DEF Work
  <2>3. QED
    BY <1>5, <1>7, <1>8, <2>2
<1>10. CASE pc[p] \notin InLoop
  BY <1>1, <1>3, <1>5, <1>10 DEF Work
<1>11. QED
  BY <1>9, <1>10

\* Every step of its own is work done, but for a refused deletion that the
\* Erlang host drops.
LEMMA OwnStepWorks ==
  ASSUME WorkInv, WorkInv', IsFiniteSet(Procs), NEW p \in Procs,
         Begin(p) \/ Acquire(p) \/ Finish(p), ~Spins(p)
  PROVE  Work(p)' < Work(p)
<1> USE DEF Go, Refused, Retry
<1>0. /\ Files' \subseteq Files /\ pc \in [Procs -> Steps] /\ pc' \in [Procs -> Steps]
      /\ seen \in [Procs -> Procs \cup {None}] /\ polls \in [Procs -> Nat]
  BY FilesShrink DEF WorkInv, TypeOK
<1>1. PICK n \in Nat : n = Cardinality(Procs)
  BY FS_CardinalityType
<1>2. /\ Turns(p) \in Nat /\ Rank(p) \in 0..5 /\ Rest(p) \in 0..3
      /\ IsFiniteSet(Unread(p)) /\ Cardinality(Unread(p)) \in 0..n
  BY <1>1, PartsAre DEF Parts
<1>3. PICK u \in Nat, s \in 0..5, z \in 0..3, g \in SUBSET Procs :
        /\ u = Turns(p)' /\ s = Rank(p)' /\ z = Rest(p)' /\ g = Unread(p)'
        /\ IsFiniteSet(g) /\ Cardinality(g) \in 0..n
  BY <1>1, PartsStay DEF Parts
<1>4. /\ Work(p) = IF pc[p] \in InLoop
                   THEN 6 * (Turns(p) * (n + 1) + Cardinality(Unread(p))) + Rank(p) + 4
                   ELSE Rest(p)
      /\ Work(p)' = IF pc'[p] \in InLoop
                    THEN 6 * (u * (n + 1) + Cardinality(g)) + s + 4
                    ELSE z
  BY <1>1, <1>3 DEF Work
<1>5. CASE pc'[p] \notin InLoop
  <2>1. CASE pc[p] \in InLoop
    <3>1. Turns(p) * (n + 1) \in Nat
      BY <1>2
    <3>2. Work(p) \in Nat /\ Work(p) >= 4
      BY <1>2, <1>4, <2>1, <3>1
    <3>3. QED
      BY <1>3, <1>4, <1>5, <3>2
  <2>2. CASE pc[p] \notin InLoop
    <3>1. WriteMetadata(p) \/ WriteFailed(p) \/ WriteFailedKept(p) \/ Finish(p)
      BY <2>2 DEF InLoop, Begin, Acquire, Create, Exists, ReadOwner, ReadNothing, OwnerAnswers,
        OwnerGone, Reclaim, ReclaimMissed, ReclaimRefused, Sleep, Refuse
    <3>2. z < Rest(p)
      BY <1>0, <1>3, <3>1 DEF WriteMetadata, WriteFailed, WriteFailedKept, Finish,
        ReadBack, Release, ReleaseRefused, Rest
    <3>3. QED
      BY <1>3, <1>4, <1>5, <2>2, <3>2
  <2>3. QED
    BY <2>1, <2>2
<1>6. CASE pc'[p] \in InLoop
  <2>1. \/ Begin(p) \/ Exists(p) \/ ReadOwner(p) \/ ReadNothing(p) \/ OwnerAnswers(p)
        \/ OwnerGone(p) \/ Reclaim(p) \/ ReclaimMissed(p) \/ Sleep(p)
        \/ ReclaimRefused(p) /\ pc'[p] = "wait"
    BY <1>0, <1>6 DEF InLoop, Acquire, Create, WriteMetadata, WriteFailed, WriteFailedKept,
      Refuse, Finish, ReadBack, Release, ReleaseRefused, ReclaimRefused, Spins
  <2>2. pc[p] \in InLoop
    BY <2>1 DEF InLoop, Begin, Exists, ReadOwner, ReadNothing, OwnerAnswers,
        OwnerGone, Reclaim, ReclaimMissed, ReclaimRefused, Sleep
  <2>3. \/ u < Turns(p)
        \/ u = Turns(p) /\ g \subseteq Unread(p) /\ (g # Unread(p) \/ s < Rank(p))
    <3>0. /\ polls[p] \in Nat /\ Patience[p] \in Nat
          /\ file # None => file \in Created
          /\ pc[p] \in {"check", "unlink"} => seen[p] \in Created
      BY LockAssumption DEF WorkInv, TypeOK, MeetsCreated
    <3>1. CASE Begin(p) \/ Exists(p)
      <4>1. u = Turns(p) /\ s < Rank(p)
        BY <1>0, <1>3, <3>1 DEF Begin, Exists, Turns, Rank
      <4>2. g \subseteq Unread(p)
        BY <1>0, <1>3, <3>1 DEF Begin, Exists, Unread
      <4>3. QED
        BY <4>1, <4>2
    <3>2. CASE ReadOwner(p)
      <4>1. u = Turns(p)
        BY <1>0, <1>3, <3>2 DEF ReadOwner, Turns
      <4>2. file \in Unread(p) /\ Files' = Files
        BY <1>0, <3>2, LockAssumption DEF ReadOwner, Unread, Files, Created
      <4>3. g = Files' \ {file}
        BY <1>0, <1>3, <3>2 DEF ReadOwner, Unread
      <4>4. Unread(p) = Files
        BY <3>2 DEF ReadOwner, Unread
      <4>5. QED
        BY <4>1, <4>2, <4>3, <4>4
    <3>3. CASE ReadNothing(p) \/ OwnerAnswers(p)
      <4>1. u < Turns(p)
        BY <1>0, <1>3, <3>0, <3>3 DEF ReadNothing, OwnerAnswers, Turns
      <4>2. QED
        BY <4>1
    <3>4. CASE OwnerGone(p)
      <4>1. u = Turns(p) /\ s < Rank(p)
        BY <1>0, <1>3, <3>4 DEF OwnerGone, Turns, Rank
      <4>2. g \subseteq Unread(p)
        BY <1>0, <1>3, <3>4 DEF OwnerGone, Unread
      <4>3. QED
        BY <4>1, <4>2
    <3>5. CASE Reclaim(p) \/ (ReclaimMissed(p) /\ pc'[p] = "open")
      <4>1. u = Turns(p) /\ s < Rank(p)
        BY <1>0, <1>3, <3>5 DEF Reclaim, ReclaimMissed, Turns, Rank
      <4>2. g = Files' /\ Unread(p) = Files \ {seen[p]} /\ file' = None /\ seen[p] \in Created
        BY <1>0, <1>3, <3>0, <3>5 DEF Reclaim, ReclaimMissed, Remove, Unread
      <4>3. seen[p] \in Created'
        BY <4>2, FilesShrink
      <4>4. seen[p] \notin Files'
        BY <4>2, <4>3 DEF Files
      <4>5. QED
        BY <1>0, <4>1, <4>2, <4>4
    <3>6. CASE (ReclaimMissed(p) \/ ReclaimRefused(p)) /\ pc'[p] # "open"
      <4>1. u < Turns(p)
        BY <1>0, <1>3, <3>0, <3>6 DEF ReclaimMissed, ReclaimRefused, Turns
      <4>2. QED
        BY <4>1
    <3>7. CASE Sleep(p)
      <4>1. u < Turns(p)
        BY <1>0, <1>3, <3>0, <3>7 DEF Sleep, Turns
      <4>2. QED
        BY <4>1
    <3>8. QED
      BY <2>1, <3>1, <3>2, <3>3, <3>4, <3>5, <3>6, <3>7
  <2>4. g \subseteq Unread(p) => /\ Cardinality(g) <= Cardinality(Unread(p))
                                 /\ g # Unread(p) => Cardinality(g) # Cardinality(Unread(p))
    BY <1>2, FS_Subset
  <2>5. \/ u < Turns(p)
        \/ u = Turns(p) /\ Cardinality(g) < Cardinality(Unread(p))
        \/ u = Turns(p) /\ Cardinality(g) = Cardinality(Unread(p)) /\ s < Rank(p)
    BY <1>2, <1>3, <2>3, <2>4
  <2>6. 6 * (u * (n + 1) + Cardinality(g)) + s
          < 6 * (Turns(p) * (n + 1) + Cardinality(Unread(p))) + Rank(p)
    BY <1>2, <1>3, <2>5, Outweighs
  <2>7. /\ u * (n + 1) \in Nat /\ Turns(p) * (n + 1) \in Nat
    BY <1>2
  <2>8. PICK a \in Nat : a = 6 * (u * (n + 1) + Cardinality(g)) + s
    BY <1>3, <2>7
  <2>9. PICK b \in Nat : b = 6 * (Turns(p) * (n + 1) + Cardinality(Unread(p))) + Rank(p)
    BY <1>2, <2>7
  <2>10. Work(p) = b + 4 /\ Work(p)' = a + 4
    BY <1>4, <1>6, <2>2, <2>8, <2>9
  <2>11. QED
    BY <2>6, <2>8, <2>9, <2>10
<1>7. QED
  BY <1>5, <1>6

\* acquire_lock_loop, acquire_lock, wait_for_lock and release_lock: each step of
\* a call, the retries after a reclaim that do not look at the deadline
\* included, brings it nearer to its answer, and no step of another invocation,
\* no kill and no recycled pid takes it back: with finitely many invocations a
\* call takes at most WorkLimit steps, whoever steals and takes the lock
\* meanwhile.  One step does not, and the theorem says which: the deletion of a
\* stale lock that is refused and that the Erlang host drops.  After it the
\* call has WorkLimit steps again, so that a call of that host that never
\* answers is refused a deletion again and again.
THEOREM CallsAreBounded ==
  ASSUME IsFiniteSet(Procs)
  PROVE  Spec => [][\A p \in Procs :
                      /\ Work(p) \in 0..WorkLimit(p)
                      /\ Work(p)' <= Work(p) \/ Spins(p)
                      /\ Begin(p) \/ Acquire(p) \/ Finish(p)
                         => Work(p)' < Work(p) \/ Spins(p)]_vars
<1>1. ASSUME WorkInv, WorkInv', [Next]_vars, NEW p \in Procs
      PROVE  [/\ Work(p) \in 0..WorkLimit(p)
              /\ Work(p)' <= Work(p) \/ Spins(p)
              /\ Begin(p) \/ Acquire(p) \/ Finish(p)
                 => Work(p)' < Work(p) \/ Spins(p)]_vars
  <2>1. CASE UNCHANGED vars
    BY <2>1
  <2>2. Work(p) \in Nat /\ Work(p)' \in Nat /\ Work(p) \in 0..WorkLimit(p)
    BY <1>1, PartsAre, PartsStay DEF Parts
  <2>3. ASSUME NEW q \in Procs,
               Begin(q) \/ Acquire(q) \/ Finish(q) \/ Exit(q) \/ Kill(q) \/ RecyclePid(q)
        PROVE  Work(p)' <= Work(p) \/ Spins(p)
    <3>1. CASE q # p
      BY <1>1, <2>3, <3>1, OthersAddNothing
    <3>2. CASE q = p /\ (Begin(q) \/ Acquire(q) \/ Finish(q))
      BY <1>1, <2>2, <3>2, OwnStepWorks
    <3>3. CASE q = p /\ (Exit(q) \/ Kill(q) \/ RecyclePid(q))
      <4>1. UNCHANGED <<pc, file, seen, polls>>
        BY <3>3 DEF Exit, Kill, End, RecyclePid
      <4>2. Turns(p)' = Turns(p) /\ Rank(p)' = Rank(p) /\ Rest(p)' = Rest(p)
        BY <4>1 DEF Turns, Rank, Rest
      <4>3. Unread(p)' = Unread(p)
        BY <4>1 DEF Unread, Files, Created
      <4>4. Work(p)' = Work(p)
        BY <4>1, <4>2, <4>3 DEF Work
      <4>5. QED
        BY <2>2, <4>4
    <3>4. QED
      BY <2>3, <3>1, <3>2, <3>3
  <2>4. Begin(p) \/ Acquire(p) \/ Finish(p) => Work(p)' < Work(p) \/ Spins(p)
    BY <1>1, OwnStepWorks
  <2>5. QED
    BY <1>1, <2>1, <2>2, <2>3, <2>4 DEF Next
<1>2. WorkInv /\ WorkInv' /\ [Next]_vars
      => [\A p \in Procs :
            /\ Work(p) \in 0..WorkLimit(p)
            /\ Work(p)' <= Work(p) \/ Spins(p)
            /\ Begin(p) \/ Acquire(p) \/ Finish(p)
               => Work(p)' < Work(p) \/ Spins(p)]_vars
  BY <1>1
<1>3. QED
  BY <1>2, WorkHolds, PTL DEF Spec

=============================================================================
