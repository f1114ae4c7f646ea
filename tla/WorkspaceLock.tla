--------------------------- MODULE WorkspaceLock ---------------------------
(***************************************************************************)
(* The advisory lock file run.lock that every `run` takes for its          *)
(* workspace: platform.acquire_lock / platform.release_lock as the Erlang  *)
(* and the JavaScript host implement them, called through                  *)
(* workspace_lock.acquire / release.                                       *)
(*                                                                         *)
(* A process is one invocation of the command: it acquires once, works,    *)
(* releases once and ends, so its token and its process id are its         *)
(* identity.  Each file-system call and each `kill -0` is one step;        *)
(* processes of both hosts interleave between any two of them, and a       *)
(* process may be killed at any step.                                      *)
(***************************************************************************)
EXTENDS Integers

CONSTANTS
  Procs,      \* the invocations of the command that ever run
  Erlang,     \* those that run on the Erlang host (the others: JavaScript)
  Killable,   \* those that may be killed before they end by themselves
  Recycled,   \* those whose pid the OS hands to an unrelated process later
  Denied,     \* those whose deletions the file system may refuse
  WriteFails, \* TRUE when writing the metadata may fail (a full disk)
  Patience,   \* how many 50 ms sleeps fit before a process's deadline
  None        \* no process: an absent file, nothing read yet

ASSUME LockAssumption ==
  /\ Erlang \subseteq Procs
  /\ Killable \subseteq Procs
  /\ Recycled \subseteq Procs
  /\ Denied \subseteq Procs
  /\ WriteFails \in BOOLEAN
  /\ Patience \in [Procs -> Nat]
  /\ None \notin Procs

VARIABLES
  pc,        \* the step each process is at
  file,      \* whose lock file is at the path, or None when there is none
  written,   \* whether that file's metadata has been written
  seen,      \* whose metadata each process last read
  polls,     \* how often each process has slept
  alive,     \* the processes that have not ended
  answering, \* the pids for which `kill -0` answers
  robbed,    \* history: whose file another process unlinked from under it
  denied,    \* history: the processes a deletion was refused to
  staleAt    \* history: the ended owner of the file when a process began

vars == <<pc, file, written, seen, polls, alive, answering, robbed, denied, staleAt>>

Steps == {"idle", "open", "write", "read", "check", "unlink", "wait",
          "holding", "remove", "released", "kept", "lost", "refused", "failed"}

Ended == {"released", "kept", "lost", "refused", "failed"}

TypeOK ==
  /\ pc \in [Procs -> Steps]
  /\ file \in Procs \cup {None}
  /\ written \in BOOLEAN
  /\ seen \in [Procs -> Procs \cup {None}]
  /\ polls \in [Procs -> Nat]
  /\ alive \subseteq Procs
  /\ answering \subseteq Procs
  /\ robbed \subseteq Procs
  /\ denied \subseteq Procs
  /\ staleAt \in [Procs -> Procs \cup {None}]

Init ==
  /\ pc = [p \in Procs |-> "idle"]
  /\ file = None
  /\ written = FALSE
  /\ seen = [p \in Procs |-> None]
  /\ polls = [p \in Procs |-> 0]
  /\ alive = Procs
  /\ answering = Procs
  /\ robbed = {}
  /\ denied = {}
  /\ staleAt = [p \in Procs |-> None]

Go(p, from, to) ==
  /\ p \in alive
  /\ pc[p] = from
  /\ pc' = [pc EXCEPT ![p] = to]

\* What removing the path does, whoever's file is there by now: the caller
\* `p` meant to remove the file of `meant`.
Remove(meant) ==
  /\ file' = None
  /\ written' = FALSE
  /\ robbed' = IF file \in {None, meant} THEN robbed ELSE robbed \cup {file}
  /\ UNCHANGED denied

\* The file system refuses `p` the deletion of the file at the path.
Refused(p) ==
  /\ p \in Denied /\ file # None
  /\ denied' = denied \cup {p}
  /\ UNCHANGED <<file, written, seen, polls, alive, answering, robbed, staleAt>>

-----------------------------------------------------------------------------
(* acquire_lock *)

\* workspace_lock.acquire: the token is drawn and the deadline set.
Begin(p) ==
  /\ Go(p, "idle", "open")
  /\ staleAt' = [staleAt EXCEPT
       ![p] = IF file # None /\ file \notin alive THEN file ELSE None]
  /\ UNCHANGED <<file, written, seen, polls, alive, answering, robbed, denied>>

\* Mutant of Create: the open truncates instead of being exclusive.
CreateTruncating(p) ==
  /\ Go(p, "open", "write")
  /\ file' = p
  /\ written' = FALSE
  /\ UNCHANGED <<seen, polls, alive, answering, robbed, denied, staleAt>>

\* The exclusive open creates the file, still empty.
Create(p) ==
  /\ file = None
  /\ Go(p, "open", "write")
  /\ file' = p
  /\ written' = FALSE
  /\ UNCHANGED <<seen, polls, alive, answering, robbed, denied, staleAt>>

\* The exclusive open answers eexist.
Exists(p) ==
  /\ file # None
  /\ Go(p, "open", "read")
  /\ UNCHANGED <<file, written, seen, polls, alive, answering, robbed, denied, staleAt>>

\* The metadata goes to the descriptor: to the file at the path only while
\* that is still the one this process created.
WriteMetadata(p) ==
  /\ Go(p, "write", "holding")
  /\ written' = (written \/ file = p)
  /\ UNCHANGED <<file, seen, polls, alive, answering, robbed, denied, staleAt>>

\* A failed write: the Erlang host deletes the path, the JavaScript host
\* closes the descriptor and leaves the empty file behind.
WriteFailed(p) ==
  /\ WriteFails
  /\ Go(p, "write", "failed")
  /\ IF p \in Erlang THEN Remove(p) ELSE UNCHANGED <<file, written, robbed, denied>>
  /\ UNCHANGED <<seen, polls, alive, answering, staleAt>>

\* The Erlang host ignores that this deletion failed: the empty file stays.
WriteFailedKept(p) ==
  /\ WriteFails /\ p \in Erlang
  /\ Go(p, "write", "failed")
  /\ Refused(p)

\* read_lock / parseLock found metadata.
ReadOwner(p) ==
  /\ file # None /\ written
  /\ Go(p, "read", "check")
  /\ seen' = [seen EXCEPT ![p] = file]
  /\ UNCHANGED <<file, written, polls, alive, answering, robbed, denied, staleAt>>

\* Mutant of ReadNothing: a file without a pid counts as abandoned.
ReadNothingIsStale(p) ==
  /\ file = None \/ ~written
  /\ Go(p, "read", "unlink")
  /\ UNCHANGED <<file, written, seen, polls, alive, answering, robbed, denied, staleAt>>

\* read_lock / parseLock found no file, or one without a pid in it.
ReadNothing(p) ==
  /\ file = None \/ ~written
  /\ Go(p, "read", "wait")
  /\ UNCHANGED <<file, written, seen, polls, alive, answering, robbed, denied, staleAt>>

\* `kill -0` on the pid that was read answers.
OwnerAnswers(p) ==
  /\ seen[p] \in answering
  /\ Go(p, "check", "wait")
  /\ UNCHANGED <<file, written, seen, polls, alive, answering, robbed, denied, staleAt>>

\* Mutant of OwnerGone: the answer of `kill -0` is ignored.
OwnerGoneUnchecked(p) ==
  /\ Go(p, "check", "unlink")
  /\ UNCHANGED <<file, written, seen, polls, alive, answering, robbed, denied, staleAt>>

\* Mutant of OwnerGone: the lock of an ended owner is waited for.
OwnerGoneWaits(p) ==
  /\ seen[p] \notin answering
  /\ Go(p, "check", "wait")
  /\ UNCHANGED <<file, written, seen, polls, alive, answering, robbed, denied, staleAt>>

\* `kill -0` on the pid that was read does not answer.
OwnerGone(p) ==
  /\ seen[p] \notin answering
  /\ Go(p, "check", "unlink")
  /\ UNCHANGED <<file, written, seen, polls, alive, answering, robbed, denied, staleAt>>

\* The reclaim deletes the path, not the file that was read.
Reclaim(p) ==
  /\ file # None
  /\ Go(p, "unlink", "open")
  /\ Remove(seen[p])
  /\ UNCHANGED <<seen, polls, alive, answering, staleAt>>

\* After a deletion that did not succeed the Erlang host tries again without
\* a look at its deadline, the JavaScript host falls through to it.
Retry(p) == Go(p, "unlink", IF p \in Erlang THEN "open" ELSE "wait")

\* The path is already gone.
ReclaimMissed(p) ==
  /\ file = None
  /\ Retry(p)
  /\ UNCHANGED <<file, written, seen, polls, alive, answering, robbed, denied, staleAt>>

\* The file of the ended owner is there and may not be deleted.
ReclaimRefused(p) == Retry(p) /\ Refused(p)

\* Mutant of Sleep: each attempt starts with a new deadline.
SleepWithNewDeadline(p) ==
  /\ Go(p, "wait", "open")
  /\ UNCHANGED <<file, written, seen, polls, alive, answering, robbed, denied, staleAt>>

\* Mutant of Sleep: the sleeps are subtracted from a count that starts at 0.
SleepCountingDown(p) ==
  /\ polls[p] < Patience[p]
  /\ Go(p, "wait", "open")
  /\ polls' = [polls EXCEPT ![p] = @ - 1]
  /\ UNCHANGED <<file, written, seen, alive, answering, robbed, denied, staleAt>>

\* The deadline has not passed: sleep, then try again.
Sleep(p) ==
  /\ polls[p] < Patience[p]
  /\ Go(p, "wait", "open")
  /\ polls' = [polls EXCEPT ![p] = @ + 1]
  /\ UNCHANGED <<file, written, seen, alive, answering, robbed, denied, staleAt>>

\* The deadline has passed (a slow machine passes it after fewer sleeps).
Refuse(p) ==
  /\ Go(p, "wait", "refused")
  /\ UNCHANGED <<file, written, seen, polls, alive, answering, robbed, denied, staleAt>>

-----------------------------------------------------------------------------
(* release_lock *)

\* The run is over and its lock is read back: the token is this process's.
ReadBack(p) ==
  /\ Go(p, "holding", IF file = p /\ written THEN "remove" ELSE "lost")
  /\ UNCHANGED <<file, written, seen, polls, alive, answering, robbed, denied, staleAt>>

\* The release deletes the path, not the file that was read.
Release(p) ==
  /\ Go(p, "remove", IF file = None THEN "lost" ELSE "released")
  /\ Remove(p)
  /\ UNCHANGED <<seen, polls, alive, answering, staleAt>>

\* The deletion of the release fails: its caller is told, the file stays.
ReleaseRefused(p) == Go(p, "remove", "kept") /\ Refused(p)

-----------------------------------------------------------------------------
(* The operating system *)

End(p) ==
  /\ p \in alive
  /\ alive' = alive \ {p}
  /\ answering' = answering \ {p}
  /\ UNCHANGED <<pc, file, written, seen, polls, robbed, denied, staleAt>>

\* A process that has reported its result exits.
Exit(p) == pc[p] \in Ended /\ End(p)

\* A process is killed in the middle of its work.
Kill(p) == p \in Killable /\ pc[p] \notin Ended \cup {"idle"} /\ End(p)

\* An unrelated process receives the pid of an ended one.
RecyclePid(p) ==
  /\ p \in Recycled /\ p \notin alive /\ p \notin answering
  /\ answering' = answering \cup {p}
  /\ UNCHANGED <<pc, file, written, seen, polls, alive, robbed, denied, staleAt>>

-----------------------------------------------------------------------------

Acquire(p) ==
  \/ Create(p) \/ Exists(p)
  \/ WriteMetadata(p) \/ WriteFailed(p) \/ WriteFailedKept(p)
  \/ ReadOwner(p) \/ ReadNothing(p)
  \/ OwnerAnswers(p) \/ OwnerGone(p)
  \/ Reclaim(p) \/ ReclaimMissed(p) \/ ReclaimRefused(p)
  \/ Sleep(p) \/ Refuse(p)

Finish(p) == ReadBack(p) \/ Release(p) \/ ReleaseRefused(p)

Next == \E p \in Procs :
  Begin(p) \/ Acquire(p) \/ Finish(p) \/ Exit(p) \/ Kill(p) \/ RecyclePid(p)

\* Nothing to do once every process has ended.
Spec == Init /\ [][Next]_vars

\* The host keeps running a process that has begun; nothing obliges one to
\* begin, to be killed or to have its pid recycled.
Fairness == \A p \in Procs : WF_vars(Acquire(p) \/ Finish(p))

FairSpec == Spec /\ Fairness

-----------------------------------------------------------------------------
(* Properties *)

\* The processes that believe the workspace is theirs.
Holding(p) == p \in alive /\ pc[p] \in {"holding", "remove"}

\* The lock protects a run until its file is taken from under it: of two
\* processes that both believe they hold the workspace, one was robbed by a
\* reclaim (or a release, or a failed write) that removed a file other than
\* the one it had read.
ExclusiveUntilRobbed ==
  \A p, q \in Procs : Holding(p) /\ Holding(q) /\ p # q => {p, q} \cap robbed # {}

\* While no invocation has ended, none is robbed: the only way to lose a
\* live lock starts with a reclaim of one whose owner is gone.
SafeWhileAllLive == alive = Procs => robbed = {}

\* A run that finds its lock gone, or another's in its place, when it
\* releases (GMU7003) was robbed; the release of a run that was not finds
\* its own file.
LostOnlyIfRobbed ==
  \A p \in Procs : pc[p] = "lost" => p \in robbed

\* What scripts/workspace-lock-smoke.mjs says the lock does: it rejects
\* concurrent runs.
MutualExclusion ==
  \A p, q \in Procs : Holding(p) /\ Holding(q) => p = q

\* A lock whose metadata was written, left by an owner that ended and whose
\* pid nobody reuses, refuses no later invocation unless a third one is
\* there to have taken the lock meanwhile, or the file system keeps the file.
WrittenStaleReclaimed ==
  \A p \in Procs :
    /\ pc[p] = "refused"
    /\ staleAt[p] # None
    => \/ \E q \in Procs \ {p, staleAt[p]} : pc[q] # "idle"
       \/ staleAt[p] \in Recycled
       \/ p \in denied
       \/ ~written

\* Every acquire answers and every holder that finishes gets an answer from
\* its release, unless it is killed.  One call may not: an acquire of the
\* Erlang host that is refused the deletion of a stale lock over and over
\* (gleam_mutants_platform_ffi.erl:182 drops the error and does not look at
\* the deadline).  On the JavaScript host the same refusals end at it.
EveryCallAnswers ==
  \A p \in Procs :
    \/ pc[p] = "open" ~> (pc[p] \in Ended \/ p \notin alive)
    \/ p \in Erlang /\ []<><<ReclaimRefused(p)>>_vars

=============================================================================
