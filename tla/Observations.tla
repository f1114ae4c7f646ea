---------------------------- MODULE Observations ----------------------------
(***************************************************************************)
(* The walk with nothing mutated: a comparing guard evaluates the original *)
(* and the replacement and observes whether they agreed, in one file per   *)
(* mutant and answer; engine.read_observations takes from the two listings *)
(* which mutants never differed.  Modelled for one runtime.                *)
(*                                                                         *)
(* The suite runs in threads of several operating system processes, all of *)
(* which write to the same directory.  What is recorded already a process  *)
(* keeps in a table; the table of an Erlang process belongs to the thread  *)
(* that made it and goes with it.                                          *)
(***************************************************************************)
EXTENDS FiniteSets

CONSTANTS
  Compared,   \* the mutants a comparing guard was written for
  Threads,    \* the threads of the walk
  Hosts,      \* the operating system processes
  HostOf,     \* the process of a thread
  Main,       \* the process of the suite, whose status run_test returns
  Erlang,     \* the processes whose table belongs to a thread
  MayFail     \* which file operations may fail

ASSUME ObservationsAssumption ==
  /\ HostOf \in [Threads -> Hosts]
  /\ Main \in Hosts /\ Erlang \subseteq Hosts
  /\ MayFail \subseteq {"write", "erase", "list"}

VARIABLES
  phase,      \* "walk", then "same" and "differing" to be listed, then the end
  at,         \* where a thread is in observe, "idle" outside of it
  doing,      \* the mutant it observes and whether the answers differed
  table,      \* the names a process has recorded
  alive,      \* whether it has a table
  owner,      \* the thread a table belongs to, if any
  files,      \* the names in the directory, mutant and answer
  raised,     \* whether an observation raised an error into the suite
  listed,     \* the listing of same/
  never_differed,  \* the result
  met,        \* history: the answers compared
  walked,     \* history: those compared before the suite ended
  recorded,   \* history: mutants whose agreement was in a file by then
  lost,       \* history: mutants whose parting was cut short or kept beside an
              \* agreement, or whose listing failed
  overtaken   \* history: mutants whose agreement was recorded after a parting
              \* that was not

vars == <<phase, at, doing, table, alive, owner, files, raised, listed,
          never_differed, met, walked, recorded, lost, overtaken>>

tables == <<table, alive, owner>>
result == <<listed, never_differed>>
history == <<met, walked, recorded, lost, overtaken>>

Names == Compared \X BOOLEAN
Parting(mutant) == <<mutant, TRUE>>
Agreement(mutant) == <<mutant, FALSE>>
Nothing == <<>>

Partings == {Parting(m) : m \in Compared}

Init ==
  /\ phase = "walk"
  /\ at = [t \in Threads |-> "idle"]
  /\ doing = [t \in Threads |-> Nothing]
  /\ table = [h \in Hosts |-> {}]
  /\ alive = [h \in Hosts |-> FALSE]
  /\ owner = [h \in Hosts |-> {}]
  /\ files = {} /\ raised = FALSE
  /\ listed = {} /\ never_differed = {}
  /\ met = {} /\ walked = {} /\ recorded = {} /\ lost = {} /\ overtaken = {}

Go(t, from, to) ==
  /\ at[t] = from
  /\ at' = [at EXCEPT ![t] = to]
  /\ doing' = [doing EXCEPT ![t] = IF to = "idle" THEN Nothing ELSE @]

Raise(t) == Go(t, at[t], "idle") /\ raised' = TRUE

-----------------------------------------------------------------------------
(* compare and observe in the generated runtime module *)

\* Both are evaluated; the table is made if the process has none.
Compare(t) ==
  /\ at[t] = "idle" /\ at' = [at EXCEPT ![t] = "look"]
  /\ \E name \in Names :
       /\ doing' = [doing EXCEPT ![t] = name]
       /\ met' = met \cup {name}
  /\ LET h == HostOf[t] IN
       IF alive[h] THEN UNCHANGED tables
       ELSE /\ alive' = [alive EXCEPT ![h] = TRUE]
            /\ owner' = [owner EXCEPT ![h] = IF h \in Erlang THEN {t} ELSE {}]
            /\ UNCHANGED table
  /\ UNCHANGED <<phase, files, raised, result, walked, recorded, lost, overtaken>>

\* Written once per process and answer.
Look(t) ==
  /\ alive[HostOf[t]]
  /\ Go(t, "look", IF doing[t] \in table[HostOf[t]] THEN "idle" ELSE "write")
  /\ UNCHANGED <<phase, tables, files, raised, result, history>>

\* The table has gone with its thread since.
LookRaises(t) ==
  /\ at[t] = "look" /\ ~alive[HostOf[t]]
  /\ Raise(t)
  /\ lost' = lost \cup {m \in Compared : doing[t] = Parting(m)}
  /\ UNCHANGED <<phase, tables, files, result, met, walked, recorded, overtaken>>

\* A parting is known but not in a file.
Unrecorded(mutant) == Parting(mutant) \in met \ files

Written(t) ==
  /\ Go(t, "write", "remember")
  /\ files' = files \cup {doing[t]}
  /\ overtaken' = overtaken \cup
       {m \in Compared : doing[t] = Agreement(m) /\ Unrecorded(m)}
  /\ UNCHANGED <<phase, tables, raised, result, met, walked, recorded, lost>>

\* Mutants of WriteFails: an agreement is left standing; a failed agreement
\* erases one too.
WriteFailsQuietly(t) ==
  /\ "write" \in MayFail
  /\ Go(t, "write", "idle")
  /\ UNCHANGED <<phase, tables, files, raised, result, history>>

WriteFailsErasing(t) ==
  /\ "write" \in MayFail
  /\ Go(t, "write", "erase")
  /\ UNCHANGED <<phase, tables, files, raised, result, history>>

WriteFails(t) ==
  /\ "write" \in MayFail
  /\ Go(t, "write", IF doing[t] \in Partings THEN "erase" ELSE "idle")
  /\ UNCHANGED <<phase, tables, files, raised, result, history>>

\* A parting that could not be recorded takes an earlier agreement with it.
Erase(t) ==
  /\ Go(t, "erase", "idle")
  /\ files' = files \ {Agreement(doing[t][1])}
  /\ overtaken' = IF phase = "differing" THEN overtaken ELSE overtaken \ {doing[t][1]}
  /\ UNCHANGED <<phase, tables, raised, result, met, walked, recorded, lost>>

EraseFails(t) ==
  /\ "erase" \in MayFail
  /\ Go(t, "erase", "idle")
  /\ lost' = lost \cup {m \in {doing[t][1]} : Agreement(m) \in files}
  /\ UNCHANGED <<phase, tables, files, raised, result, met, walked, recorded, overtaken>>

Remember(t) ==
  /\ alive[HostOf[t]]
  /\ Go(t, "remember", "idle")
  /\ table' = [table EXCEPT ![HostOf[t]] = @ \cup {doing[t]}]
  /\ UNCHANGED <<phase, alive, owner, files, raised, result, history>>

RememberRaises(t) ==
  /\ at[t] = "remember" /\ ~alive[HostOf[t]]
  /\ Raise(t)
  /\ UNCHANGED <<phase, tables, files, result, history>>

-----------------------------------------------------------------------------
(* The threads and processes of the suite *)

NoTable(hosts) ==
  /\ table' = [h \in Hosts |-> IF h \in hosts THEN {} ELSE table[h]]
  /\ alive' = [h \in Hosts |-> alive[h] /\ h \notin hosts]
  /\ owner' = [h \in Hosts |-> IF h \in hosts THEN {} ELSE owner[h]]

Leaves(t) == Go(t, "idle", "gone")

\* Mutant of Exit: the table outlives its owner.
ExitKeepsTable(t) ==
  /\ Leaves(t)
  /\ UNCHANGED <<phase, tables, files, raised, result, history>>

\* A thread ends, and with it the table it owns.
Exit(t) ==
  /\ Leaves(t)
  /\ NoTable({h \in Hosts : t \in owner[h]})
  /\ UNCHANGED <<phase, files, raised, result, history>>

\* A process ends where it is, and its observations with it.
HostEnds(h) ==
  /\ at' = [t \in Threads |-> IF HostOf[t] = h THEN "gone" ELSE at[t]]
  /\ doing' = [t \in Threads |-> IF HostOf[t] = h THEN Nothing ELSE doing[t]]
  /\ NoTable({h})

InProgress(threads) == {m \in Compared : \E t \in threads : doing[t] = Parting(m)}

\* A test ends a process it started.
Kill(h) ==
  /\ h # Main
  /\ \E t \in Threads : HostOf[t] = h /\ at[t] # "gone"
  /\ HostEnds(h)
  /\ lost' = lost \cup InProgress({t \in Threads : HostOf[t] = h})
  /\ UNCHANGED <<phase, files, raised, result, met, walked, recorded, overtaken>>

-----------------------------------------------------------------------------
(* run_instrumented_baseline and read_observations *)

\* The suite passes and its process ends: with other threads in the middle of
\* something if it is Erlang's.  The processes it has left running go on.
Return ==
  /\ phase = "walk"
  /\ Main \in Erlang \/ \A t \in Threads : HostOf[t] = Main => at[t] \in {"idle", "gone"}
  /\ phase' = "same"
  /\ HostEnds(Main)
  /\ lost' = lost \cup InProgress(Threads)
  /\ walked' = met
  /\ recorded' = {m \in Compared : Agreement(m) \in files}
  /\ UNCHANGED <<files, raised, result, met, overtaken>>

\* An error raised into it makes a test fail, unless the test expects one.
ReturnFailed ==
  /\ phase = "walk" /\ raised
  /\ phase' = "failed"
  /\ UNCHANGED <<at, doing, tables, files, raised, result, history>>

\* A directory that cannot be listed counts as empty.
Listing(differed) == {m \in Compared : <<m, differed>> \in files}

\* Mutant of ListSame: what has no answer counts as an agreement.
ListSilence ==
  /\ phase = "same"
  /\ listed' = Compared
  /\ phase' = "differing"
  /\ UNCHANGED <<at, doing, tables, files, raised, never_differed, history>>

ListSame ==
  /\ phase = "same"
  /\ listed' = Listing(FALSE)
  /\ phase' = "differing"
  /\ UNCHANGED <<at, doing, tables, files, raised, never_differed, history>>

ListSameFails ==
  /\ "list" \in MayFail /\ phase = "same"
  /\ listed' = {}
  /\ lost' = lost \cup Compared
  /\ phase' = "differing"
  /\ UNCHANGED <<at, doing, tables, files, raised, never_differed, met, walked,
                 recorded, overtaken>>

ListDiffering ==
  /\ phase = "differing"
  /\ never_differed' = listed \ Listing(TRUE)
  /\ phase' = "done"
  /\ UNCHANGED <<at, doing, tables, files, raised, listed, history>>

ListDifferingFails ==
  /\ "list" \in MayFail /\ phase = "differing"
  /\ never_differed' = listed
  /\ lost' = lost \cup Compared
  /\ phase' = "done"
  /\ UNCHANGED <<at, doing, tables, files, raised, listed, met, walked, recorded,
                 overtaken>>

Observe(t) ==
  \/ Compare(t) \/ Look(t) \/ LookRaises(t) \/ Written(t) \/ WriteFails(t)
  \/ Erase(t) \/ EraseFails(t) \/ Remember(t) \/ RememberRaises(t)

Suite ==
  /\ phase \notin {"failed", "done"}
  /\ \/ \E t \in Threads : Observe(t) \/ Exit(t)
     \/ \E h \in Hosts : Kill(h)

Next ==
  \/ Suite
  \/ Return \/ ReturnFailed
  \/ ListSame \/ ListSameFails \/ ListDiffering \/ ListDifferingFails

Spec == Init /\ [][Next]_vars

-----------------------------------------------------------------------------
(* Properties *)

\* The working types; the owner of a table is there.
TypeOK ==
  /\ phase \in {"walk", "same", "differing", "failed", "done"}
  /\ at \in [Threads -> {"idle", "look", "write", "remember", "erase", "gone"}]
  /\ doing \in [Threads -> Names \cup {Nothing}]
  /\ table \in [Hosts -> SUBSET Names] /\ alive \in [Hosts -> BOOLEAN]
  /\ owner \in [Hosts -> SUBSET Threads]
  /\ \A h \in Hosts : \A t \in owner[h] :
       HostOf[t] = h /\ alive[h] /\ at[t] # "gone"
  /\ files \subseteq Names /\ raised \in BOOLEAN
  /\ listed \subseteq Compared /\ never_differed \subseteq Compared
  /\ met \subseteq Names /\ walked \subseteq met
  /\ recorded \subseteq Compared /\ lost \subseteq Compared /\ overtaken \subseteq Compared

\* engine.read_observations, "Silence is not agreement": whatever failed, a
\* mutant is discharged only if the two answers were seen to agree.
DischargeNeedsAgreement ==
  \A m \in never_differed : Agreement(m) \in met

\* The generated observe, "must not leave an earlier agreement standing": a
\* mutant discharged though its answers parted had the parting cut short or
\* its observation raise, its erasure or the listing fail, or an agreement recorded after it.
LostPartingExplained ==
  \A m \in never_differed : Parting(m) \in walked => m \in lost \cup overtaken

\* The generated observe: what fails later takes no recorded agreement away from
\* a mutant that never parts, so it is discharged unless a listing fails.
AgreementSettles ==
  phase = "done" =>
    \A m \in recorded \ lost : Parting(m) \notin met => m \in never_differed

=============================================================================
