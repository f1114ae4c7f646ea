------------------------- MODULE ObservationsProofs -------------------------
(***************************************************************************)
(* What the observations of a walk guarantee for every set of mutants,     *)
(* threads and processes and whatever file operation fails.                *)
(*                                                                         *)
(* The invariant follows an answer from the guard to the listing: what a   *)
(* thread observes and what a file says was met; a name in a table is in a *)
(* file if it is a parting; and a parting met beside a recorded agreement  *)
(* is in a file, still being observed, or accounted for.                   *)
(***************************************************************************)
EXTENDS Observations, TLAPS

Resting == {"idle", "gone"}

RestingObservesNothing == \A t \in Threads : at[t] \in Resting => doing[t] = Nothing

ObservedMet == \A t \in Threads : at[t] \notin Resting => doing[t] \in met

ErasesForParting ==
  \A t \in Threads : at[t] = "erase" => doing[t] \in Partings

RememberedRecorded ==
  \A t \in Threads, m \in Compared :
    at[t] = "remember" /\ doing[t] = Parting(m) => Parting(m) \in files

TablesRecorded ==
  \A h \in Hosts, m \in Compared : Parting(m) \in table[h] => Parting(m) \in files

FilesMet == files \subseteq met

ListedMet == \A m \in listed : Agreement(m) \in met

ResultAtTheEnd ==
  /\ never_differed \subseteq listed
  /\ phase # "done" => never_differed = {}
  /\ phase = "walk" => walked = {} /\ recorded = {}

Known ==
  /\ TypeOK
  /\ RestingObservesNothing /\ ObservedMet
  /\ ErasesForParting /\ RememberedRecorded
  /\ TablesRecorded /\ FilesMet /\ ListedMet /\ ResultAtTheEnd

\* The parting is in a file or accounted for.
Traced == {m \in Compared : Parting(m) \in files} \cup lost \cup overtaken

Pending == {m \in Compared :
              \E t \in Threads : doing[t] = Parting(m) /\ at[t] # "remember"}

Agreed == {m \in Compared : Agreement(m) \in files}

PartingTraced ==
  /\ phase = "walk" => \A m \in Agreed :
       Parting(m) \in met => m \in Traced \cup Pending
  /\ phase = "same" => \A m \in Agreed : Parting(m) \in walked => m \in Traced
  /\ phase = "differing" => \A m \in listed : Parting(m) \in walked => m \in Traced
  /\ LostPartingExplained

AgreementKept ==
  \A m \in recorded \ lost : Parting(m) \notin met =>
    /\ phase = "same" => Agreement(m) \in files
    /\ phase = "differing" => m \in listed
    /\ phase = "done" => m \in never_differed

-----------------------------------------------------------------------------

\* An agreement is not a parting, and partings differ as their mutants do.
LEMMA Distinct ==
  ASSUME NEW m \in Compared, NEW n \in Compared
  PROVE  /\ Parting(m) \in Names /\ Agreement(m) \in Names
         /\ Parting(m) # Agreement(n)
         /\ Parting(m) = Parting(n) => m = n
         /\ Agreement(m) = Agreement(n) => m = n
         /\ Parting(m) # Nothing /\ Agreement(m) # Nothing
<1>1. Parting(m) \in Names /\ Agreement(m) \in Names
  <2>1. \A d \in BOOLEAN : <<m, d>> \in Names
    BY SMT DEF Names
  <2>2. QED
    BY <2>1, Zenon DEF Parting, Agreement
<1>2. Parting(m) # Agreement(n)
  BY SMT DEF Parting, Agreement
<1>3. Parting(m) = Parting(n) => m = n
  BY SMT DEF Parting
<1>4. Agreement(m) = Agreement(n) => m = n
  BY SMT DEF Agreement
<1>5. Parting(m) # Nothing /\ Agreement(m) # Nothing
  BY SMT DEF Parting, Agreement, Nothing
<1>6. QED
  BY <1>1, <1>2, <1>3, <1>4, <1>5

-----------------------------------------------------------------------------

ThreadTypes ==
  /\ phase \in {"walk", "same", "differing", "failed", "done"}
  /\ at \in [Threads -> {"idle", "look", "write", "remember", "erase", "gone"}]
  /\ doing \in [Threads -> Names \cup {Nothing}]

TableTypes ==
  /\ table \in [Hosts -> SUBSET Names] /\ alive \in [Hosts -> BOOLEAN]
  /\ owner \in [Hosts -> SUBSET Threads]
  /\ \A h \in Hosts : \A t \in owner[h] :
       HostOf[t] = h /\ alive[h] /\ at[t] # "gone"

FileTypes ==
  /\ files \subseteq Names /\ raised \in BOOLEAN
  /\ listed \subseteq Compared /\ never_differed \subseteq Compared
  /\ met \subseteq Names /\ walked \subseteq met
  /\ recorded \subseteq Compared /\ lost \subseteq Compared /\ overtaken \subseteq Compared

LEMMA TypeParts == TypeOK <=> ThreadTypes /\ TableTypes /\ FileTypes
  BY DEF TypeOK, ThreadTypes, TableTypes, FileTypes

\* A table that goes leaves the others as they were.
LEMMA NoTableTypes ==
  ASSUME NEW hosts \in SUBSET Hosts, TableTypes, NoTable(hosts),
         \A t \in Threads : at'[t] = "gone" /\ at[t] # "gone" =>
           \A h \in Hosts \ hosts : t \notin owner[h]
  PROVE  TableTypes'
<1> USE DEF TableTypes, NoTable
<1>1. /\ table' \in [Hosts -> SUBSET Names] /\ alive' \in [Hosts -> BOOLEAN]
      /\ owner' \in [Hosts -> SUBSET Threads]
  OBVIOUS
<1>2. ASSUME NEW h \in Hosts, NEW t \in owner'[h]
      PROVE  HostOf[t] = h /\ alive'[h] /\ at'[t] # "gone"
  <2>1. h \notin hosts /\ t \in owner[h]
    BY <1>2
  <2>2. QED
    BY <2>1
<1>3. QED
  BY <1>1, <1>2

\* The first state.
LEMMA KnownInit == Init => Known
<1> SUFFICES ASSUME Init PROVE Known
  OBVIOUS
<1>1. TypeOK
  <2>1. ThreadTypes /\ FileTypes
    BY DEF Init, ThreadTypes, FileTypes
  <2>2. TableTypes
    BY SMT DEF Init, TableTypes, Nothing
  <2>3. QED
    BY <2>1, <2>2, TypeParts
<1>2. RestingObservesNothing /\ ObservedMet /\ ErasesForParting /\ RememberedRecorded
  BY DEF Init, RestingObservesNothing, ObservedMet, ErasesForParting,
         RememberedRecorded, Resting
<1>3. TablesRecorded /\ FilesMet /\ ListedMet /\ ResultAtTheEnd
  BY DEF Init, TablesRecorded, FilesMet, ListedMet, ResultAtTheEnd
<1>4. QED
  BY <1>1, <1>2, <1>3 DEF Known

\* Every step keeps the types.
LEMMA TypeStep == Known /\ [Next]_vars => TypeOK'
<1> SUFFICES ASSUME Known, [Next]_vars PROVE ThreadTypes' /\ TableTypes' /\ FileTypes'
  BY TypeParts DEF TypeOK, ThreadTypes, TableTypes, FileTypes
<1>0. ThreadTypes /\ TableTypes /\ FileTypes
  BY TypeParts DEF Known
<1> USE <1>0, ObservationsAssumption DEF tables, result, history
<1>1. ASSUME NEW t \in Threads, Compare(t) PROVE ThreadTypes' /\ TableTypes' /\ FileTypes'
  <2>1. ThreadTypes'
    BY <1>1 DEF Compare, ThreadTypes
  <2>2. TableTypes'
    <3>1. HostOf[t] \in Hosts /\ at'[t] # "gone"
      BY <1>1 DEF Compare, ThreadTypes
    <3>2. \A u \in Threads : at'[u] = "gone" => at[u] = "gone"
      BY <1>1 DEF Compare, ThreadTypes
    <3>3. CASE alive[HostOf[t]]
      BY <1>1, <3>2, <3>3 DEF Compare, TableTypes
    <3>4. CASE ~alive[HostOf[t]]
      <4>1. /\ alive' = [alive EXCEPT ![HostOf[t]] = TRUE]
            /\ owner' = [owner EXCEPT ![HostOf[t]] = IF HostOf[t] \in Erlang THEN {t} ELSE {}]
            /\ table' = table
        BY <1>1, <3>4 DEF Compare
      <4>2. QED
        BY <4>1, <3>1, <3>2 DEF TableTypes
    <3>5. QED
      BY <3>3, <3>4
  <2>3. FileTypes'
    BY <1>1 DEF Compare, FileTypes
  <2>4. QED
    BY <2>1, <2>2, <2>3
<1>2. ASSUME NEW t \in Threads, Look(t) PROVE ThreadTypes' /\ TableTypes' /\ FileTypes'
  <2>1. ThreadTypes'
    BY <1>2 DEF Look, Go, ThreadTypes
  <2>2. TableTypes'
    BY <1>2 DEF Look, Go, TableTypes, ThreadTypes
  <2>3. FileTypes'
    BY <1>2 DEF Look, Go, FileTypes
  <2>4. QED
    BY <2>1, <2>2, <2>3
<1>3. ASSUME NEW t \in Threads, LookRaises(t) PROVE ThreadTypes' /\ TableTypes' /\ FileTypes'
  <2>1. ThreadTypes'
    BY <1>3 DEF LookRaises, Raise, Go, ThreadTypes
  <2>2. TableTypes'
    BY <1>3 DEF LookRaises, Raise, Go, TableTypes, ThreadTypes
  <2>3. FileTypes'
    BY <1>3 DEF LookRaises, Raise, Go, FileTypes
  <2>4. QED
    BY <2>1, <2>2, <2>3
<1>4. ASSUME NEW t \in Threads, Written(t) PROVE ThreadTypes' /\ TableTypes' /\ FileTypes'
  <2>1. ThreadTypes'
    BY <1>4 DEF Written, Go, ThreadTypes
  <2>2. TableTypes'
    BY <1>4 DEF Written, Go, TableTypes, ThreadTypes
  <2>3. FileTypes'
    BY <1>4 DEF Written, Go, ObservedMet, Resting, Known, FileTypes
  <2>4. QED
    BY <2>1, <2>2, <2>3
<1>5. ASSUME NEW t \in Threads, WriteFails(t) PROVE ThreadTypes' /\ TableTypes' /\ FileTypes'
  <2>1. ThreadTypes'
    BY <1>5 DEF WriteFails, Go, ThreadTypes
  <2>2. TableTypes'
    BY <1>5 DEF WriteFails, Go, TableTypes, ThreadTypes
  <2>3. FileTypes'
    BY <1>5 DEF WriteFails, Go, FileTypes
  <2>4. QED
    BY <2>1, <2>2, <2>3
<1>6. ASSUME NEW t \in Threads, Erase(t) PROVE ThreadTypes' /\ TableTypes' /\ FileTypes'
  <2>1. ThreadTypes'
    BY <1>6 DEF Erase, Go, ThreadTypes
  <2>2. TableTypes'
    BY <1>6 DEF Erase, Go, TableTypes, ThreadTypes
  <2>3. FileTypes'
    BY <1>6 DEF Erase, Go, FileTypes
  <2>4. QED
    BY <2>1, <2>2, <2>3
<1>7. ASSUME NEW t \in Threads, EraseFails(t) PROVE ThreadTypes' /\ TableTypes' /\ FileTypes'
  <2>1. ThreadTypes'
    BY <1>7 DEF EraseFails, Go, ThreadTypes
  <2>2. TableTypes'
    BY <1>7 DEF EraseFails, Go, TableTypes, ThreadTypes
  <2>3. FileTypes'
    <3>1. at[t] = "erase"
      BY <1>7 DEF EraseFails, Go
    <3>2. PICK m \in Compared : doing[t] = <<m, TRUE>>
      BY <3>1 DEF Known, ErasesForParting, Partings, Parting
    <3>3. doing[t][1] \in Compared
      BY <3>2, SMT
    <3>4. QED
      BY <1>7, <3>3 DEF EraseFails, Go, FileTypes
  <2>4. QED
    BY <2>1, <2>2, <2>3
<1>8. ASSUME NEW t \in Threads, Remember(t) PROVE ThreadTypes' /\ TableTypes' /\ FileTypes'
  <2>1. ThreadTypes'
    BY <1>8 DEF Remember, Go, ThreadTypes
  <2>2. TableTypes'
    <3>1. doing[t] \in Names
      BY <1>8 DEF Remember, Go, ObservedMet, Resting, Known, FileTypes
    <3>2. QED
      BY <1>8, <3>1 DEF Remember, Go, TableTypes, ThreadTypes
  <2>3. FileTypes'
    BY <1>8 DEF Remember, Go, FileTypes
  <2>4. QED
    BY <2>1, <2>2, <2>3
<1>9. ASSUME NEW t \in Threads, RememberRaises(t) PROVE ThreadTypes' /\ TableTypes' /\ FileTypes'
  <2>1. ThreadTypes'
    BY <1>9 DEF RememberRaises, Raise, Go, ThreadTypes
  <2>2. TableTypes'
    BY <1>9 DEF RememberRaises, Raise, Go, TableTypes, ThreadTypes
  <2>3. FileTypes'
    BY <1>9 DEF RememberRaises, Raise, Go, FileTypes
  <2>4. QED
    BY <2>1, <2>2, <2>3
<1>10. ASSUME NEW t \in Threads, Exit(t) PROVE ThreadTypes' /\ TableTypes' /\ FileTypes'
  <2>1. ThreadTypes'
    BY <1>10 DEF Exit, Leaves, Go, ThreadTypes
  <2>2. TableTypes'
    <3>1. \A u \in Threads : at'[u] = "gone" /\ at[u] # "gone" => u = t
      BY <1>10 DEF Exit, Leaves, Go, ThreadTypes
    <3>2. NoTable({h \in Hosts : t \in owner[h]})
      BY <1>10 DEF Exit
    <3>3. QED
      BY <3>1, <3>2, NoTableTypes
  <2>3. FileTypes'
    BY <1>10 DEF Exit, Leaves, Go, FileTypes
  <2>4. QED
    BY <2>1, <2>2, <2>3
<1>11. ASSUME NEW h \in Hosts, Kill(h) PROVE ThreadTypes' /\ TableTypes' /\ FileTypes'
  <2>1. ThreadTypes'
    BY <1>11 DEF Kill, HostEnds, ThreadTypes
  <2>2. TableTypes'
    <3>1. \A u \in Threads : at'[u] = "gone" /\ at[u] # "gone" => HostOf[u] = h
      BY <1>11 DEF Kill, HostEnds, ThreadTypes
    <3>2. \A u \in Threads : at'[u] = "gone" /\ at[u] # "gone" =>
            \A k \in Hosts \ {h} : u \notin owner[k]
      BY <3>1 DEF TableTypes
    <3>3. NoTable({h})
      BY <1>11 DEF Kill, HostEnds
    <3>4. QED
      BY <3>2, <3>3, NoTableTypes
  <2>3. FileTypes'
    BY <1>11 DEF Kill, HostEnds, InProgress, FileTypes
  <2>4. QED
    BY <2>1, <2>2, <2>3
<1>12. CASE Return
  <2>1. ThreadTypes'
    BY <1>12 DEF Return, HostEnds, ThreadTypes
  <2>2. TableTypes'
    <3>1. \A u \in Threads : at'[u] = "gone" /\ at[u] # "gone" => HostOf[u] = Main
      BY <1>12 DEF Return, HostEnds, ThreadTypes
    <3>2. \A u \in Threads : at'[u] = "gone" /\ at[u] # "gone" =>
            \A k \in Hosts \ {Main} : u \notin owner[k]
      BY <3>1 DEF TableTypes
    <3>3. NoTable({Main})
      BY <1>12 DEF Return, HostEnds
    <3>4. QED
      BY <3>2, <3>3, NoTableTypes
  <2>3. FileTypes'
    BY <1>12 DEF Return, HostEnds, InProgress, FileTypes
  <2>4. QED
    BY <2>1, <2>2, <2>3
<1>13. CASE ReturnFailed
  <2>1. ThreadTypes'
    BY <1>13 DEF ReturnFailed, ThreadTypes
  <2>2. TableTypes'
    BY <1>13 DEF ReturnFailed, TableTypes, ThreadTypes
  <2>3. FileTypes'
    BY <1>13 DEF ReturnFailed, FileTypes
  <2>4. QED
    BY <2>1, <2>2, <2>3
<1>14. CASE ListSame \/ ListSameFails
  <2>1. ThreadTypes'
    BY <1>14 DEF ListSame, ListSameFails, ThreadTypes
  <2>2. TableTypes'
    BY <1>14 DEF ListSame, ListSameFails, TableTypes, ThreadTypes
  <2>3. FileTypes'
    BY <1>14 DEF ListSame, ListSameFails, Listing, FileTypes
  <2>4. QED
    BY <2>1, <2>2, <2>3
<1>15. CASE ListDiffering \/ ListDifferingFails
  <2>1. ThreadTypes'
    BY <1>15 DEF ListDiffering, ListDifferingFails, ThreadTypes
  <2>2. TableTypes'
    BY <1>15 DEF ListDiffering, ListDifferingFails, TableTypes, ThreadTypes
  <2>3. FileTypes'
    BY <1>15 DEF ListDiffering, ListDifferingFails, FileTypes
  <2>4. QED
    BY <2>1, <2>2, <2>3
<1>16. CASE UNCHANGED vars
  <2>1. ThreadTypes'
    BY <1>16 DEF vars, ThreadTypes
  <2>2. TableTypes'
    BY <1>16 DEF vars, TableTypes, ThreadTypes
  <2>3. FileTypes'
    BY <1>16 DEF vars, FileTypes
  <2>4. QED
    BY <2>1, <2>2, <2>3
<1>17. QED
  BY <1>1, <1>2, <1>3, <1>4, <1>5, <1>6, <1>7, <1>8, <1>9, <1>10, <1>11, <1>12,
     <1>13, <1>14, <1>15, <1>16 DEF Next, Suite, Observe

\* What an erasure removes is the agreement of the parting it is for.
LEMMA ErasesAgreement ==
  ASSUME NEW t \in Threads, Erase(t), NEW k \in Compared, doing[t] = Parting(k)
  PROVE  /\ files' = files \ {Agreement(k)}
         /\ phase # "differing" => overtaken' = overtaken \ {k}
         /\ \A m \in Compared : Parting(m) \in files => Parting(m) \in files'
<1>1. doing[t][1] = k
  BY SMT DEF Parting
<1>2. files' = files \ {Agreement(k)}
  BY <1>1 DEF Erase
<1>3. phase # "differing" => overtaken' = overtaken \ {k}
  BY <1>1 DEF Erase
<1>4. QED
  BY <1>2, <1>3, Distinct

\* Every step keeps what is known of the answers on their way to the result.
LEMMA KnownStep == Known /\ [Next]_vars => Known'
<1> SUFFICES ASSUME Known, [Next]_vars
             PROVE  /\ RestingObservesNothing' /\ ObservedMet' /\ ErasesForParting'
                    /\ RememberedRecorded' /\ TablesRecorded'
                    /\ FilesMet' /\ ListedMet' /\ ResultAtTheEnd'
  BY TypeStep DEF Known
<1> USE DEF Known, TypeOK, tables, result, history
<1>1. ASSUME NEW t \in Threads, Compare(t)
      PROVE  /\ RestingObservesNothing' /\ ObservedMet' /\ ErasesForParting'
             /\ RememberedRecorded' /\ TablesRecorded'
             /\ FilesMet' /\ ListedMet' /\ ResultAtTheEnd'
  <2>1. RestingObservesNothing' /\ ObservedMet' /\ ErasesForParting'
    BY <1>1 DEF Compare, RestingObservesNothing, ObservedMet, ErasesForParting, Resting
  <2>2. RememberedRecorded'
    BY <1>1 DEF Compare, RememberedRecorded
  <2>3. TablesRecorded' /\ FilesMet'
    BY <1>1 DEF Compare, TablesRecorded, FilesMet
  <2>4. ListedMet' /\ ResultAtTheEnd'
    BY <1>1 DEF Compare, ListedMet, ResultAtTheEnd
  <2>5. QED
    BY <2>1, <2>2, <2>3, <2>4
<1>2. ASSUME NEW t \in Threads, Look(t)
      PROVE  /\ RestingObservesNothing' /\ ObservedMet' /\ ErasesForParting'
             /\ RememberedRecorded' /\ TablesRecorded'
             /\ FilesMet' /\ ListedMet' /\ ResultAtTheEnd'
  <2>1. RestingObservesNothing' /\ ObservedMet' /\ ErasesForParting'
    BY <1>2 DEF Look, Go, RestingObservesNothing, ObservedMet, ErasesForParting, Resting
  <2>2. RememberedRecorded'
    BY <1>2 DEF Look, Go, RememberedRecorded
  <2>3. TablesRecorded' /\ FilesMet'
    BY <1>2 DEF Look, Go, TablesRecorded, FilesMet
  <2>4. ListedMet' /\ ResultAtTheEnd'
    BY <1>2 DEF Look, Go, ListedMet, ResultAtTheEnd
  <2>5. QED
    BY <2>1, <2>2, <2>3, <2>4
<1>3. ASSUME NEW t \in Threads, LookRaises(t)
      PROVE  /\ RestingObservesNothing' /\ ObservedMet' /\ ErasesForParting'
             /\ RememberedRecorded' /\ TablesRecorded'
             /\ FilesMet' /\ ListedMet' /\ ResultAtTheEnd'
  <2>1. RestingObservesNothing' /\ ObservedMet' /\ ErasesForParting'
    BY <1>3 DEF LookRaises, Raise, Go, RestingObservesNothing, ObservedMet, ErasesForParting, Resting
  <2>2. RememberedRecorded'
    BY <1>3 DEF LookRaises, Raise, Go, RememberedRecorded
  <2>3. TablesRecorded' /\ FilesMet'
    BY <1>3 DEF LookRaises, Raise, Go, TablesRecorded, FilesMet
  <2>4. ListedMet' /\ ResultAtTheEnd'
    BY <1>3 DEF LookRaises, Raise, Go, ListedMet, ResultAtTheEnd
  <2>5. QED
    BY <2>1, <2>2, <2>3, <2>4
<1>4. ASSUME NEW t \in Threads, Written(t)
      PROVE  /\ RestingObservesNothing' /\ ObservedMet' /\ ErasesForParting'
             /\ RememberedRecorded' /\ TablesRecorded'
             /\ FilesMet' /\ ListedMet' /\ ResultAtTheEnd'
  <2>1. RestingObservesNothing' /\ ObservedMet' /\ ErasesForParting'
    BY <1>4 DEF Written, Go, RestingObservesNothing, ObservedMet, ErasesForParting, Resting
  <2>2. RememberedRecorded'
    BY <1>4 DEF Written, Go, RememberedRecorded
  <2>3. TablesRecorded' /\ FilesMet'
    BY <1>4 DEF Written, Go, TablesRecorded, FilesMet, ObservedMet, Resting
  <2>4. ListedMet' /\ ResultAtTheEnd'
    BY <1>4 DEF Written, Go, ListedMet, ResultAtTheEnd
  <2>5. QED
    BY <2>1, <2>2, <2>3, <2>4
<1>5. ASSUME NEW t \in Threads, WriteFails(t)
      PROVE  /\ RestingObservesNothing' /\ ObservedMet' /\ ErasesForParting'
             /\ RememberedRecorded' /\ TablesRecorded'
             /\ FilesMet' /\ ListedMet' /\ ResultAtTheEnd'
  <2>1. RestingObservesNothing' /\ ObservedMet' /\ ErasesForParting'
    BY <1>5 DEF WriteFails, Go, RestingObservesNothing, ObservedMet, ErasesForParting, Resting
  <2>2. RememberedRecorded'
    BY <1>5 DEF WriteFails, Go, RememberedRecorded
  <2>3. TablesRecorded' /\ FilesMet'
    BY <1>5 DEF WriteFails, Go, TablesRecorded, FilesMet
  <2>4. ListedMet' /\ ResultAtTheEnd'
    BY <1>5 DEF WriteFails, Go, ListedMet, ResultAtTheEnd
  <2>5. QED
    BY <2>1, <2>2, <2>3, <2>4
<1>6. ASSUME NEW t \in Threads, Erase(t)
      PROVE  /\ RestingObservesNothing' /\ ObservedMet' /\ ErasesForParting'
             /\ RememberedRecorded' /\ TablesRecorded'
             /\ FilesMet' /\ ListedMet' /\ ResultAtTheEnd'
  <2>1. RestingObservesNothing' /\ ObservedMet' /\ ErasesForParting'
    BY <1>6 DEF Erase, Go, RestingObservesNothing, ObservedMet, ErasesForParting, Resting
  <2>0. PICK k \in Compared : doing[t] = Parting(k)
    BY <1>6 DEF Erase, Go, ErasesForParting, Partings
  <2>6. \A m \in Compared : Parting(m) \in files => Parting(m) \in files'
    BY <1>6, <2>0, ErasesAgreement
  <2>2. RememberedRecorded'
    BY <1>6, <2>6 DEF Erase, Go, RememberedRecorded
  <2>3. TablesRecorded' /\ FilesMet'
    BY <1>6, <2>6 DEF Erase, Go, TablesRecorded, FilesMet
  <2>4. ListedMet' /\ ResultAtTheEnd'
    BY <1>6 DEF Erase, Go, ListedMet, ResultAtTheEnd
  <2>5. QED
    BY <2>1, <2>2, <2>3, <2>4
<1>7. ASSUME NEW t \in Threads, EraseFails(t)
      PROVE  /\ RestingObservesNothing' /\ ObservedMet' /\ ErasesForParting'
             /\ RememberedRecorded' /\ TablesRecorded'
             /\ FilesMet' /\ ListedMet' /\ ResultAtTheEnd'
  <2>1. RestingObservesNothing' /\ ObservedMet' /\ ErasesForParting'
    BY <1>7 DEF EraseFails, Go, RestingObservesNothing, ObservedMet, ErasesForParting, Resting
  <2>2. RememberedRecorded'
    BY <1>7 DEF EraseFails, Go, RememberedRecorded
  <2>3. TablesRecorded' /\ FilesMet'
    BY <1>7 DEF EraseFails, Go, TablesRecorded, FilesMet
  <2>4. ListedMet' /\ ResultAtTheEnd'
    BY <1>7 DEF EraseFails, Go, ListedMet, ResultAtTheEnd
  <2>5. QED
    BY <2>1, <2>2, <2>3, <2>4
<1>8. ASSUME NEW t \in Threads, Remember(t)
      PROVE  /\ RestingObservesNothing' /\ ObservedMet' /\ ErasesForParting'
             /\ RememberedRecorded' /\ TablesRecorded'
             /\ FilesMet' /\ ListedMet' /\ ResultAtTheEnd'
  <2>1. RestingObservesNothing' /\ ObservedMet' /\ ErasesForParting'
    BY <1>8 DEF Remember, Go, RestingObservesNothing, ObservedMet, ErasesForParting, Resting
  <2>2. RememberedRecorded'
    BY <1>8 DEF Remember, Go, RememberedRecorded
  <2>3. TablesRecorded' /\ FilesMet'
    <3>1. at[t] = "remember" /\ HostOf[t] \in Hosts /\ files' = files /\ met' = met
      BY <1>8, ObservationsAssumption DEF Remember, Go
    <3>2. \A h \in Hosts : table'[h] \subseteq table[h] \cup {doing[t]}
      BY <1>8 DEF Remember
    <3>3. QED
      BY <3>1, <3>2 DEF RememberedRecorded, TablesRecorded, FilesMet
  <2>4. ListedMet' /\ ResultAtTheEnd'
    BY <1>8 DEF Remember, Go, ListedMet, ResultAtTheEnd
  <2>5. QED
    BY <2>1, <2>2, <2>3, <2>4
<1>9. ASSUME NEW t \in Threads, RememberRaises(t)
      PROVE  /\ RestingObservesNothing' /\ ObservedMet' /\ ErasesForParting'
             /\ RememberedRecorded' /\ TablesRecorded'
             /\ FilesMet' /\ ListedMet' /\ ResultAtTheEnd'
  <2>1. RestingObservesNothing' /\ ObservedMet' /\ ErasesForParting'
    BY <1>9 DEF RememberRaises, Raise, Go, RestingObservesNothing, ObservedMet, ErasesForParting, Resting
  <2>2. RememberedRecorded'
    BY <1>9 DEF RememberRaises, Raise, Go, RememberedRecorded
  <2>3. TablesRecorded' /\ FilesMet'
    BY <1>9 DEF RememberRaises, Raise, Go, TablesRecorded, FilesMet
  <2>4. ListedMet' /\ ResultAtTheEnd'
    BY <1>9 DEF RememberRaises, Raise, Go, ListedMet, ResultAtTheEnd
  <2>5. QED
    BY <2>1, <2>2, <2>3, <2>4
<1>10. ASSUME NEW t \in Threads, Exit(t)
      PROVE  /\ RestingObservesNothing' /\ ObservedMet' /\ ErasesForParting'
             /\ RememberedRecorded' /\ TablesRecorded'
             /\ FilesMet' /\ ListedMet' /\ ResultAtTheEnd'
  <2>1. RestingObservesNothing' /\ ObservedMet' /\ ErasesForParting'
    BY <1>10 DEF Exit, Leaves, Go, NoTable, RestingObservesNothing, ObservedMet, ErasesForParting, Resting
  <2>2. RememberedRecorded'
    BY <1>10 DEF Exit, Leaves, Go, NoTable, RememberedRecorded
  <2>3. TablesRecorded' /\ FilesMet'
    BY <1>10 DEF Exit, Leaves, Go, NoTable, TablesRecorded, FilesMet
  <2>4. ListedMet' /\ ResultAtTheEnd'
    BY <1>10 DEF Exit, Leaves, Go, NoTable, ListedMet, ResultAtTheEnd
  <2>5. QED
    BY <2>1, <2>2, <2>3, <2>4
<1>11. ASSUME NEW h \in Hosts, Kill(h)
      PROVE  /\ RestingObservesNothing' /\ ObservedMet' /\ ErasesForParting'
             /\ RememberedRecorded' /\ TablesRecorded'
             /\ FilesMet' /\ ListedMet' /\ ResultAtTheEnd'
  <2>1. RestingObservesNothing' /\ ObservedMet' /\ ErasesForParting'
    BY <1>11 DEF Kill, HostEnds, NoTable, RestingObservesNothing, ObservedMet, ErasesForParting, Resting
  <2>2. RememberedRecorded'
    BY <1>11 DEF Kill, HostEnds, NoTable, RememberedRecorded
  <2>3. TablesRecorded' /\ FilesMet'
    BY <1>11 DEF Kill, HostEnds, NoTable, TablesRecorded, FilesMet
  <2>4. ListedMet' /\ ResultAtTheEnd'
    BY <1>11 DEF Kill, HostEnds, NoTable, ListedMet, ResultAtTheEnd
  <2>5. QED
    BY <2>1, <2>2, <2>3, <2>4
<1>12. CASE Return
  <2>1. RestingObservesNothing' /\ ObservedMet' /\ ErasesForParting'
    BY <1>12 DEF Return, HostEnds, NoTable, RestingObservesNothing, ObservedMet, ErasesForParting, Resting
  <2>2. RememberedRecorded'
    BY <1>12 DEF Return, HostEnds, NoTable, RememberedRecorded
  <2>3. TablesRecorded' /\ FilesMet'
    BY <1>12 DEF Return, HostEnds, NoTable, TablesRecorded, FilesMet
  <2>4. ListedMet' /\ ResultAtTheEnd'
    BY <1>12 DEF Return, HostEnds, NoTable, ListedMet, ResultAtTheEnd
  <2>5. QED
    BY <2>1, <2>2, <2>3, <2>4
<1>13. CASE ReturnFailed
  <2>1. RestingObservesNothing' /\ ObservedMet' /\ ErasesForParting'
    BY <1>13 DEF ReturnFailed, RestingObservesNothing, ObservedMet, ErasesForParting, Resting
  <2>2. RememberedRecorded'
    BY <1>13 DEF ReturnFailed, RememberedRecorded
  <2>3. TablesRecorded' /\ FilesMet'
    BY <1>13 DEF ReturnFailed, TablesRecorded, FilesMet
  <2>4. ListedMet' /\ ResultAtTheEnd'
    BY <1>13 DEF ReturnFailed, ListedMet, ResultAtTheEnd
  <2>5. QED
    BY <2>1, <2>2, <2>3, <2>4
<1>14. CASE ListSame \/ ListSameFails
  <2>1. RestingObservesNothing' /\ ObservedMet' /\ ErasesForParting'
    BY <1>14 DEF ListSame, ListSameFails, RestingObservesNothing, ObservedMet, ErasesForParting, Resting
  <2>2. RememberedRecorded'
    BY <1>14 DEF ListSame, ListSameFails, RememberedRecorded
  <2>3. TablesRecorded' /\ FilesMet'
    BY <1>14 DEF ListSame, ListSameFails, TablesRecorded, FilesMet
  <2>4. ListedMet' /\ ResultAtTheEnd'
    BY <1>14 DEF ListSame, ListSameFails, ListedMet, ResultAtTheEnd, FilesMet, Listing,
                 Agreement
  <2>5. QED
    BY <2>1, <2>2, <2>3, <2>4
<1>15. CASE ListDiffering \/ ListDifferingFails
  <2>1. RestingObservesNothing' /\ ObservedMet' /\ ErasesForParting'
    BY <1>15 DEF ListDiffering, ListDifferingFails, RestingObservesNothing, ObservedMet, ErasesForParting, Resting
  <2>2. RememberedRecorded'
    BY <1>15 DEF ListDiffering, ListDifferingFails, RememberedRecorded
  <2>3. TablesRecorded' /\ FilesMet'
    BY <1>15 DEF ListDiffering, ListDifferingFails, TablesRecorded, FilesMet
  <2>4. ListedMet' /\ ResultAtTheEnd'
    BY <1>15 DEF ListDiffering, ListDifferingFails, ListedMet, ResultAtTheEnd
  <2>5. QED
    BY <2>1, <2>2, <2>3, <2>4
<1>16. CASE UNCHANGED vars
  <2>1. RestingObservesNothing' /\ ObservedMet' /\ ErasesForParting'
    BY <1>16 DEF vars, RestingObservesNothing, ObservedMet, ErasesForParting, Resting
  <2>2. RememberedRecorded'
    BY <1>16 DEF vars, RememberedRecorded
  <2>3. TablesRecorded' /\ FilesMet'
    BY <1>16 DEF vars, TablesRecorded, FilesMet
  <2>4. ListedMet' /\ ResultAtTheEnd'
    BY <1>16 DEF vars, ListedMet, ResultAtTheEnd
  <2>5. QED
    BY <2>1, <2>2, <2>3, <2>4
<1>17. QED
  BY <1>1, <1>2, <1>3, <1>4, <1>5, <1>6, <1>7, <1>8, <1>9, <1>10, <1>11, <1>12,
     <1>13, <1>14, <1>15, <1>16 DEF Next, Suite, Observe

\* An agreement that is recorded stays so for a mutant that never parts.
LEMMA KeptStep == Known /\ AgreementKept /\ [Next]_vars => AgreementKept'
<1> SUFFICES ASSUME Known, AgreementKept, [Next]_vars PROVE AgreementKept'
  OBVIOUS
<1> USE DEF Known, AgreementKept, tables, result, history
<1>1. ASSUME NEW t \in Threads, Compare(t) PROVE AgreementKept'
  BY <1>1 DEF Compare
<1>2. ASSUME NEW t \in Threads, Look(t) PROVE AgreementKept'
  BY <1>2 DEF Look, Go
<1>3. ASSUME NEW t \in Threads, LookRaises(t) PROVE AgreementKept'
  BY <1>3 DEF LookRaises, Raise, Go
<1>4. ASSUME NEW t \in Threads, Written(t) PROVE AgreementKept'
  BY <1>4 DEF Written, Go
<1>5. ASSUME NEW t \in Threads, WriteFails(t) PROVE AgreementKept'
  BY <1>5 DEF WriteFails, Go
<1>6. ASSUME NEW t \in Threads, Erase(t) PROVE AgreementKept'
  <2>0. PICK k \in Compared : doing[t] = Parting(k)
    BY <1>6 DEF Erase, Go, ErasesForParting, Partings
  <2>1. doing[t] = Parting(k) /\ files' = files \ {Agreement(k)}
    BY <1>6, <2>0, ErasesAgreement
  <2>2. Parting(k) \in met
    BY <1>6, <2>1 DEF Erase, Go, ObservedMet, Resting
  <2>3. \A m \in Compared : Agreement(m) = Agreement(k) => m = k
    BY Distinct
  <2>4. recorded' = recorded /\ lost' = lost /\ met' = met /\ phase' = phase
        /\ listed' = listed /\ never_differed' = never_differed
    BY <1>6 DEF Erase
  <2>5. QED
    BY <2>1, <2>2, <2>3, <2>4 DEF TypeOK
<1>7. ASSUME NEW t \in Threads, EraseFails(t) PROVE AgreementKept'
  BY <1>7 DEF EraseFails, Go
<1>8. ASSUME NEW t \in Threads, Remember(t) PROVE AgreementKept'
  BY <1>8 DEF Remember, Go
<1>9. ASSUME NEW t \in Threads, RememberRaises(t) PROVE AgreementKept'
  BY <1>9 DEF RememberRaises, Raise, Go
<1>10. ASSUME NEW t \in Threads, Exit(t) PROVE AgreementKept'
  BY <1>10 DEF Exit, Leaves, Go, NoTable
<1>11. ASSUME NEW h \in Hosts, Kill(h) PROVE AgreementKept'
  BY <1>11 DEF Kill, HostEnds, NoTable
<1>12. CASE Return
  BY <1>12 DEF Return, HostEnds, NoTable, TypeOK
<1>13. CASE ReturnFailed
  BY <1>13 DEF ReturnFailed
<1>14. CASE ListSame \/ ListSameFails
  BY <1>14 DEF ListSame, ListSameFails, Listing, Agreement, TypeOK
<1>15. CASE ListDiffering \/ ListDifferingFails
  BY <1>15 DEF ListDiffering, ListDifferingFails, Listing, FilesMet, Parting
<1>16. CASE UNCHANGED vars
  BY <1>16 DEF vars
<1>17. QED
  BY <1>1, <1>2, <1>3, <1>4, <1>5, <1>6, <1>7, <1>8, <1>9, <1>10, <1>11, <1>12,
     <1>13, <1>14, <1>15, <1>16 DEF Next, Suite, Observe

\* A step of the suite keeps partings traced if it traces what it stops pending
\* and what it records an agreement beside, and untraces nothing still agreed.
LEMMA SuiteTraced ==
  ASSUME Known, PartingTraced, phase \notin {"failed", "done"},
         UNCHANGED <<phase, result, walked>>,
         Agreed' \cap Traced \subseteq Traced',
         phase = "differing" => Traced \subseteq Traced',
         phase = "walk" => Agreed' \cap Pending \subseteq Traced' \cup Pending',
         \A m \in Agreed' \ Agreed : Parting(m) \in met => m \in Traced',
         \A m \in Compared : Parting(m) \in met' \ met => m \in Pending'
  PROVE  PartingTraced'
<1>1. UNCHANGED phase /\ UNCHANGED listed /\ UNCHANGED never_differed /\ UNCHANGED walked
  BY DEF result
<1>2. Agreed' \subseteq Compared /\ listed \subseteq Compared /\ walked \subseteq met
  BY DEF Agreed, Known, TypeOK
<1>3. phase = "walk" => \A m \in Agreed' :
        Parting(m) \in met' => m \in Traced' \cup Pending'
  BY <1>2 DEF PartingTraced
<1>4. phase = "same" => \A m \in Agreed' : Parting(m) \in walked => m \in Traced'
  BY <1>2 DEF PartingTraced
<1>5. phase = "differing" => \A m \in listed : Parting(m) \in walked => m \in Traced'
  BY DEF PartingTraced
<1>6. never_differed = {}
  BY DEF Known, ResultAtTheEnd
<1>7. QED
  BY <1>1, <1>3, <1>4, <1>5, <1>6 DEF PartingTraced, LostPartingExplained

\* The thread of a step alone can stop observing a parting.
LEMMA OthersPending ==
  ASSUME NEW t \in Threads,
         \A u \in Threads \ {t} : at'[u] = at[u] /\ doing'[u] = doing[u]
  PROVE  \A m \in Pending \ Pending' :
           /\ doing[t] = Parting(m) /\ at[t] # "remember"
           /\ ~(doing'[t] = Parting(m) /\ at'[t] # "remember")
BY DEF Pending

\* Every step keeps the parting of a mutant with a recorded agreement traced.
LEMMA TracedStep == Known /\ PartingTraced /\ [Next]_vars => PartingTraced'
<1> SUFFICES ASSUME Known, PartingTraced, [Next]_vars PROVE PartingTraced'
  OBVIOUS
<1>0. /\ ThreadTypes /\ FileTypes
      /\ RestingObservesNothing /\ ObservedMet /\ ErasesForParting /\ RememberedRecorded
      /\ TablesRecorded /\ FilesMet /\ ResultAtTheEnd
  BY TypeParts DEF Known
<1> USE DEF tables, history
<1>1. ASSUME NEW t \in Threads, Compare(t), phase \notin {"failed", "done"} PROVE PartingTraced'
  <2>1. \A u \in Threads \ {t} : at'[u] = at[u] /\ doing'[u] = doing[u]
    BY <1>1, <1>0 DEF Compare, ThreadTypes
  <2>2. UNCHANGED <<phase, result, walked>>
    BY <1>1 DEF Compare
  <2>3. Agreed' = Agreed /\ Traced' = Traced
    BY <1>1 DEF Compare, Agreed, Traced
  <2>4. doing[t] = Nothing
    BY <1>1, <1>0 DEF Compare, RestingObservesNothing, Resting
  <2>5. Pending \subseteq Pending'
    BY <2>1, <2>4, OthersPending, Distinct DEF Pending
  <2>6. \A m \in Compared : Parting(m) \in met' \ met => m \in Pending'
    <3>1. PICK name \in Names : /\ doing' = [doing EXCEPT ![t] = name]
                                /\ met' = met \cup {name} /\ at' = [at EXCEPT ![t] = "look"]
      BY <1>1 DEF Compare
    <3>2. doing'[t] = name /\ at'[t] # "remember"
      BY <3>1, <1>0 DEF ThreadTypes
    <3>3. QED
      BY <3>1, <3>2 DEF Pending
  <2>7. QED
    BY <1>1, <2>2, <2>3, <2>4, <2>5, <2>6, SuiteTraced
<1>2. ASSUME NEW t \in Threads, Look(t), phase \notin {"failed", "done"} PROVE PartingTraced'
  <2>1. \A u \in Threads \ {t} : at'[u] = at[u] /\ doing'[u] = doing[u]
    BY <1>2, <1>0 DEF Look, Go, ThreadTypes
  <2>2. UNCHANGED <<phase, result, walked>> /\ UNCHANGED met
    BY <1>2 DEF Look, Go
  <2>3. Agreed' = Agreed /\ Traced' = Traced
    BY <1>2 DEF Look, Go, Agreed, Traced
  <2>4. Pending \subseteq Traced \cup Pending'
    <3>1. CASE doing[t] \in table[HostOf[t]]
      <4>1. \A m \in Compared : doing[t] = Parting(m) => m \in Traced
        BY <3>1, <1>0, ObservationsAssumption DEF TablesRecorded, Traced
      <4>2. QED
        BY <2>1, <4>1, OthersPending DEF Pending
    <3>2. CASE doing[t] \notin table[HostOf[t]]
      <4>1. doing'[t] = doing[t] /\ at'[t] = "write"
        BY <1>2, <3>2, <1>0 DEF Look, Go, ThreadTypes
      <4>2. QED
        BY <2>1, <4>1, OthersPending
    <3>3. QED
      BY <3>1, <3>2
  <2>5. QED
    BY <1>2, <2>2, <2>3, <2>4, SuiteTraced
<1>3. ASSUME NEW t \in Threads, LookRaises(t), phase \notin {"failed", "done"} PROVE PartingTraced'
  <2>1. \A u \in Threads \ {t} : at'[u] = at[u] /\ doing'[u] = doing[u]
    BY <1>3, <1>0 DEF LookRaises, Raise, Go, ThreadTypes
  <2>2. UNCHANGED <<phase, result, walked>> /\ UNCHANGED met
    BY <1>3 DEF LookRaises, Raise, Go
  <2>3. Agreed' = Agreed /\ Traced \subseteq Traced'
    BY <1>3 DEF LookRaises, Raise, Go, Agreed, Traced
  <2>4. Pending \subseteq Traced' \cup Pending'
    <3>1. \A m \in Compared : doing[t] = Parting(m) => m \in Traced'
      BY <1>3 DEF LookRaises, Raise, Go, Traced
    <3>2. QED
      BY <2>1, <3>1, OthersPending DEF Pending
  <2>5. QED
    BY <1>3, <2>2, <2>3, <2>4, SuiteTraced
<1>4. ASSUME NEW t \in Threads, Written(t), phase \notin {"failed", "done"} PROVE PartingTraced'
  <2>1. \A u \in Threads \ {t} : at'[u] = at[u] /\ doing'[u] = doing[u]
    BY <1>4, <1>0 DEF Written, Go, ThreadTypes
  <2>2. UNCHANGED <<phase, result, walked>> /\ UNCHANGED met
    BY <1>4 DEF Written, Go
  <2>3. Traced \subseteq Traced'
    BY <1>4 DEF Written, Go, Traced
  <2>4. Pending \subseteq Traced' \cup Pending'
    <3>1. \A m \in Compared : doing[t] = Parting(m) => m \in Traced'
      BY <1>4 DEF Written, Go, Traced
    <3>2. QED
      BY <2>1, <3>1, OthersPending DEF Pending
  <2>5. \A m \in Agreed' \ Agreed : Parting(m) \in met => m \in Traced'
    <3>1. \A m \in Agreed' \ Agreed : m \in Compared /\ doing[t] = Agreement(m)
      BY <1>4 DEF Written, Go, Agreed
    <3>2. \A m \in Agreed' \ Agreed : Parting(m) \in met \ files => m \in overtaken'
      BY <1>4, <3>1 DEF Written, Go, Unrecorded
    <3>3. QED
      BY <1>4, <3>1, <3>2 DEF Written, Go, Traced
  <2>6. QED
    BY <1>4, <2>2, <2>3, <2>4, <2>5, SuiteTraced
<1>5. ASSUME NEW t \in Threads, WriteFails(t), phase \notin {"failed", "done"} PROVE PartingTraced'
  <2>1. \A u \in Threads \ {t} : at'[u] = at[u] /\ doing'[u] = doing[u]
    BY <1>5, <1>0 DEF WriteFails, Go, ThreadTypes
  <2>2. UNCHANGED <<phase, result, walked>> /\ UNCHANGED met
    BY <1>5 DEF WriteFails, Go
  <2>3. Agreed' = Agreed /\ Traced' = Traced
    BY <1>5 DEF WriteFails, Go, Agreed, Traced
  <2>4. Pending \subseteq Pending'
    <3>1. \A m \in Compared : doing[t] = Parting(m) =>
            doing'[t] = doing[t] /\ at'[t] = "erase"
      BY <1>5, <1>0 DEF WriteFails, Go, ThreadTypes, Partings
    <3>2. QED
      BY <2>1, <3>1, OthersPending DEF Pending
  <2>5. QED
    BY <1>5, <2>2, <2>3, <2>4, SuiteTraced
<1>6. ASSUME NEW t \in Threads, Erase(t), phase \notin {"failed", "done"} PROVE PartingTraced'
  <2>1. \A u \in Threads \ {t} : at'[u] = at[u] /\ doing'[u] = doing[u]
    BY <1>6, <1>0 DEF Erase, Go, ThreadTypes
  <2>2. UNCHANGED <<phase, result, walked>> /\ UNCHANGED met /\ UNCHANGED lost
    BY <1>6 DEF Erase, Go
  <2>0. PICK k \in Compared : doing[t] = Parting(k)
    BY <1>6, <1>0 DEF Erase, Go, ErasesForParting, Partings
  <2>3. /\ doing[t] = Parting(k) /\ files' = files \ {Agreement(k)}
        /\ phase # "differing" => overtaken' = overtaken \ {k}
    BY <1>6, <2>0, ErasesAgreement
  <2>4. k \notin Agreed' /\ Agreed' \subseteq Agreed
    BY <2>3 DEF Agreed
  <2>5. phase = "differing" => overtaken' = overtaken
    BY <1>6 DEF Erase, Go
  <2>6. \A m \in Compared : Parting(m) \in files => Parting(m) \in files'
    BY <2>3, Distinct
  <2>7. Agreed' \cap Traced \subseteq Traced' /\ (phase = "differing" => Traced \subseteq Traced')
    BY <2>2, <2>3, <2>4, <2>5, <2>6 DEF Traced
  <2>8. Agreed' \cap Pending \subseteq Pending'
    <3>1. \A m \in Agreed' : m \in Compared /\ Parting(m) # Parting(k)
      BY <2>3, <2>4, Distinct DEF Agreed
    <3>2. QED
      BY <2>1, <2>3, <3>1, OthersPending
  <2>9. QED
    BY <1>6, <2>2, <2>4, <2>7, <2>8, SuiteTraced
<1>7. ASSUME NEW t \in Threads, EraseFails(t), phase \notin {"failed", "done"} PROVE PartingTraced'
  <2>1. \A u \in Threads \ {t} : at'[u] = at[u] /\ doing'[u] = doing[u]
    BY <1>7, <1>0 DEF EraseFails, Go, ThreadTypes
  <2>2. UNCHANGED <<phase, result, walked>> /\ UNCHANGED met
    BY <1>7 DEF EraseFails, Go
  <2>3. Agreed' = Agreed /\ Traced \subseteq Traced'
    BY <1>7 DEF EraseFails, Go, Agreed, Traced
  <2>4. Agreed' \cap Pending \subseteq Traced' \cup Pending'
    <3>1. PICK k \in Compared : doing[t] = Parting(k)
      BY <1>7, <1>0 DEF EraseFails, Go, ErasesForParting, Partings
    <3>2. doing[t][1] = k
      BY <3>1, SMT DEF Parting
    <3>3. k \in Agreed' => k \in Traced'
      BY <1>7, <3>2 DEF EraseFails, Go, Agreed, Traced
    <3>4. \A m \in Compared : doing[t] = Parting(m) => m = k
      BY <3>1, Distinct
    <3>5. QED
      BY <2>1, <3>3, <3>4, OthersPending DEF Pending
  <2>5. QED
    BY <1>7, <2>2, <2>3, <2>4, SuiteTraced
<1>8. ASSUME NEW t \in Threads, Remember(t), phase \notin {"failed", "done"} PROVE PartingTraced'
  <2>1. \A u \in Threads \ {t} : at'[u] = at[u] /\ doing'[u] = doing[u]
    BY <1>8, <1>0 DEF Remember, Go, ThreadTypes
  <2>2. UNCHANGED <<phase, result, walked>> /\ UNCHANGED met
    BY <1>8 DEF Remember, Go
  <2>3. Agreed' = Agreed /\ Traced' = Traced
    BY <1>8 DEF Remember, Go, Agreed, Traced
  <2>4. Pending \subseteq Pending'
    BY <1>8, <2>1, OthersPending DEF Remember, Go
  <2>5. QED
    BY <1>8, <2>2, <2>3, <2>4, SuiteTraced
<1>9. ASSUME NEW t \in Threads, RememberRaises(t), phase \notin {"failed", "done"} PROVE PartingTraced'
  <2>1. \A u \in Threads \ {t} : at'[u] = at[u] /\ doing'[u] = doing[u]
    BY <1>9, <1>0 DEF RememberRaises, Raise, Go, ThreadTypes
  <2>2. UNCHANGED <<phase, result, walked>> /\ UNCHANGED met
    BY <1>9 DEF RememberRaises, Raise, Go
  <2>3. Agreed' = Agreed /\ Traced' = Traced
    BY <1>9 DEF RememberRaises, Raise, Go, Agreed, Traced
  <2>4. Pending \subseteq Pending'
    BY <1>9, <2>1, OthersPending DEF RememberRaises, Raise, Go
  <2>5. QED
    BY <1>9, <2>2, <2>3, <2>4, SuiteTraced
<1>10. ASSUME NEW t \in Threads, Exit(t), phase \notin {"failed", "done"} PROVE PartingTraced'
  <2>1. \A u \in Threads \ {t} : at'[u] = at[u] /\ doing'[u] = doing[u]
    BY <1>10, <1>0 DEF Exit, Leaves, Go, ThreadTypes
  <2>2. UNCHANGED <<phase, result, walked>> /\ UNCHANGED met
    BY <1>10 DEF Exit, Leaves, Go
  <2>3. Agreed' = Agreed /\ Traced' = Traced
    BY <1>10 DEF Exit, Leaves, Go, Agreed, Traced
  <2>4. Pending \subseteq Pending'
    <3>1. doing[t] = Nothing
      BY <1>10, <1>0 DEF Exit, Leaves, Go, RestingObservesNothing, Resting
    <3>2. QED
      BY <2>1, <3>1, OthersPending, Distinct DEF Pending
  <2>5. QED
    BY <1>10, <2>2, <2>3, <2>4, SuiteTraced
<1>11. ASSUME NEW h \in Hosts, Kill(h), phase \notin {"failed", "done"} PROVE PartingTraced'
  <2>1. UNCHANGED <<phase, result, walked>> /\ UNCHANGED met
    BY <1>11 DEF Kill
  <2>2. Agreed' = Agreed /\ Traced \subseteq Traced'
    BY <1>11 DEF Kill, Agreed, Traced
  <2>3. Pending \subseteq Traced' \cup Pending'
    <3>1. SUFFICES ASSUME NEW m \in Pending PROVE m \in Traced' \cup Pending'
      OBVIOUS
    <3>2. PICK u \in Threads : m \in Compared /\ doing[u] = Parting(m) /\ at[u] # "remember"
      BY <3>1 DEF Pending
    <3>3. CASE HostOf[u] = h
      BY <1>11, <3>2, <3>3 DEF Kill, InProgress, Traced
    <3>4. CASE HostOf[u] # h
      <4>1. doing'[u] = doing[u] /\ at'[u] = at[u]
        BY <1>11, <3>4 DEF Kill, HostEnds
      <4>2. QED
        BY <3>2, <4>1 DEF Pending
    <3>5. QED
      BY <3>3, <3>4
  <2>4. QED
    BY <1>11, <2>1, <2>2, <2>3, SuiteTraced
<1>12. CASE Return
  <2>1. /\ phase = "walk" /\ phase' = "same" /\ walked' = met
        /\ never_differed' = {} /\ Agreed' = Agreed
    BY <1>12, <1>0 DEF Return, Agreed, ResultAtTheEnd, result
  <2>2. Traced \cup Pending \subseteq Traced'
    BY <1>12 DEF Return, InProgress, Traced, Pending
  <2>3. \A m \in Agreed : Parting(m) \in met => m \in Traced \cup Pending
    BY <2>1 DEF PartingTraced
  <2>4. QED
    BY <2>1, <2>2, <2>3 DEF PartingTraced, LostPartingExplained
<1>13. CASE ReturnFailed
  BY <1>13 DEF ReturnFailed, PartingTraced, LostPartingExplained, result
<1>14. CASE ListSame
  <2>1. phase = "same" /\ phase' = "differing" /\ walked' = walked /\ never_differed' = {}
    BY <1>14, <1>0 DEF ListSame, ResultAtTheEnd
  <2>2. listed' = Agreed
    BY <1>14 DEF ListSame, Listing, Agreed, Agreement
  <2>3. Traced' = Traced
    BY <1>14 DEF ListSame, Traced
  <2>4. QED
    BY <2>1, <2>2, <2>3 DEF PartingTraced, LostPartingExplained
<1>15. CASE ListSameFails
  BY <1>15, <1>0 DEF ListSameFails, PartingTraced, LostPartingExplained, ResultAtTheEnd
<1>16. CASE ListDiffering
  <2>1. \A m \in never_differed' : m \in listed /\ m \in Compared /\ Parting(m) \notin files
    BY <1>16, <1>0 DEF ListDiffering, FileTypes, Listing, Parting
  <2>2. \A m \in listed : Parting(m) \in walked => m \in Traced
    BY <1>16 DEF ListDiffering, PartingTraced
  <2>3. UNCHANGED <<walked, lost, overtaken>> /\ phase' = "done"
    BY <1>16 DEF ListDiffering
  <2>4. QED
    BY <2>1, <2>2, <2>3 DEF PartingTraced, LostPartingExplained, Traced
<1>17. CASE ListDifferingFails
  BY <1>17, <1>0 DEF ListDifferingFails, PartingTraced, LostPartingExplained, FileTypes
<1>18. CASE UNCHANGED vars
  <2>1. Agreed' = Agreed /\ Traced' = Traced /\ Pending' = Pending
    BY <1>18 DEF vars, Agreed, Traced, Pending
  <2>2. QED
    BY <1>18, <2>1 DEF vars, PartingTraced, LostPartingExplained
<1>19. QED
  BY <1>1, <1>2, <1>3, <1>4, <1>5, <1>6, <1>7, <1>8, <1>9, <1>10, <1>11, <1>12,
     <1>13, <1>14, <1>15, <1>16, <1>17, <1>18 DEF Next, Suite, Observe

-----------------------------------------------------------------------------

IInv == Known /\ AgreementKept /\ PartingTraced

LEMMA Inductive == Spec => []IInv
<1>1. Init => IInv
  <2>1. Init => AgreementKept /\ PartingTraced
    BY DEF Init, AgreementKept, PartingTraced, LostPartingExplained
  <2>2. QED
    BY <2>1, KnownInit DEF IInv
<1>2. IInv /\ [Next]_vars => IInv'
  BY KnownStep, KeptStep, TracedStep DEF IInv
<1>3. QED
  BY <1>1, <1>2, PTL DEF Spec

\* The generated observe and read_observations work on what TypeOK says, and
\* the table of a process has a living owner or none.
THEOREM TypeCorrect == Spec => []TypeOK
<1>1. IInv => TypeOK
  BY DEF IInv, Known
<1>2. QED
  BY <1>1, Inductive, PTL

\* read_observations discharges a mutant only if the suite saw the original and
\* the replacement agree, whatever file operation fails and whatever ends.
THEOREM Discharge == Spec => []DischargeNeedsAgreement
<1>1. IInv => DischargeNeedsAgreement
  BY DEF IInv, Known, ListedMet, ResultAtTheEnd, DischargeNeedsAgreement
<1>2. QED
  BY <1>1, Inductive, PTL

\* A mutant whose answers parted is discharged only if the observation of the
\* parting was cut short or raised, its erasure or a listing failed, or an
\* agreement was recorded after it.
THEOREM Explained == Spec => []LostPartingExplained
<1>1. IInv => LostPartingExplained
  BY DEF IInv, PartingTraced
<1>2. QED
  BY <1>1, Inductive, PTL

\* A mutant whose agreement is in a file when the suite returns and that never
\* parts is discharged, unless a listing fails.
THEOREM Settled == Spec => []AgreementSettles
<1>1. IInv => AgreementSettles
  BY DEF IInv, AgreementKept, AgreementSettles
<1>2. QED
  BY <1>1, Inductive, PTL

=============================================================================
