------------------------- MODULE CompilerPartition -------------------------
(* What compiler validation promises: one answer, an error or the partition *)
(* of the candidates into those the compiler accepts and those it rejects.  *)
EXTENDS Naturals, Sequences, SequencesExt

CONSTANT Candidates  \* the sequence of candidates, which are distinct

VARIABLES
  invalid,  \* the candidates the compiler rejects
  answer    \* its kind and, for a partition, the two lists

\* The list has the elements of the set and no others, each once, in the order
\* of the candidates.
Lists(list, set) ==
  /\ list \in Seq(set) /\ set \subseteq ToSet(list)
  /\ \A i, j \in DOMAIN list, p, q \in DOMAIN Candidates :
       list[i] = Candidates[p] /\ list[j] = Candidates[q] /\ i < j => p < q

None == [kind |-> "none", lists |-> <<>>]
Error == [kind |-> "error", lists |-> <<>>]

\* The accepted candidates and the rejected ones.
IsPartition(a) ==
  /\ a.kind = "partition" /\ Len(a.lists) = 2
  /\ Lists(a.lists[1], ToSet(Candidates) \ invalid)
  /\ Lists(a.lists[2], ToSet(Candidates) \cap invalid)

\* With no candidates the answer is there at once.
Init == IF Candidates = <<>> THEN IsPartition(answer) ELSE answer = None

Next ==
  /\ answer = None
  /\ answer' = Error \/ IsPartition(answer')
  /\ UNCHANGED invalid

Spec == Init /\ [][Next]_<<invalid, answer>>

=============================================================================
