--------------------------- MODULE MCPublication ---------------------------
(***************************************************************************)
(* Two candidates of one source, the case the tag cannot tell apart, and   *)
(* for the recovery one candidate.                                         *)
(***************************************************************************)
EXTENDS Publication, TLC

CONSTANTS c1, c2, s1, s2

Sym == Permutations(Candidates)
MCSource == [c \in Candidates |-> s1]
MCArchive == [g \in Registries |-> [c \in Candidates |-> <<g, c>>]]
=============================================================================
