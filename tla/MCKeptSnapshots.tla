-------------------------- MODULE MCKeptSnapshots --------------------------
(***************************************************************************)
(* Instances of KeptSnapshots for TLC: three invocations in two workspaces *)
(* that share a cache directory.                                           *)
(***************************************************************************)
EXTENDS KeptSnapshots, TLC

CONSTANTS p1, p2, p3, w1, w2

\* Two invocations share a workspace.
Shared == (p1 :> w1) @@ (p2 :> w2) @@ (p3 :> w2)

OneEach == [p \in Procs |-> {1}]

\* The second may keep nothing.
OneOrNone == [p \in Procs |-> IF p = p2 THEN {0, 1} ELSE {1}]

=============================================================================
