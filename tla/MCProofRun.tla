----------------------------- MODULE MCProofRun -----------------------------
(***************************************************************************)
(* Both gates, two sources, one contract and one control.                  *)
(***************************************************************************)
EXTENDS ProofRun
=============================================================================
