--------------------------- MODULE MCObservations ---------------------------
(* Two threads of one Erlang process and one of another process, which is a *)
(* child a test started.                                                    *)
EXTENDS Observations, TLC

CONSTANTS m1, t1, t2, t3, h1, h2

Family == (t1 :> h1) @@ (t2 :> h1) @@ (t3 :> h2)
Alike == Permutations({t1, t2})

=============================================================================
