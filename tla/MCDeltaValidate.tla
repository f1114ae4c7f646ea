-------------------------- MODULE MCDeltaValidate --------------------------
(* Five candidates, an odd number that halves into an odd and an even part, *)
(* on three runtimes of two targets.                                        *)
EXTENDS DeltaValidate

CONSTANTS m1, m2, m3, m4, m5

Five == <<m1, m2, m3, m4, m5>>
Runtime == {"erlang", "node", "deno"}

=============================================================================
