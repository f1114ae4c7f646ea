-------------------------- MODULE MCWorkspaceLock --------------------------
(***************************************************************************)
(* Instances of WorkspaceLock for TLC: two or three invocations, the first *)
(* on the Erlang host and the last on the JavaScript host, with a deadline *)
(* one sleep away.                                                         *)
(***************************************************************************)
EXTENDS WorkspaceLock

\* One sleep fits before the deadline.
OneSleep == [p \in Procs |-> 1]

=============================================================================
