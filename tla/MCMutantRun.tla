---------------------------- MODULE MCMutantRun ----------------------------
(* Small instances of MutantRun for TLC. *)
EXTENDS MutantRun

CONSTANTS m1, m2, m3, erlang, node, t1, t2

Input(digest, execution) ==
  [digest |-> digest, command |-> "gleam test", timeout |-> 10, execution |-> execution]

\* Two runs of one source differ in the environment only.
TwoContexts == {Input("d", "c1"), Input("d", "c2")}
OtherInput == {Input("d", "c2")}

ThreeMutants == <<m1, m2, m3>>
OneRuntime == <<erlang>>
TwoRuntimes == <<erlang, node>>
TwoTests == {t1, t2}

\* In the first context t2 kills m1, which t2 is not known to reach; in the
\* second it does so on node only.  t1 kills m2; nothing kills m3 in the first
\* context, t2 does in the second.
FailingTests ==
  [i \in Inputs |-> [m \in Mutants |-> [r \in Runtimes |->
     CASE m = m1 -> IF i.execution = "c1" \/ r = node THEN {t2} ELSE {}
       [] m = m2 -> {t1}
       [] OTHER -> IF i.execution = "c1" THEN {} ELSE {t2}]]]

\* m1 and m2 are reached by t1; nothing known reaches m3.
ReachingTests ==
  [m \in Mutants |-> [r \in Runtimes |-> IF m = m3 THEN {} ELSE {t1}]]

\* In the second context m1 never parts on erlang; m3 does, but the walk loses
\* it on both runtimes.
NothingDischarged == [i \in Inputs |-> [r \in Runtimes |-> {}]]
WalkDischarged == [i \in Inputs |-> [r \in Runtimes |->
  {m \in Mutants : i.execution = "c2" /\ (m = m3 \/ (m = m1 /\ r = erlang))}]]
WalkLost == [i \in Inputs |-> [r \in Runtimes |->
  {m \in Mutants : i.execution = "c2" /\ m = m3}]]

Ends == {-1, 143}
=============================================================================
