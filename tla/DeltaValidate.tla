--------------------------- MODULE DeltaValidate ---------------------------
(***************************************************************************)
(* engine.delta_validate: which of the candidates the compiler accepts.    *)
(* Every batch is instrumented in a copy of the base snapshot and compiled *)
(* there for every target; a rejected batch is followed by a build of the  *)
(* base as it stands and, if that compiles, is halved until the offending  *)
(* candidates stand alone.                                                 *)
(*                                                                         *)
(* The recursion is a stack of batches still to be built, left half first. *)
(* A target rejects a batch exactly if it rejects one of its candidates,   *)
(* or if the workspace itself no longer compiles.                          *)
(***************************************************************************)
EXTENDS Integers, FiniteSets, Sequences, SequencesExt

CONSTANTS
  Candidates,  \* the sequence of candidates, in the order of the catalogs
  Runtimes,    \* the runtimes the mutants will run on
  MayBreak     \* TRUE when the workspace may stop compiling at any time

ASSUME ValidateAssumption ==
  /\ Candidates \in Seq(ToSet(Candidates)) /\ IsInjective(Candidates)
  /\ Runtimes \subseteq {"erlang", "node", "deno", "bun"} /\ Runtimes # {}
  /\ MayBreak \in BOOLEAN

runtime_target(runtime) == IF runtime = "erlang" THEN "erlang" ELSE "javascript"

Targets == {runtime_target(r) : r \in Runtimes}

VARIABLES
  rejects,   \* for each target the candidates its compiler rejects
  healthy,   \* whether the workspace compiles as it stands
  step,      \* where validate_batch is, or "done"
  batches,   \* the batches still to be decided, the current one first
  base,      \* whether the current build is validate_base's
  targets,   \* the targets still to be compiled in the current build
  verdict,   \* what the current build came to
  accepted, rejected,  \* the two lists, as far as they are known
  failure,   \* the error it ends with
  leaked,    \* whether a copy could not be removed
  builds     \* history: how many batches were compiled

vars == <<rejects, healthy, step, batches, base, targets, verdict, accepted,
          rejected, failure, leaked, builds>>

workspace == <<rejects, healthy>>
lists == <<accepted, rejected>>

\* The next batch, if there is one.
Continue(rest) ==
  /\ batches' = rest
  /\ step' = IF rest = <<>> THEN "done" ELSE "duplicate"

FailWith(what) == failure' = what /\ step' = "done"

\* With no candidates at all nothing is built.
Init ==
  /\ rejects \in [Targets -> SUBSET ToSet(Candidates)]
  /\ healthy \in BOOLEAN
  /\ step = IF Candidates = <<>> THEN "done" ELSE "duplicate"
  /\ batches = IF Candidates = <<>> THEN <<>> ELSE <<Candidates>>
  /\ base = FALSE /\ targets = {} /\ verdict = "none"
  /\ accepted = <<>> /\ rejected = <<>>
  /\ failure = "none" /\ leaked = FALSE /\ builds = 0

Batch == Head(batches)

\* The sources of the workspace stay as captured, but what else a build needs
\* may go: from now on the compiler rejects whatever it is given.
Break ==
  /\ MayBreak /\ healthy /\ step # "done"
  /\ healthy' = FALSE
  /\ UNCHANGED <<rejects, step, batches, base, targets, verdict, lists, failure,
                 leaked, builds>>

-----------------------------------------------------------------------------
(* validate_batch *)

\* The base is copied and the batch, nothing for the base, written into it.
Instrument ==
  /\ step = "duplicate"
  /\ step' = "compile" /\ targets' = Targets /\ builds' = builds + 1
  /\ UNCHANGED <<workspace, batches, base, verdict, lists, failure, leaked>>

\* The copy cannot be made; what there was of it is gone again.
DuplicateFails ==
  /\ step = "duplicate"
  /\ FailWith("infrastructure")
  /\ UNCHANGED <<workspace, batches, base, targets, verdict, lists, leaked, builds>>

\* A source cannot be written, the compiler times out, dies or is interrupted.
BuildFails ==
  /\ step = "compile"
  /\ verdict' \in {"infrastructure", "interrupted"}
  /\ step' = "dispose"
  /\ UNCHANGED <<workspace, batches, base, targets, lists, failure, leaked, builds>>

Instrumented == IF base THEN {} ELSE ToSet(Batch)

CompilesFor(target) == healthy /\ Instrumented \cap rejects[target] = {}

\* One target after the other, up to the first that does not compile.
CompileTarget ==
  /\ step = "compile"
  /\ \E target \in targets :
       /\ targets' = targets \ {target}
       /\ verdict' = IF CompilesFor(target) THEN "compiles" ELSE "rejected"
       /\ step' = IF CompilesFor(target) /\ targets' # {} THEN "compile" ELSE "dispose"
  /\ UNCHANGED <<workspace, batches, base, lists, failure, leaked, builds>>

\* Mutant of DisposeFails: a batch that compiles is accepted all the same.
DisposeUnreported ==
  /\ step = "dispose"
  /\ leaked' = TRUE
  /\ IF verdict = "compiles" /\ ~base
     THEN /\ accepted' = accepted \o Batch
          /\ Continue(Tail(batches))
          /\ UNCHANGED failure
     ELSE FailWith("cleanup") /\ UNCHANGED <<accepted, batches>>
  /\ UNCHANGED <<workspace, base, targets, verdict, rejected, builds>>

\* The copy cannot be removed: that is an error whatever the build came to, but
\* an interruption stays the first part of the message.
DisposeFails ==
  /\ step = "dispose"
  /\ leaked' = TRUE
  /\ FailWith(IF verdict = "interrupted" THEN verdict ELSE "cleanup")
  /\ UNCHANGED <<workspace, batches, base, targets, verdict, lists, builds>>

\* The copy is removed, and the build was no answer.
Abort ==
  /\ step = "dispose" /\ verdict \in {"infrastructure", "interrupted"}
  /\ FailWith(verdict)
  /\ UNCHANGED <<workspace, batches, base, targets, verdict, lists, leaked, builds>>

-----------------------------------------------------------------------------
(* delta_validate and validate_base, once the copy is removed *)

Accept ==
  /\ step = "dispose" /\ ~base /\ verdict = "compiles"
  /\ accepted' = accepted \o Batch
  /\ Continue(Tail(batches))
  /\ UNCHANGED <<workspace, base, targets, verdict, rejected, failure, leaked, builds>>

\* Mutant of BuildBase: a lone candidate is blamed without a build of the base.
BlameAtOnce ==
  /\ step = "dispose" /\ ~base /\ verdict = "rejected"
  /\ IF Len(Batch) = 1
     THEN rejected' = rejected \o Batch /\ Continue(Tail(batches)) /\ UNCHANGED base
     ELSE base' = TRUE /\ step' = "duplicate" /\ UNCHANGED <<batches, rejected>>
  /\ UNCHANGED <<workspace, targets, verdict, accepted, failure, leaked, builds>>

\* The batch is rejected: is it the mutants or the workspace?
BuildBase ==
  /\ step = "dispose" /\ ~base /\ verdict = "rejected"
  /\ base' = TRUE
  /\ step' = "duplicate"
  /\ UNCHANGED <<workspace, batches, targets, verdict, lists, failure, leaked, builds>>

BaseRejected ==
  /\ step = "dispose" /\ base /\ verdict = "rejected"
  /\ FailWith("base")
  /\ UNCHANGED <<workspace, batches, base, targets, verdict, lists, leaked, builds>>

Blame ==
  /\ step = "dispose" /\ base /\ verdict = "compiles" /\ Len(Batch) = 1
  /\ base' = FALSE
  /\ rejected' = rejected \o Batch
  /\ Continue(Tail(batches))
  /\ UNCHANGED <<workspace, targets, verdict, accepted, failure, leaked, builds>>

HalveAt(middle) ==
  /\ step = "dispose" /\ base /\ verdict = "compiles" /\ Len(Batch) > 1
  /\ base' = FALSE
  /\ Continue(<<SubSeq(Batch, 1, middle), SubSeq(Batch, middle + 1, Len(Batch))>>
              \o Tail(batches))
  /\ UNCHANGED <<workspace, targets, verdict, lists, failure, leaked, builds>>

\* Mutants of Halve: one candidate at a time; the left half one too short.
Peel == HalveAt(1)
HalveShort == HalveAt(Len(Batch) \div 2 - 1)

Halve == HalveAt(Len(Batch) \div 2)

\* The validation has answered.
Done == step = "done" /\ UNCHANGED vars

Next ==
  \/ Instrument \/ DuplicateFails \/ BuildFails \/ CompileTarget
  \/ DisposeFails \/ Abort
  \/ Accept \/ BuildBase \/ BaseRejected \/ Blame \/ Halve
  \/ Break \/ Done

Spec == Init /\ [][Next]_vars

-----------------------------------------------------------------------------
(* Properties *)

\* The working types; a batch to be built is never the empty one, which would
\* build the base under the name of candidates (validate_base).
TypeOK ==
  /\ rejects \in [Targets -> SUBSET ToSet(Candidates)] /\ healthy \in BOOLEAN
  /\ step \in {"duplicate", "compile", "dispose", "done"}
  /\ batches \in Seq(Seq(ToSet(Candidates)) \ {<<>>})
  /\ base \in BOOLEAN /\ targets \subseteq Targets
  /\ verdict \in {"none", "compiles", "rejected", "infrastructure", "interrupted"}
  /\ accepted \in Seq(ToSet(Candidates)) /\ rejected \in Seq(ToSet(Candidates))
  /\ failure \in {"none", "infrastructure", "interrupted", "cleanup", "base"}
  /\ leaked \in BOOLEAN /\ builds \in Nat

Partition == INSTANCE CompilerPartition
  WITH invalid <- UNION {rejects[t] : t \in Targets},
       answer <- [kind |-> IF step # "done" THEN "none"
                           ELSE IF failure # "none" THEN "error" ELSE "partition",
                  lists |-> IF step = "done" /\ failure = "none"
                            THEN <<accepted, rejected>> ELSE <<>>]

\* delta_validate answers once: an error, or exactly the candidates that compile
\* for every target and those that do not, each in the order of the catalogs,
\* also when the workspace stops compiling between two builds.
PartitionsExactly == Partition!Spec

\* validate_batch: an answer that is not an error leaves no copy behind.
AnswerLeavesNoCopy == step = "done" /\ failure = "none" => ~leaked

Offending == Cardinality(UNION {rejects[t] : t \in Targets})

\* The powers of two, and how often the candidates can be halved.
Power[n \in Nat] == IF n = 0 THEN 1 ELSE 2 * Power[n - 1]
Depth == CHOOSE d \in 0..Len(Candidates) :
           Power[d] >= Len(Candidates) /\ \A e \in 0..d - 1 : Power[e] < Len(Candidates)

\* delta_validate: while the workspace compiles the number of builds grows with
\* the offending candidates and the logarithm of all: each of them is in at most
\* one rejected batch of every size, which costs a second build and leaves at
\* most one sibling to accept.
BisectionLogarithmic ==
  healthy => builds <= IF Offending = 0 THEN 1 ELSE Offending * (3 * Depth + 2)

=============================================================================
