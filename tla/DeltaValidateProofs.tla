------------------------ MODULE DeltaValidateProofs ------------------------
(***************************************************************************)
(* Compiler validation answers with the partition, for any sequence of     *)
(* candidates and however builds, copies and removals fail on the way.     *)
(*                                                                         *)
(* The batches still to be decided are slices of the candidates, one after *)
(* the other up to the last candidate; what is before the first slice is   *)
(* decided, and listed.  And a batch is blamed only after a build that can *)
(* have failed for no other reason.                                        *)
(*                                                                         *)
(* The builds are counted against a budget: every batch has one, which the *)
(* halves of a batch share when it is split, less the two builds that led  *)
(* to the split.                                                           *)
(***************************************************************************)
EXTENDS DeltaValidate, SequenceTheorems, WellFoundedInduction, FiniteSetTheorems, TLAPS

Invalid == UNION {rejects[t] : t \in Targets}

\* A compiler rejects a candidate of the batch.
Offends == ToSet(Batch) \cap Invalid # {}

\* The end of the stack is the end of the validation.
Ends ==
  /\ step = "done" /\ failure = "none" => batches = <<>>
  /\ step # "done" => batches # <<>>
  /\ failure # "none" => step = "done"
  /\ leaked => failure # "none"

\* What the builds of the batch and of the base have shown.
Shown ==
  /\ step = "compile" /\ ~base =>
       \A t \in Targets \ targets : ToSet(Batch) \cap rejects[t] = {}
  /\ step = "dispose" /\ verdict = "compiles" =>
       IF base THEN Offends ELSE ~Offends
  /\ step = "dispose" /\ verdict = "rejected" /\ ~base => Offends \/ ~healthy
  /\ step # "done" /\ base => Offends \/ ~healthy

\* The batches are the slices between the cuts.
Slices(cut) ==
  /\ cut \in [1..Len(batches) + 1 -> 0..Len(Candidates)]
  /\ cut[Len(batches) + 1] = Len(Candidates)
  /\ \A k \in 1..Len(batches) :
       /\ Len(batches[k]) = cut[k + 1] - cut[k]
       /\ \A j \in 1..Len(batches[k]) : batches[k][j] = Candidates[cut[k] + j]

Before(n) == {Candidates[i] : i \in 1..n}

\* The candidates before the first cut are listed.
Listed(n) ==
  /\ Partition!Lists(accepted, Before(n) \ Invalid)
  /\ Partition!Lists(rejected, Before(n) \cap Invalid)

Sliced == \E cut : Slices(cut) /\ Listed(cut[1])

Inv == TypeOK /\ Ends /\ Shown /\ Sliced

-----------------------------------------------------------------------------
(* The candidates and the current batch *)

LEMMA CandidatesAre ==
  /\ Len(Candidates) \in Nat /\ DOMAIN Candidates = 1..Len(Candidates)
  /\ \A p, q \in 1..Len(Candidates) : Candidates[p] = Candidates[q] => p = q
  /\ ToSet(Candidates) = Before(Len(Candidates))
<1>1. Len(Candidates) \in Nat /\ DOMAIN Candidates = 1..Len(Candidates)
  BY ValidateAssumption, LenProperties
<1>2. QED
  BY <1>1, ValidateAssumption DEF IsInjective, Before, ToSet

LEMMA BatchIs ==
  ASSUME TypeOK, batches # <<>>
  PROVE  /\ Batch = batches[1] /\ Batch \in Seq(ToSet(Candidates)) /\ Batch # <<>>
         /\ Len(Batch) \in Nat \ {0} /\ DOMAIN Batch = 1..Len(Batch)
         /\ Len(batches) \in Nat \ {0}
         /\ Tail(batches) \in Seq(Seq(ToSet(Candidates)) \ {<<>>})
         /\ Len(Tail(batches)) = Len(batches) - 1
         /\ \A k \in 1..Len(batches) - 1 : Tail(batches)[k] = batches[k + 1]
<1> DEFINE S == Seq(ToSet(Candidates)) \ {<<>>}
<1>1. batches \in Seq(S) /\ batches # <<>>
  BY DEF TypeOK
<1> HIDE DEF S
<1>2. /\ Head(batches) = batches[1] /\ batches[1] \in S
      /\ Len(batches) \in Nat \ {0} /\ Tail(batches) \in Seq(S)
      /\ Len(Tail(batches)) = Len(batches) - 1
      /\ \A k \in 1..Len(batches) - 1 : Tail(batches)[k] = batches[k + 1]
  BY <1>1, EmptySeq, LenProperties, ElementOfSeq, HeadTailProperties
<1>3. Batch \in Seq(ToSet(Candidates)) /\ Batch # <<>>
  BY <1>2 DEF S, Batch
<1>4. Len(Batch) \in Nat \ {0} /\ DOMAIN Batch = 1..Len(Batch)
  BY <1>3, EmptySeq, LenProperties
<1>5. QED
  BY <1>2, <1>3, <1>4 DEF S, Batch

-----------------------------------------------------------------------------
(* Lists *)

LEMMA ListsEmpty == Partition!Lists(<<>>, {})
BY EmptySeq DEF Partition!Lists

\* A list that is followed by a slice of the next candidates.
LEMMA ListsAppend ==
  ASSUME NEW P, NEW d \in 0..Len(Candidates), NEW e \in d..Len(Candidates),
         NEW s, Partition!Lists(s, Before(d) \cap P),
         NEW b \in Seq(P), Len(b) = e - d, \A j \in 1..Len(b) : b[j] = Candidates[d + j]
  PROVE  Partition!Lists(s \o b, Before(e) \cap P)
<1> DEFINE t == s \o b
           n == Len(s)
<1>1. /\ Len(Candidates) \in Nat /\ DOMAIN Candidates = 1..Len(Candidates)
      /\ \A p, q \in 1..Len(Candidates) : Candidates[p] = Candidates[q] => p = q
  BY CandidatesAre
<1>2. s \in Seq(Before(d) \cap P) /\ Before(d) \cap P \subseteq ToSet(s)
      /\ \A i, j \in DOMAIN s, p, q \in DOMAIN Candidates :
           s[i] = Candidates[p] /\ s[j] = Candidates[q] /\ i < j => p < q
  BY DEF Partition!Lists, Partition!ToSet, ToSet
<1>3. s \in Seq(P)
  BY <1>2, SeqDef
<1>4. /\ n \in Nat /\ DOMAIN s = 1..n /\ Len(b) \in Nat /\ DOMAIN b = 1..Len(b)
      /\ \A i \in 1..n : s[i] \in Before(d) \cap P
  BY <1>2, LenProperties, ElementOfSeq
<1>5. /\ t \in Seq(P) /\ Len(t) = n + Len(b) /\ DOMAIN t = 1..(n + (e - d))
      /\ \A i \in 1..(n + Len(b)) : t[i] = IF i <= n THEN s[i] ELSE b[i - n]
  <2>1. /\ t \in Seq(P) /\ Len(t) = n + Len(b)
        /\ \A i \in 1..(n + Len(b)) : t[i] = IF i <= n THEN s[i] ELSE b[i - n]
    BY <1>3, ConcatProperties
  <2>2. QED
    BY <2>1, LenProperties
<1> HIDE DEF t, n
<1>6. \A i \in 1..n : t[i] = s[i] /\ \E p \in 1..d : t[i] = Candidates[p]
  <2>1. ASSUME NEW i \in 1..n PROVE t[i] = s[i] /\ \E p \in 1..d : t[i] = Candidates[p]
    <3>1. i \in 1..(n + Len(b)) /\ i <= n
      BY <1>4
    <3>2. t[i] = s[i]
      BY <1>5, <3>1
    <3>3. s[i] \in Before(d)
      BY <1>4
    <3>4. QED
      BY <3>2, <3>3 DEF Before
  <2>2. QED
    BY <2>1
<1>7. \A j \in 1..(e - d) : t[n + j] = Candidates[d + j]
  <2>1. ASSUME NEW j \in 1..(e - d) PROVE t[n + j] = Candidates[d + j]
    <3> DEFINE i == n + j
    <3>1. i \in 1..(n + Len(b)) /\ ~(i <= n) /\ i - n = j
      BY <1>4
    <3> HIDE DEF i
    <3>2. t[i] = b[j]
      BY <1>5, <3>1
    <3>3. QED
      BY <3>2 DEF i
  <2>2. QED
    BY <2>1
<1>8. \A i \in 1..(n + (e - d)) : i \in 1..n \/ \E j \in 1..(e - d) : i = n + j
  <2>1. ASSUME NEW i \in 1..(n + (e - d)), i \notin 1..n
        PROVE  i - n \in 1..(e - d) /\ i = n + (i - n)
    BY <1>4, <2>1
  <2>2. QED
    BY <2>1
<1>9. \A i \in DOMAIN t : t[i] \in Before(e) \cap P
  <2>1. \A i \in DOMAIN t : t[i] \in P
    BY <1>5, ElementOfSeq
  <2>2. \A i \in 1..n : t[i] \in Before(e)
    BY <1>6 DEF Before
  <2>3. \A j \in 1..(e - d) : t[n + j] \in Before(e)
    BY <1>7 DEF Before
  <2>4. QED
    BY <1>5, <1>8, <2>1, <2>2, <2>3
<1>10. t \in Seq(Before(e) \cap P)
  <2>1. Len(t) \in Nat /\ t \in [1..Len(t) -> Before(e) \cap P]
    BY <1>5, <1>9, LenProperties
  <2>2. QED
    BY <2>1, SeqDef
<1>11. Before(e) \cap P \subseteq ToSet(t)
  <2>1. ASSUME NEW p \in 1..e, Candidates[p] \in P
        PROVE  \E i \in DOMAIN t : t[i] = Candidates[p]
    <3>1. CASE p <= d
      <4>1. Candidates[p] \in ToSet(s)
        <5>1. p \in 1..d
          BY <3>1
        <5>2. Candidates[p] \in Before(d) \cap P
          BY <2>1, <5>1 DEF Before
        <5> HIDE DEF Before
        <5>3. QED
          BY <1>2, <5>2
      <4>2. PICK i \in 1..n : s[i] = Candidates[p]
        BY <1>4, <4>1 DEF ToSet
      <4>3. t[i] = s[i] /\ i \in DOMAIN t
        BY <1>4, <1>5, <1>6, <4>2
      <4>4. QED
        BY <4>2, <4>3
    <3>2. CASE p > d
      <4>1. p - d \in 1..(e - d) /\ d + (p - d) = p
        BY <3>2
      <4>2. t[n + (p - d)] = Candidates[p] /\ n + (p - d) \in DOMAIN t
        BY <1>4, <1>5, <1>7, <4>1
      <4>3. QED
        BY <4>2
    <3>3. QED
      BY <3>1, <3>2
  <2>2. Before(e) \cap P \subseteq {t[i] : i \in DOMAIN t}
    BY <2>1 DEF Before
  <2>3. QED
    BY <2>2 DEF ToSet
<1>12. ASSUME NEW i \in DOMAIN t, NEW j \in DOMAIN t,
              NEW p \in DOMAIN Candidates, NEW q \in DOMAIN Candidates,
              t[i] = Candidates[p], t[j] = Candidates[q], i < j
       PROVE  p < q
  <2>0. i \in 1..(n + (e - d)) /\ j \in 1..(n + (e - d)) /\ n \in Nat
    BY <1>4, <1>5
  <2>1. CASE j \in 1..n
    <3>1. i \in 1..n
      BY <2>0, <2>1, <1>12
    <3>2. QED
      BY <1>2, <1>4, <1>6, <1>12, <2>1, <3>1
  <2>2. CASE j \notin 1..n
    <3>1. PICK l \in 1..(e - d) : j = n + l
      BY <1>8, <2>0, <2>2
    <3>2. d + l \in 1..Len(Candidates) /\ q = d + l
      BY <1>1, <1>7, <1>12, <3>1
    <3>3. CASE i \in 1..n
      <4>1. PICK o \in 1..d : t[i] = Candidates[o]
        BY <1>6, <3>3
      <4>2. o \in 1..Len(Candidates) /\ p \in 1..Len(Candidates)
        BY <1>1
      <4>3. p = o
        BY <1>1, <1>12, <4>1, <4>2
      <4>4. QED
        BY <3>2, <4>1, <4>3
    <3>4. CASE i \notin 1..n
      <4>1. PICK o \in 1..(e - d) : i = n + o
        BY <1>8, <2>0, <3>4
      <4>2. d + o \in 1..Len(Candidates) /\ p = d + o
        BY <1>1, <1>7, <1>12, <4>1
      <4>3. QED
        BY <1>12, <2>0, <3>1, <3>2, <4>1, <4>2
    <3>5. QED
      BY <3>3, <3>4
  <2>3. QED
    BY <2>1, <2>2
<1>13. QED
  <2>1. Partition!Lists(t, Before(e) \cap P)
    BY <1>10, <1>11, <1>12 DEF Partition!Lists, Partition!ToSet, ToSet
  <2>2. QED
    BY <2>1 DEF t

\* A slice without an element of the set adds nothing.
LEMMA BeforeSkips ==
  ASSUME NEW P, NEW d \in 0..Len(Candidates), NEW e \in d..Len(Candidates),
         \A j \in 1..(e - d) : Candidates[d + j] \notin P
  PROVE  Before(e) \cap P = Before(d) \cap P
<1>1. Len(Candidates) \in Nat
  BY CandidatesAre
<1>2. ASSUME NEW i \in 1..e, i \notin 1..d PROVE Candidates[i] \notin P
  <2>1. i - d \in 1..(e - d) /\ d + (i - d) = i
    BY <1>1, <1>2
  <2>2. QED
    BY <2>1
<1>3. 1..d \subseteq 1..e
  BY <1>1
<1>4. QED
  BY <1>2, <1>3 DEF Before

-----------------------------------------------------------------------------
(* The types *)

LEMMA HalvesAre ==
  ASSUME NEW S, NEW b \in Seq(S), NEW m \in 1..(Len(b) - 1)
  PROVE  /\ SubSeq(b, 1, m) \in Seq(S) /\ Len(SubSeq(b, 1, m)) = m
         /\ \A j \in 1..m : SubSeq(b, 1, m)[j] = b[j]
         /\ SubSeq(b, m + 1, Len(b)) \in Seq(S)
         /\ Len(SubSeq(b, m + 1, Len(b))) = Len(b) - m
         /\ \A j \in 1..(Len(b) - m) : SubSeq(b, m + 1, Len(b))[j] = b[m + j]
<1>1. Len(b) \in Nat /\ \A i \in 1..Len(b) : b[i] \in S
  BY LenProperties, ElementOfSeq
<1>2. /\ SubSeq(b, 1, m) \in Seq(S) /\ Len(SubSeq(b, 1, m)) = m
      /\ \A j \in 1..m : SubSeq(b, 1, m)[j] = b[j]
  <2>1. \A i \in 1..m : b[i] \in S
    BY <1>1
  <2>2. /\ SubSeq(b, 1, m) \in Seq(S)
        /\ Len(SubSeq(b, 1, m)) = IF 1 <= m THEN m - 1 + 1 ELSE 0
        /\ \A i \in 1..(m - 1 + 1) : SubSeq(b, 1, m)[i] = b[1 + i - 1]
    BY <2>1, SubSeqProperties
  <2>3. QED
    BY <2>2
<1>3. /\ SubSeq(b, m + 1, Len(b)) \in Seq(S)
      /\ Len(SubSeq(b, m + 1, Len(b))) = Len(b) - m
      /\ \A j \in 1..(Len(b) - m) : SubSeq(b, m + 1, Len(b))[j] = b[m + j]
  <2> DEFINE a == m + 1
  <2>0. a \in 1..Len(b) /\ Len(b) \in 1..Len(b) /\ a <= Len(b) + 1 /\ a = m + 1
    BY <1>1
  <2> HIDE DEF a
  <2>1. \A i \in a..Len(b) : b[i] \in S
    BY <1>1, <2>0
  <2>2. /\ SubSeq(b, a, Len(b)) \in Seq(S)
        /\ Len(SubSeq(b, a, Len(b))) = IF a <= Len(b) THEN Len(b) - a + 1 ELSE 0
        /\ \A i \in 1..(Len(b) - a + 1) : SubSeq(b, a, Len(b))[i] = b[a + i - 1]
    BY <1>1, <2>0, <2>1, SubSeqProperties
  <2>3. Len(b) - a + 1 = Len(b) - m /\ \A i \in 1..(Len(b) - m) : a + i - 1 = m + i
    BY <1>1, <2>0
  <2>4. QED
    BY <2>0, <2>2, <2>3
<1>4. QED
  BY <1>2, <1>3

\* The batches after the current one was halved.
LEMMA HalveIs ==
  ASSUME TypeOK, Ends, Halve
  PROVE  /\ step = "dispose" /\ base /\ verdict = "compiles" /\ base' = FALSE
         /\ UNCHANGED <<workspace, targets, verdict, lists, failure, leaked, builds>>
         /\ step' = "duplicate"
         /\ batches' \in Seq(Seq(ToSet(Candidates)) \ {<<>>})
         /\ Len(batches') = Len(batches) + 1 /\ batches' # <<>>
         /\ \E m \in 1..(Len(Batch) - 1) :
              /\ m = Len(Batch) \div 2
              /\ Len(batches'[1]) = m /\ Len(batches'[2]) = Len(Batch) - m
              /\ \A j \in 1..m : batches'[1][j] = Batch[j]
              /\ \A j \in 1..(Len(Batch) - m) : batches'[2][j] = Batch[m + j]
         /\ \A k \in 2..Len(batches) : batches'[k + 1] = batches[k]
<1> DEFINE m == Len(Batch) \div 2
           left == SubSeq(Batch, 1, m)
           right == SubSeq(Batch, m + 1, Len(Batch))
           S == Seq(ToSet(Candidates)) \ {<<>>}
<1>1. /\ step = "dispose" /\ base /\ verdict = "compiles" /\ Len(Batch) > 1 /\ base' = FALSE
      /\ batches' = <<left, right>> \o Tail(batches)
      /\ step' = IF batches' = <<>> THEN "done" ELSE "duplicate"
      /\ UNCHANGED <<workspace, targets, verdict, lists, failure, leaked, builds>>
  BY DEF Halve, HalveAt, Continue
<1>2. /\ Batch \in Seq(ToSet(Candidates)) /\ Len(Batch) \in Nat \ {0}
      /\ Len(batches) \in Nat \ {0} /\ Tail(batches) \in Seq(S)
      /\ Len(Tail(batches)) = Len(batches) - 1
      /\ \A k \in 1..Len(batches) - 1 : Tail(batches)[k] = batches[k + 1]
  BY <1>1, BatchIs DEF Ends
<1>3. m \in 1..(Len(Batch) - 1) /\ m = Len(Batch) \div 2
  BY <1>1, <1>2
<1> HIDE DEF m
<1>4. /\ left \in Seq(ToSet(Candidates)) /\ Len(left) = m
      /\ \A j \in 1..m : left[j] = Batch[j]
      /\ right \in Seq(ToSet(Candidates)) /\ Len(right) = Len(Batch) - m
      /\ \A j \in 1..(Len(Batch) - m) : right[j] = Batch[m + j]
  BY <1>2, <1>3, HalvesAre
<1> HIDE DEF left, right
<1>5. left \in S /\ right \in S
  <2>1. left # <<>> /\ right # <<>>
    BY <1>2, <1>3, <1>4, EmptySeq
  <2>2. QED
    BY <1>4, <2>1
<1> HIDE DEF S
<1>6. <<left, right>> \in Seq(S) /\ Len(<<left, right>>) = 2
  BY <1>5
<1>7. /\ batches' \in Seq(S) /\ Len(batches') = Len(batches) + 1
      /\ \A k \in 1..(Len(batches) + 1) :
           batches'[k] = IF k <= 2 THEN <<left, right>>[k] ELSE Tail(batches)[k - 2]
  <2>1. /\ <<left, right>> \o Tail(batches) \in Seq(S)
        /\ Len(<<left, right>> \o Tail(batches)) = 2 + (Len(batches) - 1)
        /\ \A k \in 1..(2 + (Len(batches) - 1)) :
             (<<left, right>> \o Tail(batches))[k]
               = IF k <= 2 THEN <<left, right>>[k] ELSE Tail(batches)[k - 2]
    BY <1>2, <1>6, ConcatProperties
  <2>2. 2 + (Len(batches) - 1) = Len(batches) + 1
    BY <1>2
  <2>3. QED
    BY <1>1, <2>1, <2>2
<1>8. batches'[1] = left /\ batches'[2] = right
  BY <1>2, <1>7
<1>9. ASSUME NEW k \in 2..Len(batches)
      PROVE  batches'[k + 1] = batches[k]
  <2>1. /\ k + 1 \in 1..(Len(batches) + 1) /\ ~(k + 1 <= 2) /\ k + 1 - 2 = k - 1
        /\ k - 1 \in 1..Len(batches) - 1 /\ k - 1 + 1 = k
    BY <1>2
  <2>2. batches'[k + 1] = Tail(batches)[k - 1]
    BY <1>7, <2>1
  <2>3. Tail(batches)[k - 1] = batches[k]
    BY <1>2, <2>1
  <2>4. QED
    BY <2>2, <2>3
<1>10. batches' # <<>>
  BY <1>2, <1>7, EmptySeq
<1>11. QED
  BY <1>1, <1>3, <1>4, <1>7, <1>8, <1>9, <1>10 DEF S

\* The steps that end a build without an answer, or without one yet.
Aborts == DuplicateFails \/ BuildFails \/ DisposeFails \/ Abort \/ BaseRejected

LEMMA TypeNext ==
  ASSUME TypeOK, Ends, Next
  PROVE  TypeOK'
<1> USE DEF workspace, lists
<1> DEFINE S == Seq(ToSet(Candidates)) \ {<<>>}
<1>1. CASE Instrument \/ Aborts \/ BuildBase \/ Break \/ Done
  <2>1. UNCHANGED <<batches, rejects, lists>>
    BY <1>1
    DEF Instrument, Aborts, DuplicateFails, BuildFails, DisposeFails, Abort, BaseRejected,
        BuildBase, Break, Done, vars
  <2>2. /\ healthy' \in BOOLEAN /\ step' \in {"duplicate", "compile", "dispose", "done"}
        /\ base' \in BOOLEAN /\ targets' \subseteq Targets /\ leaked' \in BOOLEAN
        /\ verdict' \in {"none", "compiles", "rejected", "infrastructure", "interrupted"}
        /\ failure' \in {"none", "infrastructure", "interrupted", "cleanup", "base"}
    BY <1>1
    DEF Instrument, Aborts, DuplicateFails, BuildFails, DisposeFails, Abort, BaseRejected,
        BuildBase, Break, Done, vars, TypeOK, FailWith
  <2>3. builds' \in Nat
    BY <1>1
    DEF Instrument, Aborts, DuplicateFails, BuildFails, DisposeFails, Abort, BaseRejected,
        BuildBase, Break, Done, vars, TypeOK
  <2>4. QED
    BY <2>1, <2>2, <2>3 DEF TypeOK
<1>2. CASE CompileTarget
  BY <1>2 DEF CompileTarget, TypeOK
<1>3. CASE Accept \/ Blame
  <2>1. step = "dispose" /\ batches # <<>>
    BY <1>3 DEF Accept, Blame, Ends
  <2>2. Batch \in Seq(ToSet(Candidates)) /\ Tail(batches) \in Seq(S)
    BY <2>1, BatchIs
  <2>3. /\ accepted \o Batch \in Seq(ToSet(Candidates))
        /\ rejected \o Batch \in Seq(ToSet(Candidates))
    BY <2>2, ConcatProperties DEF TypeOK
  <2> HIDE DEF S
  <2>4. /\ batches' \in Seq(S) /\ step' \in {"duplicate", "done"} /\ base' \in BOOLEAN
        /\ accepted' \in Seq(ToSet(Candidates)) /\ rejected' \in Seq(ToSet(Candidates))
        /\ UNCHANGED <<rejects, healthy, targets, verdict, failure, leaked, builds>>
    BY <1>3, <2>2, <2>3 DEF Accept, Blame, Continue, TypeOK
  <2>5. QED
    BY <2>4 DEF TypeOK, S
<1>4. CASE Halve
  BY <1>4, HalveIs DEF TypeOK
<1>5. QED
  BY <1>1, <1>2, <1>3, <1>4 DEF Next, Aborts

LEMMA EndsNext ==
  ASSUME TypeOK, Ends, Next
  PROVE  Ends'
<1> USE DEF workspace, lists
<1>1. CASE Halve
  <2>1. step = "dispose" /\ step' = "duplicate" /\ batches' # <<>> /\ UNCHANGED <<failure, leaked>>
    BY <1>1, HalveIs
  <2>2. QED
    BY <2>1 DEF Ends
<1>2. CASE Accept \/ Blame
  <2>1. /\ step = "dispose" /\ UNCHANGED <<failure, leaked>>
        /\ step' = IF batches' = <<>> THEN "done" ELSE "duplicate"
    BY <1>2 DEF Accept, Blame, Continue
  <2>2. failure = "none" /\ ~leaked
    BY <2>1 DEF Ends
  <2>3. QED
    BY <2>1, <2>2 DEF Ends
<1>3. CASE Instrument \/ BuildBase \/ CompileTarget \/ Break \/ Done
  BY <1>3 DEF Instrument, BuildBase, CompileTarget, Break, Done, vars, Ends
<1>4. CASE Aborts
  BY <1>4
  DEF Aborts, DuplicateFails, BuildFails, DisposeFails, Abort, BaseRejected, FailWith, Ends
<1>5. QED
  BY <1>1, <1>2, <1>3, <1>4 DEF Next, Aborts

-----------------------------------------------------------------------------
(* What the builds show *)

LEMMA ShownNext ==
  ASSUME TypeOK, Ends, Shown, Next
  PROVE  Shown'
<1> USE DEF workspace, lists
<1>0. UNCHANGED rejects /\ (healthy' => healthy) /\ Invalid' = Invalid
  BY DEF Next, Instrument, DuplicateFails, BuildFails, DisposeFails, Abort, BaseRejected,
         BuildBase, Break, Done, vars, CompileTarget, Accept, Blame, Halve, HalveAt, Invalid
<1>1. CASE step' = "done"
  BY <1>1 DEF Shown
<1>2. CASE Instrument
  <2>1. UNCHANGED <<batches, base, healthy>> /\ step = "duplicate" /\ step' = "compile"
        /\ targets' = Targets
    BY <1>2 DEF Instrument
  <2>2. Offends' = Offends
    BY <1>0, <2>1 DEF Offends, Batch
  <2>3. QED
    BY <2>1, <2>2 DEF Shown
<1>3. CASE BuildFails
  <2>1. UNCHANGED <<batches, base, healthy>> /\ step = "compile" /\ step' = "dispose"
        /\ verdict' \in {"infrastructure", "interrupted"}
    BY <1>3 DEF BuildFails
  <2>2. Offends' = Offends
    BY <1>0, <2>1 DEF Offends, Batch
  <2>3. QED
    BY <2>1, <2>2 DEF Shown
<1>4. CASE CompileTarget
  <2>1. PICK t \in targets :
          /\ targets' = targets \ {t}
          /\ verdict' = IF CompilesFor(t) THEN "compiles" ELSE "rejected"
          /\ step' = IF CompilesFor(t) /\ targets' # {} THEN "compile" ELSE "dispose"
    BY <1>4 DEF CompileTarget
  <2>2. UNCHANGED <<batches, base, healthy>> /\ step = "compile" /\ t \in Targets
    BY <1>4 DEF CompileTarget, TypeOK
  <2>3. Offends' = Offends /\ Batch' = Batch
    BY <1>0, <2>2 DEF Offends, Batch
  <2>4. CASE base
    <3>1. CompilesFor(t) <=> healthy
      BY <2>4 DEF CompilesFor, Instrumented
    <3>2. QED
      BY <2>1, <2>2, <2>3, <2>4, <3>1 DEF Shown
  <2>5. CASE ~base
    <3>1. CompilesFor(t) <=> healthy /\ ToSet(Batch) \cap rejects[t] = {}
      BY <2>5 DEF CompilesFor, Instrumented
    <3>2. ToSet(Batch) \cap rejects[t] # {} => Offends
      BY <2>2 DEF Offends, Invalid
    <3>3. \A u \in Targets \ targets : ToSet(Batch) \cap rejects[u] = {}
      BY <2>2, <2>5 DEF Shown
    <3>4. CASE CompilesFor(t)
      <4>1. \A u \in Targets \ targets' : ToSet(Batch) \cap rejects[u] = {}
        BY <2>1, <3>1, <3>3, <3>4
      <4>2. targets' = {} => ~Offends
        BY <4>1 DEF Offends, Invalid
      <4>3. QED
        BY <1>0, <2>1, <2>2, <2>3, <2>5, <3>4, <4>1, <4>2 DEF Shown
    <3>5. CASE ~CompilesFor(t)
      BY <2>1, <2>2, <2>3, <2>5, <3>1, <3>2, <3>5 DEF Shown
    <3>6. QED
      BY <3>4, <3>5
  <2>6. QED
    BY <2>2, <2>4, <2>5 DEF TypeOK
<1>5. CASE BuildBase
  <2>1. UNCHANGED <<batches, healthy>> /\ step = "dispose" /\ verdict = "rejected" /\ ~base
        /\ step' = "duplicate"
    BY <1>5 DEF BuildBase
  <2>2. Offends' = Offends
    BY <1>0, <2>1 DEF Offends, Batch
  <2>3. QED
    BY <2>1, <2>2 DEF Shown
<1>6. CASE Accept \/ Blame \/ Halve
  <2>1. step' \in {"duplicate", "done"} /\ ~base'
    BY <1>6 DEF Accept, Blame, Halve, HalveAt, Continue, TypeOK
  <2>2. QED
    BY <2>1 DEF Shown
<1>7. CASE Break \/ Done
  <2>1. UNCHANGED <<batches, base, step, targets, verdict>>
    BY <1>7 DEF Break, Done, vars
  <2>2. Offends' = Offends /\ Batch' = Batch
    BY <1>0, <2>1 DEF Offends, Batch
  <2>3. QED
    BY <1>0, <2>1, <2>2 DEF Shown
<1>8. CASE DuplicateFails \/ DisposeFails \/ Abort \/ BaseRejected
  BY <1>1, <1>8 DEF DuplicateFails, DisposeFails, Abort, BaseRejected, FailWith
<1>9. QED
  BY <1>2, <1>3, <1>4, <1>5, <1>6, <1>7, <1>8 DEF Next

-----------------------------------------------------------------------------
(* The slices *)

LEMMA ListedStays ==
  ASSUME NEW n, Listed(n), UNCHANGED <<rejects, accepted, rejected>>
  PROVE  Listed(n)'
<1>1. Invalid' = Invalid
  BY DEF Invalid
<1>2. QED
  BY <1>1 DEF Listed, Before, Partition!Lists, Partition!ToSet

LEMMA SlicedStays ==
  ASSUME Sliced, UNCHANGED <<rejects, batches, accepted, rejected>>
  PROVE  Sliced'
<1>1. PICK cut : Slices(cut) /\ Listed(cut[1])
  BY DEF Sliced
<1>2. Slices(cut)'
  BY <1>1 DEF Slices
<1>3. Listed(cut[1])'
  BY <1>1, ListedStays
<1>4. QED
  BY <1>2, <1>3 DEF Sliced

\* The first slice was decided: it is listed and leaves the stack.
LEMMA SliceListed ==
  ASSUME TypeOK, batches # <<>>, Sliced, batches' = Tail(batches), UNCHANGED rejects,
         \/ /\ accepted' = accepted \o Batch /\ UNCHANGED rejected
            /\ ToSet(Batch) \cap Invalid = {}
         \/ /\ rejected' = rejected \o Batch /\ UNCHANGED accepted
            /\ ToSet(Batch) \subseteq Invalid
  PROVE  Sliced'
<1>1. PICK cut : Slices(cut) /\ Listed(cut[1])
  BY DEF Sliced
<1> DEFINE n == Len(batches)
           d == cut[1]
           e == cut[2]
<1>0. PICK rest : rest = [k \in 1..n |-> cut[k + 1]]
  OBVIOUS
<1>2. /\ Batch = batches[1] /\ Batch \in Seq(ToSet(Candidates))
      /\ Len(Batch) \in Nat \ {0} /\ DOMAIN Batch = 1..Len(Batch)
      /\ n \in Nat \ {0} /\ Len(batches') = n - 1
      /\ \A k \in 1..n - 1 : batches'[k] = batches[k + 1]
  BY BatchIs
<1>3. Len(Candidates) \in Nat
  BY CandidatesAre
<1>4. /\ d \in 0..Len(Candidates) /\ e \in d..Len(Candidates) /\ Len(Batch) = e - d
      /\ \A j \in 1..Len(Batch) : Batch[j] = Candidates[d + j]
  <2>1. d \in 0..Len(Candidates) /\ e \in 0..Len(Candidates)
    <3>1. 1 \in 1..(Len(batches) + 1) /\ 2 \in 1..(Len(batches) + 1)
      BY <1>2
    <3>2. QED
      BY <1>1, <3>1 DEF Slices
  <2>2. /\ Len(Batch) = e - d
        /\ \A j \in 1..Len(Batch) : Batch[j] = Candidates[d + j]
    BY <1>1, <1>2 DEF Slices
  <2>3. QED
    BY <1>2, <1>3, <2>1, <2>2
<1>5. Slices(rest)'
  <2>1. rest \in [1..n -> 0..Len(Candidates)] /\ rest[n] = Len(Candidates)
    <3>1. ASSUME NEW k \in 1..n PROVE cut[k + 1] \in 0..Len(Candidates)
      <4>1. k + 1 \in 1..(Len(batches) + 1)
        BY <1>2
      <4>2. QED
        BY <1>1, <4>1 DEF Slices
    <3>2. cut[n + 1] = Len(Candidates)
      BY <1>1 DEF Slices
    <3>3. QED
      BY <1>0, <1>2, <3>1, <3>2
  <2>2. ASSUME NEW k \in 1..n - 1
        PROVE  /\ Len(batches'[k]) = rest[k + 1] - rest[k]
               /\ \A j \in 1..Len(batches'[k]) : batches'[k][j] = Candidates[rest[k] + j]
    <3>1. k + 1 \in 1..n /\ k \in 1..n /\ batches'[k] = batches[k + 1]
      BY <1>2
    <3>2. rest[k] = cut[k + 1] /\ rest[k + 1] = cut[k + 1 + 1]
      BY <1>0, <3>1
    <3>3. QED
      BY <1>1, <3>1, <3>2 DEF Slices
  <2>3. n - 1 + 1 = n
    BY <1>2
  <2>4. QED
    BY <1>2, <2>1, <2>2, <2>3 DEF Slices
<1>6. rest[1] = e
  BY <1>0, <1>2
<1>7. Listed(e)'
  <2>0. Invalid' = Invalid
    BY DEF Invalid
  <2> HIDE DEF d, e, n
  <2>1. /\ Partition!Lists(accepted, Before(d) \ Invalid)
        /\ Partition!Lists(rejected, Before(d) \cap Invalid)
    BY <1>1 DEF Listed, d
  <2> DEFINE V == ToSet(Candidates) \ Invalid
  <2>2. \A i \in 0..Len(Candidates) : Before(i) \ Invalid = Before(i) \cap V
    BY CandidatesAre DEF Before
  <2>3. \A j \in 1..(e - d) : Candidates[d + j] \in ToSet(Batch)
    BY <1>2, <1>4 DEF ToSet
  <2>4. CASE /\ accepted' = accepted \o Batch /\ UNCHANGED rejected
             /\ ToSet(Batch) \cap Invalid = {}
    <3>1. Batch \in Seq(V)
      <4>1. \A j \in 1..Len(Batch) : Batch[j] \in V
        BY <1>2, <2>4 DEF ToSet
      <4> HIDE DEF V
      <4>2. Batch \in [1..Len(Batch) -> V]
        BY <1>2, <4>1, LenProperties
      <4>3. QED
        BY <1>2, <4>2, SeqDef
    <3> HIDE DEF V
    <3>2. Partition!Lists(accepted \o Batch, Before(e) \cap V)
      BY <1>4, <2>1, <2>2, <3>1, ListsAppend
    <3>3. Before(e) \cap Invalid = Before(d) \cap Invalid
      BY <1>4, <2>3, <2>4, BeforeSkips
    <3>4. Before(e) \ Invalid = Before(e) \cap V
      BY <1>3, <1>4, <2>2
    <3>5. QED
      BY <2>0, <2>1, <2>4, <3>2, <3>3, <3>4 DEF Listed, Before, Partition!Lists, Partition!ToSet
  <2>5. CASE /\ rejected' = rejected \o Batch /\ UNCHANGED accepted
             /\ ToSet(Batch) \subseteq Invalid
    <3>1. Batch \in Seq(Invalid)
      <4>1. \A j \in 1..Len(Batch) : Batch[j] \in Invalid
        BY <1>2, <2>5 DEF ToSet
      <4>2. Batch \in [1..Len(Batch) -> Invalid]
        BY <1>2, <4>1, LenProperties
      <4>3. QED
        BY <1>2, <4>2, SeqDef
    <3>2. Partition!Lists(rejected \o Batch, Before(e) \cap Invalid)
      BY <1>4, <2>1, <3>1, ListsAppend
    <3>3. Before(e) \cap V = Before(d) \cap V
      <4>1. \A j \in 1..(e - d) : Candidates[d + j] \notin V
        BY <2>3, <2>5
      <4> HIDE DEF V
      <4>2. QED
        BY <1>4, <4>1, BeforeSkips
    <3> HIDE DEF V
    <3>4. Before(e) \ Invalid = Before(d) \ Invalid
      BY <1>3, <1>4, <2>2, <3>3
    <3>5. QED
      BY <2>0, <2>1, <2>5, <3>2, <3>4 DEF Listed, Before, Partition!Lists, Partition!ToSet
  <2>6. QED
    BY <2>4, <2>5
<1>8. QED
  BY <1>5, <1>6, <1>7 DEF Sliced

\* The first slice is cut in two.
LEMMA SliceHalved ==
  ASSUME TypeOK, Ends, Sliced, Halve
  PROVE  Sliced'
<1>1. PICK cut : Slices(cut) /\ Listed(cut[1])
  BY DEF Sliced
<1>2. PICK m \in 1..(Len(Batch) - 1) :
        /\ Len(batches'[1]) = m /\ Len(batches'[2]) = Len(Batch) - m
        /\ \A j \in 1..m : batches'[1][j] = Batch[j]
        /\ \A j \in 1..(Len(Batch) - m) : batches'[2][j] = Batch[m + j]
  BY HalveIs
<1>3. PICK n : n = Len(batches)
  OBVIOUS
<1>4. /\ Len(batches') = n + 1 /\ \A k \in 2..n : batches'[k + 1] = batches[k]
      /\ UNCHANGED <<rejects, lists>>
  BY <1>3, HalveIs DEF workspace, lists
<1>5. /\ Batch = batches[1] /\ Len(Batch) \in Nat \ {0} /\ n \in Nat \ {0}
      /\ Len(Candidates) \in Nat
  BY <1>3, BatchIs, CandidatesAre, HalveIs DEF Ends
<1>6. /\ cut \in [1..n + 1 -> 0..Len(Candidates)] /\ cut[n + 1] = Len(Candidates)
      /\ \A k \in 1..n :
           /\ Len(batches[k]) = cut[k + 1] - cut[k]
           /\ \A j \in 1..Len(batches[k]) : batches[k][j] = Candidates[cut[k] + j]
  BY <1>1, <1>3 DEF Slices
<1>7. PICK finer : finer = [k \in 1..n + 2 |-> IF k = 1 THEN cut[1]
                                             ELSE IF k = 2 THEN cut[1] + m ELSE cut[k - 1]]
  OBVIOUS
<1>8. /\ cut[1] \in 0..Len(Candidates) /\ cut[2] \in 0..Len(Candidates)
      /\ Len(Batch) = cut[2] - cut[1]
      /\ \A j \in 1..Len(Batch) : Batch[j] = Candidates[cut[1] + j]
  <2>1. 1 \in 1..n + 1 /\ 2 \in 1..n + 1 /\ 1 \in 1..n
    BY <1>5
  <2>2. cut[1] \in 0..Len(Candidates) /\ cut[2] \in 0..Len(Candidates)
    BY <1>6, <2>1
  <2>3. /\ Len(batches[1]) = cut[1 + 1] - cut[1]
        /\ \A j \in 1..Len(batches[1]) : batches[1][j] = Candidates[cut[1] + j]
    BY <1>6, <2>1
  <2>4. QED
    BY <1>5, <2>2, <2>3
<1>9. /\ finer[1] = cut[1] /\ finer[2] = cut[1] + m
      /\ \A k \in 3..n + 2 : finer[k] = cut[k - 1]
  BY <1>5, <1>7
<1>10. finer \in [1..n + 2 -> 0..Len(Candidates)] /\ finer[n + 2] = Len(Candidates)
  <2>1. ASSUME NEW k \in 1..n + 2 PROVE finer[k] \in 0..Len(Candidates)
    <3>1. CASE k = 1 \/ k = 2
      BY <1>5, <1>8, <1>9, <3>1
    <3>2. CASE ~(k = 1 \/ k = 2)
      <4>1. k \in 3..n + 2 /\ k - 1 \in 1..n + 1
        BY <1>5, <3>2
      <4>2. QED
        BY <1>6, <1>9, <4>1
    <3>3. QED
      BY <3>1, <3>2
  <2> DEFINE last == n + 2
  <2>2. last \in 3..n + 2 /\ last - 1 = n + 1
    BY <1>5
  <2> HIDE DEF last
  <2>3. finer[last] = cut[n + 1]
    BY <1>9, <2>2
  <2>4. finer \in [1..n + 2 -> 0..Len(Candidates)]
    BY <1>7, <2>1
  <2>5. QED
    BY <1>6, <2>3, <2>4 DEF last
<1>11. ASSUME NEW k \in 1..n + 1
       PROVE  /\ Len(batches'[k]) = finer[k + 1] - finer[k]
              /\ \A j \in 1..Len(batches'[k]) : batches'[k][j] = Candidates[finer[k] + j]
  <2>1. CASE k = 1
    <3>1. Len(batches'[1]) = finer[2] - finer[1]
      BY <1>2, <1>8, <1>9
    <3>2. \A j \in 1..m : j \in 1..Len(Batch) /\ batches'[1][j] = Candidates[finer[1] + j]
      BY <1>2, <1>5, <1>8, <1>9
    <3>3. QED
      BY <1>2, <2>1, <3>1, <3>2
  <2>2. CASE k = 2
    <3>1. finer[3] = cut[2]
      BY <1>5, <1>9
    <3>2. Len(batches'[2]) = finer[3] - finer[2]
      BY <1>2, <1>5, <1>8, <1>9, <3>1
    <3>3. ASSUME NEW j \in 1..(Len(Batch) - m)
          PROVE  batches'[2][j] = Candidates[finer[2] + j]
      <4>1. m + j \in 1..Len(Batch) /\ cut[1] + (m + j) = finer[2] + j
        BY <1>5, <1>8, <1>9
      <4>2. Batch[m + j] = Candidates[cut[1] + (m + j)]
        BY <1>8, <4>1
      <4>3. QED
        BY <1>2, <4>1, <4>2
    <3>4. QED
      BY <1>2, <2>2, <3>2, <3>3
  <2>3. CASE k # 1 /\ k # 2
    <3> DEFINE l == k - 1
    <3>1. /\ l \in 2..n /\ l \in 1..n /\ k = l + 1 /\ k \in 3..n + 2 /\ k + 1 \in 3..n + 2
          /\ k + 1 - 1 = l + 1 /\ k - 1 = l
      BY <1>5, <2>3
    <3> HIDE DEF l
    <3>2. batches'[k] = batches[l] /\ finer[k] = cut[l] /\ finer[k + 1] = cut[l + 1]
      <4>1. batches'[k] = batches[l]
        BY <1>4, <3>1
      <4>2. finer[k] = cut[k - 1] /\ finer[k + 1] = cut[k + 1 - 1]
        BY <1>9, <3>1
      <4>3. QED
        BY <3>1, <4>1, <4>2
    <3>3. QED
      BY <1>6, <3>1, <3>2
  <2>4. QED
    BY <2>1, <2>2, <2>3
<1>12. Slices(finer)'
  <2>1. n + 1 + 1 = n + 2
    BY <1>5
  <2>2. QED
    BY <1>4, <1>10, <1>11, <2>1 DEF Slices
<1>13. Listed(finer[1])'
  <2>1. Listed(cut[1])'
    BY <1>1, <1>4, ListedStays DEF lists
  <2>2. QED
    BY <1>9, <2>1
<1>14. QED
  BY <1>12, <1>13 DEF Sliced

LEMMA SlicedNext ==
  ASSUME TypeOK, Ends, Shown, Sliced, Next
  PROVE  Sliced'
<1> USE DEF workspace, lists
<1>1. CASE UNCHANGED <<batches, rejects, lists>>
  BY <1>1, SlicedStays
<1>2. CASE Accept
  <2>1. /\ step = "dispose" /\ batches' = Tail(batches) /\ UNCHANGED <<rejects, rejected>>
        /\ accepted' = accepted \o Batch /\ verdict = "compiles" /\ ~base
    BY <1>2 DEF Accept, Continue
  <2>2. batches # <<>> /\ ~Offends
    BY <2>1 DEF Ends, Shown
  <2>3. QED
    BY <2>1, <2>2, SliceListed DEF Offends
<1>3. CASE Blame
  <2>1. /\ step = "dispose" /\ batches' = Tail(batches) /\ UNCHANGED <<rejects, accepted>>
        /\ rejected' = rejected \o Batch /\ verdict = "compiles" /\ base /\ Len(Batch) = 1
    BY <1>3 DEF Blame, Continue
  <2>2. batches # <<>> /\ Offends
    BY <2>1 DEF Ends, Shown
  <2>3. ToSet(Batch) \subseteq Invalid
    <3>1. DOMAIN Batch = 1..1
      BY <2>1, <2>2, BatchIs
    <3>2. ToSet(Batch) = {Batch[1]}
      BY <3>1 DEF ToSet
    <3>3. QED
      BY <2>2, <3>2 DEF Offends
  <2>4. QED
    BY <2>1, <2>2, <2>3, SliceListed
<1>4. CASE Halve
  BY <1>4, SliceHalved
<1>5. QED
  BY <1>1, <1>2, <1>3, <1>4
  DEF Next, Instrument, DuplicateFails, BuildFails, DisposeFails, Abort, BaseRejected, BuildBase,
      Break, Done, vars, CompileTarget

-----------------------------------------------------------------------------
(* The invariant *)

LEMMA InvInit == Init => Inv
<1> SUFFICES ASSUME Init PROVE Inv
  OBVIOUS
<1>0. Candidates \in Seq(ToSet(Candidates)) /\ Len(Candidates) \in Nat
  BY ValidateAssumption, CandidatesAre
<1>1. TypeOK
  <2>1. <<Candidates>> \in Seq(Seq(ToSet(Candidates)) \ {<<>>}) \/ Candidates = <<>>
    BY <1>0
  <2>2. batches \in Seq(Seq(ToSet(Candidates)) \ {<<>>})
    BY <2>1, EmptySeq DEF Init
  <2>3. <<>> \in Seq(ToSet(Candidates))
    BY EmptySeq
  <2>4. QED
    BY <2>2, <2>3 DEF Init, TypeOK
<1>2. Ends
  BY DEF Init, Ends
<1>3. Shown
  BY DEF Init, Shown
<1>4. Sliced
  <2>1. Before(0) = {}
    BY DEF Before
  <2>2. Listed(0)
    BY <2>1, ListsEmpty DEF Init, Listed
  <2>3. CASE Candidates = <<>>
    <3> DEFINE cut == [k \in 1..1 |-> 0]
    <3>1. Slices(cut)
      <4>1. batches = <<>> /\ Len(batches) = 0 /\ Len(Candidates) = 0
        BY <2>3 DEF Init
      <4>2. QED
        BY <4>1 DEF Slices
    <3>2. cut[1] = 0
      OBVIOUS
    <3>3. QED
      BY <2>2, <3>1, <3>2 DEF Sliced
  <2>4. CASE Candidates # <<>>
    <3> DEFINE cut == [k \in 1..2 |-> IF k = 1 THEN 0 ELSE Len(Candidates)]
    <3>1. Slices(cut)
      <4>1. batches = <<Candidates>> /\ Len(batches) = 1 /\ batches[1] = Candidates
        BY <2>4 DEF Init
      <4>2. cut \in [1..2 -> 0..Len(Candidates)] /\ cut[1] = 0 /\ cut[2] = Len(Candidates)
        BY <1>0
      <4> HIDE DEF cut
      <4>3. QED
        BY <1>0, <4>1, <4>2 DEF Slices
    <3>2. cut[1] = 0
      OBVIOUS
    <3>3. QED
      BY <2>2, <3>1, <3>2 DEF Sliced
  <2>5. QED
    BY <2>3, <2>4
<1>5. QED
  BY <1>1, <1>2, <1>3, <1>4 DEF Inv

LEMMA InvNext == Inv /\ [Next]_vars => Inv'
<1> SUFFICES ASSUME Inv, [Next]_vars PROVE Inv'
  OBVIOUS
<1>1. CASE Next
  BY <1>1, TypeNext, EndsNext, ShownNext, SlicedNext DEF Inv
<1>2. CASE UNCHANGED vars
  <2>1. Invalid' = Invalid /\ Batch' = Batch
    BY <1>2 DEF vars, Invalid, Batch
  <2>2. Sliced'
    BY <1>2, SlicedStays DEF vars, Inv
  <2>3. (TypeOK /\ Ends)'
    BY <1>2 DEF vars, Inv, TypeOK, Ends
  <2>4. Shown'
    BY <1>2, <2>1 DEF vars, Inv, Shown, Offends
  <2>5. QED
    BY <2>2, <2>3, <2>4 DEF Inv
<1>3. QED
  BY <1>1, <1>2

LEMMA InvHolds == Spec => []Inv
BY InvInit, InvNext, PTL DEF Spec

-----------------------------------------------------------------------------
(* The powers of two *)

\* A nonempty set of natural numbers has a least one.
LEMMA LeastNatural ==
  ASSUME NEW s \in SUBSET Nat, s # {}
  PROVE  \E d \in s : \A e \in s : d <= e
<1> DEFINE less == {ss \in Nat \X Nat : ss[1] < ss[2]}
<1>1. less = OpToRel(<, Nat)
  BY DEF OpToRel
<1>2. IsWellFoundedOn(less, Nat)
  BY <1>1, NatLessThanWellFounded, Zenon
<1> HIDE DEF less
<1>3. PICK d \in s : \A e \in s : ~(<<e, d>> \in less)
  BY <1>2, WFMin
<1>4. ASSUME NEW e \in s PROVE d <= e
  <2>1. <<e, d>> \in Nat \X Nat
    OBVIOUS
  <2>2. ~(e < d)
    BY <1>3, <2>1 DEF less
  <2>3. QED
    BY <2>2
<1>5. QED
  BY <1>4

\* The powers of two up to the n-th.
Powers(g, n) ==
  g \in [0..n -> Nat] /\ g[0] = 1 /\ \A i \in 1..n : g[i] = 2 * g[i - 1]

LEMMA PowersAgree ==
  ASSUME NEW n \in Nat, NEW g, Powers(g, n), NEW m \in n..n + 1, NEW h, Powers(h, m)
  PROVE  g[n] = h[n]
<1> DEFINE bad == {i \in 0..n : g[i] # h[i]}
<1>1. ASSUME bad # {} PROVE FALSE
  <2>0. bad \in SUBSET Nat
    OBVIOUS
  <2>1. PICK d \in bad : \A e \in bad : d <= e
    <3> HIDE DEF bad
    <3>1. QED
      BY <1>1, <2>0, LeastNatural
  <2>2. d # 0 /\ d \in 0..n
    BY <2>1 DEF Powers
  <2>3. d - 1 \in 0..n /\ d - 1 \notin bad /\ d \in 1..n /\ d \in 1..m
    BY <2>1, <2>2
  <2>4. g[d - 1] = h[d - 1]
    BY <2>3
  <2>5. g[d] = 2 * g[d - 1] /\ h[d] = 2 * h[d - 1]
    BY <2>3 DEF Powers
  <2>6. QED
    BY <2>1, <2>4, <2>5
<1>2. QED
  BY <1>1

LEMMA PowersExist ==
  ASSUME NEW n \in Nat
  PROVE  \E g : Powers(g, n)
<1> DEFINE bad == {i \in Nat : ~\E g : Powers(g, i)}
<1>1. ASSUME bad # {} PROVE FALSE
  <2>1. PICK d \in bad : \A e \in bad : d <= e
    BY <1>1, LeastNatural
  <2>2. d # 0
    <3>1. Powers([i \in 0..0 |-> 1], 0)
      BY DEF Powers
    <3>2. QED
      BY <2>1, <3>1
  <2>3. d - 1 \in Nat /\ d \in Nat /\ d - 1 \notin bad
    BY <2>1, <2>2
  <2>4. PICK g : Powers(g, d - 1)
    BY <2>3
  <2>5. PICK h : h = [i \in 0..d |-> IF i = d THEN 2 * g[d - 1] ELSE g[i]]
    OBVIOUS
  <2>6. d - 1 \in 0..d - 1 /\ g[d - 1] \in Nat
    BY <2>3, <2>4 DEF Powers
  <2>7. h \in [0..d -> Nat]
    <3>1. \A i \in 0..d : i = d \/ i \in 0..d - 1
      BY <2>3
    <3>2. \A i \in 0..d - 1 : g[i] \in Nat
      BY <2>4 DEF Powers
    <3>3. QED
      BY <2>5, <2>6, <3>1, <3>2
  <2>8. h[0] = 1
    BY <2>2, <2>3, <2>4, <2>5 DEF Powers
  <2>9. ASSUME NEW i \in 1..d PROVE h[i] = 2 * h[i - 1]
    <3>1. i - 1 \in 0..d /\ i - 1 # d /\ i \in 0..d
      BY <2>3
    <3>2. h[i - 1] = g[i - 1]
      BY <2>5, <3>1
    <3>3. CASE i = d
      BY <2>5, <3>1, <3>2, <3>3
    <3>4. CASE i # d
      <4>1. i \in 1..d - 1
        BY <2>3, <3>4
      <4>2. QED
        BY <2>4, <2>5, <3>1, <3>2, <3>4, <4>1 DEF Powers
    <3>5. QED
      BY <3>3, <3>4
  <2>10. Powers(h, d)
    BY <2>7, <2>8, <2>9 DEF Powers
  <2>11. QED
    BY <2>1, <2>10
<1>2. QED
  BY <1>1

LEMMA PowerIs ==
  /\ Power \in [Nat -> Nat] /\ Power[0] = 1
  /\ \A n \in Nat : Power[n + 1] = 2 * Power[n]
<1> DEFINE G(n) == CHOOSE g : Powers(g, n)
<1>1. ASSUME NEW n \in Nat PROVE Powers(G(n), n)
  BY PowersExist
<1> HIDE DEF G
<1>2. PICK f : f = [n \in Nat |-> G(n)[n]]
  OBVIOUS
<1>3. f \in [Nat -> Nat] /\ f[0] = 1
  <2>1. ASSUME NEW n \in Nat PROVE G(n)[n] \in Nat
    <3>1. n \in 0..n
      OBVIOUS
    <3>2. QED
      BY <1>1, <3>1 DEF Powers
  <2>2. G(0)[0] = 1
    BY <1>1 DEF Powers
  <2>3. QED
    BY <1>2, <2>1, <2>2
<1>4. ASSUME NEW n \in Nat PROVE f[n + 1] = 2 * f[n]
  <2>1. n + 1 \in Nat /\ n + 1 \in 1..n + 1 /\ n + 1 - 1 = n /\ n + 1 \in n..n + 1
    OBVIOUS
  <2>2. Powers(G(n), n) /\ Powers(G(n + 1), n + 1)
    BY <1>1, <2>1
  <2>3. G(n + 1)[n + 1] = 2 * G(n + 1)[n]
    BY <2>1, <2>2 DEF Powers
  <2>4. G(n)[n] = G(n + 1)[n]
    BY <2>1, <2>2, PowersAgree
  <2>5. QED
    BY <1>2, <2>1, <2>3, <2>4
<1>5. f = [n \in Nat |-> IF n = 0 THEN 1 ELSE 2 * f[n - 1]]
  <2>1. ASSUME NEW n \in Nat PROVE f[n] = IF n = 0 THEN 1 ELSE 2 * f[n - 1]
    <3>1. CASE n = 0
      BY <1>3, <3>1
    <3>2. CASE n # 0
      <4>1. n - 1 \in Nat /\ n - 1 + 1 = n
        BY <3>2
      <4>2. QED
        BY <1>4, <3>2, <4>1
    <3>3. QED
      BY <3>1, <3>2
  <2>2. QED
    BY <1>3, <2>1
<1>6. Power = [n \in Nat |-> IF n = 0 THEN 1 ELSE 2 * Power[n - 1]]
  BY <1>5, Zenon DEF Power
<1>7. Power[0] = 1 /\ \A n \in Nat : Power[n + 1] = 2 * Power[n]
  <2>1. Power[0] = 1
    BY <1>6
  <2>2. ASSUME NEW n \in Nat PROVE Power[n + 1] = 2 * Power[n]
    <3>1. n + 1 \in Nat /\ n + 1 # 0 /\ n + 1 - 1 = n
      OBVIOUS
    <3>2. QED
      BY <1>6, <3>1
  <2>3. QED
    BY <2>1, <2>2
<1>8. ASSUME NEW n \in Nat PROVE Power[n] \in Nat
  <2> DEFINE bad == {i \in Nat : Power[i] \notin Nat}
  <2>1. ASSUME bad # {} PROVE FALSE
    <3>1. PICK d \in bad : \A e \in bad : d <= e
      BY <2>1, LeastNatural
    <3>2. d # 0
      BY <1>7, <3>1
    <3>3. d - 1 \in Nat /\ d - 1 \notin bad /\ d - 1 + 1 = d
      BY <3>1, <3>2
    <3>4. Power[d] = 2 * Power[d - 1] /\ Power[d - 1] \in Nat
      BY <1>7, <3>3
    <3>5. QED
      BY <3>1, <3>4
  <2>2. QED
    BY <2>1
<1>9. QED
  BY <1>6, <1>7, <1>8

LEMMA PowerGrows ==
  ASSUME NEW n \in Nat
  PROVE  n < Power[n]
<1> DEFINE bad == {i \in Nat : ~(i < Power[i])}
<1>1. ASSUME bad # {} PROVE FALSE
  <2>1. PICK d \in bad : \A e \in bad : d <= e
    BY <1>1, LeastNatural
  <2>2. d # 0
    BY <2>1, PowerIs
  <2>3. d - 1 \in Nat /\ d - 1 \notin bad /\ d - 1 + 1 = d
    BY <2>1, <2>2
  <2>4. Power[d] = 2 * Power[d - 1] /\ d - 1 < Power[d - 1] /\ Power[d - 1] \in Nat
    BY <2>3, PowerIs
  <2>5. QED
    BY <2>1, <2>3, <2>4
<1>2. QED
  BY <1>1

-----------------------------------------------------------------------------
(* What a batch may cost *)

\* The builds for a batch of up to Power[d] candidates, k of them offending.
Spend(k, d) == IF k = 0 THEN 1 ELSE k * (3 * d + 2)

Bad(b) == Cardinality(ToSet(b) \cap Invalid)

Total == Spend(Bad(Candidates), Depth)

\* The builds the batches from each on may cost.
Levels(d, t) ==
  /\ d \in [1..Len(batches) -> Nat] /\ t \in [1..Len(batches) + 1 -> Nat]
  /\ \A k \in 1..Len(batches) :
       /\ Len(batches[k]) <= Power[d[k]]
       /\ t[k] = t[k + 1] + Spend(Bad(batches[k]), d[k])

\* The builds of the current batch already counted.
Begun == (IF base THEN 1 ELSE 0) + (IF step = "duplicate" THEN 0 ELSE 1)

Within ==
  /\ step = "done" => builds <= Total
  /\ step # "done" => \E d, t : Levels(d, t) /\ builds + t[1] <= Total + Begun

LEMMA SpendIs ==
  ASSUME NEW k \in Nat, NEW d \in Nat
  PROVE  /\ Spend(k, d) \in Nat /\ Spend(k, d) >= 1
         /\ k # 0 => Spend(k, d) >= 2
<1> DEFINE c == 3 * d + 2
<1>1. c \in Nat /\ c >= 2
  OBVIOUS
<1> HIDE DEF c
<1>2. CASE k = 0
  BY <1>2 DEF Spend
<1>3. CASE k # 0
  <2>1. k \in Nat /\ k >= 1
    BY <1>3
  <2>2. k * c \in Nat /\ k * c >= 2
    <3>1. k * c = c + (k - 1) * c
      BY <1>1, <2>1
    <3>2. (k - 1) * c \in Nat
      BY <1>1, <2>1
    <3>3. QED
      BY <1>1, <3>1, <3>2
  <2>3. QED
    BY <1>3, <2>2 DEF Spend, c
<1>4. QED
  BY <1>2, <1>3

\* Halving pays for the two builds that led to it.
LEMMA SpendHalves ==
  ASSUME NEW k \in Nat, NEW l \in Nat, NEW r \in Nat, k = l + r, k # 0, NEW d \in Nat
  PROVE  Spend(l, d) + Spend(r, d) + 2 <= Spend(k, d + 1)
<1> DEFINE c == 3 * d + 2
<1>1. c \in Nat /\ 3 * (d + 1) + 2 = c + 3
  OBVIOUS
<1> HIDE DEF c
<1>2. Spend(k, d + 1) = k * c + k * 3
  <2>1. Spend(k, d + 1) = k * (3 * (d + 1) + 2)
    BY DEF Spend
  <2>2. k * (c + 3) = k * c + k * 3
    BY <1>1
  <2>3. QED
    BY <1>1, <2>1, <2>2
<1>3. k * c = l * c + r * c /\ l * c \in Nat /\ r * c \in Nat
  BY <1>1
<1>4. /\ Spend(l, d) = IF l = 0 THEN 1 ELSE l * c
      /\ Spend(r, d) = IF r = 0 THEN 1 ELSE r * c
  BY DEF Spend, c
<1>5. CASE l = 0
  <2>1. l * c = 0 /\ r # 0
    BY <1>1, <1>5
  <2>2. QED
    BY <1>2, <1>3, <1>4, <1>5, <2>1
<1>6. CASE r = 0
  <2>1. r * c = 0 /\ l # 0
    BY <1>1, <1>6
  <2>2. QED
    BY <1>2, <1>3, <1>4, <1>6, <2>1
<1>7. CASE l # 0 /\ r # 0
  BY <1>2, <1>3, <1>4, <1>7
<1>8. QED
  BY <1>5, <1>6, <1>7

LEMMA CandidatesFinite == IsFiniteSet(ToSet(Candidates))
<1>1. Len(Candidates) \in Nat /\ DOMAIN Candidates = 1..Len(Candidates)
  BY CandidatesAre
<1>2. Candidates \in Surjection(1..Len(Candidates), ToSet(Candidates))
  BY <1>1, ValidateAssumption, LenProperties DEF Surjection, ToSet
<1>3. QED
  BY <1>1, <1>2, FS_Interval, FS_Surjection

LEMMA BadIs ==
  ASSUME NEW b \in Seq(ToSet(Candidates))
  PROVE  Bad(b) \in Nat /\ (Bad(b) = 0 <=> ToSet(b) \cap Invalid = {})
<1>1. ToSet(b) \subseteq ToSet(Candidates)
  <2>1. \A i \in DOMAIN b : b[i] \in ToSet(Candidates)
    BY LenProperties, ElementOfSeq
  <2>2. ToSet(b) = {b[i] : i \in DOMAIN b}
    BY DEF ToSet
  <2>3. QED
    BY <2>1, <2>2
<1>2. IsFiniteSet(ToSet(b) \cap Invalid)
  BY <1>1, CandidatesFinite, FS_Subset
<1>3. QED
  BY <1>2, FS_CardinalityType, FS_EmptySet DEF Bad

\* Whoever rejects, a candidate is in one of the halves.
LEMMA BadHalves ==
  ASSUME NEW b \in Seq(ToSet(Candidates)),
         \A i, j \in 1..Len(b) : b[i] = b[j] => i = j,
         NEW m \in 1..(Len(b) - 1),
         NEW u \in Seq(ToSet(Candidates)), Len(u) = m, \A j \in 1..m : u[j] = b[j],
         NEW v \in Seq(ToSet(Candidates)), Len(v) = Len(b) - m,
         \A j \in 1..(Len(b) - m) : v[j] = b[m + j]
  PROVE  Bad(b) = Bad(u) + Bad(v)
<1>1. /\ Len(b) \in Nat /\ DOMAIN b = 1..Len(b) /\ DOMAIN u = 1..m
      /\ DOMAIN v = 1..(Len(b) - m)
  BY LenProperties
<1>2. ASSUME NEW i \in 1..Len(b), i \notin 1..m
      PROVE  i - m \in 1..(Len(b) - m) /\ m + (i - m) = i
  BY <1>1, <1>2
<1>3. ASSUME NEW j \in 1..(Len(b) - m)
      PROVE  m + j \in 1..Len(b) /\ m + j \notin 1..m
  BY <1>1
<1>4. 1..m \subseteq 1..Len(b)
  BY <1>1
<1>5. ToSet(b) = ToSet(u) \cup ToSet(v)
  <2>1. ASSUME NEW i \in 1..Len(b) PROVE b[i] \in ToSet(u) \cup ToSet(v)
    <3>1. CASE i \in 1..m
      BY <1>1, <3>1 DEF ToSet
    <3>2. CASE i \notin 1..m
      <4>1. v[i - m] = b[i] /\ i - m \in DOMAIN v
        BY <1>1, <1>2, <3>2
      <4>2. QED
        BY <4>1 DEF ToSet
    <3>3. QED
      BY <3>1, <3>2
  <2>2. ToSet(b) \subseteq ToSet(u) \cup ToSet(v)
    <3>1. \A x \in ToSet(b) : \E i \in 1..Len(b) : x = b[i]
      BY <1>1 DEF ToSet
    <3>2. QED
      BY <2>1, <3>1
  <2>3. ToSet(u) \subseteq ToSet(b)
    BY <1>1, <1>4 DEF ToSet
  <2>4. ToSet(v) \subseteq ToSet(b)
    <3>1. \A j \in DOMAIN v : v[j] = b[m + j] /\ m + j \in DOMAIN b
      BY <1>1, <1>3
    <3>2. QED
      BY <3>1 DEF ToSet
  <2>5. QED
    BY <2>2, <2>3, <2>4
<1>6. ToSet(u) \cap ToSet(v) = {}
  BY <1>1, <1>3, <1>4 DEF ToSet
<1>7. ASSUME NEW w \in Seq(ToSet(Candidates)) PROVE IsFiniteSet(ToSet(w) \cap Invalid)
  <2>1. ToSet(w) = {w[i] : i \in DOMAIN w} /\ \A i \in DOMAIN w : w[i] \in ToSet(Candidates)
    BY LenProperties, ElementOfSeq DEF ToSet
  <2>2. ToSet(w) \subseteq ToSet(Candidates)
    BY <2>1
  <2>3. QED
    BY <2>2, CandidatesFinite, FS_Subset
<1>8. PICK U : U = ToSet(u) \cap Invalid
  OBVIOUS
<1>9. PICK V : V = ToSet(v) \cap Invalid
  OBVIOUS
<1>10. IsFiniteSet(U) /\ IsFiniteSet(V) /\ U \cap V = {} /\ ToSet(b) \cap Invalid = U \cup V
  BY <1>5, <1>6, <1>7, <1>8, <1>9
<1>11. Cardinality(U \cup V) = Cardinality(U) + Cardinality(V) - 0
  BY <1>10, FS_Union, FS_EmptySet
<1>12. Cardinality(U) \in Nat /\ Cardinality(V) \in Nat
  BY <1>10, FS_CardinalityType
<1>13. Bad(b) = Cardinality(U \cup V) /\ Bad(u) = Cardinality(U) /\ Bad(v) = Cardinality(V)
  BY <1>8, <1>9, <1>10 DEF Bad
<1>14. QED
  BY <1>11, <1>12, <1>13

LEMMA DepthIs ==
  Depth \in Nat /\ Len(Candidates) <= Power[Depth]
<1> DEFINE s == {d \in Nat : Power[d] >= Len(Candidates)}
<1>1. Len(Candidates) \in Nat
  BY CandidatesAre
<1>2. Power \in [Nat -> Nat] /\ Len(Candidates) < Power[Len(Candidates)]
  BY <1>1, PowerIs, PowerGrows
<1>3. Len(Candidates) \in s /\ s \in SUBSET Nat
  BY <1>1, <1>2
<1>4. PICK d \in s : \A e \in s : d <= e
  <2> HIDE DEF s
  <2>1. QED
    BY <1>3, LeastNatural
<1>5. d \in 0..Len(Candidates) /\ Power[d] >= Len(Candidates)
  BY <1>1, <1>3, <1>4
<1>6. ASSUME NEW e \in 0..d - 1 PROVE Power[e] < Len(Candidates)
  <2>1. e \in Nat /\ e \notin s
    BY <1>4
  <2>2. QED
    BY <1>1, <1>2, <2>1
<1>7. \E x \in 0..Len(Candidates) :
        Power[x] >= Len(Candidates) /\ \A e \in 0..x - 1 : Power[e] < Len(Candidates)
  BY <1>5, <1>6
<1>8. Depth \in 0..Len(Candidates) /\ Power[Depth] >= Len(Candidates)
  BY <1>7 DEF Depth
<1>9. QED
  BY <1>1, <1>2, <1>8

-----------------------------------------------------------------------------
(* The builds stay within what the batches may cost *)

\* The current batch still has its share, and the builds begun for it fit in.
LEMMA Covered ==
  ASSUME Inv, healthy, step # "done",
         NEW d, NEW t, Levels(d, t), builds + t[1] <= Total + Begun, Total \in Nat
  PROVE  /\ builds \in Nat /\ Begun \in Nat /\ d[1] \in Nat /\ t[2] \in Nat
         /\ Bad(Batch) \in Nat /\ t[1] = t[2] + Spend(Bad(Batch), d[1])
         /\ Len(Batch) <= Power[d[1]]
         /\ Begun <= Spend(Bad(Batch), d[1])
         /\ builds + t[2] <= Total
<1>1. /\ batches # <<>> /\ builds \in Nat /\ base \in BOOLEAN
      /\ base => Offends
  BY DEF Inv, TypeOK, Ends, Shown
<1>2. /\ Batch = batches[1] /\ Batch \in Seq(ToSet(Candidates))
      /\ Len(batches) \in Nat \ {0}
  BY <1>1, BatchIs DEF Inv
<1>3. 1 \in 1..Len(batches) /\ 1 \in 1..Len(batches) + 1 /\ 2 \in 1..Len(batches) + 1
  BY <1>2
<1>4. /\ d[1] \in Nat /\ t[1] \in Nat /\ t[2] \in Nat /\ Len(Batch) <= Power[d[1]]
      /\ t[1] = t[1 + 1] + Spend(Bad(Batch), d[1])
  BY <1>2, <1>3 DEF Levels
<1>5. Bad(Batch) \in Nat /\ (Bad(Batch) = 0 <=> ~Offends)
  BY <1>2, BadIs DEF Offends
<1>6. PICK c : c = Spend(Bad(Batch), d[1])
  OBVIOUS
<1>7. c \in Nat /\ c >= 1 /\ (base => c >= 2)
  BY <1>1, <1>4, <1>5, <1>6, SpendIs
<1>8. Begun \in Nat /\ Begun <= c
  BY <1>1, <1>7 DEF Begun
<1>9. QED
  BY <1>1, <1>4, <1>5, <1>6, <1>7, <1>8

LEMMA TotalIs == TypeOK => Total \in Nat
BY ValidateAssumption, BadIs, DepthIs, SpendIs DEF Total

\* The first batch is decided.
LEMMA LevelsTail ==
  ASSUME TypeOK, batches # <<>>, NEW d, NEW t, Levels(d, t),
         batches' = Tail(batches), UNCHANGED rejects
  PROVE  \E e, u : Levels(e, u)' /\ u[1] = t[2]
<1>1. PICK n : n = Len(batches)
  OBVIOUS
<1>2. /\ n \in Nat \ {0} /\ Len(batches') = n - 1
      /\ \A k \in 1..n - 1 : batches'[k] = batches[k + 1]
  BY <1>1, BatchIs
<1>3. /\ d \in [1..n -> Nat] /\ t \in [1..n + 1 -> Nat]
      /\ \A k \in 1..n : Len(batches[k]) <= Power[d[k]]
                         /\ t[k] = t[k + 1] + Spend(Bad(batches[k]), d[k])
  BY <1>1 DEF Levels
<1>4. PICK e : e = [k \in 1..n - 1 |-> d[k + 1]]
  OBVIOUS
<1>5. PICK u : u = [k \in 1..n |-> t[k + 1]]
  OBVIOUS
<1>6. e \in [1..n - 1 -> Nat] /\ u \in [1..n -> Nat]
  <2>1. \A k \in 1..n - 1 : k + 1 \in 1..n
    BY <1>2
  <2>2. \A k \in 1..n : k + 1 \in 1..n + 1
    BY <1>2
  <2>3. QED
    BY <1>3, <1>4, <1>5, <2>1, <2>2
<1>7. \A b : Bad(b)' = Cardinality(ToSet(b)' \cap Invalid)
  BY DEF Bad, Invalid
<1>8. ASSUME NEW k \in 1..n - 1
      PROVE  /\ Len(batches'[k]) <= Power[e[k]]
             /\ u[k] = u[k + 1] + Spend(Cardinality(ToSet(batches'[k]) \cap Invalid), e[k])
  <2>1. k + 1 \in 1..n /\ k \in 1..n /\ batches'[k] = batches[k + 1]
    BY <1>2
  <2>2. e[k] = d[k + 1] /\ u[k] = t[k + 1] /\ u[k + 1] = t[k + 1 + 1]
    BY <1>4, <1>5, <2>1
  <2>3. QED
    BY <1>3, <2>1, <2>2 DEF Bad
<1>9. Invalid' = Invalid
  BY DEF Invalid
<1>10. n - 1 + 1 = n
  BY <1>2
<1>11. Levels(e, u)'
  BY <1>2, <1>6, <1>8, <1>9, <1>10 DEF Levels, Bad, Spend
<1>12. u[1] = t[2]
  BY <1>2, <1>5
<1>13. QED
  BY <1>11, <1>12

\* The batch is halved: both halves together cost two builds less.
LEMMA LevelsHalved ==
  ASSUME Inv, Halve, NEW d, NEW t, Levels(d, t)
  PROVE  \E e, u : Levels(e, u)' /\ u[1] + 2 <= t[1]
<1>1. PICK n : n = Len(batches)
  OBVIOUS
<1>2. PICK m \in 1..(Len(Batch) - 1) :
        /\ m = Len(Batch) \div 2
        /\ Len(batches'[1]) = m /\ Len(batches'[2]) = Len(Batch) - m
        /\ \A j \in 1..m : batches'[1][j] = Batch[j]
        /\ \A j \in 1..(Len(Batch) - m) : batches'[2][j] = Batch[m + j]
  BY HalveIs DEF Inv
<1>3. /\ step = "dispose" /\ verdict = "compiles" /\ base /\ UNCHANGED rejects
      /\ batches' \in Seq(Seq(ToSet(Candidates)) \ {<<>>})
      /\ Len(batches') = n + 1 /\ \A k \in 2..n : batches'[k + 1] = batches[k]
  BY <1>1, HalveIs DEF Inv, workspace
<1>4. /\ Batch = batches[1] /\ Batch \in Seq(ToSet(Candidates)) /\ Len(Batch) \in Nat \ {0}
      /\ n \in Nat \ {0} /\ Offends
  BY <1>1, <1>3, BatchIs DEF Inv, Ends, Shown
<1>5. /\ d \in [1..n -> Nat] /\ t \in [1..n + 1 -> Nat]
      /\ \A k \in 1..n : Len(batches[k]) <= Power[d[k]]
                         /\ t[k] = t[k + 1] + Spend(Bad(batches[k]), d[k])
  BY <1>1 DEF Levels
<1>6. \A i, j \in 1..Len(Batch) : Batch[i] = Batch[j] => i = j
  <2>1. PICK cut : Slices(cut)
    BY DEF Inv, Sliced
  <2>2. 1 \in 1..n /\ 1 \in 1..n + 1 /\ 2 \in 1..n + 1
    BY <1>4
  <2>3. /\ cut[1] \in 0..Len(Candidates) /\ cut[2] \in 0..Len(Candidates)
        /\ Len(Batch) = cut[1 + 1] - cut[1]
        /\ \A j \in 1..Len(Batch) : Batch[j] = Candidates[cut[1] + j]
    BY <1>1, <1>4, <2>1, <2>2 DEF Slices
  <2>4. \A j \in 1..Len(Batch) : cut[1] + j \in 1..Len(Candidates)
    BY <2>3, CandidatesAre
  <2>5. ASSUME NEW i \in 1..Len(Batch), NEW j \in 1..Len(Batch), Batch[i] = Batch[j]
        PROVE  i = j
    <3>1. cut[1] + i = cut[1] + j
      BY <2>3, <2>4, <2>5, CandidatesAre
    <3>2. QED
      BY <2>3, <3>1
  <2>6. QED
    BY <2>5
<1>7. PICK x : x = batches'[1]
  OBVIOUS
<1>8. PICK y : y = batches'[2]
  OBVIOUS
<1>9. x \in Seq(ToSet(Candidates)) /\ y \in Seq(ToSet(Candidates))
  BY <1>3, <1>4, <1>7, <1>8, ElementOfSeq
<1>10. /\ Bad(Batch) \in Nat /\ Bad(x) \in Nat /\ Bad(y) \in Nat
       /\ Bad(Batch) = Bad(x) + Bad(y) /\ Bad(Batch) # 0
  <2>1. /\ Len(x) = m /\ Len(y) = Len(Batch) - m /\ \A j \in 1..m : x[j] = Batch[j]
        /\ \A j \in 1..(Len(Batch) - m) : y[j] = Batch[m + j]
    BY <1>2, <1>7, <1>8
  <2>2. Bad(Batch) = Bad(x) + Bad(y)
    BY <1>4, <1>6, <1>9, <2>1, BadHalves
  <2>3. QED
    BY <1>4, <1>9, <2>2, BadIs DEF Offends
<1>11. PICK f \in Nat : d[1] = f + 1 /\ Len(x) <= Power[f] /\ Len(y) <= Power[f]
  <2>1. d[1] \in Nat /\ Len(Batch) <= Power[d[1]]
    BY <1>4, <1>5
  <2>0. /\ Len(Batch) >= 2 /\ Len(x) = Len(Batch) \div 2
        /\ Len(y) = Len(Batch) - Len(Batch) \div 2
    <3>1. m \in Nat /\ m >= 1 /\ m <= Len(Batch) - 1
      BY <1>4
    <3>2. Len(Batch) >= 2
      BY <1>4, <3>1
    <3>3. Len(x) = m /\ Len(y) = Len(Batch) - m /\ m = Len(Batch) \div 2
      BY <1>2, <1>7, <1>8
    <3>4. QED
      BY <3>2, <3>3
  <2>2. d[1] # 0
    <3>1. d[1] = 0 => Power[d[1]] = 1
      BY PowerIs
    <3>2. QED
      BY <1>4, <2>0, <2>1, <3>1
  <2>3. d[1] - 1 \in Nat /\ d[1] = d[1] - 1 + 1
    BY <2>1, <2>2
  <2>4. Power[d[1] - 1] \in Nat /\ Power[d[1]] = 2 * Power[d[1] - 1]
    BY <2>3, PowerIs
  <2>5. Len(x) <= Power[d[1] - 1] /\ Len(y) <= Power[d[1] - 1]
    <3>1. PICK o \in Nat : o = Power[d[1] - 1]
      BY <2>4
    <3>2. PICK z \in Nat : z = Len(Batch)
      BY <1>4
    <3>3. z <= 2 * o
      BY <2>1, <2>4, <3>1, <3>2
    <3>4. z \div 2 <= o /\ z - z \div 2 <= o
      BY <3>3
    <3>5. QED
      BY <2>0, <3>1, <3>2, <3>4
  <2>6. QED
    BY <2>3, <2>5
<1>12. PICK a \in Nat : a = Spend(Bad(x), f)
  BY <1>10, SpendIs
<1>13. PICK b \in Nat : b = Spend(Bad(y), f)
  BY <1>10, SpendIs
<1>14. t[1] \in Nat /\ t[2] \in Nat /\ a + b + 2 + t[2] <= t[1]
  <2>1. t[1] \in Nat /\ t[2] \in Nat /\ t[1] = t[1 + 1] + Spend(Bad(Batch), d[1])
    BY <1>4, <1>5
  <2>2. a + b + 2 <= Spend(Bad(Batch), d[1])
    BY <1>10, <1>11, <1>12, <1>13, SpendHalves
  <2>3. Spend(Bad(Batch), d[1]) \in Nat
    <3>1. f + 1 \in Nat
      OBVIOUS
    <3>2. QED
      BY <1>10, <1>11, <3>1, SpendIs
  <2>4. QED
    BY <2>1, <2>2, <2>3
<1>15. PICK e : e = [k \in 1..n + 1 |-> IF k <= 2 THEN f ELSE d[k - 1]]
  OBVIOUS
<1>16. PICK u : u = [k \in 1..n + 2 |-> IF k = 1 THEN a + (b + t[2])
                                       ELSE IF k = 2 THEN b + t[2] ELSE t[k - 1]]
  OBVIOUS
<1>17. e \in [1..n + 1 -> Nat] /\ u \in [1..n + 2 -> Nat]
  <2>1. ASSUME NEW k \in 1..n + 1 PROVE e[k] \in Nat
    <3>1. k <= 2 \/ k - 1 \in 1..n
      BY <1>4
    <3>2. QED
      BY <1>5, <1>15, <3>1
  <2>2. ASSUME NEW k \in 1..n + 2 PROVE u[k] \in Nat
    <3>1. k = 1 \/ k = 2 \/ k - 1 \in 1..n + 1
      BY <1>4
    <3>2. QED
      BY <1>5, <1>14, <1>16, <3>1
  <2>3. QED
    BY <1>15, <1>16, <2>1, <2>2
<1>18. /\ e[1] = f /\ e[2] = f /\ u[1] = a + (b + t[2]) /\ u[2] = b + t[2] /\ u[3] = t[2]
  <2>1. /\ 1 \in 1..n + 1 /\ 2 \in 1..n + 1 /\ 1 \in 1..n + 2 /\ 2 \in 1..n + 2
        /\ 3 \in 1..n + 2
    BY <1>4
  <2>2. QED
    BY <1>15, <1>16, <2>1
<1>19. ASSUME NEW k \in 1..n + 1
       PROVE  /\ Len(batches'[k]) <= Power[e[k]]
              /\ u[k] = u[k + 1] + Spend(Cardinality(ToSet(batches'[k]) \cap Invalid), e[k])
  <2>1. CASE k = 1
    <3>1. Bad(x) = Cardinality(ToSet(batches'[1]) \cap Invalid)
      BY <1>7 DEF Bad
    <3>2. u[1] = u[2] + a
      BY <1>14, <1>18
    <3>3. QED
      BY <1>7, <1>11, <1>12, <1>18, <2>1, <3>1, <3>2
  <2>2. CASE k = 2
    <3>1. Bad(y) = Cardinality(ToSet(batches'[2]) \cap Invalid)
      BY <1>8 DEF Bad
    <3>2. u[2] = u[3] + b
      BY <1>14, <1>18
    <3>3. QED
      BY <1>8, <1>11, <1>13, <1>18, <2>2, <3>1, <3>2
  <2>3. CASE k # 1 /\ k # 2
    <3>1. PICK l \in 2..n : k = l + 1
      <4>1. k - 1 \in 2..n /\ k = k - 1 + 1
        BY <1>4, <2>3
      <4>2. QED
        BY <4>1
    <3>2. l \in 1..n /\ l + 1 \in 1..n + 1 /\ ~(l + 1 <= 2) /\ l + 1 - 1 = l
      BY <1>4
    <3>3. e[k] = d[l]
      BY <1>15, <3>1, <3>2
    <3>4. u[k] = t[l] /\ u[k + 1] = t[l + 1]
      <4>1. /\ k \in 1..n + 2 /\ k # 1 /\ k # 2 /\ k - 1 = l
            /\ k + 1 \in 1..n + 2 /\ k + 1 # 1 /\ k + 1 # 2 /\ k + 1 - 1 = l + 1
        BY <1>4, <3>1
      <4>2. QED
        BY <1>16, <4>1
    <3>5. batches'[k] = batches[l]
      BY <1>3, <3>1
    <3>6. QED
      BY <1>5, <3>2, <3>3, <3>4, <3>5 DEF Bad
  <2>4. QED
    BY <2>1, <2>2, <2>3
<1>20. Invalid' = Invalid
  BY <1>3 DEF Invalid
<1>21. n + 1 + 1 = n + 2
  BY <1>4
<1>22. Levels(e, u)'
  BY <1>3, <1>17, <1>19, <1>20, <1>21 DEF Levels, Bad, Spend
<1>23. u[1] + 2 <= t[1]
  BY <1>14, <1>18
<1>24. QED
  BY <1>22, <1>23

LEMMA WithinInit == Init => Within
<1> SUFFICES ASSUME Init PROVE Within
  OBVIOUS
<1>1. TypeOK /\ builds = 0 /\ ~base
  BY InvInit DEF Init, Inv
<1>2. Total \in Nat
  BY <1>1, TotalIs
<1>3. CASE step = "done"
  BY <1>1, <1>2, <1>3 DEF Within
<1>4. CASE step # "done"
  <2>1. /\ batches = <<Candidates>> /\ Len(batches) = 1 /\ batches[1] = Candidates
        /\ step = "duplicate"
    BY <1>4 DEF Init
  <2>2. PICK d : d = [k \in 1..1 |-> Depth]
    OBVIOUS
  <2>3. PICK t : t = [k \in 1..2 |-> IF k = 1 THEN Total ELSE 0]
    OBVIOUS
  <2>4. d[1] = Depth /\ t[1] = Total /\ t[2] = 0 /\ t \in [1..2 -> Nat] /\ d \in [1..1 -> Nat]
    BY <1>2, <2>2, <2>3, DepthIs
  <2>5. Levels(d, t)
    BY <1>2, <2>1, <2>4, DepthIs DEF Levels, Total
  <2>6. builds + t[1] <= Total + Begun
    BY <1>1, <1>2, <2>1, <2>4 DEF Begun
  <2>7. QED
    BY <1>4, <2>5, <2>6 DEF Within
<1>5. QED
  BY <1>3, <1>4

LEMMA WithinNext ==
  ASSUME Inv, Inv', Next, healthy, Within, healthy'
  PROVE  Within'
<1> USE DEF workspace, lists
<1>1. UNCHANGED rejects /\ Invalid' = Invalid
  BY DEF Next, Instrument, DuplicateFails, BuildFails, DisposeFails, Abort, BaseRejected,
         BuildBase, Break, Done, vars, CompileTarget, Accept, Blame, Halve, HalveAt, Invalid
<1>2. Total' = Total /\ Total \in Nat
  BY <1>1, TotalIs DEF Total, Bad, Spend, Inv
<1>3. CASE Done
  BY <1>2, <1>3 DEF Done, vars, Within
<1>4. ASSUME step # "done" PROVE Within'
  <2>1. PICK d, t : Levels(d, t) /\ builds + t[1] <= Total + Begun
    BY <1>4 DEF Within
  <2>2. /\ builds \in Nat /\ Begun \in Nat /\ d[1] \in Nat /\ t[2] \in Nat
        /\ Bad(Batch) \in Nat /\ t[1] = t[2] + Spend(Bad(Batch), d[1])
        /\ Begun <= Spend(Bad(Batch), d[1]) /\ builds + t[2] <= Total
    BY <1>2, <1>4, <2>1, Covered
  <2>3. t[1] \in Nat
    <3>1. Spend(Bad(Batch), d[1]) \in Nat
      BY <2>2, SpendIs
    <3>2. QED
      BY <2>2, <3>1
  <2>4. CASE Instrument \/ BuildBase \/ CompileTarget \/ BuildFails
    <3>1. UNCHANGED batches /\ step' # "done"
      BY <2>4 DEF Instrument, BuildBase, CompileTarget, BuildFails
    <3>2. Levels(d, t)'
      BY <1>1, <2>1, <3>1 DEF Levels, Bad, Spend
    <3>3. PICK c \in {0, 1} : builds' = builds + c /\ Begun' = Begun + c
      BY <2>2, <2>4 DEF Instrument, BuildBase, CompileTarget, BuildFails, Begun
    <3>4. builds' + t[1] <= Total + Begun'
      BY <1>2, <2>1, <2>2, <2>3, <3>3
    <3>5. QED
      BY <1>2, <3>1, <3>2, <3>4 DEF Within
  <2>5. CASE DuplicateFails \/ DisposeFails \/ Abort \/ BaseRejected
    <3>1. step' = "done" /\ builds' = builds
      BY <2>5 DEF DuplicateFails, DisposeFails, Abort, BaseRejected, FailWith
    <3>2. QED
      BY <1>2, <2>2, <3>1 DEF Within
  <2>6. CASE Accept \/ Blame
    <3>1. /\ batches' = Tail(batches) /\ builds' = builds /\ batches # <<>>
          /\ step' = IF batches' = <<>> THEN "done" ELSE "duplicate"
      BY <1>4, <2>6 DEF Accept, Blame, Continue, Inv, Ends
    <3>2. PICK e, u : Levels(e, u)' /\ u[1] = t[2]
      BY <1>1, <2>1, <3>1, LevelsTail DEF Inv
    <3>3. ~base'
      BY <2>6 DEF Accept, Blame
    <3>4. step' # "done" => Begun' = 0
      BY <3>1, <3>3 DEF Begun
    <3>5. QED
      BY <1>2, <2>2, <3>1, <3>2, <3>4 DEF Within
  <2>7. CASE Halve
    <3>1. step' = "duplicate" /\ builds' = builds /\ ~base' /\ base /\ step = "dispose"
      BY <2>7, HalveIs DEF Inv
    <3>2. PICK e, u : Levels(e, u)' /\ u[1] + 2 <= t[1]
      BY <2>1, <2>7, LevelsHalved
    <3>3. Begun' = 0 /\ Begun = 2
      BY <3>1 DEF Begun
    <3>4. u[1] \in Nat
      <4>1. Len(batches)' \in Nat
        BY LenProperties DEF Inv, TypeOK
      <4>2. QED
        BY <3>2, <4>1 DEF Levels
    <3>5. builds' + u[1] <= Total' + Begun'
      BY <1>2, <2>1, <2>2, <2>3, <3>1, <3>2, <3>3, <3>4
    <3>6. QED
      BY <3>1, <3>2, <3>5 DEF Within
  <2>8. CASE Break
    BY <2>8 DEF Break
  <2>9. QED
    BY <1>3, <2>4, <2>5, <2>6, <2>7, <2>8 DEF Next
<1>5. CASE step = "done"
  <2>1. Done
    BY <1>5 DEF Next, Instrument, DuplicateFails, BuildFails, DisposeFails, Abort, BaseRejected,
         BuildBase, Break, CompileTarget, Accept, Blame, Halve, HalveAt
  <2>2. QED
    BY <1>3, <2>1
<1>6. QED
  BY <1>4, <1>5

LEMMA HealthyBefore ==
  ASSUME TypeOK, Next, healthy'
  PROVE  healthy
BY DEF Next, Instrument, DuplicateFails, BuildFails, DisposeFails, Abort, BaseRejected,
       BuildBase, Break, Done, vars, CompileTarget, Accept, Blame, Halve, HalveAt, workspace

\* While the workspace compiles, every build is within the budget.
Budget == healthy => Within

LEMMA BudgetHolds == Spec => []Budget
<1>1. Init => Budget
  BY WithinInit DEF Budget
<1>2. Inv /\ Inv' /\ Budget /\ [Next]_vars => Budget'
  <2> SUFFICES ASSUME Inv, Inv', Budget, [Next]_vars, healthy' PROVE Within'
    BY DEF Budget
  <2>1. CASE Next
    BY <2>1, HealthyBefore, WithinNext DEF Budget, Inv
  <2>2. CASE UNCHANGED vars
    <3>1. healthy /\ Within
      BY <2>2 DEF vars, Budget
    <3>2. QED
      <4>1. UNCHANGED <<rejects, step, batches, base, builds>>
        BY <2>2 DEF vars
      <4>2. Total' = Total
        BY <4>1 DEF Total, Bad, Spend, Invalid
      <4>3. Begun' = Begun
        BY <4>1 DEF Begun
      <4>4. ASSUME NEW d, NEW t, Levels(d, t) PROVE Levels(d, t)'
        <5>1. Invalid' = Invalid
          BY <4>1 DEF Invalid
        <5>2. QED
          BY <4>1, <4>4, <5>1 DEF Levels, Bad, Spend
      <4>5. CASE step = "done"
        BY <3>1, <4>1, <4>2, <4>5 DEF Within
      <4>6. CASE step # "done"
        <5>1. PICK d, t : Levels(d, t) /\ builds + t[1] <= Total + Begun
          BY <3>1, <4>6 DEF Within
        <5>2. Levels(d, t)' /\ builds' + t[1] <= Total' + Begun'
          BY <4>1, <4>2, <4>3, <4>4, <5>1
        <5>3. QED
          BY <4>1, <4>6, <5>2 DEF Within
      <4>7. QED
        BY <4>5, <4>6
  <2>3. QED
    BY <2>1, <2>2
<1>3. QED
  BY <1>1, <1>2, InvHolds, PTL DEF Spec

-----------------------------------------------------------------------------
(* The results *)

\* engine.delta_validate keeps its types: a batch to be built is never the empty
\* one, however often a sequence of candidates was halved.
THEOREM TypeCorrect == Spec => []TypeOK
<1>1. Inv => TypeOK
  BY DEF Inv
<1>2. QED
  BY <1>1, InvHolds, PTL

\* engine.validate_batch: when delta_validate answers with a partition, every
\* copy it made was removed.
THEOREM NoCopyLeft == Spec => []AnswerLeavesNoCopy
<1>1. Inv => AnswerLeavesNoCopy
  BY DEF Inv, Ends, AnswerLeavesNoCopy
<1>2. QED
  BY <1>1, InvHolds, PTL

\* At the end everything is before the first cut.
LEMMA DoneLists ==
  ASSUME Inv, step = "done", failure = "none"
  PROVE  /\ Partition!Lists(accepted, ToSet(Candidates) \ Invalid)
         /\ Partition!Lists(rejected, ToSet(Candidates) \cap Invalid)
<1>1. PICK cut : Slices(cut) /\ Listed(cut[1])
  BY DEF Inv, Sliced
<1>2. Len(batches) = 0
  BY DEF Inv, Ends
<1>3. cut[1] = Len(Candidates)
  BY <1>1, <1>2 DEF Slices
<1>4. QED
  BY <1>1, <1>3, CandidatesAre DEF Listed

\* The answer there is so far.
Said == [kind |-> IF step # "done" THEN "none"
                  ELSE IF failure # "none" THEN "error" ELSE "partition",
         lists |-> IF step = "done" /\ failure = "none"
                   THEN <<accepted, rejected>> ELSE <<>>]

Answered ==
  /\ step # "done" => Said = Partition!None
  /\ step = "done" /\ failure # "none" => Said = Partition!Error
  /\ step = "done" /\ failure = "none" => Partition!IsPartition(Said)

LEMMA InvAnswered == Inv => Answered
<1> SUFFICES ASSUME Inv PROVE Answered
  OBVIOUS
<1>1. ASSUME step = "done", failure = "none" PROVE Partition!IsPartition(Said)
  <2>1. /\ Said.kind = "partition" /\ Len(Said.lists) = 2
        /\ Said.lists[1] = accepted /\ Said.lists[2] = rejected
    BY <1>1 DEF Said
  <2>2. QED
    BY <1>1, <2>1, DoneLists DEF Partition!IsPartition, Partition!ToSet, ToSet, Invalid
<1>2. QED
  BY <1>1 DEF Answered, Said, Partition!None, Partition!Error

\* engine.delta_validate implements CompilerPartition: it answers once, with an
\* error or with exactly the candidates every target's compiler accepts and
\* those one rejects, in the order of the catalogs, for every sequence of
\* candidates, also when the workspace stops compiling on the way.
THEOREM ValidationPartitions == Spec => PartitionsExactly
<1>1. Init => Partition!Init
  <2> SUFFICES ASSUME Init PROVE Partition!Init
    OBVIOUS
  <2>1. Answered
    BY InvInit, InvAnswered
  <2>2. step = (IF Candidates = <<>> THEN "done" ELSE "duplicate") /\ failure = "none"
    BY DEF Init
  <2>3. IF Candidates = <<>> THEN Partition!IsPartition(Said) ELSE Said = Partition!None
    BY <2>1, <2>2 DEF Answered
  <2>4. QED
    BY <2>3 DEF Partition!Init, Said
<1>2. ASSUME Answered, Answered', [Next]_vars
      PROVE  [Partition!Next]_<<Invalid, Said>>
  <2>1. Invalid' = Invalid
    BY <1>2
    DEF Next, Instrument, DuplicateFails, BuildFails, DisposeFails, Abort, BaseRejected,
        BuildBase, Break, Done, vars, CompileTarget, Accept, Blame, Halve, HalveAt, Invalid,
        workspace
  <2>2. CASE step = "done"
    <3>1. UNCHANGED <<step, failure, accepted, rejected>>
      BY <1>2, <2>2
      DEF Next, Instrument, DuplicateFails, BuildFails, DisposeFails, Abort, BaseRejected,
          BuildBase, Break, Done, vars, lists, CompileTarget, Accept, Blame, Halve, HalveAt
    <3>2. QED
      BY <2>1, <3>1 DEF Said
  <2>3. CASE step # "done" /\ step' # "done"
    BY <2>1, <2>3 DEF Said
  <2>4. CASE step # "done" /\ step' = "done"
    <3>1. Said = Partition!None
      BY <1>2, <2>4 DEF Answered
    <3>2. Said' = Partition!Error \/ Partition!IsPartition(Said)'
      BY <1>2, <2>4 DEF Answered, Partition!Error
    <3>3. Partition!Next
      BY <2>1, <3>1, <3>2 DEF Partition!Next, Said, Invalid, Partition!IsPartition,
         Partition!Error
    <3>4. QED
      BY <3>3
  <2>5. QED
    BY <2>2, <2>3, <2>4
<1>3. QED
  BY <1>1, <1>2, InvHolds, InvAnswered, PTL
  DEF Spec, PartitionsExactly, Partition!Spec, Invalid, Said

\* engine.delta_validate: while the workspace compiles, the builds for any number
\* of candidates are at most 3 * Depth + 2 for each offending one, Depth being
\* the logarithm of the candidates, and a single one when none offends; builds
\* of the base and of a batch that fails on the way are counted.
THEOREM BuildsLogarithmic == Spec => []BisectionLogarithmic
<1>1. Inv /\ Budget => BisectionLogarithmic
  <2> SUFFICES ASSUME Inv, Budget, healthy
               PROVE  builds <= IF Offending = 0 THEN 1 ELSE Offending * (3 * Depth + 2)
    BY DEF BisectionLogarithmic
  <2>0. Total = IF Offending = 0 THEN 1 ELSE Offending * (3 * Depth + 2)
    <3>1. rejects \in [Targets -> SUBSET ToSet(Candidates)]
      BY DEF Inv, TypeOK
    <3>2. ToSet(Candidates) \cap Invalid = Invalid
      BY <3>1 DEF Invalid
    <3>3. Bad(Candidates) = Offending
      BY <3>2 DEF Bad, Invalid, Offending
    <3>4. QED
      BY <3>3 DEF Total, Spend
  <2>1. Within /\ Total \in Nat
    BY TotalIs DEF Budget, Inv
  <2>2. builds <= Total
    <3>1. CASE step = "done"
      BY <2>1, <3>1 DEF Within
    <3>2. CASE step # "done"
      <4>1. PICK d, t : Levels(d, t) /\ builds + t[1] <= Total + Begun
        BY <2>1, <3>2 DEF Within
      <4>2. builds \in Nat /\ t[2] \in Nat /\ builds + t[2] <= Total
        BY <2>1, <3>2, <4>1, Covered
      <4>3. QED
        BY <2>1, <4>2
    <3>3. QED
      BY <3>1, <3>2
  <2>3. QED
    BY <2>0, <2>2
<1>2. QED
  BY <1>1, InvHolds, BudgetHolds, PTL

=============================================================================
