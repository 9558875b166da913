---------------------------- MODULE FoldTheorems ----------------------------
(***************************************************************************)
(* What a loop over a sequence computes, for every sequence.  A proof      *)
(* takes this module with the body of its loop for Op, what the loop       *)
(* starts with for Base, and its loop invariant for Inv: Inv(seq, i, x)    *)
(* says what the result x after the first i elements of seq is.            *)
(***************************************************************************)
EXTENDS SequencesExt, SequenceLemmas

CONSTANTS Op(_, _), Base, Inv(_, _, _)

(* The recursion of FoldLeft over the sets of indices up to m.             *)
LoopStep(seq, m, f) ==
    [s \in SUBSET (1..m) |-> IF s = {} THEN Base ELSE Op(f[s \ {Max(s)}], seq[Max(s)])]

(* Some function satisfies the recursion: one for the indices below m is   *)
(* extended by one call of Op for each set with m, its greatest index.     *)
LEMMA LoopExists ==
    ASSUME NEW seq, NEW n \in Nat
    PROVE  \E f : f = LoopStep(seq, n, f)
<1> DEFINE Wrong == {m \in 1..n : ~ \E f : f = LoopStep(seq, m, f)}
<1>1. \E f : f = LoopStep(seq, 0, f)
  <2>1. 1..0 = {}
    OBVIOUS
  <2>2. [s \in {{}} |-> Base] = LoopStep(seq, 0, [s \in {{}} |-> Base])
    BY <2>1 DEF LoopStep
  <2>. QED
    BY <2>2, Zenon
<1>2. ASSUME NEW m \in 1..n, \E f : f = LoopStep(seq, m - 1, f)
      PROVE  \E f : f = LoopStep(seq, m, f)
  <2>1. PICK f : f = LoopStep(seq, m - 1, f)
    BY <1>2
  <2> DEFINE g == [s \in SUBSET (1..m) |-> IF m \in s THEN Op(f[s \ {m}], seq[m]) ELSE f[s]]
  <2>2. \A s \in SUBSET (1..m) : m \notin s => s \in SUBSET (1..m - 1)
    OBVIOUS
  <2>3. ASSUME NEW s \in SUBSET (1..m), m \in s
        PROVE  g[s] = Op(g[s \ {Max(s)}], seq[Max(s)])
    <3>1. Max(s) = m
      <4>1. m \in Nat /\ \A k \in s : k <= m
        OBVIOUS
      <4>. QED
        BY <2>3, <4>1, MaxUnique, Zenon
    <3>2. s \ {m} \in SUBSET (1..m) /\ m \notin s \ {m}
      OBVIOUS
    <3>. QED
      BY <2>3, <3>1, <3>2
  <2>4. ASSUME NEW s \in SUBSET (1..m), m \notin s, s # {}
        PROVE  g[s] = Op(g[s \ {Max(s)}], seq[Max(s)])
    <3>1. s \in SUBSET (1..m - 1) /\ m - 1 \in Nat
      BY <2>2, <2>4
    <3>2. f[s] = Op(f[s \ {Max(s)}], seq[Max(s)])
      BY <2>1, <2>4, <3>1, Zenon DEF LoopStep
    <3>3. s \ {Max(s)} \in SUBSET (1..m) /\ m \notin s \ {Max(s)}
      BY <2>4
    <3>. QED
      BY <2>4, <3>2, <3>3
  <2>5. g[{}] = Base
    <3>1. f[{}] = Base
      BY <2>1, Zenon DEF LoopStep
    <3>2. {} \in SUBSET (1..m) /\ m \notin {}
      OBVIOUS
    <3>. QED
      BY <3>1, <3>2
  <2>6. g = LoopStep(seq, m, g)
    <3>1. g = [s \in SUBSET (1..m) |-> g[s]]
      OBVIOUS
    <3>2. \A s \in SUBSET (1..m) : g[s] = IF s = {} THEN Base
                                          ELSE Op(g[s \ {Max(s)}], seq[Max(s)])
      BY <2>3, <2>4, <2>5, Zenon
    <3> HIDE DEF g
    <3>. QED
      BY <3>1, <3>2, Zenon DEF LoopStep
  <2>. QED
    BY <2>6, Zenon
<1>3. ASSUME Wrong # {} PROVE FALSE
  <2>1. PICK m \in Wrong : \A k \in Wrong : m <= k
    <3>1. Wrong \in SUBSET (1..n)
      OBVIOUS
    <3> HIDE DEF Wrong
    <3>. QED
      BY <1>3, <3>1, LeastIndex
  <2>2. m \in 1..n /\ ~ \E f : f = LoopStep(seq, m, f)
    BY <2>1, Zenon
  <2>3. m - 1 = 0 \/ (m - 1 \in 1..n /\ ~(m <= m - 1))
    BY <2>2
  <2>4. \E f : f = LoopStep(seq, m - 1, f)
    BY <1>1, <2>1, <2>3, Zenon
  <2>. QED
    BY <1>2, <2>2, <2>4, Zenon
<1>4. n = 0 \/ n \in 1..n
  OBVIOUS
<1>. QED
  BY <1>1, <1>3, <1>4, Zenon

(* The indices up to m, and those before it.                               *)
LEMMA PrefixIndices ==
    ASSUME NEW n \in Nat, NEW m \in 1..n
    PROVE  /\ 1..m \in SUBSET (1..n) /\ 1..m # {}
           /\ Max(1..m) = m /\ (1..m) \ {m} = 1..m - 1
<1>1. 1..m \in SUBSET (1..n) /\ m \in 1..m /\ \A k \in 1..m : k <= m
  OBVIOUS
<1>2. Max(1..m) = m
  BY <1>1, MaxUnique, Zenon
<1>3. (1..m) \ {m} = 1..m - 1
  OBVIOUS
<1>. QED
  BY <1>1, <1>2, <1>3

(* The loop invariant holds of the fold over the whole sequence, and the   *)
(* fold is one of the values that the body keeps to.                       *)
LEMMA FoldInduction ==
    ASSUME NEW Elements, NEW Values, NEW seq \in Seq(Elements),
           Base \in Values,
           \A x \in Values : \A e \in Elements : Op(x, e) \in Values,
           Inv(seq, 0, Base),
           \A i \in 1..Len(seq) : \A x \in Values :
               Inv(seq, i - 1, x) => Inv(seq, i, Op(x, seq[i]))
    PROVE  /\ FoldLeft(Op, Base, seq) \in Values
           /\ Inv(seq, Len(seq), FoldLeft(Op, Base, seq))
<1> DEFINE n == Len(seq)
           loop == CHOOSE f : f = LoopStep(seq, n, f)
           Wrong == {i \in 1..n : ~(loop[1..i] \in Values /\ Inv(seq, i, loop[1..i]))}
<1>1. n \in Nat /\ DOMAIN seq = 1..n /\ \A i \in 1..n : seq[i] \in Elements
  BY LenProperties, ElementOfSeq
<1>2. FoldLeft(Op, Base, seq) = loop[1..n]
  BY <1>1, Zenon DEF FoldLeft, MapThenFoldSet, LoopStep
<1>3. loop = LoopStep(seq, n, loop)
  BY <1>1, LoopExists, Zenon
<1> HIDE DEF loop
<1>4. loop[1..0] = Base
  <2>1. 1..0 = {} /\ {} \in SUBSET (1..n)
    OBVIOUS
  <2>. QED
    BY <1>3, <2>1, Zenon DEF LoopStep
<1>5. ASSUME NEW m \in 1..n PROVE loop[1..m] = Op(loop[1..m - 1], seq[m])
  <2>1. /\ 1..m \in SUBSET (1..n) /\ 1..m # {}
        /\ Max(1..m) = m /\ (1..m) \ {m} = 1..m - 1
    BY <1>1, PrefixIndices, Zenon
  <2>2. loop[1..m] = Op(loop[(1..m) \ {Max(1..m)}], seq[Max(1..m)])
    BY <1>3, <2>1, Zenon DEF LoopStep
  <2>. QED
    BY <2>1, <2>2, Zenon
<1>6. ASSUME Wrong # {} PROVE FALSE
  <2>1. PICK m \in Wrong : \A k \in Wrong : m <= k
    <3>1. Wrong \in SUBSET (1..n)
      OBVIOUS
    <3> HIDE DEF Wrong
    <3>. QED
      BY <1>1, <1>6, <3>1, LeastIndex
  <2>2. m \in 1..n /\ seq[m] \in Elements
    BY <1>1, <2>1
  <2>3. m - 1 = 0 \/ (m - 1 \in 1..n /\ ~(m <= m - 1))
    BY <1>1, <2>2
  <2>4. loop[1..m - 1] \in Values /\ Inv(seq, m - 1, loop[1..m - 1])
    BY <1>4, <2>1, <2>3, Zenon
  <2>5. loop[1..m] \in Values /\ Inv(seq, m, loop[1..m])
    BY <1>5, <2>2, <2>4, Zenon
  <2>. QED
    BY <2>1, <2>5
<1>7. n = 0 \/ n \in 1..n
  BY <1>1
<1>8. loop[1..n] \in Values /\ Inv(seq, n, loop[1..n])
  BY <1>4, <1>6, <1>7, Zenon
<1>. QED
  BY <1>2, <1>8, Zenon
=============================================================================
