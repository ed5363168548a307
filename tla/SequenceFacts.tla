---------------------------- MODULE SequenceFacts ----------------------------
(***************************************************************************)
(* Induction over the natural numbers and what it says of Selection.tla.   *)
(* The induction principles take a set where those of the library take an  *)
(* operator: `the numbers for which it holds' is a set the provers can     *)
(* work with.                                                              *)
(***************************************************************************)
EXTENDS Selection, SequencesExt, SequenceTheorems, WellFoundedInduction, TLAPS

(* A set of natural numbers that is not empty has a least element.         *)
LEMMA Least ==
  ASSUME NEW T \in SUBSET Nat, T # {}
  PROVE  \E x \in T : \A y \in T : x <= y
  <1>1. PICK x \in T : \A y \in T : ~(<<y, x>> \in OpToRel(<, Nat))
    BY NatLessThanWellFounded, WFMin
  <1>2. ASSUME NEW y \in T, y < x PROVE FALSE
    <2>1. <<y, x>> \in Nat \X Nat /\ y < x
      BY <1>2
    <2>2. <<y, x>> \in OpToRel(<, Nat)
      BY <2>1 DEF OpToRel
    <2> QED
      BY <1>1, <2>2
  <1> QED
    BY <1>2

(* A set of numbers that begins with 0 and goes on up to n.                *)
LEMMA UpTo ==
  ASSUME NEW n \in Nat, NEW T, 0 \in T, \A i \in 0 .. n - 1 : i \in T => i + 1 \in T
  PROVE  \A i \in 0 .. n : i \in T
  <1> SUFFICES ASSUME NEW i \in 0 .. n, i \notin T PROVE FALSE
    OBVIOUS
  <1> DEFINE D == {j \in 0 .. n : j \notin T}
  <1>1. D \in SUBSET Nat /\ D # {}
    OBVIOUS
  <1> HIDE DEF D
  <1>2. PICK m \in D : \A j \in D : m <= j
    BY <1>1, Least
  <1>3. m \in 0 .. n /\ m \notin T
    BY DEF D
  <1>4. m - 1 \in 0 .. n - 1 /\ m - 1 \notin D
    BY <1>1, <1>2, <1>3
  <1>5. m - 1 \in T
    BY <1>4 DEF D
  <1> QED
    BY <1>3, <1>4, <1>5

(* A function on 0 .. n can be defined from its first value on.            *)
LEMMA Recursion ==
  ASSUME NEW S, NEW b \in S, NEW n \in Nat, NEW step \in [1 .. n -> [S -> S]]
  PROVE  \E f \in [0 .. n -> S] : f[0] = b /\ \A i \in 1 .. n : f[i] = step[i][f[i - 1]]
  <1> DEFINE P(m) == \E f \in [0 .. m -> S] : f[0] = b /\ \A i \in 1 .. m : f[i] = step[i][f[i - 1]]
             T == {m \in 0 .. n : P(m)}
  <1>1. P(0)
    <2> DEFINE g == [i \in 0 .. 0 |-> b]
    <2>1. g \in [0 .. 0 -> S] /\ g[0] = b
      OBVIOUS
    <2>2. \A i \in 1 .. 0 : g[i] = step[i][g[i - 1]]
      OBVIOUS
    <2> HIDE DEF g
    <2> QED
      BY <2>1, <2>2
  <1>2. ASSUME NEW m \in 0 .. n - 1, P(m) PROVE P(m + 1)
    <2>1. PICK f \in [0 .. m -> S] : f[0] = b /\ \A i \in 1 .. m : f[i] = step[i][f[i - 1]]
      BY <1>2
    <2> DEFINE g == [i \in 0 .. m + 1 |-> IF i <= m THEN f[i] ELSE step[m + 1][f[m]]]
    <2>2. g \in [0 .. m + 1 -> S] /\ g[0] = b
      BY <2>1
    <2>3. \A i \in 1 .. m + 1 : g[i] = step[i][g[i - 1]]
      BY <2>1
    <2> HIDE DEF g
    <2> QED
      BY <2>2, <2>3
  <1> HIDE DEF P
  <1>3. 0 \in T /\ \A m \in 0 .. n - 1 : m \in T => m + 1 \in T
    BY <1>1, <1>2
  <1> HIDE DEF T
  <1>4. \A i \in 0 .. n : i \in T
    BY <1>3, UpTo
  <1>5. P(n)
    BY <1>4 DEF T
  <1> QED
    BY <1>5 DEF P

-----------------------------------------------------------------------------
(* The recursion of Selected, which has a solution.                        *)
PartsOf(s, K, p) ==
    p = [i \in 0 .. Len(s) |->
            IF i = 0 THEN << >>
            ELSE IF i \in K THEN Append(p[i - 1], s[i]) ELSE p[i - 1]]

(* The same, step by step.                                                 *)
Grown(s, K, p) ==
    /\ p[0] = << >>
    /\ \A i \in 1 .. Len(s) : p[i] = IF i \in K THEN Append(p[i - 1], s[i]) ELSE p[i - 1]

(* A solution of the recursion is grown step by step.                      *)
LEMMA PartsSteps ==
  ASSUME NEW s, Len(s) \in Nat, NEW K, NEW p, PartsOf(s, K, p)
  PROVE  Grown(s, K, p)
  <1> DEFINE F(i) == IF i = 0 THEN << >>
                     ELSE IF i \in K THEN Append(p[i - 1], s[i]) ELSE p[i - 1]
  <1>1. p = [i \in 0 .. Len(s) |-> F(i)]
    BY DEF PartsOf
  <1>2. \A i \in 0 .. Len(s) : p[i] = F(i)
    <2> HIDE DEF F
    <2> QED
      BY <1>1
  <1>3. 0 \in 0 .. Len(s) /\ \A i \in 1 .. Len(s) : i \in 0 .. Len(s) /\ i # 0
    OBVIOUS
  <1> QED
    BY <1>2, <1>3 DEF Grown

(* The recursion is that of one sequence of parts.                         *)
LEMMA SelectedParts ==
  ASSUME NEW S, NEW s \in Seq(S), NEW K
  PROVE  \E p \in [0 .. Len(s) -> Seq(S)] : Grown(s, K, p) /\ Selected(s, K) = p[Len(s)]
  <1> DEFINE n == Len(s)
             step == [i \in 1 .. n |-> [t \in Seq(S) |-> IF i \in K THEN Append(t, s[i]) ELSE t]]
  <1>1. n \in Nat /\ << >> \in Seq(S) /\ step \in [1 .. n -> [Seq(S) -> Seq(S)]]
    OBVIOUS
  <1>2. \A i \in 1 .. n : \A t \in Seq(S) : step[i][t] = IF i \in K THEN Append(t, s[i]) ELSE t
    OBVIOUS
  <1> HIDE DEF step, n
  <1>3. PICK f \in [0 .. n -> Seq(S)] : f[0] = << >> /\ \A i \in 1 .. n : f[i] = step[i][f[i - 1]]
    <2> DEFINE Q == Seq(S)
               e == << >>
    <2>1. n \in Nat /\ e \in Q /\ step \in [1 .. n -> [Q -> Q]]
      BY <1>1
    <2> HIDE DEF Q, e
    <2>2. \E f \in [0 .. n -> Q] : f[0] = e /\ \A i \in 1 .. n : f[i] = step[i][f[i - 1]]
      BY <2>1, Recursion
    <2> QED
      BY <2>2 DEF Q, e
  <1>4. \A i \in 1 .. n : f[i - 1] \in Seq(S)
    BY <1>1, <1>3
  <1>5. \A i \in 1 .. n : f[i] = IF i \in K THEN Append(f[i - 1], s[i]) ELSE f[i - 1]
    BY <1>2, <1>3, <1>4
  <1>6. PartsOf(s, K, f)
    <2> DEFINE F(i) == IF i = 0 THEN << >>
                       ELSE IF i \in K THEN Append(f[i - 1], s[i]) ELSE f[i - 1]
    <2>1. ASSUME NEW i \in 0 .. n PROVE f[i] = F(i)
      <3>1. CASE i = 0
        BY <1>3, <3>1
      <3>2. CASE i # 0
        <4>1. i \in 1 .. n
          BY <1>1, <3>2
        <4> QED
          BY <1>5, <3>2, <4>1
      <3> QED
        BY <3>1, <3>2
    <2>2. f = [i \in 0 .. n |-> f[i]]
      BY <1>3
    <2> HIDE DEF F
    <2>3. f = [i \in 0 .. n |-> F(i)]
      BY <2>1, <2>2
    <2> QED
      BY <2>3 DEF F, PartsOf, n
  <1> DEFINE p == CHOOSE q : PartsOf(s, K, q)
  <1>7. PartsOf(s, K, p)
    BY <1>6
  <1>8. Selected(s, K) = p[n]
    BY DEF Selected, PartsOf, n
  <1>9. p = [i \in 0 .. n |-> p[i]]
    BY <1>7 DEF PartsOf, n
  <1> HIDE DEF p
  <1>10. /\ p[0] = << >>
         /\ \A i \in 1 .. n : p[i] = IF i \in K THEN Append(p[i - 1], s[i]) ELSE p[i - 1]
    BY <1>1, <1>7, PartsSteps DEF n, Grown
  <1>11. \A i \in 0 .. n : p[i] = f[i]
    <2> DEFINE T == {i \in 0 .. n : p[i] = f[i]}
    <2>1. 0 \in T
      BY <1>1, <1>3, <1>10
    <2>2. ASSUME NEW i \in 0 .. n - 1, i \in T PROVE i + 1 \in T
      <3>1. i + 1 \in 1 .. n /\ (i + 1) - 1 = i /\ p[i] = f[i]
        BY <1>1, <2>2
      <3>2. p[i + 1] = f[i + 1]
        BY <1>5, <1>10, <3>1
      <3> QED
        BY <1>1, <3>1, <3>2
    <2> HIDE DEF T
    <2>3. \A i \in 0 .. n : i \in T
      BY <1>1, <2>1, <2>2, UpTo
    <2> QED
      BY <2>3 DEF T
  <1>12. p = f
    BY <1>3, <1>9, <1>11
  <1>13. Grown(s, K, f)
    BY <1>3, <1>5 DEF Grown, n
  <1> QED
    BY <1>3, <1>8, <1>12, <1>13 DEF n

(* What is selected comes from places that are to be kept.                 *)
LEMMA SelectedFrom ==
  ASSUME NEW S, NEW s \in Seq(S), NEW K
  PROVE  /\ Selected(s, K) \in Seq(S)
         /\ \A j \in 1 .. Len(Selected(s, K)) :
               \E i \in K \cap (1 .. Len(s)) : Selected(s, K)[j] = s[i]
  <1>1. PICK p \in [0 .. Len(s) -> Seq(S)] : Grown(s, K, p) /\ Selected(s, K) = p[Len(s)]
    BY SelectedParts
  <1> DEFINE n == Len(s)
  <1>2. n \in Nat
    OBVIOUS
  <1> DEFINE From(t) == \A j \in 1 .. Len(t) : \E i \in K \cap (1 .. n) : t[j] = s[i]
             T == {m \in 0 .. n : From(p[m])}
  <1>3. 0 \in T
    BY <1>1, <1>2 DEF Grown
  <1>4. ASSUME NEW m \in 0 .. n - 1, From(p[m]) PROVE From(p[m + 1])
    <2>1. m + 1 \in 1 .. n /\ (m + 1) - 1 = m
      BY <1>2
    <2>2. p[m + 1] = IF m + 1 \in K THEN Append(p[m], s[m + 1]) ELSE p[m]
      BY <1>1, <2>1 DEF Grown
    <2>3. p[m] \in Seq(S) /\ s[m + 1] \in S
      <3>1. m \in 0 .. n
        BY <1>2
      <3> QED
        BY <1>1, <2>1, <3>1
    <2>4. CASE m + 1 \in K
      <3> SUFFICES ASSUME NEW j \in 1 .. Len(p[m + 1])
                   PROVE  \E i \in K \cap (1 .. n) : p[m + 1][j] = s[i]
        OBVIOUS
      <3>1. CASE j \in 1 .. Len(p[m])
        <4>1. p[m + 1][j] = p[m][j]
          BY <2>2, <2>3, <2>4, <3>1
        <4> QED
          BY <1>4, <3>1, <4>1
      <3>2. CASE j \notin 1 .. Len(p[m])
        <4>1. p[m + 1][j] = s[m + 1]
          BY <2>2, <2>3, <2>4, <3>2
        <4> QED
          BY <2>1, <2>4, <4>1
      <3> QED
        BY <3>1, <3>2
    <2>5. CASE m + 1 \notin K
      BY <1>4, <2>2, <2>5
    <2> QED
      BY <2>4, <2>5
  <1> HIDE DEF From
  <1>5. \A m \in 0 .. n - 1 : m \in T => m + 1 \in T
    BY <1>2, <1>4
  <1> HIDE DEF T
  <1>6. \A m \in 0 .. n : m \in T
    BY <1>2, <1>3, <1>5, UpTo
  <1>7. From(p[n])
    BY <1>2, <1>6 DEF T
  <1> QED
    BY <1>1, <1>2, <1>7 DEF From

(* When a beginning of the sequence is to be kept, that is what is left.   *)
LEMMA SelectedPrefix ==
  ASSUME NEW S, NEW s \in Seq(S), NEW K, NEW m \in 0 .. Len(s),
         \A i \in 1 .. Len(s) : i \in K <=> i <= m
  PROVE  Selected(s, K) = SubSeq(s, 1, m)
  <1>1. PICK p \in [0 .. Len(s) -> Seq(S)] : Grown(s, K, p) /\ Selected(s, K) = p[Len(s)]
    BY SelectedParts
  <1> DEFINE n == Len(s)
  <1>2. n \in Nat
    OBVIOUS
  <1> DEFINE Upto(k) == IF k <= m THEN k ELSE m
             T == {k \in 0 .. n : p[k] = SubSeq(s, 1, Upto(k))}
  <1>3. 0 \in T
    BY <1>1, <1>2 DEF Grown
  <1>4. ASSUME NEW k \in 0 .. n - 1, k \in T PROVE k + 1 \in T
    <2>1. k + 1 \in 1 .. n /\ (k + 1) - 1 = k /\ p[k] = SubSeq(s, 1, Upto(k))
      BY <1>2, <1>4
    <2>2. p[k + 1] = IF k + 1 \in K THEN Append(p[k], s[k + 1]) ELSE p[k]
      BY <1>1, <2>1 DEF Grown
    <2>3. CASE k + 1 <= m
      <3>1. p[k + 1] = Append(SubSeq(s, 1, k), s[k + 1])
        BY <2>1, <2>2, <2>3
      <3>2. Append(SubSeq(s, 1, k), s[k + 1]) = SubSeq(s, 1, k + 1)
        BY <1>2
      <3>3. p[k + 1] = SubSeq(s, 1, Upto(k + 1)) /\ k + 1 \in 0 .. n
        BY <1>2, <2>1, <2>3, <3>1, <3>2
      <3> QED
        BY <3>3
    <2>4. CASE k + 1 > m
      <3>1. p[k + 1] = SubSeq(s, 1, Upto(k)) /\ Upto(k) = m /\ Upto(k + 1) = m
        BY <2>1, <2>2, <2>4
      <3> QED
        BY <2>1, <3>1
    <2> QED
      BY <2>3, <2>4
  <1> HIDE DEF T
  <1>5. \A k \in 0 .. n : k \in T
    BY <1>2, <1>3, <1>4, UpTo
  <1>6. n \in T
    BY <1>2, <1>5
  <1> QED
    BY <1>1, <1>2, <1>6 DEF T

(* The last entry of a stack, and what is left without it.                 *)
LEMMA Popped ==
  ASSUME NEW F, NEW s \in Seq(F), s # << >>
  PROVE  /\ Last(s) = s[Len(s)] /\ s[Len(s)] \in F /\ Len(s) \in Nat \ {0}
         /\ Front(s) \in Seq(F) /\ Len(Front(s)) = Len(s) - 1
         /\ \A i \in 1 .. Len(s) - 1 : Front(s)[i] = s[i]
  <1>1. Len(s) \in Nat \ {0}
    BY EmptySeq
  <1>2. Last(s) = s[Len(s)] /\ s[Len(s)] \in F
    BY <1>1 DEF Last
  <1>3. Front(s) = SubSeq(s, 1, Len(s) - 1)
    BY DEF Front
  <1>4. Len(s) - 1 \in Nat /\ \A i \in 1 .. Len(s) - 1 : s[i] \in F
    BY <1>1
  <1>5. Len(SubSeq(s, 1, Len(s) - 1)) = Len(s) - 1
    BY <1>1
  <1>6. \A i \in 1 .. Len(s) - 1 : SubSeq(s, 1, Len(s) - 1)[i] = s[i]
    BY <1>1
  <1>7. SubSeq(s, 1, Len(s) - 1) \in Seq(F)
    BY <1>1
  <1> QED
    BY <1>1, <1>2, <1>3, <1>5, <1>6, <1>7

(* The first entry of a queue, and what is left without it.                *)
LEMMA Tailed ==
  ASSUME NEW F, NEW s \in Seq(F), s # << >>
  PROVE  /\ Head(s) = s[1] /\ s[1] \in F /\ Len(s) \in Nat \ {0} /\ 1 \in 1 .. Len(s)
         /\ Tail(s) \in Seq(F) /\ Len(Tail(s)) = Len(s) - 1
         /\ \A i \in 1 .. Len(s) - 1 : Tail(s)[i] = s[i + 1] /\ i + 1 \in 1 .. Len(s)
  <1>1. Len(s) \in Nat \ {0}
    BY EmptySeq
  <1>2. Head(s) = s[1] /\ s[1] \in F /\ 1 \in 1 .. Len(s)
    BY <1>1
  <1>3. Tail(s) \in Seq(F) /\ Len(Tail(s)) = Len(s) - 1
    BY HeadTailProperties
  <1>4. \A i \in 1 .. Len(s) - 1 : Tail(s)[i] = s[i + 1]
    BY <1>3, HeadTailProperties
  <1>5. \A i \in 1 .. Len(s) - 1 : i + 1 \in 1 .. Len(s)
    BY <1>1
  <1> QED
    BY <1>1, <1>2, <1>3, <1>4, <1>5
=============================================================================
