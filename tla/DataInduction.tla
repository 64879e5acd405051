---------------------------- MODULE DataInduction ----------------------------
(***************************************************************************)
(* Induction over numbers, functions defined by recursion over them, and   *)
(* the concatenation of a sequence of sequences.                           *)
(*                                                                         *)
(* Induction is stated with a set instead of a predicate: a set of numbers *)
(* that contains 0 and is closed under successor up to n contains n.  That *)
(* follows from what is known of injections between finite sets, and a     *)
(* predicate becomes a set by comprehension.                               *)
(***************************************************************************)
EXTENDS FiniteSetTheorems, Sequences, SequencesExt, TLAPS

\* A set of numbers up to n that contains 0 and the successor of its elements contains n.
LEMMA UpTo ==
  ASSUME NEW n \in Nat, NEW T \in SUBSET (0 .. n), 0 \in T, \A i \in T : i < n => i + 1 \in T
  PROVE  n \in T
<1> DEFINE s == [i \in T |-> i + 1]
<1>1. SUFFICES ASSUME n \notin T PROVE FALSE
  OBVIOUS
<1>2. \A i \in T : i \in Nat /\ i < n /\ i + 1 \in T
  BY <1>1
<1>3. s \in Injection(T, T)
  <2>1. s \in [T -> T]
    BY <1>2
  <2>2. \A i, j \in T : s[i] = s[j] => i = j
    BY <1>2
  <2> QED
    BY <2>1, <2>2 DEF Injection, IsInjective
<1>4. IsFiniteSet(T)
  <2>1. IsFiniteSet(0 .. n)
    BY FS_Interval
  <2> QED
    BY <2>1, FS_Subset
<1>5. s \in Surjection(T, T)
  BY <1>3, <1>4, FS_Injection
<1>6. PICK i \in T : s[i] = 0
  BY <1>5 DEF Surjection
<1> QED
  BY <1>2, <1>6

\* Steps that take a value in S and the number of the next one, up to n.
Steps(S, n) == [S \X (1 .. n) -> S]

\* The function with this first value that makes these steps.
Recurs(f, S, n, base, step) ==
  /\ f \in [0 .. n -> S]
  /\ f[0] = base
  /\ \A k \in 1 .. n : f[k] = step[<<f[k - 1], k>>]

\* A function is defined by its first value and a step to the next one.
LEMMA Recursion ==
  ASSUME NEW n \in Nat, NEW S, NEW base \in S, NEW step \in Steps(S, n)
  PROVE  \E f : Recurs(f, S, n, base, step)
<1> USE DEF Steps
<1> DEFINE Upto(m) ==
             \E f \in [0 .. m -> S] : f[0] = base /\ \A k \in 1 .. m : f[k] = step[<<f[k - 1], k>>]
           T == {m \in 0 .. n : Upto(m)}
<1>1. Upto(0)
  <2> DEFINE f == [k \in 0 .. 0 |-> base]
  <2>1. f \in [0 .. 0 -> S] /\ f[0] = base /\ \A k \in 1 .. 0 : f[k] = step[<<f[k - 1], k>>]
    OBVIOUS
  <2> QED
    BY <2>1
<1>2. ASSUME NEW m \in Nat, m < n, Upto(m) PROVE Upto(m + 1)
  <2>1. PICK f \in [0 .. m -> S] : f[0] = base /\ \A k \in 1 .. m : f[k] = step[<<f[k - 1], k>>]
    BY <1>2
  <2> DEFINE g == [k \in 0 .. m + 1 |-> IF k = m + 1 THEN step[<<f[m], m + 1>>] ELSE f[k]]
  <2>2. step[<<f[m], m + 1>>] \in S
    <3>1. m + 1 \in 1 .. n /\ m \in 0 .. m
      BY <1>2
    <3>2. f[m] \in S
      BY <3>1
    <3>3. <<f[m], m + 1>> \in S \X (1 .. n)
      BY <3>1, <3>2
    <3> QED
      BY <3>3
  <2>3. g \in [0 .. m + 1 -> S]
    <3>1. ASSUME NEW k \in 0 .. m + 1, k # m + 1 PROVE k \in 0 .. m
      BY <3>1, <1>2
    <3> QED
      BY <2>2, <3>1
  <2>4. g[0] = base
    BY <1>2, <2>1
  <2>5. ASSUME NEW k \in 1 .. m + 1 PROVE g[k] = step[<<g[k - 1], k>>]
    <3>1. k - 1 \in 0 .. m /\ k - 1 # m + 1 /\ k \in 0 .. m + 1 /\ k - 1 \in 0 .. m + 1
      BY <1>2
    <3>2. g[k - 1] = f[k - 1]
      BY <3>1
    <3>3. CASE k = m + 1
      <4>1. g[k] = step[<<f[m], m + 1>>] /\ k - 1 = m
        BY <3>1, <3>3, <1>2
      <4> QED
        BY <4>1, <3>2, <3>3
    <3>4. CASE k # m + 1
      <4>1. k \in 1 .. m
        BY <3>4, <1>2
      <4>2. g[k] = f[k]
        BY <3>1, <3>4
      <4> QED
        BY <4>1, <4>2, <3>2, <2>1
    <3> QED
      BY <3>3, <3>4
  <2> HIDE DEF g
  <2> QED
    BY <2>3, <2>4, <2>5
<1> HIDE DEF Upto
<1>3. n \in T
  <2>1. T \in SUBSET (0 .. n) /\ 0 \in T
    BY <1>1
  <2>2. \A m \in T : m < n => m + 1 \in T
    BY <1>2
  <2> HIDE DEF T
  <2> QED
    BY <2>1, <2>2, UpTo
<1> QED
  BY <1>3 DEF Upto, Recurs

\* Two functions with the same first value and the same step are equal.
SameSteps(f, g, n) == f[0] = g[0] /\ \A k \in 1 .. n : f[k - 1] = g[k - 1] => f[k] = g[k]

\* Functions that begin alike and make the same steps are equal.
LEMMA RecursionUnique ==
  ASSUME NEW n \in Nat, NEW f, NEW g, SameSteps(f, g, n)
  PROVE  \A k \in 0 .. n : f[k] = g[k]
<1> SUFFICES ASSUME NEW k \in 0 .. n PROVE f[k] = g[k]
  OBVIOUS
<1> USE DEF SameSteps
<1> DEFINE T == {i \in 0 .. k : f[i] = g[i]}
<1>1. 0 \in T
  OBVIOUS
<1>2. ASSUME NEW i \in T, i < k PROVE i + 1 \in T
  <2>1. i + 1 \in 1 .. n /\ i + 1 - 1 = i /\ i + 1 \in 0 .. k
    BY <1>2
  <2> QED
    BY <2>1
<1>3. k \in T
  <2> HIDE DEF T
  <2>1. k \in Nat /\ T \in SUBSET (0 .. k)
    BY DEF T
  <2> QED
    BY <1>1, <1>2, <2>1, UpTo
<1> QED
  BY <1>3

-----------------------------------------------------------------------------
(* FlattenSeq of the community modules                                     *)

\* The concatenation of the first k sequences, for every k.
LEMMA Flattening ==
  ASSUME NEW X, NEW seqs \in Seq(Seq(X))
  PROVE  \E f \in [0 .. Len(seqs) -> Seq(X)] :
           /\ f[0] = <<>> /\ \A k \in 1 .. Len(seqs) : f[k] = f[k - 1] \o seqs[k]
<1> DEFINE n == Len(seqs)
           step == [p \in Seq(X) \X (1 .. n) |-> p[1] \o seqs[p[2]]]
<1>1. n \in Nat /\ <<>> \in Seq(X) /\ \A k \in 1 .. n : seqs[k] \in Seq(X)
  OBVIOUS
<1>2. step \in Steps(Seq(X), n)
  BY <1>1 DEF Steps
<1>3. \A s \in Seq(X), k \in 1 .. n : step[<<s, k>>] = s \o seqs[k]
  OBVIOUS
<1> HIDE DEF n, step
<1>4. PICK f : Recurs(f, Seq(X), n, <<>>, step)
  BY <1>1, <1>2, Recursion
<1>5. \A k \in 1 .. n : k - 1 \in 0 .. n
  BY <1>1
<1>6. \A k \in 1 .. n : f[k] = f[k - 1] \o seqs[k]
  BY <1>3, <1>4, <1>5 DEF Recurs
<1> QED
  BY <1>4, <1>6 DEF n, Recurs

\* FlattenSeq is the last of them.
LEMMA FlattenIs ==
  ASSUME NEW X, NEW seqs \in Seq(Seq(X)), NEW f \in [0 .. Len(seqs) -> Seq(X)],
         f[0] = <<>>, \A k \in 1 .. Len(seqs) : f[k] = f[k - 1] \o seqs[k]
  PROVE  FlattenSeq(seqs) = f[Len(seqs)]
<1>1. CASE Len(seqs) = 0
  <2>1. seqs = <<>>
    BY <1>1
  <2> QED
    BY <1>1, <2>1 DEF FlattenSeq
<1>2. CASE Len(seqs) # 0
  <2> DEFINE n == Len(seqs)
             Flat(h) == h = [i \in 1 .. n |-> IF i = 1 THEN seqs[i] ELSE h[i - 1] \o seqs[i]]
             e == [i \in 1 .. n |-> f[i]]
             g == CHOOSE h : Flat(h)
  <2>1. n \in Nat /\ n > 0 /\ 1 \in 1 .. n
    BY <1>2
  <2>2. \A k \in 1 .. n : f[k] = f[k - 1] \o seqs[k]
    OBVIOUS
  <2>3. f[1] = seqs[1]
    <3>1. f[1] = f[0] \o seqs[1]
      <4>1. f[1] = f[1 - 1] \o seqs[1]
        BY <2>1, <2>2
      <4> QED
        BY <4>1
    <3>2. seqs[1] \in Seq(X)
      BY <2>1
    <3> QED
      BY <3>1, <3>2
  <2>4. Flat(e)
    <3>1. ASSUME NEW i \in 1 .. n
          PROVE  e[i] = IF i = 1 THEN seqs[i] ELSE e[i - 1] \o seqs[i]
      <4>1. CASE i = 1
        BY <4>1, <2>3
      <4>2. CASE i # 1
        <5>1. i - 1 \in 1 .. n
          BY <4>2, <2>1
        <5> QED
          BY <5>1, <4>2, <2>2
      <4> QED
        BY <4>1, <4>2
    <3> QED
      BY <3>1
  <2>5. Flat(g)
    BY <2>4, Zenon
  <2>6. FlattenSeq(seqs) = g[n]
    BY <1>2, Zenon DEF FlattenSeq
  <2> HIDE DEF g
  <2>7. \A i \in 1 .. n : g[i] = IF i = 1 THEN seqs[i] ELSE g[i - 1] \o seqs[i]
    BY <2>5
  <2> HIDE DEF n, Flat, e
  <2> DEFINE T == {k \in 0 .. n - 1 : g[k + 1] = f[k + 1]}
  <2>8. 0 \in T
    <3>1. g[1] = seqs[1]
      BY <2>1, <2>7
    <3>2. 0 \in 0 .. n - 1 /\ 0 + 1 = 1
      BY <2>1
    <3> QED
      BY <3>1, <3>2, <2>3
  <2>9. ASSUME NEW k \in T, k < n - 1 PROVE k + 1 \in T
    <3> DEFINE i == k + 1 + 1
    <3>1. i \in 1 .. n /\ i # 1 /\ i - 1 = k + 1 /\ k + 1 \in 0 .. n - 1
      BY <2>1, <2>9
    <3>2. g[k + 1] = f[k + 1]
      OBVIOUS
    <3> HIDE DEF i
    <3>3. g[i] = g[i - 1] \o seqs[i]
      BY <3>1, <2>7
    <3>4. f[i] = f[i - 1] \o seqs[i]
      BY <3>1, <2>2
    <3>5. g[i] = f[i]
      BY <3>1, <3>2, <3>3, <3>4
    <3> QED
      BY <3>1, <3>5 DEF i
  <2>10. n - 1 \in T
    <3> HIDE DEF T
    <3>1. n - 1 \in Nat /\ T \in SUBSET (0 .. n - 1)
      BY <2>1 DEF T
    <3> QED
      BY <2>8, <2>9, <3>1, UpTo
  <2>11. n - 1 + 1 = n
    BY <2>1
  <2> QED
    BY <2>6, <2>10, <2>11 DEF n
<1> QED
  BY <1>1, <1>2

\* A concatenation has the elements of its parts.
LEMMA FlattenType ==
  ASSUME NEW X, NEW seqs \in Seq(Seq(X))
  PROVE  FlattenSeq(seqs) \in Seq(X)
<1>1. PICK f \in [0 .. Len(seqs) -> Seq(X)] :
        f[0] = <<>> /\ \A k \in 1 .. Len(seqs) : f[k] = f[k - 1] \o seqs[k]
  BY Flattening
<1>2. FlattenSeq(seqs) = f[Len(seqs)]
  BY <1>1, FlattenIs
<1> QED
  BY <1>2

\* Nothing concatenated is nothing.
LEMMA FlattenEmpty == FlattenSeq(<<>>) = <<>>
  BY DEF FlattenSeq

\* One more part adds its elements at the end.
LEMMA FlattenAppend ==
  ASSUME NEW X, NEW seqs \in Seq(Seq(X)), NEW s \in Seq(X)
  PROVE  FlattenSeq(Append(seqs, s)) = FlattenSeq(seqs) \o s
<1> DEFINE n == Len(seqs)
           more == Append(seqs, s)
<1>0. n \in Nat
  OBVIOUS
<1>1. /\ n \in Nat /\ more \in Seq(Seq(X)) /\ Len(more) = n + 1 /\ more[n + 1] = s
      /\ \A k \in 1 .. n : more[k] = seqs[k]
  OBVIOUS
<1>2. PICK f \in [0 .. n -> Seq(X)] :
        f[0] = <<>> /\ \A k \in 1 .. n : f[k] = f[k - 1] \o seqs[k]
  BY Flattening
<1>3. FlattenSeq(seqs) = f[n]
  BY <1>2, FlattenIs
<1> HIDE DEF more
<1>4. PICK g \in [0 .. Len(more) -> Seq(X)] :
        g[0] = <<>> /\ \A k \in 1 .. Len(more) : g[k] = g[k - 1] \o more[k]
  BY <1>1, Flattening
<1>5. FlattenSeq(more) = g[Len(more)]
  BY <1>1, <1>4, FlattenIs
<1> HIDE DEF n
<1>6. \A k \in 1 .. n + 1 : g[k] = g[k - 1] \o more[k]
  BY <1>1, <1>4
<1>7. f[n] = g[n]
  <2>1. f[0] = g[0]
    BY <1>2, <1>4
  <2>2. ASSUME NEW k \in 1 .. n, f[k - 1] = g[k - 1] PROVE f[k] = g[k]
    <3>1. k \in 1 .. n + 1
      BY <1>1
    <3>2. g[k] = g[k - 1] \o more[k] /\ more[k] = seqs[k]
      BY <3>1, <1>1, <1>6
    <3> QED
      BY <3>2, <2>2, <1>2
  <2>3. n \in 0 .. n
    BY <1>1
  <2>4. SameSteps(f, g, n)
    BY <2>1, <2>2 DEF SameSteps
  <2>5. \A k \in 0 .. n : f[k] = g[k]
    BY <1>0, <2>4, RecursionUnique
  <2> QED
    BY <2>3, <2>5
<1>8. g[n + 1] = g[n] \o s
  <2>1. PICK m : m = n + 1
    OBVIOUS
  <2>2. m \in 1 .. n + 1 /\ m - 1 = n
    BY <1>0, <2>1
  <2>3. g[m] = g[m - 1] \o more[m]
    BY <2>2, <1>6
  <2> QED
    BY <2>1, <2>2, <2>3, <1>1
<1> QED
  BY <1>1, <1>3, <1>5, <1>7, <1>8 DEF more

\* A set of numbers up to n has a largest one.
LEMMA MaxIn ==
  ASSUME NEW n \in Nat, NEW T \in SUBSET (1 .. n), T # {}
  PROVE  Max(T) \in T /\ \A y \in T : Max(T) >= y
<1>1. SUFFICES \E x \in T : \A y \in T : x >= y
  BY DEF Max
<1>2. SUFFICES ASSUME \A x \in T : \E y \in T : ~(x >= y) PROVE FALSE
  OBVIOUS
<1> DEFINE I == {m \in 0 .. n : \E y \in T : y >= m}
<1>3. 0 \in I
  <2>1. PICK y \in T : TRUE
    OBVIOUS
  <2>2. y \in Nat /\ y >= 0 /\ 0 \in 0 .. n
    OBVIOUS
  <2> QED
    BY <2>2
<1>4. ASSUME NEW m \in I, m < n PROVE m + 1 \in I
  <2>1. PICK x \in T : x >= m
    OBVIOUS
  <2>2. PICK y \in T : ~(x >= y)
    BY <1>2
  <2>3. x \in Nat /\ y \in Nat /\ m \in Nat
    OBVIOUS
  <2>4. y >= m + 1
    BY <2>1, <2>2, <2>3
  <2> QED
    BY <1>4, <2>3, <2>4
<1>5. I \in SUBSET (0 .. n)
  OBVIOUS
<1> HIDE DEF I
<1>6. n \in I
  BY <1>3, <1>4, <1>5, UpTo
<1>7. PICK x \in T : x >= n
  BY <1>6 DEF I
<1>8. PICK y \in T : ~(x >= y)
  BY <1>2
<1> QED
  BY <1>7, <1>8

\* What a fold from the left computes: take the largest index away, then add its number.
Summing(g, v, n) ==
  g = [T \in SUBSET (1 .. n) |-> IF T = {} THEN 0 ELSE g[T \ {Max(T)}] + v[Max(T)]]

\* There is such a function.
LEMMA SummingExists ==
  ASSUME NEW n \in Nat, NEW v \in [1 .. n -> Nat]
  PROVE  \E g : Summing(g, v, n)
<1> DEFINE Upto(m) == \E g : Summing(g, v, m)
           I == {m \in 0 .. n : Upto(m)}
<1>1. Upto(0)
  <2> DEFINE g == [T \in SUBSET (1 .. 0) |-> 0]
  <2>1. \A T \in SUBSET (1 .. 0) : T = {}
    OBVIOUS
  <2>2. Summing(g, v, 0)
    BY <2>1 DEF Summing
  <2> QED
    BY <2>2
<1>2. ASSUME NEW m \in Nat, m < n, Upto(m) PROVE Upto(m + 1)
  <2>1. PICK g : Summing(g, v, m)
    BY <1>2
  <2> DEFINE k == m + 1
             h == [T \in SUBSET (1 .. k) |-> IF k \in T THEN g[T \ {k}] + v[k] ELSE g[T]]
  <2>2. \A T \in SUBSET (1 .. m) :
          g[T] = IF T = {} THEN 0 ELSE g[T \ {Max(T)}] + v[Max(T)]
    BY <2>1 DEF Summing
  <2>3. ASSUME NEW T \in SUBSET (1 .. k)
        PROVE  h[T] = IF T = {} THEN 0 ELSE h[T \ {Max(T)}] + v[Max(T)]
    <3>1. CASE k \in T
      <4>1. Max(T) = k
        <5>1. \A y \in T : k >= y /\ y \in Nat
          BY <1>2
        <5>2. \A x \in T : (\A y \in T : x >= y) => x = k
          BY <3>1, <5>1, <1>2
        <5> QED
          BY <3>1, <5>1, <5>2 DEF Max
      <4>2. k \notin T \ {k} /\ T \ {k} \in SUBSET (1 .. k)
        OBVIOUS
      <4> HIDE DEF k
      <4>3. h[T \ {k}] = g[T \ {k}]
        BY <4>2
      <4> QED
        BY <3>1, <4>1, <4>3
    <3>2. CASE k \notin T
      <4>1. T \in SUBSET (1 .. m)
        BY <1>2, <3>2
      <4>2. PICK x : x = Max(T)
        OBVIOUS
      <4>3. k \notin T \ {x} /\ T \ {x} \in SUBSET (1 .. k)
        BY <3>2
      <4>4. g[T] = IF T = {} THEN 0 ELSE g[T \ {x}] + v[x]
        BY <2>2, <4>1, <4>2
      <4> HIDE DEF k
      <4>5. h[T \ {x}] = g[T \ {x}] /\ h[T] = g[T]
        BY <3>2, <4>3
      <4> QED
        BY <4>2, <4>4, <4>5
    <3> QED
      BY <3>1, <3>2
  <2> HIDE DEF k
  <2>4. h = [T \in SUBSET (1 .. k) |-> h[T]]
    OBVIOUS
  <2> HIDE DEF h
  <2>5. Summing(h, v, k)
    BY <2>3, <2>4 DEF Summing
  <2> QED
    BY <2>5 DEF k
<1> HIDE DEF Upto
<1>3. n \in I
  <2>1. I \in SUBSET (0 .. n) /\ 0 \in I
    BY <1>1
  <2>2. \A m \in I : m < n => m + 1 \in I
    BY <1>2
  <2> HIDE DEF I
  <2> QED
    BY <2>1, <2>2, UpTo
<1> QED
  BY <1>3 DEF Upto

\* The sums of the first numbers.
Sums(f, v, n) == f[0] = 0 /\ \A k \in 1 .. n : f[k] = f[k - 1] + v[k]

\* It adds up the numbers one by one.
LEMMA SummingUp ==
  ASSUME NEW n \in Nat, NEW v \in [1 .. n -> Nat], NEW g, Summing(g, v, n),
         NEW f, Sums(f, v, n)
  PROVE  g[1 .. n] = f[n]
<1> USE DEF Sums
<1> DEFINE I == {k \in 0 .. n : g[1 .. k] = f[k]}
<1>1. \A T \in SUBSET (1 .. n) : g[T] = IF T = {} THEN 0 ELSE g[T \ {Max(T)}] + v[Max(T)]
  BY DEF Summing
<1>2. g[{}] = 0
  BY <1>1
<1>3. 0 \in I
  <2>1. 1 .. 0 = {}
    OBVIOUS
  <2> QED
    BY <1>2, <2>1
<1>4. ASSUME NEW k \in I, k < n PROVE k + 1 \in I
  <2>1. PICK m : m = k + 1
    OBVIOUS
  <2>2. k \in Nat /\ m \in 1 .. n /\ m - 1 = k /\ 1 .. m \in SUBSET (1 .. n) /\ 1 .. m # {}
    BY <1>4, <2>1
  <2>3. Max(1 .. m) = m
    <3>1. m \in 1 .. m /\ \A y \in 1 .. m : m >= y
      BY <2>2
    <3>2. ASSUME NEW x \in 1 .. m, \A y \in 1 .. m : x >= y PROVE x = m
      <4>1. x >= m
        BY <3>1, <3>2
      <4> QED
        BY <2>2, <4>1
    <3> QED
      BY <3>1, <3>2 DEF Max
  <2>4. (1 .. m) \ {m} = 1 .. k
    BY <2>1, <2>2
  <2>5. g[1 .. m] = g[1 .. k] + v[m]
    BY <1>1, <2>2, <2>3, <2>4
  <2>6. g[1 .. m] = f[m]
    BY <2>2, <2>5
  <2> QED
    BY <2>1, <2>2, <2>6
<1>5. I \in SUBSET (0 .. n)
  OBVIOUS
<1> HIDE DEF I
<1>6. n \in I
  BY <1>3, <1>4, <1>5, UpTo
<1> QED
  BY <1>6 DEF I

\* The sums of the first k numbers, for every k.
LEMMA SumsExist ==
  ASSUME NEW n \in Nat, NEW v \in [1 .. n -> Nat]
  PROVE  \E f \in [0 .. n -> Nat] : Sums(f, v, n)
<1> DEFINE step == [p \in Nat \X (1 .. n) |-> p[1] + v[p[2]]]
<1>1. step \in Steps(Nat, n)
  BY DEF Steps
<1>2. \A s \in Nat, k \in 1 .. n : step[<<s, k>>] = s + v[k]
  OBVIOUS
<1> HIDE DEF step
<1>3. PICK f : Recurs(f, Nat, n, 0, step)
  BY <1>1, Recursion
<1>4. \A k \in 1 .. n : k - 1 \in 0 .. n
  OBVIOUS
<1>5. \A k \in 1 .. n : f[k] = f[k - 1] + v[k]
  BY <1>2, <1>3, <1>4 DEF Recurs
<1> QED
  BY <1>3, <1>5 DEF Recurs, Sums

\* The sum of numbers, as a fold from the left.
Sum(v, n) == (CHOOSE g : Summing(g, v, n))[1 .. n]

\* The sum is the last of the sums.
LEMMA SumIs ==
  ASSUME NEW n \in Nat, NEW v \in [1 .. n -> Nat], NEW f, Sums(f, v, n)
  PROVE  Sum(v, n) = f[n]
<1>1. \E g : Summing(g, v, n)
  BY SummingExists
<1>2. PICK g : g = CHOOSE h : Summing(h, v, n)
  OBVIOUS
<1>3. Summing(g, v, n)
  BY <1>1, <1>2, Zenon
<1>4. g[1 .. n] = f[n]
  BY <1>3, SummingUp
<1>5. Sum(v, n) = g[1 .. n]
  BY <1>2, Zenon DEF Sum
<1> QED
  BY <1>4, <1>5, Zenon

\* Summing nothing gives 0, one number more is added.
LEMMA SumNext ==
  ASSUME NEW n \in Nat, NEW v \in [1 .. n -> Nat], NEW w \in [1 .. n + 1 -> Nat],
         \A k \in 1 .. n : w[k] = v[k]
  PROVE  /\ Sum(v, n) \in Nat /\ Sum(w, n + 1) = Sum(v, n) + w[n + 1]
         /\ n = 0 => Sum(v, n) = 0
<1>1. PICK m : m = n + 1
  OBVIOUS
<1>2. m \in Nat /\ w \in [1 .. m -> Nat] /\ m \in 1 .. m /\ m - 1 = n /\ n \in 0 .. m
  BY <1>1
<1>3. PICK f \in [0 .. m -> Nat] : Sums(f, w, m)
  BY <1>2, SumsExist
<1>4. Sums(f, v, n)
  <2>1. \A k \in 1 .. n : k \in 1 .. m
    BY <1>1
  <2> QED
    BY <1>3, <2>1 DEF Sums
<1>5. Sum(w, m) = f[m]
  BY <1>2, <1>3, SumIs
<1>6. Sum(v, n) = f[n]
  BY <1>4, SumIs
<1> QED
  BY <1>1, <1>2, <1>3, <1>5, <1>6 DEF Sums
=============================================================================
