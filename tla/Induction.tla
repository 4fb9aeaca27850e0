----------------------------- MODULE Induction ------------------------------
(***************************************************************************)
(* Induction along a loop.  An operator with an operator parameter cannot  *)
(* be instantiated in a proof, but a module with an operator constant can: *)
(* a proofs module takes an instance of this one for each loop of its      *)
(* model, with Step the body of the loop and Inv its invariant.            *)
(*                                                                         *)
(* The loops are written with FoldLeft.  Its definition chooses a function *)
(* that satisfies a recursive equation, so that such a function exists has *)
(* to be shown first (FoldExists); FoldTrace then lists the values of the  *)
(* accumulator, and FoldInvariant is the rule for a loop invariant.        *)
(***************************************************************************)
EXTENDS Integers, Sequences, SequencesExt, FiniteSetTheorems, FunctionTheorems, TLAPS

CONSTANTS
    Step(_, _, _),   \* body: the context, the accumulator and the next element
    Inv(_, _, _)     \* invariant: the context, the accumulator and the elements done

\* The loop over seq with base as the initial accumulator.
Fold(ctx, base, seq) == FoldLeft(LAMBDA a, x : Step(ctx, a, x), base, seq)

\* A non-empty set of numbers up to n has a least element: else the numbers above
\* one of its elements could be mapped into themselves by subtracting 1.
LEMMA LeastNumber ==
    ASSUME NEW n \in Nat, NEW S \in SUBSET (1 .. n), S # {}
    PROVE  \E x \in S : \A y \in S : x <= y
<1> SUFFICES ASSUME \A x \in S : \E y \in S : y < x
             PROVE  FALSE
  OBVIOUS
<1> DEFINE U == {k \in 1 .. n : \E x \in S : x <= k}
           f == [k \in U |-> k - 1]
<1>1. ASSUME NEW k \in U
      PROVE  k - 1 \in U
  <2>1. PICK x \in S : x <= k
    OBVIOUS
  <2>2. PICK y \in S : y < x
    OBVIOUS
  <2> QED  BY <2>1, <2>2
<1>2. f \in Injection(U, U)
  BY <1>1 DEF Injection, IsInjective
<1>3. IsFiniteSet(U)
  <2>1. IsFiniteSet(1 .. n)
    BY FS_Interval
  <2> QED  BY <2>1, FS_Subset
<1>4. f \in Surjection(U, U)
  BY <1>2, <1>3, FS_Injection
<1>5. n \in U
  <2>1. PICK x \in S : x \in 1 .. n
    OBVIOUS
  <2> QED  BY <2>1
<1>6. PICK k \in U : f[k] = n
  BY <1>4, <1>5 DEF Surjection
<1> QED  BY <1>6

\* It has a greatest element as well.
LEMMA GreatestNumber ==
    ASSUME NEW n \in Nat, NEW S \in SUBSET (1 .. n), S # {}
    PROVE  \E x \in S : \A y \in S : y <= x
<1> DEFINE T == {t \in 1 .. n : n + 1 - t \in S}
<1>1. T \in SUBSET (1 .. n) /\ T # {}
  <2>1. PICK x \in S : TRUE
    OBVIOUS
  <2>2. x \in 1 .. n
    OBVIOUS
  <2>3. n + 1 - x \in 1 .. n /\ n + 1 - (n + 1 - x) = x
    BY <2>2
  <2>4. n + 1 - x \in T
    BY <2>1, <2>3
  <2> QED  BY <2>4
<1>2. PICK t \in T : \A u \in T : t <= u
  <2> HIDE DEF T
  <2> QED  BY <1>1, LeastNumber
<1>3. ASSUME NEW y \in S
      PROVE  y <= n + 1 - t
  <2>1. y \in 1 .. n
    OBVIOUS
  <2>2. n + 1 - y \in 1 .. n /\ n + 1 - (n + 1 - y) = y
    BY <2>1
  <2>3. n + 1 - y \in T
    BY <2>2
  <2>4. t <= n + 1 - y
    BY <1>2, <2>3
  <2> QED  BY <2>1, <2>4
<1> QED  BY <1>3

\* Induction over the numbers up to n.
THEOREM Upwards ==
    ASSUME NEW ctx, NEW g, NEW n \in Nat,
           Inv(ctx, g[0], 0),
           \A k \in 1 .. n : Inv(ctx, g[k - 1], k - 1) => Inv(ctx, g[k], k)
    PROVE  \A k \in 0 .. n : Inv(ctx, g[k], k)
<1> SUFFICES ASSUME NEW k \in 0 .. n, ~ Inv(ctx, g[k], k)
             PROVE  FALSE
  OBVIOUS
<1> DEFINE S == {j \in 1 .. n : ~ Inv(ctx, g[j], j)}
<1>1. S \in SUBSET (1 .. n) /\ S # {}
  <2>1. k # 0
    OBVIOUS
  <2> QED  BY <2>1
<1>2. PICK x \in S : \A y \in S : x <= y
  <2> HIDE DEF S
  <2> QED  BY <1>1, LeastNumber
<1>3. Inv(ctx, g[x - 1], x - 1)
  <2>1. CASE x = 1
    BY <2>1
  <2>2. CASE x # 1
    <3>1. x - 1 \in 1 .. n /\ x - 1 \notin S
      BY <1>2, <2>2
    <3> QED  BY <3>1
  <2> QED  BY <2>1, <2>2
<1> QED  BY <1>3

\* The operator Max returns the greatest element.
LEMMA MaxOfSet ==
    ASSUME NEW s \in SUBSET Nat, NEW m \in s, \A y \in s : y <= m
    PROVE  Max(s) = m
<1> DEFINE P(x) == \A y \in s : x >= y
<1>1. m \in s /\ P(m)
  OBVIOUS
<1>2. \A x \in s : P(x) => x = m
  OBVIOUS
<1> HIDE DEF P
<1>3. (CHOOSE x \in s : P(x)) = m
  BY <1>1, <1>2
<1> QED  BY <1>3 DEF Max, P

\* The function that MapThenFoldSet defines recursively over subsets of 1 .. n.
FoldFcn(h, ctx, base, seq, n) ==
    [s \in SUBSET (1 .. n) |->
        IF s = {} THEN base ELSE Step(ctx, h[s \ {Max(s)}], seq[Max(s)])]

\* There is a function that satisfies the recursive equation of the fold.
LEMMA FoldExists ==
    ASSUME NEW ctx, NEW base, NEW seq, NEW n \in Nat
    PROVE  \E h : h = FoldFcn(h, ctx, base, seq, n)
<1> DEFINE F(h, m) == FoldFcn(h, ctx, base, seq, m)
           E(m) == \E h : h = F(h, m)
           S == {j \in 1 .. n + 1 : ~ E(j - 1)}
<1>1. E(0)
  <2> DEFINE h == [s \in SUBSET (1 .. 0) |-> base]
  <2>1. h = F(h, 0)
    BY DEF FoldFcn
  <2> QED  BY <2>1
<1>2. ASSUME NEW m \in Nat, E(m)
      PROVE  E(m + 1)
  <2>1. PICK f : f = F(f, m)
    BY <1>2
  <2> DEFINE h == [s \in SUBSET (1 .. m + 1) |->
                     IF m + 1 \in s THEN Step(ctx, f[s \ {m + 1}], seq[m + 1]) ELSE f[s]]
  <2>2. ASSUME NEW s \in SUBSET (1 .. m + 1)
        PROVE  h[s] = IF s = {} THEN base ELSE Step(ctx, h[s \ {Max(s)}], seq[Max(s)])
    <3>1. CASE m + 1 \in s
      <4>1. Max(s) = m + 1
        BY <3>1, MaxOfSet
      <4>2. s \ {m + 1} \in SUBSET (1 .. m + 1) /\ m + 1 \notin s \ {m + 1}
        OBVIOUS
      <4>3. h[s \ {m + 1}] = f[s \ {m + 1}]
        BY <4>2
      <4>4. h[s] = Step(ctx, f[s \ {m + 1}], seq[m + 1])
        BY <3>1
      <4> QED  BY <3>1, <4>1, <4>3, <4>4
    <3>2. CASE m + 1 \notin s
      <4>1. s \in SUBSET (1 .. m) /\ h[s] = f[s]
        BY <3>2
      <4>2. f[s] = IF s = {} THEN base ELSE Step(ctx, f[s \ {Max(s)}], seq[Max(s)])
        BY <2>1, <4>1 DEF FoldFcn
      <4>3. h[s \ {Max(s)}] = f[s \ {Max(s)}]
        BY <3>2
      <4> QED  BY <4>1, <4>2, <4>3
    <3> QED  BY <3>1, <3>2
  <2>3. h = F(h, m + 1)
    BY <2>2 DEF FoldFcn
  <2> QED  BY <2>3
<1> HIDE DEF E
<1>3. S = {}
  <2> SUFFICES ASSUME S # {}  PROVE FALSE
    OBVIOUS
  <2>1. PICK x \in S : \A y \in S : x <= y
    <3>1. S \in SUBSET (1 .. n + 1) /\ n + 1 \in Nat
      OBVIOUS
    <3> HIDE DEF S
    <3> QED  BY <3>1, LeastNumber
  <2>2. CASE x = 1
    BY <1>1, <2>2
  <2>3. CASE x # 1
    <3>1. x - 1 \in 1 .. n + 1 /\ x - 1 \notin S
      BY <2>1, <2>3
    <3>2. E(x - 1 - 1)
      BY <3>1
    <3>3. x - 1 - 1 \in Nat /\ (x - 1 - 1) + 1 = x - 1
      BY <3>1
    <3>4. E((x - 1 - 1) + 1)
      BY <1>2, <3>2, <3>3
    <3>5. E(x - 1)
      BY <3>3, <3>4
    <3> QED  BY <3>5
  <2> QED  BY <2>2, <2>3
<1>4. E(n)
  <2>1. n + 1 \notin S
    <3> HIDE DEF S
    <3> QED  BY <1>3
  <2>2. E(n + 1 - 1) /\ n + 1 - 1 = n
    BY <2>1
  <2> QED  BY <2>2
<1> QED  BY <1>4 DEF E

\* A loop has a trace: the accumulator after each element.
THEOREM FoldTrace ==
    ASSUME NEW ctx, NEW base, NEW seq, NEW n \in Nat, DOMAIN seq = 1 .. n
    PROVE  \E g : /\ g[0] = base
                  /\ \A k \in 1 .. n : g[k] = Step(ctx, g[k - 1], seq[k])
                  /\ Fold(ctx, base, seq) = g[n]
<1> DEFINE iter == CHOOSE h : h = FoldFcn(h, ctx, base, seq, n)
           g == [k \in 0 .. n |-> iter[1 .. k]]
<1>1. Fold(ctx, base, seq) = iter[1 .. n]
  BY DEF Fold, FoldLeft, MapThenFoldSet, FoldFcn
<1>2. iter = FoldFcn(iter, ctx, base, seq, n)
  BY FoldExists
<1> HIDE DEF iter
<1>3. g[0] = base
  BY <1>2 DEF FoldFcn
<1>4. ASSUME NEW k \in 1 .. n
      PROVE  g[k] = Step(ctx, g[k - 1], seq[k])
  <2>1. Max(1 .. k) = k
    BY MaxOfSet
  <2>2. (1 .. k) \ {k} = 1 .. k - 1 /\ 1 .. k \in SUBSET (1 .. n) /\ 1 .. k # {}
    OBVIOUS
  <2>3. iter[1 .. k] = Step(ctx, iter[1 .. k - 1], seq[k])
    BY <1>2, <2>1, <2>2 DEF FoldFcn
  <2> QED  BY <2>3
<1>5. Fold(ctx, base, seq) = g[n]
  BY <1>1
<1> HIDE DEF g
<1> QED  BY <1>3, <1>4, <1>5

\* What holds before a loop and is kept by its body holds after it.
THEOREM FoldInvariant ==
    ASSUME NEW ctx, NEW base, NEW seq, NEW n \in Nat, DOMAIN seq = 1 .. n,
           Inv(ctx, base, 0),
           \A a : \A k \in 1 .. n : Inv(ctx, a, k - 1) => Inv(ctx, Step(ctx, a, seq[k]), k)
    PROVE  Inv(ctx, Fold(ctx, base, seq), n)
<1>1. PICK g : /\ g[0] = base
               /\ \A k \in 1 .. n : g[k] = Step(ctx, g[k - 1], seq[k])
               /\ Fold(ctx, base, seq) = g[n]
  BY FoldTrace
<1>2. \A k \in 1 .. n : Inv(ctx, g[k - 1], k - 1) => Inv(ctx, g[k], k)
  BY <1>1
<1>3. \A k \in 0 .. n : Inv(ctx, g[k], k)
  BY <1>1, <1>2, Upwards
<1> QED  BY <1>1, <1>3
=============================================================================
