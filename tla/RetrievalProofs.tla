--------------------------- MODULE RetrievalProofs ---------------------------
(***************************************************************************)
(* What the operators of Retrieval and Prompt compute, for any corpus, any *)
(* graph and any limits: the walk of the graph, the lanes and their fusion,*)
(* the prompt and its budget, the citations.                               *)
(*                                                                         *)
(* Folds and recursive functions are reasoned about by induction on a set  *)
(* of numbers (SetInduction), with the step of the recursion as a function.*)
(***************************************************************************)
EXTENDS Retrieval, Prompt, TLAPS, FiniteSetTheorems, WellFoundedInduction, SequenceTheorems

-----------------------------------------------------------------------------
(* Induction and folds                                                       *)

(* Induction over the natural numbers, with a set in the place of the        *)
(* predicate.                                                                *)
LEMMA SetInduction ==
    ASSUME NEW P, 0 \in P, \A n \in Nat : n \in P => n + 1 \in P
    PROVE  \A n \in Nat : n \in P
<1> DEFINE T == Nat \ P
<1> SUFFICES ASSUME T # {} PROVE FALSE
  OBVIOUS
<1>1. PICK x \in T : \A y \in T : ~ (<<y, x>> \in OpToRel(<, Nat))
  BY NatLessThanWellFounded, WFMin
<1>2. \A y \in T : ~(y < x)
  BY <1>1 DEF OpToRel
<1>3. x # 0 /\ x - 1 \in Nat /\ x - 1 \in P
  BY <1>2
<1> QED BY <1>3

(* The last of the first numbers.                                            *)
LEMMA MaxOfInitial ==
    ASSUME NEW k \in Nat, NEW S \in SUBSET (1..k), k \in S
    PROVE  Max(S) = k
<1>1. k \in S /\ \A y \in S : y \in Int /\ k >= y
  OBVIOUS
<1>2. Max(S) \in S /\ \A y \in S : Max(S) >= y
  BY <1>1 DEF Max
<1>3. ASSUME NEW m \in S, \A y \in S : m >= y PROVE m = k
  BY <1>1, <1>3
<1> QED BY <1>2, <1>3

(* A set of the first numbers has a last element.                            *)
LEMMA MaxIn ==
    ASSUME NEW n \in Nat, NEW S \in SUBSET (1..n), S # {}
    PROVE  Max(S) \in S
<1> DEFINE P == {k \in Nat : k <= n => \A T \in SUBSET (1..k) : T # {} => \E x \in T : \A y \in T : x >= y}
<1>1. 0 \in P
  <2>1. \A T \in SUBSET (1..0) : T = {}
    OBVIOUS
  <2> QED BY <2>1
<1>2. ASSUME NEW k \in Nat, k \in P PROVE k + 1 \in P
  <2> SUFFICES ASSUME NEW T \in SUBSET (1..(k+1)), T # {}, k + 1 <= n PROVE \E x \in T : \A y \in T : x >= y
    OBVIOUS
  <2>1. CASE k + 1 \in T
    BY <2>1
  <2>2. CASE k + 1 \notin T
    <3>1. \A x \in T : x \in 1..k
      BY <2>2
    <3> QED BY <1>2, <3>1
  <2> QED BY <2>1, <2>2
<1>3. n \in P
  <2> HIDE DEF P
  <2> QED BY <1>1, <1>2, SetInduction
<1>4. \E x \in S : \A y \in S : x >= y
  BY <1>3
<1> QED BY <1>4 DEF Max

(* A recursion over the subsets of 1..n that takes the last element off,     *)
(* which is what FoldLeft is defined by,                                     *)
Steps(step, base, n, X) == n \in Nat /\ base \in X /\ step \in [X \X (1..n) -> X]
Recursion(f, step, base, n, X) ==
    /\ f \in [SUBSET (1..n) -> X]
    /\ \A S \in SUBSET (1..n) : f[S] = IF S = {} THEN base ELSE step[<<f[S \ {Max(S)}], Max(S)>>]

(* has a solution.                                                           *)
LEMMA FoldLeftExists ==
    ASSUME NEW X, NEW base, NEW n, NEW step, Steps(step, base, n, X)
    PROVE  \E f : Recursion(f, step, base, n, X)
<1> USE DEF Steps
<1> DEFINE Sol(k, f) == \A S \in SUBSET (1..k) :
                f[S] = IF S = {} THEN base ELSE step[<<f[S \ {Max(S)}], Max(S)>>]
           Solved(k) == \E f \in [SUBSET (1..k) -> X] : Sol(k, f)
           P == {k \in Nat : k <= n => Solved(k)}
<1>1. Solved(0)
  <2> DEFINE g == [S \in SUBSET (1..0) |-> base]
  <2>1. g \in [SUBSET (1..0) -> X] /\ \A S \in SUBSET (1..0) : S = {} /\ g[S] = base
    OBVIOUS
  <2> HIDE DEF g
  <2> QED BY <2>1
<1>2. ASSUME NEW k \in Nat, Solved(k), k + 1 <= n PROVE Solved(k + 1)
  <2>1. PICK f \in [SUBSET (1..k) -> X] : Sol(k, f)
    BY <1>2
  <2> DEFINE g == [S \in SUBSET (1..(k+1)) |-> IF k + 1 \in S THEN step[<<f[S \ {k+1}], k + 1>>] ELSE f[S]]
  <2>2. ASSUME NEW S \in SUBSET (1..(k+1)), k + 1 \in S
        PROVE  /\ Max(S) = k + 1 /\ S \ {k+1} \in SUBSET (1..k) /\ k + 1 \in 1..n
               /\ f[S \ {k+1}] \in X /\ step[<<f[S \ {k+1}], k + 1>>] \in X
    <3>1. Max(S) = k + 1
      BY <2>2, MaxOfInitial
    <3>2. S \ {k+1} \in SUBSET (1..k) /\ k + 1 \in 1..n
      <4>1. \A x \in S \ {k+1} : x \in 1..k
        OBVIOUS
      <4> QED BY <4>1, <1>2
    <3>3. f[S \ {k+1}] \in X
      BY <3>2
    <3>4. <<f[S \ {k+1}], k + 1>> \in X \X (1..n)
      BY <3>2, <3>3
    <3> QED BY <3>1, <3>2, <3>3, <3>4
  <2>3. ASSUME NEW S \in SUBSET (1..(k+1)), k + 1 \notin S
        PROVE  S \in SUBSET (1..k) /\ f[S] \in X
    <3>1. \A x \in S : x \in 1..k
      BY <2>3
    <3> QED BY <3>1
  <2>4. g \in [SUBSET (1..(k+1)) -> X]
    BY <2>2, <2>3
  <2>5. ASSUME NEW S \in SUBSET (1..k) PROVE S \in SUBSET (1..(k+1)) /\ k + 1 \notin S /\ g[S] = f[S]
    OBVIOUS
  <2>6. ASSUME NEW S \in SUBSET (1..(k+1))
        PROVE  g[S] = IF S = {} THEN base ELSE step[<<g[S \ {Max(S)}], Max(S)>>]
    <3>1. CASE k + 1 \in S
      <4>1. g[S] = step[<<f[S \ {k+1}], k + 1>>] /\ S # {}
        BY <3>1
      <4> QED BY <3>1, <4>1, <2>2, <2>5
    <3>2. CASE k + 1 \notin S
      <4>1. S \in SUBSET (1..k) /\ g[S] = f[S]
        BY <3>2, <2>3
      <4>2. g[S \ {Max(S)}] = f[S \ {Max(S)}]
        BY <4>1, <2>5
      <4> HIDE DEF g
      <4> QED BY <4>1, <4>2, <2>1
    <3> QED BY <3>1, <3>2
  <2> HIDE DEF g
  <2> QED BY <2>4, <2>6
<1>3. Solved(n)
  <2> HIDE DEF Solved
  <2>1. 0 \in P /\ \A k \in Nat : k \in P => k + 1 \in P
    BY <1>1, <1>2
  <2> HIDE DEF P
  <2>2. n \in P
    BY <2>1, SetInduction
  <2> QED BY <2>2 DEF P
<1>4. PICK f \in [SUBSET (1..n) -> X] : Sol(n, f)
  BY <1>3
<1> QED BY <1>4 DEF Recursion

-----------------------------------------------------------------------------
(* Sums                                                                      *)

\* The element that SumFunction takes next.
Pick(S) == CHOOSE x \in S : TRUE

\* A sum takes one element of its set at a time.
Summing(f, g, D, S) == f[S] = IF S = {} THEN 0 ELSE g[Pick(S)] + f[S \ {Pick(S)}]

(* A set shrinks by the element that is picked.                              *)
LEMMA Picked ==
    ASSUME NEW D, IsFiniteSet(D), NEW S \in SUBSET D, S # {}
    PROVE  /\ Pick(S) \in S /\ S \ {Pick(S)} \in SUBSET D
           /\ Cardinality(S) \in Nat \ {0}
           /\ Cardinality(S \ {Pick(S)}) = Cardinality(S) - 1
<1>1. Pick(S) \in S
  BY DEF Pick
<1>2. IsFiniteSet(S)
  BY FS_Subset
<1>3. Cardinality(S) \in Nat /\ Cardinality(S) # 0
  BY <1>2, FS_CardinalityType, FS_EmptySet
<1>4. Cardinality(S \ {Pick(S)}) = Cardinality(S) - 1
  BY <1>1, <1>2, FS_RemoveElement
<1> QED BY <1>1, <1>3, <1>4

(* The recursion of SumFunction has a solution.                              *)
LEMMA SumExists ==
    ASSUME NEW D, IsFiniteSet(D), NEW g \in [D -> Nat]
    PROVE  \E f \in [SUBSET D -> Nat] : \A S \in SUBSET D : Summing(f, g, D, S)
<1> DEFINE Solved(k) == \E f \in [SUBSET D -> Nat] :
                            \A S \in SUBSET D : Cardinality(S) <= k => Summing(f, g, D, S)
           P == {k \in Nat : Solved(k)}
<1>1. ASSUME NEW S \in SUBSET D PROVE Cardinality(S) \in Nat /\ (Cardinality(S) = 0 <=> S = {})
                                      /\ Cardinality(S) <= Cardinality(D)
  <2>1. IsFiniteSet(S) /\ Cardinality(S) <= Cardinality(D)
    BY FS_Subset
  <2> QED BY <2>1, FS_CardinalityType, FS_EmptySet
<1>2. Solved(0)
  <2> DEFINE f == [S \in SUBSET D |-> 0]
  <2>1. f \in [SUBSET D -> Nat]
    OBVIOUS
  <2>2. \A S \in SUBSET D : Cardinality(S) <= 0 => Summing(f, g, D, S)
    BY <1>1 DEF Summing
  <2> HIDE DEF f
  <2> QED BY <2>1, <2>2
<1>3. ASSUME NEW k \in Nat, Solved(k) PROVE Solved(k + 1)
  <2>1. PICK f \in [SUBSET D -> Nat] : \A S \in SUBSET D : Cardinality(S) <= k => Summing(f, g, D, S)
    BY <1>3
  <2> DEFINE h == [S \in SUBSET D |-> IF Cardinality(S) <= k THEN f[S] ELSE g[Pick(S)] + f[S \ {Pick(S)}]]
  <2>2. h \in [SUBSET D -> Nat]
    <3>1. ASSUME NEW S \in SUBSET D, ~(Cardinality(S) <= k)
          PROVE  g[Pick(S)] + f[S \ {Pick(S)}] \in Nat
      <4>1. S # {}
        BY <1>1, <3>1
      <4>2. Pick(S) \in D /\ S \ {Pick(S)} \in SUBSET D
        BY <4>1, Picked
      <4> QED BY <4>2
    <3>2. \A S \in SUBSET D : f[S] \in Nat
      OBVIOUS
    <3> QED BY <3>1, <3>2
  <2>3. ASSUME NEW S \in SUBSET D, Cardinality(S) <= k + 1 PROVE Summing(h, g, D, S)
    <3>1. CASE S = {}
      BY <1>1, <2>1, <3>1 DEF Summing
    <3>2. CASE S # {}
      <4>1. /\ S \ {Pick(S)} \in SUBSET D
            /\ Cardinality(S) \in Nat /\ Cardinality(S \ {Pick(S)}) = Cardinality(S) - 1
        BY <3>2, Picked
      <4>2. Cardinality(S \ {Pick(S)}) <= k
        BY <2>3, <4>1
      <4>3. h[S \ {Pick(S)}] = f[S \ {Pick(S)}]
        BY <4>1, <4>2
      <4>4. h[S] = g[Pick(S)] + f[S \ {Pick(S)}]
        <5>1. CASE Cardinality(S) <= k
          BY <2>1, <3>2, <5>1 DEF Summing
        <5>2. CASE ~(Cardinality(S) <= k)
          BY <5>2
        <5> QED BY <5>1, <5>2
      <4> HIDE DEF h
      <4> QED BY <3>2, <4>3, <4>4 DEF Summing
    <3> QED BY <3>1, <3>2
  <2> HIDE DEF h
  <2> QED BY <2>2, <2>3
<1>4. Solved(Cardinality(D))
  <2> HIDE DEF Solved
  <2>1. Cardinality(D) \in Nat
    BY FS_CardinalityType
  <2>2. 0 \in P /\ \A k \in Nat : k \in P => k + 1 \in P
    BY <1>2, <1>3
  <2> HIDE DEF P
  <2>3. Cardinality(D) \in P
    BY <2>1, <2>2, SetInduction
  <2> QED BY <2>3 DEF P
<1> QED BY <1>1, <1>4

(* A sum of natural numbers is one, and it is positive if one of them is.    *)
LEMMA SumPositive ==
    ASSUME NEW D, IsFiniteSet(D), NEW g \in [D -> Nat]
    PROVE  SumFunction(g) \in Nat /\ (SumFunction(g) > 0 <=> \E d \in D : g[d] > 0)
<1> DEFINE Eq(f) == f = [S \in SUBSET D |-> IF S = {} THEN 0 ELSE g[Pick(S)] + f[S \ {Pick(S)}]]
           iter  == CHOOSE f : Eq(f)
<1>1. SumFunction(g) = iter[D]
  <2>1. DOMAIN g = D
    OBVIOUS
  <2> QED BY <2>1 DEF SumFunction, SumFunctionOnSet, FoldFunctionOnSet, MapThenFoldSet, Pick
<1>2. Eq(iter)
  <2>1. PICK f \in [SUBSET D -> Nat] : \A S \in SUBSET D : Summing(f, g, D, S)
    BY SumExists
  <2>2. Eq(f)
    <3>1. f = [S \in SUBSET D |-> f[S]]
      OBVIOUS
    <3> QED BY <2>1, <3>1 DEF Summing
  <2> HIDE DEF Eq
  <2> QED BY <2>2
<1> HIDE DEF iter
<1> DEFINE Right(S) == iter[S] \in Nat /\ (iter[S] > 0 <=> \E d \in S : g[d] > 0)
           P == {k \in Nat : \A S \in SUBSET D : Cardinality(S) = k => Right(S)}
<1>3. 0 \in P
  <2>1. ASSUME NEW S \in SUBSET D, Cardinality(S) = 0 PROVE Right(S)
    <3>1. S = {}
      BY <2>1, FS_Subset, FS_EmptySet
    <3>2. iter[S] = 0
      BY <1>2, <3>1
    <3> QED BY <3>1, <3>2
  <2> HIDE DEF Right
  <2> QED BY <2>1
<1>4. ASSUME NEW k \in Nat, k \in P PROVE k + 1 \in P
  <2>1. ASSUME NEW S \in SUBSET D, Cardinality(S) = k + 1 PROVE Right(S)
    <3> DEFINE x == Pick(S)
               T == S \ {x}
    <3>1. S # {}
      BY <2>1, FS_EmptySet
    <3>2. x \in S /\ T \in SUBSET D /\ Cardinality(T) = k
      BY <2>1, <3>1, Picked
    <3>3. iter[S] = g[x] + iter[T]
      BY <1>2, <3>1
    <3> HIDE DEF x, Right
    <3>4. Right(T)
      BY <1>4, <3>2
    <3>5. g[x] \in Nat
      BY <3>2
    <3>6. (\E d \in S : g[d] > 0) <=> (g[x] > 0 \/ \E d \in T : g[d] > 0)
      BY <3>2
    <3> HIDE DEF T
    <3> QED BY <3>3, <3>4, <3>5, <3>6 DEF Right
  <2> HIDE DEF Right
  <2> QED BY <2>1
<1>5. Cardinality(D) \in P
  <2> HIDE DEF P
  <2>1. Cardinality(D) \in Nat
    BY FS_CardinalityType
  <2> QED BY <1>3, <1>4, <2>1, SetInduction
<1>6. Right(D)
  <2> HIDE DEF Right
  <2> QED BY <1>5
<1> QED BY <1>1, <1>6

-----------------------------------------------------------------------------
(* The walk of the graph                                                     *)

\* A sequence of values, each made of the one before it.
Runs(a, step, base, n) == a[0] = base /\ \A i \in 1..n : a[i] = step[<<a[i - 1], i>>]

(* A recursion over the first numbers has a solution.                        *)
LEMMA RunExists ==
    ASSUME NEW X, NEW base, NEW n, NEW step, Steps(step, base, n, X)
    PROVE  \E a \in [0..n -> X] : Runs(a, step, base, n)
<1> USE DEF Steps
<1> DEFINE Solved(k) == \E a \in [0..k -> X] : Runs(a, step, base, k)
           P == {k \in Nat : k <= n => Solved(k)}
<1>1. Solved(0)
  <2> DEFINE a == [i \in 0..0 |-> base]
  <2>1. a \in [0..0 -> X] /\ a[0] = base
    OBVIOUS
  <2> HIDE DEF a
  <2> QED BY <2>1 DEF Runs
<1>2. ASSUME NEW k \in Nat, Solved(k), k + 1 <= n PROVE Solved(k + 1)
  <2>1. PICK a \in [0..k -> X] : Runs(a, step, base, k)
    BY <1>2
  <2> DEFINE b == [i \in 0..(k + 1) |-> IF i <= k THEN a[i] ELSE step[<<a[k], k + 1>>]]
  <2>2. b \in [0..(k + 1) -> X]
    <3>1. a[k] \in X /\ k + 1 \in 1..n
      BY <1>2
    <3>2. <<a[k], k + 1>> \in X \X (1..n)
      BY <3>1
    <3>3. step[<<a[k], k + 1>>] \in X
      BY <3>2
    <3> QED BY <3>3
  <2>3. b[0] = base
    BY <2>1 DEF Runs
  <2>4. ASSUME NEW i \in 1..(k + 1) PROVE b[i] = step[<<b[i - 1], i>>]
    <3>1. CASE i \in 1..k
      <4>1. a[i] = step[<<a[i - 1], i>>] /\ b[i] = a[i] /\ b[i - 1] = a[i - 1]
        BY <2>1, <3>1 DEF Runs
      <4> QED BY <4>1
    <3>2. CASE i = k + 1
      <4>1. b[i] = step[<<a[k], k + 1>>] /\ b[i - 1] = a[k]
        BY <3>2
      <4> QED BY <3>2, <4>1
    <3> QED BY <3>1, <3>2
  <2> HIDE DEF b
  <2> QED BY <2>2, <2>3, <2>4 DEF Runs
<1>3. n \in P
  <2> HIDE DEF Solved
  <2>1. 0 \in P /\ \A k \in Nat : k \in P => k + 1 \in P
    BY <1>1, <1>2
  <2> HIDE DEF P
  <2> QED BY <2>1, SetInduction
<1> QED BY <1>3

\* The ways to stand at e after one more step.
Grown(w) == [e \in Entities |-> SumFunction([x \in {y \in Relationships : e \in Ends(y)} |-> w[Other(x, e)]])]
Seeded(S) == [e \in Entities |-> IF e \in S THEN 1 ELSE 0]

(* A count grows only over relationships that touch the entity.              *)
LEMMA GrownType ==
    ASSUME NEW w \in [Entities -> Nat]
    PROVE  /\ Grown(w) \in [Entities -> Nat]
           /\ \A e \in Entities : Grown(w)[e] > 0 <=>
                \E x \in Relationships : e \in Ends(x) /\ w[Other(x, e)] > 0
<1>1. ASSUME NEW e \in Entities
      PROVE  LET D == {y \in Relationships : e \in Ends(y)}
                 g == [x \in D |-> w[Other(x, e)]]
             IN  SumFunction(g) \in Nat /\ (SumFunction(g) > 0 <=> \E x \in D : w[Other(x, e)] > 0)
  <2> DEFINE D == {y \in Relationships : e \in Ends(y)}
             g == [x \in D |-> w[Other(x, e)]]
  <2>1. IsFiniteSet(D)
    BY RetrievalAssumption, FS_Subset
  <2>2. \A x \in D : Other(x, e) \in Entities
    BY RetrievalAssumption DEF Other
  <2>3. g \in [D -> Nat] /\ \A x \in D : g[x] = w[Other(x, e)]
    BY <2>2
  <2> HIDE DEF D, g
  <2>4. SumFunction(g) \in Nat /\ (SumFunction(g) > 0 <=> \E x \in D : w[Other(x, e)] > 0)
    BY <2>1, <2>3, SumPositive
  <2> QED BY <2>4 DEF D, g
<1> QED BY <1>1 DEF Grown

(* The rows of the walk, by the number of its steps.                         *)
IsWalk(w, S, hops) ==
    /\ w \in [0..hops -> [Entities -> Nat]]
    /\ w[0] = Seeded(S)
    /\ \A d \in 0..(hops - 1) : w[d + 1] = Grown(w[d])
    /\ walked(S, hops) = [e \in Entities |-> SumFunction([d \in 0..hops |-> w[d][e]])]

(* The walks are counted depth by depth.                                     *)
LEMMA WalksTrace ==
    ASSUME NEW S, NEW hops \in Nat
    PROVE  \E w : IsWalk(w, S, hops)
<1> DEFINE X    == [Entities -> Nat]
           base == Seeded(S)
           step == [p \in X \X (1..hops) |-> Grown(p[1])]
           Eq(f) == f = [d \in 0..hops |-> IF d = 0 THEN Seeded(S) ELSE Grown(f[d - 1])]
           walks == CHOOSE f : Eq(f)
<1>1. walked(S, hops) = [e \in Entities |-> SumFunction([d \in 0..hops |-> walks[d][e]])]
  BY DEF walked, Seeded, Grown
<1>2. Steps(step, base, hops, X)
  <2>1. base \in X
    BY DEF Seeded
  <2>2. step \in [X \X (1..hops) -> X]
    BY GrownType
  <2> QED BY <2>1, <2>2 DEF Steps
<1>3. PICK a \in [0..hops -> X] : Runs(a, step, base, hops)
  <2> HIDE DEF step, base, X
  <2> QED BY <1>2, RunExists
<1>4. Eq(a)
  <2>1. a = [d \in 0..hops |-> a[d]]
    OBVIOUS
  <2>2. ASSUME NEW d \in 0..hops, d # 0 PROVE a[d] = Grown(a[d - 1])
    <3>1. d \in 1..hops /\ a[d - 1] \in X
      BY <2>2
    <3>2. <<a[d - 1], d>> \in X \X (1..hops)
      BY <3>1
    <3> HIDE DEF X
    <3> QED BY <1>3, <3>1, <3>2 DEF Runs
  <2>3. a[0] = Seeded(S)
    BY <1>3 DEF Runs
  <2> QED BY <2>1, <2>2, <2>3
<1>5. Eq(walks)
  <2> HIDE DEF Eq
  <2> QED BY <1>4
<1> HIDE DEF walks
<1> DEFINE P == {k \in Nat : k <= hops => walks[k] \in X}
<1>6. 0 \in P
  BY <1>5 DEF Seeded
<1>7. ASSUME NEW k \in Nat, k \in P PROVE k + 1 \in P
  <2> SUFFICES ASSUME k + 1 <= hops PROVE walks[k + 1] \in X
    OBVIOUS
  <2>1. walks[k] \in X
    BY <1>7
  <2>2. walks[k + 1] = Grown(walks[k])
    BY <1>5
  <2> QED BY <2>1, <2>2, GrownType
<1>8. \A k \in Nat : k \in P
  <2> HIDE DEF P
  <2> QED BY <1>6, <1>7, SetInduction
<1>9. walks \in [0..hops -> X]
  <2>1. walks = [d \in 0..hops |-> walks[d]]
    BY <1>5
  <2> HIDE DEF X
  <2> QED BY <1>8, <2>1
<1>10. walks[0] = Seeded(S) /\ \A d \in 0..(hops - 1) : walks[d + 1] = Grown(walks[d])
  BY <1>5
<1> QED BY <1>1, <1>9, <1>10 DEF IsWalk

(* The entities within a number of relationships, by that number.            *)
More(R) == R \union UNION {Ends(x) : x \in {y \in Relationships : Ends(y) \cap R # {}}}

\* What can be reached, by the number of steps.
IsReach(reach, S, hops) ==
    /\ reach \in [0..hops -> SUBSET Entities]
    /\ reach[0] = S
    /\ \A d \in 0..(hops - 1) : reach[d + 1] = More(reach[d])
    /\ Within(S, hops) = reach[hops]

(* So is what the walk may reach.                                            *)
LEMMA ReachTrace ==
    ASSUME NEW S \in SUBSET Entities, NEW hops \in Nat
    PROVE  \E reach : IsReach(reach, S, hops)
<1> DEFINE X    == SUBSET Entities
           step == [p \in X \X (1..hops) |-> More(p[1])]
           Eq(f) == f = [d \in 0..hops |-> IF d = 0 THEN S ELSE More(f[d - 1])]
           reach == CHOOSE f : Eq(f)
<1>1. Within(S, hops) = reach[hops]
  BY DEF Within, More
<1>2. ASSUME NEW R \in X PROVE More(R) \in X
  BY RetrievalAssumption DEF Ends, More
<1>3. Steps(step, S, hops, X)
  <2>1. step \in [X \X (1..hops) -> X]
    BY <1>2
  <2> QED BY <2>1 DEF Steps
<1>4. PICK a \in [0..hops -> X] : Runs(a, step, S, hops)
  <2> HIDE DEF step, X
  <2> QED BY <1>3, RunExists
<1>5. Eq(a)
  <2>1. a = [d \in 0..hops |-> a[d]]
    OBVIOUS
  <2>2. ASSUME NEW d \in 0..hops, d # 0 PROVE a[d] = More(a[d - 1])
    <3>1. d \in 1..hops /\ a[d - 1] \in X
      BY <2>2
    <3>2. <<a[d - 1], d>> \in X \X (1..hops)
      BY <3>1
    <3> HIDE DEF X
    <3> QED BY <1>4, <3>1, <3>2 DEF Runs
  <2>3. a[0] = S
    BY <1>4 DEF Runs
  <2> QED BY <2>1, <2>2, <2>3
<1>6. Eq(reach)
  <2> HIDE DEF Eq
  <2> QED BY <1>5
<1> HIDE DEF reach
<1> DEFINE P == {k \in Nat : k <= hops => reach[k] \in X}
<1>7. 0 \in P
  BY <1>6
<1>8. ASSUME NEW k \in Nat, k \in P PROVE k + 1 \in P
  <2> SUFFICES ASSUME k + 1 <= hops PROVE reach[k + 1] \in X
    OBVIOUS
  <2>1. reach[k] \in X /\ reach[k + 1] = More(reach[k])
    BY <1>6, <1>8
  <2> QED BY <1>2, <2>1
<1>9. \A k \in Nat : k \in P
  <2> HIDE DEF P
  <2> QED BY <1>7, <1>8, SetInduction
<1>10. reach \in [0..hops -> X]
  <2>1. reach = [d \in 0..hops |-> reach[d]]
    BY <1>6
  <2> HIDE DEF X
  <2> QED BY <1>9, <2>1
<1>11. reach[0] = S /\ \A d \in 0..(hops - 1) : reach[d + 1] = More(reach[d])
  BY <1>6
<1> QED BY <1>1, <1>10, <1>11 DEF IsReach

(* The walk has a row for exactly the entities within its number of steps.   *)
THEOREM WalkFindsNeighbours ==
    ASSUME NEW S \in SUBSET Entities, NEW hops \in Nat
    PROVE  /\ walked(S, hops) \in [Entities -> Nat]
           /\ \A e \in Entities : walked(S, hops)[e] > 0 <=> e \in Within(S, hops)
           /\ Within(S, hops) \subseteq Entities
<1>1. PICK w : IsWalk(w, S, hops)
  BY WalksTrace
<1>2. PICK reach : IsReach(reach, S, hops)
  BY ReachTrace
<1>3. ASSUME NEW k \in Nat, k + 1 <= hops, NEW e \in Entities
      PROVE  e \in reach[k + 1] <=>
                \/ e \in reach[k]
                \/ \E x \in Relationships : e \in Ends(x) /\ Other(x, e) \in reach[k]
  <2>1. reach[k + 1] = More(reach[k])
    BY <1>2, <1>3 DEF IsReach
  <2>2. e \in reach[k + 1] <=> e \in reach[k] \/ \E x \in Relationships : e \in Ends(x) /\ Ends(x) \cap reach[k] # {}
    BY <2>1 DEF More
  <2>3. ASSUME NEW x \in Relationships, e \in Ends(x)
        PROVE  Ends(x) \cap reach[k] # {} <=> e \in reach[k] \/ Other(x, e) \in reach[k]
    BY <2>3 DEF Ends, Other
  <2> QED BY <2>2, <2>3
<1> DEFINE Same(k) == \A e \in Entities : e \in reach[k] <=> \E d \in 0..k : w[d][e] > 0
           P == {k \in Nat : k <= hops => Same(k)}
<1>4. Same(0)
  BY <1>1, <1>2 DEF Seeded, IsWalk, IsReach
<1>5. ASSUME NEW k \in Nat, Same(k), k + 1 <= hops PROVE Same(k + 1)
  <2> SUFFICES ASSUME NEW e \in Entities
               PROVE  e \in reach[k + 1] <=> \E d \in 0..(k + 1) : w[d][e] > 0
    OBVIOUS
  <2>1. \A f \in Entities : f \in reach[k] <=> \E d \in 0..k : w[d][f] > 0
    BY <1>5
  <2>2. ASSUME NEW d \in 0..k
        PROVE  w[d + 1][e] > 0 <=> \E x \in Relationships : e \in Ends(x) /\ w[d][Other(x, e)] > 0
    <3>1. w[d] \in [Entities -> Nat] /\ w[d + 1] = Grown(w[d])
      BY <1>1, <1>5 DEF IsWalk
    <3> QED BY <3>1, GrownType
  <2>3. ASSUME NEW x \in Relationships PROVE Other(x, e) \in Entities
    BY RetrievalAssumption DEF Other
  <2>6. e \in reach[k + 1] <=>
            \/ e \in reach[k]
            \/ \E x \in Relationships : e \in Ends(x) /\ Other(x, e) \in reach[k]
    <3> HIDE DEF Same
    <3> QED BY <1>3, <1>5
  <2>4. ASSUME e \in reach[k + 1] PROVE \E d \in 0..(k + 1) : w[d][e] > 0
    <3>1. CASE e \in reach[k]
      <4>1. PICK d \in 0..k : w[d][e] > 0
        BY <2>1, <3>1
      <4> QED BY <4>1
    <3>2. ASSUME NEW x \in Relationships, e \in Ends(x), Other(x, e) \in reach[k]
          PROVE  \E d \in 0..(k + 1) : w[d][e] > 0
      <4>1. PICK d \in 0..k : w[d][Other(x, e)] > 0
        BY <2>1, <2>3, <3>2
      <4>2. w[d + 1][e] > 0 /\ d + 1 \in 0..(k + 1)
        BY <2>2, <3>2, <4>1
      <4> QED BY <4>2
    <3> QED BY <2>6, <2>4, <3>1, <3>2
  <2>5. ASSUME NEW d \in 0..(k + 1), w[d][e] > 0 PROVE e \in reach[k + 1]
    <3>1. CASE d \in 0..k
      BY <2>6, <2>1, <2>5, <3>1
    <3>2. CASE d = k + 1
      <4>1. PICK x \in Relationships : e \in Ends(x) /\ w[k][Other(x, e)] > 0
        <5>1. k \in 0..k /\ w[k + 1][e] > 0
          BY <2>5, <3>2
        <5> QED BY <2>2, <5>1
      <4>2. Other(x, e) \in reach[k]
        BY <2>1, <2>3, <4>1
      <4> QED BY <2>6, <4>1, <4>2
    <3> QED BY <3>1, <3>2
  <2> QED BY <2>4, <2>5
<1>6. hops \in P
  <2> HIDE DEF Same
  <2>1. 0 \in P /\ \A k \in Nat : k \in P => k + 1 \in P
    BY <1>4, <1>5
  <2> HIDE DEF P
  <2> QED BY <2>1, SetInduction
<1>7. ASSUME NEW e \in Entities
      PROVE  /\ walked(S, hops)[e] \in Nat
             /\ walked(S, hops)[e] > 0 <=> \E d \in 0..hops : w[d][e] > 0
  <2> DEFINE g == [d \in 0..hops |-> w[d][e]]
  <2>1. g \in [0..hops -> Nat] /\ IsFiniteSet(0..hops)
    BY <1>1, FS_Interval DEF IsWalk
  <2>2. walked(S, hops)[e] = SumFunction(g)
    BY <1>1 DEF IsWalk
  <2>3. \A d \in 0..hops : g[d] = w[d][e]
    OBVIOUS
  <2> HIDE DEF g
  <2> QED BY <2>1, <2>2, <2>3, SumPositive
<1>8. walked(S, hops) = [e \in Entities |-> walked(S, hops)[e]]
  BY <1>1 DEF IsWalk
<1>9. walked(S, hops) \in [Entities -> Nat]
  BY <1>7, <1>8
<1>10. reach[hops] \subseteq Entities /\ Within(S, hops) = reach[hops]
  BY <1>2 DEF IsReach
<1> QED BY <1>6, <1>7, <1>9, <1>10

-----------------------------------------------------------------------------
(* The units of the scores                                                   *)

(* A multiple divides without a remainder: the unit of the scores is exact.  *)
LEMMA ExactQuotient ==
    ASSUME NEW m \in Nat, NEW k \in Nat \ {0}
    PROVE  (m * k) \div k = m
<1> DEFINE q == (m * k) \div k
<1>1. m * k \in Nat
  OBVIOUS
<1>2. q \in Int /\ k * q <= m * k /\ m * k < k * q + k
  BY <1>1
<1> HIDE DEF q
<1>3. ~(q > m)
  <2> SUFFICES ASSUME q >= m + 1 PROVE FALSE
    BY <1>2
  <2>1. k * q >= k * (m + 1)
    BY <1>2
  <2>2. k * (m + 1) = m * k + k
    OBVIOUS
  <2> QED BY <1>2, <2>1, <2>2
<1>4. ~(q < m)
  <2> SUFFICES ASSUME q + 1 <= m PROVE FALSE
    BY <1>2
  <2>1. k * (q + 1) <= k * m
    BY <1>2
  <2>2. k * (q + 1) = k * q + k
    BY <1>2
  <2> QED BY <1>2, <2>1, <2>2
<1>5. q = m
  BY <1>2, <1>3, <1>4
<1> QED BY <1>5 DEF q

(* The products that make up Unit.                                           *)
LEMMA UnitTrace ==
    \E a : /\ a[0] = 1 /\ \A i \in 1..LaneLimit : a[i] = a[i - 1] * (RRF_K + i)
           /\ a[LaneLimit] = Unit
<1> DEFINE n     == LaneLimit
           s     == [i \in 1..n |-> i]
           Eq(f) == f = [S \in SUBSET (1..n) |-> IF S = {} THEN 1 ELSE f[S \ {Max(S)}] * (RRF_K + s[Max(S)])]
           iter  == CHOOSE f : Eq(f)
           X     == Int
           base  == 1
           step  == [p \in X \X (1..n) |-> p[1] * (RRF_K + p[2])]
<1>1. Unit = iter[1..n]
  <2>1. DOMAIN s = 1..n
    OBVIOUS
  <2> QED BY <2>1 DEF Unit, FoldLeft, MapThenFoldSet
<1>2. n \in Nat /\ RRF_K \in Nat
  BY RetrievalAssumption DEF RRF_K
<1> HIDE DEF n
<1>3. Steps(step, base, n, X)
  BY <1>2 DEF Steps
<1>4. PICK f : Recursion(f, step, base, n, X)
  <2> HIDE DEF step, X, base
  <2> QED BY <1>3, FoldLeftExists
<1>5. ASSUME NEW S \in SUBSET (1..n), S # {}
      PROVE  Max(S) \in 1..n /\ f[S] = f[S \ {Max(S)}] * (RRF_K + s[Max(S)])
  <2>1. Max(S) \in S
    BY <1>5, MaxIn, <1>2
  <2>2. f[S \ {Max(S)}] \in Int /\ Max(S) \in 1..n
    BY <1>4, <2>1 DEF Recursion
  <2> QED BY <1>4, <1>5, <2>2 DEF Recursion
<1>6. Eq(f)
  <2>1. f = [S \in SUBSET (1..n) |-> f[S]]
    BY <1>4 DEF Recursion
  <2>2. f[{}] = 1
    BY <1>4 DEF Recursion
  <2> QED BY <1>5, <2>1, <2>2
<1>7. Eq(iter)
  <2> HIDE DEF Eq
  <2> QED BY <1>6
<1> DEFINE a == [i \in 0..n |-> iter[1..i]]
<1> HIDE DEF iter
<1>8. a[0] = 1
  BY <1>2, <1>7
<1>9. ASSUME NEW i \in 1..n PROVE a[i] = a[i - 1] * (RRF_K + i)
  <2>1. Max(1..i) = i /\ (1..i) \ {i} = 1..(i-1) /\ s[i] = i
    BY MaxOfInitial
  <2>2. 1..i \in SUBSET (1..n) /\ 1..i # {}
    <3>1. i \in 1..i /\ \A x \in 1..i : x \in 1..n
      BY <1>2
    <3> QED BY <3>1
  <2>3. iter[1..i] = iter[1..(i-1)] * (RRF_K + i)
    BY <1>7, <2>1, <2>2
  <2> QED BY <1>2, <2>3
<1>10. a[n] = Unit
  BY <1>1, <1>2
<1> HIDE DEF a
<1> QED BY <1>8, <1>9, <1>10 DEF n

(* Every rank of a lane divides the unit.                                    *)
LEMMA UnitDivides ==
    ASSUME NEW rk \in 1..LaneLimit
    PROVE  \E m \in Nat \ {0} : Unit = m * (RRF_K + rk)
<1>1. PICK a : /\ a[0] = 1 /\ \A i \in 1..LaneLimit : a[i] = a[i - 1] * (RRF_K + i)
               /\ a[LaneLimit] = Unit
  BY UnitTrace
<1> DEFINE Divided(k) == /\ a[k] \in Nat \ {0}
                         /\ rk <= k => \E m \in Nat \ {0} : a[k] = m * (RRF_K + rk)
           P == {k \in Nat : k <= LaneLimit => Divided(k)}
<1>2. LaneLimit \in Nat /\ RRF_K \in Nat
  BY RetrievalAssumption DEF RRF_K
<1>3. Divided(0)
  BY <1>1
<1>4. ASSUME NEW k \in Nat, Divided(k), k + 1 <= LaneLimit PROVE Divided(k + 1)
  <2>1. a[k + 1] = a[k] * (RRF_K + (k + 1))
    BY <1>1, <1>2, <1>4
  <2>2. a[k] \in Nat \ {0} /\ RRF_K + (k + 1) \in Nat \ {0}
    BY <1>2, <1>4
  <2>3. a[k + 1] \in Nat \ {0}
    BY <2>1, <2>2
  <2>4. CASE rk = k + 1
    BY <2>1, <2>2, <2>3, <2>4
  <2>5. CASE rk <= k
    <3>1. PICK m \in Nat \ {0} : a[k] = m * (RRF_K + rk)
      BY <1>4, <2>5
    <3> DEFINE x == RRF_K + rk
               y == RRF_K + (k + 1)
    <3>2. x \in Nat /\ y \in Nat \ {0}
      BY <1>2
    <3>3. a[k + 1] = (m * x) * y
      BY <2>1, <3>1
    <3> HIDE DEF x, y
    <3>4. (m * x) * y = (m * y) * x /\ m * y \in Nat \ {0}
      BY <3>2
    <3>5. \E l \in Nat \ {0} : a[k + 1] = l * x
      BY <3>3, <3>4
    <3> QED BY <2>3, <3>5 DEF x
  <2>6. CASE rk > k + 1
    BY <2>3, <2>6
  <2> QED BY <2>4, <2>5, <2>6
<1>5. Divided(LaneLimit)
  <2> HIDE DEF Divided
  <2>1. 0 \in P /\ \A k \in Nat : k \in P => k + 1 \in P
    BY <1>2, <1>3, <1>4
  <2> HIDE DEF P
  <2>2. LaneLimit \in P
    BY <1>2, <2>1, SetInduction
  <2> QED BY <1>2, <2>2 DEF P
<1> QED BY <1>1, <1>2, <1>5

(* A share is worth something, and a better rank's is worth more.            *)
LEMMA ShareOrder ==
    ASSUME NEW p \in 1..LaneLimit
    PROVE  /\ Share(1, p) \in Nat \ {0}
           /\ \A q \in 1..LaneLimit : p < q => Share(1, p) > Share(1, q)
<1> DEFINE D(x) == RRF_K + x
<1>1. LaneLimit \in Nat /\ RRF_K \in Nat
  BY RetrievalAssumption DEF RRF_K
<1>2. ASSUME NEW x \in 1..LaneLimit
      PROVE  Share(1, x) \in Nat \ {0} /\ Unit = Share(1, x) * D(x)
  <2>1. PICK m \in Nat \ {0} : Unit = m * D(x)
    BY UnitDivides
  <2>2. D(x) \in Nat \ {0} /\ x # 0
    BY <1>1
  <2> HIDE DEF D
  <2>3. Unit \div D(x) = m
    BY <2>1, <2>2, ExactQuotient
  <2>4. Share(1, x) = 1 * (Unit \div D(x))
    BY <2>2 DEF Share, D
  <2> QED BY <2>1, <2>3, <2>4
<1>3. ASSUME NEW q \in 1..LaneLimit, p < q PROVE Share(1, p) > Share(1, q)
  <2> DEFINE u == Share(1, p)
             v == Share(1, q)
  <2>1. u \in Nat \ {0} /\ v \in Nat \ {0} /\ u * D(p) = v * D(q)
    BY <1>2
  <2>2. D(p) \in Nat \ {0} /\ D(q) \in Nat \ {0} /\ D(p) < D(q)
    BY <1>1, <1>3
  <2> HIDE DEF u, v, D
  <2>3. ~(u <= v)
    <3> SUFFICES ASSUME u <= v PROVE FALSE
      OBVIOUS
    <3>1. u * D(p) <= v * D(p)
      BY <2>1, <2>2
    <3>2. v * D(p) < v * D(q)
      BY <2>1, <2>2
    <3>3. u * D(p) \in Nat /\ v * D(p) \in Nat /\ v * D(q) \in Nat
      BY <2>1, <2>2
    <3> QED BY <2>1, <3>1, <3>2, <3>3
  <2>4. u > v
    BY <2>1, <2>3
  <2> QED BY <2>4 DEF u, v
<1> QED BY <1>2, <1>3

-----------------------------------------------------------------------------
(* Lanes                                                                     *)

(* Least picks the smaller of two numbers.                                   *)
LEMMA LeastOfTwo ==
    ASSUME NEW a \in Nat, NEW b \in Nat
    PROVE  Least({a, b}) \in {a, b} /\ Least({a, b}) <= a /\ Least({a, b}) <= b
<1>1. \E x \in {a, b} : \A y \in {a, b} : x <= y
  <2>1. CASE a <= b
    BY <2>1
  <2>2. CASE ~(a <= b)
    <3>1. b <= a /\ b <= b
      BY <2>2
    <3> QED BY <3>1
  <2> QED BY <2>1, <2>2
<1> QED BY <1>1 DEF Least

\* A lane ranks some of S, none of them twice.
Ranking(s, S) == s \in Seq(S) /\ \A i, j \in 1..Len(s) : i # j => s[i] # s[j]

(* A ranking of some chunks ranks some of more chunks.                       *)
LEMMA RankingGrows ==
    ASSUME NEW S, NEW T, S \subseteq T, NEW s, Ranking(s, S)
    PROVE  Ranking(s, T)
<1>1. s \in Seq(S) /\ \A i, j \in 1..Len(s) : i # j => s[i] # s[j]
  BY DEF Ranking
<1>2. s \in Seq(T)
  BY <1>1, SeqMonotonic
<1> QED BY <1>1, <1>2 DEF Ranking

(* A sequence without repetition is as long as the set of its elements.      *)
LEMMA DistinctCount ==
    ASSUME NEW n \in Nat, NEW s, DOMAIN s = 1..n, \A i, j \in 1..n : i # j => s[i] # s[j],
           s = [i \in 1..n |-> s[i]]
    PROVE  IsFiniteSet(ToSet(s)) /\ Cardinality(ToSet(s)) = n
<1>1. s \in [1..n -> ToSet(s)]
  BY DEF ToSet
<1>2. \A x \in ToSet(s) : \E i \in 1..n : s[i] = x
  BY DEF ToSet
<1>3. s \in Bijection(1..n, ToSet(s))
  BY <1>1, <1>2 DEF Bijection, Injection, Surjection, IsInjective
<1>4. IsFiniteSet(1..n) /\ Cardinality(1..n) = n
  <2>1. 1 \in Int /\ n \in Int
    OBVIOUS
  <2>2. IsFiniteSet(1..n) /\ Cardinality(1..n) = IF 1 > n THEN 0 ELSE n - 1 + 1
    BY <2>1, FS_Interval
  <2> QED BY <2>2
<1> QED BY <1>3, <1>4, FS_Bijection DEF ExistsBijection

(* The first rows of an ordering of S.                                       *)
LEMMA OrderingOf ==
    ASSUME NEW S, IsFiniteSet(S), NEW t \in SetToSeqs(S), NEW limit \in Nat
    PROVE  LET s == SubSeq(t, 1, Least({Len(t), limit}))
           IN  /\ Len(t) = Cardinality(S) /\ Ranking(t, S)
               /\ Ranking(s, S)
               /\ Len(s) = Least({Cardinality(S), limit}) /\ Len(s) <= limit
               /\ \A i \in 1..Len(s) : i \in 1..Len(t) /\ s[i] = t[i]
<1> DEFINE n == Cardinality(S)
           m == Least({Len(t), limit})
           s == SubSeq(t, 1, m)
<1>1. n \in Nat
  BY FS_CardinalityType
<1>2. t \in [1..n -> S] /\ \A i, j \in 1..n : i # j => t[i] # t[j]
  BY DEF SetToSeqs
<1> HIDE DEF n
<1>3. t \in Seq(S) /\ Len(t) = n
  BY <1>1, <1>2
<1>4. m \in Nat /\ m <= n /\ m <= limit
  BY <1>1, <1>3, LeastOfTwo
<1>5. m = Least({n, limit})
  BY <1>3
<1> HIDE DEF m
<1>6. s \in Seq(S) /\ Len(s) = m /\ \A i \in 1..m : i \in 1..n /\ s[i] = t[i]
  BY <1>1, <1>3, <1>4
<1> HIDE DEF s
<1>7. Ranking(s, S) /\ Ranking(t, S)
  BY <1>2, <1>3, <1>6 DEF Ranking
<1> QED BY <1>3, <1>4, <1>5, <1>6, <1>7 DEF n, m, s

(* The empty lane is the only one of no chunks.                              *)
LEMMA EmptyLane ==
    /\ Ranking(<<>>, {})
    /\ \A s : Ranking(s, {}) => s = <<>>
  BY DEF Ranking

\* The chunks a lane may rank, and a list that a lane may return.
InReach(r, stored) == {c \in stored : InScope(c, r)}

IsLane(s, r, stored) == Ranking(s, InReach(r, stored)) /\ Len(s) <= LaneLimit

(* A lane of some chunks that are in scope.                                  *)
LEMMA LaneOf ==
    ASSUME NEW r, NEW stored \in SUBSET Chunks, NEW S \in SUBSET InReach(r, stored), NEW t \in SetToSeqs(S)
    PROVE  /\ IsLane(Limited(t), r, stored)
           /\ Ranking(Limited(t), S)
           /\ Len(Limited(t)) = Least({Cardinality(S), LaneLimit})
<1>1. IsFiniteSet(S) /\ LaneLimit \in Nat
  <2>1. S \subseteq Chunks
    BY DEF InReach
  <2> QED BY <2>1, RetrievalAssumption, FS_Subset
<1>2. Ranking(Limited(t), S) /\ Len(Limited(t)) = Least({Cardinality(S), LaneLimit}) /\ Len(Limited(t)) <= LaneLimit
  BY <1>1, OrderingOf DEF Limited
<1>3. Ranking(Limited(t), InReach(r, stored))
  BY <1>2, RankingGrows
<1> QED BY <1>2, <1>3 DEF IsLane

(* The lanes by distance and by words rank chunks that are in scope, and     *)
(* none in a mode that does not use them.                                    *)
LEMMA TextLanes ==
    ASSUME NEW r, NEW stored \in SUBSET Chunks, NEW s
    PROVE  /\ s \in vec_lane(r, stored) => IsLane(s, r, stored) /\ (uses_vector(r.mode) \/ s = <<>>)
           /\ s \in bm_lane(r, stored)  => IsLane(s, r, stored) /\ (uses_bm25(r.mode) \/ s = <<>>)
<1>1. ASSUME NEW S \in SUBSET InReach(r, stored), s \in {Limited(t) : t \in SetToSeqs(S)}
      PROVE  IsLane(s, r, stored) /\ (S = {} => s = <<>>)
  BY <1>1, LaneOf, EmptyLane
<1>2. ASSUME s \in vec_lane(r, stored) PROVE IsLane(s, r, stored) /\ (uses_vector(r.mode) \/ s = <<>>)
  <2> DEFINE S == IF uses_vector(r.mode) THEN {c \in stored : InScope(c, r)} ELSE {}
  <2>1. PICK T \in SUBSET S : s \in {Limited(t) : t \in SetToSeqs(T)}
    BY <1>2 DEF vec_lane
  <2>2. S \subseteq InReach(r, stored) /\ (uses_vector(r.mode) \/ S = {})
    BY DEF InReach
  <2> HIDE DEF S
  <2> QED BY <1>1, <2>1, <2>2
<1>3. ASSUME s \in bm_lane(r, stored) PROVE IsLane(s, r, stored) /\ (uses_bm25(r.mode) \/ s = <<>>)
  <2> DEFINE S == IF uses_bm25(r.mode) THEN {c \in stored : c \in r.q.matches /\ InScope(c, r)} ELSE {}
  <2>1. S \in SUBSET InReach(r, stored) /\ s \in {Limited(t) : t \in SetToSeqs(S)}
    BY <1>3 DEF bm_lane, InReach
  <2>2. uses_bm25(r.mode) \/ S = {}
    OBVIOUS
  <2> HIDE DEF S
  <2> QED BY <1>1, <2>1, <2>2
<1> QED BY <1>2, <1>3

(* There are seeds, if only none.                                            *)
LEMMA SeedsExist ==
    ASSUME NEW r, r.q.near \subseteq Entities
    PROVE  {} \in seeds(r) /\ seeds(r) \subseteq SUBSET Entities
<1>1. Cardinality({}) = 0
  BY FS_EmptySet
<1> QED BY <1>1, RetrievalAssumption DEF seeds

(* COUNT( * ) is positive for the chunks that mention what the walk found.   *)
LEMMA CountFinds ==
    ASSUME NEW w \in [Entities -> Nat], NEW c
    PROVE  Count(c, w) > 0 <=> \E e \in Entities : <<c, e>> \in Mentions /\ w[e] > 0
<1> DEFINE D == {x \in Entities : <<c, x>> \in Mentions}
           g == [e \in D |-> w[e]]
<1>1. IsFiniteSet(D)
  BY RetrievalAssumption, FS_Subset
<1>2. g \in [D -> Nat] /\ \A e \in D : g[e] = w[e]
  OBVIOUS
<1>3. Count(c, w) = SumFunction(g)
  BY DEF Count
<1>4. \A e \in D : e \in Entities /\ <<c, e>> \in Mentions
  OBVIOUS
<1>5. \A e \in Entities : <<c, e>> \in Mentions => e \in D
  OBVIOUS
<1> HIDE DEF D, g
<1>6. SumFunction(g) > 0 <=> \E e \in D : g[e] > 0
  BY <1>1, <1>2, SumPositive
<1>7. (\E e \in D : g[e] > 0) <=> \E e \in Entities : <<c, e>> \in Mentions /\ w[e] > 0
  BY <1>2, <1>4, <1>5
<1> QED BY <1>3, <1>6, <1>7

(* The graph lane ranks what the walk from the seeds reaches, all that its   *)
(* limit admits (the CTEs seeds, walked, reach and graph_lane).              *)
THEOREM GraphLaneReaches ==
    ASSUME NEW r, r.q.near \subseteq Entities, r.hops \in Int, NEW stored \in SUBSET Chunks,
           NEW s \in graph_lane(r, stored)
    PROVE  /\ IsLane(s, r, stored)
           /\ uses_graph(r.mode) \/ s = <<>>
           /\ uses_graph(r.mode) => \E S \in seeds(r) :
                /\ Ranking(s, Reached(r, stored, S))
                /\ Len(s) = Least({Cardinality(Reached(r, stored, S)), LaneLimit})
<1>1. CASE ~uses_graph(r.mode) \/ r.hops < 1
  <2>1. s = <<>>
    BY <1>1 DEF graph_lane
  <2>2. IsLane(<<>>, r, stored)
    BY RetrievalAssumption DEF IsLane, Ranking
  <2>3. Least({0, LaneLimit}) = 0
    BY RetrievalAssumption, LeastOfTwo
  <2>4. ASSUME uses_graph(r.mode) PROVE r.hops < 1 /\ \E S \in seeds(r) : Reached(r, stored, S) = {}
    BY <1>1, <2>4, SeedsExist DEF Reached
  <2>5. Cardinality({}) = 0
    BY FS_EmptySet
  <2> QED BY <2>1, <2>2, <2>3, <2>4, <2>5, EmptyLane
<1>2. CASE uses_graph(r.mode) /\ ~(r.hops < 1)
  <2> DEFINE I    == {c \in stored : InScope(c, r)}
             n(S) == [c \in I |-> Count(c, walked(S, r.hops))]
             G(S) == {c \in I : n(S)[c] > 0}
  <2>1. PICK S \in seeds(r) : s \in ByCount(n(S))
    BY <1>2 DEF graph_lane
  <2>2. PICK t \in SetToSeqs(G(S)) : s = Limited(t)
    BY <2>1 DEF ByCount
  <2>3. S \in SUBSET Entities /\ r.hops \in Nat
    BY <1>2, SeedsExist
  <2> DEFINE w == walked(S, r.hops)
  <2>4. /\ w \in [Entities -> Nat]
        /\ \A e \in Entities : w[e] > 0 <=> e \in Within(S, r.hops)
        /\ Within(S, r.hops) \subseteq Entities
    BY <2>3, WalkFindsNeighbours
  <2>5. \A c \in I : n(S)[c] = Count(c, w)
    OBVIOUS
  <2> HIDE DEF n, w
  <2>6. ASSUME NEW c \in I
        PROVE  n(S)[c] > 0 <=> \E e \in Within(S, r.hops) : <<c, e>> \in Mentions
    BY <2>4, <2>5, CountFinds
  <2>7. G(S) = Reached(r, stored, S)
    BY <1>2, <2>6 DEF Reached
  <2>8. G(S) \in SUBSET InReach(r, stored)
    BY DEF InReach
  <2> HIDE DEF G
  <2>9. IsLane(s, r, stored) /\ Ranking(s, G(S)) /\ Len(s) = Least({Cardinality(G(S)), LaneLimit})
    BY <2>2, <2>8, LaneOf
  <2> QED BY <1>2, <2>7, <2>9
<1> QED BY <1>1, <1>2

-----------------------------------------------------------------------------
(* Fusion                                                                    *)

(* The rank of a chunk is its place in the lane, 0 if it has none.           *)
LEMMA RankIsPlace ==
    ASSUME NEW lanes, NEW lane \in Lane, NEW S, Ranking(lanes[lane], S), Len(lanes[lane]) <= LaneLimit, NEW c
    PROVE  Ranks(lanes, c)[lane] \in 0..LaneLimit
<1> DEFINE s == lanes[lane]
           rk == Ranks(lanes, c)[lane]
<1>1. s \in Seq(S) /\ LaneLimit \in Nat
  BY RetrievalAssumption DEF Ranking
<1>2. DOMAIN s = 1..Len(s) /\ Len(s) \in Nat /\ Len(s) <= LaneLimit
  BY <1>1
<1>3. rk = IF \E i \in DOMAIN s : s[i] = c THEN CHOOSE i \in DOMAIN s : s[i] = c ELSE 0
  BY DEF Ranks
<1> HIDE DEF s, rk
<1>4. rk \in DOMAIN s \/ rk = 0
  BY <1>3
<1> QED BY <1>1, <1>2, <1>4 DEF rk

(* With equal weights, what is ranked no worse in every lane and better in   *)
(* one scores higher.                                                        *)
LEMMA DominatingScore ==
    ASSUME NEW a, NEW b, a \in [Lane -> 0..LaneLimit], b \in [Lane -> 0..LaneLimit], a # b,
           \A lane \in Lane : b[lane] # 0 => a[lane] # 0 /\ a[lane] <= b[lane],
           NEW weights, weights.vec = 1, weights.bm25 = 1, weights.graph = 1
    PROVE  fuse(weights, a) \in Nat /\ fuse(weights, b) \in Nat /\ fuse(weights, a) > fuse(weights, b)
<1>1. LaneLimit \in Nat
  BY RetrievalAssumption
<1>2. ASSUME NEW p \in 0..LaneLimit
      PROVE  Share(1, p) \in Nat /\ (p # 0 => Share(1, p) > 0)
                /\ \A q \in 1..LaneLimit : p # 0 /\ p < q => Share(1, p) > Share(1, q)
  <2>1. CASE p = 0
    BY <2>1 DEF Share
  <2>2. CASE p # 0
    <3>1. p \in 1..LaneLimit
      BY <1>1, <2>2
    <3> QED BY <3>1, ShareOrder
  <2> QED BY <2>1, <2>2
<1>3. ASSUME NEW lane \in Lane
      PROVE  /\ Share(1, a[lane]) \in Nat /\ Share(1, b[lane]) \in Nat
             /\ Share(1, a[lane]) >= Share(1, b[lane])
             /\ a[lane] # b[lane] => Share(1, a[lane]) > Share(1, b[lane])
  <2>1. a[lane] \in 0..LaneLimit /\ b[lane] \in 0..LaneLimit
    OBVIOUS
  <2>2. Share(1, a[lane]) \in Nat /\ Share(1, b[lane]) \in Nat
    BY <1>2, <2>1
  <2>3. CASE b[lane] = 0
    <3>1. Share(1, b[lane]) = 0
      BY <2>3 DEF Share
    <3>2. a[lane] # b[lane] => Share(1, a[lane]) > 0
      BY <1>2, <2>1, <2>3
    <3> QED BY <2>2, <3>1, <3>2
  <2>4. CASE b[lane] # 0
    <3>1. a[lane] # 0 /\ a[lane] <= b[lane] /\ b[lane] \in 1..LaneLimit
      BY <1>1, <2>1, <2>4
    <3>2. CASE a[lane] = b[lane]
      BY <2>2, <3>2
    <3>3. CASE a[lane] # b[lane]
      <4>1. a[lane] < b[lane]
        BY <1>1, <2>1, <3>1, <3>3
      <4>2. Share(1, a[lane]) > Share(1, b[lane])
        BY <1>2, <2>1, <3>1, <4>1
      <4> QED BY <2>2, <4>2
    <3> QED BY <3>2, <3>3
  <2> QED BY <2>3, <2>4
<1>4. \E lane \in Lane : a[lane] # b[lane]
  OBVIOUS
<1>5. ASSUME NEW rk PROVE fuse(weights, rk) = Share(1, rk["vec"]) + Share(1, rk["bm25"]) + Share(1, rk["graph"])
  BY DEF fuse
<1> DEFINE A(lane) == Share(1, a[lane])
           B(lane) == Share(1, b[lane])
<1>6. \A lane \in {"vec", "bm25", "graph"} : A(lane) \in Nat /\ B(lane) \in Nat /\ A(lane) >= B(lane)
  BY <1>3 DEF Lane
<1>7. \E lane \in {"vec", "bm25", "graph"} : A(lane) > B(lane)
  BY <1>3, <1>4 DEF Lane
<1>8. fuse(weights, a) = A("vec") + A("bm25") + A("graph") /\ fuse(weights, b) = B("vec") + B("bm25") + B("graph")
  BY <1>5
<1> HIDE DEF A, B
<1> QED BY <1>6, <1>7, <1>8

\* The chunks of some lane.
Found(lanes) == UNION {ToSet(lanes[lane]) : lane \in Lane}

AreLanes(lanes, r, stored) == \A lane \in Lane : IsLane(lanes[lane], r, stored)

(* The chunks the lanes found are finitely many and in scope.                *)
LEMMA FoundInScope ==
    ASSUME NEW r, NEW stored \in SUBSET Chunks, NEW lanes, AreLanes(lanes, r, stored)
    PROVE  Found(lanes) \subseteq InReach(r, stored) /\ IsFiniteSet(Found(lanes))
<1>1. ASSUME NEW lane \in Lane PROVE ToSet(lanes[lane]) \subseteq InReach(r, stored)
  <2>1. lanes[lane] \in Seq(InReach(r, stored))
    BY DEF AreLanes, IsLane, Ranking
  <2> QED BY <2>1 DEF ToSet
<1>2. Found(lanes) \subseteq InReach(r, stored)
  BY <1>1 DEF Found
<1>3. InReach(r, stored) \subseteq Chunks
  BY DEF InReach
<1> QED BY <1>2, <1>3, RetrievalAssumption, FS_Subset

(* The fused rows are of different chunks that some lane found, as many as   *)
(* top_k admits, and with equal weights none comes before one that beats it  *)
(* in every lane (the CTE fused and ORDER BY score DESC LIMIT top_k).        *)
THEOREM FusionRanks ==
    ASSUME NEW r, r.top_k \in Nat, NEW stored \in SUBSET Chunks, NEW lanes, AreLanes(lanes, r, stored),
           NEW weights, NEW rows \in fused(r, weights, lanes)
    PROVE  /\ \E T : rows \in Seq(T)
           /\ Len(rows) = Least({Cardinality(Found(lanes)), r.top_k}) /\ Len(rows) <= r.top_k
           /\ \A i \in 1..Len(rows) : rows[i].chunk \in Found(lanes)
           /\ \A i, j \in 1..Len(rows) : i # j => rows[i].chunk # rows[j].chunk
           /\ weights.vec = 1 /\ weights.bm25 = 1 /\ weights.graph = 1 =>
                \A i, j \in 1..Len(rows) : Dominates(rows[i], rows[j]) => i < j
<1> DEFINE all == Found(lanes)
           row(c) == [chunk |-> c, sigs |-> Ranks(lanes, c), score |-> fuse(weights, Ranks(lanes, c))]
           T == {row(c) : c \in all}
           sorted(t) == \A i, j \in 1..Len(t) : i < j => t[i].score >= t[j].score
<1>1. PICK t \in SetToSeqs(T) : sorted(t) /\ rows = SubSeq(t, 1, Least({Len(t), r.top_k}))
  BY DEF fused, Found
<1>2. IsFiniteSet(all) /\ IsFiniteSet(T) /\ Cardinality(T) = Cardinality(all)
  <2> DEFINE f == [c \in all |-> row(c)]
  <2>1. IsFiniteSet(all)
    BY FoundInScope
  <2>2. f \in Bijection(all, T)
    <3>1. f \in [all -> T]
      OBVIOUS
    <3>2. \A x, y \in all : f[x] = f[y] => x = y
      OBVIOUS
    <3>3. \A z \in T : \E x \in all : f[x] = z
      OBVIOUS
    <3> HIDE DEF f, T, all
    <3> QED BY <3>1, <3>2, <3>3 DEF Bijection, Injection, Surjection, IsInjective
  <2> HIDE DEF f, T, all
  <2>3. ExistsBijection(all, T)
    BY <2>2 DEF ExistsBijection
  <2> QED BY <2>1, <2>3, FS_Bijection
<1>3. ASSUME NEW x \in T
      PROVE  /\ x.chunk \in all /\ x = row(x.chunk)
             /\ x.sigs = Ranks(lanes, x.chunk) /\ x.score = fuse(weights, x.sigs)
  OBVIOUS
<1> HIDE DEF T
<1>4. /\ Len(t) = Cardinality(T) /\ Ranking(rows, T)
      /\ Len(rows) = Least({Cardinality(T), r.top_k}) /\ Len(rows) <= r.top_k
      /\ \A i \in 1..Len(rows) : i \in 1..Len(t) /\ rows[i] = t[i]
  <2>1. r.top_k \in Nat /\ IsFiniteSet(T) /\ t \in SetToSeqs(T)
    BY <1>1, <1>2
  <2>2. rows = SubSeq(t, 1, Least({Len(t), r.top_k}))
    BY <1>1
  <2> HIDE DEF all
  <2> QED BY ONLY <2>1, <2>2, OrderingOf
<1>5. rows \in Seq(T) /\ \A i \in 1..Len(rows) : rows[i] \in T
  BY <1>4 DEF Ranking
<1>6. ASSUME NEW i \in 1..Len(rows), NEW j \in 1..Len(rows), i # j
      PROVE  rows[i].chunk # rows[j].chunk
  <2>1. rows[i] # rows[j]
    BY <1>4, <1>6 DEF Ranking
  <2>2. rows[i] = row(rows[i].chunk) /\ rows[j] = row(rows[j].chunk)
    BY <1>3, <1>5
  <2> HIDE DEF row
  <2> QED BY <2>1, <2>2
<1>7. ASSUME weights.vec = 1, weights.bm25 = 1, weights.graph = 1,
             NEW i \in 1..Len(rows), NEW j \in 1..Len(rows), Dominates(rows[i], rows[j])
      PROVE  i < j
  <2> DEFINE a == rows[i]
             b == rows[j]
  <2>1. a.score = fuse(weights, a.sigs) /\ b.score = fuse(weights, b.sigs)
        /\ a.sigs = Ranks(lanes, a.chunk) /\ b.sigs = Ranks(lanes, b.chunk)
    BY <1>3, <1>5
  <2> HIDE DEF a, b
  <2>2. ASSUME NEW c PROVE Ranks(lanes, c) \in [Lane -> 0..LaneLimit]
    <3>1. \A lane \in Lane : Ranks(lanes, c)[lane] \in 0..LaneLimit
      BY RankIsPlace DEF AreLanes, IsLane
    <3>2. Ranks(lanes, c) = [lane \in Lane |-> Ranks(lanes, c)[lane]]
      BY DEF Ranks
    <3> QED BY <3>1, <3>2
  <2>3. a.sigs # b.sigs /\ \A lane \in Lane : b.sigs[lane] # 0 => a.sigs[lane] # 0 /\ a.sigs[lane] <= b.sigs[lane]
    BY <1>7 DEF Dominates, a, b
  <2>4. a.score \in Nat /\ b.score \in Nat /\ a.score > b.score
    <3>1. a.sigs \in [Lane -> 0..LaneLimit] /\ b.sigs \in [Lane -> 0..LaneLimit]
      BY <2>1, <2>2
    <3> QED BY <1>7, <2>1, <2>3, <3>1, DominatingScore
  <2>5. t[i] = a /\ t[j] = b /\ i \in 1..Len(t) /\ j \in 1..Len(t)
    BY <1>4 DEF a, b
  <2>6. ~(j < i)
    BY <1>1, <2>4, <2>5
  <2>7. i # j
    BY <2>3 DEF a, b
  <2> QED BY <2>6, <2>7
<1>8. \A i \in 1..Len(rows) : rows[i].chunk \in all
  BY <1>3, <1>5
<1> QED BY <1>2, <1>4, <1>5, <1>6, <1>7, <1>8

(* The smallest of three numbers.                                            *)
LEMMA LeastOfThree ==
    ASSUME NEW a \in Nat, NEW b \in Nat, NEW c \in Nat
    PROVE  Least({a, b, c}) = Least({Least({a, b}), c})
<1> DEFINE m == Least({a, b})
           n == Least({m, c})
<1>1. m \in {a, b} /\ m <= a /\ m <= b
  BY LeastOfTwo
<1> HIDE DEF m
<1>2. m \in Nat
  BY <1>1
<1>3. n \in {m, c} /\ n <= m /\ n <= c
  BY <1>2, LeastOfTwo
<1> HIDE DEF n
<1>4. n \in {a, b, c} /\ \A y \in {a, b, c} : n <= y
  BY <1>1, <1>2, <1>3
<1>5. ASSUME NEW x \in {a, b, c}, \A y \in {a, b, c} : x <= y PROVE x = n
  <2>1. x <= n /\ n <= x /\ x \in Nat /\ n \in Nat
    BY <1>1, <1>2, <1>3, <1>4, <1>5
  <2> QED BY <2>1
<1>6. Least({a, b, c}) = n
  BY <1>4, <1>5 DEF Least
<1> QED BY <1>6 DEF m, n

\* A result of the query, whatever the mode,
SoundRows(rows, r, stored) ==
    /\ \E T : rows \in Seq(T)
    /\ Len(rows) <= r.top_k
    /\ \A i \in 1..Len(rows) : rows[i].chunk \in InReach(r, stored)
    /\ \A i, j \in 1..Len(rows) : i # j => rows[i].chunk # rows[j].chunk
    /\ r.weights = Equal => \A i, j \in 1..Len(rows) : Dominates(rows[i], rows[j]) => i < j

\* and what the graph is to find.
GraphRows(rows, r, stored) ==
    r.mode = "graph" =>
        \E S \in seeds(r) :
            LET all == Reached(r, stored, S)
            IN  /\ \A i \in 1..Len(rows) : rows[i].chunk \in all
                /\ Len(rows) = Least({Cardinality(all), LaneLimit, r.top_k})

(* The result of the query, whatever order the lanes return equal rows in.   *)
THEOREM QueryIsSound ==
    ASSUME NEW r, r.q.near \subseteq Entities, r.hops \in Int, r.top_k \in Nat, NEW stored \in SUBSET Chunks,
           NEW v \in vec_lane(r, stored), NEW b \in bm_lane(r, stored), NEW g \in graph_lane(r, stored),
           NEW rows \in fused(r, RrfWeights(r.weights), [vec |-> v, bm25 |-> b, graph |-> g])
    PROVE  SoundRows(rows, r, stored) /\ GraphRows(rows, r, stored)
<1> DEFINE lanes   == [vec |-> v, bm25 |-> b, graph |-> g]
           weights == RrfWeights(r.weights)
<1>1. IsLane(v, r, stored) /\ IsLane(b, r, stored) /\ IsLane(g, r, stored)
  BY TextLanes, GraphLaneReaches
<1>2. \A lane \in Lane : lanes[lane] \in {v, b, g}
  BY DEF Lane
<1>3. AreLanes(lanes, r, stored)
  BY <1>1, <1>2 DEF AreLanes
<1>4. Found(lanes) = ToSet(v) \union ToSet(b) \union ToSet(g)
  BY DEF Found, Lane
<1>5. r.weights = Equal => weights.vec = 1 /\ weights.bm25 = 1 /\ weights.graph = 1
  BY DEF RrfWeights, Equal
<1>6. rows \in fused(r, weights, lanes)
  OBVIOUS
<1> HIDE DEF lanes, weights
<1>7. /\ \E T : rows \in Seq(T)
      /\ Len(rows) = Least({Cardinality(Found(lanes)), r.top_k}) /\ Len(rows) <= r.top_k
      /\ \A i \in 1..Len(rows) : rows[i].chunk \in Found(lanes)
      /\ \A i, j \in 1..Len(rows) : i # j => rows[i].chunk # rows[j].chunk
      /\ weights.vec = 1 /\ weights.bm25 = 1 /\ weights.graph = 1 =>
            \A i, j \in 1..Len(rows) : Dominates(rows[i], rows[j]) => i < j
  BY <1>3, <1>6, FusionRanks
<1>8. SoundRows(rows, r, stored)
  <2>1. \A i \in 1..Len(rows) : rows[i].chunk \in InReach(r, stored)
    BY <1>3, <1>7, FoundInScope
  <2> QED BY <1>5, <1>7, <2>1 DEF SoundRows
<1>9. ASSUME r.mode = "graph" PROVE GraphRows(rows, r, stored)
  <2>1. uses_graph(r.mode) /\ v = <<>> /\ b = <<>>
    BY <1>9, TextLanes DEF uses_graph, uses_vector, uses_bm25
  <2>2. PICK S \in seeds(r) : /\ Ranking(g, Reached(r, stored, S))
                              /\ Len(g) = Least({Cardinality(Reached(r, stored, S)), LaneLimit})
    BY <2>1, GraphLaneReaches
  <2> DEFINE all == Reached(r, stored, S)
  <2>3. all \subseteq Chunks
    BY DEF Reached
  <2> HIDE DEF all
  <2>4. g \in Seq(all) /\ \A i, j \in 1..Len(g) : i # j => g[i] # g[j]
    BY <2>2 DEF Ranking, all
  <2>5. Found(lanes) = ToSet(g)
    <3>1. ToSet(<<>>) = {}
      BY DEF ToSet
    <3> QED BY <1>4, <2>1, <3>1
  <2>6. Cardinality(ToSet(g)) = Len(g)
    <3>1. Len(g) \in Nat /\ DOMAIN g = 1..Len(g) /\ g = [i \in 1..Len(g) |-> g[i]]
      BY <2>4
    <3> QED BY <2>4, <3>1, DistinctCount
  <2>7. ToSet(g) \subseteq all
    BY <2>4 DEF ToSet
  <2>8. Cardinality(all) \in Nat /\ LaneLimit \in Nat
    BY <2>3, RetrievalAssumption, FS_Subset, FS_CardinalityType
  <2>9. Len(rows) = Least({Cardinality(all), LaneLimit, r.top_k})
    <3>1. Len(g) = Least({Cardinality(all), LaneLimit})
      BY <2>2 DEF all
    <3>2. Len(rows) = Least({Least({Cardinality(all), LaneLimit}), r.top_k})
      BY <1>7, <2>5, <2>6, <3>1
    <3> QED BY <2>8, <3>2, LeastOfThree
  <2>10. \A i \in 1..Len(rows) : rows[i].chunk \in all
    BY <1>7, <2>5, <2>7
  <2> QED BY <2>2, <2>9, <2>10 DEF GraphRows, all
<1> QED BY <1>8, <1>9 DEF GraphRows

-----------------------------------------------------------------------------
(* The budget of the prompt                                                  *)

\* The chunks that have a count of tokens.
Chunk == DOMAIN TokenCount

(* Partial sums along a sequence of chunks.                                  *)
LEMMA TokensTrace ==
    ASSUME NEW s \in Seq(Chunk)
    PROVE  \E a : /\ a[0] = 0 /\ \A i \in 1..Len(s) : a[i] = a[i - 1] + TokenCount[s[i]]
                  /\ a[Len(s)] = Tokens(s)
<1> DEFINE Eq(f) == f = [S \in SUBSET DOMAIN s |-> IF S = {} THEN 0 ELSE f[S \ {Max(S)}] + TokenCount[s[Max(S)]]]
           iter  == CHOOSE f : Eq(f)
           n     == Len(s)
           X     == Int
           base  == 0
           step  == [p \in X \X (1..n) |-> p[1] + TokenCount[s[p[2]]]]
<1>1. Tokens(s) = iter[DOMAIN s]
  BY DEF Tokens, FoldLeft, MapThenFoldSet
<1>2. n \in Nat /\ DOMAIN s = 1..n /\ \A i \in 1..n : s[i] \in Chunk /\ TokenCount[s[i]] \in Int
  BY PromptAssumption DEF Chunk
<1>3. Steps(step, base, n, X)
  BY <1>2 DEF Steps
<1>4. PICK f : Recursion(f, step, base, n, X)
  <2> HIDE DEF step, n, X, base
  <2> QED BY <1>3, FoldLeftExists
<1> USE DEF Recursion
<1>5. ASSUME NEW S \in SUBSET (1..n), S # {}
      PROVE  Max(S) \in 1..n /\ f[S] = f[S \ {Max(S)}] + TokenCount[s[Max(S)]]
  <2>1. Max(S) \in S
    BY <1>5, MaxIn, <1>2
  <2>2. f[S \ {Max(S)}] \in Int /\ Max(S) \in 1..n
    BY <1>4, <2>1
  <2> QED BY <1>4, <1>5, <2>2
<1>6. Eq(f)
  <2>1. f = [S \in SUBSET (1..n) |-> f[S]]
    BY <1>4
  <2>2. f[{}] = 0
    BY <1>4
  <2> HIDE DEF n
  <2> QED BY <1>2, <1>5, <2>1, <2>2
<1>7. Eq(iter)
  <2> HIDE DEF Eq
  <2> QED BY <1>6
<1> DEFINE a == [i \in 0..n |-> iter[1..i]]
<1>8. a[0] = 0
  <2>1. 1..0 = {} /\ {} \in SUBSET DOMAIN s
    OBVIOUS
  <2>2. 0 \in 0..n
    BY <1>2
  <2> HIDE DEF iter
  <2>3. iter[{}] = 0
    BY <1>7, <2>1
  <2> HIDE DEF n
  <2> QED BY <2>1, <2>2, <2>3
<1>9. ASSUME NEW i \in 1..n PROVE a[i] = a[i - 1] + TokenCount[s[i]]
  <2>1. Max(1..i) = i /\ (1..i) \ {i} = 1..(i-1)
    BY MaxOfInitial
  <2>2. 1..i \in SUBSET DOMAIN s /\ 1..i # {}
    <3>1. i \in 1..i /\ \A x \in 1..i : x \in 1..n
      BY <1>2
    <3>2. DOMAIN s = 1..n
      BY <1>2
    <3> HIDE DEF n
    <3> QED BY <3>1, <3>2
  <2> HIDE DEF iter
  <2>3. iter[1..i] = iter[1..(i-1)] + TokenCount[s[i]]
    BY <1>7, <2>1, <2>2
  <2> QED BY <2>3
<1>10. a[n] = Tokens(s)
  BY <1>1, <1>2
<1> QED BY <1>8, <1>9, <1>10

(* Tokens adds up.                                                           *)
LEMMA TraceIsTokens ==
    ASSUME NEW s \in Seq(Chunk), NEW a, a[0] = 0, \A i \in 1..Len(s) : a[i] = a[i - 1] + TokenCount[s[i]]
    PROVE  Tokens(s) = a[Len(s)] /\ \A i \in 0..Len(s) : a[i] \in Nat
<1>1. PICK b : /\ b[0] = 0 /\ \A i \in 1..Len(s) : b[i] = b[i - 1] + TokenCount[s[i]]
               /\ b[Len(s)] = Tokens(s)
  BY TokensTrace
<1> DEFINE P == {k \in Nat : k <= Len(s) => a[k] = b[k] /\ a[k] \in Nat}
<1>2. 0 \in P
  BY <1>1
<1>3. ASSUME NEW k \in Nat, k \in P PROVE k + 1 \in P
  <2> SUFFICES ASSUME k + 1 <= Len(s) PROVE a[k + 1] = b[k + 1] /\ a[k + 1] \in Nat
    OBVIOUS
  <2>1. k + 1 \in 1..Len(s) /\ TokenCount[s[k + 1]] \in Nat
    BY PromptAssumption DEF Chunk
  <2>2. a[k + 1] = a[k] + TokenCount[s[k + 1]] /\ b[k + 1] = b[k] + TokenCount[s[k + 1]]
    BY <1>1, <2>1
  <2> QED BY <1>3, <2>1, <2>2
<1>4. \A k \in Nat : k \in P
  <2> HIDE DEF P
  <2> QED BY <1>2, <1>3, SetInduction
<1>5. Len(s) \in Nat
  OBVIOUS
<1> QED BY <1>1, <1>4, <1>5

(* No block costs no token.                                                  *)
LEMMA TokensOfEmpty == Tokens(<<>>) = 0
<1> DEFINE a == [i \in 0..0 |-> 0]
<1>1. <<>> \in Seq(Chunk) /\ Len(<<>>) = 0 /\ a[0] = 0 /\ \A i \in 1..0 : a[i] = a[i - 1] + TokenCount[<<>>[i]]
  OBVIOUS
<1> HIDE DEF a
<1> QED BY <1>1, TraceIsTokens

(* A block adds its tokens to the prompt.                                    *)
LEMMA TokensOfAppend ==
    ASSUME NEW s \in Seq(Chunk), NEW c \in Chunk
    PROVE  Tokens(s) \in Nat /\ Tokens(Append(s, c)) = Tokens(s) + TokenCount[c]
<1>1. PICK a : /\ a[0] = 0 /\ \A i \in 1..Len(s) : a[i] = a[i - 1] + TokenCount[s[i]]
               /\ a[Len(s)] = Tokens(s)
  BY TokensTrace
<1> DEFINE t == Append(s, c)
           n == Len(s)
           b == [i \in 0..(n + 1) |-> IF i <= n THEN a[i] ELSE a[n] + TokenCount[c]]
<1>2. n \in Nat /\ t \in Seq(Chunk) /\ Len(t) = n + 1 /\ t[n + 1] = c /\ \A i \in 1..n : t[i] = s[i]
  OBVIOUS
<1>3. Tokens(s) \in Nat
  BY <1>1, <1>2, TraceIsTokens
<1>4. b[0] = 0
  BY <1>1, <1>2
<1>5. ASSUME NEW i \in 1..Len(t) PROVE b[i] = b[i - 1] + TokenCount[t[i]]
  <2> HIDE DEF t, n
  <2>1. CASE i <= n
    BY <1>1, <1>2, <2>1 DEF n
  <2>2. CASE i = n + 1
    BY <1>2, <2>2
  <2> QED BY <1>2, <2>1, <2>2
<1>6. Tokens(t) = b[n + 1]
  <2> HIDE DEF b, t, n
  <2> QED BY <1>2, <1>4, <1>5, TraceIsTokens
<1>7. b[n + 1] = Tokens(s) + TokenCount[c]
  BY <1>1, <1>2
<1> QED BY <1>3, <1>6, <1>7

-----------------------------------------------------------------------------

(* What the loop of build_ask_prompt has included after each chunk.          *)
LEMMA PromptTrace ==
    ASSUME NEW s \in Seq(Chunk), NEW budget \in Int
    PROVE  \E a : /\ a[0] = <<>>
                  /\ \A i \in 1..Len(s) :
                        a[i] = IF Tokens(a[i - 1]) + TokenCount[s[i]] <= budget THEN Append(a[i - 1], s[i]) ELSE a[i - 1]
                  /\ a[Len(s)] = build_ask_prompt(s, budget)
<1> DEFINE Next1(x, c) == IF Tokens(x) + TokenCount[c] <= budget THEN Append(x, c) ELSE x
           Eq(f) == f = [S \in SUBSET DOMAIN s |-> IF S = {} THEN <<>> ELSE Next1(f[S \ {Max(S)}], s[Max(S)])]
           iter  == CHOOSE f : Eq(f)
           n     == Len(s)
           X     == Seq(Chunk)
           base  == <<>>
           step  == [p \in X \X (1..n) |-> Next1(p[1], s[p[2]])]
<1>1. build_ask_prompt(s, budget) = iter[DOMAIN s]
  BY DEF build_ask_prompt, FoldLeft, MapThenFoldSet
<1>2. n \in Nat /\ DOMAIN s = 1..n /\ \A i \in 1..n : s[i] \in Chunk
  OBVIOUS
<1> HIDE DEF n
<1>3. Steps(step, base, n, X)
  <2>1. ASSUME NEW x \in X, NEW i \in 1..n PROVE Next1(x, s[i]) \in X
    BY <1>2
  <2> HIDE DEF Next1
  <2>2. step \in [X \X (1..n) -> X]
    BY <2>1
  <2> QED BY <1>2, <2>2 DEF Steps
<1>4. PICK f : Recursion(f, step, base, n, X)
  <2> HIDE DEF step, X, base
  <2> QED BY <1>3, FoldLeftExists
<1> HIDE DEF Next1
<1>5. ASSUME NEW S \in SUBSET (1..n), S # {}
      PROVE  f[S] = Next1(f[S \ {Max(S)}], s[Max(S)])
  <2>1. Max(S) \in S
    BY <1>5, MaxIn, <1>2
  <2>2. f[S \ {Max(S)}] \in X /\ Max(S) \in 1..n
    BY <1>4, <2>1 DEF Recursion
  <2> HIDE DEF X
  <2> QED BY <1>4, <1>5, <2>2 DEF Recursion
<1>6. Eq(f)
  <2>1. f = [S \in SUBSET (1..n) |-> f[S]]
    BY <1>4 DEF Recursion
  <2>2. f[{}] = <<>>
    BY <1>4 DEF Recursion
  <2> QED BY <1>2, <1>5, <2>1, <2>2
<1>7. Eq(iter)
  <2> HIDE DEF Eq
  <2> QED BY <1>6
<1> DEFINE a == [i \in 0..n |-> iter[1..i]]
<1> HIDE DEF iter
<1>8. a[0] = <<>>
  BY <1>2, <1>7
<1>9. ASSUME NEW i \in 1..n PROVE a[i] = Next1(a[i - 1], s[i])
  <2>1. Max(1..i) = i /\ (1..i) \ {i} = 1..(i-1)
    BY MaxOfInitial
  <2>2. 1..i \in SUBSET DOMAIN s /\ 1..i # {}
    <3>1. i \in 1..i /\ \A x \in 1..i : x \in 1..n
      BY <1>2
    <3> QED BY <1>2, <3>1
  <2>3. iter[1..i] = Next1(iter[1..(i-1)], s[i])
    BY <1>7, <2>1, <2>2
  <2> QED BY <1>2, <2>3
<1>10. a[n] = build_ask_prompt(s, budget)
  BY <1>1, <1>2
<1> HIDE DEF a
<1> QED BY <1>8, <1>9, <1>10 DEF n, Next1

(* What has been included of the first k chunks, in one condition,           *)
Fitted(x, s, k, budget) ==
    /\ x \in Seq(Chunk)
    /\ Tokens(x) <= budget
    /\ k > 0 => x # <<>> /\ x[1] = s[1]
    /\ \A i \in 1..Len(x) : \E p \in 1..k : s[p] = x[i]
    /\ \A i, j \in 1..Len(x) : i < j => \E p, q \in 1..k : p < q /\ s[p] = x[i] /\ s[q] = x[j]
    /\ \A i \in 1..k : ~Contains(x, s[i]) =>
            \E n \in 0..Len(x) :
                /\ \A m \in 1..n : \E p \in 1..(i - 1) : s[p] = x[m]
                /\ Tokens(SubSeq(x, 1, n)) + TokenCount[s[i]] > budget

(* which each turn of the loop keeps.                                        *)
LEMMA FittedStep ==
    ASSUME NEW s \in Seq(Chunk), NEW budget \in Int, NEW k \in Nat, k + 1 <= Len(s),
           NEW x, Fitted(x, s, k, budget), NEW y,
           k = 0 => x = <<>> /\ TokenCount[s[1]] <= budget,
           y = IF Tokens(x) + TokenCount[s[k + 1]] <= budget THEN Append(x, s[k + 1]) ELSE x
    PROVE  Fitted(y, s, k + 1, budget)
<1> DEFINE c == s[k + 1]
<1>1. c \in Chunk /\ TokenCount[c] \in Nat /\ x \in Seq(Chunk) /\ Tokens(x) \in Nat /\ Len(x) \in Nat
  <2>1. c \in Chunk /\ TokenCount[c] \in Nat
    BY PromptAssumption DEF Chunk
  <2>2. x \in Seq(Chunk) /\ Len(x) \in Nat
    BY DEF Fitted
  <2> QED BY <2>1, <2>2, TokensOfAppend
<1>2. CASE Tokens(x) + TokenCount[c] <= budget
  <2>1. y = Append(x, c) /\ y \in Seq(Chunk) /\ Len(y) = Len(x) + 1 /\ y[Len(x) + 1] = c
        /\ \A i \in 1..Len(x) : y[i] = x[i]
    BY <1>1, <1>2
  <2>2. Tokens(y) <= budget
    BY <1>1, <1>2, <2>1, TokensOfAppend
  <2>3. y # <<>> /\ y[1] = s[1]
    <3>1. CASE k = 0
      BY <2>1, <3>1
    <3>2. CASE k > 0
      BY <2>1, <1>1, <3>2 DEF Fitted
    <3> QED BY <3>1, <3>2
  <2>4. ASSUME NEW i \in 1..Len(y) PROVE \E p \in 1..(k + 1) : s[p] = y[i]
    <3>1. CASE i = Len(y)
      BY <1>1, <2>1, <3>1
    <3>2. CASE i # Len(y)
      <4>1. i \in 1..Len(x) /\ y[i] = x[i]
        BY <1>1, <2>1, <3>2
      <4> QED BY <4>1 DEF Fitted
    <3> QED BY <3>1, <3>2
  <2>5. ASSUME NEW i \in 1..Len(y), NEW j \in 1..Len(y), i < j
        PROVE  \E p, q \in 1..(k + 1) : p < q /\ s[p] = y[i] /\ s[q] = y[j]
    <3>1. i \in 1..Len(x) /\ y[i] = x[i]
      BY <1>1, <2>1, <2>5
    <3>2. CASE j = Len(y)
      <4>1. PICK p \in 1..k : s[p] = x[i]
        BY <3>1 DEF Fitted
      <4>2. p \in 1..(k + 1) /\ k + 1 \in 1..(k + 1) /\ p < k + 1 /\ y[j] = s[k + 1]
        BY <2>1, <3>2
      <4> QED BY <3>1, <4>1, <4>2
    <3>3. CASE j # Len(y)
      <4>1. j \in 1..Len(x) /\ y[j] = x[j]
        BY <1>1, <2>1, <3>3
      <4>2. PICK p \in 1..k, q \in 1..k : p < q /\ s[p] = x[i] /\ s[q] = x[j]
        BY <2>5, <3>1, <4>1 DEF Fitted
      <4> QED BY <3>1, <4>1, <4>2
    <3> QED BY <3>2, <3>3
  <2>6. ASSUME NEW i \in 1..(k + 1), ~Contains(y, s[i])
        PROVE  \E n \in 0..Len(y) :
                  /\ \A m \in 1..n : \E p \in 1..(i - 1) : s[p] = y[m]
                  /\ Tokens(SubSeq(y, 1, n)) + TokenCount[s[i]] > budget
    <3>1. Contains(y, s[k + 1])
      BY <1>1, <2>1 DEF Contains
    <3>2. i \in 1..k /\ ~Contains(x, s[i])
      BY <1>1, <2>1, <2>6, <3>1 DEF Contains
    <3>3. PICK n \in 0..Len(x) : /\ \A m \in 1..n : \E p \in 1..(i - 1) : s[p] = x[m]
                                 /\ Tokens(SubSeq(x, 1, n)) + TokenCount[s[i]] > budget
      BY <3>2 DEF Fitted
    <3>4. n \in 0..Len(y) /\ \A m \in 1..n : y[m] = x[m]
      BY <1>1, <2>1
    <3>5. SubSeq(y, 1, n) = SubSeq(x, 1, n)
      BY <1>1, <2>1, <3>4
    <3> QED BY <3>3, <3>4, <3>5
  <2> QED BY <2>1, <2>2, <2>3, <2>4, <2>5, <2>6 DEF Fitted
<1>3. CASE ~(Tokens(x) + TokenCount[c] <= budget)
  <2>1. y = x /\ Tokens(x) + TokenCount[c] > budget
    BY <1>1, <1>3
  <2>2. k > 0
    BY <1>1, <1>3, TokensOfEmpty
  <2>3. ASSUME NEW i \in 1..(k + 1), ~Contains(x, s[i])
        PROVE  \E n \in 0..Len(x) :
                  /\ \A m \in 1..n : \E p \in 1..(i - 1) : s[p] = x[m]
                  /\ Tokens(SubSeq(x, 1, n)) + TokenCount[s[i]] > budget
    <3>1. CASE i = k + 1
      <4>1. SubSeq(x, 1, Len(x)) = x /\ Len(x) \in 0..Len(x)
        BY <1>1
      <4>2. \A m \in 1..Len(x) : \E p \in 1..(i - 1) : s[p] = x[m]
        <5>1. i - 1 = k
          BY <3>1
        <5> QED BY <5>1 DEF Fitted
      <4> QED BY <2>1, <3>1, <4>1, <4>2
    <3>2. CASE i \in 1..k
      BY <2>3, <3>2 DEF Fitted
    <3> QED BY <3>1, <3>2
  <2>4. 1..k \subseteq 1..(k + 1)
    OBVIOUS
  <2>5. \A i \in 1..Len(x) : \E p \in 1..(k + 1) : s[p] = x[i]
    BY <2>4 DEF Fitted
  <2>6. ASSUME NEW i \in 1..Len(x), NEW j \in 1..Len(x), i < j
        PROVE  \E p, q \in 1..(k + 1) : p < q /\ s[p] = x[i] /\ s[q] = x[j]
    BY <2>4, <2>6 DEF Fitted
  <2>7. x \in Seq(Chunk) /\ Tokens(x) <= budget /\ x # <<>> /\ x[1] = s[1]
    BY <2>2 DEF Fitted
  <2> HIDE DEF c
  <2>8. Fitted(x, s, k + 1, budget)
    BY ONLY <2>3, <2>5, <2>6, <2>7 DEF Fitted
  <2> QED BY <2>1, <2>8
<1> QED BY <1>2, <1>3

(* A prompt that is not refused keeps to its budget, opens with the first    *)
(* chunk, keeps the order and leaves no chunk out that would have fitted     *)
(* (build_ask_prompt).                                                       *)
THEOREM PromptFits ==
    ASSUME NEW s \in Seq(Chunk), NEW budget \in Int, ~Refused(s, budget)
    PROVE  LET blocks == build_ask_prompt(s, budget)
           IN  /\ blocks \in Seq(Chunk) /\ blocks # <<>>
               /\ ToSet(blocks) \subseteq ToSet(s)
               /\ Tokens(blocks) <= budget
               /\ Head(blocks) = Head(s)
               /\ KeepsOrder(blocks, s)
               /\ LeavesNoRoom(blocks, s, budget)
<1>1. PICK a : /\ a[0] = <<>>
               /\ \A i \in 1..Len(s) :
                    a[i] = IF Tokens(a[i - 1]) + TokenCount[s[i]] <= budget THEN Append(a[i - 1], s[i]) ELSE a[i - 1]
               /\ a[Len(s)] = build_ask_prompt(s, budget)
  BY PromptTrace
<1>2. s # <<>> /\ budget > 0 /\ TokenCount[s[1]] <= budget
  <2>1. s # <<>> /\ ~(budget <= 0) /\ ~(TokenCount[s[1]] > budget)
    BY DEF Refused
  <2>2. TokenCount[s[1]] \in Nat
    BY <2>1, PromptAssumption DEF Chunk
  <2> QED BY <2>1, <2>2
<1> DEFINE P == {k \in Nat : k <= Len(s) => Fitted(a[k], s, k, budget)}
<1>3. 0 \in P
  <2>1. <<>> \in Seq(Chunk) /\ Len(<<>>) = 0 /\ Tokens(<<>>) <= budget
    BY <1>2, TokensOfEmpty
  <2>2. Fitted(<<>>, s, 0, budget)
    BY <2>1 DEF Fitted
  <2> QED BY <1>1, <2>2
<1>4. ASSUME NEW k \in Nat, k \in P PROVE k + 1 \in P
  <2> SUFFICES ASSUME k + 1 <= Len(s) PROVE Fitted(a[k + 1], s, k + 1, budget)
    OBVIOUS
  <2>1. Fitted(a[k], s, k, budget)
    BY <1>4
  <2>2. k = 0 => a[k] = <<>> /\ TokenCount[s[1]] <= budget
    BY <1>1, <1>2
  <2>3. a[k + 1] = IF Tokens(a[k]) + TokenCount[s[k + 1]] <= budget THEN Append(a[k], s[k + 1]) ELSE a[k]
    BY <1>1
  <2> QED BY <2>1, <2>2, <2>3, FittedStep
<1>5. Fitted(build_ask_prompt(s, budget), s, Len(s), budget)
  <2> HIDE DEF P
  <2>1. Len(s) \in P
    BY <1>3, <1>4, SetInduction
  <2> QED BY <2>1, <1>1 DEF P
<1> DEFINE x == build_ask_prompt(s, budget)
<1> HIDE DEF x
<1>6. Fitted(x, s, Len(s), budget) /\ x \in Seq(Chunk) /\ Len(s) > 0
  BY <1>2, <1>5 DEF x, Fitted
<1>7. Head(x) = Head(s) /\ x # <<>> /\ Tokens(x) <= budget
  BY <1>2, <1>6 DEF Fitted
<1>8. ToSet(x) \subseteq ToSet(s)
  BY <1>6 DEF Fitted, ToSet
<1>9. KeepsOrder(x, s)
  BY <1>6 DEF Fitted, KeepsOrder
<1>10. LeavesNoRoom(x, s, budget)
  <2> SUFFICES ASSUME NEW i \in 1..Len(s), ~Contains(x, s[i])
               PROVE  \E n \in 0..Len(x) :
                        /\ ToSet(SubSeq(x, 1, n)) \subseteq ToSet(SubSeq(s, 1, i - 1))
                        /\ Tokens(SubSeq(x, 1, n)) + TokenCount[s[i]] > budget
    BY DEF LeavesNoRoom
  <2>1. PICK n \in 0..Len(x) : /\ \A m \in 1..n : \E p \in 1..(i - 1) : s[p] = x[m]
                               /\ Tokens(SubSeq(x, 1, n)) + TokenCount[s[i]] > budget
    BY <1>6 DEF Fitted
  <2>2. DOMAIN SubSeq(x, 1, n) = 1..n /\ \A m \in 1..n : SubSeq(x, 1, n)[m] = x[m]
    BY <1>6
  <2>3. DOMAIN SubSeq(s, 1, i - 1) = 1..(i - 1) /\ \A p \in 1..(i - 1) : SubSeq(s, 1, i - 1)[p] = s[p]
    OBVIOUS
  <2>4. ToSet(SubSeq(x, 1, n)) \subseteq ToSet(SubSeq(s, 1, i - 1))
    <3> DEFINE u == SubSeq(x, 1, n)
               v == SubSeq(s, 1, i - 1)
    <3>1. \A m \in DOMAIN u : \E p \in DOMAIN v : v[p] = u[m]
      BY <2>1, <2>2, <2>3
    <3> HIDE DEF u, v
    <3>2. ToSet(u) \subseteq ToSet(v)
      BY <3>1 DEF ToSet
    <3> QED BY <3>2 DEF u, v
  <2> QED BY <2>1, <2>4
<1> QED BY <1>6, <1>7, <1>8, <1>9, <1>10 DEF x

-----------------------------------------------------------------------------
(* Citations                                                                 *)

(* What the loop of extract_citations has seen after each number.            *)
LEMMA CitationTrace ==
    ASSUME NEW numbers \in Seq(Int), NEW blocks \in Seq(Chunk)
    PROVE  \E a : /\ a[0] = <<>>
                  /\ \A i \in 1..Len(numbers) :
                        a[i] = IF numbers[i] \in 1..Len(blocks) /\ ~Contains(a[i - 1], numbers[i])
                               THEN Append(a[i - 1], numbers[i]) ELSE a[i - 1]
                  /\ a[Len(numbers)] = Seen(numbers, blocks)
<1> DEFINE Next1(x, k) == IF k \in 1..Len(blocks) /\ ~Contains(x, k) THEN Append(x, k) ELSE x
           Eq(f) == f = [S \in SUBSET DOMAIN numbers |->
                            IF S = {} THEN <<>> ELSE Next1(f[S \ {Max(S)}], numbers[Max(S)])]
           iter  == CHOOSE f : Eq(f)
           n     == Len(numbers)
           X     == Seq(Int)
           base  == <<>>
           step  == [p \in X \X (1..n) |-> Next1(p[1], numbers[p[2]])]
<1>1. Seen(numbers, blocks) = iter[DOMAIN numbers]
  BY DEF Seen, FoldLeft, MapThenFoldSet
<1>2. n \in Nat /\ DOMAIN numbers = 1..n
  OBVIOUS
<1> HIDE DEF n
<1>3. Steps(step, base, n, X)
  <2>1. ASSUME NEW x \in X, NEW i \in 1..n PROVE Next1(x, numbers[i]) \in X
    OBVIOUS
  <2> HIDE DEF Next1
  <2>2. step \in [X \X (1..n) -> X]
    BY <2>1
  <2> QED BY <1>2, <2>2 DEF Steps
<1>4. PICK f : Recursion(f, step, base, n, X)
  <2> HIDE DEF step, X, base
  <2> QED BY <1>3, FoldLeftExists
<1> HIDE DEF Next1
<1>5. ASSUME NEW S \in SUBSET (1..n), S # {}
      PROVE  f[S] = Next1(f[S \ {Max(S)}], numbers[Max(S)])
  <2>1. Max(S) \in S
    BY <1>5, MaxIn, <1>2
  <2>2. f[S \ {Max(S)}] \in X /\ Max(S) \in 1..n
    BY <1>4, <2>1 DEF Recursion
  <2> HIDE DEF X
  <2> QED BY <1>4, <1>5, <2>2 DEF Recursion
<1>6. Eq(f)
  <2>1. f = [S \in SUBSET (1..n) |-> f[S]]
    BY <1>4 DEF Recursion
  <2>2. f[{}] = <<>>
    BY <1>4 DEF Recursion
  <2> QED BY <1>2, <1>5, <2>1, <2>2
<1>7. Eq(iter)
  <2> HIDE DEF Eq
  <2> QED BY <1>6
<1> DEFINE a == [i \in 0..n |-> iter[1..i]]
<1> HIDE DEF iter
<1>8. a[0] = <<>>
  BY <1>2, <1>7
<1>9. ASSUME NEW i \in 1..n PROVE a[i] = Next1(a[i - 1], numbers[i])
  <2>1. Max(1..i) = i /\ (1..i) \ {i} = 1..(i-1)
    BY MaxOfInitial
  <2>2. 1..i \in SUBSET DOMAIN numbers /\ 1..i # {}
    <3>1. i \in 1..i /\ \A x \in 1..i : x \in 1..n
      BY <1>2
    <3> QED BY <1>2, <3>1
  <2>3. iter[1..i] = Next1(iter[1..(i-1)], numbers[i])
    BY <1>7, <2>1, <2>2
  <2> QED BY <1>2, <2>3
<1>10. a[n] = Seen(numbers, blocks)
  BY <1>1, <1>2
<1> HIDE DEF a
<1> QED BY <1>8, <1>9, <1>10 DEF n, Next1

(* What is seen among the first k numbers.                                   *)
Cited(x, numbers, k, blocks) ==
    /\ x \in Seq(Int)
    /\ \A i, j \in 1..Len(x) : i # j => x[i] # x[j]
    /\ \A i \in 1..Len(x) : \E m \in 1..k : numbers[m] \in 1..Len(blocks) /\ x[i] = numbers[m]
    /\ \A m \in 1..k : numbers[m] \in 1..Len(blocks) => \E i \in 1..Len(x) : x[i] = numbers[m]

(* One more number is at most one more seen.                                 *)
LEMMA CitedStep ==
    ASSUME NEW numbers \in Seq(Int), NEW blocks \in Seq(Chunk), NEW k \in Nat, k + 1 <= Len(numbers),
           NEW x, Cited(x, numbers, k, blocks), NEW y,
           y = IF numbers[k + 1] \in 1..Len(blocks) /\ ~Contains(x, numbers[k + 1])
               THEN Append(x, numbers[k + 1]) ELSE x
    PROVE  Cited(y, numbers, k + 1, blocks)
<1>1. x \in Seq(Int) /\ Len(x) \in Nat
  BY DEF Cited
<1>2. CASE numbers[k + 1] \in 1..Len(blocks) /\ ~Contains(x, numbers[k + 1])
  <2> DEFINE c == numbers[k + 1]
  <2>1. /\ y = Append(x, c) /\ c \in Int /\ y \in Seq(Int) /\ Len(y) = Len(x) + 1 /\ y[Len(x) + 1] = c
        /\ \A i \in 1..Len(x) : y[i] = x[i] /\ x[i] # c
    BY <1>1, <1>2 DEF Contains
  <2> HIDE DEF c
  <2>2. ASSUME NEW i \in 1..Len(y), NEW j \in 1..Len(y), i # j PROVE y[i] # y[j]
    <3>1. i \in 1..Len(x) \/ i = Len(x) + 1
      BY <1>1, <2>1
    <3>2. j \in 1..Len(x) \/ j = Len(x) + 1
      BY <1>1, <2>1
    <3>3. CASE i \in 1..Len(x) /\ j \in 1..Len(x)
      <4>1. x[i] # x[j]
        BY <2>2, <3>3 DEF Cited
      <4> QED BY <2>1, <3>3, <4>1
    <3>4. CASE i \in 1..Len(x) /\ j = Len(x) + 1
      BY <2>1, <3>4
    <3>5. CASE i = Len(x) + 1 /\ j \in 1..Len(x)
      BY <2>1, <3>5
    <3> QED BY <2>2, <3>1, <3>2, <3>3, <3>4, <3>5
  <2>3. ASSUME NEW i \in 1..Len(y)
        PROVE  \E m \in 1..(k + 1) : numbers[m] \in 1..Len(blocks) /\ y[i] = numbers[m]
    <3>1. CASE i = Len(x) + 1
      <4>1. k + 1 \in 1..(k + 1)
        OBVIOUS
      <4>2. y[i] = numbers[k + 1]
        BY <2>1, <3>1 DEF c
      <4> QED BY <1>2, <4>1, <4>2
    <3>2. CASE i \in 1..Len(x)
      <4>1. PICK m \in 1..k : numbers[m] \in 1..Len(blocks) /\ x[i] = numbers[m]
        BY <3>2 DEF Cited
      <4>2. y[i] = numbers[m] /\ m \in 1..(k + 1)
        BY <2>1, <3>2, <4>1
      <4> QED BY <4>1, <4>2
    <3>3. i \in 1..Len(x) \/ i = Len(x) + 1
      BY <1>1, <2>1
    <3> QED BY <3>1, <3>2, <3>3
  <2>4. ASSUME NEW m \in 1..(k + 1), numbers[m] \in 1..Len(blocks)
        PROVE  \E i \in 1..Len(y) : y[i] = numbers[m]
    <3>1. CASE m = k + 1
      <4>1. Len(x) + 1 \in 1..Len(y)
        BY <1>1, <2>1
      <4> QED BY <2>1, <3>1, <4>1 DEF c
    <3>2. CASE m # k + 1
      <4>1. PICK i \in 1..Len(x) : x[i] = numbers[m]
        BY <2>4, <3>2 DEF Cited
      <4>2. i \in 1..Len(y)
        BY <1>1, <2>1
      <4> QED BY <2>1, <4>1, <4>2
    <3> QED BY <3>1, <3>2
  <2> QED BY <2>1, <2>2, <2>3, <2>4 DEF Cited
<1>3. CASE ~(numbers[k + 1] \in 1..Len(blocks) /\ ~Contains(x, numbers[k + 1]))
  <2>1. y = x
    BY <1>3
  <2>2. ASSUME NEW i \in 1..Len(x)
        PROVE  \E m \in 1..(k + 1) : numbers[m] \in 1..Len(blocks) /\ x[i] = numbers[m]
    <3>1. PICK m \in 1..k : numbers[m] \in 1..Len(blocks) /\ x[i] = numbers[m]
      BY DEF Cited
    <3> QED BY <3>1
  <2>3. ASSUME NEW m \in 1..(k + 1), numbers[m] \in 1..Len(blocks)
        PROVE  \E i \in 1..Len(x) : x[i] = numbers[m]
    <3>1. CASE m = k + 1
      BY <1>3, <2>3, <3>1 DEF Contains
    <3>2. CASE m # k + 1
      BY <2>3, <3>2 DEF Cited
    <3> QED BY <3>1, <3>2
  <2> QED BY <1>1, <2>1, <2>2, <2>3 DEF Cited
<1> QED BY <1>2, <1>3

(* Citations are the blocks of the numbers that have one, one for each such  *)
(* number (extract_citations).                                               *)
THEOREM CitationsFollowNumbers ==
    ASSUME NEW numbers \in Seq(Int), NEW blocks \in Seq(Chunk), NEW chunks
    PROVE  LET cited == extract_citations(numbers, blocks, chunks)
               valid == {n \in ToSet(numbers) : n \in 1..Len(blocks)}
           IN  /\ cited \in Seq(Chunk)
               /\ ToSet(cited) = {blocks[n] : n \in valid}
               /\ Len(cited) = Cardinality(valid)
<1>1. PICK a : /\ a[0] = <<>>
               /\ \A i \in 1..Len(numbers) :
                    a[i] = IF numbers[i] \in 1..Len(blocks) /\ ~Contains(a[i - 1], numbers[i])
                           THEN Append(a[i - 1], numbers[i]) ELSE a[i - 1]
               /\ a[Len(numbers)] = Seen(numbers, blocks)
  BY CitationTrace
<1> DEFINE P == {k \in Nat : k <= Len(numbers) => Cited(a[k], numbers, k, blocks)}
<1>2. 0 \in P
  <2>1. <<>> \in Seq(Int) /\ Len(<<>>) = 0
    OBVIOUS
  <2>2. Cited(<<>>, numbers, 0, blocks)
    BY <2>1 DEF Cited
  <2> QED BY <1>1, <2>2
<1>3. ASSUME NEW k \in Nat, k \in P PROVE k + 1 \in P
  <2> SUFFICES ASSUME k + 1 <= Len(numbers) PROVE Cited(a[k + 1], numbers, k + 1, blocks)
    OBVIOUS
  <2>1. Cited(a[k], numbers, k, blocks)
    BY <1>3
  <2>2. k + 1 \in 1..Len(numbers) /\ k + 1 - 1 = k
    OBVIOUS
  <2>3. a[k + 1] = IF numbers[k + 1] \in 1..Len(blocks) /\ ~Contains(a[k], numbers[k + 1])
                   THEN Append(a[k], numbers[k + 1]) ELSE a[k]
    BY <1>1, <2>2
  <2> HIDE DEF P
  <2> QED BY <2>1, <2>3, CitedStep
<1> DEFINE x == Seen(numbers, blocks)
<1>4. Cited(x, numbers, Len(numbers), blocks)
  <2> HIDE DEF P
  <2>1. \A k \in Nat : k \in P
    BY <1>2, <1>3, SetInduction
  <2>2. Len(numbers) \in Nat
    OBVIOUS
  <2> QED BY <1>1, <2>1, <2>2 DEF P
<1> DEFINE cited == extract_citations(numbers, blocks, chunks)
           valid == {n \in ToSet(numbers) : n \in 1..Len(blocks)}
<1>5. cited = [i \in 1..Len(x) |-> blocks[x[i]]]
  BY DEF extract_citations
<1> HIDE DEF x, cited
<1>6. x \in Seq(Int) /\ Len(x) \in Nat /\ DOMAIN x = 1..Len(x) /\ DOMAIN numbers = 1..Len(numbers)
  BY <1>4 DEF Cited
<1>7. ToSet(x) = valid
  <2>1. ASSUME NEW b \in ToSet(x) PROVE b \in valid
    <3>1. PICK i \in 1..Len(x) : b = x[i]
      BY <1>6 DEF ToSet
    <3>2. PICK m \in 1..Len(numbers) : numbers[m] \in 1..Len(blocks) /\ x[i] = numbers[m]
      BY <1>4 DEF Cited
    <3> QED BY <1>6, <3>1, <3>2 DEF ToSet
  <2>2. ASSUME NEW n \in valid PROVE n \in ToSet(x)
    <3>1. PICK m \in 1..Len(numbers) : n = numbers[m]
      BY <1>6 DEF ToSet
    <3>2. PICK i \in 1..Len(x) : x[i] = numbers[m]
      BY <1>4, <2>2, <3>1 DEF Cited
    <3> QED BY <1>6, <3>1, <3>2 DEF ToSet
  <2> QED BY <2>1, <2>2
<1>8. \A i \in 1..Len(x) : x[i] \in valid /\ x[i] \in 1..Len(blocks)
  BY <1>6, <1>7 DEF ToSet
<1>9. cited \in Seq(Chunk) /\ Len(cited) = Len(x) /\ \A i \in 1..Len(x) : cited[i] = blocks[x[i]]
  <2>1. \A i \in 1..Len(x) : blocks[x[i]] \in Chunk
    BY <1>8
  <2> QED BY <1>5, <1>6, <2>1
<1>10. ToSet(cited) = {blocks[n] : n \in valid}
  <2>1. DOMAIN cited = 1..Len(x)
    BY <1>5
  <2>2. ASSUME NEW c \in ToSet(cited) PROVE \E n \in valid : c = blocks[n]
    BY <1>8, <1>9, <2>1 DEF ToSet
  <2>3. ASSUME NEW n \in valid PROVE blocks[n] \in ToSet(cited)
    <3>1. PICK i \in 1..Len(x) : x[i] = n
      BY <1>6, <1>7 DEF ToSet
    <3> QED BY <1>9, <2>1, <3>1 DEF ToSet
  <2> HIDE DEF valid
  <2> QED BY <2>2, <2>3
<1>11. Len(x) = Cardinality(valid)
  <2>1. x = [i \in 1..Len(x) |-> x[i]]
    BY <1>6
  <2> QED BY <1>4, <1>6, <1>7, <2>1, DistinctCount DEF Cited
<1> QED BY <1>9, <1>10, <1>11 DEF cited
=============================================================================
