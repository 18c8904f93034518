----------------------------- MODULE FoldProofs -----------------------------
(***************************************************************************)
(* What the other proofs need of natural numbers, finite sets and folds:   *)
(* induction, stated for the set of the numbers that have a property, and  *)
(* what the folds of the community modules compute.                        *)
(***************************************************************************)
EXTENDS Integers, FiniteSets, Sequences, FiniteSetsExt, FiniteSetTheorems,
        WellFoundedInduction, TLAPS

\* A set of natural numbers that is not empty has a least element.
LEMMA LeastNumber ==
  ASSUME NEW S \in SUBSET Nat, S # {}
  PROVE  \E n \in S : \A m \in S : n <= m
<1> DEFINE below == OpToRel(<, Nat)
<1>1. IsWellFoundedOn(below, Nat)
  BY NatLessThanWellFounded
<1>2. \A m, n \in Nat : m < n => <<m, n>> \in below
  BY DEF OpToRel
<1> HIDE DEF below
<1>3. PICK n \in S : \A m \in S : <<m, n>> \notin below
  BY <1>1, WFMin
<1>4. n \in Nat /\ \A m \in S : m \in Nat
  OBVIOUS
<1>5. \A m \in S : ~(m < n)
  BY <1>2, <1>3, <1>4
<1>. QED BY <1>4, <1>5

\* Induction: a set that has 0 and, with each number, the next one, has all.
LEMMA Inductive ==
  ASSUME NEW S \in SUBSET Nat, 0 \in S, \A n \in S : n + 1 \in S
  PROVE  S = Nat
<1> SUFFICES ASSUME Nat \ S # {} PROVE FALSE
  OBVIOUS
<1>1. PICK n \in Nat \ S : \A m \in Nat \ S : n <= m
  BY LeastNumber
<1>2. n # 0 /\ n - 1 \in Nat /\ n - 1 \in S
  BY <1>1
<1>3. (n - 1) + 1 = n
  OBVIOUS
<1>. QED BY <1>1, <1>2, <1>3

\* The same for the subsets of a finite set, one element after another.
LEMMA SetInductive ==
  ASSUME NEW S, IsFiniteSet(S), NEW Good \in SUBSET SUBSET S, {} \in Good,
         \A s \in SUBSET S : s # {} /\ (\A x \in s : s \ {x} \in Good) => s \in Good
  PROVE  Good = SUBSET S
<1> DEFINE N == {n \in Nat : \A s \in SUBSET S : Cardinality(s) = n => s \in Good}
<1>1. \A s \in SUBSET S : IsFiniteSet(s) /\ Cardinality(s) \in Nat
  BY FS_Subset, FS_CardinalityType
<1>2. 0 \in N
  BY <1>1, FS_EmptySet
<1>3. ASSUME NEW n \in N PROVE n + 1 \in N
  <2>1. SUFFICES ASSUME NEW s \in SUBSET S, Cardinality(s) = n + 1 PROVE s \in Good
    OBVIOUS
  <2>2. s # {}
    BY <2>1, FS_EmptySet
  <2>3. ASSUME NEW x \in s PROVE s \ {x} \in Good
    <3>1. Cardinality(s \ {x}) = n
      BY <1>1, <2>1, FS_RemoveElement
    <3>. QED BY <3>1
  <2>. QED BY <2>2, <2>3
<1>4. N = Nat
  <2> HIDE DEF N
  <2>1. N \in SUBSET Nat
    BY DEF N
  <2>. QED BY <1>2, <1>3, <2>1, Inductive
<1>. QED BY <1>1, <1>4

\* What picks one of every set of members of S, what a step makes of a value for
\* a member, and the function that steps from the empty set on.
Picks(pick, S) == \A s \in SUBSET S : s # {} => pick[s] \in s
StepsOn(step, S, V) == \A x \in S, v \in V : step[x][v] \in V
Descends(f, S, base, pick, step) ==
  \A s \in SUBSET S : f[s] = IF s = {} THEN base ELSE step[pick[s]][f[s \ {pick[s]}]]

\* A function on the subsets of a finite set may be defined by what it yields
\* for the empty set and by one element less.
LEMMA SetRecursion ==
  ASSUME NEW S, IsFiniteSet(S), NEW V, NEW base \in V, NEW pick, NEW step,
         Picks(pick, S), StepsOn(step, S, V)
  PROVE  \E f \in [SUBSET S -> V] : Descends(f, S, base, pick, step)
<1> DEFINE Upto(n) == {s \in SUBSET S : Cardinality(s) <= n}
           Next(f, s) == IF s = {} THEN base ELSE step[pick[s]][f[s \ {pick[s]}]]
           N == {n \in Nat : \E f \in [Upto(n) -> V] : \A s \in Upto(n) : f[s] = Next(f, s)}
<1>1. \A s \in SUBSET S : IsFiniteSet(s) /\ Cardinality(s) \in Nat
  BY FS_Subset, FS_CardinalityType
<1>2. 0 \in N
  <2>1. \A s \in Upto(0) : s = {}
    <3>1. \A s \in SUBSET S : Cardinality(s) <= 0 => Cardinality(s) = 0
      BY <1>1
    <3>. QED BY <1>1, <3>1, FS_EmptySet
  <2>2. [s \in Upto(0) |-> base] \in [Upto(0) -> V]
    OBVIOUS
  <2>3. \A s \in Upto(0) : [t \in Upto(0) |-> base][s] = Next([t \in Upto(0) |-> base], s)
    BY <2>1
  <2>. QED BY <2>2, <2>3
<1>3. ASSUME NEW n \in N PROVE n + 1 \in N
  <2>1. PICK f \in [Upto(n) -> V] : \A s \in Upto(n) : f[s] = Next(f, s)
    OBVIOUS
  <2>2. \A s \in Upto(n + 1) : s # {} => pick[s] \in S /\ s \ {pick[s]} \in Upto(n)
    <3> SUFFICES ASSUME NEW s \in SUBSET S, Cardinality(s) <= n + 1, s # {}
                 PROVE  pick[s] \in S /\ Cardinality(s \ {pick[s]}) <= n
      OBVIOUS
    <3>1. pick[s] \in s
      BY DEF Picks
    <3>2. Cardinality(s \ {pick[s]}) = Cardinality(s) - 1
      BY <1>1, <3>1, FS_RemoveElement
    <3>3. Cardinality(s) \in Nat /\ n \in Nat
      BY <1>1
    <3> DEFINE c == Cardinality(s)
    <3> HIDE DEF c
    <3>4. c \in Nat /\ n \in Nat /\ c <= n + 1 => c - 1 <= n
      OBVIOUS
    <3>5. Cardinality(s \ {pick[s]}) <= n
      BY <3>2, <3>3, <3>4 DEF c
    <3>. QED BY <3>1, <3>5
  <2> DEFINE g == [s \in Upto(n + 1) |-> Next(f, s)]
  <2> HIDE DEF Upto
  <2>3. g \in [Upto(n + 1) -> V]
    BY <2>1, <2>2 DEF StepsOn
  <2>4. \A s \in Upto(n) : s \in Upto(n + 1) /\ g[s] = f[s]
    <3>1. \A s \in Upto(n) : s \in Upto(n + 1)
      <4>1. \A c \in Nat : c <= n => c <= n + 1
        OBVIOUS
      <4>. QED BY <1>1, <4>1 DEF Upto
    <3>. QED BY <2>1, <3>1
  <2>5. \A s \in Upto(n + 1) : g[s] = Next(g, s)
    BY <2>2, <2>4
  <2>6. \E h \in [Upto(n + 1) -> V] : \A s \in Upto(n + 1) : h[s] = Next(h, s)
    <3> HIDE DEF g
    <3>. QED BY <2>3, <2>5
  <2>7. n + 1 \in Nat
    OBVIOUS
  <2>. QED BY <2>6, <2>7
<1>4. N = Nat
  <2> HIDE DEF N
  <2>1. N \in SUBSET Nat
    BY DEF N
  <2>. QED BY <1>2, <1>3, <2>1, Inductive
<1>5. Upto(Cardinality(S)) = SUBSET S
  BY <1>1, FS_Subset
<1>6. Cardinality(S) \in N
  BY <1>1, <1>4
<1>7. \E f \in [Upto(Cardinality(S)) -> V] : \A s \in Upto(Cardinality(S)) : f[s] = Next(f, s)
  BY <1>6
<1> HIDE DEF Upto, N
<1>. QED BY <1>5, <1>7 DEF Descends

----------------------------------------------------------------------------
(* Sums *)

\* The sum of what w gives the members of s.
Total(w, s) == MapThenSumSet(LAMBDA x : w[x], s)

\* A total is what adding one member after another yields, in whatever order.
LEMMA TotalAdds ==
  ASSUME NEW K, IsFiniteSet(K), NEW w \in [K -> Nat]
  PROVE  /\ Total(w, {}) = 0
         /\ \A s \in SUBSET K : Total(w, s) \in Nat
         /\ \A s \in SUBSET K, x \in K : x \in s => Total(w, s) = w[x] + Total(w, s \ {x})
<1> DEFINE pick == [s \in SUBSET K |-> CHOOSE x \in s : TRUE]
           step == [x \in K |-> [n \in Nat |-> w[x] + n]]
<1>1. \A s \in SUBSET K : s # {} => pick[s] \in s
  OBVIOUS
<1>2. \A x \in K, n \in Nat : step[x][n] \in Nat /\ step[x][n] = w[x] + n
  OBVIOUS
<1>3. PICK f \in [SUBSET K -> Nat] :
        \A s \in SUBSET K : f[s] = IF s = {} THEN 0 ELSE step[pick[s]][f[s \ {pick[s]}]]
  <2>1. Picks(pick, K) /\ StepsOn(step, K, Nat) /\ 0 \in Nat
    BY <1>1, <1>2 DEF Picks, StepsOn
  <2> HIDE DEF pick, step
  <2>2. \E f \in [SUBSET K -> Nat] : Descends(f, K, 0, pick, step)
    BY <2>1, SetRecursion
  <2>. QED BY <2>2 DEF Descends
<1>4. \A s \in SUBSET K : s # {} => f[s] = w[pick[s]] + f[s \ {pick[s]}]
  <2> SUFFICES ASSUME NEW s \in SUBSET K, s # {} PROVE f[s] = w[pick[s]] + f[s \ {pick[s]}]
    OBVIOUS
  <2> HIDE DEF pick, step
  <2>1. pick[s] \in K /\ f[s \ {pick[s]}] \in Nat
    BY <1>1, <1>3
  <2>. QED BY <1>2, <1>3, <2>1
<1>5. ASSUME NEW T \in SUBSET K PROVE Total(w, T) = f[T]
  <2> DEFINE Chosen(s) == CHOOSE x \in s : TRUE
             iter == CHOOSE it : it = [s \in SUBSET T |-> IF s = {} THEN 0
                                                          ELSE w[Chosen(s)] + it[s \ {Chosen(s)}]]
             g == [s \in SUBSET T |-> f[s]]
  <2>1. Total(w, T) = iter[T]
    BY Zenon DEF Total, MapThenSumSet, MapThenFoldSet
  <2>2. \A s \in SUBSET T : g[s] = IF s = {} THEN 0 ELSE w[Chosen(s)] + g[s \ {Chosen(s)}]
    <3>1. \A s \in SUBSET T : s \in SUBSET K /\ s \ {Chosen(s)} \in SUBSET T /\ pick[s] = Chosen(s)
      OBVIOUS
    <3>2. f[{}] = 0
      BY <1>3
    <3> HIDE DEF pick, step, Chosen
    <3>. QED BY <1>4, <3>1, <3>2
  <2>3. g = [s \in SUBSET T |-> IF s = {} THEN 0 ELSE w[Chosen(s)] + g[s \ {Chosen(s)}]]
    <3> DEFINE h == [s \in SUBSET T |-> IF s = {} THEN 0 ELSE w[Chosen(s)] + g[s \ {Chosen(s)}]]
    <3>1. \A s \in SUBSET T : g[s] = h[s]
      BY <2>2
    <3>. QED BY <3>1
  <2>4. iter = [s \in SUBSET T |-> IF s = {} THEN 0 ELSE w[Chosen(s)] + iter[s \ {Chosen(s)}]]
    <3> HIDE DEF g, Chosen
    <3>. QED BY <2>3, Zenon DEF iter
  <2>5. \A s \in SUBSET T : iter[s] = IF s = {} THEN 0 ELSE w[Chosen(s)] + iter[s \ {Chosen(s)}]
    <3> HIDE DEF iter, Chosen
    <3>. QED BY <2>4
  <2> DEFINE Good == {s \in SUBSET T : iter[s] = f[s]}
  <2>6. {} \in Good
    BY <1>3, <2>5
  <2>7. ASSUME NEW s \in SUBSET T, s # {}, \A x \in s : s \ {x} \in Good PROVE s \in Good
    <3>1. pick[s] = Chosen(s) /\ Chosen(s) \in s /\ s \in SUBSET K
      BY <2>7
    <3> HIDE DEF pick, iter, Chosen
    <3>. QED BY <1>4, <2>5, <2>7, <3>1
  <2>8. IsFiniteSet(T)
    BY FS_Subset
  <2> HIDE DEF Good
  <2>9. Good = SUBSET T
    <3>1. Good \in SUBSET SUBSET T
      BY DEF Good
    <3>. QED BY <2>6, <2>7, <2>8, <3>1, SetInductive
  <2>10. T \in Good
    BY <2>9
  <2>11. iter[T] = f[T]
    BY <2>10 DEF Good
  <2>. QED BY <2>1, <2>11
<1> DEFINE Any == {s \in SUBSET K : \A x \in s : f[s] = w[x] + f[s \ {x}]}
<1>6. {} \in Any
  OBVIOUS
<1>7. ASSUME NEW s \in SUBSET K, s # {}, \A x \in s : s \ {x} \in Any PROVE s \in Any
  <2>1. SUFFICES ASSUME NEW x \in s PROVE f[s] = w[x] + f[s \ {x}]
    OBVIOUS
  <2>2. PICK p \in s : f[s] = w[p] + f[s \ {p}]
    BY <1>1, <1>4, <1>7
  <2>3. CASE x = p
    BY <2>2, <2>3
  <2>4. CASE x # p
    <3>1. f[s \ {p}] = w[x] + f[(s \ {p}) \ {x}] /\ f[s \ {x}] = w[p] + f[(s \ {x}) \ {p}]
      BY <1>7, <2>4
    <3>2. (s \ {p}) \ {x} = (s \ {x}) \ {p} /\ (s \ {x}) \ {p} \in SUBSET K
      OBVIOUS
    <3> DEFINE a == w[x]  b == w[p]  c == f[(s \ {x}) \ {p}]
    <3>3. a \in Nat /\ b \in Nat /\ c \in Nat /\ f[s] = b + (a + c) /\ f[s \ {x}] = b + c
      BY <2>2, <3>1, <3>2
    <3> HIDE DEF a, b, c
    <3>4. f[s] = a + (b + c)
      BY <3>3
    <3>. QED BY <3>3, <3>4 DEF a
  <2>. QED BY <2>3, <2>4
<1>8. Any = SUBSET K
  <2> HIDE DEF Any
  <2>1. Any \in SUBSET SUBSET K
    BY DEF Any
  <2>. QED BY <1>6, <1>7, <2>1, SetInductive
<1>9. f[{}] = 0 /\ \A s \in SUBSET K : f[s] \in Nat
  BY <1>3
<1> HIDE DEF pick, step
<1>. QED BY <1>5, <1>8, <1>9

\* More members weigh no less.
LEMMA TotalGrows ==
  ASSUME NEW K, IsFiniteSet(K), NEW w \in [K -> Nat], NEW t \in SUBSET K
  PROVE  \A s \in SUBSET t : Total(w, s) <= Total(w, t)
<1> DEFINE Good == {u \in SUBSET K : \A s \in SUBSET u : Total(w, s) <= Total(w, u)}
<1>0. \A u \in SUBSET K : Total(w, u) \in Nat
  BY TotalAdds
<1>1. {} \in Good
  <2>1. \A s \in SUBSET {} : s = {}
    OBVIOUS
  <2>. QED BY <1>0, <2>1
<1>2. ASSUME NEW u \in SUBSET K, u # {}, \A x \in u : u \ {x} \in Good PROVE u \in Good
  <2>1. SUFFICES ASSUME NEW s \in SUBSET u, s # u PROVE Total(w, s) <= Total(w, u)
    BY <1>0
  <2>2. PICK x \in u : x \notin s
    BY <2>1
  <2>3. Total(w, s) <= Total(w, u \ {x})
    BY <1>2, <2>2
  <2>4. Total(w, u) = w[x] + Total(w, u \ {x}) /\ w[x] \in Nat
    BY <2>2, TotalAdds
  <2>5. Total(w, s) \in Nat /\ Total(w, u \ {x}) \in Nat
    BY <1>0
  <2>. QED BY <2>3, <2>4, <2>5
<1>3. Good = SUBSET K
  <2> HIDE DEF Good
  <2>1. Good \in SUBSET SUBSET K
    BY DEF Good
  <2>. QED BY <1>1, <1>2, <2>1, SetInductive
<1>. QED BY <1>3

\* A total is of what the members weigh.
LEMMA TotalSame ==
  ASSUME NEW K, IsFiniteSet(K), NEW w \in [K -> Nat],
         NEW J, IsFiniteSet(J), NEW v \in [J -> Nat],
         NEW t \in SUBSET (K \cap J), \A x \in t : w[x] = v[x]
  PROVE  Total(w, t) = Total(v, t)
<1> DEFINE Good == {s \in SUBSET t : Total(w, s) = Total(v, s)}
<1>1. {} \in Good
  BY TotalAdds
<1>2. ASSUME NEW s \in SUBSET t, s # {}, \A x \in s : s \ {x} \in Good PROVE s \in Good
  <2>1. PICK x \in s : TRUE
    BY <1>2
  <2>2. Total(w, s) = w[x] + Total(w, s \ {x}) /\ Total(v, s) = v[x] + Total(v, s \ {x})
    BY TotalAdds
  <2>3. Total(w, s \ {x}) = Total(v, s \ {x}) /\ w[x] = v[x]
    BY <1>2
  <2>. QED BY <2>2, <2>3
<1>3. IsFiniteSet(t)
  BY FS_Subset
<1>4. Good = SUBSET t
  <2> HIDE DEF Good
  <2>1. Good \in SUBSET SUBSET t
    BY DEF Good
  <2>. QED BY <1>1, <1>2, <1>3, <2>1, SetInductive
<1>. QED BY <1>4

----------------------------------------------------------------------------
(* Folds of a sequence *)

\* A set of numbers up to n that is not empty has its maximum in it.
LEMMA MaxOfNumbers ==
  ASSUME NEW n \in Nat, NEW s \in SUBSET (1 .. n), s # {}
  PROVE  Max(s) \in s /\ \A m \in s : m <= Max(s)
<1> DEFINE left == {d \in Nat : \E m \in s : d = n - m}
<1>1. PICK m \in s : m \in 1 .. n
  OBVIOUS
<1>2. n - m \in left /\ left \in SUBSET Nat
  BY <1>1
<1>3. PICK d \in left : \A e \in left : d <= e
  <2> HIDE DEF left
  <2>. QED BY <1>2, LeastNumber
<1>4. PICK x \in s : d = n - x
  BY <1>3
<1>5. ASSUME NEW y \in s PROVE x >= y
  <2>1. n - y \in left
    <3>1. y \in 1 .. n
      OBVIOUS
    <3>. QED BY <3>1
  <2>2. d <= n - y
    BY <1>3, <2>1
  <2>3. x \in 1 .. n /\ y \in 1 .. n
    OBVIOUS
  <2>. QED BY <1>4, <2>2, <2>3
<1>6. \E z \in s : \A y \in s : z >= y
  BY <1>5
<1>7. Max(s) \in s /\ \A y \in s : Max(s) >= y
  BY <1>6 DEF Max
<1>. QED BY <1>7

\* What folding the sequence of 1 .. n from the left does at each of its places.
Folding(f, n, base, step) ==
  \A s \in SUBSET (1 .. n) :
    f[s] = IF s = {} THEN base ELSE step[Max(s)][f[s \ {Max(s)}]]

\* There is such a function: a fold from the left computes a value.
LEMMA FoldExists ==
  ASSUME NEW n \in Nat, NEW V, NEW base \in V, NEW step, StepsOn(step, 1 .. n, V)
  PROVE  \E f \in [SUBSET (1 .. n) -> V] : Folding(f, n, base, step)
<1> DEFINE S == 1 .. n
           pick == [s \in SUBSET S |-> Max(s)]
<1>1. IsFiniteSet(S)
  BY FS_Interval
<1>2. Picks(pick, S)
  BY MaxOfNumbers DEF Picks
<1>3. \E f \in [SUBSET S -> V] : Descends(f, S, base, pick, step)
  <2> HIDE DEF S, pick
  <2>1. StepsOn(step, S, V)
    BY DEF S
  <2>. QED BY <1>1, <1>2, <2>1, SetRecursion
<1>4. \A f : Descends(f, S, base, pick, step) => Folding(f, n, base, step)
  BY DEF Descends, Folding
<1>. QED BY <1>3, <1>4

\* What takes each step on a value of V.
Continues(g, n, V, base, step) ==
  /\ g[{}] = base
  /\ \A s \in SUBSET (1 .. n) :
       s # {} /\ g[s \ {Max(s)}] \in V => g[s] = step[Max(s)][g[s \ {Max(s)}]]

\* It is, on 1 .. k, what the first k steps make of the base.
LEMMA FoldChain ==
  ASSUME NEW n \in Nat, NEW V, NEW base \in V, NEW step, StepsOn(step, 1 .. n, V),
         NEW g, Continues(g, n, V, base, step)
  PROVE  \E a \in [0 .. n -> V] : /\ a[0] = base /\ a[n] = g[1 .. n]
                                  /\ \A k \in 1 .. n : a[k] = step[k][a[k - 1]]
<1> DEFINE a == [k \in 0 .. n |-> g[1 .. k]]
           K == {k \in Nat : k <= n => a[k] \in V}
<1>1. a[0] = base
  <2>1. 1 .. 0 = {}
    OBVIOUS
  <2>. QED BY <2>1 DEF Continues
<1>2. ASSUME NEW k \in 1 .. n, a[k - 1] \in V PROVE a[k] = step[k][a[k - 1]]
  <2>1. 1 .. k \in SUBSET (1 .. n) /\ k \in 1 .. k /\ (1 .. k) \ {k} = 1 .. (k - 1) /\ k - 1 \in 0 .. n
    OBVIOUS
  <2>2. Max(1 .. k) = k
    <3>1. Max(1 .. k) \in 1 .. k /\ \A m \in 1 .. k : m <= Max(1 .. k)
      BY <2>1, MaxOfNumbers
    <3>. QED BY <2>1, <3>1
  <2>3. a[k] = g[1 .. k] /\ a[k - 1] = g[1 .. (k - 1)]
    BY <2>1
  <2>4. g[(1 .. k) \ {k}] \in V /\ 1 .. k # {}
    BY <1>2, <2>1, <2>3
  <2>5. g[1 .. k] = step[k][g[(1 .. k) \ {k}]]
    <3> DEFINE s == 1 .. k
    <3>1. s \in SUBSET (1 .. n) /\ s # {} /\ g[s \ {Max(s)}] \in V /\ Max(s) = k
      BY <2>1, <2>2, <2>4
    <3> HIDE DEF s
    <3>2. g[s] = step[Max(s)][g[s \ {Max(s)}]]
      BY <3>1 DEF Continues
    <3>. QED BY <3>1, <3>2 DEF s
  <2>. QED BY <2>1, <2>3, <2>5
<1>3. 0 \in K
  BY <1>1
<1>4. ASSUME NEW k \in K PROVE k + 1 \in K
  <2>1. CASE k + 1 <= n
    <3>1. k + 1 \in 1 .. n /\ (k + 1) - 1 = k /\ k <= n /\ k + 1 \in Nat
      BY <2>1
    <3>2. a[k] \in V
      BY <3>1
    <3> HIDE DEF a
    <3>3. a[k + 1] = step[k + 1][a[k]]
      BY <1>2, <3>1, <3>2
    <3>. QED BY <3>1, <3>2, <3>3 DEF StepsOn
  <2>2. CASE ~(k + 1 <= n)
    BY <2>2
  <2>. QED BY <2>1, <2>2
<1>5. K = Nat
  <2> HIDE DEF K
  <2>1. K \in SUBSET Nat
    BY DEF K
  <2>. QED BY <1>3, <1>4, <2>1, Inductive
<1>6. \A k \in 0 .. n : a[k] \in V
  <2>1. \A k \in 0 .. n : k \in Nat /\ k <= n
    OBVIOUS
  <2> HIDE DEF a
  <2>. QED BY <1>5, <2>1
<1>7. a \in [0 .. n -> V] /\ a[n] = g[1 .. n]
  BY <1>6
<1>8. \A k \in 1 .. n : a[k] = step[k][a[k - 1]]
  <2>1. \A k \in 1 .. n : k - 1 \in 0 .. n
    OBVIOUS
  <2> HIDE DEF a
  <2>. QED BY <1>2, <1>6, <2>1
<1> HIDE DEF a
<1>. QED BY <1>1, <1>7, <1>8

=============================================================================
