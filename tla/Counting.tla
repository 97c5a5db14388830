------------------------------ MODULE Counting ------------------------------
(***************************************************************************)
(* Induction over the numbers and over what a number measures, the         *)
(* existence of what a recursive definition defines, and sums.             *)
(*                                                                         *)
(* A recursive function is the CHOOSE of one that solves its equation, so  *)
(* that a proof first shows that one does (Recursion).  What is said of    *)
(* all numbers, or of all parts of a set, is said as membership of a set   *)
(* Good.                                                                   *)
(***************************************************************************)
EXTENDS Integers, SequencesExt, FiniteSetTheorems, WellFoundedInduction, TLAPS

-----------------------------------------------------------------------------
\* Counting up reaches every number.
LEMMA CountUp ==
    ASSUME NEW Good, 0 \in Good, \A n \in Nat : n \in Good => n + 1 \in Good
    PROVE  \A n \in Nat : n \in Good
<1> DEFINE Bad == {n \in Nat : n \notin Good}
<1>1. SUFFICES ASSUME Bad # {} PROVE FALSE
    OBVIOUS
<1>2. PICK b \in Bad : \A c \in Bad : ~(<<c, b>> \in OpToRel(<, Nat))
    <2>1. Bad \subseteq Nat
        OBVIOUS
    <2>. HIDE DEF Bad
    <2>. QED
        BY <1>1, <2>1, WFMin, NatLessThanWellFounded, Zenon
<1>3. b \in Nat /\ b \notin Good /\ \A c \in Bad : ~(c < b)
    BY <1>2 DEF OpToRel
<1>4. b # 0 /\ b - 1 \in Nat /\ b - 1 < b /\ b = (b - 1) + 1
    BY <1>3
<1>5. b - 1 \in Good
    BY <1>3, <1>4
<1>. QED
    BY <1>3, <1>4, <1>5

\* What holds of an element once it holds of those of lesser measure holds of all.
LEMMA LeastFirst ==
    ASSUME NEW X, NEW mu \in [X -> Nat], NEW Good,
           \A x \in X : (\A y \in X : mu[y] < mu[x] => y \in Good) => x \in Good
    PROVE  \A x \in X : x \in Good
<1> DEFINE Below == {n \in Nat : \A x \in X : mu[x] < n => x \in Good}
<1>1. 0 \in Below
    OBVIOUS
<1>2. ASSUME NEW n \in Nat, n \in Below PROVE n + 1 \in Below
    <2>1. ASSUME NEW x \in X, mu[x] < n + 1 PROVE x \in Good
        <3>1. \A y \in X : mu[y] < mu[x] => y \in Good
            BY <1>2, <2>1
        <3>. QED
            BY <3>1
    <2>. QED
        BY <2>1
<1>3. \A n \in Nat : n \in Below
    <2>. HIDE DEF Below
    <2>. QED
        BY <1>1, <1>2, CountUp
<1>4. \A x \in X : mu[x] + 1 \in Below
    BY <1>3
<1>. QED
    BY <1>4

\* The greatest of numbers below a bound, and the least.
LEMMA MaxIs ==
    ASSUME NEW S \in SUBSET Int, NEW m \in S, \A y \in S : y <= m
    PROVE  Max(S) = m
<1>1. \E x \in S : \A y \in S : x >= y
    OBVIOUS
<1>2. Max(S) \in S /\ \A y \in S : Max(S) >= y
    BY <1>1 DEF Max
<1>3. Max(S) \in Int /\ m \in Int /\ Max(S) >= m /\ m >= Max(S)
    BY <1>2
<1>. QED
    BY <1>3

LEMMA MinIs ==
    ASSUME NEW S \in SUBSET Int, NEW m \in S, \A y \in S : m <= y
    PROVE  Min(S) = m
<1>1. \E x \in S : \A y \in S : x <= y
    OBVIOUS
<1>2. Min(S) \in S /\ \A y \in S : Min(S) <= y
    BY <1>1 DEF Min
<1>3. Min(S) \in Int /\ m \in Int /\ Min(S) <= m /\ m <= Min(S)
    BY <1>2
<1>. QED
    BY <1>3

LEMMA GreatestOf ==
    ASSUME NEW n \in Nat, NEW S \in SUBSET (0..n), S # {}
    PROVE  Max(S) \in S /\ \A y \in S : y <= Max(S)
<1> DEFINE mu == [x \in S |-> n - x]
           Good == {x \in S : \E m \in S : \A y \in S : y <= m}
<1>1. ASSUME NEW x \in S, \A y \in S : mu[y] < mu[x] => y \in Good
      PROVE  x \in Good
    <2>1. CASE \E y \in S : y > x
        <3>1. PICK y \in S : y > x
            BY <2>1
        <3>2. mu[y] < mu[x]
            BY <3>1
        <3>. QED
            BY <1>1, <3>2
    <2>2. CASE ~\E y \in S : y > x
        <3>1. \A y \in S : y <= x
            BY <2>2
        <3>. QED
            BY <3>1
    <2>. QED
        BY <2>1, <2>2
<1>2. mu \in [S -> Nat]
    OBVIOUS
<1>3. \A x \in S : x \in Good
    <2> HIDE DEF mu, Good
    <2>. QED
        BY <1>1, <1>2, LeastFirst
<1>4. PICK m \in S : \A y \in S : y <= m
    BY <1>3
<1>5. Max(S) = m
    BY <1>4, MaxIs
<1>. QED
    BY <1>4, <1>5

LEMMA LeastOf ==
    ASSUME NEW S \in SUBSET Nat, S # {}
    PROVE  \E m \in S : \A y \in S : m <= y
<1> DEFINE mu == [x \in S |-> x]
           Good == {x \in S : \E m \in S : \A y \in S : m <= y}
<1>1. ASSUME NEW x \in S, \A y \in S : mu[y] < mu[x] => y \in Good
      PROVE  x \in Good
    <2>1. CASE \E y \in S : y < x
        <3>1. PICK y \in S : y < x
            BY <2>1
        <3>2. mu[y] < mu[x]
            BY <3>1
        <3>. QED
            BY <1>1, <3>2
    <2>2. CASE ~\E y \in S : y < x
        <3>1. \A y \in S : x <= y
            BY <2>2
        <3>. QED
            BY <3>1
    <2>. QED
        BY <2>1, <2>2
<1>2. mu \in [S -> Nat]
    OBVIOUS
<1>3. \A x \in S : x \in Good
    <2> HIDE DEF mu, Good
    <2>. QED
        BY <1>1, <1>2, LeastFirst
<1>. QED
    BY <1>3

\* A recursion that takes pred[x] for x until Halt, and what solves it.
Descends(X, Halt, pred, mu, N) ==
    /\ pred \in [X -> X] /\ mu \in [X -> Nat] /\ N \in Nat
    /\ \A x \in X : mu[x] <= N
    /\ \A x \in X \ Halt : mu[pred[x]] < mu[x]
Computed(X, D, Halt, base, pred, step) ==
    \E f \in [X -> D] : \A x \in X :
        f[x] = IF x \in Halt THEN base[x] ELSE step[x][f[pred[x]]]

\* A recursion whose measure decreases and is bounded has a solution.
LEMMA Recursion ==
    ASSUME NEW X, NEW D, NEW Halt, NEW pred, NEW mu, NEW N, Descends(X, Halt, pred, mu, N),
           NEW base \in [X -> D], NEW step \in [X -> [D -> D]]
    PROVE  Computed(X, D, Halt, base, pred, step)
<1>. USE DEF Descends
<1> DEFINE Upto(n) == {x \in X : mu[x] < n}
           Solves(f, n) == \A x \in Upto(n) :
              f[x] = IF x \in Halt THEN base[x] ELSE step[x][f[pred[x]]]
           Solved == {n \in Nat : \E f \in [X -> D] : Solves(f, n)}
<1>1. 0 \in Solved
  <2>1. base \in [X -> D] /\ Solves(base, 0)
    OBVIOUS
  <2>. QED
    BY <2>1
<1>2. ASSUME NEW n \in Nat, n \in Solved PROVE n + 1 \in Solved
  <2>1. PICK f \in [X -> D] : Solves(f, n)
    BY <1>2
  <2> DEFINE g == [x \in X |-> IF x \in Halt THEN base[x] ELSE step[x][f[pred[x]]]]
  <2>2. g \in [X -> D]
    OBVIOUS
  <2>3. \A x \in Upto(n) : g[x] = f[x]
    BY <2>1
  <2>4. ASSUME NEW x \in Upto(n + 1), x \notin Halt PROVE pred[x] \in Upto(n)
    BY <2>4
  <2>5. Solves(g, n + 1)
    BY <2>3, <2>4
  <2> HIDE DEF Solves, g
  <2>6. \E h \in [X -> D] : Solves(h, n + 1)
    BY <2>2, <2>5
  <2>. QED
    BY <2>6
<1>3. \A n \in Nat : n \in Solved
  <2> HIDE DEF Solved
  <2>. QED
    BY <1>1, <1>2, CountUp
<1>4. PICK f \in [X -> D] : Solves(f, N + 1)
  <2>1. N + 1 \in Nat
    OBVIOUS
  <2>2. N + 1 \in Solved
    <3> HIDE DEF Solved
    <3>. QED
      BY <1>3, <2>1
  <2> HIDE DEF Solves
  <2>. QED
    BY <2>2
<1>5. ASSUME NEW x \in X PROVE x \in Upto(N + 1)
  <2>1. mu[x] \in Nat /\ N \in Nat /\ mu[x] <= N
    OBVIOUS
  <2>. QED
    BY <2>1
<1>. QED
    BY <1>4, <1>5 DEF Computed

-----------------------------------------------------------------------------
SomeOf(s) == CHOOSE x \in s : TRUE
Summing(f) == CHOOSE iter : iter = [s \in SUBSET DOMAIN f |->
    IF s = {} THEN 0 ELSE LET x == SomeOf(s) IN f[x] + iter[s \ {x}]]

\* The sums over the parts of the domain.
LEMMA PartSums ==
    ASSUME NEW S, IsFiniteSet(S), NEW f \in [S -> Nat]
    PROVE  /\ SumFunction(f) = Summing(f)[S]
           /\ \A s \in SUBSET S : Summing(f)[s] \in Nat
           /\ Summing(f)[{}] = 0
           /\ \A s \in (SUBSET S) \ {{}} :
                 Summing(f)[s] = f[SomeOf(s)] + Summing(f)[s \ {SomeOf(s)}]
<1> DEFINE X == SUBSET S
           G == Summing(f)
           Halt == {{}}
           base == [s \in X |-> 0]
           pred == [s \in X |-> s \ {SomeOf(s)}]
           step == [s \in X |-> [k \in Nat |-> IF s = {} THEN 0 ELSE f[SomeOf(s)] + k]]
           mu == [s \in X |-> Cardinality(s)]
           Fine == {s \in X : G[s] \in Nat}
<1>1. ASSUME NEW s \in X
      PROVE  /\ Cardinality(s) \in Nat /\ Cardinality(s) <= Cardinality(S)
             /\ s \ {SomeOf(s)} \in X
             /\ s # {} => f[SomeOf(s)] \in Nat /\ Cardinality(s \ {SomeOf(s)}) < Cardinality(s)
    <2>1. /\ IsFiniteSet(s) /\ Cardinality(s) \in Nat
          /\ Cardinality(s) <= Cardinality(S) /\ Cardinality(S) \in Nat
        BY FS_Subset, FS_CardinalityType
    <2>2. ASSUME s # {} PROVE f[SomeOf(s)] \in Nat /\ Cardinality(s \ {SomeOf(s)}) < Cardinality(s)
        <3>1. SomeOf(s) \in s
            BY <2>2 DEF SomeOf
        <3>2. s \ {SomeOf(s)} \in SUBSET s /\ s \ {SomeOf(s)} # s
            BY <3>1
        <3>3. Cardinality(s \ {SomeOf(s)}) < Cardinality(s)
            BY <2>1, <3>2, FS_Subset, FS_CardinalityType
        <3>. QED
            BY <3>1, <3>3
    <2>. QED
        BY <2>1, <2>2
<1>2. base \in [X -> Nat] /\ pred \in [X -> X] /\ mu \in [X -> Nat]
    BY <1>1
<1>3. step \in [X -> [Nat -> Nat]]
    <2>1. ASSUME NEW s \in X, NEW k \in Nat PROVE (IF s = {} THEN 0 ELSE f[SomeOf(s)] + k) \in Nat
        <3>1. CASE s = {}
            BY <3>1
        <3>2. CASE s # {}
            <4>1. f[SomeOf(s)] \in Nat
                BY <1>1, <3>2
            <4>. QED
                BY <3>2, <4>1
        <3>. QED
            BY <3>1, <3>2
    <2>. QED
        BY <2>1
<1>4. Descends(X, Halt, pred, mu, Cardinality(S))
    <2>1. Cardinality(S) \in Nat
        BY FS_CardinalityType
    <2>2. ASSUME NEW s \in X PROVE mu[s] <= Cardinality(S) /\ (s \notin Halt => mu[pred[s]] < mu[s])
        BY <1>1, <2>2
    <2> HIDE DEF X, pred, mu, Halt
    <2>. QED
        BY <1>2, <2>1, <2>2 DEF Descends
<1>5. PICK g \in [X -> Nat] :
        \A x \in X : g[x] = IF x \in Halt THEN base[x] ELSE step[x][g[pred[x]]]
    <2> HIDE DEF X, Halt, base, pred, step, mu
    <2>1. Computed(X, Nat, Halt, base, pred, step)
        BY <1>2, <1>3, <1>4, Recursion
    <2>. QED
        BY <2>1 DEF Computed
<1>6. g = [s \in SUBSET DOMAIN f |-> IF s = {} THEN 0 ELSE LET x == SomeOf(s) IN f[x] + g[s \ {x}]]
    <2>1. ASSUME NEW s \in X PROVE g[s] = IF s = {} THEN 0 ELSE f[SomeOf(s)] + g[s \ {SomeOf(s)}]
        <3>1. g[s] = IF s \in Halt THEN base[s] ELSE step[s][g[pred[s]]]
            BY <1>5
        <3>2. (s \in Halt <=> s = {}) /\ base[s] = 0 /\ pred[s] = s \ {SomeOf(s)}
            OBVIOUS
        <3>3. g[s \ {SomeOf(s)}] \in Nat
            BY <1>5
        <3>4. s # {} => step[s][g[s \ {SomeOf(s)}]] = f[SomeOf(s)] + g[s \ {SomeOf(s)}]
            BY <3>3
        <3> HIDE DEF Halt, base, pred, step
        <3>. QED
            BY <3>1, <3>2, <3>3, <3>4
    <2>2. g \in [X -> Nat] /\ DOMAIN f = S
        BY <1>5
    <2>. QED
        BY <2>1, <2>2
<1>7. G = [s \in SUBSET DOMAIN f |-> IF s = {} THEN 0 ELSE LET x == SomeOf(s) IN f[x] + G[s \ {x}]]
    BY <1>6 DEF Summing
<1>8. SumFunction(f) = G[DOMAIN f]
    BY DEF SumFunction, SumFunctionOnSet, FoldFunctionOnSet, MapThenFoldSet, Summing, SomeOf
<1>9. \A s \in X : G[s] = IF s = {} THEN 0 ELSE f[SomeOf(s)] + G[s \ {SomeOf(s)}]
    BY <1>7
<1> HIDE DEF G
<1>10. ASSUME NEW s \in X, \A q \in X : mu[q] < mu[s] => q \in Fine
       PROVE  s \in Fine
    <2>. SUFFICES G[s] \in Nat
        OBVIOUS
    <2>1. CASE s = {}
        <3>1. G[s] = 0
            BY <1>9, <2>1, Zenon
        <3>. QED
            BY <3>1
    <2>2. CASE s # {}
        <3>1. s \ {SomeOf(s)} \in X /\ mu[s \ {SomeOf(s)}] < mu[s]
            BY <1>1, <2>2
        <3>2. G[s \ {SomeOf(s)}] \in Nat
            BY <1>10, <3>1
        <3>3. G[s] = f[SomeOf(s)] + G[s \ {SomeOf(s)}]
            BY <1>9, <2>2, Zenon
        <3>. QED
            BY <1>1, <2>2, <3>2, <3>3
    <2>. QED
        BY <2>1, <2>2
<1>11. \A s \in X : s \in Fine
    <2> HIDE DEF X, Fine, mu
    <2>. QED
        BY <1>2, <1>10, LeastFirst
<1>12. G[{}] = 0 /\ \A s \in X \ {{}} : G[s] = f[SomeOf(s)] + G[s \ {SomeOf(s)}]
    <2>1. {} \in X
        OBVIOUS
    <2> HIDE DEF X
    <2>2. G[{}] = 0
        BY <1>9, <2>1, Zenon
    <2>3. ASSUME NEW s \in X \ {{}} PROVE G[s] = f[SomeOf(s)] + G[s \ {SomeOf(s)}]
        BY <1>9, Zenon
    <2>. QED
        BY <2>2, <2>3
<1>. QED
    BY <1>8, <1>11, <1>12 DEF G

LEMMA SumNat ==
    ASSUME NEW S, IsFiniteSet(S), NEW f \in [S -> Nat]
    PROVE  SumFunction(f) \in Nat
BY PartSums

LEMMA SumNone ==
    ASSUME NEW f \in [{} -> Nat]
    PROVE  SumFunction(f) = 0
BY PartSums, FS_EmptySet

\* It does not matter which element is taken first.
LEMMA AnyFirst ==
    ASSUME NEW S, IsFiniteSet(S), NEW f \in [S -> Nat], NEW x \in S
    PROVE  SumFunction(f) = f[x] + Summing(f)[S \ {x}]
<1> DEFINE X == SUBSET S
           mu == [s \in X |-> Cardinality(s)]
           G == Summing(f)
           Free == {s \in X : \A y \in s : G[s] = f[y] + G[s \ {y}]}
<1>1. /\ \A s \in X : G[s] \in Nat
      /\ \A s \in X \ {{}} : G[s] = f[SomeOf(s)] + G[s \ {SomeOf(s)}]
      /\ SumFunction(f) = G[S]
    <2> HIDE DEF mu, Free
    <2>1. SumFunction(f) = G[S]
        BY PartSums
    <2>2. \A s \in X : G[s] \in Nat
        BY PartSums
    <2>3. \A s \in X \ {{}} : G[s] = f[SomeOf(s)] + G[s \ {SomeOf(s)}]
        BY PartSums
    <2>. QED
        BY <2>1, <2>2, <2>3
<1>2. ASSUME NEW s \in X
      PROVE  /\ Cardinality(s) \in Nat
             /\ \A y \in s : s \ {y} \in X /\ Cardinality(s \ {y}) < Cardinality(s)
    <2>1. IsFiniteSet(s)
        BY FS_Subset
    <2>2. ASSUME NEW y \in s PROVE Cardinality(s \ {y}) < Cardinality(s)
        <3>1. s \ {y} \in SUBSET s /\ s \ {y} # s
            OBVIOUS
        <3>. QED
            BY <2>1, <3>1, FS_Subset, FS_CardinalityType
    <2>. QED
        BY <2>1, <2>2, FS_CardinalityType
<1> HIDE DEF G
<1>3. ASSUME NEW s \in X, \A q \in X : mu[q] < mu[s] => q \in Free
      PROVE  s \in Free
    <2> SUFFICES ASSUME NEW y \in s PROVE G[s] = f[y] + G[s \ {y}]
        OBVIOUS
    <2> DEFINE z == SomeOf(s)
    <2>1. z \in s
        BY DEF SomeOf
    <2> HIDE DEF z
    <2>2. G[s] = f[z] + G[s \ {z}]
        BY <1>1, <2>1 DEF z
    <2>3. s \ {y} \in X /\ s \ {z} \in X /\ s \ {y} \in Free /\ s \ {z} \in Free
        BY <1>2, <1>3, <2>1
    <2>4. CASE y = z
        BY <2>2, <2>4
    <2>5. CASE y # z
        <3>1. y \in s \ {z} /\ z \in s \ {y} /\ (s \ {z}) \ {y} = (s \ {y}) \ {z}
            BY <2>1, <2>5
        <3>2. G[s \ {z}] = f[y] + G[(s \ {z}) \ {y}] /\ G[s \ {y}] = f[z] + G[(s \ {y}) \ {z}]
            BY <2>3, <3>1
        <3>3. f[y] \in Nat /\ f[z] \in Nat /\ (s \ {z}) \ {y} \in X
            BY <2>1
        <3>4. G[(s \ {z}) \ {y}] \in Nat
            BY <1>1, <3>3
        <3>5. G[s] = f[z] + (f[y] + G[(s \ {z}) \ {y}])
            BY <2>2, <3>2
        <3>6. G[s \ {y}] = f[z] + G[(s \ {z}) \ {y}]
            BY <3>1, <3>2
        <3> HIDE DEF X
        <3>. QED
            BY <3>3, <3>4, <3>5, <3>6
    <2>. QED
        BY <2>4, <2>5
<1>4. \A s \in X : s \in Free
    <2>1. mu \in [X -> Nat]
        BY <1>2
    <2> HIDE DEF X, Free, mu
    <2>. QED
        BY <1>3, <2>1, LeastFirst
<1>5. S \in Free
    BY <1>4
<1>. QED
    BY <1>1, <1>5 DEF G

\* A sum over more is the sum over less and what is more.
LEMMA SumMore ==
    ASSUME NEW S, IsFiniteSet(S), NEW x, x \notin S, NEW f \in [S \cup {x} -> Nat]
    PROVE  SumFunction(f) = SumFunction([s \in S |-> f[s]]) + f[x]
<1> DEFINE X == SUBSET S
           g == [s \in S |-> f[s]]
           F == Summing(f)
           G == Summing(g)
           mu == [s \in X |-> Cardinality(s)]
           Same == {s \in X : F[s] = G[s]}
<1>1. IsFiniteSet(S \cup {x})
    BY FS_AddElement
<1>2. g \in [S -> Nat] /\ (S \cup {x}) \ {x} = S
    OBVIOUS
<1>3. SumFunction(f) = f[x] + F[S]
    BY <1>1, <1>2, AnyFirst
<1>4. /\ F[{}] = 0 /\ \A s \in X \ {{}} : F[s] = f[SomeOf(s)] + F[s \ {SomeOf(s)}]
      /\ \A s \in X : F[s] \in Nat
    <2>1. \A s \in X : s \in SUBSET (S \cup {x})
        OBVIOUS
    <2>. QED
        BY <1>1, <2>1, PartSums
<1>5. /\ G[{}] = 0 /\ \A s \in X \ {{}} : G[s] = g[SomeOf(s)] + G[s \ {SomeOf(s)}]
      /\ SumFunction(g) = G[S]
    <2> HIDE DEF g
    <2>. QED
        BY <1>2, PartSums
<1>6. \A s \in X \ {{}} : SomeOf(s) \in s /\ SomeOf(s) \in S /\ g[SomeOf(s)] = f[SomeOf(s)]
    BY DEF SomeOf
<1> HIDE DEF F, G, g
<1>7. ASSUME NEW s \in X, \A q \in X : mu[q] < mu[s] => q \in Same
      PROVE  s \in Same
    <2>1. CASE s = {}
        BY <1>4, <1>5, <2>1
    <2>2. CASE s # {}
        <3>1. s \ {SomeOf(s)} \in X /\ IsFiniteSet(s) /\ SomeOf(s) \in s
            BY <1>6, <2>2, FS_Subset
        <3>2. s \ {SomeOf(s)} \in SUBSET s /\ s \ {SomeOf(s)} # s
            BY <3>1
        <3>3. Cardinality(s \ {SomeOf(s)}) < Cardinality(s)
            BY <3>1, <3>2, FS_Subset, FS_CardinalityType
        <3>4. s \ {SomeOf(s)} \in Same
            BY <1>7, <3>1, <3>3
        <3>. QED
            BY <1>4, <1>5, <1>6, <2>2, <3>4
    <2>. QED
        BY <2>1, <2>2
<1>8. \A s \in X : s \in Same
    <2>1. mu \in [X -> Nat]
        BY FS_Subset, FS_CardinalityType
    <2> HIDE DEF X, Same, mu
    <2>. QED
        BY <1>7, <2>1, LeastFirst
<1>9. F[S] = G[S] /\ F[S] \in Nat /\ f[x] \in Nat
    BY <1>4, <1>8
<1>. QED
    BY <1>3, <1>5, <1>9 DEF g

LEMMA SumBoth ==
    ASSUME NEW S, IsFiniteSet(S), NEW T, IsFiniteSet(T), S \cap T = {},
           NEW f \in [S \cup T -> Nat]
    PROVE  SumFunction(f) = SumFunction([s \in S |-> f[s]]) + SumFunction([t \in T |-> f[t]])
<1> DEFINE X == SUBSET T
           On(P) == SumFunction([p \in P |-> f[p]])
           mu == [P \in X |-> Cardinality(P)]
           Adds == {P \in X : On(S \cup P) = On(S) + On(P)}
<1>1. ASSUME NEW P \in SUBSET (S \cup T)
      PROVE  IsFiniteSet(P) /\ [p \in P |-> f[p]] \in [P -> Nat] /\ On(P) \in Nat
    <2>1. IsFiniteSet(S \cup T)
        BY FS_Union
    <2>2. IsFiniteSet(P)
        BY <2>1, FS_Subset
    <2>3. [p \in P |-> f[p]] \in [P -> Nat]
        OBVIOUS
    <2>. QED
        BY <2>2, <2>3, SumNat
<1>2. ASSUME NEW P \in SUBSET (S \cup T), NEW x \in (S \cup T) \ P
      PROVE  On(P \cup {x}) = On(P) + f[x]
    <2> DEFINE h == [p \in P \cup {x} |-> f[p]]
    <2>1. P \cup {x} \in SUBSET (S \cup T) /\ h \in [P \cup {x} -> Nat] /\ h[x] = f[x]
          /\ [p \in P |-> h[p]] = [p \in P |-> f[p]]
        OBVIOUS
    <2>2. SumFunction(h) = SumFunction([p \in P |-> h[p]]) + h[x]
        <3> HIDE DEF h
        <3>. QED
            BY <1>1, <2>1, SumMore
    <2>. QED
        BY <2>1, <2>2
<1>3. On({}) = 0
    <2>1. [p \in {} |-> f[p]] \in [{} -> Nat]
        OBVIOUS
    <2>. QED
        BY <2>1, SumNone
<1> HIDE DEF On
<1>4. ASSUME NEW P \in X, \A Q \in X : mu[Q] < mu[P] => Q \in Adds
      PROVE  P \in Adds
    <2>1. CASE P = {}
        <3>1. S \cup P = S /\ S \in SUBSET (S \cup T)
            BY <2>1
        <3>2. On(S) \in Nat
            BY <1>1, <3>1
        <3>. QED
            BY <1>3, <2>1, <3>1, <3>2
    <2>2. CASE P # {}
        <3>1. PICK x \in P : TRUE
            BY <2>2
        <3> DEFINE Q == P \ {x}
        <3>2. /\ Q \in X /\ Q \cup {x} = P /\ x \notin Q /\ x \notin S \cup Q /\ x \in S \cup T
              /\ (S \cup Q) \cup {x} = S \cup P /\ S \in SUBSET (S \cup T)
              /\ Q \in SUBSET (S \cup T) /\ S \cup Q \in SUBSET (S \cup T) /\ Q # P
            BY <3>1
        <3>3. Cardinality(Q) < Cardinality(P)
            <4>1. IsFiniteSet(P) /\ Q \in SUBSET P
                BY FS_Subset
            <4> HIDE DEF Q
            <4>. QED
                BY <3>2, <4>1, FS_Subset, FS_CardinalityType
        <3> HIDE DEF Q
        <3>4. On(S \cup Q) = On(S) + On(Q)
            BY <1>4, <3>2, <3>3
        <3>5. On(S \cup P) = On(S \cup Q) + f[x] /\ On(P) = On(Q) + f[x]
            BY <1>2, <3>2
        <3>6. On(S) \in Nat /\ On(Q) \in Nat /\ f[x] \in Nat
            BY <1>1, <3>2
        <3>. QED
            BY <3>4, <3>5, <3>6
    <2>. QED
        BY <2>1, <2>2
<1>5. \A P \in X : P \in Adds
    <2>1. mu \in [X -> Nat]
        BY FS_Subset, FS_CardinalityType
    <2> HIDE DEF X, Adds, mu
    <2>. QED
        BY <1>4, <2>1, LeastFirst
<1>6. On(S \cup T) = On(S) + On(T)
    BY <1>5
<1>. QED
    BY <1>6 DEF On
=============================================================================
