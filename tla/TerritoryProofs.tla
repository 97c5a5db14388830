-------------------------- MODULE TerritoryProofs --------------------------
(***************************************************************************)
(* Theorems about Territory: what a rebuild may do to the map, for every   *)
(* grid, every set of crews, every route and every window.                 *)
(*                                                                         *)
(* The rules are written as recursive functions.  A proof first shows that *)
(* one solves its equation (Recursion, which counts up to the bound of a   *)
(* measure), and then argues by the same measure (LeastFirst).             *)
(***************************************************************************)
EXTENDS Territory, Counting

-----------------------------------------------------------------------------
\* No side leads from Z to the rest of H.
Shut(Z, H) == \A x \in Z : Sides(x) \cap H \subseteq Z
Wider(H, r) == r \cup (Beside(r) \cap H)
Outside(H) == [r \in SUBSET H |-> Cardinality(H \ r)]

LEMMA WiderHas ==
    ASSUME NEW H, NEW r \in SUBSET H
    PROVE  \A y : y \in Wider(H, r) <=> y \in r \/ (y \in H /\ \E s \in r : y \in Sides(s))
<1>1. \A y : y \in Beside(r) <=> \E s \in r : y \in Sides(s)
    BY DEF Beside
<1>. QED
    BY <1>1 DEF Wider

LEMMA Widening ==
    ASSUME NEW H, IsFiniteSet(H), NEW r \in SUBSET H
    PROVE  /\ Outside(H) \in [SUBSET H -> Nat] /\ Outside(H)[r] <= Cardinality(H)
           /\ Cardinality(H) \in Nat
           /\ Wider(H, r) \in SUBSET H /\ r \subseteq Wider(H, r)
           /\ Wider(H, r) = r <=> Shut(r, H)
           /\ Wider(H, r) # r => Outside(H)[Wider(H, r)] < Outside(H)[r]
<1>1. ASSUME NEW q \in SUBSET H PROVE Cardinality(H \ q) \in Nat /\ Cardinality(H \ q) <= Cardinality(H)
    <2>1. IsFiniteSet(H \ q) /\ (H \ q) \subseteq H
        BY FS_Difference
    <2>. QED
        BY <2>1, FS_CardinalityType, FS_Subset
<1>2. Wider(H, r) \in SUBSET H /\ r \subseteq Wider(H, r)
    BY WiderHas
<1>3. Wider(H, r) = r <=> Shut(r, H)
    BY WiderHas DEF Shut
<1>4. ASSUME Wider(H, r) # r PROVE Cardinality(H \ Wider(H, r)) < Cardinality(H \ r)
    <2>1. (H \ Wider(H, r)) \subseteq (H \ r) /\ H \ Wider(H, r) # H \ r
        BY <1>2, <1>4
    <2>2. IsFiniteSet(H \ r)
        BY FS_Difference
    <2>. QED
        BY <2>1, <2>2, <1>1, <1>2, FS_Subset, FS_CardinalityType
<1>. QED
    BY <1>1, <1>2, <1>3, <1>4, FS_CardinalityType DEF Outside

Filled(H) == CHOOSE more : more = [reached \in SUBSET H |->
                LET next == reached \cup (Beside(reached) \cap H)
                IN  IF next = reached THEN reached ELSE more[next]]

\* The recursion of Flood comes to an end.
LEMMA FloodEnds ==
    ASSUME NEW H, IsFiniteSet(H)
    PROVE  /\ \A S : Flood(S, H) = Filled(H)[S \cap H]
           /\ \A r \in SUBSET H :
                 Filled(H)[r] = IF Wider(H, r) = r THEN r ELSE Filled(H)[Wider(H, r)]
<1> DEFINE Halt == {r \in SUBSET H : Wider(H, r) = r}
           base == [r \in SUBSET H |-> r]
           pred == [r \in SUBSET H |-> Wider(H, r)]
           step == [r \in SUBSET H |-> [d \in SUBSET H |-> d]]
           mu == Outside(H)
           X == SUBSET H
<1>1. /\ base \in [X -> X] /\ pred \in [X -> X] /\ step \in [X -> [X -> X]]
      /\ mu \in [X -> Nat] /\ Cardinality(H) \in Nat
      /\ \A x \in X : mu[x] <= Cardinality(H)
      /\ \A x \in X \ Halt : mu[pred[x]] < mu[x]
    BY Widening
<1>2. Descends(X, Halt, pred, mu, Cardinality(H))
    BY <1>1 DEF Descends
<1>3. Computed(X, X, Halt, base, pred, step)
    <2> HIDE DEF Halt, base, pred, step, mu, X
    <2>. QED
        BY <1>1, <1>2, Recursion
<1>4. PICK f \in [X -> X] :
        \A x \in X : f[x] = IF x \in Halt THEN base[x] ELSE step[x][f[pred[x]]]
    <2> HIDE DEF Halt, base, pred, step, mu, X
    <2>. QED
        BY <1>3 DEF Computed
<1>5. f = [r \in SUBSET H |-> IF Wider(H, r) = r THEN r ELSE f[Wider(H, r)]]
    <2>1. ASSUME NEW r \in SUBSET H PROVE f[r] = IF Wider(H, r) = r THEN r ELSE f[Wider(H, r)]
        <3>1. f[r] = IF r \in Halt THEN base[r] ELSE step[r][f[pred[r]]]
            BY <1>4
        <3>2. r \in Halt <=> Wider(H, r) = r
            OBVIOUS
        <3>3. base[r] = r /\ pred[r] = Wider(H, r) /\ f[pred[r]] \in X
            BY <1>1
        <3>4. step[r][f[pred[r]]] = f[pred[r]]
            BY <3>3
        <3> HIDE DEF Halt, base, pred, step
        <3>. QED
            BY <3>1, <3>2, <3>3, <3>4
    <2>. QED
        BY <2>1, <1>4
<1>6. Filled(H) = [r \in SUBSET H |-> IF Wider(H, r) = r THEN r ELSE Filled(H)[Wider(H, r)]]
    BY <1>5 DEF Filled, Wider
<1>7. \A S : Flood(S, H) = Filled(H)[S \cap H]
    BY DEF Flood, Filled
<1>. QED
    BY <1>6, <1>7

\* Flood gives the least part of H that has S \cap H and is shut.
LEMMA FloodFacts ==
    ASSUME NEW S, NEW H, IsFiniteSet(H)
    PROVE  /\ Flood(S, H) \subseteq H /\ S \cap H \subseteq Flood(S, H)
           /\ Shut(Flood(S, H), H)
           /\ \A Z \in SUBSET H : S \cap H \subseteq Z /\ Shut(Z, H) => Flood(S, H) \subseteq Z
<1> DEFINE F == Filled(H)
           Right(r) == /\ F[r] \subseteq H /\ r \subseteq F[r] /\ Shut(F[r], H)
                       /\ \A Z \in SUBSET H : r \subseteq Z /\ Shut(Z, H) => F[r] \subseteq Z
           Good == {r \in SUBSET H : Right(r)}
           mu == Outside(H)
<1>1. ASSUME NEW r \in SUBSET H, \A q \in SUBSET H : mu[q] < mu[r] => q \in Good
      PROVE  r \in Good
    <2>1. CASE Wider(H, r) = r
        <3>1. F[r] = r
            BY <2>1, FloodEnds
        <3>. QED
            BY <3>1, <2>1, Widening
    <2>2. CASE Wider(H, r) # r
        <3> DEFINE w == Wider(H, r)
        <3>1. F[r] = F[w] /\ w \in SUBSET H /\ mu[w] < mu[r] /\ r \subseteq w
            BY <2>2, FloodEnds, Widening
        <3>2. Right(w)
            BY <1>1, <3>1
        <3>3. ASSUME NEW Z \in SUBSET H, r \subseteq Z, Shut(Z, H) PROVE F[r] \subseteq Z
            <4>1. w \subseteq Z
                BY <3>3, WiderHas DEF Shut
            <4>. QED
                BY <4>1, <3>1, <3>2, <3>3
        <3> HIDE DEF w, F
        <3>4. Right(r)
            BY <3>1, <3>2, <3>3
        <3>. QED
            BY <3>4
    <2>. QED
        BY <2>1, <2>2
<1>2. \A r \in SUBSET H : r \in Good
    <2>1. mu \in [SUBSET H -> Nat]
        BY Widening
    <2> HIDE DEF Good, mu
    <2>. QED
        BY <1>1, <2>1, LeastFirst
<1>3. Right(S \cap H)
    BY <1>2
<1>4. Flood(S, H) = F[S \cap H]
    BY FloodEnds
<1>. QED
    BY <1>3, <1>4

-----------------------------------------------------------------------------
LEMMA SquaresFinite == IsFiniteSet(Squares) /\ IsFiniteSet(Around) /\ Squares \subseteq Around
<1>1. /\ Width \in Int /\ Height \in Int /\ Width + 1 \in Int /\ Height + 1 \in Int
      /\ 0 \in Int /\ 1 \in Int
    BY GridAssumption
<1>2. /\ IsFiniteSet(1..Width) /\ IsFiniteSet(1..Height)
      /\ IsFiniteSet(0..(Width + 1)) /\ IsFiniteSet(0..(Height + 1))
    BY <1>1, FS_Interval
<1>3. IsFiniteSet(Squares) /\ IsFiniteSet(Around)
    BY <1>2, FS_Product DEF Squares, Around
<1>4. Squares \subseteq Around
    BY <1>1 DEF Squares, Around
<1>. QED
    BY <1>3, <1>4

LEMMA OfSquares ==
    ASSUME NEW map, NEW c
    PROVE  Of(map, c) \subseteq Squares /\ IsFiniteSet(Of(map, c))
BY SquaresFinite, FS_Subset DEF Of

\* Sides are mutual.
LEMMA SidesMutual ==
    ASSUME NEW s \in Int \X Int, NEW t \in Int \X Int
    PROVE  s \in Sides(t) <=> t \in Sides(s)
<1>1. PICK a, b \in Int : s = <<a, b>>
    OBVIOUS
<1>2. PICK d, e \in Int : t = <<d, e>>
    OBVIOUS
<1>. QED
    BY <1>1, <1>2 DEF Sides

LEMMA GridInts == Around \subseteq Int \X Int /\ Squares \subseteq Int \X Int
BY GridAssumption DEF Around, Squares

-----------------------------------------------------------------------------
\* A set is in one piece when no smaller part of it but the empty one is shut.
OnePiece(P) == \A Z \in SUBSET P : Shut(Z, P) => Z = {} \/ Z = P

Split(H) == CHOOSE parts : parts = [left \in SUBSET H |->
            IF left = {} THEN {}
            ELSE LET part == Part(left)
                 IN  {part} \cup parts[left \ part]]

LEMMA PartFacts ==
    ASSUME NEW left \in SUBSET (Int \X Int), left # {}, IsFiniteSet(left)
    PROVE  /\ Part(left) \subseteq left /\ Part(left) # {} /\ Shut(Part(left), left)
           /\ OnePiece(Part(left)) /\ Shut(left \ Part(left), left)
<1> DEFINE s == CHOOSE x \in left : TRUE
           P == Part(left)
<1>1. s \in left
    OBVIOUS
<1>2. /\ P \subseteq left /\ s \in P /\ Shut(P, left)
      /\ \A Z \in SUBSET left : s \in Z /\ Shut(Z, left) => P \subseteq Z
    <2>1. {s} \cap left = {s}
        BY <1>1
    <2>2. P = Flood({s}, left)
        BY DEF Part
    <2> HIDE DEF s, P
    <2>. QED
        BY <2>1, <2>2, FloodFacts
<1> HIDE DEF s, P
<1>3. ASSUME NEW Z \in SUBSET left, Shut(Z, left) PROVE Shut(left \ Z, left)
    <2>1. ASSUME NEW x \in left \ Z, NEW y \in Sides(x) \cap left PROVE y \notin Z
        BY <1>3, <2>1, SidesMutual DEF Shut
    <2>. QED
        BY <2>1 DEF Shut
<1>4. ASSUME NEW Z \in SUBSET P, Shut(Z, P) PROVE Z = {} \/ Z = P
    <2>1. Shut(Z, left)
        BY <1>2, <1>4 DEF Shut
    <2>2. CASE s \in Z
        BY <1>2, <2>1, <2>2
    <2>3. CASE s \notin Z
        <3>1. Shut(P \ Z, left)
            BY <1>2, <1>3, <2>1 DEF Shut
        <3>. QED
            BY <1>2, <2>3, <3>1
    <2>. QED
        BY <2>2, <2>3
<1>. QED
    BY <1>2, <1>3, <1>4 DEF OnePiece, P

\* Regions falls apart into pieces of H, each shut in H and in one piece.
Pieces(H, parts) == \A P \in parts :
    P \in SUBSET H /\ P # {} /\ Shut(P, H) /\ OnePiece(P)

LEMMA SplitEnds ==
    ASSUME NEW H \in SUBSET (Int \X Int), IsFiniteSet(H)
    PROVE  /\ Regions(H) = Split(H)[H]
           /\ \A left \in SUBSET H :
                Split(H)[left] = IF left = {} THEN {} ELSE {Part(left)} \cup Split(H)[left \ Part(left)]
<1> DEFINE X == SUBSET H
           D == SUBSET SUBSET H
           Halt == {{}}
           base == [left \in X |-> {}]
           pred == [left \in X |-> left \ Part(left)]
           step == [left \in X |-> [parts \in D |-> IF left = {} THEN {} ELSE {Part(left)} \cup parts]]
           mu == [left \in X |-> Cardinality(left)]
<1>1. ASSUME NEW left \in X
      PROVE  /\ IsFiniteSet(left) /\ Cardinality(left) \in Nat
             /\ Cardinality(left) <= Cardinality(H) /\ Cardinality(H) \in Nat
             /\ left # {} => /\ Part(left) \in SUBSET H
                             /\ Cardinality(left \ Part(left)) < Cardinality(left)
    <2>1. IsFiniteSet(left) /\ Cardinality(left) \in Nat /\ Cardinality(left) <= Cardinality(H)
          /\ Cardinality(H) \in Nat
        BY FS_Subset, FS_CardinalityType
    <2>2. ASSUME left # {} PROVE Part(left) \in SUBSET H /\ Cardinality(left \ Part(left)) < Cardinality(left)
        <3>1. Part(left) \subseteq left /\ Part(left) # {}
            BY <2>1, <2>2, PartFacts
        <3>2. (left \ Part(left)) \subseteq left /\ left \ Part(left) # left
            BY <3>1
        <3>. QED
            BY <2>1, <3>1, <3>2, FS_Subset, FS_CardinalityType
    <2>. QED
        BY <2>1, <2>2
<1>2. base \in [X -> D] /\ pred \in [X -> X] /\ mu \in [X -> Nat]
    BY <1>1
<1>3. step \in [X -> [D -> D]]
    <2>1. ASSUME NEW left \in X, NEW parts \in D
          PROVE  (IF left = {} THEN {} ELSE {Part(left)} \cup parts) \in D
        BY <1>1
    <2>. QED
        BY <2>1
<1>4. Descends(X, Halt, pred, mu, Cardinality(H))
    <2>1. Cardinality(H) \in Nat
        BY FS_CardinalityType
    <2>2. ASSUME NEW x \in X PROVE mu[x] <= Cardinality(H) /\ (x \notin Halt => mu[pred[x]] < mu[x])
        BY <1>1, <2>2
    <2>. QED
        BY <1>2, <2>1, <2>2 DEF Descends
<1>5. PICK f \in [X -> D] :
        \A x \in X : f[x] = IF x \in Halt THEN base[x] ELSE step[x][f[pred[x]]]
    <2> HIDE DEF X, D, Halt, base, pred, step, mu
    <2>1. Computed(X, D, Halt, base, pred, step)
        BY <1>2, <1>3, <1>4, Recursion
    <2>. QED
        BY <2>1 DEF Computed
<1>6. f = [left \in X |-> IF left = {} THEN {} ELSE {Part(left)} \cup f[left \ Part(left)]]
    <2>1. ASSUME NEW left \in X
          PROVE  f[left] = IF left = {} THEN {} ELSE {Part(left)} \cup f[left \ Part(left)]
        <3>1. f[left] = IF left \in Halt THEN base[left] ELSE step[left][f[pred[left]]]
            BY <1>5
        <3>2. (left \in Halt <=> left = {}) /\ base[left] = {}
            OBVIOUS
        <3>3. pred[left] = left \ Part(left) /\ f[pred[left]] \in D
            BY <1>2
        <3>4. left # {} => step[left][f[pred[left]]] = {Part(left)} \cup f[pred[left]]
            BY <3>3
        <3> HIDE DEF Halt, base, pred, step
        <3>. QED
            BY <3>1, <3>2, <3>3, <3>4
    <2>2. f \in [X -> D]
        BY <1>5
    <2> HIDE DEF X, D
    <2>. QED
        BY <2>1, <2>2
<1>7. Split(H) = [left \in X |-> IF left = {} THEN {} ELSE {Part(left)} \cup Split(H)[left \ Part(left)]]
    BY <1>6 DEF Split
<1>8. Regions(H) = Split(H)[H]
    BY DEF Regions, Split
<1>. QED
    BY <1>7, <1>8

LEMMA RegionsPieces ==
    ASSUME NEW H \in SUBSET (Int \X Int), IsFiniteSet(H)
    PROVE  Pieces(H, Regions(H))
<1> DEFINE X == SUBSET H
           S == Split(H)
           mu == [left \in X |-> Cardinality(left)]
           Good == {left \in X : Pieces(left, S[left])}
<1>1. ASSUME NEW left \in X PROVE IsFiniteSet(left) /\ Cardinality(left) \in Nat
    BY FS_Subset, FS_CardinalityType
<1>2. ASSUME NEW left \in X, \A q \in X : mu[q] < mu[left] => q \in Good
      PROVE  left \in Good
    <2>1. CASE left = {}
        BY <2>1, SplitEnds DEF Pieces
    <2>2. CASE left # {}
        <3> DEFINE P == Part(left)
                   rest == left \ P
        <3>1. /\ P \subseteq left /\ P # {} /\ Shut(P, left) /\ OnePiece(P) /\ Shut(rest, left)
            BY <1>1, <2>2, PartFacts
        <3>2. rest \in X /\ mu[rest] < mu[left]
            <4>1. rest \subseteq left /\ rest # left
                BY <3>1
            <4>2. Cardinality(rest) < Cardinality(left)
                BY <4>1, <1>1, FS_Subset
            <4>. QED
                BY <4>1, <4>2
        <3>3. Pieces(rest, S[rest])
            BY <3>2, <1>2
        <3>4. S[left] = {P} \cup S[rest]
            <4>1. S[left] = IF left = {} THEN {} ELSE {Part(left)} \cup S[left \ Part(left)]
                BY SplitEnds
            <4>. HIDE DEF S
            <4>. QED
                BY <4>1, <2>2
        <3> HIDE DEF P, rest, S
        <3>5. ASSUME NEW Q \in S[rest] PROVE Q \in SUBSET left /\ Q # {} /\ Shut(Q, left) /\ OnePiece(Q)
            <4>1. rest \subseteq left
                BY DEF rest
            <4>. QED
                BY <3>1, <3>3, <4>1 DEF Pieces, Shut
        <3>6. Pieces(left, S[left])
            BY <3>1, <3>4, <3>5 DEF Pieces
        <3>. QED
            BY <3>6
    <2>. QED
        BY <2>1, <2>2
<1>3. mu \in [X -> Nat]
    BY <1>1
<1>4. H \in Good
    <2> HIDE DEF Good, mu
    <2>. QED
        BY <1>2, <1>3, LeastFirst
<1>5. Pieces(H, S[H])
    BY <1>4
<1>. QED
    BY <1>5, SplitEnds

-----------------------------------------------------------------------------
\* What accumulate() returns: kilometres per crew and square.
Figures == [Crews -> [Squares -> Nat]]

Halving(km) == CHOOSE halved : halved =
    [n \in 0..Window |-> IF n = 0 THEN km ELSE halved[n - 1] \div 2]

LEMMA DecayedNat ==
    ASSUME NEW km \in Nat, NEW age \in 0..Window
    PROVE  Decayed(km, age) \in Nat
<1> DEFINE X == 0..Window
           H == Halving(km)
           Halt == {0}
           base == [n \in X |-> km]
           pred == [n \in X |-> IF n = 0 THEN 0 ELSE n - 1]
           step == [n \in X |-> [k \in Nat |-> k \div 2]]
           mu == [n \in X |-> n]
<1>1. Window \in Nat
    BY NumbersAssumption
<1>2. base \in [X -> Nat] /\ pred \in [X -> X] /\ mu \in [X -> Nat]
    BY <1>1
<1>3. step \in [X -> [Nat -> Nat]]
    <2>1. \A k \in Nat : k \div 2 \in Nat
        OBVIOUS
    <2>. QED
        BY <2>1
<1>4. Descends(X, Halt, pred, mu, Window)
    BY <1>1, <1>2 DEF Descends
<1>5. PICK f \in [X -> Nat] :
        \A x \in X : f[x] = IF x \in Halt THEN base[x] ELSE step[x][f[pred[x]]]
    <2> HIDE DEF X, Halt, base, pred, step, mu
    <2>1. Computed(X, Nat, Halt, base, pred, step)
        BY <1>2, <1>3, <1>4, Recursion
    <2>. QED
        BY <2>1 DEF Computed
<1>6. f = [n \in 0..Window |-> IF n = 0 THEN km ELSE f[n - 1] \div 2]
    <2>1. ASSUME NEW n \in X PROVE f[n] = IF n = 0 THEN km ELSE f[n - 1] \div 2
        <3>1. f[n] = IF n \in Halt THEN base[n] ELSE step[n][f[pred[n]]]
            BY <1>5
        <3>2. (n \in Halt <=> n = 0) /\ base[n] = km
            OBVIOUS
        <3>3. n # 0 => pred[n] = n - 1 /\ n - 1 \in X /\ f[n - 1] \in Nat
            BY <1>1, <1>5
        <3>4. n # 0 => step[n][f[n - 1]] = f[n - 1] \div 2
            BY <3>3
        <3> HIDE DEF Halt, base, pred, step
        <3>. QED
            BY <3>1, <3>2, <3>3, <3>4
    <2>2. f \in [X -> Nat]
        BY <1>5
    <2>. QED
        BY <2>1, <2>2
<1>7. H = [n \in 0..Window |-> IF n = 0 THEN km ELSE H[n - 1] \div 2]
    BY <1>6 DEF Halving
<1> HIDE DEF H
<1>8. ASSUME NEW n \in X, \A m \in X : mu[m] < mu[n] => m \in {m2 \in X : H[m2] \in Nat}
      PROVE  n \in {m2 \in X : H[m2] \in Nat}
    <2>1. CASE n = 0
        BY <1>7, <2>1
    <2>2. CASE n # 0
        <3>1. n - 1 \in X /\ mu[n - 1] < mu[n]
            BY <1>1, <2>2
        <3>2. H[n - 1] \in Nat
            BY <1>8, <3>1
        <3>3. H[n] = H[n - 1] \div 2
            BY <1>7, <2>2
        <3>. QED
            BY <3>2, <3>3
    <2>. QED
        BY <2>1, <2>2
<1>9. \A n \in X : n \in {m2 \in X : H[m2] \in Nat}
    <2> HIDE DEF X, mu
    <2>. QED
        BY <1>2, <1>8, LeastFirst
<1>10. Decayed(km, age) = IF age >= Window THEN 0 ELSE H[age]
    BY DEF Decayed, Halving, H
<1>. QED
    BY <1>9, <1>10

LEMMA AccumulateTyped == TypeOK => Accumulate \in Figures
<1> SUFFICES ASSUME TypeOK, NEW c \in Crews, NEW s \in Squares
             PROVE  SumFunction([r \in Routes |-> Decayed(Km[r][s], rides[c][r])]) \in Nat
    BY DEF Accumulate, Figures
<1>1. ASSUME NEW r \in Routes PROVE Decayed(Km[r][s], rides[c][r]) \in Nat
    <2>1. Km[r][s] \in Nat
        BY RoutesAssumption DEF Squares
    <2>2. rides[c][r] \in 0..Window
        BY DEF TypeOK
    <2>. QED
        BY <2>1, <2>2, DecayedNat
<1>2. [r \in Routes |-> Decayed(Km[r][s], rides[c][r])] \in [Routes -> Nat]
    BY <1>1
<1>. QED
    BY <1>2, RoutesAssumption, SumNat

-----------------------------------------------------------------------------
Claims == Squares \X Crews
Once(map) == \A p, q \in map : p[1] = q[1] => p = q

AtMost(S, n) == IsFiniteSet(S) /\ n \in Nat /\ Cardinality(S) <= n

LEMMA OneMore ==
    ASSUME NEW S, NEW n, AtMost(S, n), NEW x
    PROVE  AtMost(S \cup {x}, n + 1)
<1>1. /\ IsFiniteSet(S \cup {x}) /\ Cardinality(S) \in Nat
      /\ Cardinality(S \cup {x}) = IF x \in S THEN Cardinality(S) ELSE Cardinality(S) + 1
    BY FS_AddElement, FS_CardinalityType DEF AtMost
<1>. QED
    BY <1>1 DEF AtMost

\* Whoever holds no side of a square scores what it rode, and four sides add a
\* quarter.
LEMMA ScoreBounds ==
    ASSUME NEW acc \in Figures, NEW prev, NEW s \in Squares, NEW c \in Crews
    PROVE  /\ Score(acc, prev, s, c) \in Nat /\ acc[c][s] \in Nat
           /\ 16 * acc[c][s] <= Score(acc, prev, s, c)
           /\ Score(acc, prev, s, c) <= 20 * acc[c][s]
<1> DEFINE held == {t \in Sides(s) : <<t, c>> \in prev}
<1>1. Cardinality(held) \in 0..4
    <2> DEFINE a == <<s[1] + 1, s[2]>>
               b == <<s[1] - 1, s[2]>>
               d == <<s[1], s[2] + 1>>
               e == <<s[1], s[2] - 1>>
    <2>1. Sides(s) = {a, b, d, e}
        BY DEF Sides
    <2> HIDE DEF a, b, d, e
    <2>2. AtMost({}, 0)
        <3>1. IsFiniteSet({}) /\ Cardinality({}) = 0
            BY FS_EmptySet, Zenon
        <3>. QED
            BY <3>1 DEF AtMost
    <2>3. AtMost({} \cup {a}, 0 + 1)
        BY <2>2, OneMore, Zenon
    <2>4. AtMost(({} \cup {a}) \cup {b}, 0 + 1 + 1)
        BY <2>3, OneMore, Zenon
    <2>5. AtMost((({} \cup {a}) \cup {b}) \cup {d}, 0 + 1 + 1 + 1)
        BY <2>4, OneMore, Zenon
    <2>6. AtMost(((({} \cup {a}) \cup {b}) \cup {d}) \cup {e}, 0 + 1 + 1 + 1 + 1)
        BY <2>5, OneMore, Zenon
    <2>7. ((({} \cup {a}) \cup {b}) \cup {d}) \cup {e} = {a, b, d, e}
        OBVIOUS
    <2>8. held \subseteq {a, b, d, e}
        BY <2>1
    <2>9. IsFiniteSet({a, b, d, e}) /\ Cardinality({a, b, d, e}) <= 4
        <3>1. AtMost({a, b, d, e}, 0 + 1 + 1 + 1 + 1)
            BY <2>6, <2>7, Zenon
        <3>. QED
            BY <3>1 DEF AtMost
    <2> HIDE DEF held
    <2>10. IsFiniteSet(held) /\ Cardinality(held) <= Cardinality({a, b, d, e})
        BY <2>8, <2>9, FS_Subset
    <2>11. Cardinality(held) \in Nat /\ Cardinality({a, b, d, e}) \in Nat
        BY <2>9, <2>10, FS_CardinalityType
    <2>. QED
        BY <2>9, <2>10, <2>11
<1>2. acc[c][s] \in Nat
    BY DEF Figures
<1>3. Score(acc, prev, s, c) = acc[c][s] * (16 + Cardinality(held))
    BY DEF Score
<1> HIDE DEF held
<1>4. PICK n \in 0..4 : n = Cardinality(held)
    BY <1>1
<1> DEFINE k == acc[c][s]
<1>5. k \in Nat
    BY <1>2
<1>6. Score(acc, prev, s, c) = k * (16 + n)
    BY <1>3, <1>4
<1> HIDE DEF k
<1>7. n = 0 \/ n = 1 \/ n = 2 \/ n = 3 \/ n = 4
    OBVIOUS
<1>8. k * (16 + n) \in Nat /\ 16 * k <= k * (16 + n) /\ k * (16 + n) <= 20 * k
    BY <1>5, <1>7
<1>. QED
    BY <1>5, <1>6, <1>8 DEF k

\* No two crews beat each other.
LEMMA BeatsOneWay ==
    ASSUME NEW acc \in Figures, NEW prev \in SUBSET Claims, Once(prev), NEW first \in Crews,
           NEW s \in Squares, NEW c \in Crews, NEW d \in Crews, c # d,
           Beats(acc, prev, first, s, c, d), Beats(acc, prev, first, s, d, c)
    PROVE  FALSE
<1>1. Score(acc, prev, s, c) \in Nat /\ Score(acc, prev, s, d) \in Nat
    BY ScoreBounds
<1>2. ~(<<s, c>> \in prev /\ <<s, d>> \in prev)
    BY DEF Once
<1>3. c \in Nat /\ d \in Nat /\ first \in Nat
    BY CrewsAssumption
<1>. QED
    BY <1>1, <1>2, <1>3 DEF Beats, Met

LEMMA WinnersOnce ==
    ASSUME NEW acc \in Figures, NEW prev \in SUBSET Claims, Once(prev), NEW first \in Crews,
           NEW blocked
    PROVE  /\ Winners(acc, prev, first, blocked) \in SUBSET Claims
           /\ Once(Winners(acc, prev, first, blocked))
<1>1. Winners(acc, prev, first, blocked) \in SUBSET Claims
    <2>1. ASSUME NEW s \in Squares PROVE Winner(acc, prev, first, blocked, s) \subseteq Crews
        BY DEF Winner, InLine, Standing
    <2>. QED
        BY <2>1 DEF Winners, Claims
<1>2. ASSUME NEW s \in Squares, NEW c \in Winner(acc, prev, first, blocked, s),
             NEW d \in Winner(acc, prev, first, blocked, s)
      PROVE  c = d
    <2> DEFINE line == InLine(acc, blocked, s)
    <2>1. CASE line = {}
        <3>1. c \in Standing(prev, blocked, s) /\ d \in Standing(prev, blocked, s)
            BY <1>2, <2>1 DEF Winner
        <3>. QED
            BY <3>1 DEF Standing, Once
    <2>2. CASE line # {}
        <3>1. /\ c \in line /\ \A e \in line \ {c} : Beats(acc, prev, first, s, c, e)
              /\ d \in line /\ \A e \in line \ {d} : Beats(acc, prev, first, s, d, e)
            BY <1>2, <2>2 DEF Winner
        <3>2. line \subseteq Crews
            BY DEF InLine
        <3> HIDE DEF line
        <3>. QED
            BY <3>1, <3>2, BeatsOneWay
    <2>. QED
        BY <2>1, <2>2
<1>. QED
    BY <1>1, <1>2 DEF Winners, Once

LEMMA DrawableWon ==
    ASSUME NEW won \in SUBSET Claims, NEW alive \in SUBSET Crews
    PROVE  Drawable(won, alive) \subseteq won
<1>1. ASSUME NEW c \in alive, NEW s \in Seeded(Of(won, c)) PROVE <<s, c>> \in won
    <2>1. Seeded(Of(won, c)) \subseteq Of(won, c)
        BY OfSquares, FloodFacts DEF Seeded
    <2>. QED
        BY <2>1 DEF Of
<1>. QED
    BY <1>1 DEF Drawable

-----------------------------------------------------------------------------
Loop(acc, alive, prev, first) == CHOOSE round :
    round = [at \in (1..Rounds) \X SUBSET (Squares \X Crews) |->
            LET blocked == at[2]
                won == Winners(acc, prev, first, blocked)
                kept == Drawable(won, alive)
                out == Withdrawn(acc, won, kept, blocked)
            IN  IF out = {} \/ at[1] = Rounds THEN kept
                ELSE round[<<at[1] + 1, blocked \cup out>>]]

Kept(acc, alive, prev, first, blocked) == Drawable(Winners(acc, prev, first, blocked), alive)
Out(acc, alive, prev, first, blocked) ==
    Withdrawn(acc, Winners(acc, prev, first, blocked), Kept(acc, alive, prev, first, blocked), blocked)

\* Round after round, until one withdraws nothing.
InRounds(acc, alive, prev, first) ==
    LET loop == Loop(acc, alive, prev, first)
    IN  /\ Awarded(acc, alive, prev, first) = loop[<<1, {}>>]
        /\ \A x \in (1..Rounds) \X SUBSET Claims :
              LET out == Out(acc, alive, prev, first, x[2])
              IN  loop[x] = IF out = {} \/ x[1] = Rounds
                            THEN Kept(acc, alive, prev, first, x[2])
                            ELSE loop[<<x[1] + 1, x[2] \cup out>>]

LEMMA LoopEnds ==
    ASSUME NEW acc \in Figures, NEW alive \in SUBSET Crews, NEW prev \in SUBSET Claims,
           Once(prev), NEW first \in Crews
    PROVE  InRounds(acc, alive, prev, first)
<1> DEFINE K(b) == Kept(acc, alive, prev, first, b)
           O(b) == Out(acc, alive, prev, first, b)
           X == (1..Rounds) \X SUBSET Claims
           D == SUBSET Claims
           Halt == {x \in X : O(x[2]) = {} \/ x[1] = Rounds}
           base == [x \in X |-> K(x[2])]
           pred == [x \in X |-> IF x \in Halt THEN x ELSE <<x[1] + 1, x[2] \cup O(x[2])>>]
           step == [x \in X |-> [map \in D |-> map]]
           mu == [x \in X |-> Rounds - x[1]]
<1>1. Awarded(acc, alive, prev, first) = Loop(acc, alive, prev, first)[<<1, {}>>]
    BY DEF Awarded, Loop
<1>2. ASSUME NEW b \in SUBSET Claims PROVE K(b) \in D /\ O(b) \in SUBSET Claims
    <2>1. Winners(acc, prev, first, b) \in SUBSET Claims
        BY WinnersOnce
    <2>. QED
        BY <2>1, DrawableWon DEF Kept, Out, Withdrawn
<1> HIDE DEF K, O
<1>3. Rounds = 8
    BY DEF Rounds
<1>4. base \in [X -> D] /\ step \in [X -> [D -> D]] /\ mu \in [X -> Nat]
    BY <1>2, <1>3
<1>5. pred \in [X -> X]
    <2>1. ASSUME NEW x \in X, x \notin Halt PROVE <<x[1] + 1, x[2] \cup O(x[2])>> \in X
        BY <1>2, <1>3, <2>1
    <2>. QED
        BY <2>1
<1>6. Descends(X, Halt, pred, mu, 8)
    <2>1. ASSUME NEW x \in X PROVE mu[x] <= 8 /\ (x \notin Halt => mu[pred[x]] < mu[x])
        <3>1. ASSUME x \notin Halt PROVE pred[x] = <<x[1] + 1, x[2] \cup O(x[2])>> /\ pred[x] \in X
            BY <1>5, <3>1
        <3>. QED
            BY <1>3, <3>1
    <2>. HIDE DEF X, Halt, pred, mu
    <2>. QED
        BY <1>4, <1>5, <2>1 DEF Descends
<1>7. PICK f \in [X -> D] :
        \A x \in X : f[x] = IF x \in Halt THEN base[x] ELSE step[x][f[pred[x]]]
    <2> HIDE DEF X, D, Halt, base, pred, step, mu
    <2>1. Computed(X, D, Halt, base, pred, step)
        BY <1>4, <1>5, <1>6, Recursion
    <2>. QED
        BY <2>1 DEF Computed
<1>8. ASSUME NEW x \in X
      PROVE  f[x] = IF O(x[2]) = {} \/ x[1] = Rounds THEN K(x[2])
                    ELSE f[<<x[1] + 1, x[2] \cup O(x[2])>>]
    <2>2. f[x] = IF x \in Halt THEN base[x] ELSE step[x][f[pred[x]]]
        BY <1>7
    <2>3. x \in Halt <=> O(x[2]) = {} \/ x[1] = Rounds
        OBVIOUS
    <2>4. base[x] = K(x[2])
        OBVIOUS
    <2>5. x \notin Halt => step[x][f[pred[x]]] = f[<<x[1] + 1, x[2] \cup O(x[2])>>]
        <3>1. pred[x] \in X /\ f \in [X -> D]
            BY <1>5, <1>7
        <3>2. f[pred[x]] \in D
            <4> HIDE DEF X, D, pred
            <4>. QED
                BY <3>1
        <3>3. step[x][f[pred[x]]] = f[pred[x]]
            <4> HIDE DEF pred, D
            <4>. QED
                BY <3>2
        <3>4. x \notin Halt => pred[x] = <<x[1] + 1, x[2] \cup O(x[2])>>
            OBVIOUS
        <3> HIDE DEF pred, step, Halt
        <3>. QED
            BY <3>3, <3>4
    <2> HIDE DEF Halt, base, step, pred, X
    <2>. QED
        BY <2>2, <2>3, <2>4, <2>5
<1>9. f = [at \in (1..Rounds) \X SUBSET (Squares \X Crews) |->
            LET blocked == at[2]
                won == Winners(acc, prev, first, blocked)
                kept == Drawable(won, alive)
                out == Withdrawn(acc, won, kept, blocked)
            IN  IF out = {} \/ at[1] = Rounds THEN kept
                ELSE f[<<at[1] + 1, blocked \cup out>>]]
    <2>1. f \in [X -> D]
        BY <1>7
    <2>2. X = (1..Rounds) \X SUBSET (Squares \X Crews)
        BY DEF Claims
    <2> HIDE DEF X, D
    <2>3. f = [at \in X |-> IF O(at[2]) = {} \/ at[1] = Rounds THEN K(at[2])
                           ELSE f[<<at[1] + 1, at[2] \cup O(at[2])>>]]
        BY <2>1, <1>8
    <2>. QED
        BY <2>2, <2>3 DEF K, O, Kept, Out
<1>10. Loop(acc, alive, prev, first) = [at \in (1..Rounds) \X SUBSET (Squares \X Crews) |->
            LET blocked == at[2]
                won == Winners(acc, prev, first, blocked)
                kept == Drawable(won, alive)
                out == Withdrawn(acc, won, kept, blocked)
            IN  IF out = {} \/ at[1] = Rounds THEN kept
                ELSE Loop(acc, alive, prev, first)[<<at[1] + 1, blocked \cup out>>]]
    BY <1>9 DEF Loop
<1>11. \A x \in X : Loop(acc, alive, prev, first)[x] =
                    IF O(x[2]) = {} \/ x[1] = Rounds THEN K(x[2])
                    ELSE Loop(acc, alive, prev, first)[<<x[1] + 1, x[2] \cup O(x[2])>>]
    <2>2. X = (1..Rounds) \X SUBSET (Squares \X Crews)
        BY DEF Claims
    <2> HIDE DEF X
    <2>. QED
        BY <2>2, <1>10 DEF K, O, Kept, Out
<1>. QED
    BY <1>1, <1>11 DEF K, O, InRounds

-----------------------------------------------------------------------------
\* No round withdraws a claim of Safe unless one is withdrawn already.
Spares(acc, alive, prev, first, Safe) ==
    \A blocked \in SUBSET Claims :
        blocked \cap Safe = {} => Out(acc, alive, prev, first, blocked) \cap Safe = {}

\* Such claims are in force in the round that award() returns.
LEMMA Spared ==
    ASSUME NEW acc \in Figures, NEW alive \in SUBSET Crews, NEW prev \in SUBSET Claims,
           Once(prev), NEW first \in Crews, NEW Safe, Spares(acc, alive, prev, first, Safe)
    PROVE  \E blocked \in SUBSET Claims :
                /\ blocked \cap Safe = {}
                /\ Awarded(acc, alive, prev, first) = Kept(acc, alive, prev, first, blocked)
<1>1. InRounds(acc, alive, prev, first)
    BY LoopEnds
<1> DEFINE K(b) == Kept(acc, alive, prev, first, b)
           O(b) == Out(acc, alive, prev, first, b)
           L == Loop(acc, alive, prev, first)
           X == (1..Rounds) \X SUBSET Claims
           mu == [x \in X |-> Rounds - x[1]]
           Ends(x) == \E b \in SUBSET Claims : b \cap Safe = {} /\ L[x] = K(b)
           Good == {x \in X : x[2] \cap Safe = {} => Ends(x)}
<1>0. Rounds = 8
    BY DEF Rounds
<1>2. \A x \in X : L[x] = IF O(x[2]) = {} \/ x[1] = Rounds THEN K(x[2])
                          ELSE L[<<x[1] + 1, x[2] \cup O(x[2])>>]
    BY <1>1 DEF InRounds
<1>3. Awarded(acc, alive, prev, first) = L[<<1, {}>>]
    BY <1>1 DEF InRounds
<1>4. \A b \in SUBSET Claims : O(b) \in SUBSET Claims
    <2>1. \A b \in SUBSET Claims : Winners(acc, prev, first, b) \in SUBSET Claims
        BY WinnersOnce
    <2>. QED
        BY <2>1 DEF Out, Withdrawn
<1>5. \A b \in SUBSET Claims : b \cap Safe = {} => O(b) \cap Safe = {}
    BY DEF Spares
<1> HIDE DEF K, O, L
<1>6. ASSUME NEW x \in X, \A y \in X : mu[y] < mu[x] => y \in Good
      PROVE  x \in Good
    <2>1. SUFFICES ASSUME x[2] \cap Safe = {} PROVE Ends(x)
        OBVIOUS
    <2>2. CASE O(x[2]) = {} \/ x[1] = Rounds
        <3>1. x[2] \in SUBSET Claims /\ L[x] = K(x[2])
            BY <1>2, <2>2
        <3>. QED
            BY <2>1, <3>1
    <2>3. CASE ~(O(x[2]) = {} \/ x[1] = Rounds)
        <3> DEFINE y == <<x[1] + 1, x[2] \cup O(x[2])>>
        <3>1. L[x] = L[y]
            BY <1>2, <2>3
        <3>2. y \in X /\ y[1] = x[1] + 1 /\ y[2] = x[2] \cup O(x[2])
            BY <1>0, <1>4, <2>3
        <3>3. mu[y] < mu[x]
            BY <1>0, <3>2
        <3>4. y \in Good
            BY <1>6, <3>2, <3>3
        <3>5. y[2] \cap Safe = {}
            BY <1>5, <2>1, <3>2
        <3>6. Ends(y)
            BY <3>4, <3>5
        <3> HIDE DEF y
        <3>. QED
            BY <3>1, <3>6
    <2>. QED
        BY <2>2, <2>3
<1>7. mu \in [X -> Nat]
    BY <1>0
<1>8. <<1, {}>> \in Good
    <2>1. <<1, {}>> \in X
        BY <1>0
    <2> HIDE DEF Good, mu, X
    <2>. QED
        BY <1>6, <1>7, <2>1, LeastFirst
<1>9. Ends(<<1, {}>>)
    BY <1>8
<1>. QED
    BY <1>3, <1>9 DEF K

-----------------------------------------------------------------------------
LEMMA Greatest ==
    \A q \in SUBSET Crews : q # {} => Max(q) \in q
<1> DEFINE X == SUBSET Crews
           mu == [q \in X |-> Cardinality(q)]
           HasMax(q) == \E m \in q : \A y \in q : m >= y
           Good == {q \in X : q # {} => HasMax(q)}
<1>1. \A q \in X : IsFiniteSet(q) /\ Cardinality(q) \in Nat
    BY CrewsAssumption, FS_Subset, FS_CardinalityType
<1>2. ASSUME NEW q \in X, \A y \in X : mu[y] < mu[q] => y \in Good
      PROVE  q \in Good
    <2>1. SUFFICES ASSUME NEW x \in q PROVE HasMax(q)
        OBVIOUS
    <2> DEFINE rest == q \ {x}
    <2>2. rest \in X /\ mu[rest] < mu[q]
        <3>1. rest \subseteq q /\ rest # q /\ rest \in X
            BY <2>1
        <3>2. Cardinality(rest) < Cardinality(q)
            BY <1>1, <3>1, FS_Subset
        <3>. QED
            BY <3>1, <3>2
    <2>3. q \subseteq Nat
        BY CrewsAssumption
    <2>4. CASE rest = {}
        <3>1. q = {x}
            BY <2>4
        <3>. QED
            BY <2>3, <3>1
    <2>5. CASE rest # {}
        <3>1. PICK m \in rest : \A y \in rest : m >= y
            BY <1>2, <2>2, <2>5
        <3>2. \A y \in q : y = x \/ y \in rest
            OBVIOUS
        <3>3. CASE m >= x
            BY <3>1, <3>2, <3>3
        <3>4. CASE ~(m >= x)
            <4>1. \A y \in q : x >= y
                BY <2>3, <3>1, <3>2, <3>4
            <4>. QED
                BY <4>1
        <3>. QED
            BY <3>3, <3>4
    <2>. QED
        BY <2>4, <2>5
<1>3. mu \in [X -> Nat]
    BY <1>1 DEF InRounds
<1>4. \A q \in X : q \in Good
    <2> HIDE DEF Good, mu, X
    <2>. QED
        BY <1>2, <1>3, LeastFirst
<1>5. ASSUME NEW q \in SUBSET Crews, q # {} PROVE Max(q) \in q
    <2>1. \E m \in q : \A y \in q : m >= y
        BY <1>4, <1>5
    <2>. QED
        BY <2>1 DEF Max
<1>. QED
    BY <1>5

LEMMA WithoutMax ==
    ASSUME NEW s \in SUBSET Crews
    PROVE  /\ Cardinality(s) \in Nat /\ Cardinality(s) <= Cardinality(Crews)
           /\ s \ {Max(s)} \in SUBSET Crews
           /\ s # {} => Max(s) \in Crews /\ Cardinality(s \ {Max(s)}) < Cardinality(s)
<1>1. /\ IsFiniteSet(s) /\ Cardinality(s) \in Nat
      /\ Cardinality(s) <= Cardinality(Crews) /\ Cardinality(Crews) \in Nat
    BY CrewsAssumption, FS_Subset, FS_CardinalityType
<1>2. s \ {Max(s)} \in SUBSET Crews
    OBVIOUS
<1>3. ASSUME s # {} PROVE Max(s) \in Crews /\ Cardinality(s \ {Max(s)}) < Cardinality(s)
    <2>1. Max(s) \in s
        BY <1>3, Greatest
    <2>2. s \ {Max(s)} \in SUBSET s /\ s \ {Max(s)} # s
        BY <2>1
    <2>3. Cardinality(s \ {Max(s)}) \in Nat
        BY CrewsAssumption, FS_Subset, FS_CardinalityType
    <2>4. Cardinality(s \ {Max(s)}) < Cardinality(s)
        BY <1>1, <2>2, <2>3, FS_Subset
    <2>. QED
        BY <2>1, <2>4
<1>. QED
    BY <1>1, <1>2, <1>3

\* One crew after the other, the greatest id last.
InTurn(f, D, map, turn) ==
    \A s \in SUBSET Crews :
        /\ s = {} => f[s] = map
        /\ s # {} /\ f[s \ {Max(s)}] \in D => f[s] = turn[Max(s)][f[s \ {Max(s)}]]

LEMMA TurnsEnd ==
    ASSUME NEW D, NEW map \in D, NEW turn \in [Crews -> [D -> D]]
    PROVE  \E f \in [SUBSET Crews -> D] : InTurn(f, D, map, turn)
<1> DEFINE X == SUBSET Crews
           Halt == {{}}
           base == [s \in X |-> map]
           pred == [s \in X |-> s \ {Max(s)}]
           step == [s \in X |-> IF s = {} THEN [m \in D |-> m] ELSE turn[Max(s)]]
           mu == [s \in X |-> Cardinality(s)]
<1>1. ASSUME NEW s \in X
      PROVE  /\ mu[s] \in Nat /\ mu[s] <= Cardinality(Crews)
             /\ s \ {Max(s)} \in X
             /\ s # {} => Max(s) \in Crews /\ mu[s \ {Max(s)}] < mu[s]
    BY WithoutMax
<1>2. base \in [X -> D] /\ pred \in [X -> X]
    OBVIOUS
<1>3. mu \in [X -> Nat]
    BY <1>1 DEF InRounds
<1>4. step \in [X -> [D -> D]]
    BY <1>1
<1>5. Descends(X, Halt, pred, mu, Cardinality(Crews))
    <2>1. Cardinality(Crews) \in Nat
        BY CrewsAssumption, FS_CardinalityType
    <2>2. ASSUME NEW s \in X PROVE mu[s] <= Cardinality(Crews) /\ (s \notin Halt => mu[pred[s]] < mu[s])
        <3>1. pred[s] = s \ {Max(s)} /\ (s \notin Halt => s # {})
            OBVIOUS
        <3> HIDE DEF pred, mu, Halt
        <3>. QED
            BY <1>1, <3>1
    <2> HIDE DEF X, pred, mu, Halt
    <2>. QED
        BY <1>2, <1>3, <2>1, <2>2 DEF Descends
<1>6. \E f \in [X -> D] : InTurn(f, D, map, turn)
    <2>1. PICK f \in [X -> D] :
            \A x \in X : f[x] = IF x \in Halt THEN base[x] ELSE step[x][f[pred[x]]]
        <3> HIDE DEF X, Halt, base, pred, step, mu
        <3>1. Computed(X, D, Halt, base, pred, step)
            BY <1>2, <1>4, <1>5, Recursion
        <3>. QED
            BY <3>1 DEF Computed
    <2>2. ASSUME NEW s \in X PROVE f[s] = IF s = {} THEN map ELSE turn[Max(s)][f[s \ {Max(s)}]]
        <3>1. f[s] = IF s \in Halt THEN base[s] ELSE step[s][f[pred[s]]]
            BY <2>1
        <3>2. (s \in Halt <=> s = {}) /\ base[s] = map /\ pred[s] = s \ {Max(s)}
              /\ (s # {} => step[s] = turn[Max(s)])
            OBVIOUS
        <3> HIDE DEF Halt, base, pred, step
        <3>. QED
            BY <3>1, <3>2
    <2>3. InTurn(f, D, map, turn)
        BY <2>2 DEF InTurn
    <2>. QED
        BY <2>1, <2>3
<1>. QED
    BY <1>6

LEMMA TurnsKeep ==
    ASSUME NEW D, NEW map \in D, NEW turn \in [Crews -> [D -> D]], NEW Good, NEW f,
           InTurn(f, D, map, turn), map \in Good,
           \A c \in Crews, m \in D : m \in Good => turn[c][m] \in Good
    PROVE  f[Crews] \in Good
<1> DEFINE X == SUBSET Crews
           mu == [s \in X |-> Cardinality(s)]
           Fine == {s \in X : f[s] \in D /\ f[s] \in Good}
<1>1. ASSUME NEW s \in X, \A q \in X : mu[q] < mu[s] => q \in Fine
      PROVE  s \in Fine
    <2>1. CASE s = {}
        BY <2>1 DEF InTurn
    <2>2. CASE s # {}
        <3> DEFINE q == s \ {Max(s)}
        <3>1. q \in X /\ mu[q] < mu[s] /\ Max(s) \in Crews
            BY <2>2, WithoutMax
        <3>2. f[q] \in D /\ f[q] \in Good
            BY <1>1, <3>1
        <3>3. f[s] = turn[Max(s)][f[q]]
            BY <2>2, <3>2 DEF InTurn
        <3> HIDE DEF q, mu
        <3>4. f[s] \in D /\ f[s] \in Good
            BY <3>1, <3>2, <3>3
        <3>. QED
            BY <3>4
    <2>. QED
        BY <2>1, <2>2
<1>2. mu \in [X -> Nat]
    BY WithoutMax
<1>3. \A s \in X : s \in Fine
    <2> HIDE DEF X, Fine, mu
    <2>. QED
        BY <1>1, <1>2, LeastFirst
<1>. QED
    BY <1>3

-----------------------------------------------------------------------------
Bridging(map, acc) == CHOOSE iter : iter = [s \in SUBSET Crews |->
    IF s = {} THEN map
    ELSE LET x == Max(s)
         IN  Passes(acc, iter[s \ {x}], x)]

LEMMA BridgeInTurn ==
    ASSUME NEW acc, NEW map \in SUBSET Claims, NEW Good, map \in Good,
           \A c \in Crews, m \in SUBSET Claims : Passes(acc, m, c) \in SUBSET Claims,
           \A c \in Crews, m \in SUBSET Claims : m \in Good => Passes(acc, m, c) \in Good
    PROVE  Bridge(map, acc) \in Good
<1> DEFINE D == SUBSET Claims
           turn == [c \in Crews |-> [m \in D |-> Passes(acc, m, c)]]
<1>1. Bridge(map, acc) = Bridging(map, acc)[Crews]
    BY DEF Bridge, Bridging, MapThenFoldSet
<1>2. turn \in [Crews -> [D -> D]] /\ map \in D
    OBVIOUS
<1>3. \A c \in Crews, m \in D : turn[c][m] = Passes(acc, m, c)
    OBVIOUS
<1>4. \A c \in Crews, m \in D : m \in Good => turn[c][m] \in Good
    BY <1>3
<1>5. PICK f \in [SUBSET Crews -> D] : InTurn(f, D, map, turn)
    <2> HIDE DEF D, turn
    <2>. QED
        BY <1>2, TurnsEnd
<1>6. f = [s \in SUBSET Crews |-> IF s = {} THEN map
                                  ELSE LET x == Max(s) IN Passes(acc, f[s \ {x}], x)]
    <2>1. f \in [SUBSET Crews -> D]
        BY <1>5
    <2>2. ASSUME NEW s \in SUBSET Crews
          PROVE  f[s] = IF s = {} THEN map ELSE Passes(acc, f[s \ {Max(s)}], Max(s))
        <3>1. f[s \ {Max(s)}] \in D
            BY <2>1
        <3>2. s # {} => Max(s) \in Crews
            BY Greatest
        <3> HIDE DEF turn, D
        <3>. QED
            BY <1>5, <3>1, <3>2, <1>3 DEF InTurn
    <2> HIDE DEF D, turn
    <2>. QED
        BY <2>1, <2>2
<1>7. Bridging(map, acc) = [s \in SUBSET Crews |-> IF s = {} THEN map
            ELSE LET x == Max(s) IN Passes(acc, Bridging(map, acc)[s \ {x}], x)]
    BY <1>6 DEF Bridging
<1>8. InTurn(Bridging(map, acc), D, map, turn)
    <2>1. ASSUME NEW s \in SUBSET Crews
          PROVE  Bridging(map, acc)[s] = IF s = {} THEN map
                        ELSE Passes(acc, Bridging(map, acc)[s \ {Max(s)}], Max(s))
        BY <1>7
    <2>2. \A s \in SUBSET Crews : s # {} => Max(s) \in Crews
        BY Greatest
    <2> HIDE DEF D, turn
    <2>. QED
        BY <2>1, <2>2, <1>3 DEF InTurn
<1>9. Bridging(map, acc)[Crews] \in Good
    <2> HIDE DEF D, turn
    <2>. QED
        BY <1>2, <1>4, <1>8, TurnsKeep
<1>. QED
    BY <1>1, <1>9
Filling(map) == CHOOSE iter : iter = [s \in SUBSET Crews |->
    IF s = {} THEN map
    ELSE LET x == Max(s)
         IN  Closing(map, iter[s \ {x}], x)]

LEMMA CloseInTurn ==
    ASSUME NEW map \in SUBSET Claims, NEW Good, map \in Good,
           \A c \in Crews, m \in SUBSET Claims : Closing(map, m, c) \in SUBSET Claims,
           \A c \in Crews, m \in SUBSET Claims : m \in Good => Closing(map, m, c) \in Good
    PROVE  CloseHoles(map) \in Good
<1> DEFINE D == SUBSET Claims
           turn == [c \in Crews |-> [m \in D |-> Closing(map, m, c)]]
<1>1. CloseHoles(map) = Filling(map)[Crews]
    BY DEF CloseHoles, Filling, MapThenFoldSet
<1>2. turn \in [Crews -> [D -> D]] /\ map \in D
    OBVIOUS
<1>3. \A c \in Crews, m \in D : turn[c][m] = Closing(map, m, c)
    OBVIOUS
<1>4. \A c \in Crews, m \in D : m \in Good => turn[c][m] \in Good
    BY <1>3
<1>5. PICK f \in [SUBSET Crews -> D] : InTurn(f, D, map, turn)
    <2> HIDE DEF D, turn
    <2>. QED
        BY <1>2, TurnsEnd
<1>6. f = [s \in SUBSET Crews |-> IF s = {} THEN map
                                  ELSE LET x == Max(s) IN Closing(map, f[s \ {x}], x)]
    <2>1. f \in [SUBSET Crews -> D]
        BY <1>5
    <2>2. ASSUME NEW s \in SUBSET Crews
          PROVE  f[s] = IF s = {} THEN map ELSE Closing(map, f[s \ {Max(s)}], Max(s))
        <3>1. f[s \ {Max(s)}] \in D
            BY <2>1
        <3>2. s # {} => Max(s) \in Crews
            BY Greatest
        <3> HIDE DEF turn, D
        <3>. QED
            BY <1>5, <3>1, <3>2, <1>3 DEF InTurn
    <2> HIDE DEF D, turn
    <2>. QED
        BY <2>1, <2>2
<1>7. Filling(map) = [s \in SUBSET Crews |-> IF s = {} THEN map
            ELSE LET x == Max(s) IN Closing(map, Filling(map)[s \ {x}], x)]
    BY <1>6 DEF Filling
<1>8. InTurn(Filling(map), D, map, turn)
    <2>1. ASSUME NEW s \in SUBSET Crews
          PROVE  Filling(map)[s] = IF s = {} THEN map
                        ELSE Closing(map, Filling(map)[s \ {Max(s)}], Max(s))
        BY <1>7
    <2>2. \A s \in SUBSET Crews : s # {} => Max(s) \in Crews
        BY Greatest
    <2> HIDE DEF D, turn
    <2>. QED
        BY <2>1, <2>2, <1>3 DEF InTurn
<1>9. Filling(map)[Crews] \in Good
    <2> HIDE DEF D, turn
    <2>. QED
        BY <1>2, <1>4, <1>8, TurnsKeep
<1>. QED
    BY <1>1, <1>9

-----------------------------------------------------------------------------
\* Nothing in H stands without a block of H.
Rooted(H) == \A Z \in SUBSET H : Z # {} /\ Shut(Z, H) => Planted(Z)

LEMMA BlockShut ==
    ASSUME NEW s \in Int \X Int, NEW F, Block(s) \subseteq F, NEW Z, Shut(Z, F),
           NEW z \in Block(s), z \in Z
    PROVE  Block(s) \subseteq Z
<1>1. PICK a, b \in Int : s = <<a, b>>
    OBVIOUS
<1>2. Block(s) = {<<a, b>>, <<a + 1, b>>, <<a, b + 1>>, <<a + 1, b + 1>>}
    BY <1>1 DEF Block
<1>3. ASSUME NEW x \in Z, NEW y \in Block(s), y \in Sides(x) PROVE y \in Z
    BY <1>3 DEF Shut
<1>4. /\ <<a + 1, b>> \in Sides(<<a, b>>) /\ <<a, b + 1>> \in Sides(<<a, b>>)
      /\ <<a, b>> \in Sides(<<a + 1, b>>) /\ <<a + 1, b + 1>> \in Sides(<<a + 1, b>>)
      /\ <<a, b>> \in Sides(<<a, b + 1>>) /\ <<a + 1, b + 1>> \in Sides(<<a, b + 1>>)
      /\ <<a + 1, b>> \in Sides(<<a + 1, b + 1>>) /\ <<a, b + 1>> \in Sides(<<a + 1, b + 1>>)
    BY DEF Sides
<1>. QED
    BY <1>2, <1>3, <1>4

LEMMA SeededRooted ==
    ASSUME NEW H \in SUBSET (Int \X Int), IsFiniteSet(H)
    PROVE  Rooted(Seeded(H))
<1> DEFINE F == Seeded(H)
<1>1. /\ F \subseteq H /\ Seeds(H) \cap H \subseteq F /\ Shut(F, H)
      /\ \A Z \in SUBSET H : Seeds(H) \cap H \subseteq Z /\ Shut(Z, H) => F \subseteq Z
    BY FloodFacts DEF Seeded
<1> HIDE DEF F
<1>2. ASSUME NEW Z \in SUBSET F, Z # {}, Shut(Z, F) PROVE Planted(Z)
    <2>1. Shut(F \ Z, H)
        <3>1. ASSUME NEW x \in F \ Z, NEW y \in Sides(x) \cap H PROVE y \in F \ Z
            <4>1. y \in F
                BY <1>1 DEF Shut
            <4>2. x \in Sides(y)
                BY <1>1, SidesMutual
            <4>. QED
                BY <1>2, <4>1, <4>2 DEF Shut
        <3>. QED
            BY <3>1 DEF Shut
    <2>2. PICK z \in Seeds(H) \cap H : z \notin F \ Z
        BY <1>1, <1>2, <2>1
    <2>3. PICK s \in H : Block(s) \subseteq H /\ z \in Block(s)
        BY <2>2 DEF Seeds
    <2>4. Block(s) \subseteq Seeds(H)
        BY <2>3 DEF Seeds
    <2>5. Block(s) \subseteq F /\ z \in Z
        BY <1>1, <2>2, <2>3, <2>4
    <2>6. Block(s) \subseteq Z
        BY <1>2, <2>3, <2>5, BlockShut
    <2>7. s \in Block(s)
        <3>1. PICK a, b \in Int : s = <<a, b>>
            OBVIOUS
        <3>. QED
            BY <3>1 DEF Block
    <2>. QED
        BY <2>6, <2>7 DEF Planted
<1>. QED
    BY <1>2 DEF Rooted, F

\* Ground that grows by squares beside it stays rooted.
LEMMA RootedGrows ==
    ASSUME NEW G \in SUBSET (Int \X Int), NEW H \in SUBSET G, Rooted(H),
           \A g \in G \ H : \E s \in H : g \in Sides(s)
    PROVE  Rooted(G)
<1>1. ASSUME NEW Z \in SUBSET G, Z # {}, Shut(Z, G) PROVE Planted(Z)
    <2>1. Z \cap H # {}
        <3>1. PICK z \in Z : TRUE
            BY <1>1
        <3>2. CASE z \notin H
            <4>1. PICK s \in H : z \in Sides(s)
                BY <3>2
            <4>2. s \in Sides(z)
                BY <4>1, SidesMutual
            <4>. QED
                BY <1>1, <4>2 DEF Shut
        <3>. QED
            BY <3>1, <3>2
    <2>2. Shut(Z \cap H, H)
        BY <1>1 DEF Shut
    <2>3. Planted(Z \cap H)
        BY <2>1, <2>2 DEF Rooted
    <2>. QED
        BY <2>3 DEF Planted
<1>. QED
    BY <1>1 DEF Rooted

-----------------------------------------------------------------------------
\* A square that joins two patches is nobody's, and lies beside one of them.
LEMMA JoinsBeside ==
    ASSUME NEW acc, NEW map \in SUBSET Claims, NEW c \in Crews,
           NEW p \in Meetings(Of(map, c)), NEW g \in Joins(acc, map, c, p[1], p[2])
    PROVE  g \in Squares /\ g \notin On(map) /\ \E s \in Of(map, c) : g \in Sides(s)
<1>1. /\ p[1] \in Of(map, c) /\ p[2] \in Of(map, c) /\ p[2] \in Corners(p[1])
    BY DEF Meetings
<1>2. PICK a \in 1..Width, b \in 1..Height : p[1] = <<a, b>>
    BY <1>1, OfSquares DEF Squares
<1>3. PICK d \in 1..Width, e \in 1..Height : p[2] = <<d, e>>
    BY <1>1, OfSquares DEF Squares
<1>4. g \in Gap(p[1], p[2]) /\ g \notin On(map)
    BY DEF Joins
<1>5. g = <<a, e>> \/ g = <<d, b>>
    BY <1>2, <1>3, <1>4 DEF Gap
<1>6. g \in Squares
    BY <1>5 DEF Squares
<1>7. (d = a + 1 \/ d = a - 1) /\ (e = b + 1 \/ e = b - 1)
    BY <1>1, <1>2, <1>3 DEF Corners
<1>8. g \in Sides(p[1])
    BY <1>2, <1>5, <1>7 DEF Sides
<1>. QED
    BY <1>1, <1>4, <1>6, <1>8

LEMMA PassGrows ==
    ASSUME NEW acc, NEW map \in SUBSET Claims, NEW c \in Crews
    PROVE  /\ Pass(acc, map, c) \in SUBSET Claims /\ map \subseteq Pass(acc, map, c)
           /\ \A claim \in Pass(acc, map, c) \ map :
                 /\ claim \in Claims /\ claim[2] = c /\ claim[1] \notin On(map)
                 /\ \E s \in Of(map, c) : claim[1] \in Sides(s)
<1>1. ASSUME NEW claim \in Pass(acc, map, c) \ map
      PROVE  \E g \in Squares : claim = <<g, c>> /\ g \notin On(map) /\ \E s \in Of(map, c) : g \in Sides(s)
    <2>1. PICK p \in Meetings(Of(map, c)) : claim \in Best(acc, c, Joins(acc, map, c, p[1], p[2])) \X {c}
        BY <1>1 DEF Pass
    <2>2. PICK g \in Joins(acc, map, c, p[1], p[2]) : claim = <<g, c>>
        BY <2>1 DEF Best
    <2>. QED
        BY <2>2, JoinsBeside
<1>2. map \subseteq Pass(acc, map, c)
    BY DEF Pass
<1>. QED
    BY <1>1, <1>2 DEF Claims

-----------------------------------------------------------------------------
\* What bridging keeps of a map: the ground, once each, and every patch rooted.
Firm(map) ==
    /\ map \in SUBSET Claims /\ Once(map)
    /\ \A c \in Crews : Rooted(Of(map, c))

LEMMA PassFirm ==
    ASSUME NEW acc, NEW map, Firm(map), NEW c \in Crews
    PROVE  Firm(Pass(acc, map, c)) /\ map \subseteq Pass(acc, map, c)
<1> DEFINE next == Pass(acc, map, c)
<1>1. map \in SUBSET Claims
    BY DEF Firm
<1>2. /\ next \in SUBSET Claims /\ map \subseteq next
      /\ \A claim \in next \ map :
            /\ claim \in Claims /\ claim[2] = c /\ claim[1] \notin On(map)
            /\ \E s \in Of(map, c) : claim[1] \in Sides(s)
    BY <1>1, PassGrows
<1> HIDE DEF next
<1>3. Once(next)
    <2>1. ASSUME NEW p \in next, NEW q \in next, p[1] = q[1] PROVE p = q
        <3>1. CASE p \in map /\ q \in map
            BY <2>1, <3>1 DEF Firm, Once
        <3>2. CASE p \in map /\ q \notin map
            <4>1. p[1] \in On(map)
                BY <3>2 DEF On
            <4>. QED
                BY <1>2, <2>1, <3>2, <4>1
        <3>3. CASE p \notin map /\ q \in map
            <4>1. q[1] \in On(map)
                BY <3>3 DEF On
            <4>. QED
                BY <1>2, <2>1, <3>3, <4>1
        <3>4. CASE p \notin map /\ q \notin map
            BY <1>2, <2>1, <3>4 DEF Claims
        <3>. QED
            BY <3>1, <3>2, <3>3, <3>4
    <2>. QED
        BY <2>1 DEF Once
<1>4. ASSUME NEW d \in Crews PROVE Rooted(Of(next, d))
    <2>1. Of(next, d) \in SUBSET (Int \X Int) /\ Of(map, d) \in SUBSET Of(next, d)
        BY <1>2, OfSquares, GridInts DEF Of
    <2>2. ASSUME NEW g \in Of(next, d) \ Of(map, d) PROVE \E s \in Of(map, d) : g \in Sides(s)
        <3>1. <<g, d>> \in next \ map
            BY DEF Of
        <3>. QED
            BY <1>2, <3>1
    <2>3. Rooted(Of(map, d))
        BY DEF Firm
    <2>. QED
        BY <2>1, <2>2, <2>3, RootedGrows
<1>. QED
    BY <1>2, <1>3, <1>4 DEF Firm, next

LEMMA PassesFirm ==
    ASSUME NEW acc, NEW map, Firm(map), NEW c \in Crews
    PROVE  Firm(Passes(acc, map, c)) /\ map \subseteq Passes(acc, map, c)
<1>1. Firm(Pass(acc, map, c)) /\ map \subseteq Pass(acc, map, c)
    BY PassFirm
<1>2. /\ Firm(Pass(acc, Pass(acc, map, c), c))
      /\ Pass(acc, map, c) \subseteq Pass(acc, Pass(acc, map, c), c)
    BY <1>1, PassFirm
<1>3. /\ Firm(Passes(acc, map, c))
      /\ Pass(acc, Pass(acc, map, c), c) \subseteq Passes(acc, map, c)
    BY <1>2, PassFirm DEF Passes
<1>. QED
    BY <1>1, <1>2, <1>3

LEMMA BridgeFirm ==
    ASSUME NEW acc, NEW map, Firm(map)
    PROVE  Firm(Bridge(map, acc)) /\ map \subseteq Bridge(map, acc)
<1> DEFINE Good == {m \in SUBSET Claims : Firm(m) /\ map \subseteq m}
<1>1. map \in SUBSET Claims /\ map \in Good
    BY DEF Firm
<1>2. \A c \in Crews, m \in SUBSET Claims : Passes(acc, m, c) \in SUBSET Claims
    BY PassGrows DEF Passes
<1>3. ASSUME NEW c \in Crews, NEW m \in SUBSET Claims, m \in Good PROVE Passes(acc, m, c) \in Good
    BY <1>2, <1>3, PassesFirm
<1>4. Bridge(map, acc) \in Good
    <2> HIDE DEF Good
    <2>. QED
        BY <1>1, <1>2, <1>3, BridgeInTurn
<1>. QED
    BY <1>4

-----------------------------------------------------------------------------
LEMMA OnHas ==
    ASSUME NEW map, NEW s, NEW c, <<s, c>> \in map
    PROVE  s \in On(map)
BY DEF On

LEMMA SidesAround ==
    ASSUME NEW s \in Squares
    PROVE  Sides(s) \subseteq Around
<1>1. PICK a \in 1..Width, b \in 1..Height : s = <<a, b>>
    BY DEF Squares
<1>2. Width \in Nat /\ Height \in Nat
    BY GridAssumption
<1>. QED
    BY <1>1, <1>2 DEF Sides, Around

\* Around a square that is filled is the region, or what was taken, or filled.
LEMMA FilledBetween ==
    ASSUME NEW comp \in SUBSET Squares, NEW taken, NEW s \in FillEnclosed(comp, taken)
    PROVE  /\ s \in Squares /\ s \notin comp /\ s \notin taken
           /\ Sides(s) \subseteq comp \cup taken \cup FillEnclosed(comp, taken)
<1> DEFINE H == Around \ comp
           F == Flood(Edge, H)
<1>1. IsFiniteSet(H)
    BY SquaresFinite, FS_Difference
<1>2. Edge \cap H \subseteq F /\ Shut(F, H)
    BY <1>1, FloodFacts
<1>3. /\ s \in Squares /\ s \notin comp /\ s \notin F /\ s \notin taken
      /\ FillEnclosed(comp, taken) = Squares \ (comp \cup F \cup taken)
    BY DEF FillEnclosed
<1> HIDE DEF F
<1>4. ASSUME NEW y \in Sides(s), y \notin comp, y \notin taken PROVE y \in Squares \ (comp \cup F \cup taken)
    <2>1. y \in Around /\ s \in Around
        BY <1>3, SidesAround, SquaresFinite
    <2>2. s \in Sides(y)
        BY <2>1, GridInts, SidesMutual
    <2>3. y \notin F
        BY <1>2, <1>3, <2>1, <2>2 DEF Shut
    <2>4. y \in Squares
        BY <1>2, <1>4, <2>1, <2>3 DEF Edge
    <2>. QED
        BY <1>4, <2>3, <2>4
<1>. QED
    BY <1>3, <1>4

\* What filling holes adds to a map: squares that were nobody's, between squares
\* that are somebody's.
Closed(map, closed) ==
    /\ closed \in SUBSET Claims /\ Once(closed) /\ map \subseteq closed
    /\ \A claim \in closed \ map : claim[1] \notin On(map) /\ Sides(claim[1]) \subseteq On(closed)

LEMMA ClosingGains ==
    ASSUME NEW map \in SUBSET Claims, NEW closed \in SUBSET Claims, map \subseteq closed,
           NEW c \in Crews
    PROVE  /\ Closing(map, closed, c) \in SUBSET Claims /\ closed \subseteq Closing(map, closed, c)
           /\ \A claim \in Closing(map, closed, c) \ closed :
                 /\ claim[2] = c /\ claim[1] \notin On(closed) /\ claim \in Claims
                 /\ Sides(claim[1]) \subseteq On(Closing(map, closed, c))
<1> DEFINE next == Closing(map, closed, c)
           fill(comp) == FillEnclosed(comp, Taken(map, closed, comp))
           H == Of(map, c)
<1>1. \A comp \in Regions(H) : comp \in SUBSET H
    BY OfSquares, GridInts, RegionsPieces DEF Pieces
<1>2. next = closed \cup UNION {fill(comp) \X {c} : comp \in Regions(H)}
    BY DEF Closing
<1>3. closed \subseteq next /\ \A comp \in Regions(H) : \A s \in fill(comp) : <<s, c>> \in next
    BY <1>2
<1>4. ASSUME NEW claim \in next \ closed
      PROVE  \E comp \in Regions(H) : \E s \in fill(comp) : claim = <<s, c>>
    BY <1>2, <1>4
<1> HIDE DEF next, fill, H
<1>5. ASSUME NEW comp \in Regions(H), NEW s \in fill(comp)
      PROVE  s \in Squares /\ s \notin On(closed) /\ Sides(s) \subseteq On(next)
    <2>1. comp \in SUBSET Squares
        BY <1>1, OfSquares DEF H
    <2>2. /\ s \in Squares /\ s \notin comp /\ s \notin Taken(map, closed, comp)
          /\ Sides(s) \subseteq comp \cup Taken(map, closed, comp) \cup fill(comp)
        BY <2>1, FilledBetween DEF fill
    <2>3. On(closed) \subseteq comp \cup Taken(map, closed, comp)
        BY DEF Taken, On
    <2>4. comp \subseteq On(next) /\ Taken(map, closed, comp) \subseteq On(next)
        <3>1. comp \subseteq On(map)
            <4>1. ASSUME NEW t \in comp PROVE <<t, c>> \in map
                BY <1>1 DEF H, Of
            <4>. QED
                BY <4>1, OnHas
        <3>2. On(map) \subseteq On(next) /\ On(closed) \subseteq On(next)
            BY <1>3 DEF On
        <3>3. Taken(map, closed, comp) \subseteq On(map) \cup On(closed)
            BY DEF Taken, On
        <3>. QED
            BY <3>1, <3>2, <3>3
    <2>5. fill(comp) \subseteq On(next)
        BY <1>3, OnHas
    <2>. QED
        BY <2>2, <2>3, <2>4, <2>5
<1>6. ASSUME NEW claim \in next \ closed
      PROVE  /\ claim[2] = c /\ claim[1] \notin On(closed) /\ claim \in Claims
             /\ Sides(claim[1]) \subseteq On(next)
    <2>1. PICK comp \in Regions(H) : \E s \in fill(comp) : claim = <<s, c>>
        BY <1>4
    <2>2. PICK s \in fill(comp) : claim = <<s, c>>
        BY <2>1
    <2>. QED
        BY <2>2, <1>5 DEF Claims
<1>. QED
    BY <1>3, <1>6 DEF next

LEMMA ClosingClosed ==
    ASSUME NEW map \in SUBSET Claims, NEW closed, Closed(map, closed), NEW c \in Crews
    PROVE  Closed(map, Closing(map, closed, c))
<1> DEFINE next == Closing(map, closed, c)
<1>1. closed \in SUBSET Claims /\ map \subseteq closed /\ Once(closed)
    BY DEF Closed
<1>2. /\ next \in SUBSET Claims /\ closed \subseteq next
      /\ \A claim \in next \ closed :
            /\ claim[2] = c /\ claim[1] \notin On(closed) /\ claim \in Claims
            /\ Sides(claim[1]) \subseteq On(next)
    BY <1>1, ClosingGains
<1> HIDE DEF next
<1>3. Once(next)
    <2>1. ASSUME NEW p \in next, NEW q \in next, p[1] = q[1] PROVE p = q
        <3>1. CASE p \in closed /\ q \in closed
            BY <1>1, <2>1, <3>1 DEF Once
        <3>2. CASE p \in closed /\ q \notin closed
            BY <1>2, <2>1, <3>2 DEF On
        <3>3. CASE p \notin closed /\ q \in closed
            BY <1>2, <2>1, <3>3 DEF On
        <3>4. CASE p \notin closed /\ q \notin closed
            BY <1>2, <2>1, <3>4 DEF Claims
        <3>. QED
            BY <3>1, <3>2, <3>3, <3>4
    <2>. QED
        BY <2>1 DEF Once
<1>4. On(map) \subseteq On(closed) /\ On(closed) \subseteq On(next)
    BY <1>1, <1>2 DEF On
<1>5. ASSUME NEW claim \in next \ map
      PROVE  claim[1] \notin On(map) /\ Sides(claim[1]) \subseteq On(next)
    <2>1. CASE claim \in closed
        BY <1>4, <1>5, <2>1 DEF Closed
    <2>2. CASE claim \notin closed
        BY <1>2, <1>4, <1>5, <2>2
    <2>. QED
        BY <2>1, <2>2
<1>. QED
    BY <1>1, <1>2, <1>3, <1>5 DEF Closed, next

LEMMA HolesClosed ==
    ASSUME NEW map \in SUBSET Claims, Once(map)
    PROVE  Closed(map, CloseHoles(map))
<1> DEFINE Good == {m \in SUBSET Claims : Closed(map, m)}
<1>1. map \in Good
    BY DEF Closed
<1>2. \A c \in Crews, m \in SUBSET Claims : Closing(map, m, c) \in SUBSET Claims
    <2>1. ASSUME NEW c \in Crews, NEW m \in SUBSET Claims, NEW comp, NEW taken
          PROVE  FillEnclosed(comp, taken) \X {c} \in SUBSET Claims
        BY DEF FillEnclosed, Claims
    <2>2. ASSUME NEW c \in Crews, NEW m \in SUBSET Claims, NEW claim \in Closing(map, m, c)
          PROVE  claim \in Claims
        <3>1. CASE claim \in m
            BY <3>1
        <3>2. CASE claim \notin m
            <4>1. PICK comp : claim \in FillEnclosed(comp, Taken(map, m, comp)) \X {c}
                BY <2>2, <3>2 DEF Closing
            <4>. QED
                BY <2>1, <4>1
        <3>. QED
            BY <3>1, <3>2
    <2>. QED
        BY <2>2
<1>3. ASSUME NEW c \in Crews, NEW m \in SUBSET Claims, m \in Good PROVE Closing(map, m, c) \in Good
    BY <1>2, <1>3, ClosingClosed
<1>4. CloseHoles(map) \in Good
    <2> HIDE DEF Good
    <2>. QED
        BY <1>1, <1>2, <1>3, CloseInTurn
<1>. QED
    BY <1>4

-----------------------------------------------------------------------------
LEMMA KeptHas ==
    ASSUME NEW acc, NEW alive \in SUBSET Crews, NEW prev, NEW first, NEW blocked, NEW c \in Crews
    PROVE  Of(Kept(acc, alive, prev, first, blocked), c) =
                IF c \in alive THEN Seeded(Of(Winners(acc, prev, first, blocked), c)) ELSE {}
<1> DEFINE won == Winners(acc, prev, first, blocked)
           kept == Drawable(won, alive)
<1>1. \A d : Seeded(Of(won, d)) \subseteq Squares
    BY OfSquares, FloodFacts DEF Seeded
<1>2. ASSUME NEW s \in Squares
      PROVE  <<s, c>> \in kept <=> c \in alive /\ s \in Seeded(Of(won, c))
    BY DEF Drawable
<1> HIDE DEF kept, won
<1>3. Of(kept, c) = IF c \in alive THEN Seeded(Of(won, c)) ELSE {}
    BY <1>1, <1>2 DEF Of
<1>. QED
    BY <1>3 DEF Kept, kept, won

LEMMA AwardedFirm ==
    ASSUME NEW acc \in Figures, NEW alive \in SUBSET Crews, NEW prev \in SUBSET Claims,
           Once(prev), NEW first \in Crews
    PROVE  Firm(Awarded(acc, alive, prev, first))
<1>1. PICK b \in SUBSET Claims :
        Awarded(acc, alive, prev, first) = Kept(acc, alive, prev, first, b)
    <2>1. Spares(acc, alive, prev, first, {})
        BY DEF Spares
    <2>. QED
        BY <2>1, Spared
<1> DEFINE won == Winners(acc, prev, first, b)
           kept == Kept(acc, alive, prev, first, b)
<1>2. won \in SUBSET Claims /\ Once(won)
    BY WinnersOnce
<1>3. kept \subseteq won
    BY <1>2, DrawableWon DEF Kept
<1>4. ASSUME NEW c \in Crews PROVE Rooted(Of(kept, c))
    <2>1. Of(kept, c) = IF c \in alive THEN Seeded(Of(won, c)) ELSE {}
        BY KeptHas
    <2>2. Rooted(Seeded(Of(won, c)))
        <3>1. Of(won, c) \in SUBSET (Int \X Int) /\ IsFiniteSet(Of(won, c))
            BY OfSquares, GridInts
        <3>. QED
            BY <3>1, SeededRooted
    <2>3. Rooted({})
        BY DEF Rooted
    <2>. QED
        BY <2>1, <2>2, <2>3
<1> HIDE DEF won, kept
<1>5. Firm(kept)
    BY <1>2, <1>3, <1>4 DEF Firm, Once
<1>. QED
    BY <1>1, <1>5 DEF kept

\* What a rebuild makes of the map.
LEMMA AwardFacts ==
    ASSUME NEW acc \in Figures, NEW alive \in SUBSET Crews, NEW prev \in SUBSET Claims,
           Once(prev), NEW first \in Crews
    PROVE  \E bridged : /\ Firm(bridged) /\ Awarded(acc, alive, prev, first) \subseteq bridged
                        /\ Closed(bridged, Award(acc, alive, prev, first))
<1> DEFINE bridged == Bridge(Awarded(acc, alive, prev, first), acc)
<1>1. Firm(bridged) /\ Awarded(acc, alive, prev, first) \subseteq bridged
    BY AwardedFirm, BridgeFirm
<1>2. Closed(bridged, CloseHoles(bridged))
    BY <1>1, HolesClosed DEF Firm
<1>3. Award(acc, alive, prev, first) = CloseHoles(bridged)
    BY DEF Award
<1> HIDE DEF bridged
<1>. QED
    BY <1>1, <1>2, <1>3

\* Claims that are drawn whenever they are in force are awarded.
LEMMA DrawnStays ==
    ASSUME NEW acc \in Figures, NEW alive \in SUBSET Crews, NEW prev \in SUBSET Claims,
           Once(prev), NEW first \in Crews, NEW Safe,
           \A blocked \in SUBSET Claims :
                blocked \cap Safe = {} => Safe \subseteq Kept(acc, alive, prev, first, blocked)
    PROVE  Safe \subseteq Award(acc, alive, prev, first)
<1>1. Spares(acc, alive, prev, first, Safe)
    BY DEF Spares, Out, Withdrawn
<1>2. PICK b \in SUBSET Claims :
        b \cap Safe = {} /\ Awarded(acc, alive, prev, first) = Kept(acc, alive, prev, first, b)
    BY <1>1, Spared
<1>3. Safe \subseteq Awarded(acc, alive, prev, first)
    BY <1>2
<1>4. Awarded(acc, alive, prev, first) \subseteq Award(acc, alive, prev, first)
    BY AwardFacts DEF Closed
<1>. QED
    BY <1>3, <1>4

LEMMA OwnBlock == \A s \in Int \X Int : s \in Block(s)
<1>1. ASSUME NEW a \in Int, NEW b \in Int PROVE <<a, b>> \in Block(<<a, b>>)
    BY DEF Block
<1>. QED
    BY <1>1

\* A block out-ridden in every square is drawn.
LEMMA BlockTaken ==
    ASSUME NEW acc \in Figures, NEW alive \in SUBSET Crews, NEW prev \in SUBSET Claims,
           Once(prev), NEW first \in Crews, NEW c \in alive, NEW s \in Squares,
           Block(s) \subseteq Squares,
           \A b \in Block(s) : /\ acc[c][b] >= Floor
                               /\ \A d \in Crews \ {c} : 16 * acc[c][b] > 20 * acc[d][b]
    PROVE  Block(s) \X {c} \subseteq Award(acc, alive, prev, first)
<1> DEFINE Safe == Block(s) \X {c}
<1>1. ASSUME NEW blocked \in SUBSET Claims, blocked \cap Safe = {}
      PROVE  Safe \subseteq Kept(acc, alive, prev, first, blocked)
    <2> DEFINE won == Winners(acc, prev, first, blocked)
    <2>1. ASSUME NEW b \in Block(s) PROVE <<b, c>> \in won
        <3>1. b \in Squares /\ <<b, c>> \notin blocked
            BY <1>1
        <3>2. c \in InLine(acc, blocked, b)
            BY <3>1 DEF InLine
        <3>3. ASSUME NEW d \in Crews \ {c} PROVE Beats(acc, prev, first, b, c, d)
            <4>1. /\ 16 * acc[c][b] <= Score(acc, prev, b, c) /\ Score(acc, prev, b, d) <= 20 * acc[d][b]
                  /\ Score(acc, prev, b, c) \in Nat /\ Score(acc, prev, b, d) \in Nat
                  /\ acc[c][b] \in Nat /\ acc[d][b] \in Nat
                BY <3>1, ScoreBounds
            <4>2. 16 * acc[c][b] > 20 * acc[d][b]
                OBVIOUS
            <4>3. Score(acc, prev, b, c) > Score(acc, prev, b, d)
                BY <4>1, <4>2
            <4>. QED
                BY <4>3 DEF Beats
        <3>4. c \in Winner(acc, prev, first, blocked, b)
            <4>1. InLine(acc, blocked, b) \subseteq Crews
                BY DEF InLine
            <4>. QED
                BY <3>2, <3>3, <4>1 DEF Winner
        <3>. QED
            BY <3>1, <3>4 DEF Winners
    <2>2. Block(s) \subseteq Of(won, c)
        BY <2>1 DEF Of
    <2> HIDE DEF won
    <2>3. Block(s) \subseteq Seeds(Of(won, c))
        BY <2>2, OwnBlock, GridInts DEF Seeds
    <2>4. Block(s) \subseteq Seeded(Of(won, c))
        BY <2>2, <2>3, OfSquares, FloodFacts DEF Seeded
    <2>5. Block(s) \subseteq Of(Kept(acc, alive, prev, first, blocked), c)
        BY <2>4, KeptHas DEF won
    <2>. QED
        BY <2>5 DEF Of
<1> HIDE DEF Safe
<1>2. Safe \subseteq Award(acc, alive, prev, first)
    BY <1>1, DrawnStays
<1>. QED
    BY <1>2 DEF Safe

\* A planted patch in which nobody else is above the floor is drawn again.
LEMMA PatchStays ==
    ASSUME NEW acc \in Figures, NEW alive \in SUBSET Crews, NEW prev \in SUBSET Claims,
           Once(prev), NEW first \in Crews, NEW c \in alive,
           NEW patch \in Regions(Of(prev, c)), Planted(patch),
           \A s \in patch, d \in Crews \ {c} : acc[d][s] < Floor
    PROVE  patch \X {c} \subseteq Award(acc, alive, prev, first)
<1> DEFINE Safe == patch \X {c}
<1>1. patch \in SUBSET Of(prev, c) /\ OnePiece(patch) /\ patch \subseteq Squares
    BY OfSquares, GridInts, RegionsPieces DEF Pieces
<1>2. ASSUME NEW blocked \in SUBSET Claims, blocked \cap Safe = {}
      PROVE  Safe \subseteq Kept(acc, alive, prev, first, blocked)
    <2> DEFINE won == Winners(acc, prev, first, blocked)
               G == Of(won, c)
               F == Seeded(G)
    <2>1. ASSUME NEW s \in patch PROVE <<s, c>> \in won
        <3>1. s \in Squares /\ <<s, c>> \notin blocked /\ <<s, c>> \in prev
            BY <1>1, <1>2 DEF Of
        <3>2. InLine(acc, blocked, s) \subseteq {c}
            <4>1. ASSUME NEW d \in Crews \ {c} PROVE ~(acc[d][s] >= Floor)
                <5>1. acc[d][s] < Floor /\ acc[d][s] \in Nat
                    BY <3>1, ScoreBounds
                <5>. QED
                    BY <5>1, NumbersAssumption
            <4>. QED
                BY <4>1 DEF InLine
        <3>3. c \in Winner(acc, prev, first, blocked, s)
            BY <3>1, <3>2 DEF Winner, Standing
        <3>. QED
            BY <3>1, <3>3 DEF Winners
    <2>2. patch \subseteq G
        BY <1>1, <2>1 DEF Of
    <2>3. Seeds(G) \cap G \subseteq F /\ Shut(F, G)
        BY OfSquares, FloodFacts DEF Seeded
    <2> HIDE DEF G, F
    <2>4. PICK s \in patch : Block(s) \subseteq patch
        BY DEF Planted
    <2>5. Block(s) \subseteq Seeds(G) /\ s \in Block(s)
        BY <1>1, <2>2, <2>4, OwnBlock, GridInts DEF Seeds
    <2>6. s \in patch \cap F
        BY <2>2, <2>3, <2>4, <2>5
    <2>7. Shut(patch \cap F, patch)
        BY <2>2, <2>3 DEF Shut
    <2>8. patch \subseteq F
        BY <1>1, <2>6, <2>7 DEF OnePiece
    <2>9. F = Of(Kept(acc, alive, prev, first, blocked), c)
        BY KeptHas DEF F, G
    <2>. QED
        BY <2>8, <2>9 DEF Of
<1> HIDE DEF Safe
<1>3. Safe \subseteq Award(acc, alive, prev, first)
    BY <1>2, DrawnStays
<1>. QED
    BY <1>3 DEF Safe

\* Each patch of the map that is drawn is planted, or is a hole between squares.
LEMMA PatchesStand ==
    ASSUME NEW acc \in Figures, NEW alive \in SUBSET Crews, NEW prev \in SUBSET Claims,
           Once(prev), NEW first \in Crews, NEW c \in Crews,
           NEW patch \in Regions(Of(Award(acc, alive, prev, first), c))
    PROVE  \/ Planted(patch)
           \/ \A s \in patch : Sides(s) \subseteq On(Award(acc, alive, prev, first))
<1> DEFINE drawn == Award(acc, alive, prev, first)
<1>1. PICK bridged : Firm(bridged) /\ Closed(bridged, drawn)
    BY AwardFacts
<1> HIDE DEF drawn
<1>2. patch \in SUBSET Of(drawn, c) /\ Shut(patch, Of(drawn, c))
    BY OfSquares, GridInts, RegionsPieces DEF Pieces, drawn
<1>3. Of(bridged, c) \subseteq Of(drawn, c)
    BY <1>1 DEF Closed, Of
<1>4. CASE patch \cap Of(bridged, c) # {}
    <2>1. Shut(patch \cap Of(bridged, c), Of(bridged, c))
        BY <1>2, <1>3 DEF Shut
    <2>2. Planted(patch \cap Of(bridged, c))
        BY <1>1, <1>4, <2>1 DEF Firm, Rooted
    <2>. QED
        BY <2>2 DEF Planted
<1>5. CASE patch \cap Of(bridged, c) = {}
    <2>1. ASSUME NEW s \in patch PROVE Sides(s) \subseteq On(drawn)
        <3>1. <<s, c>> \in drawn \ bridged
            BY <1>2, <1>5 DEF Of
        <3>. QED
            BY <1>1, <3>1 DEF Closed
    <2>. QED
        BY <2>1 DEF drawn
<1>. QED
    BY <1>4, <1>5

-----------------------------------------------------------------------------
\* The inductive invariant: the rules rely on a map in which no square is drawn
\* for two crews, as a rebuild takes the last map for the incumbents of the next.
Inv == TypeOK /\ DrawnOnce

LEMMA CellsOnce == Inv => cells \in SUBSET Claims /\ Once(cells) /\ live \in SUBSET Crews
BY DEF Inv, TypeOK, DrawnOnce, Once, Claims

LEMMA InitInv == Init => Inv
BY NumbersAssumption DEF Init, Inv, TypeOK, DrawnOnce

\* A rebuild writes each square for one crew.
LEMMA RebuildInv ==
    ASSUME Inv, Rebuild
    PROVE  Inv'
<1>1. PICK first \in Crews : cells' = Award(Accumulate, live, cells, first)
    BY DEF Rebuild
<1>2. PICK bridged : Firm(bridged) /\ Closed(bridged, Award(Accumulate, live, cells, first))
    BY CellsOnce, AccumulateTyped, AwardFacts DEF Inv
<1>3. cells' \in SUBSET Claims /\ Once(cells')
    BY <1>1, <1>2 DEF Closed
<1>4. TypeOK'
    BY <1>3 DEF Rebuild, Inv, TypeOK, Claims
<1>5. DrawnOnce'
    BY <1>3 DEF Once, DrawnOnce
<1>. QED
    BY <1>4, <1>5 DEF Inv

LEMMA StepInv == Inv /\ [Next]_vars => Inv'
<1> SUFFICES ASSUME Inv, [Next]_vars PROVE Inv'
    OBVIOUS
<1>1. Window \in Nat \ {0}
    BY NumbersAssumption
<1>2. ASSUME NEW c \in Crews, NEW r \in Routes, NEW age \in 0..(Window - 1), Ride(c, r, age)
      PROVE  Inv'
    <2>1. rides' \in [Crews -> [Routes -> 0..Window]]
        BY <1>1, <1>2 DEF Inv, TypeOK, Ride
    <2>. QED
        BY <1>2, <2>1 DEF Inv, TypeOK, DrawnOnce, Ride
<1>3. ASSUME NEW c \in Crews, Disband(c) \/ LastOneOut(c) \/ Restore(c) PROVE Inv'
    BY <1>3 DEF Inv, TypeOK, DrawnOnce, Disband, LastOneOut, Restore
<1>4. ASSUME Tick PROVE Inv'
    <2>1. rides' \in [Crews -> [Routes -> 0..Window]]
        BY <1>1, <1>4 DEF Inv, TypeOK, Tick
    <2>. QED
        BY <1>4, <2>1 DEF Inv, TypeOK, DrawnOnce, Tick
<1>5. ASSUME UNCHANGED vars PROVE Inv'
    BY <1>5 DEF Inv, TypeOK, DrawnOnce, vars
<1>. QED
    BY <1>2, <1>3, <1>4, <1>5, RebuildInv DEF Next

\* The invariant of the map holds of every behaviour.
THEOREM InvHolds == Spec => []Inv
BY InitInv, StepInv, PTL DEF Spec

\* The window, the living crews and the clan_cells rows keep their types.
THEOREM TypeCorrect == Spec => []TypeOK
BY InvHolds, PTL DEF Inv

\* No square is ever drawn for two crews, whatever was bridged and enclosed.
THEOREM OneCrewPerSquare == Spec => []DrawnOnce
BY InvHolds, PTL DEF Inv

\* A step that redraws the map is a rebuild.
LEMMA OnlyRebuilds ==
    ASSUME [Next]_vars, vars' # vars, Redrawn
    PROVE  Rebuild
<1>1. cells' # cells
    BY DEF vars, Redrawn
<1>2. ASSUME NEW c \in Crews PROVE ~Disband(c) /\ ~LastOneOut(c) /\ ~Restore(c)
    BY <1>1 DEF Redrawn, LastOneOut, Restore
<1>3. ~Tick /\ \A c \in Crews, r \in Routes, age \in 0..(Window - 1) : ~Ride(c, r, age)
    BY <1>1 DEF Tick, Ride
<1>. QED
    BY <1>2, <1>3 DEF Next

\* Each patch a rebuild draws is planted, or is a hole within a hole.
THEOREM PlantedHolds == Spec => PatchesArePlanted
<1>1. Inv /\ [Next]_vars => [Redrawn => \A c \in Crews : \A patch \in Regions(Of(cells', c)) :
        \/ Planted(patch)
        \/ \A s \in patch : Sides(s) \subseteq On(cells')]_vars
    <2> SUFFICES ASSUME Inv, [Next]_vars, vars' # vars, Redrawn,
                        NEW c \in Crews, NEW patch \in Regions(Of(cells', c))
                 PROVE  Planted(patch) \/ \A s \in patch : Sides(s) \subseteq On(cells')
        OBVIOUS
    <2>1. PICK first \in Crews : cells' = Award(Accumulate, live, cells, first)
        BY OnlyRebuilds DEF Rebuild
    <2>2. patch \in Regions(Of(Award(Accumulate, live, cells, first), c))
        BY <2>1
    <2>3. \/ Planted(patch)
          \/ \A s \in patch : Sides(s) \subseteq On(Award(Accumulate, live, cells, first))
        BY <2>2, CellsOnce, AccumulateTyped, PatchesStand DEF Inv
    <2>. QED
        BY <2>1, <2>3
<1>. QED
    BY <1>1, InvHolds, PTL DEF Spec, PatchesArePlanted

\* A planted patch of a living crew in which nobody else is above the floor
\* outlives every rebuild whole.
THEOREM NothingLost == Spec => NothingLostToNobody
<1>1. Inv /\ [Next]_vars =>
        [Redrawn => \A c \in live : \A patch \in Regions(Of(cells, c)) :
            Planted(patch) /\ (\A s \in patch, d \in Crews \ {c} : Accumulate[d][s] < Floor)
                => patch \X {c} \subseteq cells']_vars
    <2> SUFFICES ASSUME Inv, [Next]_vars, vars' # vars, Redrawn,
                        NEW c \in live, NEW patch \in Regions(Of(cells, c)), Planted(patch),
                        \A s \in patch, d \in Crews \ {c} : Accumulate[d][s] < Floor
                 PROVE  patch \X {c} \subseteq cells'
        OBVIOUS
    <2>1. PICK first \in Crews : cells' = Award(Accumulate, live, cells, first)
        BY OnlyRebuilds DEF Rebuild
    <2>2. Accumulate \in Figures /\ cells \in SUBSET Claims /\ Once(cells) /\ live \in SUBSET Crews
        BY CellsOnce, AccumulateTyped DEF Inv
    <2>. QED
        BY <2>1, <2>2, PatchStays
<1>. QED
    BY <1>1, InvHolds, PTL DEF Spec, NothingLostToNobody

\* A living crew draws every block it out-rides, the holder's edge included.
THEOREM OutriddenTaken == Spec => OutriddenBlockChangesHands
<1>1. Inv /\ [Next]_vars =>
        [Redrawn => \A c \in live : \A s \in Squares :
            /\ Block(s) \subseteq Squares
            /\ \A b \in Block(s) :
                  /\ Accumulate[c][b] >= Floor
                  /\ \A d \in Crews \ {c} : 16 * Accumulate[c][b] > 20 * Accumulate[d][b]
            => Block(s) \X {c} \subseteq cells']_vars
    <2> SUFFICES ASSUME Inv, [Next]_vars, vars' # vars, Redrawn,
                        NEW c \in live, NEW s \in Squares, Block(s) \subseteq Squares,
                        \A b \in Block(s) :
                            /\ Accumulate[c][b] >= Floor
                            /\ \A d \in Crews \ {c} : 16 * Accumulate[c][b] > 20 * Accumulate[d][b]
                 PROVE  Block(s) \X {c} \subseteq cells'
        OBVIOUS
    <2>1. PICK first \in Crews : cells' = Award(Accumulate, live, cells, first)
        BY OnlyRebuilds DEF Rebuild
    <2>2. Accumulate \in Figures /\ cells \in SUBSET Claims /\ Once(cells) /\ live \in SUBSET Crews
        BY CellsOnce, AccumulateTyped DEF Inv
    <2>. QED
        BY <2>1, <2>2, BlockTaken
<1>. QED
    BY <1>1, InvHolds, PTL DEF Spec, OutriddenBlockChangesHands
=============================================================================
