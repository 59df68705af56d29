-------------------------- MODULE RegionGrowProofs --------------------------
(***************************************************************************)
(* GrowRegions() cuts a tile of any size, with any distances between its   *)
(* pixels, into regions that are whole and large enough, and the merge of  *)
(* a region that is too small ends.  GrowConnCompsMask() finds what the    *)
(* sure arcs hold together and keeps the largest.                          *)
(***************************************************************************)
EXTENDS RegionGrow, BucketQueueProofs

\* The bounds of the grid, and arithmetic on them.
LEMMA Sizes ==
  /\ NRow \in Nat /\ NRow >= 2 /\ NCol \in Nat /\ NCol >= 3
  /\ LargeShort \in Nat /\ NotReached \in Nat /\ NotReached > LargeShort
  /\ MinRegionSize \in 0..NRow * NCol
  /\ <<0, 0>> \in Pixels
  BY SizeAssumption, CostAssumption, GrowAssumption DEF Pixels

LEMMA Grid ==
  /\ IsFiniteSet(Pixels) /\ Cardinality(Pixels) = NRow * NCol
  /\ IsFiniteSet(Arcs) /\ Arcs # {}
  <1>1. /\ IsFiniteSet(0..NRow - 1) /\ Cardinality(0..NRow - 1) = NRow
        /\ IsFiniteSet(0..NCol - 1) /\ Cardinality(0..NCol - 1) = NCol
        /\ IsFiniteSet(0..NRow - 2) /\ IsFiniteSet(0..NCol - 2)
        /\ IsFiniteSet(NRow - 1..2 * NRow - 2)
    <2>1. \A a, b \in Int : IsFiniteSet(a..b) /\ (a <= b => Cardinality(a..b) = b - a + 1)
      BY FS_Interval
    <2>. QED BY <2>1, Sizes
  <1>2. IsFiniteSet(Pixels) /\ Cardinality(Pixels) = NRow * NCol
    <2>. DEFINE S == 0..NRow - 1
                T == 0..NCol - 1
    <2>1. Pixels = S \X T
      BY DEF Pixels
    <2>. HIDE DEF S, T
    <2>2. IsFiniteSet(S) /\ IsFiniteSet(T) /\ Cardinality(S) = NRow /\ Cardinality(T) = NCol
      BY <1>1 DEF S, T
    <2>. QED BY <2>1, <2>2, FS_Product
  <1>3. IsFiniteSet(RowArcs) /\ IsFiniteSet(ColArcs)
    BY <1>1, FS_Product DEF RowArcs, ColArcs
  <1>4. IsFiniteSet(Arcs)
    BY <1>3, FS_Union DEF Arcs
  <1>5. <<0, 0>> \in Arcs
    BY Sizes DEF Arcs, RowArcs
  <1>. QED BY <1>2, <1>4, <1>5

-----------------------------------------------------------------------------
\* Neighbours.

Neighbor(p, i) == PixelNeighbors[p][i].pixel
IsBeside(p, q) == \E i \in 1..4 : Neighbor(p, i) = q
Raster(p) == p[1] * NCol + p[2]

\* The neighbours and the arcs to them, one by one.
LEMMA Neighborhood ==
  ASSUME NEW r \in 0..NRow - 1, NEW c \in 0..NCol - 1
  PROVE  /\ Neighbor(<<r, c>>, 1) = <<r, c + 1>>
         /\ Neighbor(<<r, c>>, 2) = <<r + 1, c>>
         /\ Neighbor(<<r, c>>, 3) = <<r, c - 1>>
         /\ Neighbor(<<r, c>>, 4) = <<r - 1, c>>
         /\ PixelNeighbors[<<r, c>>][1].arc = <<NRow - 1 + r, c>>
         /\ PixelNeighbors[<<r, c>>][2].arc = <<r, c>>
         /\ PixelNeighbors[<<r, c>>][3].arc = <<NRow - 1 + r, c - 1>>
         /\ PixelNeighbors[<<r, c>>][4].arc = <<r - 1, c>>
  <1>1. PixelNeighbors[<<r, c>>] =
          << [pixel |-> <<r, c + 1>>, arc |-> <<NRow - 1 + r, c>>],
             [pixel |-> <<r + 1, c>>, arc |-> <<r, c>>],
             [pixel |-> <<r, c - 1>>, arc |-> <<NRow - 1 + r, c - 1>>],
             [pixel |-> <<r - 1, c>>, arc |-> <<r - 1, c>>] >>
    BY DEF PixelNeighbors, Pixels
  <1>. QED BY <1>1 DEF Neighbor

\* A neighbour inside the image is another pixel, and an arc separates them.
LEMMA NeighborPixel ==
  ASSUME NEW p \in Pixels, NEW i \in 1..4, Neighbor(p, i) \in Pixels
  PROVE  /\ PixelNeighbors[p][i].arc \in Arcs
         /\ Neighbor(p, i) # p
         /\ IsBeside(Neighbor(p, i), p)
  <1>1. PICK r \in 0..NRow - 1, c \in 0..NCol - 1 : p = <<r, c>>
    BY DEF Pixels
  <1>2. CASE i = 1
    <2>1. Neighbor(p, i) = <<r, c + 1>> /\ PixelNeighbors[p][i].arc = <<NRow - 1 + r, c>>
      BY <1>1, <1>2, Neighborhood
    <2>2. c + 1 \in 0..NCol - 1
      BY <2>1 DEF Pixels
    <2>3. \A d \in 0..NCol - 1 : Neighbor(<<r, d>>, 3) = <<r, d - 1>>
      BY Neighborhood
    <2>. QED BY <1>1, <2>1, <2>2, <2>3, Sizes DEF Arcs, ColArcs, IsBeside
  <1>3. CASE i = 2
    <2>1. Neighbor(p, i) = <<r + 1, c>> /\ PixelNeighbors[p][i].arc = <<r, c>>
      BY <1>1, <1>3, Neighborhood
    <2>2. r + 1 \in 0..NRow - 1
      BY <2>1 DEF Pixels
    <2>3. Neighbor(<<r + 1, c>>, 4) = <<r + 1 - 1, c>>
      BY <2>2, Neighborhood
    <2>. QED BY <1>1, <2>1, <2>2, <2>3, Sizes DEF Arcs, RowArcs, IsBeside
  <1>4. CASE i = 3
    <2>1. Neighbor(p, i) = <<r, c - 1>> /\ PixelNeighbors[p][i].arc = <<NRow - 1 + r, c - 1>>
      BY <1>1, <1>4, Neighborhood
    <2>2. c - 1 \in 0..NCol - 1
      BY <2>1 DEF Pixels
    <2>3. Neighbor(<<r, c - 1>>, 1) = <<r, c - 1 + 1>>
      BY <2>2, Neighborhood
    <2>. QED BY <1>1, <2>1, <2>2, <2>3, Sizes DEF Arcs, ColArcs, IsBeside
  <1>5. CASE i = 4
    <2>1. Neighbor(p, i) = <<r - 1, c>> /\ PixelNeighbors[p][i].arc = <<r - 1, c>>
      BY <1>1, <1>5, Neighborhood
    <2>2. r - 1 \in 0..NRow - 1
      BY <2>1 DEF Pixels
    <2>3. Neighbor(<<r - 1, c>>, 2) = <<r - 1 + 1, c>>
      BY <2>2, Neighborhood
    <2>. QED BY <1>1, <2>1, <2>2, <2>3, Sizes DEF Arcs, RowArcs, IsBeside
  <1>. QED BY <1>2, <1>3, <1>4, <1>5

\* Every pixel but the first has a neighbour that comes before it.
LEMMA EarlierNeighbor ==
  ASSUME NEW p \in Pixels, p # <<0, 0>>
  PROVE  \E i \in 1..4 : Neighbor(p, i) \in Pixels /\ Raster(Neighbor(p, i)) < Raster(p)
  <1>1. PICK r \in 0..NRow - 1, c \in 0..NCol - 1 : p = <<r, c>>
    BY DEF Pixels
  <1>2. CASE c > 0
    <2>1. Neighbor(p, 3) = <<r, c - 1>>
      BY <1>1, Neighborhood
    <2>2. Raster(<<r, c - 1>>) = r * NCol + (c - 1) /\ Raster(p) = r * NCol + c
      BY <1>1 DEF Raster
    <2>3. r * NCol \in Int
      BY Sizes
    <2>. QED BY <1>1, <1>2, <2>1, <2>2, <2>3, Sizes DEF Pixels
  <1>3. CASE c = 0
    <2>1. Neighbor(p, 4) = <<r - 1, c>> /\ r > 0
      BY <1>1, <1>3, Neighborhood
    <2>2. Raster(<<r - 1, c>>) = (r - 1) * NCol + c /\ Raster(p) = r * NCol + c
      BY <1>1 DEF Raster
    <2>3. (r - 1) * NCol = r * NCol - NCol /\ r * NCol \in Int
      BY Sizes
    <2>. QED BY <1>1, <2>1, <2>2, <2>3, Sizes DEF Pixels
  <1>. QED BY <1>1, <1>2, <1>3

LEMMA RasterNatural == \A p \in Pixels : Raster(p) \in Nat
  BY Sizes DEF Pixels, Raster

\* The loop over all pixels comes to the first one that is left.
LEMMA FirstIsFirst ==
  ASSUME NEW S, S \subseteq Pixels, S # {}
  PROVE  FirstOf(S) \in S /\ \A q \in S : Raster(FirstOf(S)) <= Raster(q)
  <1>. DEFINE places == {Raster(p) : p \in S}
  <1>1. places \subseteq Nat /\ places # {}
    BY RasterNatural
  <1>2. \E x \in places : \A y \in places : x <= y
    <2>. HIDE DEF places
    <2>. QED BY <1>1, LeastNatural
  <1>3. \E p \in S : \A q \in S : Raster(p) <= Raster(q)
    BY <1>2
  <1>. QED BY <1>3 DEF FirstOf, Raster

-----------------------------------------------------------------------------
\* Sets of pixels that hang together.

\* However a set is cut in two, there are neighbours on both sides.
IsWhole(S) ==
    \A T \in SUBSET S : T # {} /\ T # S => \E p \in T, q \in S \ T : IsBeside(p, q)

LEMMA BesideBack ==
  ASSUME NEW p \in Pixels, NEW q \in Pixels, IsBeside(p, q)
  PROVE  IsBeside(q, p)
  BY NeighborPixel DEF IsBeside

\* Two such sets with neighbours in each make one, a pixel of its own included.
LEMMA WholeTogether ==
  ASSUME NEW S \in SUBSET Pixels, NEW R \in SUBSET Pixels, IsWhole(S), IsWhole(R),
         NEW p \in S, NEW q \in R, IsBeside(p, q)
  PROVE  IsWhole(S \cup R)
  <1>. SUFFICES ASSUME NEW T \in SUBSET (S \cup R), T # {}, T # S \cup R
                PROVE  \E x \in T, y \in (S \cup R) \ T : IsBeside(x, y)
    BY DEF IsWhole
  <1>1. CASE T \cap S # {} /\ T \cap S # S
    <2>1. PICK x \in T \cap S, y \in S \ (T \cap S) : IsBeside(x, y)
      BY <1>1 DEF IsWhole
    <2>. QED BY <2>1
  <1>2. CASE T \cap R # {} /\ T \cap R # R
    <2>1. PICK x \in T \cap R, y \in R \ (T \cap R) : IsBeside(x, y)
      BY <1>2 DEF IsWhole
    <2>. QED BY <2>1
  <1>3. CASE S \subseteq T /\ T \cap R = {}
    BY <1>3
  <1>4. CASE R \subseteq T /\ T \cap S = {}
    <2>1. IsBeside(q, p)
      BY BesideBack
    <2>. QED BY <1>4, <2>1
  <1>. QED BY <1>1, <1>2, <1>3, <1>4

LEMMA OneIsWhole ==
  ASSUME NEW p
  PROVE  IsWhole({p})
  BY DEF IsWhole

-----------------------------------------------------------------------------
\* What is reached through a set of pixels.

\* No arc of A leads from T to a pixel of S outside T.
IsClosedIn(T, S, A) ==
    \A q \in T, i \in 1..4 :
        Neighbor(q, i) \in S /\ PixelNeighbors[q][i].arc \in A => Neighbor(q, i) \in T

\* The pixels of a set, and those of S that they reach over one arc of A.
Onward(S, A, t) ==
    t \cup UNION {{b.pixel : b \in {b \in RangeOf(PixelNeighbors[q]) :
                      b.pixel \in S /\ b.arc \in A}} : q \in t}

IsReach(r, n, p, S, A) ==
    r = [i \in 0..n |-> IF i = 0 THEN {p} ELSE Onward(S, A, r[i - 1])]

\* The recursion has a solution, so its definition is one.
LEMMA ReachExists ==
  ASSUME NEW S, NEW A, NEW p, NEW n \in Nat
  PROVE  \E r : IsReach(r, n, p, S, A)
  <1>. DEFINE bad == {m \in Nat : ~ \E r : IsReach(r, m, p, S, A)}
  <1>1. ASSUME bad # {} PROVE FALSE
    <2>1. PICK m \in bad : \A k \in bad : m <= k
      <3>1. bad \subseteq Nat
        OBVIOUS
      <3>. HIDE DEF bad
      <3>. QED BY <1>1, <3>1, LeastNatural
    <2>2. m \in Nat /\ ~ \E r : IsReach(r, m, p, S, A)
      OBVIOUS
    <2>3. m # 0
      <3>. DEFINE f == [i \in 0..0 |-> {p}]
      <3>1. f = [i \in 0..0 |-> IF i = 0 THEN {p} ELSE Onward(S, A, f[i - 1])]
        OBVIOUS
      <3>. HIDE DEF f
      <3>2. IsReach(f, 0, p, S, A)
        BY <3>1 DEF IsReach
      <3>. QED BY <2>2, <3>2
    <2>4. m - 1 \in Nat /\ m - 1 \notin bad
      BY <2>1, <2>2, <2>3
    <2>5. PICK f : IsReach(f, m - 1, p, S, A)
      BY <2>4
    <2>. DEFINE g == [i \in 0..m |-> IF i = m THEN Onward(S, A, f[m - 1]) ELSE f[i]]
    <2>6. ASSUME NEW i \in 0..m
          PROVE  g[i] = IF i = 0 THEN {p} ELSE Onward(S, A, g[i - 1])
      <3>1. \A j \in 0..m - 1 : g[j] = f[j]
        BY <2>2
      <3>2. CASE i = m
        <4>1. m - 1 \in 0..m - 1
          BY <2>4
        <4>. QED BY <2>3, <3>1, <3>2, <4>1
      <3>3. CASE i # m
        <4>1. i \in 0..m - 1 /\ (i # 0 => i - 1 \in 0..m - 1)
          BY <2>2, <3>3
        <4>2. f[i] = IF i = 0 THEN {p} ELSE Onward(S, A, f[i - 1])
          BY <2>5, <4>1 DEF IsReach
        <4>. QED BY <3>1, <4>1, <4>2
      <3>. QED BY <3>2, <3>3
    <2>7. g = [i \in 0..m |-> g[i]]
      OBVIOUS
    <2>. HIDE DEF g
    <2>8. g = [i \in 0..m |-> IF i = 0 THEN {p} ELSE Onward(S, A, g[i - 1])]
      BY <2>6, <2>7
    <2>9. IsReach(g, m, p, S, A)
      BY <2>8 DEF IsReach
    <2>. QED BY <2>2, <2>9
  <1>. QED BY <1>1

LEMMA ReachedIsReach ==
  ASSUME NEW S, NEW A, NEW p
  PROVE  \E r : IsReach(r, Cardinality(Pixels), p, S, A)
                  /\ Reached(p, S, A) = r[Cardinality(Pixels)]
  <1>. DEFINE n == Cardinality(Pixels)
              r == CHOOSE f : IsReach(f, n, p, S, A)
  <1>1. n \in Nat
    BY Grid, FS_CardinalityType
  <1>2. IsReach(r, n, p, S, A)
    BY <1>1, ReachExists
  <1>3. Reached(p, S, A) = r[n]
    BY DEF Reached, IsReach, Onward
  <1>. QED BY <1>2, <1>3

LEMMA NeighborsListed ==
  ASSUME NEW p \in Pixels
  PROVE  RangeOf(PixelNeighbors[p]) = {PixelNeighbors[p][i] : i \in 1..4}
  <1>1. DOMAIN PixelNeighbors[p] = 1..4
    BY DEF PixelNeighbors
  <1>. QED BY <1>1 DEF RangeOf

LEMMA OnwardStep ==
  ASSUME NEW S \in SUBSET Pixels, NEW A, NEW T \in SUBSET S
  PROVE  /\ T \subseteq Onward(S, A, T) /\ Onward(S, A, T) \subseteq S
         /\ Onward(S, A, T) = T <=> IsClosedIn(T, S, A)
         /\ \A U : T \subseteq U /\ IsClosedIn(U, S, A) => Onward(S, A, T) \subseteq U
  <1>1. T \subseteq Onward(S, A, T) /\ Onward(S, A, T) \subseteq S
    BY DEF Onward
  <1>2. ASSUME NEW q \in T, NEW i \in 1..4, Neighbor(q, i) \in S, PixelNeighbors[q][i].arc \in A
        PROVE  Neighbor(q, i) \in Onward(S, A, T)
    <2>1. PixelNeighbors[q][i] \in RangeOf(PixelNeighbors[q])
      BY NeighborsListed
    <2>2. PixelNeighbors[q][i] \in {b \in RangeOf(PixelNeighbors[q]) : b.pixel \in S /\ b.arc \in A}
      BY <1>2, <2>1 DEF Neighbor
    <2>. QED BY <2>2 DEF Onward, Neighbor
  <1>3. ASSUME NEW U, T \subseteq U, IsClosedIn(U, S, A) PROVE Onward(S, A, T) \subseteq U
    <2>. SUFFICES ASSUME NEW q \in T, NEW b \in RangeOf(PixelNeighbors[q]), b.pixel \in S, b.arc \in A
                  PROVE  b.pixel \in U
      BY <1>3 DEF Onward
    <2>1. PICK i \in 1..4 : b = PixelNeighbors[q][i]
      BY NeighborsListed
    <2>. QED BY <1>3, <2>1 DEF IsClosedIn, Neighbor
  <1>4. IsClosedIn(T, S, A) => Onward(S, A, T) = T
    BY <1>1, <1>3
  <1>5. Onward(S, A, T) = T => IsClosedIn(T, S, A)
    BY <1>2 DEF IsClosedIn
  <1>. QED BY <1>1, <1>3, <1>4, <1>5

\* What is reached from a pixel is the least set that holds it and cannot be left.
LEMMA ReachedIsLeast ==
  ASSUME NEW S \in SUBSET Pixels, NEW A, NEW p \in S
  PROVE  /\ Reached(p, S, A) \in SUBSET S /\ p \in Reached(p, S, A)
         /\ IsClosedIn(Reached(p, S, A), S, A)
         /\ \A U \in SUBSET S : p \in U /\ IsClosedIn(U, S, A) => Reached(p, S, A) \subseteq U
  <1>. DEFINE n == Cardinality(Pixels)
  <1>1. PICK r : IsReach(r, n, p, S, A) /\ Reached(p, S, A) = r[n]
    BY ReachedIsReach
  <1>2. n \in Nat /\ IsFiniteSet(Pixels)
    BY Grid, FS_CardinalityType
  <1>. HIDE DEF n
  <1>3. r[0] = {p} /\ \A i \in 1..n : r[i] = Onward(S, A, r[i - 1])
    <2>1. \A i \in 0..n : r[i] = IF i = 0 THEN {p} ELSE Onward(S, A, r[i - 1])
      <3>1. r = [i \in 0..n |-> IF i = 0 THEN {p} ELSE Onward(S, A, r[i - 1])]
        BY <1>1, Zenon DEF IsReach
      <3>. QED BY <3>1
    <2>2. 0 \in 0..n /\ \A i \in 1..n : i \in 0..n /\ i # 0
      BY <1>2
    <2>. QED BY <2>1, <2>2
  <1>. DEFINE good(i) == /\ r[i] \in SUBSET S /\ p \in r[i]
                         /\ IsClosedIn(r[i], S, A) \/ Cardinality(r[i]) > i
                         /\ \A U \in SUBSET S : p \in U /\ IsClosedIn(U, S, A) => r[i] \subseteq U
              bad == {i \in 0..n : ~ good(i)}
  <1>4. ASSUME bad # {} PROVE FALSE
    <2>1. PICK m \in bad : \A k \in bad : m <= k
      <3>1. bad \subseteq Nat
        OBVIOUS
      <3>. HIDE DEF bad
      <3>. QED BY <1>4, <3>1, LeastNatural
    <2>2. m \in 0..n /\ ~ good(m)
      OBVIOUS
    <2>3. m # 0
      <3>1. Cardinality({p}) = 1
        BY FS_Singleton
      <3>2. good(0)
        BY <1>3, <3>1
      <3>. QED BY <2>2, <3>2
    <2>4. m - 1 \in 0..n /\ m \in 1..n /\ good(m - 1)
      BY <1>2, <2>1, <2>2, <2>3
    <2>. DEFINE T == r[m - 1]
    <2>5. r[m] = Onward(S, A, T)
      BY <1>3, <2>4
    <2>6. /\ T \in SUBSET S /\ p \in T /\ (IsClosedIn(T, S, A) \/ Cardinality(T) > m - 1)
          /\ \A U \in SUBSET S : p \in U /\ IsClosedIn(U, S, A) => T \subseteq U
      BY <2>4
    <2>. HIDE DEF T
    <2>7. /\ r[m] \in SUBSET S /\ p \in r[m] /\ T \subseteq r[m] /\ (r[m] = T <=> IsClosedIn(T, S, A))
          /\ \A U \in SUBSET S : p \in U /\ IsClosedIn(U, S, A) => r[m] \subseteq U
      BY <2>5, <2>6, OnwardStep
    <2>8. CASE IsClosedIn(T, S, A)
      BY <2>2, <2>7, <2>8
    <2>9. CASE ~ IsClosedIn(T, S, A)
      <3>1. T # r[m]
        BY <2>7, <2>9
      <3>2. IsFiniteSet(r[m])
        BY <1>2, <2>7, FS_Subset
      <3>3. Cardinality(T) <= Cardinality(r[m]) /\ Cardinality(T) # Cardinality(r[m])
        BY <2>7, <3>1, <3>2, FS_Subset
      <3>4. IsFiniteSet(T)
        BY <2>7, <3>2, FS_Subset
      <3>5. Cardinality(T) \in Nat /\ Cardinality(r[m]) \in Nat
        BY <3>2, <3>4, FS_CardinalityType
      <3>6. Cardinality(r[m]) > m
        BY <2>2, <2>6, <2>9, <3>3, <3>5
      <3>. QED BY <2>2, <2>7, <3>6
    <2>. QED BY <2>8, <2>9
  <1>5. good(n)
    <2>1. n \in 0..n
      BY <1>2
    <2>. QED BY <1>4, <2>1
  <1>6. ~ (Cardinality(r[n]) > n)
    <2>1. Cardinality(r[n]) <= Cardinality(Pixels) /\ IsFiniteSet(r[n])
      BY <1>2, <1>5, FS_Subset
    <2>2. Cardinality(r[n]) \in Nat
      BY <2>1, FS_CardinalityType
    <2>. QED BY <1>2, <2>1, <2>2 DEF n
  <1>. QED BY <1>1, <1>5, <1>6

\* From any pixel of a set that hangs together all of it is reached.
LEMMA WholeIsReached ==
  ASSUME NEW S \in SUBSET Pixels, IsWhole(S), NEW p \in S
  PROVE  Reached(p, S, Arcs) = S
  <1>. DEFINE R == Reached(p, S, Arcs)
  <1>1. R \in SUBSET S /\ p \in R /\ IsClosedIn(R, S, Arcs)
    BY ReachedIsLeast
  <1>. HIDE DEF R
  <1>2. ASSUME R # S PROVE FALSE
    <2>1. PICK x \in R, y \in S \ R : IsBeside(x, y)
      BY <1>1, <1>2 DEF IsWhole
    <2>2. PICK i \in 1..4 : Neighbor(x, i) = y
      BY <2>1 DEF IsBeside
    <2>3. PixelNeighbors[x][i].arc \in Arcs
      BY <1>1, <2>1, <2>2, NeighborPixel
    <2>. QED BY <1>1, <2>1, <2>2, <2>3 DEF IsClosedIn
  <1>. QED BY <1>2 DEF R

\* There are at most as many regions as pixels.
LEMMA EnoughNumbers ==
  ASSUME NEW n \in Nat, NEW f \in [Pixels -> Int], \A i \in 0..n : \E p \in Pixels : f[p] = i
  PROVE  n + 1 <= NRow * NCol
  <1>. DEFINE g == [i \in 0..n |-> CHOOSE p \in Pixels : f[p] = i]
  <1>1. \A i \in 0..n : g[i] \in Pixels /\ f[g[i]] = i
    OBVIOUS
  <1>2. g \in [0..n -> Pixels]
    BY <1>1
  <1>. HIDE DEF g
  <1>3. g \in Injection(0..n, Pixels)
    BY <1>1, <1>2 DEF Injection, IsInjective
  <1>4. Cardinality(0..n) <= Cardinality(Pixels)
    BY <1>3, Grid, FS_Injection
  <1>5. Cardinality(0..n) = n + 1
    BY FS_Interval
  <1>. QED BY <1>4, <1>5, Grid

-----------------------------------------------------------------------------
\* The queue and the pixels in it.

Waiting(q) == {p \in Pixels : IsQueued(q, p)}

LEMMA WaitingIsHeld ==
  ASSUME NEW q, IsQueue(q, Pixels), NEW W \in SUBSET Pixels,
         NEW cost \in [Pixels -> Int], Holds(q, W, cost)
  PROVE  Waiting(q) = W
  <1>1. ASSUME NEW p \in W PROVE IsQueued(q, p)
    <2>1. Slot(q, cost[p]) \in q.lo..q.hi
      BY SlotIndex
    <2>. QED BY <2>1 DEF Holds, IsQueued, RangeOf
  <1>2. ASSUME NEW p \in Pixels, IsQueued(q, p) PROVE p \in W
    BY <1>2 DEF Holds, IsQueued, RangeOf
  <1>. QED BY <1>1, <1>2 DEF Waiting

\* A queue with one pixel in its first list.
LEMMA OneQueued ==
  ASSUME NEW hi \in Nat \ {0}, NEW p \in Pixels, NEW cost \in [Pixels -> Int], cost[p] = 0
  PROVE  LET q == BucketInsert(EmptyQueue(0, hi, 0), p, 0)
         IN  IsQueue(q, Pixels) /\ Holds(q, {p}, cost) /\ q.lo = 0 /\ q.hi = hi
  <1>. DEFINE q == BucketInsert(EmptyQueue(0, hi, 0), p, 0)
  <1>1. /\ q.lo = 0 /\ q.hi = hi /\ q.curr = 0
        /\ q.at = [i \in 0..hi |-> IF i = 0 THEN <<p>> ELSE << >>]
    <2>1. <<p>> \o << >> = <<p>>
      OBVIOUS
    <2>. QED BY <2>1 DEF BucketInsert, EmptyQueue, WithList, Queue
  <1>. HIDE DEF q
  <1>2. IsQueue(q, Pixels)
    BY <1>1 DEF IsQueue
  <1>3. Slot(q, 0) = 0
    BY <1>1 DEF Slot
  <1>4. Holds(q, {p}, cost)
    BY <1>1, <1>3 DEF Holds
  <1>. QED BY <1>1, <1>2, <1>4 DEF q
-----------------------------------------------------------------------------
\* What TakeNode looks at and changes while it goes round the pixel it takes.

IsNeighborOf(region, p) == \E q \in Region(region) : IsBeside(p, q)

\* Outcost, queue and closest in the course of the round.
IsRound(w, from) ==
    /\ w = [outcost |-> w.outcost, queue |-> w.queue, closest |-> w.closest]
    /\ w.outcost \in [Pixels -> 0..NotReached]
    /\ IsQueue(w.queue, Pixels) /\ Holds(w.queue, Waiting(w.queue), w.outcost)
    /\ w.queue.lo = 0 /\ w.queue.hi = queue.hi
    /\ Waiting(w.queue) \subseteq Unnumbered \ {from}
    /\ w.closest \in [dist : 0..NotReached, region : Int]
    /\ w.closest.dist < NotReached =>
         /\ w.closest.region \in 0..regioncounter - 1
         /\ \E p \in Region(regioncounter) \cup {from} : IsNeighborOf(w.closest.region, p)
    /\ regioncounter = 0 =>
         \A p \in Unnumbered \ {from} : p \notin Waiting(w.queue) => w.outcost[p] = NotReached

\* The queue can tell any two distances between pixels apart.
IsDistance ==
    /\ arcdist \in [Arcs -> 0..LargeShort]
    /\ queue.lo = 0 /\ queue.hi \in Nat \ {0} /\ \A a \in Arcs : arcdist[a] < queue.hi

IsNumbering ==
    /\ regioncounter \in Int /\ regioncounter >= -1
    /\ regions \in [Pixels -> -1..regioncounter]

\* EnterRegion() leaves the pixel in the queue, at its shorter distance.
LEMMA Entered ==
  ASSUME IsDistance, IsNumbering, NEW from \in Pixels, NEW w, IsRound(w, from),
         NEW b, b.pixel \in Unnumbered \ {from}, b.arc \in Arcs
  PROVE  /\ IsRound(EnterRegion(w, b), from)
         /\ Waiting(w.queue) \subseteq Waiting(EnterRegion(w, b).queue)
         /\ Waiting(EnterRegion(w, b).queue) \subseteq Waiting(w.queue) \cup {b.pixel}
         /\ EnterRegion(w, b).closest = w.closest
         /\ regioncounter = 0 => b.pixel \in Waiting(EnterRegion(w, b).queue)
  <1>. DEFINE n == b.pixel
              d == arcdist[b.arc]
              W == Waiting(w.queue)
              u == Unlink(w.queue, n, n \in W, w.outcost[n])
              q == Link(u, n, d)
              c == [w.outcost EXCEPT ![n] = d]
  <1>1. /\ n \in Pixels /\ W \in SUBSET Pixels
        /\ d \in 0..LargeShort /\ d \in Int /\ d < NotReached /\ d < w.queue.hi
        /\ w.outcost \in [Pixels -> Int]
    BY Sizes DEF IsDistance, IsRound, Unnumbered, Waiting
  <1>2. u = Unlink(w.queue, n, IsQueued(w.queue, n), w.outcost[n])
    <2>1. n \in W <=> IsQueued(w.queue, n)
      BY <1>1 DEF Waiting
    <2>. QED BY <2>1 DEF Unlink
  <1>3. CASE d >= w.outcost[n]
    <2>1. EnterRegion(w, b) = w
      BY <1>3 DEF EnterRegion
    <2>2. regioncounter = 0 => n \in W
      BY <1>1, <1>3 DEF IsRound
    <2>. QED BY <2>1, <2>2
  <1>4. CASE ~ (d >= w.outcost[n])
    <2>1. u.lo = 0 /\ u.hi = w.queue.hi
      BY DEF Unlink, BucketRemove, WithList, Queue, IsRound
    <2>2. Slot(u, d) = d
      <3>1. w.queue.hi \in Int
        BY DEF IsRound, IsDistance
      <3>. HIDE DEF u, d
      <3>. QED BY <1>1, <2>1, <3>1 DEF Slot
    <2>3. q = StartingAt(BucketInsert(u, n, d),
                         IF d < BucketInsert(u, n, d).curr THEN d ELSE BucketInsert(u, n, d).curr)
      BY <1>1, <2>1, <2>2 DEF Link, BucketInsert, WithList, Queue
    <2>4. IsQueue(q, Pixels) /\ Holds(q, W \cup {n}, c)
      BY <1>1, Relabelled DEF IsRound
    <2>5. q.lo = 0 /\ q.hi = w.queue.hi
      BY <2>1 DEF Link, StartingAt, BucketInsert, WithList, Queue
    <2>6. EnterRegion(w, b) = [outcost |-> c, queue |-> q, closest |-> w.closest]
      BY <1>2, <1>4, <2>3 DEF EnterRegion
    <2>. HIDE DEF q, u
    <2>7. c \in [Pixels -> 0..NotReached] /\ c \in [Pixels -> Int]
      BY <1>1, Sizes DEF IsRound
    <2>8. Waiting(q) = W \cup {n}
      BY <1>1, <2>4, <2>7, WaitingIsHeld
    <2>9. W \cup {n} \subseteq Unnumbered \ {from}
      BY DEF IsRound
    <2>10. \A p \in Pixels : p # n => c[p] = w.outcost[p]
      BY <1>1 DEF IsRound
    <2>. DEFINE r == EnterRegion(w, b)
    <2>11. r.outcost = c /\ r.queue = q /\ r.closest = w.closest
           /\ r = [outcost |-> r.outcost, queue |-> r.queue, closest |-> r.closest]
      BY <2>6
    <2>. HIDE DEF r, c
    <2>12. IsRound(r, from)
      <3>1. regioncounter = 0 =>
              \A p \in Unnumbered \ {from} : p \notin W \cup {n} => c[p] = NotReached
        BY <2>10 DEF IsRound, Unnumbered
      <3>2. w.queue.hi = queue.hi
        BY DEF IsRound
      <3>3. /\ w.closest \in [dist : 0..NotReached, region : Int]
            /\ w.closest.dist < NotReached =>
                 /\ w.closest.region \in 0..regioncounter - 1
                 /\ \E p \in Region(regioncounter) \cup {from} : IsNeighborOf(w.closest.region, p)
        BY DEF IsRound
      <3>. HIDE DEF W, n
      <3>. QED BY <2>4, <2>5, <2>7, <2>8, <2>9, <2>11, <3>1, <3>2, <3>3 DEF IsRound
    <2>. QED BY <2>8, <2>11, <2>12 DEF r
  <1>. QED BY <1>3, <1>4

\* The i-th neighbour has been looked at: it waits if nothing was reached before, and
\* the closest region is no farther than one it is in.
IsSeen(w, from, i) ==
    Neighbor(from, i) \in Pixels =>
      /\ regions[Neighbor(from, i)] \in 0..regioncounter - 1 => w.closest.dist < NotReached
      /\ regioncounter = 0 /\ regions[Neighbor(from, i)] < 0 => Neighbor(from, i) \in Waiting(w.queue)

\* What one look leads to from w.
IsLookFrom(v, w, from, i) ==
    /\ IsRound(v, from)
    /\ Waiting(w.queue) \subseteq Waiting(v.queue)
    /\ \A p \in Waiting(v.queue) \ Waiting(w.queue) : IsBeside(from, p)
    /\ v.closest.dist <= w.closest.dist
    /\ IsSeen(v, from, i)

LEMMA Compared ==
  ASSUME IsDistance, IsNumbering, NEW from \in Unnumbered, NEW w, IsRound(w, from),
         NEW i \in 1..4, Neighbor(from, i) \in Pixels, regions[Neighbor(from, i)] >= 0
  PROVE  IsLookFrom(Compare(w, PixelNeighbors[from][i]), w, from, i)
  <1>. DEFINE b == PixelNeighbors[from][i]
              n == Neighbor(from, i)
              v == Compare(w, b)
  <1>1. b.pixel = n /\ b.arc \in Arcs /\ from \in Pixels
    BY NeighborPixel DEF Neighbor, Unnumbered
  <1>2. arcdist[b.arc] \in 0..LargeShort /\ arcdist[b.arc] < NotReached /\ LargeShort \in Nat
    BY <1>1, Sizes DEF IsDistance
  <1>3. w.closest.dist \in 0..NotReached /\ NotReached \in Nat
    BY Sizes DEF IsRound
  <1>4. CASE regions[n] # regioncounter /\ arcdist[b.arc] < w.closest.dist
    <2>. DEFINE k == [dist |-> arcdist[b.arc], region |-> regions[n]]
    <2>1. v = [w EXCEPT !.closest = k]
      BY <1>1, <1>4 DEF Compare
    <2>2. v = [outcost |-> w.outcost, queue |-> w.queue, closest |-> k]
      BY <2>1 DEF IsRound
    <2>3. regions[n] \in 0..regioncounter - 1
      BY <1>4 DEF IsNumbering
    <2>4. k \in [dist : 0..NotReached, region : Int] /\ k.dist = arcdist[b.arc] /\ k.region = regions[n]
      BY <1>2, <1>3, <2>3
    <2>5. \E p \in Region(regioncounter) \cup {from} : IsNeighborOf(regions[n], p)
      <3>1. n \in Region(regions[n]) /\ IsBeside(n, from)
        BY <1>1, NeighborPixel DEF Region
      <3>2. IsNeighborOf(regions[n], from)
        <4>1. IsBeside(from, n)
          BY DEF IsBeside
        <4>. QED BY <3>1, <4>1, BesideBack DEF IsNeighborOf
      <3>. QED BY <3>2
    <2>6. v.outcost = w.outcost /\ v.queue = w.queue /\ v.closest = k
      BY <2>2
    <2>. HIDE DEF k, v, b
    <2>7. IsRound(v, from)
      BY <2>2, <2>3, <2>4, <2>5, <2>6 DEF IsRound
    <2>. HIDE DEF n
    <2>. QED BY <1>2, <1>3, <1>4, <2>3, <2>4, <2>6, <2>7 DEF IsLookFrom, IsSeen, v, b, n
  <1>5. CASE ~ (regions[n] # regioncounter /\ arcdist[b.arc] < w.closest.dist)
    <2>1. v = w
      BY <1>1, <1>5 DEF Compare
    <2>2. regions[n] \in 0..regioncounter - 1 => w.closest.dist < NotReached
      BY <1>2, <1>3, <1>5 DEF IsNumbering
    <2>3. ~ (regions[n] < 0)
      BY DEF IsNumbering
    <2>. QED BY <1>3, <2>1, <2>2, <2>3 DEF IsLookFrom, IsSeen
  <1>. QED BY <1>4, <1>5

LEMMA Looked ==
  ASSUME IsDistance, IsNumbering, what = "regions", NEW from \in Unnumbered,
         NEW w, IsRound(w, from), NEW i \in 1..4
  PROVE  IsLookFrom(Look(w, from, i), w, from, i)
  <1>. DEFINE b == PixelNeighbors[from][i]
              n == Neighbor(from, i)
  <1>1. b.pixel = n /\ from \in Pixels
    BY DEF Neighbor, Unnumbered
  <1>2. w.closest.dist \in Int
    BY DEF IsRound
  <1>3. CASE n \notin Pixels
    <2>1. Look(w, from, i) = w
      BY <1>1, <1>3 DEF Look
    <2>. QED BY <1>2, <1>3, <2>1 DEF IsLookFrom, IsSeen
  <1>4. CASE n \in Pixels /\ regions[n] >= 0
    <2>1. Look(w, from, i) = Compare(w, b)
      BY <1>1, <1>4 DEF Look
    <2>. QED BY <1>4, <2>1, Compared
  <1>5. CASE n \in Pixels /\ ~ (regions[n] >= 0)
    <2>1. Look(w, from, i) = EnterRegion(w, b)
      BY <1>1, <1>5 DEF Look
    <2>2. b.arc \in Arcs /\ n # from
      BY <1>1, <1>5, NeighborPixel
    <2>3. regions[n] < 0 /\ ~ (regions[n] \in 0..regioncounter - 1)
      BY <1>5 DEF IsNumbering
    <2>4. b.pixel \in Unnumbered \ {from}
      BY <1>1, <1>5, <2>2, <2>3 DEF Unnumbered
    <2>. DEFINE v == EnterRegion(w, b)
    <2>5. /\ IsRound(v, from)
          /\ Waiting(w.queue) \subseteq Waiting(v.queue)
          /\ Waiting(v.queue) \subseteq Waiting(w.queue) \cup {b.pixel}
          /\ v.closest = w.closest
          /\ regioncounter = 0 => b.pixel \in Waiting(v.queue)
      BY <1>1, <2>2, <2>4, Entered
    <2>6. IsBeside(from, n)
      BY DEF IsBeside
    <2>. HIDE DEF v, n, b
    <2>. QED BY <1>1, <1>2, <2>1, <2>3, <2>5, <2>6 DEF IsLookFrom, IsSeen, v, n, b
  <1>. QED BY <1>3, <1>4, <1>5

\* Once round, all neighbours have been looked at.
LEMMA LookedAround ==
  ASSUME IsDistance, IsNumbering, what = "regions", NEW from \in Unnumbered,
         NEW w, IsRound(w, from)
  PROVE  LET v == LookRound(w, from)
         IN  /\ IsRound(v, from)
             /\ Waiting(w.queue) \subseteq Waiting(v.queue)
             /\ \A p \in Waiting(v.queue) \ Waiting(w.queue) : IsBeside(from, p)
             /\ v.closest.dist <= w.closest.dist
             /\ \A i \in 1..4 : IsSeen(v, from, i)
  <1>. DEFINE w1 == Look(w, from, 1)
              w2 == Look(w1, from, 2)
              w3 == Look(w2, from, 3)
              v == Look(w3, from, 4)
  <1>1. IsLookFrom(w1, w, from, 1)
    BY Looked
  <1>. HIDE DEF w1
  <1>2. IsLookFrom(w2, w1, from, 2)
    BY <1>1, Looked DEF IsLookFrom
  <1>. HIDE DEF w2
  <1>3. IsLookFrom(w3, w2, from, 3)
    BY <1>2, Looked DEF IsLookFrom
  <1>. HIDE DEF w3
  <1>4. IsLookFrom(v, w3, from, 4)
    BY <1>3, Looked DEF IsLookFrom
  <1>. HIDE DEF v
  <1>5. IsRound(w, from) /\ IsRound(w1, from) /\ IsRound(w2, from) /\ IsRound(w3, from) /\ IsRound(v, from)
    BY <1>1, <1>2, <1>3, <1>4 DEF IsLookFrom
  <1>6. {w.closest.dist, w1.closest.dist, w2.closest.dist, w3.closest.dist, v.closest.dist} \subseteq Int
        /\ NotReached \in Int
    BY <1>5, Sizes DEF IsRound
  <1>7. /\ v.closest.dist <= w3.closest.dist /\ w3.closest.dist <= w2.closest.dist
        /\ w2.closest.dist <= w1.closest.dist /\ w1.closest.dist <= w.closest.dist
    BY <1>1, <1>2, <1>3, <1>4 DEF IsLookFrom
  <1>8. /\ Waiting(w.queue) \subseteq Waiting(w1.queue) /\ Waiting(w1.queue) \subseteq Waiting(w2.queue)
        /\ Waiting(w2.queue) \subseteq Waiting(w3.queue) /\ Waiting(w3.queue) \subseteq Waiting(v.queue)
    BY <1>1, <1>2, <1>3, <1>4 DEF IsLookFrom
  <1>9. IsSeen(w1, from, 1) /\ IsSeen(w2, from, 2) /\ IsSeen(w3, from, 3) /\ IsSeen(v, from, 4)
    BY <1>1, <1>2, <1>3, <1>4 DEF IsLookFrom
  <1>10. ASSUME NEW i \in 1..4 PROVE IsSeen(v, from, i)
    BY <1>6, <1>7, <1>8, <1>9 DEF IsSeen
  <1>11. ASSUME NEW p \in Waiting(v.queue) \ Waiting(w.queue) PROVE IsBeside(from, p)
    BY <1>1, <1>2, <1>3, <1>4 DEF IsLookFrom
  <1>12. v.closest.dist <= w.closest.dist
    BY <1>6, <1>7
  <1>13. v = LookRound(w, from)
    BY DEF LookRound, v, w3, w2, w1
  <1>. QED BY <1>5, <1>8, <1>10, <1>11, <1>12, <1>13

-----------------------------------------------------------------------------
\* The queue has a list for every distance.
LEMMA LargestDistance ==
  ASSUME NEW dist \in [Arcs -> 0..LargeShort]
  PROVE  Largest(dist) \in 0..LargeShort /\ \A a \in Arcs : dist[a] < 1 + Largest(dist)
  <1>. DEFINE below == {-dist[a] : a \in Arcs}
  <1>1. /\ LargeShort \in Nat
        /\ \A a \in Arcs : dist[a] \in 0..LargeShort /\ dist[a] \in Int
    BY Sizes
  <1>2. IsFiniteSet(below)
    <2>. DEFINE f == [a \in Arcs |-> -dist[a]]
    <2>1. f \in Surjection(Arcs, below)
      BY DEF Surjection
    <2>. QED BY <2>1, Grid, FS_Surjection
  <1>3. below \subseteq Int /\ below # {}
    BY <1>1, Grid
  <1>4. \E x \in below : \A y \in below : x <= y
    <2>. HIDE DEF below
    <2>. QED BY <1>2, <1>3, LeastElement
  <1>5. PICK a \in Arcs : \A b \in Arcs : -dist[a] <= -dist[b]
    BY <1>4
  <1>6. \A b \in Arcs : dist[b] <= dist[a]
    BY <1>1, <1>5
  <1>7. Largest(dist) \in {dist[b] : b \in Arcs} /\ \A b \in Arcs : dist[b] <= Largest(dist)
    BY <1>6 DEF Largest
  <1>. HIDE DEF below
  <1>. QED BY <1>1, <1>7

\* The tile hangs together.
LEMMA PixelsWhole == IsWhole(Pixels)
  <1>. SUFFICES ASSUME NEW T \in SUBSET Pixels, T # {}, T # Pixels
                PROVE  \E p \in T, q \in Pixels \ T : IsBeside(p, q)
    BY DEF IsWhole
  <1>1. ASSUME NEW S \in SUBSET Pixels, S # {}, <<0, 0>> \notin S
        PROVE  \E p \in S, q \in Pixels \ S : IsBeside(p, q)
    <2>1. FirstOf(S) \in S /\ \A q \in S : Raster(FirstOf(S)) <= Raster(q)
      BY <1>1, FirstIsFirst
    <2>2. FirstOf(S) \in Pixels /\ FirstOf(S) # <<0, 0>>
      BY <1>1, <2>1
    <2>3. PICK i \in 1..4 : /\ Neighbor(FirstOf(S), i) \in Pixels
                            /\ Raster(Neighbor(FirstOf(S), i)) < Raster(FirstOf(S))
      BY <2>2, EarlierNeighbor
    <2>4. Neighbor(FirstOf(S), i) \notin S
      BY <2>1, <2>2, <2>3, RasterNatural
    <2>. QED BY <2>1, <2>3, <2>4 DEF IsBeside
  <1>2. CASE <<0, 0>> \notin T
    BY <1>1, <1>2
  <1>3. CASE <<0, 0>> \in T
    <2>1. PICK p \in Pixels \ T, q \in Pixels \ (Pixels \ T) : IsBeside(p, q)
      BY <1>1, <1>3
    <2>. QED BY <2>1, BesideBack
  <1>. QED BY <1>2, <1>3

LEMMA FirstOfAll == FirstOf(Pixels) = <<0, 0>>
  <1>1. FirstOf(Pixels) \in Pixels /\ \A q \in Pixels : Raster(FirstOf(Pixels)) <= Raster(q)
    BY FirstIsFirst, Sizes
  <1>. QED BY <1>1, EarlierNeighbor, RasterNatural

-----------------------------------------------------------------------------
\* The inductive invariant.

\* A region that will only change if another one is merged with it.
Settled(i) ==
    /\ regionsizes[i] = Cardinality(Region(i)) /\ regionsizes[i] >= MinRegionSize
    /\ Region(i) # {} /\ IsWhole(Region(i))

\* Between two regions.
IsBetween ==
    /\ \A i \in 0..regioncounter : Settled(i)
    /\ regioncounter = -1 => \A p \in Pixels : outcost[p] = NotReached
    /\ regioncounter >= 0 => regions[<<0, 0>>] >= 0
    /\ gpc = "idle" => Unnumbered = {}

\* Only the source waits, a pixel beside an older region if there is one.
IsAtSource ==
    /\ \E s \in Pixels :
         /\ Waiting(queue) = {s} /\ outcost[s] = 0
         /\ regioncounter = 0 => s = <<0, 0>>
         /\ regioncounter > 0 => \E q \in Pixels : IsBeside(s, q) /\ regions[q] \in 0..regioncounter - 1
    /\ lastfromdist = 0

\* Some pixels are taken, others beside them wait, and an older region is known.
IsOnItsWay ==
    /\ \A p \in Waiting(queue) : \E q \in Region(regioncounter) : IsBeside(q, p)
    /\ regioncounter > 0 => closest.dist < NotReached

\* In the first region no distance is left from another one, and no neighbour is
\* passed over.
IsFirstRegion ==
    /\ \A p \in Unnumbered : p \notin Waiting(queue) => outcost[p] = NotReached
    /\ \A p \in Region(0), i \in 1..4 :
         Neighbor(p, i) \in Pixels => Neighbor(p, i) \in Region(0) \cup Waiting(queue)

IsGrowing ==
    /\ regioncounter \in 0..NRow * NCol
    /\ \A i \in 0..regioncounter - 1 : Settled(i)
    /\ regionsizes[regioncounter] = Cardinality(Region(regioncounter))
    /\ IsWhole(Region(regioncounter))
    /\ IsQueue(queue, Pixels) /\ Holds(queue, Waiting(queue), outcost)
    /\ Waiting(queue) \subseteq Unnumbered
    /\ closest.dist < NotReached =>
         /\ closest.region \in 0..regioncounter - 1
         /\ \E p \in Region(regioncounter) : IsNeighborOf(closest.region, p)
    /\ IF Region(regioncounter) = {} THEN IsAtSource ELSE IsOnItsWay
    /\ regioncounter > 0 \/ Region(0) # {} => regions[<<0, 0>>] >= 0
    /\ regioncounter = 0 => IsFirstRegion

RegionsInv ==
    /\ IsDistance /\ IsNumbering
    /\ outcost \in [Pixels -> 0..NotReached]
    /\ regionsizes \in [0..NRow * NCol -> Int]
    /\ closest \in [dist : 0..NotReached, region : Int]
    /\ lastfromdist \in 0..NotReached
    /\ gpc \in {"next", "grow", "idle"}
    /\ IF gpc = "grow" THEN IsGrowing ELSE IsBetween

-----------------------------------------------------------------------------
\* Each step keeps the invariant.

\* The ones that are not of the region that grows stay settled.
LEMMA StaysSettled ==
  ASSUME NEW i, Settled(i), Region(i)' = Region(i), regionsizes'[i] = regionsizes[i]
  PROVE  Settled(i)'
  BY DEF Settled

LEMMA TakeNodeKeeps ==
  ASSUME RegionsInv, what = "regions", TakeNode
  PROVE  RegionsInv'
  <1>. DEFINE p == From
              rc == regioncounter
              W == Waiting(queue)
              rest == AfterClosest(queue)
              w == [outcost |-> outcost, queue |-> rest, closest |-> closest]
              v == LookRound(w, p)
  <1>1. IsGrowing /\ IsDistance /\ IsNumbering /\ IsFilled(queue) /\ rc \in Nat
    BY DEF RegionsInv, TakeNode, IsGrowing
  <1>2. W \in SUBSET Pixels /\ outcost \in [Pixels -> Int] /\ NotReached \in Nat
    BY Sizes DEF RegionsInv, Waiting
  <1>3. IsQueue(queue, Pixels) /\ Holds(queue, W, outcost) /\ W \subseteq Unnumbered
    BY <1>1 DEF IsGrowing
  <1>4. /\ p \in W /\ IsQueue(rest, Pixels) /\ Holds(rest, W \ {p}, outcost)
        /\ rest.lo = queue.lo /\ rest.hi = queue.hi
    BY <1>1, <1>2, <1>3, ClosestTaken DEF From
  <1>5. Waiting(rest) = W \ {p}
    BY <1>2, <1>4, WaitingIsHeld
  <1>6. p \in Unnumbered /\ p \in Pixels
    BY <1>2, <1>3, <1>4
  <1>. HIDE DEF p, W, rest
  <1>7. w.outcost = outcost /\ w.queue = rest /\ w.closest = closest
    OBVIOUS
  <1>8. IsRound(w, p)
    <2>1. \A q \in Unnumbered \ {p} : rc = 0 /\ q \notin W \ {p} => outcost[q] = NotReached
      BY <1>1 DEF IsGrowing, IsFirstRegion, W
    <2>2. rest.lo = 0 /\ rest.hi = queue.hi
      BY <1>1, <1>4 DEF IsDistance
    <2>3. W \ {p} \subseteq Unnumbered \ {p}
      BY <1>3
    <2>4. closest.dist < NotReached =>
            /\ closest.region \in 0..regioncounter - 1
            /\ \E q \in Region(regioncounter) \cup {p} : IsNeighborOf(closest.region, q)
      BY <1>1 DEF IsGrowing
    <2>5. outcost \in [Pixels -> 0..NotReached] /\ closest \in [dist : 0..NotReached, region : Int]
      BY DEF RegionsInv
    <2>. HIDE DEF w
    <2>. QED BY <1>4, <1>5, <1>7, <2>1, <2>2, <2>3, <2>4, <2>5 DEF IsRound, w
  <1>9. /\ IsRound(v, p)
        /\ W \ {p} \subseteq Waiting(v.queue)
        /\ \A q \in Waiting(v.queue) \ (W \ {p}) : IsBeside(p, q)
        /\ v.closest.dist <= closest.dist
        /\ \A i \in 1..4 : IsSeen(v, p, i)
    BY <1>1, <1>5, <1>6, <1>7, <1>8, LookedAround
  <1>10. /\ outcost' = v.outcost /\ queue' = v.queue /\ closest' = v.closest
         /\ regions' = [regions EXCEPT ![p] = rc] /\ regionsizes' = [regionsizes EXCEPT ![rc] = @ + 1]
         /\ lastfromdist' = outcost[p]
         /\ what' = what /\ gpc' = gpc /\ gpc = "grow" /\ arcdist' = arcdist /\ rc' = rc
    BY DEF TakeNode, p, rest
  <1>. HIDE DEF w, v
  <1>11. /\ Waiting(queue)' = Waiting(v.queue)
         /\ Waiting(queue)' \subseteq Unnumbered \ {p}
    BY <1>9, <1>10 DEF Waiting, IsQueued, RangeOf, IsRound
  <1>12. /\ \A i \in 0..rc - 1 : Region(i)' = Region(i)
         /\ Region(rc)' = Region(rc) \cup {p} /\ p \notin Region(rc)
         /\ rc = 0 => Region(0)' = Region(0) \cup {p}
         /\ Unnumbered' = Unnumbered \ {p}
    BY <1>1, <1>6, <1>10 DEF Region, Unnumbered, IsNumbering
  <1>13. IsDistance' /\ IsNumbering'
    BY <1>1, <1>6, <1>9, <1>10 DEF IsDistance, IsNumbering, IsRound
  <1>14. /\ outcost' \in [Pixels -> 0..NotReached]
         /\ closest' \in [dist : 0..NotReached, region : Int]
         /\ lastfromdist' \in 0..NotReached
    BY <1>6, <1>9, <1>10 DEF IsRound, RegionsInv
  <1>15. rc \in 0..NRow * NCol /\ regionsizes[rc] \in Int /\ regionsizes'[rc] = regionsizes[rc] + 1
         /\ regionsizes' \in [0..NRow * NCol -> Int]
         /\ \A i \in 0..rc - 1 : regionsizes'[i] = regionsizes[i]
    BY <1>1, <1>10, Sizes DEF RegionsInv, IsGrowing
  <1>16. \A i \in 0..rc - 1 : Settled(i)'
    BY <1>1, <1>12, <1>15, StaysSettled DEF IsGrowing
  <1>17. regionsizes'[rc] = Cardinality(Region(rc)')
    <2>1. Region(rc) \in SUBSET Pixels
      BY DEF Region
    <2>2. IsFiniteSet(Region(rc))
      BY <2>1, Grid, FS_Subset
    <2>3. Cardinality(Region(rc) \cup {p}) = Cardinality(Region(rc)) + 1
      BY <1>12, <2>2, FS_AddElement
    <2>. QED BY <1>1, <1>12, <1>15, <2>3 DEF IsGrowing
  <1>18. IsWhole(Region(rc)')
    <2>1. CASE Region(rc) = {}
      <3>1. Region(rc)' = {p}
        BY <1>12, <2>1
      <3>. QED BY <3>1, OneIsWhole
    <2>2. CASE Region(rc) # {}
      <3>1. PICK q \in Region(rc) : IsBeside(q, p)
        BY <1>1, <1>4, <2>2 DEF IsGrowing, IsOnItsWay, W
      <3>2. Region(rc) \in SUBSET Pixels /\ {p} \in SUBSET Pixels /\ IsWhole(Region(rc)) /\ IsWhole({p})
        BY <1>1, <1>6, OneIsWhole DEF IsGrowing, Region
      <3>. QED BY <1>12, <3>1, <3>2, WholeTogether
    <2>. QED BY <2>1, <2>2
  <1>19. closest'.dist < NotReached =>
           /\ closest'.region \in 0..rc - 1
           /\ \E q \in Region(rc)', x \in Region(closest'.region) : IsBeside(q, x)
    BY <1>9, <1>10, <1>12 DEF IsRound, IsNeighborOf
  <1>20. Region(rc) = {} =>
           /\ W = {p}
           /\ rc = 0 => p = <<0, 0>>
           /\ rc > 0 => \E q \in Pixels : IsBeside(p, q) /\ regions[q] \in 0..rc - 1
    <2>. HAVE Region(rc) = {}
    <2>1. IsAtSource
      BY <1>1 DEF IsGrowing
    <2>. QED BY <1>4, <2>1 DEF IsAtSource, W
  <1>21. regions'[<<0, 0>>] >= 0
    <2>1. CASE rc > 0 \/ Region(0) # {}
      <3>1. regions[<<0, 0>>] >= 0
        BY <1>1, <2>1 DEF IsGrowing
      <3>. QED BY <1>1, <1>6, <1>10, <3>1 DEF IsNumbering
    <2>2. CASE rc = 0 /\ Region(0) = {}
      <3>1. p = <<0, 0>>
        BY <1>20, <2>2
      <3>. QED BY <1>1, <1>6, <1>10, <3>1 DEF IsNumbering
    <2>. QED BY <1>1, <2>1, <2>2
  <1>22. rc > 0 => closest'.dist < NotReached
    <2>. HAVE rc > 0
    <2>1. CASE Region(rc) = {}
      <3>1. PICK q \in Pixels : IsBeside(p, q) /\ regions[q] \in 0..rc - 1
        BY <1>20, <2>1
      <3>2. PICK i \in 1..4 : Neighbor(p, i) = q
        BY <3>1 DEF IsBeside
      <3>3. IsSeen(v, p, i)
        BY <1>9
      <3>. QED BY <1>10, <3>1, <3>2, <3>3 DEF IsSeen
    <2>2. CASE Region(rc) # {}
      <3>1. closest.dist < NotReached
        BY <1>1, <2>2 DEF IsGrowing, IsOnItsWay
      <3>2. closest.dist \in Int /\ v.closest.dist \in Int
        BY <1>9 DEF RegionsInv, IsRound
      <3>. QED BY <1>2, <1>9, <1>10, <3>1, <3>2
    <2>. QED BY <2>1, <2>2
  <1>23. ASSUME NEW x \in Waiting(v.queue) PROVE \E q \in Region(rc)' : IsBeside(q, x)
    <2>1. CASE x \in W \ {p}
      <3>1. Region(rc) # {}
        BY <1>20, <2>1
      <3>2. \E q \in Region(rc) : IsBeside(q, x)
        BY <1>1, <2>1, <3>1 DEF IsGrowing, IsOnItsWay, W
      <3>. QED BY <1>12, <3>2
    <2>2. CASE x \notin W \ {p}
      BY <1>9, <1>12, <2>2
    <2>. QED BY <2>1, <2>2
  <1>24. rc = 0 => IsFirstRegion'
    <2>. HAVE rc = 0
    <2>1. ASSUME NEW q \in Unnumbered', q \notin Waiting(queue)' PROVE outcost'[q] = NotReached
      BY <1>9, <1>10, <1>11, <1>12, <2>1 DEF IsRound
    <2>2. ASSUME NEW x \in Region(0)', NEW i \in 1..4, Neighbor(x, i) \in Pixels
          PROVE  Neighbor(x, i) \in Region(0)' \cup Waiting(queue)'
      <3>1. CASE x = p
        <4>1. IsSeen(v, p, i)
          BY <1>9
        <4>2. regions[Neighbor(p, i)] = 0 \/ regions[Neighbor(p, i)] < 0
          BY <1>1, <2>2, <3>1 DEF IsNumbering
        <4>. QED BY <1>11, <1>12, <2>2, <3>1, <4>1, <4>2 DEF IsSeen, Region
      <3>2. CASE x # p
        <4>1. x \in Region(0)
          BY <1>12, <3>2
        <4>2. Neighbor(x, i) \in Region(0) \cup W
          BY <1>1, <2>2, <4>1 DEF IsGrowing, IsFirstRegion, W
        <4>. QED BY <1>9, <1>11, <1>12, <4>2
      <3>. QED BY <3>1, <3>2
    <2>. QED BY <2>1, <2>2 DEF IsFirstRegion
  <1>25. IsGrowing'
    <2>1. IsQueue(queue, Pixels)' /\ Holds(queue, Waiting(queue), outcost)'
      <3>1. IsQueue(queue', Pixels) /\ Holds(queue', Waiting(v.queue), outcost')
        BY <1>9, <1>10 DEF IsRound
      <3>2. Holds(queue', Waiting(queue)', outcost')
        BY <1>11, <3>1
      <3>. QED BY <3>1, <3>2
    <2>2. IsOnItsWay'
      BY <1>10, <1>11, <1>22, <1>23 DEF IsOnItsWay
    <2>3. Region(rc)' # {} /\ Waiting(queue)' \subseteq Unnumbered'
      BY <1>11, <1>12
    <2>4. closest'.dist < NotReached =>
            /\ closest'.region \in 0..rc - 1
            /\ \E q \in Region(rc)' : IsNeighborOf(closest.region, q)'
      <3>1. ASSUME NEW k \in 0..rc - 1, closest'.region = k PROVE Region(closest.region)' = Region(k)
        BY <1>12, <3>1 DEF Region
      <3>. QED BY <1>19, <3>1 DEF IsNeighborOf
    <2>. QED BY <1>10, <1>15, <1>16, <1>17, <1>18, <1>21, <1>24, <2>1, <2>2, <2>3, <2>4 DEF IsGrowing
  <1>. QED BY <1>10, <1>13, <1>14, <1>15, <1>25 DEF RegionsInv

LEMMA NextSourceKeeps ==
  ASSUME RegionsInv, what = "regions", NextSource
  PROVE  RegionsInv'
  <1>. DEFINE p == FirstOf(Unnumbered)
              rc == regioncounter
  <1>1. /\ IsBetween /\ IsDistance /\ IsNumbering
        /\ Unnumbered # {} /\ Unnumbered \subseteq Pixels
        /\ rc \in Int /\ rc >= -1
    BY DEF RegionsInv, NextSource, IsNumbering, Unnumbered
  <1>2. p \in Unnumbered /\ p \in Pixels /\ \A q \in Unnumbered : Raster(p) <= Raster(q)
    BY <1>1, FirstIsFirst
  <1>. HIDE DEF p
  <1>3. /\ outcost' = [q \in Pixels |-> IF q = p THEN 0
                                       ELSE IF IsQueued(queue, q) THEN NotReached ELSE outcost[q]]
        /\ queue' = BucketInsert(EmptyQueue(0, queue.hi, 0), p, 0)
        /\ rc' = rc + 1 /\ regionsizes' = [regionsizes EXCEPT ![rc + 1] = 0]
        /\ closest' = NoneClosest /\ lastfromdist' = 0 /\ gpc' = "grow"
        /\ what' = what /\ arcdist' = arcdist /\ regions' = regions
    BY DEF NextSource, p
  <1>4. /\ outcost' \in [Pixels -> 0..NotReached] /\ outcost' \in [Pixels -> Int]
        /\ outcost'[p] = 0 /\ NotReached \in Nat
        /\ rc = -1 => \A q \in Pixels : q # p => outcost'[q] = NotReached
    BY <1>1, <1>2, <1>3, Sizes DEF RegionsInv, IsBetween
  <1>5. IsQueue(queue', Pixels) /\ Holds(queue', {p}, outcost') /\ queue'.lo = 0 /\ queue'.hi = queue.hi
    <2>1. queue.hi \in Nat \ {0}
      BY <1>1 DEF IsDistance
    <2>. QED BY <1>2, <1>3, <1>4, <2>1, OneQueued
  <1>6. Waiting(queue)' = {p}
    <2>1. Waiting(queue') = {p}
      BY <1>2, <1>4, <1>5, WaitingIsHeld
    <2>. QED BY <2>1
  <1>7. rc + 1 \in 0..NRow * NCol /\ NRow * NCol \in Nat
    <2>1. CASE rc = -1
      BY <2>1, Sizes
    <2>2. CASE rc \in Nat
      <3>1. \A i \in 0..rc : \E q \in Pixels : regions[q] = i
        BY <1>1 DEF IsBetween, Settled, Region
      <3>2. regions \in [Pixels -> Int]
        BY <1>1 DEF IsNumbering
      <3>. QED BY <2>2, <3>1, <3>2, EnoughNumbers, Sizes
    <2>. QED BY <1>1, <2>1, <2>2
  <1>8. Unnumbered' = Unnumbered /\ \A i \in Int : Region(i)' = Region(i)
    BY <1>3 DEF Unnumbered, Region
  <1>9. Region(rc + 1) = {} /\ Region(rc)' = {}
    BY <1>1, <1>3 DEF Region, IsNumbering
  <1>10. /\ regionsizes' \in [0..NRow * NCol -> Int] /\ regionsizes'[rc + 1] = 0
         /\ \A i \in 0..rc : regionsizes'[i] = regionsizes[i]
    BY <1>1, <1>3, <1>7 DEF RegionsInv
  <1>11. \A i \in 0..rc : Settled(i)'
    BY <1>1, <1>8, <1>10, StaysSettled DEF IsBetween
  <1>12. closest' \in [dist : 0..NotReached, region : Int] /\ closest'.dist = NotReached
    BY <1>3, <1>4 DEF NoneClosest, RegionsInv
  <1>13. IsAtSource'
    <2>1. rc = -1 => p = <<0, 0>>
      <3>. HAVE rc = -1
      <3>1. Unnumbered = Pixels
        BY <1>1 DEF IsNumbering, Unnumbered
      <3>. QED BY <3>1, FirstOfAll DEF p
    <2>2. rc >= 0 => \E q \in Pixels : IsBeside(p, q) /\ regions[q] \in 0..rc
      <3>. HAVE rc >= 0
      <3>1. p # <<0, 0>>
        BY <1>1, <1>2 DEF IsBetween, IsNumbering, Unnumbered
      <3>2. PICK i \in 1..4 : Neighbor(p, i) \in Pixels /\ Raster(Neighbor(p, i)) < Raster(p)
        BY <1>2, <3>1, EarlierNeighbor
      <3>3. Neighbor(p, i) \notin Unnumbered
        BY <1>2, <3>2, RasterNatural
      <3>. QED BY <1>1, <3>2, <3>3 DEF IsBeside, Unnumbered, IsNumbering
    <2>. QED BY <1>1, <1>2, <1>3, <1>4, <1>6, <2>1, <2>2 DEF IsAtSource
  <1>14. rc' = 0 => IsFirstRegion'
    <2>. HAVE rc' = 0
    <2>1. rc = -1 /\ Region(0)' = {}
      BY <1>1, <1>3, <1>8, <1>9
    <2>. QED BY <1>4, <1>6, <1>8, <2>1 DEF IsFirstRegion, Unnumbered
  <1>15. IsGrowing'
    <2>1. Holds(queue, Waiting(queue), outcost)'
      BY <1>5, <1>6
    <2>2. IsWhole(Region(rc)') /\ Cardinality(Region(rc)') = 0
      BY <1>9, FS_EmptySet DEF IsWhole
    <2>3. rc' > 0 \/ Region(0)' # {} => regions'[<<0, 0>>] >= 0
      BY <1>1, <1>3, <1>8, <1>9 DEF IsBetween
    <2>. QED BY <1>1, <1>2, <1>3, <1>5, <1>6, <1>7, <1>8, <1>9, <1>10, <1>11, <1>12, <1>13, <1>14, <2>1, <2>2, <2>3
            DEF IsGrowing
  <1>16. IsDistance' /\ IsNumbering'
    BY <1>1, <1>3, <1>5 DEF IsDistance, IsNumbering
  <1>. QED BY <1>3, <1>4, <1>10, <1>12, <1>15, <1>16 DEF RegionsInv

-----------------------------------------------------------------------------
\* A region that stops growing.

LEMMA StoppedRegion ==
  ASSUME RegionsInv, what = "regions", StopGrowing
  PROVE  /\ regioncounter \in Nat /\ IsGrowing /\ IsNumbering
         /\ Region(regioncounter) # {}
         /\ queue'.lo = 0 /\ queue'.hi = queue.hi
         /\ ~ BigEnough => regioncounter > 0 /\ closest.dist < NotReached
  <1>. DEFINE rc == regioncounter
              W == Waiting(queue)
  <1>1. IsGrowing /\ IsDistance /\ IsNumbering /\ MayStop /\ rc \in Nat
    BY DEF RegionsInv, StopGrowing, IsGrowing
  <1>2. W \in SUBSET Pixels /\ outcost \in [Pixels -> Int] /\ NotReached \in Nat
        /\ \A p \in Pixels : outcost[p] \in 0..NotReached
    BY Sizes DEF RegionsInv, Waiting
  <1>3. /\ IsFilled(queue) <=> W # {}
        /\ W # {} => From \in W /\ AfterClosest(queue).lo = queue.lo /\ AfterClosest(queue).hi = queue.hi
    BY <1>1, <1>2, ClosestTaken DEF IsGrowing, From
  <1>4. queue'.lo = 0 /\ queue'.hi = queue.hi
    BY <1>1, <1>3 DEF StopGrowing, IsDistance
  <1>5. Region(rc) # {}
    <2>. SUFFICES ASSUME Region(rc) = {} PROVE FALSE
      OBVIOUS
    <2>1. PICK s \in Pixels : W = {s} /\ outcost[s] = 0 /\ lastfromdist = 0
      BY <1>1 DEF IsGrowing, IsAtSource
    <2>2. IsFilled(queue) /\ From = s
      BY <1>3, <2>1
    <2>. QED BY <1>1, <2>1, <2>2 DEF MayStop, IsFarther
  <1>6. ASSUME ~ BigEnough PROVE rc > 0 /\ closest.dist < NotReached
    <2>1. CASE rc > 0
      BY <1>1, <1>5, <2>1 DEF IsGrowing, IsOnItsWay
    <2>2. CASE rc = 0
      <3>1. closest.dist = NotReached
        BY <1>1, <1>2, <2>2 DEF IsGrowing, RegionsInv
      <3>2. W = {}
        <4>1. ~ (outcost[From] > closest.dist) \/ W = {}
          BY <1>2, <1>3, <3>1
        <4>. QED BY <1>1, <1>3, <1>6, <4>1 DEF MayStop, IsFarther
      <3>3. Region(0) = Pixels
        <4>1. \A x \in Region(0), y \in Pixels \ Region(0) : ~ IsBeside(x, y)
          BY <1>1, <2>2, <3>2 DEF IsGrowing, IsFirstRegion, IsBeside
        <4>2. Region(0) \in SUBSET Pixels /\ Region(0) # {}
          BY <1>5, <2>2 DEF Region
        <4>. QED BY <4>1, <4>2, PixelsWhole DEF IsWhole
      <3>4. regionsizes[rc] = NRow * NCol
        BY <1>1, <2>2, <3>3, Grid DEF IsGrowing
      <3>. QED BY <1>6, <3>4, Sizes DEF BigEnough, MinSize
    <2>. QED BY <1>1, <2>1, <2>2
  <1>. QED BY <1>1, <1>4, <1>5, <1>6

LEMMA RegionCompleteKeeps ==
  ASSUME RegionsInv, what = "regions", RegionComplete
  PROVE  RegionsInv'
  <1>. DEFINE rc == regioncounter
  <1>1. /\ rc \in Nat /\ IsGrowing /\ IsNumbering /\ Region(rc) # {}
        /\ queue'.lo = 0 /\ queue'.hi = queue.hi
    BY StoppedRegion DEF RegionComplete
  <1>2. /\ gpc' = "next" /\ regions' = regions /\ rc' = rc /\ regionsizes' = regionsizes
        /\ what' = what /\ arcdist' = arcdist /\ outcost' = outcost
        /\ closest' = closest /\ lastfromdist' = lastfromdist
    BY DEF RegionComplete, StopGrowing
  <1>3. Settled(rc)
    BY <1>1 DEF RegionComplete, BigEnough, MinSize, IsGrowing, Settled
  <1>4. \A i \in 0..rc : Settled(i)
    BY <1>1, <1>3 DEF IsGrowing
  <1>5. \A i \in 0..rc : Settled(i)'
    <2>1. \A i \in 0..rc : Region(i)' = Region(i) /\ regionsizes'[i] = regionsizes[i]
      BY <1>2 DEF Region
    <2>. QED BY <1>4, <2>1, StaysSettled
  <1>6. regions[<<0, 0>>] >= 0
    BY <1>1 DEF IsGrowing
  <1>7. IsBetween'
    BY <1>1, <1>2, <1>5, <1>6 DEF IsBetween
  <1>8. IsDistance' /\ IsNumbering'
    BY <1>1, <1>2 DEF RegionsInv, IsDistance, IsNumbering
  <1>. QED BY <1>2, <1>7, <1>8 DEF RegionsInv

\* MergeRegions() comes to an end: the other region has another number.
LEMMA MergeRegionsKeeps ==
  ASSUME RegionsInv, what = "regions", MergeRegions
  PROVE  RegionsInv'
  <1>. DEFINE rc == regioncounter
  <1>1. /\ rc \in Nat /\ rc > 0 /\ IsGrowing /\ IsNumbering /\ Region(rc) # {}
        /\ queue'.lo = 0 /\ queue'.hi = queue.hi /\ closest.dist < NotReached
    BY StoppedRegion DEF MergeRegions
  <1>2. PICK k \in 0..rc - 1 : k = closest.region /\ k # rc /\ \E p \in Region(rc) : IsNeighborOf(k, p)
    BY <1>1 DEF IsGrowing
  <1>3. /\ gpc' = "next" /\ rc' = rc - 1
        /\ regions' = [p \in Pixels |-> IF regions[p] = rc THEN k ELSE regions[p]]
        /\ regionsizes' = [regionsizes EXCEPT ![k] = @ + regionsizes[rc]]
        /\ what' = what /\ arcdist' = arcdist /\ outcost' = outcost
        /\ closest' = closest /\ lastfromdist' = lastfromdist
    BY <1>2 DEF MergeRegions, StopGrowing
  <1>4. /\ Region(k)' = Region(k) \cup Region(rc) /\ Region(k) \cap Region(rc) = {}
        /\ \A i \in 0..rc - 1 : i # k => Region(i)' = Region(i)
        /\ Region(k) \in SUBSET Pixels /\ Region(rc) \in SUBSET Pixels
    BY <1>1, <1>2, <1>3 DEF Region, IsNumbering
  <1>5. /\ rc \in 0..NRow * NCol /\ k \in 0..NRow * NCol
        /\ regionsizes' \in [0..NRow * NCol -> Int]
        /\ regionsizes'[k] = regionsizes[k] + regionsizes[rc]
        /\ \A i \in 0..rc - 1 : i # k => regionsizes'[i] = regionsizes[i]
    <2>1. rc \in 0..NRow * NCol /\ k \in 0..NRow * NCol
      BY <1>1, <1>2, Sizes DEF IsGrowing
    <2>. QED BY <1>1, <1>2, <1>3, <2>1 DEF RegionsInv
  <1>6. Settled(k)'
    <2>1. /\ regionsizes[k] = Cardinality(Region(k)) /\ regionsizes[k] >= MinRegionSize
          /\ Region(k) # {} /\ IsWhole(Region(k))
          /\ regionsizes[rc] = Cardinality(Region(rc)) /\ IsWhole(Region(rc))
      BY <1>1, <1>2 DEF IsGrowing, Settled
    <2>2. IsFiniteSet(Region(k)) /\ IsFiniteSet(Region(rc))
      BY <1>4, Grid, FS_Subset
    <2>3. Cardinality(Region(k)) \in Nat /\ Cardinality(Region(rc)) \in Nat
      BY <2>2, FS_CardinalityType
    <2>4. Cardinality(Region(k)') = Cardinality(Region(k)) + Cardinality(Region(rc))
      BY <1>4, <2>2, <2>3, FS_Union, FS_EmptySet
    <2>5. IsWhole(Region(k)')
      <3>1. PICK p \in Region(rc), q \in Region(k) : IsBeside(p, q)
        BY <1>2 DEF IsNeighborOf
      <3>2. IsWhole(Region(rc) \cup Region(k))
        BY <1>4, <2>1, <3>1, WholeTogether
      <3>3. Region(k)' = Region(rc) \cup Region(k)
        BY <1>4
      <3>. QED BY <3>2, <3>3
    <2>6. regionsizes'[k] = Cardinality(Region(k)') /\ regionsizes'[k] >= MinRegionSize
      BY <1>5, <2>1, <2>3, <2>4, Sizes
    <2>7. Region(k)' # {}
      BY <1>4, <2>1
    <2>. QED BY <1>3, <2>5, <2>6, <2>7 DEF Settled
  <1>7. ASSUME NEW i \in 0..rc - 1 PROVE Settled(i)'
    <2>1. CASE i = k
      BY <1>6, <2>1
    <2>2. CASE i # k
      BY <1>1, <1>4, <1>5, <2>2, StaysSettled DEF IsGrowing
    <2>. QED BY <2>1, <2>2
  <1>8. IsDistance' /\ IsNumbering'
    BY <1>1, <1>2, <1>3 DEF RegionsInv, IsDistance, IsNumbering
  <1>9. regions'[<<0, 0>>] >= 0
    BY <1>1, <1>2, <1>3, Sizes DEF IsGrowing, IsNumbering
  <1>10. IsBetween'
    BY <1>1, <1>3, <1>7, <1>9 DEF IsBetween
  <1>. QED BY <1>3, <1>5, <1>8, <1>10 DEF RegionsInv

LEMMA FinishGrowingKeeps ==
  ASSUME RegionsInv, what = "regions", FinishGrowing
  PROVE  RegionsInv'
  <1>. DEFINE rc == regioncounter
  <1>1. IsBetween /\ IsDistance /\ IsNumbering /\ Unnumbered = {}
    BY DEF RegionsInv, FinishGrowing
  <1>2. /\ gpc' = "idle" /\ regions' = regions /\ rc' = rc /\ regionsizes' = regionsizes
        /\ arcdist' = arcdist /\ outcost' = outcost /\ queue' = queue
        /\ closest' = closest /\ lastfromdist' = lastfromdist
    BY DEF FinishGrowing
  <1>3. Unnumbered' = Unnumbered /\ \A i \in 0..rc : Region(i)' = Region(i)
    BY <1>2 DEF Region, Unnumbered
  <1>4. \A i \in 0..rc : Settled(i)'
    BY <1>1, <1>2, <1>3, StaysSettled DEF IsBetween
  <1>5. IsBetween' /\ IsDistance' /\ IsNumbering'
    BY <1>1, <1>2, <1>3, <1>4 DEF IsBetween, IsDistance, IsNumbering
  <1>. QED BY <1>2, <1>5 DEF RegionsInv

LEMMA StartGrowingStarts ==
  ASSUME NEW dist \in [Arcs -> 0..LargeShort], StartGrowing("regions", dist)
  PROVE  RegionsInv'
  <1>1. /\ gpc' = "next" /\ arcdist' = dist
        /\ regions' = [p \in Pixels |-> -1] /\ outcost' = [p \in Pixels |-> NotReached]
        /\ queue' = EmptyQueue(0, 1 + Largest(dist), 0)
        /\ regioncounter' = -1 /\ regionsizes' = [i \in 0..NRow * NCol |-> 0]
        /\ closest' = [dist |-> NotReached, region |-> 0] /\ lastfromdist' = 0
    BY DEF StartGrowing
  <1>2. /\ queue'.lo = 0 /\ queue'.hi = 1 + Largest(dist)
        /\ Largest(dist) \in 0..LargeShort /\ \A a \in Arcs : dist[a] < 1 + Largest(dist)
    BY <1>1, LargestDistance DEF EmptyQueue, Queue
  <1>3. IsDistance' /\ IsNumbering'
    BY <1>1, <1>2, Sizes DEF IsDistance, IsNumbering
  <1>4. IsBetween'
    BY <1>1 DEF IsBetween
  <1>. QED BY <1>1, <1>3, <1>4, Sizes DEF RegionsInv

-----------------------------------------------------------------------------
\* Connected components: the least sets that no arc of a set leads out of.

IsComponent(C, A) ==
    /\ C \in SUBSET Pixels /\ C # {} /\ IsClosedIn(C, Pixels, A)
    /\ \A T \in SUBSET C : T # {} /\ IsClosedIn(T, Pixels, A) => T = C

\* The arc to a neighbour leads back.
LEMMA ArcBack ==
  ASSUME NEW p \in Pixels, NEW i \in 1..4, Neighbor(p, i) \in Pixels
  PROVE  \E j \in 1..4 : /\ Neighbor(Neighbor(p, i), j) = p
                         /\ PixelNeighbors[Neighbor(p, i)][j].arc = PixelNeighbors[p][i].arc
  <1>1. PICK r \in 0..NRow - 1, c \in 0..NCol - 1 : p = <<r, c>>
    BY DEF Pixels
  <1>2. NRow \in Int /\ r \in Int /\ c \in Int
    BY Sizes
  <1>3. CASE i = 1
    <2>1. Neighbor(p, i) = <<r, c + 1>> /\ PixelNeighbors[p][i].arc = <<NRow - 1 + r, c>>
      BY <1>1, <1>3, Neighborhood
    <2>2. c + 1 \in 0..NCol - 1
      BY <2>1 DEF Pixels
    <2>3. PICK d \in 0..NCol - 1 : d = c + 1
      BY <2>2
    <2>4. /\ Neighbor(<<r, d>>, 3) = <<r, d - 1>>
          /\ PixelNeighbors[<<r, d>>][3].arc = <<NRow - 1 + r, d - 1>>
      BY Neighborhood, Zenon
    <2>6. d - 1 = c
      BY <1>2, <2>3
    <2>5. 3 \in 1..4
      OBVIOUS
    <2>. QED BY <1>1, <2>1, <2>3, <2>4, <2>5, <2>6
  <1>4. CASE i = 2
    <2>1. Neighbor(p, i) = <<r + 1, c>> /\ PixelNeighbors[p][i].arc = <<r, c>>
      BY <1>1, <1>4, Neighborhood
    <2>2. r + 1 \in 0..NRow - 1
      BY <2>1 DEF Pixels
    <2>3. PICK d \in 0..NRow - 1 : d = r + 1
      BY <2>2
    <2>4. /\ Neighbor(<<d, c>>, 4) = <<d - 1, c>>
          /\ PixelNeighbors[<<d, c>>][4].arc = <<d - 1, c>>
      BY Neighborhood, Zenon
    <2>6. d - 1 = r
      BY <1>2, <2>3
    <2>5. 4 \in 1..4
      OBVIOUS
    <2>. QED BY <1>1, <2>1, <2>3, <2>4, <2>5, <2>6
  <1>5. CASE i = 3
    <2>1. Neighbor(p, i) = <<r, c - 1>> /\ PixelNeighbors[p][i].arc = <<NRow - 1 + r, c - 1>>
      BY <1>1, <1>5, Neighborhood
    <2>2. c - 1 \in 0..NCol - 1
      BY <2>1 DEF Pixels
    <2>3. /\ Neighbor(<<r, c - 1>>, 1) = <<r, c - 1 + 1>>
          /\ PixelNeighbors[<<r, c - 1>>][1].arc = <<NRow - 1 + r, c - 1>>
      BY <2>2, Neighborhood
    <2>4. c - 1 + 1 = c
      BY <1>2
    <2>5. 1 \in 1..4
      OBVIOUS
    <2>. QED BY <1>1, <2>1, <2>3, <2>4, <2>5
  <1>6. CASE i = 4
    <2>1. Neighbor(p, i) = <<r - 1, c>> /\ PixelNeighbors[p][i].arc = <<r - 1, c>>
      BY <1>1, <1>6, Neighborhood
    <2>2. r - 1 \in 0..NRow - 1
      BY <2>1 DEF Pixels
    <2>3. /\ Neighbor(<<r - 1, c>>, 2) = <<r - 1 + 1, c>>
          /\ PixelNeighbors[<<r - 1, c>>][2].arc = <<r - 1, c>>
      BY <2>2, Neighborhood
    <2>4. r - 1 + 1 = r
      BY <1>2
    <2>5. 2 \in 1..4
      OBVIOUS
    <2>. QED BY <1>1, <2>1, <2>3, <2>4, <2>5
  <1>. QED BY <1>3, <1>4, <1>5, <1>6

\* A set cannot be left exactly if it cannot be entered.
LEMMA ClosedOutside ==
  ASSUME NEW S \in SUBSET Pixels, NEW A, IsClosedIn(S, Pixels, A)
  PROVE  IsClosedIn(Pixels \ S, Pixels, A)
  <1>. SUFFICES ASSUME NEW q \in Pixels \ S, NEW i \in 1..4,
                       Neighbor(q, i) \in Pixels, PixelNeighbors[q][i].arc \in A
                PROVE  Neighbor(q, i) \notin S
    BY DEF IsClosedIn
  <1>1. PICK j \in 1..4 : /\ Neighbor(Neighbor(q, i), j) = q
                          /\ PixelNeighbors[Neighbor(q, i)][j].arc = PixelNeighbors[q][i].arc
    BY ArcBack
  <1>. QED BY <1>1 DEF IsClosedIn

\* Two components are the same or apart.
LEMMA SameComponent ==
  ASSUME NEW A, NEW C, NEW D, IsComponent(C, A), IsComponent(D, A), C \cap D # {}
  PROVE  C = D
  <1>1. IsClosedIn(C \cap D, Pixels, A)
    BY DEF IsComponent, IsClosedIn
  <1>2. C \cap D = C /\ C \cap D = D
    BY <1>1 DEF IsComponent
  <1>. QED BY <1>2

\* They are what is reached from the pixels.
LEMMA ReachedIsComponent ==
  ASSUME NEW A
  PROVE  /\ \A p \in Pixels : IsComponent(Reached(p, Pixels, A), A) /\ p \in Reached(p, Pixels, A)
         /\ \A C : IsComponent(C, A) => \E p \in Pixels : C = Reached(p, Pixels, A)
  <1>1. ASSUME NEW p \in Pixels
        PROVE  IsComponent(Reached(p, Pixels, A), A) /\ p \in Reached(p, Pixels, A)
    <2>. DEFINE R == Reached(p, Pixels, A)
    <2>1. /\ R \in SUBSET Pixels /\ p \in R /\ IsClosedIn(R, Pixels, A)
          /\ \A U \in SUBSET Pixels : p \in U /\ IsClosedIn(U, Pixels, A) => R \subseteq U
      BY ReachedIsLeast
    <2>. HIDE DEF R
    <2>2. ASSUME NEW T \in SUBSET R, T # {}, IsClosedIn(T, Pixels, A) PROVE T = R
      <3>1. CASE p \in T
        BY <2>1, <2>2, <3>1
      <3>2. CASE p \notin T
        <4>1. T \in SUBSET Pixels
          BY <2>1
        <4>2. IsClosedIn(Pixels \ T, Pixels, A)
          BY <2>2, <4>1, ClosedOutside
        <4>3. R \subseteq Pixels \ T
          BY <2>1, <3>2, <4>2
        <4>. QED BY <2>2, <4>3
      <3>. QED BY <3>1, <3>2
    <2>3. IsComponent(R, A)
      BY <2>1, <2>2 DEF IsComponent
    <2>. QED BY <2>1, <2>3 DEF R
  <1>2. ASSUME NEW C, IsComponent(C, A) PROVE \E p \in Pixels : C = Reached(p, Pixels, A)
    <2>1. PICK p \in Pixels : p \in C
      BY <1>2 DEF IsComponent
    <2>2. C = Reached(p, Pixels, A)
      BY <1>1, <1>2, <2>1, SameComponent
    <2>. QED BY <2>2
  <1>. QED BY <1>1, <1>2

-----------------------------------------------------------------------------
\* Ranks.

\* The raster order tells two pixels apart.
LEMMA RasterApart ==
  ASSUME NEW p \in Pixels, NEW q \in Pixels, Raster(p) = Raster(q)
  PROVE  p = q
  <1>1. PICK r \in 0..NRow - 1, c \in 0..NCol - 1 : p = <<r, c>>
    BY DEF Pixels
  <1>2. PICK s \in 0..NRow - 1, d \in 0..NCol - 1 : q = <<s, d>>
    BY DEF Pixels
  <1>3. NCol \in Nat /\ r \in Int /\ s \in Int /\ c \in 0..NCol - 1 /\ d \in 0..NCol - 1
    BY Sizes
  <1>4. r * NCol + c = s * NCol + d
    BY <1>1, <1>2 DEF Raster
  <1>5. (r - s) * NCol = d - c
    BY <1>3, <1>4
  <1>6. ASSUME NEW k \in Nat \ {0} PROVE k * NCol >= NCol
    BY <1>3
  <1>7. ~ (r > s)
    <2>. SUFFICES ASSUME r > s PROVE FALSE
      OBVIOUS
    <2>1. (r - s) * NCol >= NCol
      BY <1>3, <1>6
    <2>. QED BY <1>3, <1>5, <2>1
  <1>8. ~ (s > r)
    <2>. SUFFICES ASSUME s > r PROVE FALSE
      OBVIOUS
    <2>1. (s - r) * NCol >= NCol
      BY <1>3, <1>6
    <2>2. (s - r) * NCol = c - d
      BY <1>3, <1>4
    <2>. QED BY <1>3, <2>1, <2>2
  <1>9. r = s /\ c = d
    BY <1>3, <1>4, <1>7, <1>8
  <1>. QED BY <1>1, <1>2, <1>9

\* How many elements of a finite set are below one.
Rank(E, i) == Cardinality({j \in E : j < i})

LEMMA RankRises ==
  ASSUME NEW E \in SUBSET Int, IsFiniteSet(E), NEW i \in E, NEW j \in E, i < j
  PROVE  Rank(E, i) \in Nat /\ Rank(E, j) \in Nat /\ Rank(E, i) < Rank(E, j)
  <1>. DEFINE I == {k \in E : k < i}
              J == {k \in E : k < j}
  <1>1. I \subseteq J /\ i \in J /\ i \notin I
    <2>1. i \in Int /\ j \in Int /\ \A k \in E : k \in Int
      OBVIOUS
    <2>2. ~ (i < i) /\ \A k \in E : k < i => k < j
      BY <2>1
    <2>. QED BY <2>2, Zenon
  <1>2. IsFiniteSet(I) /\ IsFiniteSet(J)
    BY FS_Subset
  <1>. HIDE DEF I, J
  <1>3. Cardinality(I) <= Cardinality(J) /\ Cardinality(I) # Cardinality(J)
    BY <1>1, <1>2, FS_Subset
  <1>4. Cardinality(I) \in Nat /\ Cardinality(J) \in Nat
    BY <1>2, FS_CardinalityType
  <1>. QED BY <1>3, <1>4 DEF Rank, I, J

\* The ranks are the numbers below the size of the set.
LEMMA RanksCount ==
  ASSUME NEW E \in SUBSET Int, IsFiniteSet(E), NEW d \in 0..Cardinality(E)
  PROVE  Cardinality({i \in E : Rank(E, i) >= d}) = Cardinality(E) - d
  <1>. DEFINE n == Cardinality(E)
              f == [i \in E |-> Rank(E, i)]
              U == {i \in E : Rank(E, i) >= d}
              g == [i \in U |-> Rank(E, i)]
  <1>1. n \in Nat
    BY FS_CardinalityType
  <1>2. \A i \in E : Rank(E, i) \in 0..n - 1
    <2>. SUFFICES ASSUME NEW i \in E PROVE Rank(E, i) \in 0..n - 1
      OBVIOUS
    <2>. DEFINE I == {k \in E : k < i}
    <2>1. I \subseteq E /\ I # E
      BY DEF I
    <2>. HIDE DEF I
    <2>2. IsFiniteSet(I) /\ Cardinality(I) <= n /\ Cardinality(I) # n
      BY <2>1, FS_Subset
    <2>3. Cardinality(I) \in Nat
      BY <2>2, FS_CardinalityType
    <2>. QED BY <1>1, <2>2, <2>3 DEF Rank, I
  <1>3. \A i, j \in E : Rank(E, i) = Rank(E, j) => i = j
    <2>. SUFFICES ASSUME NEW i \in E, NEW j \in E, i # j PROVE Rank(E, i) # Rank(E, j)
      OBVIOUS
    <2>1. i < j \/ j < i
      OBVIOUS
    <2>. QED BY <2>1, RankRises
  <1>4. IsFiniteSet(0..n - 1) /\ Cardinality(0..n - 1) = n
    <2>1. 0 \in Int /\ n - 1 \in Int
      BY <1>1
    <2>. HIDE DEF n
    <2>. QED BY <1>1, <2>1, FS_Interval
  <1>. HIDE DEF n
  <1>5. f \in Injection(E, 0..n - 1)
    BY <1>2, <1>3 DEF Injection, IsInjective
  <1>6. f \in Surjection(E, 0..n - 1)
    <2>1. Cardinality(E) = Cardinality(0..n - 1)
      BY <1>4 DEF n
    <2>. HIDE DEF f
    <2>. QED BY <1>4, <1>5, <2>1, FS_Injection
  <1>7. \A k \in 0..n - 1 : \E i \in E : Rank(E, i) = k
    BY <1>6 DEF Surjection
  <1>8. g \in Bijection(U, d..n - 1)
    <2>1. g \in [U -> d..n - 1]
      <3>1. d \in Nat
        BY <1>1 DEF n
      <3>2. \A i \in U : Rank(E, i) \in d..n - 1
        BY <1>1, <1>2, <3>1
      <3>. QED BY <3>2, Zenon
    <2>2. \A k \in d..n - 1 : \E i \in U : g[i] = k
      <3>. SUFFICES ASSUME NEW k \in d..n - 1 PROVE \E i \in U : g[i] = k
        OBVIOUS
      <3>1. d \in Nat
        BY <1>1 DEF n
      <3>2. k \in 0..n - 1 /\ k >= d
        BY <3>1
      <3>3. PICK i \in E : Rank(E, i) = k
        BY <1>7, <3>2
      <3>. QED BY <3>2, <3>3
    <2>3. \A i, j \in U : g[i] = g[j] => i = j
      BY <1>3
    <2>. HIDE DEF g, U
    <2>. QED BY <2>1, <2>2, <2>3 DEF Bijection, Injection, IsInjective, Surjection
  <1>9. IsFiniteSet(U)
    BY FS_Subset
  <1>10. Cardinality(d..n - 1) = Cardinality(U)
    <2>. HIDE DEF g, U
    <2>. QED BY <1>8, <1>9, FS_Bijection DEF ExistsBijection
  <1>11. Cardinality(d..n - 1) = n - d
    <2>1. d \in Int /\ n - 1 \in Int /\ d <= n
      BY <1>1 DEF n
    <2>2. Cardinality(d..n - 1) = IF d > n - 1 THEN 0 ELSE n - 1 - d + 1
      BY <2>1, FS_Interval
    <2>. QED BY <1>1, <2>1, <2>2
  <1>. QED BY <1>10, <1>11 DEF n

-----------------------------------------------------------------------------
\* The components that are kept, and their new numbers.

\* The pixels of a number, in any numbering.
Part(f, i) == {p \in Pixels : f[p] = i}

\* The numbers of f that are in K, replaced by their ranks among them.
Ranked(f, K) ==
    [p \in Pixels |-> IF f[p] \in K THEN Cardinality({i \in K : i <= f[p]}) ELSE 0]

\* The parts numbered by g are those of K, in the order of their first pixels.
AreRanked(g, f, K) ==
    LET kept == {Part(g, g[p]) : p \in {q \in Pixels : g[q] # 0}}
    IN  /\ kept = {Part(f, i) : i \in K}
        /\ Cardinality(kept) = Cardinality(K)
        /\ \A p \in Pixels : g[p] # 0 =>
             g[p] = Cardinality({c \in kept : Raster(FirstOf(c)) <= Raster(FirstOf(Part(g, g[p])))})

\* If the parts of a numbering are in the order of their first pixels.
InOrder(f, n) ==
    \A i, j \in 1..n : i < j => Raster(FirstOf(Part(f, i))) < Raster(FirstOf(Part(f, j)))

\* Then they still are when only some are kept and numbered again.
LEMMA KeptAreRanked ==
  ASSUME NEW n \in Nat, NEW f \in [Pixels -> 0..n], NEW K \in SUBSET (1..n),
         \A i \in 1..n : Part(f, i) # {}, InOrder(f, n)
  PROVE  AreRanked(Ranked(f, K), f, K)
  <1>. DEFINE g == Ranked(f, K)
  <1>. DEFINE N(i) == Cardinality({j \in K : j <= i})
              kept == {Part(g, g[p]) : p \in {q \in Pixels : g[q] # 0}}
              first(i) == Raster(FirstOf(Part(f, i)))
  <1>1. K \subseteq Int /\ IsFiniteSet(K)
    <2>1. 1 \in Int /\ n \in Int
      OBVIOUS
    <2>2. IsFiniteSet(1..n)
      BY <2>1, FS_Interval
    <2>3. IsFiniteSet(K)
      BY <2>2, FS_Subset
    <2>. QED BY <2>3
  <1>2. \A i : IsFiniteSet({j \in K : j <= i}) /\ N(i) \in Nat
    <2>. TAKE i
    <2>1. IsFiniteSet({j \in K : j <= i})
      BY <1>1, FS_Subset
    <2>. QED BY <2>1, FS_CardinalityType
  <1>3. \A i \in K : N(i) # 0
    <2>. TAKE i \in K
    <2>1. i \in {j \in K : j <= i}
      BY <1>1
    <2>. QED BY <1>2, <2>1, FS_EmptySet
  <1>4. \A i, j \in K : i < j => N(i) < N(j)
    <2>. SUFFICES ASSUME NEW i \in K, NEW j \in K, i < j PROVE N(i) < N(j)
      OBVIOUS
    <2>. DEFINE I == {k \in K : k <= i}
                J == {k \in K : k <= j}
    <2>1. I \subseteq J /\ j \in J /\ j \notin I
      <3>1. i \in Int /\ j \in Int /\ \A k \in K : k \in Int
        BY <1>1
      <3>2. ~ (j <= i) /\ j <= j /\ \A k \in K : k <= i => k <= j
        BY <3>1
      <3>. QED BY <3>2, Zenon
    <2>2. IsFiniteSet(J) /\ N(i) = Cardinality(I) /\ N(j) = Cardinality(J) /\ N(i) \in Nat /\ N(j) \in Nat
      BY <1>2
    <2>. HIDE DEF I, J, N
    <2>3. Cardinality(I) <= Cardinality(J) /\ Cardinality(I) # Cardinality(J)
      BY <2>1, <2>2, FS_Subset
    <2>. QED BY <2>2, <2>3
  <1>5. \A i, j \in K : N(i) = N(j) => i = j
    <2>. SUFFICES ASSUME NEW i \in K, NEW j \in K, i # j PROVE N(i) # N(j)
      OBVIOUS
    <2>1. i < j \/ j < i
      BY <1>1
    <2>2. N(i) \in Nat /\ N(j) \in Nat
      BY <1>2
    <2>3. N(i) < N(j) \/ N(j) < N(i)
      BY <1>4, <2>1
    <2>. HIDE DEF N
    <2>. QED BY <2>2, <2>3
  <1>6. \A p \in Pixels : /\ f[p] \in K => g[p] = N(f[p])
                          /\ g[p] # 0 => f[p] \in K
    BY DEF Ranked
  <1>. HIDE DEF N, g
  <1>7. \A i \in K : Part(g, N(i)) = Part(f, i)
    BY <1>3, <1>5, <1>6 DEF Part
  <1>8. \A p \in Pixels : g[p] # 0 => Part(g, g[p]) = Part(f, f[p]) /\ f[p] \in K
    BY <1>6, <1>7
  <1>9. kept = {Part(f, i) : i \in K}
    <2>1. ASSUME NEW c \in kept PROVE c \in {Part(f, i) : i \in K}
      <3>1. PICK p \in Pixels : g[p] # 0 /\ c = Part(g, g[p])
        OBVIOUS
      <3>. QED BY <1>8, <3>1
    <2>2. ASSUME NEW i \in K PROVE Part(f, i) \in kept
      <3>1. PICK p \in Pixels : f[p] = i
        BY DEF Part
      <3>2. g[p] # 0 /\ Part(g, g[p]) = Part(f, i)
        BY <1>3, <1>6, <1>8, <3>1
      <3>. QED BY <3>2
    <2>. HIDE DEF kept
    <2>. QED BY <2>1, <2>2
  <1>10. \A i, j \in K : Part(f, i) = Part(f, j) => i = j
    <2>. SUFFICES ASSUME NEW i \in K, NEW j \in K, Part(f, i) = Part(f, j) PROVE i = j
      OBVIOUS
    <2>1. PICK p \in Pixels : p \in Part(f, i)
      BY DEF Part
    <2>. QED BY <2>1 DEF Part
  <1>11. ASSUME NEW L \in SUBSET K
         PROVE  Cardinality({Part(f, i) : i \in L}) = Cardinality(L)
    <2>. DEFINE b == [i \in L |-> Part(f, i)]
                P == {Part(f, i) : i \in L}
    <2>1. b \in [L -> P] /\ \A c \in P : \E i \in L : b[i] = c
      OBVIOUS
    <2>2. \A i, j \in L : b[i] = b[j] => i = j
      BY <1>10
    <2>3. IsFiniteSet(L)
      BY <1>1, FS_Subset
    <2>. HIDE DEF b, P
    <2>4. b \in Bijection(L, P)
      BY <2>1, <2>2 DEF Bijection, Injection, IsInjective, Surjection
    <2>5. Cardinality(P) = Cardinality(L)
      BY <2>3, <2>4, FS_Bijection DEF ExistsBijection
    <2>. QED BY <2>5 DEF P
  <1>12. Cardinality(kept) = Cardinality(K)
    BY <1>9, <1>11
  <1>. HIDE DEF kept
  <1>13. \A i \in K : first(i) \in Int
    <2>. TAKE i \in K
    <2>1. Part(f, i) \subseteq Pixels /\ Part(f, i) # {}
      BY DEF Part
    <2>2. FirstOf(Part(f, i)) \in Part(f, i)
      BY <2>1, FirstIsFirst
    <2>. QED BY <2>1, <2>2, RasterNatural
  <1>14. ASSUME NEW p \in Pixels, g[p] # 0
         PROVE  g[p] = Cardinality({c \in kept : Raster(FirstOf(c)) <= Raster(FirstOf(Part(g, g[p])))})
    <2>. DEFINE i == f[p]
                L == {j \in K : j <= i}
    <2>1. i \in K /\ Part(g, g[p]) = Part(f, i) /\ g[p] = N(i)
      BY <1>6, <1>8, <1>14
    <2>2. \A j \in K : first(j) <= first(i) <=> j <= i
      <3>. TAKE j \in K
      <3>1. first(i) \in Int /\ first(j) \in Int /\ i \in Int /\ j \in Int
        BY <1>1, <1>13, <2>1
      <3>2. (j < i => first(j) < first(i)) /\ (i < j => first(i) < first(j)) /\ (i = j => first(i) = first(j))
        BY <2>1 DEF InOrder
      <3>. HIDE DEF first, i
      <3>. QED BY <3>1, <3>2
    <2>3. {c \in kept : Raster(FirstOf(c)) <= Raster(FirstOf(Part(g, g[p])))} = {Part(f, j) : j \in L}
      BY <1>9, <2>1, <2>2
    <2>4. L \in SUBSET K
      OBVIOUS
    <2>5. Cardinality({Part(f, j) : j \in L}) = Cardinality(L)
      <3>. HIDE DEF L
      <3>. QED BY <1>11, <2>4
    <2>. QED BY <2>1, <2>3, <2>5 DEF N
  <1>. QED BY <1>9, <1>12, <1>14 DEF AreRanked, kept, g

\* Too many components: the least size that is kept exists.
LEMMA LeastKeptExists ==
  ASSUME regioncounter \in Nat, regioncounter > MaxNComps,
         \A i \in 1..regioncounter : regionsizes[i] \in Nat
  PROVE  /\ LeastKept \in Nat
         /\ AsBig(LeastKept + 1) < MaxNComps /\ MaxNComps <= AsBig(LeastKept)
  <1>. DEFINE rc == regioncounter
              big(s) == {i \in 1..rc : regionsizes[i] >= s}
              few == {s \in Nat : AsBig(s) < MaxNComps}
  <1>1. MaxNComps \in Nat \ {0}
    BY GrowAssumption
  <1>2. IsFiniteSet(1..rc) /\ Cardinality(1..rc) = rc
    <2>1. 1 \in Int /\ rc \in Int
      OBVIOUS
    <2>2. IsFiniteSet(1..rc) /\ Cardinality(1..rc) = IF 1 > rc THEN 0 ELSE rc - 1 + 1
      BY <2>1, FS_Interval
    <2>. QED BY <1>1, <2>2
  <1>3. \A s : AsBig(s) = Cardinality(big(s)) /\ IsFiniteSet(big(s)) /\ AsBig(s) \in Nat
    <2>. TAKE s
    <2>1. big(s) \in SUBSET (1..rc)
      OBVIOUS
    <2>. HIDE DEF big
    <2>2. IsFiniteSet(big(s))
      BY <1>2, <2>1, FS_Subset
    <2>. QED BY <2>2, FS_CardinalityType DEF AsBig, big
  <1>4. AsBig(0) = rc
    <2>1. big(0) = 1..rc
      OBVIOUS
    <2>. HIDE DEF big
    <2>. QED BY <1>2, <1>3, <2>1
  <1>5. few # {}
    <2>. DEFINE over == {-regionsizes[i] : i \in 1..rc}
    <2>1. IsFiniteSet(over) /\ over \subseteq Int /\ over # {}
      <3>. DEFINE h == [i \in 1..rc |-> -regionsizes[i]]
      <3>1. h \in Surjection(1..rc, over)
        BY DEF Surjection
      <3>2. over \subseteq Int
        OBVIOUS
      <3>3. 1 \in 1..rc
        BY <1>1
      <3>4. over # {}
        BY <3>3
      <3>. HIDE DEF h, over
      <3>. QED BY <1>2, <3>1, <3>2, <3>4, FS_Surjection
    <2>2. \E x \in over : \A y \in over : x <= y
      <3>. HIDE DEF over
      <3>. QED BY <2>1, LeastElement
    <2>3. PICK k \in 1..rc : \A i \in 1..rc : -regionsizes[k] <= -regionsizes[i]
      BY <2>2
    <2>4. big(regionsizes[k] + 1) = {}
      BY <2>3
    <2>. HIDE DEF big
    <2>5. AsBig(regionsizes[k] + 1) = 0
      BY <1>3, <2>4, FS_EmptySet
    <2>6. regionsizes[k] + 1 \in few
      BY <1>1, <2>5
    <2>. QED BY <2>6
  <1>6. PICK t \in few : \A s \in few : t <= s
    <2>1. few \subseteq Nat
      OBVIOUS
    <2>. HIDE DEF few
    <2>. QED BY <1>5, <2>1, LeastNatural
  <1>7. t \in Nat /\ AsBig(t) < MaxNComps /\ t # 0
    BY <1>1, <1>4
  <1>8. MaxNComps <= AsBig(t - 1)
    <2>1. t - 1 \in Nat /\ t - 1 \notin few
      BY <1>6, <1>7
    <2>. HIDE DEF big
    <2>. QED BY <1>1, <1>3, <2>1
  <1>9. \E i \in 1..rc : regionsizes[i] = t - 1
    <2>. SUFFICES ASSUME \A i \in 1..rc : regionsizes[i] # t - 1 PROVE FALSE
      OBVIOUS
    <2>1. big(t) = big(t - 1)
      BY <1>7
    <2>2. AsBig(t) = AsBig(t - 1)
      BY <2>1 DEF AsBig
    <2>3. AsBig(t) \in Nat
      BY <1>3
    <2>. QED BY <1>1, <1>7, <1>8, <2>2, <2>3
  <1>10. t - 1 + 1 = t
    BY <1>7
  <1>11. \E s \in {regionsizes[i] : i \in 1..rc} : AsBig(s + 1) < MaxNComps /\ MaxNComps <= AsBig(s)
    BY <1>7, <1>8, <1>9, <1>10
  <1>12. LeastKept \in {regionsizes[i] : i \in 1..rc} /\ AsBig(LeastKept + 1) < MaxNComps /\ MaxNComps <= AsBig(LeastKept)
    BY <1>11 DEF LeastKept
  <1>. QED BY <1>12

\* As many are kept as are wanted, and none that is smaller than one that is not.
LEMMA EnoughAreKept ==
  ASSUME regioncounter \in Nat, regioncounter > MaxNComps,
         \A i \in 1..regioncounter : regionsizes[i] \in Nat
  PROVE  LET kept == {i \in 1..regioncounter : IsKept(i, LeastKept)}
         IN  /\ Cardinality(kept) = MaxNComps
             /\ \A i \in kept, j \in 1..regioncounter \ kept : regionsizes[j] <= regionsizes[i]
  <1>. DEFINE rc == regioncounter
              least == LeastKept
              kept == {i \in 1..rc : IsKept(i, least)}
              B == {i \in 1..rc : regionsizes[i] > least}
              E == {i \in 1..rc : regionsizes[i] = least}
              d == AsBig(least) - MaxNComps
              F == {i \in E : Rank(E, i) >= d}
  <1>1. least \in Nat /\ AsBig(least + 1) < MaxNComps /\ MaxNComps <= AsBig(least) /\ MaxNComps \in Nat
    BY LeastKeptExists, GrowAssumption
  <1>. HIDE DEF least
  <1>2. IsFiniteSet(B) /\ IsFiniteSet(E) /\ IsFiniteSet(F) /\ E \in SUBSET Int
    <2>1. 1 \in Int /\ rc \in Int
      OBVIOUS
    <2>2. IsFiniteSet(1..rc)
      BY <2>1, FS_Interval
    <2>3. B \in SUBSET (1..rc) /\ E \in SUBSET (1..rc) /\ F \in SUBSET E /\ E \in SUBSET Int
      OBVIOUS
    <2>. HIDE DEF B, E, F
    <2>4. IsFiniteSet(B) /\ IsFiniteSet(E)
      BY <2>2, <2>3, FS_Subset
    <2>. QED BY <2>3, <2>4, FS_Subset
  <1>3. B \cap E = {} /\ B \cap F = {}
    BY <1>1
  <1>4. AsBig(least + 1) = Cardinality(B)
    <2>1. {i \in 1..rc : regionsizes[i] >= least + 1} = B
      BY <1>1
    <2>. QED BY <2>1 DEF AsBig
  <1>5. AsBig(least) = Cardinality(B \cup E)
    <2>1. {i \in 1..rc : regionsizes[i] >= least} = B \cup E
      BY <1>1
    <2>. QED BY <2>1 DEF AsBig
  <1>6. kept = B \cup F
    <2>1. ASSUME NEW i \in E PROVE {j \in 1..i - 1 : regionsizes[j] = least} = {j \in E : j < i}
      OBVIOUS
    <2>2. ASSUME NEW i \in E PROVE i \in F <=> IsKept(i, least)
      <3>1. Rank(E, i) = Cardinality({j \in 1..i - 1 : regionsizes[j] = least})
        BY <2>1 DEF Rank
      <3>2. regionsizes[i] = least /\ ~ (regionsizes[i] > least)
        BY <1>1
      <3>. QED BY <3>1, <3>2 DEF IsKept
    <2>3. ASSUME NEW i \in 1..rc PROVE i \in kept <=> i \in B \cup F
      <3>1. CASE i \in B
        BY <3>1 DEF IsKept
      <3>2. CASE i \in E
        BY <1>3, <2>2, <3>2
      <3>3. CASE i \notin B /\ i \notin E
        BY <3>3 DEF IsKept
      <3>. QED BY <3>1, <3>2, <3>3
    <2>. QED BY <2>3
  <1>. HIDE DEF B, F, kept
  <1>7. Cardinality(B) \in Nat /\ Cardinality(E) \in Nat /\ Cardinality(F) \in Nat
    BY <1>2, FS_CardinalityType
  <1>8. /\ Cardinality(B \cup E) = Cardinality(B) + Cardinality(E)
        /\ Cardinality(B \cup F) = Cardinality(B) + Cardinality(F)
    <2>. HIDE DEF E
    <2>1. /\ Cardinality(B \cup E) = Cardinality(B) + Cardinality(E) - Cardinality(B \cap E)
          /\ Cardinality(B \cup F) = Cardinality(B) + Cardinality(F) - Cardinality(B \cap F)
      BY <1>2, FS_Union
    <2>2. Cardinality(B \cap E) = 0 /\ Cardinality(B \cap F) = 0
      BY <1>3, FS_EmptySet
    <2>. QED BY <1>7, <2>1, <2>2
  <1>9. d \in 0..Cardinality(E)
    BY <1>1, <1>4, <1>5, <1>7, <1>8
  <1>10. Cardinality(F) = Cardinality(E) - d
    <2>. HIDE DEF E, d
    <2>. QED BY <1>2, <1>9, RanksCount DEF F
  <1>11. Cardinality(kept) = MaxNComps
    BY <1>1, <1>4, <1>5, <1>6, <1>7, <1>8, <1>10
  <1>12. ASSUME NEW i \in kept, NEW j \in 1..rc \ kept PROVE regionsizes[j] <= regionsizes[i]
    <2>1. i \in 1..rc /\ IsKept(i, least) /\ ~ IsKept(j, least)
      BY DEF kept
    <2>2. regionsizes[i] >= least /\ ~ (regionsizes[j] > least)
      BY <1>1, <2>1 DEF IsKept
    <2>. QED BY <1>1, <2>1, <2>2
  <1>. QED BY <1>11, <1>12 DEF kept, least

-----------------------------------------------------------------------------
\* The queue of a component: one list.

IsOneList(q) ==
    /\ q = Queue(0, 0, [i \in 0..0 |-> q.at[0]], 0)
    /\ q.at[0] \in Seq(Pixels)
    /\ \A j, k \in DOMAIN q.at[0] : q.at[0][j] = q.at[0][k] => j = k

LEMMA OneList ==
  ASSUME NEW q, IsOneList(q)
  PROVE  /\ q.lo = 0 /\ q.hi = 0 /\ q.curr = 0 /\ q.at = [i \in {0} |-> q.at[0]]
         /\ 0..0 = {0} /\ NextFilled(q) = 0 /\ (IsFilled(q) <=> q.at[0] # << >>)
         /\ Waiting(q) = RangeOf(q.at[0])
  <1>1. 0..0 = {0}
    OBVIOUS
  <1>2. q.lo = 0 /\ q.hi = 0 /\ q.curr = 0 /\ q.at = [i \in {0} |-> q.at[0]]
    BY <1>1 DEF IsOneList, Queue
  <1>3. IsFilled(q) <=> q.at[0] # << >>
    BY <1>1, <1>2 DEF IsFilled
  <1>4. NextFilled(q) = 0
    <2>. DEFINE filled == {i \in q.curr..q.hi : q.at[i] # << >>}
    <2>1. filled = {} \/ filled = {0}
      BY <1>1, <1>2
    <2>2. NextFilled(q) = IF filled = {} THEN q.hi ELSE CHOOSE i \in filled : \A j \in filled : i <= j
      BY DEF NextFilled
    <2>3. CASE filled = {}
      BY <1>2, <2>2, <2>3
    <2>4. CASE filled = {0}
      <3>1. \A j \in filled : 0 <= j
        BY <2>4
      <3>. HIDE DEF filled
      <3>. QED BY <2>2, <2>4, <3>1
    <2>. QED BY <2>1, <2>3, <2>4
  <1>5. Waiting(q) = RangeOf(q.at[0])
    <2>1. \A p : IsQueued(q, p) <=> p \in RangeOf(q.at[0])
      BY <1>1, <1>2 DEF IsQueued
    <2>2. RangeOf(q.at[0]) \subseteq Pixels
      <3>. DEFINE list == q.at[0]
      <3>1. list \in Seq(Pixels)
        BY DEF IsOneList
      <3>. HIDE DEF list
      <3>2. \A i \in DOMAIN list : list[i] \in Pixels
        BY <3>1
      <3>3. RangeOf(list) \subseteq Pixels
        BY <3>2 DEF RangeOf
      <3>. QED BY <3>3 DEF list
    <2>. QED BY <2>1, <2>2 DEF Waiting
  <1>. QED BY <1>1, <1>2, <1>3, <1>4, <1>5

\* A queue that is made with one list.
LEMMA MadeOfList ==
  ASSUME NEW list \in Seq(Pixels), \A j, k \in DOMAIN list : list[j] = list[k] => j = k
  PROVE  LET q == Queue(0, 0, [i \in 0..0 |-> list], 0)
         IN  IsOneList(q) /\ Waiting(q) = RangeOf(list)
  <1>. DEFINE q == Queue(0, 0, [i \in 0..0 |-> list], 0)
  <1>1. q.at[0] = list /\ q.at = [i \in 0..0 |-> list]
    BY DEF Queue
  <1>2. q = Queue(0, 0, [i \in 0..0 |-> q.at[0]], 0)
    BY <1>1
  <1>. HIDE DEF q
  <1>3. IsOneList(q)
    BY <1>1, <1>2 DEF IsOneList
  <1>. QED BY <1>1, <1>3, OneList DEF q

LEMMA ListTaken ==
  ASSUME NEW q, IsOneList(q), IsFilled(q)
  PROVE  /\ ClosestNode(q) \in Waiting(q)
         /\ IsOneList(AfterClosest(q))
         /\ Waiting(AfterClosest(q)) = Waiting(q) \ {ClosestNode(q)}
  <1>. DEFINE list == q.at[0]
              n == ClosestNode(q)
              rest == Without(list, n)
  <1>1. /\ q.lo = 0 /\ q.hi = 0 /\ q.curr = 0 /\ q.at = [i \in {0} |-> list] /\ 0..0 = {0}
        /\ NextFilled(q) = 0 /\ list # << >> /\ Waiting(q) = RangeOf(list)
    BY OneList
  <1>2. list \in Seq(Pixels) /\ \A j, k \in DOMAIN list : list[j] = list[k] => j = k
    BY DEF IsOneList
  <1>3. n = Head(list)
    BY <1>1 DEF ClosestNode
  <1>. HIDE DEF list
  <1>4. 1 \in DOMAIN list /\ n = list[1]
    BY <1>1, <1>2, <1>3
  <1>. HIDE DEF n
  <1>5. /\ rest \in Seq(Pixels)
        /\ \A j \in DOMAIN rest : rest[j] # n /\ \E i \in DOMAIN list : rest[j] = list[i]
        /\ \A i, j \in DOMAIN rest : rest[i] = rest[j] => i = j
        /\ \A i \in DOMAIN list : list[i] # n => \E j \in DOMAIN rest : rest[j] = list[i]
    BY <1>2, <1>4, WithoutOne
  <1>. HIDE DEF rest
  <1>6. RangeOf(rest) = RangeOf(list) \ {n}
    BY <1>5 DEF RangeOf
  <1>7. AfterClosest(q) = Queue(0, 0, [i \in 0..0 |-> rest], 0)
    <2>1. [q.at EXCEPT ![0] = rest] = [i \in 0..0 |-> rest]
      BY <1>1
    <2>2. BucketRemove(q, n, 0) = Queue(0, 0, [i \in 0..0 |-> rest], 0)
      BY <1>1, <2>1 DEF BucketRemove, WithList, rest, list
    <2>3. AfterClosest(q) = StartingAt(BucketRemove(q, n, 0), 0)
      BY <1>1 DEF AfterClosest, AfterMin, n
    <2>. QED BY <2>2, <2>3 DEF StartingAt, Queue
  <1>8. IsOneList(AfterClosest(q)) /\ Waiting(AfterClosest(q)) = RangeOf(rest)
    BY <1>5, <1>7, MadeOfList
  <1>9. n \in RangeOf(list)
    BY <1>4 DEF RangeOf
  <1>. QED BY <1>1, <1>6, <1>8, <1>9 DEF n

LEMMA ListEntered ==
  ASSUME NEW q, IsOneList(q), NEW n \in Pixels, n \notin Waiting(q)
  PROVE  /\ IsOneList(BucketInsert(q, n, 0))
         /\ Waiting(BucketInsert(q, n, 0)) = Waiting(q) \cup {n}
  <1>. DEFINE list == q.at[0]
              more == <<n>> \o list
  <1>1. /\ q.lo = 0 /\ q.hi = 0 /\ q.curr = 0 /\ q.at = [i \in {0} |-> list] /\ 0..0 = {0}
        /\ Waiting(q) = RangeOf(list)
    BY OneList
  <1>2. list \in Seq(Pixels) /\ \A j, k \in DOMAIN list : list[j] = list[k] => j = k
    BY DEF IsOneList
  <1>. HIDE DEF list
  <1>3. /\ more \in Seq(Pixels) /\ DOMAIN more = 1..Len(list) + 1 /\ more[1] = n
        /\ \A j \in 1..Len(list) + 1 : j # 1 => j - 1 \in 1..Len(list) /\ more[j] = list[j - 1]
    BY <1>2, WithOneMore
  <1>4. DOMAIN list = 1..Len(list) /\ Len(list) \in Nat
    BY <1>2
  <1>. HIDE DEF more
  <1>5. RangeOf(more) = RangeOf(list) \cup {n}
    <2>1. ASSUME NEW x \in RangeOf(list) PROVE x \in RangeOf(more)
      <3>1. PICK i \in 1..Len(list) : x = list[i]
        BY <1>4 DEF RangeOf
      <3>2. i + 1 \in 1..Len(list) + 1 /\ i + 1 # 1 /\ i + 1 - 1 = i
        BY <1>4
      <3>3. more[i + 1] = list[i]
        BY <1>3, <3>2
      <3>. QED BY <1>3, <3>1, <3>2, <3>3 DEF RangeOf
    <2>2. n \in RangeOf(more)
      <3>1. 1 \in DOMAIN more
        BY <1>3, <1>4
      <3>. QED BY <1>3, <3>1 DEF RangeOf
    <2>3. ASSUME NEW x \in RangeOf(more) PROVE x \in RangeOf(list) \cup {n}
      <3>1. PICK i \in 1..Len(list) + 1 : x = more[i]
        BY <1>3 DEF RangeOf
      <3>2. CASE i = 1
        BY <1>3, <3>1, <3>2
      <3>3. CASE i # 1
        BY <1>3, <1>4, <3>1, <3>3 DEF RangeOf
      <3>. QED BY <3>2, <3>3
    <2>. QED BY <2>1, <2>2, <2>3
  <1>6. ASSUME NEW j \in DOMAIN more, NEW k \in DOMAIN more, more[j] = more[k] PROVE j = k
    <2>1. \A i \in 1..Len(list) : list[i] # n
      BY <1>1, <1>4 DEF RangeOf
    <2>2. CASE j = 1
      BY <1>3, <1>6, <2>1, <2>2
    <2>3. CASE k = 1
      BY <1>3, <1>6, <2>1, <2>3
    <2>4. CASE j # 1 /\ k # 1
      <3>1. j - 1 \in DOMAIN list /\ k - 1 \in DOMAIN list /\ list[j - 1] = list[k - 1]
        BY <1>3, <1>4, <1>6, <2>4
      <3>2. j - 1 = k - 1
        BY <1>2, <3>1
      <3>3. j \in Int /\ k \in Int
        BY <1>3
      <3>. QED BY <3>2, <3>3
    <2>. QED BY <2>2, <2>3, <2>4
  <1>7. BucketInsert(q, n, 0) = Queue(0, 0, [i \in 0..0 |-> more], 0)
    <2>1. [q.at EXCEPT ![0] = more] = [i \in 0..0 |-> more]
      BY <1>1
    <2>. QED BY <1>1, <2>1 DEF BucketInsert, WithList, more, list
  <1>. QED BY <1>1, <1>3, <1>5, <1>6, <1>7, MadeOfList

-----------------------------------------------------------------------------
\* What a component looks at around the pixel it takes.

\* The arcs a component grows over.
Sure == {a \in Arcs : arcdist[a] = 0}

IsSureStep(p, i) == Neighbor(p, i) \in Pixels /\ PixelNeighbors[p][i].arc \in Sure

\* Outcost, queue and closest in the course of the round; only the queue changes.
IsListRound(w, from) ==
    /\ w = [outcost |-> w.outcost, queue |-> w.queue, closest |-> w.closest]
    /\ IsOneList(w.queue) /\ Waiting(w.queue) \subseteq Unnumbered \ {from}

\* What one look leads to from w: the i-th neighbour waits if it has no number and the
\* arc to it is sure.
IsEntryFrom(v, w, from, i) ==
    /\ IsListRound(v, from)
    /\ Waiting(w.queue) \subseteq Waiting(v.queue)
    /\ \A p \in Waiting(v.queue) \ Waiting(w.queue) : \E j \in 1..4 : IsSureStep(from, j) /\ p = Neighbor(from, j)
    /\ IsSureStep(from, i) /\ Neighbor(from, i) \in Unnumbered => Neighbor(from, i) \in Waiting(v.queue)

LEMMA ComponentLooked ==
  ASSUME what = "components", NEW from \in Pixels, NEW w, IsListRound(w, from), NEW i \in 1..4
  PROVE  IsEntryFrom(Look(w, from, i), w, from, i)
  <1>. DEFINE b == PixelNeighbors[from][i]
              n == Neighbor(from, i)
  <1>1. b.pixel = n
    BY DEF Neighbor
  <1>2. CASE n \notin Pixels
    <2>1. Look(w, from, i) = w
      BY <1>1, <1>2 DEF Look
    <2>. QED BY <1>2, <2>1 DEF IsEntryFrom, IsSureStep
  <1>3. CASE n \in Pixels /\ ~ MayEnter(w.queue, b)
    <2>1. Look(w, from, i) = w
      BY <1>1, <1>3 DEF Look, EnterComponent
    <2>2. n \in Unnumbered /\ b.arc \in Sure => n \in Waiting(w.queue)
      BY <1>1, <1>3 DEF MayEnter, Unnumbered, Sure, Waiting
    <2>. QED BY <2>1, <2>2 DEF IsEntryFrom, IsSureStep
  <1>4. CASE n \in Pixels /\ MayEnter(w.queue, b)
    <2>. DEFINE q == BucketInsert(w.queue, n, 0)
                v == Look(w, from, i)
    <2>1. v = [w EXCEPT !.queue = q]
      BY <1>1, <1>4 DEF Look, EnterComponent
    <2>2. v = [outcost |-> w.outcost, queue |-> q, closest |-> w.closest]
      BY <2>1 DEF IsListRound
    <2>3. v.queue = q /\ v = [outcost |-> v.outcost, queue |-> v.queue, closest |-> v.closest]
      BY <2>2
    <2>4. b.arc \in Arcs /\ n # from
      BY <1>1, <1>4, NeighborPixel
    <2>5. n \in Unnumbered \ {from} /\ n \notin Waiting(w.queue) /\ IsSureStep(from, i)
      BY <1>1, <1>4, <2>4 DEF MayEnter, Unnumbered, Waiting, IsSureStep, Sure
    <2>6. IsOneList(q) /\ Waiting(q) = Waiting(w.queue) \cup {n}
      BY <1>4, <2>5, ListEntered DEF IsListRound
    <2>. HIDE DEF q, v
    <2>7. IsListRound(v, from)
      BY <2>3, <2>5, <2>6 DEF IsListRound
    <2>8. \A p \in Waiting(v.queue) \ Waiting(w.queue) : IsSureStep(from, i) /\ p = Neighbor(from, i)
      BY <2>3, <2>5, <2>6
    <2>9. n \in Waiting(v.queue) /\ Waiting(w.queue) \subseteq Waiting(v.queue)
      BY <2>3, <2>6
    <2>10. IsEntryFrom(v, w, from, i)
      BY <2>7, <2>8, <2>9 DEF IsEntryFrom
    <2>. QED BY <2>10 DEF v
  <1>. QED BY <1>2, <1>3, <1>4

LEMMA ComponentLookedAround ==
  ASSUME what = "components", NEW from \in Pixels, NEW w, IsListRound(w, from)
  PROVE  LET v == LookRound(w, from)
         IN  /\ IsListRound(v, from)
             /\ Waiting(w.queue) \subseteq Waiting(v.queue)
             /\ \A p \in Waiting(v.queue) \ Waiting(w.queue) :
                  \E j \in 1..4 : IsSureStep(from, j) /\ p = Neighbor(from, j)
             /\ \A i \in 1..4 : IsSureStep(from, i) /\ Neighbor(from, i) \in Unnumbered =>
                  Neighbor(from, i) \in Waiting(v.queue)
  <1>. DEFINE w1 == Look(w, from, 1)
              w2 == Look(w1, from, 2)
              w3 == Look(w2, from, 3)
              v == Look(w3, from, 4)
  <1>1. IsEntryFrom(w1, w, from, 1)
    BY ComponentLooked
  <1>. HIDE DEF w1
  <1>2. IsEntryFrom(w2, w1, from, 2)
    BY <1>1, ComponentLooked DEF IsEntryFrom
  <1>. HIDE DEF w2
  <1>3. IsEntryFrom(w3, w2, from, 3)
    BY <1>2, ComponentLooked DEF IsEntryFrom
  <1>. HIDE DEF w3
  <1>4. IsEntryFrom(v, w3, from, 4)
    BY <1>3, ComponentLooked DEF IsEntryFrom
  <1>. HIDE DEF v
  <1>5. IsListRound(v, from)
    BY <1>4 DEF IsEntryFrom
  <1>6. /\ Waiting(w.queue) \subseteq Waiting(w1.queue) /\ Waiting(w1.queue) \subseteq Waiting(w2.queue)
        /\ Waiting(w2.queue) \subseteq Waiting(w3.queue) /\ Waiting(w3.queue) \subseteq Waiting(v.queue)
    BY <1>1, <1>2, <1>3, <1>4 DEF IsEntryFrom
  <1>7. ASSUME NEW p \in Waiting(v.queue) \ Waiting(w.queue)
        PROVE  \E j \in 1..4 : IsSureStep(from, j) /\ p = Neighbor(from, j)
    BY <1>1, <1>2, <1>3, <1>4 DEF IsEntryFrom
  <1>8. ASSUME NEW i \in 1..4, IsSureStep(from, i), Neighbor(from, i) \in Unnumbered
        PROVE  Neighbor(from, i) \in Waiting(v.queue)
    <2>1. i = 1 \/ i = 2 \/ i = 3 \/ i = 4
      OBVIOUS
    <2>. QED BY <1>1, <1>2, <1>3, <1>4, <1>6, <1>8, <2>1 DEF IsEntryFrom
  <1>9. v = LookRound(w, from)
    BY DEF LookRound, v, w3, w2, w1
  <1>. QED BY <1>5, <1>6, <1>7, <1>8, <1>9

-----------------------------------------------------------------------------
\* The inductive invariant of components.

\* A pixel of the component comes before all pixels without a number or with a
\* later one.
Leads(i) ==
    \E p \in Region(i) : \A q \in Pixels :
        q \in Unnumbered \/ regions[q] > i => Raster(p) < Raster(q)

\* A component that is complete and large enough.
Finished(i) ==
    /\ IsComponent(Region(i), Sure) /\ Leads(i)
    /\ regionsizes[i] = Cardinality(Region(i)) /\ regionsizes[i] >= MinConnCompSize

\* The components of number zero are too small.
DroppedAreSmall ==
    \A C \in SUBSET Pixels : IsComponent(C, Sure) /\ C \cap Region(0) # {} =>
        C \subseteq Region(0) /\ Cardinality(C) < MinConnCompSize

IsListed ==
    /\ \A i \in 1..regioncounter : Finished(i)
    /\ DroppedAreSmall

\* The pixels that are taken or wait belong together, and where the arcs lead from
\* those taken is among them.
HangsTogether(G) ==
    /\ \A T \in SUBSET Pixels : IsClosedIn(T, Pixels, Sure) /\ T \cap G # {} => G \subseteq T
    /\ \A p \in Region(regioncounter), i \in 1..4 : IsSureStep(p, i) => Neighbor(p, i) \in G
    /\ \E s \in G : \A q \in (Region(regioncounter) \cup Unnumbered) \ {s} : Raster(s) < Raster(q)

IsGathering ==
    /\ regioncounter \in 1..NRow * NCol
    /\ \A i \in 1..regioncounter - 1 : Finished(i)
    /\ DroppedAreSmall
    /\ regionsizes[regioncounter] = Cardinality(Region(regioncounter))
    /\ IsOneList(queue) /\ Waiting(queue) \subseteq Unnumbered
    /\ HangsTogether(Region(regioncounter) \cup Waiting(queue))

ComponentsInv ==
    /\ regionsizes \in [0..NRow * NCol -> Int]
    /\ queue.hi = 0
    /\ gpc \in {"next", "grow", "idle"}
    /\ gpc # "idle" => IsNumbering /\ regioncounter \in Nat
    /\ gpc = "next" => IsListed
    /\ gpc = "grow" => IsGathering
    /\ gpc = "idle" => ComponentsLargest

\* No arc leads from the components that are complete, or too small, to another one.
LEMMA OlderAreClosed ==
  ASSUME NEW n \in Int, \A i \in 1..n : Finished(i), DroppedAreSmall,
         NEW p \in Pixels, NEW i \in 1..4, IsSureStep(p, i),
         regions[Neighbor(p, i)] \in 0..n
  PROVE  regions[p] \in 0..n
  <1>. DEFINE q == Neighbor(p, i)
              k == regions[q]
  <1>1. q \in Pixels /\ PixelNeighbors[p][i].arc \in Sure
    BY DEF IsSureStep
  <1>2. PICK j \in 1..4 : Neighbor(q, j) = p /\ PixelNeighbors[q][j].arc = PixelNeighbors[p][i].arc
    BY <1>1, ArcBack
  <1>3. q \in Region(k)
    BY <1>1 DEF Region
  <1>4. CASE k \in 1..n
    <2>1. IsClosedIn(Region(k), Pixels, Sure)
      BY <1>4 DEF Finished, IsComponent
    <2>2. p \in Region(k)
      BY <1>1, <1>2, <1>3, <2>1 DEF IsClosedIn
    <2>. QED BY <2>2 DEF Region
  <1>5. CASE k = 0
    <2>. DEFINE C == Reached(q, Pixels, Sure)
    <2>1. IsComponent(C, Sure) /\ q \in C
      BY <1>1, ReachedIsComponent
    <2>. HIDE DEF C, q
    <2>2. p \in C
      BY <1>1, <1>2, <2>1 DEF IsComponent, IsClosedIn
    <2>3. C \in SUBSET Pixels
      BY <2>1 DEF IsComponent
    <2>4. q \in Region(0)
      BY <1>3, <1>5
    <2>5. C \subseteq Region(0)
      BY <2>1, <2>3, <2>4 DEF DroppedAreSmall
    <2>. QED BY <2>2, <2>5 DEF Region
  <1>. QED BY <1>4, <1>5

-----------------------------------------------------------------------------
\* Each step of a component keeps the invariant.

\* A component stays complete as long as its pixels keep their number, and pixels of
\* later numbers or none are only those that were.
LEMMA StaysFinished ==
  ASSUME NEW i \in Int, Finished(i), Region(i)' = Region(i), regionsizes'[i] = regionsizes[i],
         arcdist' = arcdist,
         \A q \in Pixels : regions'[q] < 0 \/ regions'[q] > i => regions[q] < 0 \/ regions[q] > i
  PROVE  Finished(i)'
  <1>1. Sure' = Sure
    BY DEF Sure
  <1>2. Leads(i)'
    <2>1. PICK p \in Region(i) : \A q \in Pixels :
                 q \in Unnumbered \/ regions[q] > i => Raster(p) < Raster(q)
      BY DEF Finished, Leads
    <2>2. \A q \in Pixels : q \in Unnumbered' \/ regions'[q] > i => Raster(p) < Raster(q)
      BY <2>1 DEF Unnumbered
    <2>. QED BY <2>1, <2>2 DEF Leads
  <1>. QED BY <1>1, <1>2 DEF Finished

LEMMA ComponentSourceKeeps ==
  ASSUME ComponentsInv, what = "components", NextSource
  PROVE  ComponentsInv'
  <1>. DEFINE s == FirstOf(Unnumbered)
              rc == regioncounter
  <1>1. /\ IsListed /\ IsNumbering /\ rc \in Nat
        /\ Unnumbered # {} /\ Unnumbered \subseteq Pixels
    BY DEF ComponentsInv, NextSource, Unnumbered
  <1>2. s \in Unnumbered /\ s \in Pixels /\ \A q \in Unnumbered : Raster(s) <= Raster(q)
    BY <1>1, FirstIsFirst
  <1>. HIDE DEF s
  <1>3. /\ queue' = BucketInsert(EmptyQueue(0, queue.hi, 0), s, 0)
        /\ rc' = rc + 1 /\ regionsizes' = [regionsizes EXCEPT ![rc + 1] = 0]
        /\ gpc' = "grow" /\ arcdist' = arcdist /\ regions' = regions
    BY DEF NextSource, s
  <1>4. IsOneList(queue') /\ Waiting(queue') = {s}
    <2>1. IsOneList(EmptyQueue(0, 0, 0)) /\ Waiting(EmptyQueue(0, 0, 0)) = {}
      <3>1. RangeOf(<< >>) = {}
        BY DEF RangeOf
      <3>. QED BY <3>1, MadeOfList DEF EmptyQueue
    <2>2. queue' = BucketInsert(EmptyQueue(0, 0, 0), s, 0)
      BY <1>3 DEF ComponentsInv
    <2>. QED BY <1>2, <2>1, <2>2, ListEntered
  <1>5. queue'.hi = 0
    BY <1>4, OneList
  <1>6. Unnumbered' = Unnumbered /\ \A i : Region(i)' = Region(i)
    BY <1>3 DEF Unnumbered, Region
  <1>7. Region(rc)' = {}
    BY <1>1, <1>3 DEF Region, IsNumbering
  <1>8. rc + 1 \in 1..NRow * NCol
    <2>. DEFINE f == [p \in Pixels |-> IF regions[p] = -1 THEN 0
                                       ELSE IF regions[p] = 0 THEN -1 ELSE regions[p]]
    <2>1. f \in [Pixels -> Int]
      BY <1>1 DEF IsNumbering
    <2>2. \A i \in 0..rc : \E p \in Pixels : f[p] = i
      <3>. TAKE i \in 0..rc
      <3>1. CASE i = 0
        <4>1. regions[s] = -1
          BY <1>1, <1>2 DEF Unnumbered, IsNumbering
        <4>. QED BY <1>2, <3>1, <4>1
      <3>2. CASE i # 0
        <4>1. i \in 1..rc
          BY <3>2
        <4>2. Region(i) # {}
          BY <1>1, <4>1 DEF IsListed, Finished, IsComponent
        <4>3. PICK p \in Pixels : regions[p] = i
          BY <4>2 DEF Region
        <4>. QED BY <3>2, <4>3
      <3>. QED BY <3>1, <3>2
    <2>. HIDE DEF f
    <2>. QED BY <1>1, <2>1, <2>2, EnoughNumbers, Sizes
  <1>9. rc + 1 \in 0..NRow * NCol /\ NRow * NCol \in Nat
    BY <1>8, Sizes
  <1>10. /\ regionsizes' \in [0..NRow * NCol -> Int] /\ regionsizes'[rc + 1] = 0
         /\ \A i \in 1..rc : regionsizes'[i] = regionsizes[i]
    BY <1>1, <1>3, <1>9 DEF ComponentsInv
  <1>11. \A i \in 1..rc : Finished(i)'
    <2>. TAKE i \in 1..rc
    <2>1. Finished(i) /\ i \in Int
      BY <1>1 DEF IsListed
    <2>. QED BY <1>3, <1>6, <1>10, <2>1, StaysFinished
  <1>12. DroppedAreSmall'
    BY <1>1, <1>3, <1>6 DEF IsListed, DroppedAreSmall, Sure
  <1>13. HangsTogether(Region(regioncounter) \cup Waiting(queue))'
    <2>. DEFINE G == (Region(regioncounter) \cup Waiting(queue))'
    <2>1. G = {s}
      BY <1>4, <1>7
    <2>2. \A q \in (Region(rc)' \cup Unnumbered') \ {s} : Raster(s) < Raster(q)
      <3>. SUFFICES ASSUME NEW q \in Unnumbered \ {s} PROVE Raster(s) < Raster(q)
        BY <1>6, <1>7
      <3>1. q \in Pixels /\ Raster(s) <= Raster(q)
        BY <1>1, <1>2
      <3>2. Raster(s) # Raster(q)
        BY <1>2, <3>1, RasterApart
      <3>3. Raster(s) \in Nat /\ Raster(q) \in Nat
        BY <1>2, <3>1, RasterNatural
      <3>. QED BY <3>1, <3>2, <3>3
    <2>. HIDE DEF G
    <2>3. \A T \in SUBSET Pixels : T \cap G # {} => G \subseteq T
      BY <2>1
    <2>. QED BY <1>7, <2>1, <2>2, <2>3 DEF HangsTogether, G
  <1>14. IsGathering'
    <2>1. Cardinality(Region(rc)') = 0
      BY <1>7, FS_EmptySet
    <2>2. Waiting(queue)' = {s}
      BY <1>4
    <2>3. rc' - 1 = rc
      BY <1>1, <1>3
    <2>4. \A i \in 1..rc' - 1 : Finished(i)'
      BY <1>11, <2>3
    <2>5. IsOneList(queue)' /\ Waiting(queue)' \subseteq Unnumbered'
      BY <1>2, <1>4, <1>6, <2>2
    <2>. QED BY <1>3, <1>8, <1>10, <1>12, <1>13, <2>1, <2>4, <2>5 DEF IsGathering
  <1>15. IsNumbering' /\ rc' \in Nat
    BY <1>1, <1>3 DEF IsNumbering
  <1>. QED BY <1>3, <1>5, <1>10, <1>14, <1>15 DEF ComponentsInv

LEMMA ComponentTakeKeeps ==
  ASSUME ComponentsInv, what = "components", TakeNode
  PROVE  ComponentsInv'
  <1>. DEFINE p == From
              rc == regioncounter
              W == Waiting(queue)
              R == Region(rc)
              rest == AfterClosest(queue)
              w == [outcost |-> outcost, queue |-> rest, closest |-> closest]
              v == LookRound(w, p)
  <1>1. /\ IsGathering /\ IsNumbering /\ IsFilled(queue) /\ rc \in Nat /\ rc \in 1..NRow * NCol
        /\ W \subseteq Unnumbered
    BY DEF ComponentsInv, TakeNode, IsGathering
  <1>2. p \in W /\ IsOneList(rest) /\ Waiting(rest) = W \ {p}
    BY <1>1, ListTaken DEF IsGathering, From
  <1>3. p \in Unnumbered /\ p \in Pixels
    BY <1>1, <1>2 DEF Unnumbered
  <1>. HIDE DEF p, W, rest
  <1>4. IsListRound(w, p)
    BY <1>1, <1>2 DEF IsListRound
  <1>5. w.queue = rest
    OBVIOUS
  <1>6. /\ IsListRound(v, p) /\ W \ {p} \subseteq Waiting(v.queue)
        /\ \A x \in Waiting(v.queue) \ (W \ {p}) :
             \E j \in 1..4 : IsSureStep(p, j) /\ x = Neighbor(p, j)
        /\ \A i \in 1..4 : IsSureStep(p, i) /\ Neighbor(p, i) \in Unnumbered =>
             Neighbor(p, i) \in Waiting(v.queue)
    BY <1>2, <1>3, <1>4, <1>5, ComponentLookedAround
  <1>7. /\ queue' = v.queue
        /\ regions' = [regions EXCEPT ![p] = rc] /\ regionsizes' = [regionsizes EXCEPT ![rc] = @ + 1]
        /\ gpc' = gpc /\ gpc = "grow" /\ arcdist' = arcdist /\ rc' = rc
    BY DEF TakeNode, p, rest
  <1>. HIDE DEF w, v
  <1>. DEFINE V == Waiting(v.queue)
  <1>8. /\ IsOneList(queue') /\ Waiting(queue)' = V /\ V \subseteq Unnumbered \ {p}
    <2>1. Waiting(queue)' = Waiting(queue')
      OBVIOUS
    <2>. QED BY <1>6, <1>7, <2>1 DEF IsListRound
  <1>9. queue'.hi = 0
    BY <1>8, OneList
  <1>10. regions[p] = -1 /\ rc # -1 /\ regions \in [Pixels -> Int]
    BY <1>1, <1>3 DEF Unnumbered, IsNumbering
  <1>11. /\ \A i \in Int : i # rc /\ i >= 0 => Region(i)' = Region(i)
         /\ Region(rc)' = R \cup {p} /\ p \notin R
         /\ Unnumbered' = Unnumbered \ {p}
    BY <1>1, <1>3, <1>7, <1>10 DEF Region, Unnumbered
  <1>12. IsNumbering'
    BY <1>1, <1>3, <1>7 DEF IsNumbering
  <1>13. /\ rc \in 0..NRow * NCol /\ regionsizes[rc] \in Int /\ regionsizes'[rc] = regionsizes[rc] + 1
         /\ regionsizes' \in [0..NRow * NCol -> Int]
         /\ \A i \in 1..rc - 1 : regionsizes'[i] = regionsizes[i]
    BY <1>1, <1>7, Sizes DEF ComponentsInv
  <1>14. \A i \in 1..rc - 1 : Finished(i)'
    <2>. TAKE i \in 1..rc - 1
    <2>1. Finished(i) /\ i \in Int /\ i # rc /\ i >= 0 /\ regionsizes'[i] = regionsizes[i]
      BY <1>1, <1>13 DEF IsGathering
    <2>2. \A q \in Pixels : regions'[q] < 0 \/ regions'[q] > i => regions[q] < 0 \/ regions[q] > i
      BY <1>1, <1>3, <1>7, <1>10
    <2>. QED BY <1>7, <1>11, <2>1, <2>2, StaysFinished
  <1>15. Sure' = Sure
    BY <1>7 DEF Sure
  <1>16. DroppedAreSmall'
    <2>1. Region(0)' = Region(0)
      BY <1>1, <1>11
    <2>. QED BY <1>1, <1>15, <2>1 DEF IsGathering, DroppedAreSmall
  <1>17. regionsizes'[rc] = Cardinality(Region(rc)')
    <2>1. R \in SUBSET Pixels
      BY DEF Region
    <2>2. IsFiniteSet(R)
      BY <2>1, Grid, FS_Subset
    <2>3. Cardinality(R \cup {p}) = Cardinality(R) + 1
      BY <1>11, <2>2, FS_AddElement
    <2>. QED BY <1>1, <1>11, <1>13, <2>3 DEF IsGathering
  <1>. DEFINE G == R \cup W
              H == R \cup {p} \cup V
  <1>18. /\ \A T \in SUBSET Pixels : IsClosedIn(T, Pixels, Sure) /\ T \cap G # {} => G \subseteq T
         /\ \A x \in R, i \in 1..4 : IsSureStep(x, i) => Neighbor(x, i) \in G
         /\ \E s \in G : \A q \in (R \cup Unnumbered) \ {s} : Raster(s) < Raster(q)
    BY <1>1 DEF IsGathering, HangsTogether, W
  <1>19. G \subseteq H /\ p \in G /\ R \subseteq Pixels
    BY <1>2, <1>6 DEF Region
  <1>20. ASSUME NEW T \in SUBSET Pixels, IsClosedIn(T, Pixels, Sure), T \cap H # {}
         PROVE  H \subseteq T
    <2>1. T \cap G # {}
      <3>. SUFFICES ASSUME NEW x \in T, x \in H, x \notin G PROVE p \in T
        BY <1>19, <1>20
      <3>1. PICK j \in 1..4 : IsSureStep(p, j) /\ x = Neighbor(p, j)
        BY <1>6, <1>19
      <3>2. PICK k \in 1..4 : Neighbor(x, k) = p /\ PixelNeighbors[x][k].arc = PixelNeighbors[p][j].arc
        BY <1>3, <3>1, ArcBack DEF IsSureStep
      <3>. QED BY <1>3, <1>20, <3>1, <3>2 DEF IsClosedIn, IsSureStep
    <2>2. G \subseteq T /\ p \in T
      BY <1>18, <1>19, <1>20, <2>1
    <2>3. ASSUME NEW x \in V, x \notin W \ {p} PROVE x \in T
      <3>1. PICK j \in 1..4 : IsSureStep(p, j) /\ x = Neighbor(p, j)
        BY <1>6, <2>3
      <3>. QED BY <1>20, <2>2, <3>1 DEF IsClosedIn, IsSureStep
    <2>. QED BY <2>2, <2>3
  <1>21. ASSUME NEW x \in R \cup {p}, NEW i \in 1..4, IsSureStep(x, i)
         PROVE  Neighbor(x, i) \in H
    <2>1. CASE x \in R
      BY <1>18, <1>19, <1>21, <2>1
    <2>2. CASE x = p
      <3>. DEFINE n == Neighbor(p, i)
      <3>1. n \in Pixels
        BY <1>21, <2>2 DEF IsSureStep
      <3>2. regions[n] \notin 0..rc - 1
        <4>1. \A k \in 1..rc - 1 : Finished(k)
          BY <1>1 DEF IsGathering
        <4>2. rc - 1 \in Int /\ DroppedAreSmall /\ regions[p] \notin 0..rc - 1
          BY <1>1, <1>10 DEF IsGathering
        <4>. QED BY <1>3, <1>21, <2>2, <4>1, <4>2, OlderAreClosed
      <3>3. regions[n] = -1 \/ regions[n] = rc
        BY <1>1, <3>1, <3>2 DEF IsNumbering
      <3>. QED BY <1>6, <1>21, <2>2, <3>1, <3>3 DEF Unnumbered, Region
    <2>. QED BY <2>1, <2>2
  <1>22. \E s \in H : \A q \in (R \cup {p} \cup (Unnumbered \ {p})) \ {s} : Raster(s) < Raster(q)
    <2>1. R \cup {p} \cup (Unnumbered \ {p}) = R \cup Unnumbered
      BY <1>3
    <2>. QED BY <1>18, <1>19, <2>1
  <1>23. HangsTogether(Region(regioncounter) \cup Waiting(queue))'
    <2>1. (Region(regioncounter) \cup Waiting(queue))' = H
      BY <1>7, <1>8, <1>11
    <2>2. \A x, i : IsSureStep(x, i)' <=> IsSureStep(x, i)
      BY <1>15 DEF IsSureStep
    <2>3. (Region(regioncounter))' = R \cup {p}
      BY <1>7, <1>11
    <2>. HIDE DEF H, G, R
    <2>. QED BY <1>11, <1>15, <1>20, <1>21, <1>22, <2>1, <2>2, <2>3 DEF HangsTogether
  <1>24. IsGathering'
    <2>1. Waiting(queue)' \subseteq Unnumbered'
      BY <1>8, <1>11
    <2>2. IsOneList(queue)'
      BY <1>8
    <2>. QED BY <1>1, <1>7, <1>14, <1>16, <1>17, <1>23, <2>1, <2>2 DEF IsGathering
  <1>. QED BY <1>1, <1>7, <1>9, <1>12, <1>13, <1>24 DEF ComponentsInv

\* A component stops when nothing waits: then it is complete.
LEMMA StoppedComponent ==
  ASSUME ComponentsInv, what = "components", StopGrowing
  PROVE  /\ regioncounter \in Nat /\ regioncounter >= 1 /\ IsNumbering /\ IsGathering
         /\ queue' = queue /\ arcdist' = arcdist
         /\ IsComponent(Region(regioncounter), Sure) /\ Leads(regioncounter)
         /\ regioncounter \in 0..NRow * NCol
  <1>. DEFINE rc == regioncounter
              R == Region(rc)
  <1>1. IsGathering /\ IsNumbering /\ rc \in Nat /\ rc \in 1..NRow * NCol
    BY DEF ComponentsInv, StopGrowing, IsGathering
  <1>2. ~ IsFilled(queue)
    BY DEF StopGrowing, MayStop, IsFarther
  <1>3. queue' = queue /\ arcdist' = arcdist
    BY <1>2 DEF StopGrowing
  <1>4. Waiting(queue) = {}
    <2>1. queue.at[0] = << >> /\ Waiting(queue) = RangeOf(queue.at[0])
      BY <1>1, <1>2, OneList DEF IsGathering
    <2>. QED BY <2>1 DEF RangeOf
  <1>5. /\ \A T \in SUBSET Pixels : IsClosedIn(T, Pixels, Sure) /\ T \cap R # {} => R \subseteq T
        /\ \A p \in R, i \in 1..4 : IsSureStep(p, i) => Neighbor(p, i) \in R
        /\ \E s \in R : \A q \in (R \cup Unnumbered) \ {s} : Raster(s) < Raster(q)
    <2>1. Region(rc) \cup Waiting(queue) = R
      BY <1>4
    <2>2. HangsTogether(R)
      BY <1>1, <2>1 DEF IsGathering
    <2>. QED BY <2>2 DEF HangsTogether
  <1>6. IsComponent(R, Sure)
    <2>1. R \in SUBSET Pixels /\ R # {}
      BY <1>5 DEF Region
    <2>2. IsClosedIn(R, Pixels, Sure)
      BY <1>5 DEF IsClosedIn, IsSureStep
    <2>3. ASSUME NEW T \in SUBSET R, T # {}, IsClosedIn(T, Pixels, Sure) PROVE T = R
      <3>1. T \in SUBSET Pixels /\ T \cap R # {}
        BY <2>1, <2>3
      <3>. QED BY <1>5, <2>3, <3>1
    <2>. QED BY <2>1, <2>2, <2>3 DEF IsComponent
  <1>7. Leads(rc)
    <2>1. PICK s \in R : \A q \in (R \cup Unnumbered) \ {s} : Raster(s) < Raster(q)
      BY <1>5
    <2>2. regions[s] = rc
      BY DEF Region
    <2>3. ASSUME NEW q \in Pixels, q \in Unnumbered \/ regions[q] > rc PROVE Raster(s) < Raster(q)
      <3>1. q \in Unnumbered /\ q # s
        BY <1>1, <2>2, <2>3 DEF IsNumbering, Unnumbered
      <3>. QED BY <2>1, <3>1
    <2>. QED BY <2>1, <2>3 DEF Leads
  <1>. QED BY <1>1, <1>3, <1>6, <1>7

LEMMA ComponentCompleteKeeps ==
  ASSUME ComponentsInv, what = "components", RegionComplete
  PROVE  ComponentsInv'
  <1>. DEFINE rc == regioncounter
  <1>1. /\ rc \in Nat /\ rc >= 1 /\ IsNumbering /\ IsGathering
        /\ queue' = queue /\ arcdist' = arcdist
        /\ IsComponent(Region(rc), Sure) /\ Leads(rc)
    BY StoppedComponent DEF RegionComplete
  <1>2. gpc' = "next" /\ regions' = regions /\ rc' = rc /\ regionsizes' = regionsizes
    BY DEF RegionComplete
  <1>3. Finished(rc)
    BY <1>1 DEF RegionComplete, BigEnough, MinSize, Finished, IsGathering
  <1>4. \A i \in 1..rc : Finished(i)'
    <2>. TAKE i \in 1..rc
    <2>1. Finished(i) /\ i \in Int
      BY <1>1, <1>3 DEF IsGathering
    <2>2. Region(i)' = Region(i)
      BY <1>2 DEF Region
    <2>. QED BY <1>1, <1>2, <2>1, <2>2, StaysFinished
  <1>5. DroppedAreSmall'
    BY <1>1, <1>2 DEF IsGathering, DroppedAreSmall, Sure, Region
  <1>. QED BY <1>1, <1>2, <1>4, <1>5 DEF ComponentsInv, IsListed, IsNumbering

LEMMA DropComponentKeeps ==
  ASSUME ComponentsInv, what = "components", DropComponent
  PROVE  ComponentsInv'
  <1>. DEFINE rc == regioncounter
  <1>1. /\ rc \in Nat /\ rc >= 1 /\ IsNumbering /\ IsGathering
        /\ queue' = queue /\ arcdist' = arcdist
        /\ IsComponent(Region(rc), Sure)
    BY StoppedComponent DEF DropComponent
  <1>2. /\ gpc' = "next" /\ rc' = rc - 1 /\ regionsizes' = regionsizes
        /\ regions' = [p \in Pixels |-> IF regions[p] = rc THEN 0 ELSE regions[p]]
    BY DEF DropComponent
  <1>3. /\ \A i \in 1..rc - 1 : Region(i)' = Region(i)
        /\ Region(0)' = Region(0) \cup Region(rc)
    BY <1>1, <1>2 DEF Region
  <1>4. Cardinality(Region(rc)) < MinConnCompSize
    <2>1. regionsizes[rc] = Cardinality(Region(rc)) /\ ~ (regionsizes[rc] >= MinConnCompSize)
      BY <1>1 DEF DropComponent, BigEnough, MinSize, IsGathering
    <2>2. rc \in 0..NRow * NCol
      BY StoppedComponent DEF DropComponent
    <2>3. regionsizes[rc] \in Int /\ MinConnCompSize \in Int
      BY <2>2, Sizes, GrowAssumption DEF ComponentsInv
    <2>. QED BY <2>1, <2>3
  <1>5. \A i \in 1..rc - 1 : Finished(i)'
    <2>. TAKE i \in 1..rc - 1
    <2>1. Finished(i) /\ i \in Int
      BY <1>1 DEF IsGathering
    <2>2. \A q \in Pixels : regions'[q] < 0 \/ regions'[q] > i => regions[q] < 0 \/ regions[q] > i
      BY <1>2
    <2>. QED BY <1>1, <1>2, <1>3, <2>1, <2>2, StaysFinished
  <1>6. Sure' = Sure
    BY <1>1 DEF Sure
  <1>7. DroppedAreSmall'
    <2>1. ASSUME NEW C \in SUBSET Pixels, IsComponent(C, Sure), C \cap (Region(0) \cup Region(rc)) # {}
          PROVE  C \subseteq Region(0) \cup Region(rc) /\ Cardinality(C) < MinConnCompSize
      <3>1. CASE C \cap Region(rc) # {}
        <4>1. C = Region(rc)
          BY <1>1, <2>1, <3>1, SameComponent
        <4>. QED BY <1>4, <4>1
      <3>2. CASE C \cap Region(0) # {}
        BY <1>1, <2>1, <3>2 DEF IsGathering, DroppedAreSmall
      <3>. QED BY <2>1, <3>1, <3>2
    <2>. QED BY <1>3, <1>6, <2>1 DEF DroppedAreSmall
  <1>8. IsNumbering' /\ rc' \in Nat
    BY <1>1, <1>2 DEF IsNumbering
  <1>. QED BY <1>1, <1>2, <1>5, <1>7, <1>8 DEF ComponentsInv, IsListed

-----------------------------------------------------------------------------
\* The numbers in the end.

\* What ComponentsLargest says, of a numbering f of the pixels.
AreLargest(f) ==
    LET big == {c \in {Reached(p, Pixels, Sure) : p \in Pixels} : Cardinality(c) >= MinConnCompSize}
        kept == {Part(f, f[p]) : p \in {q \in Pixels : f[q] # 0}}
    IN  /\ kept \subseteq big
        /\ Cardinality(kept) = IF Cardinality(big) < MaxNComps THEN Cardinality(big) ELSE MaxNComps
        /\ \A c \in kept, d \in big \ kept : Cardinality(d) <= Cardinality(c)
        /\ \A p \in Pixels : f[p] # 0 =>
             f[p] = Cardinality({c \in kept : Raster(FirstOf(c)) <= Raster(FirstOf(Part(f, f[p])))})

\* The components that are complete, and large enough, are all there are.
LEMMA AllAreListed ==
  ASSUME IsListed, regioncounter \in Nat, regions \in [Pixels -> 0..regioncounter]
  PROVE  {c \in {Reached(p, Pixels, Sure) : p \in Pixels} : Cardinality(c) >= MinConnCompSize}
           = {Part(regions, i) : i \in 1..regioncounter}
  <1>. DEFINE rc == regioncounter
              big == {c \in {Reached(p, Pixels, Sure) : p \in Pixels} :
                        Cardinality(c) >= MinConnCompSize}
              parts == {Part(regions, i) : i \in 1..rc}
  <1>1. \A i : Part(regions, i) = Region(i)
    BY DEF Part, Region
  <1>2. ASSUME NEW i \in 1..rc PROVE Part(regions, i) \in big
    <2>1. IsComponent(Region(i), Sure) /\ Cardinality(Region(i)) >= MinConnCompSize
      BY DEF IsListed, Finished
    <2>2. PICK p \in Pixels : Region(i) = Reached(p, Pixels, Sure)
      BY <2>1, ReachedIsComponent
    <2>. QED BY <1>1, <2>1, <2>2
  <1>3. ASSUME NEW c \in big PROVE c \in parts
    <2>1. PICK p \in Pixels : c = Reached(p, Pixels, Sure) /\ Cardinality(c) >= MinConnCompSize
      OBVIOUS
    <2>2. IsComponent(c, Sure) /\ p \in c /\ c \in SUBSET Pixels
      BY <2>1, ReachedIsComponent DEF IsComponent
    <2>3. p \in Region(regions[p])
      BY DEF Region
    <2>4. CASE regions[p] \in 1..rc
      <3>1. IsComponent(Region(regions[p]), Sure)
        BY <2>4 DEF IsListed, Finished
      <3>2. c = Region(regions[p])
        BY <2>2, <2>3, <3>1, SameComponent
      <3>. QED BY <1>1, <2>4, <3>2
    <2>5. CASE regions[p] = 0
      <3>1. Cardinality(c) < MinConnCompSize
        BY <2>2, <2>3, <2>5 DEF IsListed, DroppedAreSmall
      <3>2. Cardinality(c) \in Nat /\ MinConnCompSize \in Int
        <4>1. IsFiniteSet(c)
          BY <2>2, Grid, FS_Subset
        <4>. QED BY <4>1, FS_CardinalityType, Sizes, GrowAssumption
      <3>. QED BY <2>1, <3>1, <3>2
    <2>6. regions[p] \in 1..rc \/ regions[p] = 0
      OBVIOUS
    <2>. QED BY <2>4, <2>5, <2>6
  <1>. HIDE DEF big, parts
  <1>4. big \subseteq parts
    BY <1>3
  <1>5. parts \subseteq big
    BY <1>2 DEF parts
  <1>. QED BY <1>4, <1>5 DEF big, parts

LEMMA NumberedAtLast ==
  ASSUME ComponentsInv, what = "components", FinishGrowing
  PROVE  AreLargest(regions')
  <1>. DEFINE rc == regioncounter
              kept == {i \in 1..rc : IsKept(i, LeastKept)}
              K == IF rc > MaxNComps THEN kept ELSE 1..rc
              g == regions'
              parts == {Part(regions, i) : i \in 1..rc}
  <1>1. IsListed /\ rc \in Nat /\ regions \in [Pixels -> 0..rc] /\ MaxNComps \in Nat
    <2>1. IsListed /\ rc \in Nat /\ IsNumbering /\ Unnumbered = {}
      BY DEF ComponentsInv, FinishGrowing
    <2>2. \A p \in Pixels : regions[p] \in 0..rc
      BY <2>1 DEF IsNumbering, Unnumbered
    <2>. QED BY <2>1, <2>2, GrowAssumption DEF IsNumbering
  <1>2. \A i : Part(regions, i) = Region(i)
    BY DEF Part, Region
  <1>3. \A i \in 1..rc : /\ IsComponent(Region(i), Sure) /\ Leads(i)
                         /\ regionsizes[i] = Cardinality(Region(i)) /\ regionsizes[i] \in Nat
    <2>. TAKE i \in 1..rc
    <2>1. IsComponent(Region(i), Sure) /\ Leads(i) /\ regionsizes[i] = Cardinality(Region(i))
      BY <1>1 DEF IsListed, Finished
    <2>2. Region(i) \in SUBSET Pixels
      BY DEF Region
    <2>3. IsFiniteSet(Region(i))
      BY <2>2, Grid, FS_Subset
    <2>. QED BY <2>1, <2>3, FS_CardinalityType
  <1>4. \A i \in 1..rc : Part(regions, i) # {}
    BY <1>2, <1>3 DEF IsComponent
  <1>5. InOrder(regions, rc)
    <2>. SUFFICES ASSUME NEW i \in 1..rc, NEW j \in 1..rc, i < j
                  PROVE  Raster(FirstOf(Part(regions, i))) < Raster(FirstOf(Part(regions, j)))
      BY DEF InOrder
    <2>. DEFINE s == FirstOf(Part(regions, i))
                t == FirstOf(Part(regions, j))
    <2>1. /\ s \in Pixels /\ regions[s] = i /\ \A q \in Part(regions, i) : Raster(s) <= Raster(q)
          /\ t \in Pixels /\ regions[t] = j
      <3>1. Part(regions, i) \subseteq Pixels /\ Part(regions, j) \subseteq Pixels
        BY DEF Part
      <3>2. s \in Part(regions, i) /\ \A q \in Part(regions, i) : Raster(s) <= Raster(q)
        BY <1>4, <3>1, FirstIsFirst
      <3>3. t \in Part(regions, j)
        BY <1>4, <3>1, FirstIsFirst
      <3>. QED BY <3>2, <3>3 DEF Part
    <2>. HIDE DEF s, t
    <2>2. PICK p \in Region(i) : \A q \in Pixels : q \in Unnumbered \/ regions[q] > i => Raster(p) < Raster(q)
      BY <1>3 DEF Leads
    <2>3. Raster(s) <= Raster(p) /\ p \in Pixels
      BY <1>2, <2>1, <2>2 DEF Region
    <2>4. Raster(p) < Raster(t)
      BY <2>1, <2>2
    <2>5. Raster(s) \in Nat /\ Raster(p) \in Nat /\ Raster(t) \in Nat
      BY <2>1, <2>3, RasterNatural
    <2>6. Raster(s) < Raster(t)
      BY <2>3, <2>4, <2>5
    <2>. QED BY <2>6 DEF s, t
  <1>6. IsFiniteSet(1..rc) /\ \A i \in 0..rc : Cardinality(1..i) = i
    <2>1. 1 \in Int /\ rc \in Int /\ \A i \in 0..rc : i \in Int /\ i >= 0
      BY <1>1
    <2>2. \A i \in Int : Cardinality(1..i) = IF 1 > i THEN 0 ELSE i - 1 + 1
      BY FS_Interval
    <2>3. IsFiniteSet(1..rc)
      BY <2>1, FS_Interval
    <2>. QED BY <2>1, <2>2, <2>3
  <1>7. K \in SUBSET (1..rc)
    OBVIOUS
  <1>8. /\ rc > MaxNComps => Cardinality(K) = MaxNComps
        /\ ~ (rc > MaxNComps) => Cardinality(K) = rc
        /\ \A i \in K, j \in (1..rc) \ K : regionsizes[j] <= regionsizes[i]
    <2>1. CASE rc > MaxNComps
      BY <1>1, <1>3, <2>1, EnoughAreKept
    <2>2. CASE ~ (rc > MaxNComps)
      BY <1>1, <1>6, <2>2
    <2>. QED BY <2>1, <2>2
  <1>9. g = Ranked(regions, K)
    <2>1. CASE rc > MaxNComps
      <3>1. g = Renumbered
        BY <2>1 DEF FinishGrowing
      <3>. QED BY <2>1, <3>1 DEF Renumbered, Ranked
    <2>2. CASE ~ (rc > MaxNComps)
      <3>1. g = regions
        BY <2>2 DEF FinishGrowing
      <3>2. ASSUME NEW p \in Pixels
            PROVE  regions[p] = IF regions[p] \in 1..rc
                                THEN Cardinality({i \in 1..rc : i <= regions[p]}) ELSE 0
        <4>1. regions[p] \in 0..rc
          BY <1>1
        <4>2. CASE regions[p] \in 1..rc
          <5>1. {i \in 1..rc : i <= regions[p]} = 1..regions[p]
            BY <1>1, <4>2
          <5>. QED BY <1>6, <4>1, <4>2, <5>1
        <4>3. CASE regions[p] \notin 1..rc
          BY <1>1, <4>1, <4>3
        <4>. QED BY <4>2, <4>3
      <3>. QED BY <1>1, <2>2, <3>1, <3>2 DEF Ranked
    <2>. QED BY <2>1, <2>2
  <1>. HIDE DEF K, g
  <1>. DEFINE keptparts == {Part(g, g[p]) : p \in {q \in Pixels : g[q] # 0}}
  <1>10. /\ keptparts = {Part(regions, i) : i \in K}
         /\ Cardinality(keptparts) = Cardinality(K)
         /\ \A p \in Pixels : g[p] # 0 =>
              g[p] = Cardinality({c \in keptparts : Raster(FirstOf(c)) <= Raster(FirstOf(Part(g, g[p])))})
    <2>1. AreRanked(g, regions, K)
      BY <1>1, <1>4, <1>5, <1>7, <1>9, KeptAreRanked
    <2>. QED BY <2>1 DEF AreRanked
  <1>11. Cardinality(parts) = rc
    <2>. DEFINE L == 1..rc
    <2>1. AreRanked(Ranked(regions, L), regions, L)
      BY <1>1, <1>4, <1>5, KeptAreRanked
    <2>2. Cardinality(parts) = Cardinality(L)
      BY <2>1 DEF AreRanked
    <2>. QED BY <1>1, <1>6, <2>2
  <1>12. {c \in {Reached(p, Pixels, Sure) : p \in Pixels} : Cardinality(c) >= MinConnCompSize} = parts
    BY <1>1, AllAreListed
  <1>. HIDE DEF keptparts
  <1>13. keptparts \subseteq parts
    BY <1>7, <1>10
  <1>14. ASSUME NEW c \in keptparts, NEW d \in parts \ keptparts PROVE Cardinality(d) <= Cardinality(c)
    <2>1. PICK i \in K : c = Part(regions, i)
      BY <1>10
    <2>2. PICK j \in 1..rc : d = Part(regions, j)
      OBVIOUS
    <2>3. j \notin K
      BY <1>10, <2>2
    <2>4. regionsizes[j] <= regionsizes[i] /\ i \in 1..rc
      BY <1>7, <1>8, <2>3
    <2>. QED BY <1>2, <1>3, <2>1, <2>2, <2>4
  <1>15. Cardinality(keptparts) = IF Cardinality(parts) < MaxNComps THEN Cardinality(parts) ELSE MaxNComps
    BY <1>1, <1>8, <1>10, <1>11
  <1>. HIDE DEF parts
  <1>. QED BY <1>10, <1>12, <1>13, <1>14, <1>15 DEF AreLargest, keptparts, g

\* The property, said with AreLargest before a step and after it.
LEMMA LargestBefore ==
  ASSUME ComponentsLargest, what = "components", gpc = "idle"
  PROVE  AreLargest(regions)
  <1>1. {a \in Arcs : arcdist[a] = 0} = Sure
    BY DEF Sure
  <1>2. \A i : Region(i) = Part(regions, i)
    BY DEF Region, Part
  <1>. QED BY <1>1, <1>2 DEF ComponentsLargest, AreLargest, Raster

LEMMA LargestAfter ==
  ASSUME AreLargest(regions'), {a \in Arcs : arcdist'[a] = 0} = Sure
  PROVE  ComponentsLargest'
  <1>1. \A i : Region(i)' = Part(regions', i)
    BY DEF Region, Part
  <1>. QED BY <1>1 DEF ComponentsLargest, AreLargest, Raster

LEMMA ComponentsFinishKeeps ==
  ASSUME ComponentsInv, what = "components", FinishGrowing
  PROVE  ComponentsInv'
  <1>1. AreLargest(regions')
    BY NumberedAtLast
  <1>2. /\ gpc' = "idle" /\ arcdist' = arcdist /\ queue' = queue /\ regionsizes' = regionsizes
    BY DEF FinishGrowing
  <1>3. {a \in Arcs : arcdist'[a] = 0} = Sure
    BY <1>2 DEF Sure
  <1>4. ComponentsLargest'
    BY <1>1, <1>3, LargestAfter
  <1>. QED BY <1>2, <1>4 DEF ComponentsInv

LEMMA ComponentsStart ==
  ASSUME NEW dist, StartGrowing("components", dist)
  PROVE  ComponentsInv'
  <1>1. /\ gpc' = "next" /\ arcdist' = dist
        /\ regions' = [p \in Pixels |-> -1]
        /\ queue' = EmptyQueue(0, 0, 0)
        /\ regioncounter' = 0 /\ regionsizes' = [i \in 0..NRow * NCol |-> 0]
    BY DEF StartGrowing
  <1>2. queue'.hi = 0
    BY <1>1 DEF EmptyQueue, Queue
  <1>3. Region(0)' = {}
    BY <1>1 DEF Region
  <1>4. IsListed'
    <2>1. 1..regioncounter' = {}
      BY <1>1
    <2>. QED BY <1>3, <2>1 DEF IsListed, DroppedAreSmall
  <1>. QED BY <1>1, <1>2, <1>4, Sizes DEF ComponentsInv, IsNumbering

-----------------------------------------------------------------------------
\* Growths of either kind, one after another.

GrowInv ==
    /\ what \in {"none", "components", "regions"}
    /\ what = "none" => gpc = "idle"
    /\ what = "components" => ComponentsInv
    /\ what = "regions" => RegionsInv

THEOREM GrowInvariant == GrowSpec => []GrowInv
  <1>1. GrowOff => GrowInv
    BY DEF GrowOff, GrowInv
  <1>2. GrowInv /\ [GrowNext]_growvars => GrowInv'
    <2>. SUFFICES ASSUME GrowInv, [GrowNext]_growvars PROVE GrowInv'
      OBVIOUS
    <2>1. ASSUME NEW kind \in {"components", "regions"}, NEW dist \in [Arcs -> 0..LargeShort],
                 StartGrowing(kind, dist)
          PROVE  GrowInv'
      <3>1. what' = kind
        BY <2>1 DEF StartGrowing
      <3>. QED BY <2>1, <3>1, StartGrowingStarts, ComponentsStart DEF GrowInv
    <2>2. CASE Grow /\ what = "components"
      <3>1. ComponentsInv /\ ~ MergeRegions
        BY <2>2 DEF GrowInv, MergeRegions
      <3>2. what' = what
        BY <2>2 DEF Grow, NextSource, TakeNode, RegionComplete, MergeRegions, DropComponent,
                    FinishGrowing, StopGrowing
      <3>3. ComponentsInv'
        BY <2>2, <3>1, ComponentSourceKeeps, ComponentTakeKeeps, ComponentCompleteKeeps,
           DropComponentKeeps, ComponentsFinishKeeps DEF Grow
      <3>. QED BY <2>2, <3>2, <3>3 DEF GrowInv
    <2>3. CASE Grow /\ what = "regions"
      <3>1. RegionsInv /\ ~ DropComponent
        BY <2>3 DEF GrowInv, DropComponent
      <3>2. what' = what
        BY <2>3 DEF Grow, NextSource, TakeNode, RegionComplete, MergeRegions, DropComponent,
                    FinishGrowing, StopGrowing
      <3>3. RegionsInv'
        BY <2>3, <3>1, NextSourceKeeps, TakeNodeKeeps, RegionCompleteKeeps, MergeRegionsKeeps,
           FinishGrowingKeeps DEF Grow
      <3>. QED BY <2>3, <3>2, <3>3 DEF GrowInv
    <2>5. Grow => what = "components" \/ what = "regions"
      BY DEF GrowInv, Grow, NextSource, TakeNode, RegionComplete, MergeRegions, DropComponent,
             FinishGrowing, StopGrowing
    <2>4. CASE UNCHANGED growvars
      <3>1. RegionsInv => RegionsInv'
        <4>. HAVE RegionsInv
        <4>1. /\ what' = what /\ gpc' = gpc /\ arcdist' = arcdist /\ regions' = regions
              /\ outcost' = outcost /\ queue' = queue /\ regioncounter' = regioncounter
              /\ regionsizes' = regionsizes /\ closest' = closest /\ lastfromdist' = lastfromdist
          BY <2>4 DEF growvars
        <4>2. /\ Unnumbered' = Unnumbered /\ Waiting(queue)' = Waiting(queue)
              /\ \A i : Region(i)' = Region(i)
              /\ Region(regioncounter)' = Region(regioncounter)
              /\ \A p : IsNeighborOf(closest.region, p)' <=> IsNeighborOf(closest.region, p)
          BY <4>1 DEF Unnumbered, Waiting, IsQueued, RangeOf, Region, IsNeighborOf
        <4>3. IsDistance' /\ IsNumbering' /\ \A i : Settled(i)' <=> Settled(i)
          BY <4>1, <4>2 DEF RegionsInv, IsDistance, IsNumbering, Settled
        <4>4. IsBetween => IsBetween'
          BY <4>1, <4>2, <4>3 DEF IsBetween
        <4>5. IsGrowing => IsGrowing'
          <5>1. (IsAtSource => IsAtSource') /\ (IsOnItsWay => IsOnItsWay') /\ (IsFirstRegion => IsFirstRegion')
            BY <4>1, <4>2 DEF IsAtSource, IsOnItsWay, IsFirstRegion
          <5>2. /\ Holds(queue, Waiting(queue), outcost) => Holds(queue, Waiting(queue), outcost)'
                /\ IsQueue(queue, Pixels) => IsQueue(queue, Pixels)'
            BY <4>1, <4>2
          <5>. QED BY <4>1, <4>2, <4>3, <5>1, <5>2 DEF IsGrowing
        <4>. QED BY <4>1, <4>3, <4>4, <4>5 DEF RegionsInv
      <3>2. ComponentsInv => ComponentsInv'
        <4>1. /\ what' = what /\ gpc' = gpc /\ arcdist' = arcdist /\ regions' = regions
              /\ queue' = queue /\ regioncounter' = regioncounter /\ regionsizes' = regionsizes
          BY <2>4 DEF growvars
        <4>2. /\ Sure' = Sure /\ Unnumbered' = Unnumbered /\ \A i : Region(i)' = Region(i)
              /\ Waiting(queue)' = Waiting(queue) /\ Region(regioncounter)' = Region(regioncounter)
          BY <4>1 DEF Sure, Unnumbered, Region, Waiting, IsQueued, RangeOf
        <4>3. /\ \A i : Finished(i)' <=> Finished(i)
              /\ DroppedAreSmall' <=> DroppedAreSmall
          BY <4>1, <4>2 DEF Finished, Leads, DroppedAreSmall
        <4>4. \A p, i : IsSureStep(p, i)' <=> IsSureStep(p, i)
          BY <4>2 DEF IsSureStep
        <4>5. IsGathering => IsGathering'
          <5>1. HangsTogether(Region(regioncounter) \cup Waiting(queue))
                  => HangsTogether(Region(regioncounter) \cup Waiting(queue))'
            BY <4>1, <4>2, <4>4 DEF HangsTogether
          <5>2. IsOneList(queue) => IsOneList(queue)'
            BY <4>1
          <5>. QED BY <4>1, <4>2, <4>3, <5>1, <5>2 DEF IsGathering
        <4>6. IsListed => IsListed'
          BY <4>1, <4>3 DEF IsListed
        <4>7. ComponentsLargest => ComponentsLargest'
          <5>1. {a \in Arcs : arcdist'[a] = 0} = Sure
            BY <4>1 DEF Sure
          <5>2. CASE what = "components" /\ gpc = "idle"
            <6>. SUFFICES ASSUME ComponentsLargest
                          PROVE  ComponentsLargest'
              OBVIOUS
            <6>1. AreLargest(regions)
              BY <5>2, LargestBefore
            <6>2. AreLargest(regions')
              BY <4>1, <6>1
            <6>. QED BY <5>1, <6>2, LargestAfter
          <5>3. CASE ~ (what = "components" /\ gpc = "idle")
            BY <4>1, <5>3 DEF ComponentsLargest
          <5>. QED BY <5>2, <5>3
        <4>8. IsNumbering => IsNumbering'
          BY <4>1 DEF IsNumbering
        <4>. QED BY <4>1, <4>5, <4>6, <4>7, <4>8 DEF ComponentsInv
      <3>. QED BY <2>4, <3>1, <3>2 DEF growvars, GrowInv
    <2>. QED BY <2>1, <2>2, <2>3, <2>4, <2>5 DEF GrowNext
  <1>. QED BY <1>1, <1>2, PTL DEF GrowSpec

-----------------------------------------------------------------------------
\* The results.

\* The regions that have stopped growing hang together, however they are cut in two.
RegionsWhole ==
    what = "regions" /\ gpc # "grow" => \A i \in 0..regioncounter : IsWhole(Region(i))

\* GrowRegions() numbers its regions without a gap, counts their pixels, leaves none
\* smaller than wanted and no pixel out; MergeRegions() is never asked to merge a
\* region with itself, a walk without end.
THEOREM RegionsAreCounted == GrowSpec => []RegionsCounted
  <1>1. GrowInv => RegionsCounted
    BY DEF GrowInv, RegionsInv, ComponentsInv, RegionsCounted, IsBetween, Settled, IsNumbering
  <1>. QED BY <1>1, GrowInvariant, PTL

\* A region is in one piece, whichever way the pixels were taken and the small
\* regions merged.
THEOREM RegionsAreWhole == GrowSpec => []RegionsWhole
  <1>1. GrowInv => RegionsWhole
    BY DEF GrowInv, RegionsInv, RegionsWhole, IsBetween, Settled
  <1>. QED BY <1>1, GrowInvariant, PTL

\* GrowRegions() cuts the tile into regions each of which is reached from its first
\* pixel without leaving it, numbered without a gap, counted, and large enough.
THEOREM RegionsAreSound == GrowSpec => []RegionsSound
  <1>1. GrowInv => RegionsSound
    <2>. SUFFICES ASSUME GrowInv, what = "regions", gpc # "grow", NEW i \in 0..regioncounter
                  PROVE  Reached(FirstOf(Region(i)), Region(i), Arcs) = Region(i)
      BY DEF RegionsSound, GrowInv, RegionsInv, ComponentsInv, RegionsCounted, IsBetween, Settled, IsNumbering
    <2>1. IsWhole(Region(i)) /\ Region(i) # {} /\ Region(i) \in SUBSET Pixels
      BY DEF GrowInv, RegionsInv, IsBetween, Settled, Region
    <2>2. FirstOf(Region(i)) \in Region(i)
      BY <2>1, FirstIsFirst
    <2>. QED BY <2>1, <2>2, WholeIsReached
  <1>. QED BY <1>1, GrowInvariant, PTL

\* GrowConnCompsMask() keeps the largest of the sets of pixels that arcs without doubt
\* hold together, as many as wanted and none too small, numbered from one in the order
\* of their first pixels.
THEOREM LargestComponents == GrowSpec => []ComponentsLargest
  <1>1. GrowInv => ComponentsLargest
    BY DEF GrowInv, ComponentsInv, ComponentsLargest
  <1>. QED BY <1>1, GrowInvariant, PTL

\* A region that has stopped and is too small has an older one beside it: it is the
\* one it is merged with.
THEOREM MergedWithNeighbor ==
  GrowSpec => [][MergeRegions => /\ closest.region \in 0..regioncounter - 1
                                 /\ \E p \in Region(regioncounter) : IsNeighborOf(closest.region, p)]_growvars
  <1>1. ASSUME GrowInv, MergeRegions
        PROVE  /\ closest.region \in 0..regioncounter - 1
               /\ \E p \in Region(regioncounter) : IsNeighborOf(closest.region, p)
    <2>1. what = "regions" /\ StopGrowing /\ ~ BigEnough
      BY <1>1 DEF MergeRegions
    <2>2. IsGrowing /\ closest.dist < NotReached
      BY <1>1, <2>1, StoppedRegion DEF GrowInv
    <2>. QED BY <2>2 DEF IsGrowing
  <1>. QED BY <1>1, GrowInvariant, PTL DEF GrowSpec

-----------------------------------------------------------------------------
\* GrowSpec starts from any distances of a range. ThickenCosts() gives no others.

LEMMA Rounded ==
  ASSUME NEW t \in Nat, NEW n \in Nat \ {0}
  PROVE  Rint(t, n) \in Nat
  <1>1. t \div n \in Nat /\ t % n \in Nat
    OBVIOUS
  <1>. QED BY <1>1 DEF Rint

LEMMA InLineFinite ==
  ASSUME NEW a \in Arcs
  PROVE  IsFiniteSet(InLine(a)) /\ Cardinality(InLine(a)) \in Nat /\ InLine(a) \subseteq Arcs
  <1>1. InLine(a) \in SUBSET Arcs
    BY DEF InLine, Arcs
  <1>2. IsFiniteSet(InLine(a))
    BY <1>1, Grid, FS_Subset
  <1>. QED BY <1>1, <1>2, FS_CardinalityType

LEMMA DistancesInRange ==
  ASSUME NEW doubt \in [Arcs -> Nat]
  PROVE  Thicken(doubt) \in [Arcs -> 0..LargeShort]
  <1>. SUFFICES ASSUME NEW a \in Arcs PROVE Thicken(doubt)[a] \in 0..LargeShort
    BY DEF Thicken
  <1>. DEFINE near(b) == IF b \in InLine(a) THEN doubt[b] ELSE 0
              dir == IF a \in RowArcs THEN <<0, 1>> ELSE <<1, 0>>
              total == 2 * doubt[a] + near(<<a[1] - dir[1], a[2] - dir[2]>>)
                                    + near(<<a[1] + dir[1], a[2] + dir[2]>>)
              mean == Rint(total, 2 + Cardinality(InLine(a)))
  <1>1. Thicken(doubt)[a] = IF mean > LargeShort THEN LargeShort ELSE mean
    BY DEF Thicken
  <1>2. \A b : near(b) \in Nat
    BY InLineFinite
  <1>3. total \in Nat
    <2>. HIDE DEF near, dir
    <2>. QED BY <1>2
  <1>4. 2 + Cardinality(InLine(a)) \in Nat \ {0}
    BY InLineFinite
  <1>. HIDE DEF total
  <1>5. mean \in Nat
    BY <1>3, <1>4, Rounded
  <1>. HIDE DEF mean
  <1>. QED BY <1>1, <1>5, Sizes
=============================================================================
