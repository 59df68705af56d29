---------------------------- MODULE MSTInitProofs ----------------------------
(***************************************************************************)
(* SolveMST() and DischargeTree() on an image of any size, with any costs  *)
(* and residues: the arcs marked are a tree that holds every residue, and  *)
(* the flows along it balance the residues as long as none is clipped.     *)
(***************************************************************************)
EXTENDS MSTInit, BucketQueueProofs

-----------------------------------------------------------------------------
\* The grid.

LEMMA Sizes == NRow \in Nat /\ NRow >= 2 /\ NCol \in Nat /\ NCol >= 3
  BY SizeAssumption

\* The nodes an arc leads from and to.
ArcStart(a) ==
    IF a[1] < NRow - 1 THEN AtOrGround(a[1], a[2] - 1) ELSE AtOrGround(a[1] - NRow, a[2])
ArcEnd(a) ==
    IF a[1] < NRow - 1 THEN AtOrGround(a[1], a[2]) ELSE AtOrGround(a[1] - NRow + 1, a[2])

\* b is the arc out of n that b.dir says it is.
LeavesBy(n, b) ==
    /\ b.arc \in Arcs
    /\ \/ b.dir = 1 /\ n = ArcStart(b.arc) /\ b.node = ArcEnd(b.arc)
       \/ b.dir = -1 /\ n = ArcEnd(b.arc) /\ b.node = ArcStart(b.arc)

LEMMA InGrid ==
  ASSUME NEW r, NEW c
  PROVE  /\ <<r, c>> \in GridNodes <=> r \in 0..NRow - 2 /\ c \in 0..NCol - 2
         /\ <<r, c>> \in RowArcs <=> r \in 0..NRow - 2 /\ c \in 0..NCol - 1
         /\ <<r, c>> \in ColArcs <=> r \in NRow - 1..2 * NRow - 2 /\ c \in 0..NCol - 2
         /\ <<r, c>> \in CornerArcs <=> (r = NRow - 1 \/ r = 2 * NRow - 2) /\ (c = 0 \/ c = NCol - 2)
         /\ AtOrGround(r, c) \in GroundedNodes
  BY DEF GridNodes, RowArcs, ColArcs, CornerArcs, AtOrGround, GroundedNodes

LEMMA NotANode == Ground \notin GridNodes /\ NoNode \notin GroundedNodes
  <1>1. \A n \in GridNodes : n[1] >= 0
    BY Sizes DEF GridNodes
  <1>. QED BY <1>1 DEF Ground, NoNode, GroundedNodes

\* The ends of the arcs, by the row and the column.
LEMMA RowArcEnds ==
  ASSUME NEW r \in 0..NRow - 2, NEW c \in 0..NCol - 1, NEW d, d = c - 1
  PROVE  /\ <<r, c>> \in Arcs
         /\ ArcStart(<<r, c>>) = AtOrGround(r, d) /\ ArcEnd(<<r, c>>) = AtOrGround(r, c)
  BY Sizes, InGrid DEF Arcs, ArcStart, ArcEnd

LEMMA ColArcEnds ==
  ASSUME NEW r \in 0..NRow - 1, NEW c \in 0..NCol - 2, NEW q, q = NRow - 1 + r,
         NEW p, p = r - 1
  PROVE  /\ <<q, c>> \in Arcs
         /\ ArcStart(<<q, c>>) = AtOrGround(p, c) /\ ArcEnd(<<q, c>>) = AtOrGround(r, c)
  <1>1. q \in NRow - 1..2 * NRow - 2 /\ ~ (q < NRow - 1)
    BY Sizes
  <1>2. <<q, c>> \in ColArcs
    BY <1>1, InGrid
  <1>3. ArcStart(<<q, c>>) = AtOrGround(q - NRow, c) /\ ArcEnd(<<q, c>>) = AtOrGround(q - NRow + 1, c)
    BY <1>1 DEF ArcStart, ArcEnd
  <1>4. q - NRow = p /\ q - NRow + 1 = r
    BY Sizes
  <1>. QED BY <1>2, <1>3, <1>4 DEF Arcs

\* An arc has two ends.
LEMMA EndsDiffer ==
  ASSUME NEW a \in Arcs
  PROVE  /\ ArcStart(a) \in GroundedNodes /\ ArcEnd(a) \in GroundedNodes
         /\ ArcStart(a) # ArcEnd(a)
  <1>1. CASE a \in RowArcs
    <2>1. PICK r \in 0..NRow - 2, c \in 0..NCol - 1 : a = <<r, c>>
      BY <1>1 DEF RowArcs
    <2>2. ArcStart(a) = AtOrGround(r, c - 1) /\ ArcEnd(a) = AtOrGround(r, c)
      BY <2>1, RowArcEnds
    <2>3. <<r, c - 1>> \in GridNodes \/ <<r, c>> \in GridNodes
      BY Sizes, InGrid
    <2>4. <<r, c - 1>> # <<r, c>>
      OBVIOUS
    <2>. QED BY <2>2, <2>3, <2>4, InGrid, NotANode DEF AtOrGround
  <1>2. CASE a \in ColArcs
    <2>1. PICK q \in NRow - 1..2 * NRow - 2, c \in 0..NCol - 2 : a = <<q, c>>
      BY <1>2 DEF ColArcs
    <2>. DEFINE r == q - (NRow - 1)
    <2>2. r \in 0..NRow - 1 /\ q = NRow - 1 + r
      BY Sizes
    <2>. HIDE DEF r
    <2>3. ArcStart(a) = AtOrGround(r - 1, c) /\ ArcEnd(a) = AtOrGround(r, c)
      BY <2>1, <2>2, ColArcEnds
    <2>4. <<r - 1, c>> \in GridNodes \/ <<r, c>> \in GridNodes
      BY <2>2, Sizes, InGrid
    <2>5. <<r - 1, c>> # <<r, c>>
      BY <2>2
    <2>. QED BY <2>3, <2>4, <2>5, InGrid, NotANode DEF AtOrGround
  <1>. QED BY <1>1, <1>2 DEF Arcs

LEMMA InOwnRange ==
  ASSUME NEW n \in Nat, NEW s, s = [i \in 1..n |-> s[i]]
  PROVE  s \in Seq(RangeOf(s))
  <1>1. s \in [1..n -> RangeOf(s)]
    BY DEF RangeOf
  <1>. QED BY <1>1, SeqDef

LEMMA RangeOfBoth ==
  ASSUME NEW s, NEW t, s \in Seq(RangeOf(s)), t \in Seq(RangeOf(t))
  PROVE  RangeOf(s \o t) = RangeOf(s) \cup RangeOf(t) /\ s \o t \in Seq(RangeOf(s \o t))
  <1>1. /\ DOMAIN s = 1..Len(s) /\ DOMAIN t = 1..Len(t) /\ Len(s) \in Nat /\ Len(t) \in Nat
        /\ DOMAIN (s \o t) = 1..Len(s) + Len(t)
    OBVIOUS
  <1>2. /\ \A i \in 1..Len(s) : (s \o t)[i] = s[i] /\ i \in 1..Len(s) + Len(t)
        /\ \A i \in 1..Len(t) : (s \o t)[Len(s) + i] = t[i] /\ Len(s) + i \in 1..Len(s) + Len(t)
        /\ \A i \in 1..Len(s) + Len(t) : i \in 1..Len(s) \/ i - Len(s) \in 1..Len(t)
    OBVIOUS
  <1>3. \A i \in 1..Len(s) + Len(t) : i \notin 1..Len(s) => (s \o t)[i] = t[i - Len(s)]
    OBVIOUS
  <1>4. RangeOf(s \o t) = RangeOf(s) \cup RangeOf(t)
    <2>1. ASSUME NEW x \in RangeOf(s \o t) PROVE x \in RangeOf(s) \cup RangeOf(t)
      <3>1. PICK i \in 1..Len(s) + Len(t) : x = (s \o t)[i]
        BY <1>1 DEF RangeOf
      <3>. QED BY <1>1, <1>2, <1>3, <3>1 DEF RangeOf
    <2>2. RangeOf(s) \subseteq RangeOf(s \o t)
      BY <1>1, <1>2 DEF RangeOf
    <2>3. RangeOf(t) \subseteq RangeOf(s \o t)
      BY <1>1, <1>2 DEF RangeOf
    <2>. QED BY <2>1, <2>2, <2>3
  <1>5. s \o t \in Seq(RangeOf(s \o t))
    <2>. DEFINE U == RangeOf(s) \cup RangeOf(t)
    <2>1. s \in Seq(U) /\ t \in Seq(U)
      BY SeqMonotonic
    <2>. HIDE DEF U
    <2>2. s \o t \in Seq(U)
      BY <2>1
    <2>. QED BY <1>4, <2>2 DEF U
  <1>. QED BY <1>4, <1>5

\* The arcs from ground, edge by edge.
LEMMA GroundNeighbors ==
  /\ RangeOf(GridNeighbors[Ground]) =
       {Nbr(<<i - 1, 0>>, <<i - 1, 0>>, 1) : i \in 1..NRow - 1}
       \cup {Nbr(<<i - 1, NCol - 2>>, <<i - 1, NCol - 1>>, -1) : i \in 1..NRow - 1}
       \cup {Nbr(<<0, i>>, <<NRow - 1, i>>, 1) : i \in 1..NCol - 3}
       \cup {Nbr(<<NRow - 2, i>>, <<2 * NRow - 2, i>>, -1) : i \in 1..NCol - 3}
  /\ GridNeighbors[Ground] \in Seq(RangeOf(GridNeighbors[Ground]))
  <1>. DEFINE s1 == [i \in 1..NRow - 1 |-> Nbr(<<i - 1, 0>>, <<i - 1, 0>>, 1)]
              s2 == [i \in 1..NRow - 1 |-> Nbr(<<i - 1, NCol - 2>>, <<i - 1, NCol - 1>>, -1)]
              s3 == [i \in 1..NCol - 3 |-> Nbr(<<0, i>>, <<NRow - 1, i>>, 1)]
              s4 == [i \in 1..NCol - 3 |-> Nbr(<<NRow - 2, i>>, <<2 * NRow - 2, i>>, -1)]
  <1>1. GridNeighbors[Ground] = s1 \o s2 \o s3 \o s4
    BY NotANode DEF GridNeighbors
  <1>2. /\ RangeOf(s1) = {Nbr(<<i - 1, 0>>, <<i - 1, 0>>, 1) : i \in 1..NRow - 1}
        /\ RangeOf(s2) = {Nbr(<<i - 1, NCol - 2>>, <<i - 1, NCol - 1>>, -1) : i \in 1..NRow - 1}
        /\ RangeOf(s3) = {Nbr(<<0, i>>, <<NRow - 1, i>>, 1) : i \in 1..NCol - 3}
        /\ RangeOf(s4) = {Nbr(<<NRow - 2, i>>, <<2 * NRow - 2, i>>, -1) : i \in 1..NCol - 3}
    BY DEF RangeOf
  <1>3. NRow - 1 \in Nat /\ NCol - 3 \in Nat
    BY Sizes
  <1>4. s1 \in Seq(RangeOf(s1)) /\ s2 \in Seq(RangeOf(s2)) /\ s3 \in Seq(RangeOf(s3)) /\ s4 \in Seq(RangeOf(s4))
    <2>1. /\ s1 = [i \in 1..NRow - 1 |-> s1[i]] /\ s2 = [i \in 1..NRow - 1 |-> s2[i]]
          /\ s3 = [i \in 1..NCol - 3 |-> s3[i]] /\ s4 = [i \in 1..NCol - 3 |-> s4[i]]
      OBVIOUS
    <2>. HIDE DEF s1, s2, s3, s4
    <2>. QED BY <1>3, <2>1, InOwnRange
  <1>. HIDE DEF s1, s2, s3, s4
  <1>5. RangeOf(s1 \o s2) = RangeOf(s1) \cup RangeOf(s2) /\ s1 \o s2 \in Seq(RangeOf(s1 \o s2))
    BY <1>4, RangeOfBoth
  <1>6. /\ RangeOf((s1 \o s2) \o s3) = RangeOf(s1 \o s2) \cup RangeOf(s3)
        /\ (s1 \o s2) \o s3 \in Seq(RangeOf((s1 \o s2) \o s3))
    BY <1>4, <1>5, RangeOfBoth
  <1>7. /\ RangeOf(((s1 \o s2) \o s3) \o s4) = RangeOf((s1 \o s2) \o s3) \cup RangeOf(s4)
        /\ ((s1 \o s2) \o s3) \o s4 \in Seq(RangeOf(((s1 \o s2) \o s3) \o s4))
    BY <1>4, <1>6, RangeOfBoth
  <1>. QED BY <1>1, <1>2, <1>5, <1>6, <1>7

LEMMA NodeNeighbors ==
  ASSUME NEW r \in 0..NRow - 2, NEW c \in 0..NCol - 2
  PROVE  /\ RangeOf(GridNeighbors[<<r, c>>]) =
              {Nbr(AtOrGround(r, c + 1), <<r, c + 1>>, 1),
               Nbr(AtOrGround(r + 1, c), <<NRow + r, c>>, 1),
               Nbr(AtOrGround(r, c - 1), <<r, c>>, -1),
               Nbr(AtOrGround(r - 1, c), <<NRow - 1 + r, c>>, -1)}
         /\ GridNeighbors[<<r, c>>] \in Seq(RangeOf(GridNeighbors[<<r, c>>]))
  <1>1. <<r, c>> \in GroundedNodes /\ <<r, c>> # Ground
    BY InGrid, NotANode DEF GroundedNodes
  <1>2. GridNeighbors[<<r, c>>] =
          << Nbr(AtOrGround(r, c + 1), <<r, c + 1>>, 1),
             Nbr(AtOrGround(r + 1, c), <<NRow + r, c>>, 1),
             Nbr(AtOrGround(r, c - 1), <<r, c>>, -1),
             Nbr(AtOrGround(r - 1, c), <<NRow - 1 + r, c>>, -1) >>
    BY <1>1 DEF GridNeighbors, GroundedNodes
  <1>. HIDE DEF GridNeighbors
  <1>. QED BY <1>2 DEF RangeOf

LEMMA OnGrid ==
  ASSUME NEW r \in 0..NRow - 2, NEW c \in 0..NCol - 2
  PROVE  AtOrGround(r, c) = <<r, c>> /\ <<r, c>> \in GroundedNodes
  BY InGrid DEF AtOrGround, GroundedNodes

LEMMA OffGrid ==
  ASSUME NEW r, NEW c, ~ (r \in 0..NRow - 2 /\ c \in 0..NCol - 2)
  PROVE  AtOrGround(r, c) = Ground
  BY InGrid DEF AtOrGround

\* The list of a node names the arcs out of it rightly.
LEMMA ArcsOut ==
  ASSUME NEW n \in GroundedNodes, NEW b \in RangeOf(GridNeighbors[n])
  PROVE  LeavesBy(n, b)
  <1>1. CASE n = Ground
    <2>1. CASE b \in {Nbr(<<i - 1, 0>>, <<i - 1, 0>>, 1) : i \in 1..NRow - 1}
      <3>1. PICK i \in 1..NRow - 1 : b = Nbr(<<i - 1, 0>>, <<i - 1, 0>>, 1)
        BY <2>1
      <3>2. i - 1 \in 0..NRow - 2 /\ 0 \in 0..NCol - 2 /\ 0 \in 0..NCol - 1 /\ ~ (0 - 1 \in 0..NCol - 2)
        BY Sizes
      <3>3. <<i - 1, 0>> \in Arcs /\ ArcStart(<<i - 1, 0>>) = Ground /\ ArcEnd(<<i - 1, 0>>) = <<i - 1, 0>>
        BY <3>2, RowArcEnds, OnGrid, OffGrid
      <3>. QED BY <1>1, <3>1, <3>3 DEF LeavesBy, Nbr
    <2>2. CASE b \in {Nbr(<<i - 1, NCol - 2>>, <<i - 1, NCol - 1>>, -1) : i \in 1..NRow - 1}
      <3>1. PICK i \in 1..NRow - 1 : b = Nbr(<<i - 1, NCol - 2>>, <<i - 1, NCol - 1>>, -1)
        BY <2>2
      <3>2. /\ i - 1 \in 0..NRow - 2 /\ NCol - 1 \in 0..NCol - 1 /\ ~ (NCol - 1 \in 0..NCol - 2)
            /\ NCol - 1 - 1 = NCol - 2 /\ NCol - 2 \in 0..NCol - 2
        BY Sizes
      <3>3. /\ <<i - 1, NCol - 1>> \in Arcs
            /\ ArcEnd(<<i - 1, NCol - 1>>) = AtOrGround(i - 1, NCol - 1)
            /\ ArcStart(<<i - 1, NCol - 1>>) = AtOrGround(i - 1, NCol - 2)
        BY <3>2, RowArcEnds
      <3>4. /\ <<i - 1, NCol - 1>> \in Arcs /\ ArcEnd(<<i - 1, NCol - 1>>) = Ground
            /\ ArcStart(<<i - 1, NCol - 1>>) = <<i - 1, NCol - 2>>
        BY <3>2, <3>3, OnGrid, OffGrid
      <3>. QED BY <1>1, <3>1, <3>4 DEF LeavesBy, Nbr
    <2>3. CASE b \in {Nbr(<<0, i>>, <<NRow - 1, i>>, 1) : i \in 1..NCol - 3}
      <3>1. PICK i \in 1..NCol - 3 : b = Nbr(<<0, i>>, <<NRow - 1, i>>, 1)
        BY <2>3
      <3>2. /\ 0 \in 0..NRow - 1 /\ 0 \in 0..NRow - 2 /\ i \in 0..NCol - 2 /\ ~ (0 - 1 \in 0..NRow - 2)
            /\ NRow - 1 + 0 = NRow - 1
        BY Sizes
      <3>3. /\ <<NRow - 1, i>> \in Arcs
            /\ ArcStart(<<NRow - 1, i>>) = AtOrGround(0 - 1, i)
            /\ ArcEnd(<<NRow - 1, i>>) = AtOrGround(0, i)
        BY <3>2, ColArcEnds
      <3>4. <<NRow - 1, i>> \in Arcs /\ ArcStart(<<NRow - 1, i>>) = Ground /\ ArcEnd(<<NRow - 1, i>>) = <<0, i>>
        BY <3>2, <3>3, OnGrid, OffGrid
      <3>. QED BY <1>1, <3>1, <3>4 DEF LeavesBy, Nbr
    <2>4. CASE b \in {Nbr(<<NRow - 2, i>>, <<2 * NRow - 2, i>>, -1) : i \in 1..NCol - 3}
      <3>1. PICK i \in 1..NCol - 3 : b = Nbr(<<NRow - 2, i>>, <<2 * NRow - 2, i>>, -1)
        BY <2>4
      <3>2. /\ NRow - 1 \in 0..NRow - 1 /\ NRow - 2 \in 0..NRow - 2 /\ i \in 0..NCol - 2
            /\ ~ (NRow - 1 \in 0..NRow - 2)
            /\ NRow - 1 + (NRow - 1) = 2 * NRow - 2 /\ NRow - 1 - 1 = NRow - 2
        BY Sizes
      <3>3. /\ <<2 * NRow - 2, i>> \in Arcs
            /\ ArcEnd(<<2 * NRow - 2, i>>) = AtOrGround(NRow - 1, i)
            /\ ArcStart(<<2 * NRow - 2, i>>) = AtOrGround(NRow - 2, i)
        BY <3>2, ColArcEnds
      <3>4. /\ <<2 * NRow - 2, i>> \in Arcs /\ ArcEnd(<<2 * NRow - 2, i>>) = Ground
            /\ ArcStart(<<2 * NRow - 2, i>>) = <<NRow - 2, i>>
        BY <3>2, <3>3, OnGrid, OffGrid
      <3>. QED BY <1>1, <3>1, <3>4 DEF LeavesBy, Nbr
    <2>. QED BY <1>1, <2>1, <2>2, <2>3, <2>4, GroundNeighbors
  <1>2. CASE n # Ground
    <2>1. PICK r \in 0..NRow - 2, c \in 0..NCol - 2 : n = <<r, c>>
      BY <1>2 DEF GroundedNodes, GridNodes
    <2>2. /\ c + 1 \in 0..NCol - 1 /\ c + 1 - 1 = c /\ c \in 0..NCol - 1
          /\ r + 1 \in 0..NRow - 1 /\ r + 1 - 1 = r /\ r \in 0..NRow - 1 /\ NRow - 1 + (r + 1) = NRow + r
      BY Sizes
    <2>3. AtOrGround(r, c) = n
      BY <2>1, OnGrid
    <2>4. /\ <<r, c + 1>> \in Arcs /\ ArcStart(<<r, c + 1>>) = n
          /\ ArcEnd(<<r, c + 1>>) = AtOrGround(r, c + 1)
      BY <2>2, <2>3, RowArcEnds
    <2>5. /\ <<NRow + r, c>> \in Arcs /\ ArcStart(<<NRow + r, c>>) = n
          /\ ArcEnd(<<NRow + r, c>>) = AtOrGround(r + 1, c)
      BY <2>2, <2>3, ColArcEnds
    <2>6. <<r, c>> \in Arcs /\ ArcStart(<<r, c>>) = AtOrGround(r, c - 1) /\ ArcEnd(<<r, c>>) = n
      BY <2>2, <2>3, RowArcEnds
    <2>7. /\ <<NRow - 1 + r, c>> \in Arcs /\ ArcStart(<<NRow - 1 + r, c>>) = AtOrGround(r - 1, c)
          /\ ArcEnd(<<NRow - 1 + r, c>>) = n
      BY <2>2, <2>3, ColArcEnds
    <2>8. \/ b = Nbr(AtOrGround(r, c + 1), <<r, c + 1>>, 1)
          \/ b = Nbr(AtOrGround(r + 1, c), <<NRow + r, c>>, 1)
          \/ b = Nbr(AtOrGround(r, c - 1), <<r, c>>, -1)
          \/ b = Nbr(AtOrGround(r - 1, c), <<NRow - 1 + r, c>>, -1)
      BY <2>1, NodeNeighbors
    <2>. QED BY <2>4, <2>5, <2>6, <2>7, <2>8 DEF LeavesBy, Nbr
  <1>. QED BY <1>1, <1>2

LEMMA NeighborFacts ==
  ASSUME NEW n \in GroundedNodes
  PROVE  /\ GridNeighbors[n] \in Seq(RangeOf(GridNeighbors[n]))
         /\ DOMAIN GridNeighbors[n] = 1..Len(GridNeighbors[n]) /\ Len(GridNeighbors[n]) \in Nat \ {0}
         /\ \A i \in DOMAIN GridNeighbors[n] : GridNeighbors[n][i] \in RangeOf(GridNeighbors[n])
         /\ \A b \in RangeOf(GridNeighbors[n]) :
              /\ b.node \in GroundedNodes /\ b.node # n /\ b.arc \in Arcs /\ b.dir \in {1, -1}
              /\ \E i \in DOMAIN GridNeighbors[n] : b = GridNeighbors[n][i]
  <1>1. /\ GridNeighbors[n] \in Seq(RangeOf(GridNeighbors[n]))
        /\ \E x : x \in RangeOf(GridNeighbors[n])
    <2>1. CASE n = Ground
      <3>1. 1 \in 1..NRow - 1
        BY Sizes
      <3>. QED BY <2>1, <3>1, GroundNeighbors
    <2>2. CASE n # Ground
      <3>1. PICK r \in 0..NRow - 2, c \in 0..NCol - 2 : n = <<r, c>>
        BY <2>2 DEF GroundedNodes, GridNodes
      <3>. QED BY <3>1, NodeNeighbors
    <2>. QED BY <2>1, <2>2
  <1>2. /\ DOMAIN GridNeighbors[n] = 1..Len(GridNeighbors[n]) /\ Len(GridNeighbors[n]) \in Nat
        /\ DOMAIN GridNeighbors[n] # {}
    BY <1>1 DEF RangeOf
  <1>3. /\ \A i \in DOMAIN GridNeighbors[n] : GridNeighbors[n][i] \in RangeOf(GridNeighbors[n])
        /\ \A b \in RangeOf(GridNeighbors[n]) : \E i \in DOMAIN GridNeighbors[n] : b = GridNeighbors[n][i]
    BY DEF RangeOf
  <1>4. \A b \in RangeOf(GridNeighbors[n]) :
          b.node \in GroundedNodes /\ b.node # n /\ b.arc \in Arcs /\ b.dir \in {1, -1}
    <2>1. \A b \in RangeOf(GridNeighbors[n]) : LeavesBy(n, b)
      BY ArcsOut
    <2>. QED BY <2>1, EndsDiffer DEF LeavesBy
  <1>. QED BY <1>1, <1>2, <1>3, <1>4

\* The same arc in two lists is one arc seen from its two ends.
LEMMA SameArc ==
  ASSUME NEW n \in GroundedNodes, NEW b \in RangeOf(GridNeighbors[n]),
         NEW m \in GroundedNodes, NEW c \in RangeOf(GridNeighbors[m]), b.arc = c.arc
  PROVE  \/ n = m /\ b.node = c.node /\ b.dir = c.dir
         \/ n = c.node /\ b.node = m /\ b.dir = -c.dir
  <1>1. LeavesBy(n, b) /\ LeavesBy(m, c)
    BY ArcsOut
  <1>2. b.arc \in Arcs
    BY <1>1 DEF LeavesBy
  <1>3. ArcStart(b.arc) # ArcEnd(b.arc)
    BY <1>2, EndsDiffer
  <1>. QED BY <1>1, <1>3 DEF LeavesBy

\* Every arc that is used is in the lists of both its ends.
LEMMA IsListed ==
  ASSUME NEW a \in Arcs \ CornerArcs
  PROVE  /\ \E b \in RangeOf(GridNeighbors[ArcStart(a)]) : b.arc = a
         /\ \E b \in RangeOf(GridNeighbors[ArcEnd(a)]) : b.arc = a
  <1>1. CASE a \in RowArcs
    <2>1. PICK r \in 0..NRow - 2, c \in 0..NCol - 1 : a = <<r, c>>
      BY <1>1 DEF RowArcs
    <2>2. ArcStart(a) = AtOrGround(r, c - 1) /\ ArcEnd(a) = AtOrGround(r, c)
      BY <2>1, RowArcEnds
    <2>3. PICK i \in 1..NRow - 1 : i - 1 = r
      <3>1. r + 1 \in 1..NRow - 1 /\ r + 1 - 1 = r
        BY Sizes
      <3>. QED BY <3>1
    <2>4. \E b \in RangeOf(GridNeighbors[ArcStart(a)]) : b.arc = a
      <3>1. CASE c = 0
        <4>1. ArcStart(a) = Ground
          BY <2>2, <3>1, OffGrid
        <4>2. Nbr(<<i - 1, 0>>, <<i - 1, 0>>, 1) \in RangeOf(GridNeighbors[Ground])
          BY <2>3, GroundNeighbors
        <4>. QED BY <2>1, <2>3, <3>1, <4>1, <4>2 DEF Nbr
      <3>2. CASE c # 0
        <4>1. c - 1 \in 0..NCol - 2 /\ c - 1 + 1 = c
          BY <3>2, Sizes
        <4>2. ArcStart(a) = <<r, c - 1>>
          BY <2>2, <4>1, OnGrid
        <4>3. Nbr(AtOrGround(r, c - 1 + 1), <<r, c - 1 + 1>>, 1) \in RangeOf(GridNeighbors[<<r, c - 1>>])
          BY <4>1, NodeNeighbors
        <4>. QED BY <2>1, <4>1, <4>2, <4>3 DEF Nbr
      <3>. QED BY <3>1, <3>2
    <2>5. \E b \in RangeOf(GridNeighbors[ArcEnd(a)]) : b.arc = a
      <3>1. CASE c = NCol - 1
        <4>1. ArcEnd(a) = Ground
          BY <2>2, <3>1, Sizes, OffGrid
        <4>2. Nbr(<<i - 1, NCol - 2>>, <<i - 1, NCol - 1>>, -1) \in RangeOf(GridNeighbors[Ground])
          BY <2>3, GroundNeighbors
        <4>. QED BY <2>1, <2>3, <3>1, <4>1, <4>2 DEF Nbr
      <3>2. CASE c # NCol - 1
        <4>1. c \in 0..NCol - 2
          BY <3>2, Sizes
        <4>2. ArcEnd(a) = <<r, c>>
          BY <2>2, <4>1, OnGrid
        <4>3. Nbr(AtOrGround(r, c - 1), <<r, c>>, -1) \in RangeOf(GridNeighbors[<<r, c>>])
          BY <4>1, NodeNeighbors
        <4>. QED BY <2>1, <4>2, <4>3 DEF Nbr
      <3>. QED BY <3>1, <3>2
    <2>. QED BY <2>4, <2>5
  <1>2. CASE a \in ColArcs
    <2>1. PICK q \in NRow - 1..2 * NRow - 2, c \in 0..NCol - 2 : a = <<q, c>>
      BY <1>2 DEF ColArcs
    <2>2. PICK r \in 0..NRow - 1 : q = NRow - 1 + r
      <3>1. q - (NRow - 1) \in 0..NRow - 1 /\ q = NRow - 1 + (q - (NRow - 1))
        BY Sizes
      <3>. QED BY <3>1
    <2>3. ArcStart(a) = AtOrGround(r - 1, c) /\ ArcEnd(a) = AtOrGround(r, c)
      BY <2>1, <2>2, ColArcEnds
    <2>4. (r = 0 \/ r = NRow - 1) => c \in 1..NCol - 3
      BY <2>1, <2>2, Sizes, InGrid
    <2>5. \E b \in RangeOf(GridNeighbors[ArcStart(a)]) : b.arc = a
      <3>1. CASE r = 0
        <4>1. ArcStart(a) = Ground
          BY <2>3, <3>1, OffGrid
        <4>2. Nbr(<<0, c>>, <<NRow - 1, c>>, 1) \in RangeOf(GridNeighbors[Ground])
          BY <2>4, <3>1, GroundNeighbors
        <4>3. q = NRow - 1
          BY <2>2, <3>1, Sizes
        <4>. QED BY <2>1, <4>1, <4>2, <4>3 DEF Nbr
      <3>2. CASE r # 0
        <4>1. r - 1 \in 0..NRow - 2 /\ NRow + (r - 1) = q
          BY <2>2, <3>2, Sizes
        <4>2. ArcStart(a) = <<r - 1, c>>
          BY <2>3, <4>1, OnGrid
        <4>3. Nbr(AtOrGround(r - 1 + 1, c), <<NRow + (r - 1), c>>, 1) \in RangeOf(GridNeighbors[<<r - 1, c>>])
          BY <4>1, NodeNeighbors
        <4>. QED BY <2>1, <4>1, <4>2, <4>3 DEF Nbr
      <3>. QED BY <3>1, <3>2
    <2>6. \E b \in RangeOf(GridNeighbors[ArcEnd(a)]) : b.arc = a
      <3>1. CASE r = NRow - 1
        <4>1. ArcEnd(a) = Ground
          BY <2>3, <3>1, Sizes, OffGrid
        <4>2. Nbr(<<NRow - 2, c>>, <<2 * NRow - 2, c>>, -1) \in RangeOf(GridNeighbors[Ground])
          BY <2>4, <3>1, GroundNeighbors
        <4>3. q = 2 * NRow - 2
          BY <2>2, <3>1, Sizes
        <4>. QED BY <2>1, <4>1, <4>2, <4>3 DEF Nbr
      <3>2. CASE r # NRow - 1
        <4>1. r \in 0..NRow - 2
          BY <3>2, Sizes
        <4>2. ArcEnd(a) = <<r, c>>
          BY <2>3, <4>1, OnGrid
        <4>3. Nbr(AtOrGround(r - 1, c), <<NRow - 1 + r, c>>, -1) \in RangeOf(GridNeighbors[<<r, c>>])
          BY <4>1, NodeNeighbors
        <4>. QED BY <2>1, <2>2, <4>2, <4>3 DEF Nbr
      <3>. QED BY <3>1, <3>2
    <2>. QED BY <2>5, <2>6
  <1>. QED BY <1>1, <1>2 DEF Arcs

\* So the other end has it, too.
LEMMA WayBack ==
  ASSUME NEW n \in GroundedNodes, NEW b \in RangeOf(GridNeighbors[n]), b.arc \notin CornerArcs
  PROVE  \E c \in RangeOf(GridNeighbors[b.node]) : c.arc = b.arc /\ c.node = n /\ c.dir = -b.dir
  <1>1. LeavesBy(n, b)
    BY ArcsOut
  <1>2. b.arc \in Arcs \ CornerArcs /\ b.node \in GroundedNodes /\ b.node # n
    BY <1>1, NeighborFacts DEF LeavesBy
  <1>3. PICK c \in RangeOf(GridNeighbors[b.node]) : c.arc = b.arc
    BY <1>1, <1>2, IsListed DEF LeavesBy
  <1>4. c.dir \in {1, -1} /\ b.dir \in {1, -1}
    BY <1>2, NeighborFacts
  <1>. QED BY <1>2, <1>3, <1>4, SameArc

\* An arc that is used leads from p to n.
Leads(p, n) == \E b \in RangeOf(GridNeighbors[p]) : b.node = n /\ b.arc \notin CornerArcs

LEMMA GridArcLeads ==
  ASSUME NEW p \in GroundedNodes, NEW n \in GroundedNodes, Leads(p, n)
  PROVE  /\ GridArc[p][n] \in RangeOf(GridNeighbors[p])
         /\ GridArc[p][n].node = n /\ GridArc[p][n].arc \in Arcs \ CornerArcs
  <1>. DEFINE b == CHOOSE b \in RangeOf(GridNeighbors[p]) : b.node = n /\ b.arc \notin CornerArcs
  <1>1. b \in RangeOf(GridNeighbors[p]) /\ b.node = n /\ b.arc \notin CornerArcs
    BY DEF Leads
  <1>2. n \in {c.node : c \in RangeOf(GridNeighbors[p])}
    BY <1>1
  <1>3. GridArc[p][n] = b
    BY <1>2 DEF GridArc, GroundedNodes
  <1>. HIDE DEF b
  <1>. QED BY <1>1, <1>3, NeighborFacts

\* From a node of the grid the arcs that are used lead everywhere: left, over
\* ground, and to the right again.
LEMMA WholeGrid ==
  ASSUME NEW U \in SUBSET GroundedNodes, NEW x \in U, x # Ground,
         \A n \in U, m \in GroundedNodes : Leads(n, m) => m \in U
  PROVE  U = GroundedNodes
  <1>1. ASSUME NEW r \in 0..NRow - 2, NEW c \in 0..NCol - 2, c # 0
        PROVE  <<r, c - 1>> \in GroundedNodes /\ Leads(<<r, c>>, <<r, c - 1>>)
    <2>1. c - 1 \in 0..NCol - 2
      BY <1>1, Sizes
    <2>2. AtOrGround(r, c - 1) = <<r, c - 1>> /\ <<r, c - 1>> \in GroundedNodes
      BY <2>1, OnGrid
    <2>3. Nbr(AtOrGround(r, c - 1), <<r, c>>, -1) \in RangeOf(GridNeighbors[<<r, c>>])
      BY NodeNeighbors
    <2>4. <<r, c>> \notin CornerArcs
      BY Sizes, InGrid
    <2>. QED BY <2>2, <2>3, <2>4 DEF Leads, Nbr
  <1>2. ASSUME NEW r \in 0..NRow - 2, NEW c \in 0..NCol - 2, c # 0
        PROVE  <<r, c - 1>> \in GroundedNodes /\ Leads(<<r, c - 1>>, <<r, c>>)
    <2>1. c - 1 \in 0..NCol - 2 /\ c - 1 + 1 = c
      BY <1>2, Sizes
    <2>2. AtOrGround(r, c) = <<r, c>> /\ <<r, c - 1>> \in GroundedNodes
      BY <2>1, OnGrid
    <2>3. Nbr(AtOrGround(r, c - 1 + 1), <<r, c - 1 + 1>>, 1) \in RangeOf(GridNeighbors[<<r, c - 1>>])
      BY <2>1, NodeNeighbors
    <2>4. <<r, c>> \notin CornerArcs
      BY Sizes, InGrid
    <2>. QED BY <2>1, <2>2, <2>3, <2>4 DEF Leads, Nbr
  <1>3. ASSUME NEW r \in 0..NRow - 2
        PROVE  /\ <<r, 0>> \in GroundedNodes /\ Ground \in GroundedNodes
               /\ Leads(<<r, 0>>, Ground) /\ Leads(Ground, <<r, 0>>)
    <2>1. 0 \in 0..NCol - 2 /\ ~ (0 - 1 \in 0..NCol - 2)
      BY Sizes
    <2>2. <<r, 0>> \in GroundedNodes /\ AtOrGround(r, 0 - 1) = Ground
      BY <2>1, OnGrid, OffGrid
    <2>3. Nbr(AtOrGround(r, 0 - 1), <<r, 0>>, -1) \in RangeOf(GridNeighbors[<<r, 0>>])
      BY <2>1, NodeNeighbors
    <2>4. PICK i \in 1..NRow - 1 : i - 1 = r
      <3>1. r + 1 \in 1..NRow - 1 /\ r + 1 - 1 = r
        BY Sizes
      <3>. QED BY <3>1
    <2>5. Nbr(<<i - 1, 0>>, <<i - 1, 0>>, 1) \in RangeOf(GridNeighbors[Ground])
      BY GroundNeighbors
    <2>6. <<r, 0>> \notin CornerArcs
      BY Sizes, InGrid
    <2>. QED BY <2>2, <2>3, <2>4, <2>5, <2>6 DEF Leads, Nbr, GroundedNodes
  <1>4. PICK r \in 0..NRow - 2, c \in 0..NCol - 2 : x = <<r, c>>
    BY DEF GroundedNodes, GridNodes
  <1>5. <<r, 0>> \in U
    <2>. DEFINE T == {d \in 0..NCol - 2 : <<r, d>> \in U}
    <2>1. T \subseteq Nat /\ c \in T
      BY <1>4
    <2>2. PICK d \in T : \A e \in T : d <= e
      <3>. HIDE DEF T
      <3>. QED BY <2>1, LeastNatural
    <2>3. ASSUME d # 0 PROVE FALSE
      <3>1. <<r, d - 1>> \in U
        BY <1>1, <2>3
      <3>2. d - 1 \in 0..NCol - 2 /\ ~ (d <= d - 1)
        BY <2>2, <2>3, Sizes
      <3>3. d - 1 \in T
        BY <3>1, <3>2
      <3>. QED BY <2>2, <3>2, <3>3
    <2>. QED BY <2>2, <2>3
  <1>6. Ground \in U
    BY <1>3, <1>5
  <1>7. \A q \in 0..NRow - 2 : <<q, 0>> \in U
    BY <1>3, <1>6
  <1>8. ASSUME NEW q \in 0..NRow - 2, NEW e \in 0..NCol - 2 PROVE <<q, e>> \in U
    <2>. DEFINE T == {d \in 0..NCol - 2 : <<q, d>> \notin U}
    <2>1. ASSUME T # {} PROVE FALSE
      <3>1. PICK d \in T : \A f \in T : d <= f
        <4>1. T \subseteq Nat
          OBVIOUS
        <4>. HIDE DEF T
        <4>. QED BY <2>1, <4>1, LeastNatural
      <3>2. d \in 0..NCol - 2 /\ <<q, d>> \notin U
        BY <3>1
      <3>3. d # 0
        BY <1>7, <3>2
      <3>4. d - 1 \in 0..NCol - 2 /\ ~ (d <= d - 1)
        BY <3>2, <3>3, Sizes
      <3>5. d - 1 \notin T
        BY <3>1, <3>4
      <3>6. <<q, d - 1>> \in U
        BY <3>4, <3>5
      <3>. QED BY <1>2, <3>2, <3>3, <3>6, OnGrid
    <2>. QED BY <2>1
  <1>. QED BY <1>6, <1>8 DEF GroundedNodes, GridNodes

LEMMA FiniteGrid ==
  /\ IsFiniteSet(GroundedNodes) /\ IsFiniteSet(Arcs) /\ Cardinality(GridNodes) \in Nat
  /\ Cardinality(GroundedNodes) = Cardinality(GridNodes) + 1
  <1>1. \A a, b \in Int : IsFiniteSet(a..b)
    BY FS_Interval
  <1>2. NRow - 2 \in Int /\ NCol - 2 \in Int /\ NRow - 1 \in Int /\ 2 * NRow - 2 \in Int /\ NCol - 1 \in Int
    BY Sizes
  <1>3. /\ IsFiniteSet(0..NRow - 2) /\ IsFiniteSet(0..NCol - 2) /\ IsFiniteSet(0..NCol - 1)
        /\ IsFiniteSet(NRow - 1..2 * NRow - 2)
    BY <1>1, <1>2
  <1>4. IsFiniteSet(GridNodes) /\ IsFiniteSet(RowArcs) /\ IsFiniteSet(ColArcs)
    BY <1>3, FS_Product DEF GridNodes, RowArcs, ColArcs
  <1>5. IsFiniteSet(Arcs)
    BY <1>4, FS_Union DEF Arcs
  <1>6. IsFiniteSet(GroundedNodes) /\ Cardinality(GroundedNodes) = Cardinality(GridNodes) + 1
    BY <1>4, NotANode, FS_AddElement DEF GroundedNodes
  <1>. QED BY <1>4, <1>5, <1>6, FS_CardinalityType

-----------------------------------------------------------------------------
\* What arcs of a set reach.

IsClosedOver(U, arcs) ==
    \A n \in U : \A b \in RangeOf(GridNeighbors[n]) : b.arc \in arcs => b.node \in U

IsReach(r, k, arcs, n) ==
    r = [i \in 0..k |-> IF i = 0 THEN {n} ELSE Onward(arcs, r[i - 1])]

\* The recursion has a solution, so its definition is one.
LEMMA ReachExists ==
  ASSUME NEW arcs, NEW n, NEW k \in Nat
  PROVE  \E r : IsReach(r, k, arcs, n)
  <1>. DEFINE bad == {m \in Nat : ~ \E r : IsReach(r, m, arcs, n)}
  <1>1. ASSUME bad # {} PROVE FALSE
    <2>1. PICK m \in bad : \A j \in bad : m <= j
      <3>1. bad \subseteq Nat
        OBVIOUS
      <3>. HIDE DEF bad
      <3>. QED BY <1>1, <3>1, LeastNatural
    <2>2. m \in Nat /\ ~ \E r : IsReach(r, m, arcs, n)
      OBVIOUS
    <2>3. m # 0
      <3>. DEFINE f == [i \in 0..0 |-> {n}]
      <3>1. f = [i \in 0..0 |-> IF i = 0 THEN {n} ELSE Onward(arcs, f[i - 1])]
        OBVIOUS
      <3>. HIDE DEF f
      <3>2. IsReach(f, 0, arcs, n)
        BY <3>1 DEF IsReach
      <3>. QED BY <2>2, <3>2
    <2>4. m - 1 \in Nat /\ m - 1 \notin bad
      BY <2>1, <2>2, <2>3
    <2>5. PICK f : IsReach(f, m - 1, arcs, n)
      BY <2>4
    <2>. DEFINE g == [i \in 0..m |-> IF i = m THEN Onward(arcs, f[m - 1]) ELSE f[i]]
    <2>6. ASSUME NEW i \in 0..m
          PROVE  g[i] = IF i = 0 THEN {n} ELSE Onward(arcs, g[i - 1])
      <3>1. \A j \in 0..m - 1 : g[j] = f[j]
        BY <2>2
      <3>2. CASE i = m
        <4>1. m - 1 \in 0..m - 1
          BY <2>4
        <4>. QED BY <2>3, <3>1, <3>2, <4>1
      <3>3. CASE i # m
        <4>1. i \in 0..m - 1 /\ (i # 0 => i - 1 \in 0..m - 1)
          BY <2>2, <3>3
        <4>2. f[i] = IF i = 0 THEN {n} ELSE Onward(arcs, f[i - 1])
          BY <2>5, <4>1 DEF IsReach
        <4>. QED BY <3>1, <4>1, <4>2
      <3>. QED BY <3>2, <3>3
    <2>7. g = [i \in 0..m |-> g[i]]
      OBVIOUS
    <2>. HIDE DEF g
    <2>8. g = [i \in 0..m |-> IF i = 0 THEN {n} ELSE Onward(arcs, g[i - 1])]
      BY <2>6, <2>7
    <2>9. IsReach(g, m, arcs, n)
      BY <2>8 DEF IsReach
    <2>. QED BY <2>2, <2>9
  <1>. QED BY <1>1

LEMMA ReachedIsReach ==
  ASSUME NEW arcs, NEW n
  PROVE  \E r : IsReach(r, Cardinality(GridNodes), arcs, n)
                  /\ ReachedOver(arcs, n) = r[Cardinality(GridNodes)]
  <1>. DEFINE k == Cardinality(GridNodes)
              r == CHOOSE f : IsReach(f, k, arcs, n)
  <1>1. k \in Nat
    BY FiniteGrid
  <1>2. IsReach(r, k, arcs, n)
    BY <1>1, ReachExists
  <1>3. ReachedOver(arcs, n) = r[k]
    BY DEF ReachedOver, IsReach
  <1>. QED BY <1>2, <1>3

LEMMA OnwardStep ==
  ASSUME NEW arcs, NEW T \in SUBSET GroundedNodes
  PROVE  /\ T \subseteq Onward(arcs, T) /\ Onward(arcs, T) \subseteq GroundedNodes
         /\ Onward(arcs, T) = T <=> IsClosedOver(T, arcs)
         /\ \A U : T \subseteq U /\ IsClosedOver(U, arcs) => Onward(arcs, T) \subseteq U
  <1>1. T \subseteq Onward(arcs, T)
    BY DEF Onward
  <1>2. Onward(arcs, T) \subseteq GroundedNodes
    <2>1. \A n \in T : \A b \in RangeOf(GridNeighbors[n]) : b.node \in GroundedNodes
      BY NeighborFacts
    <2>. QED BY <2>1 DEF Onward
  <1>3. ASSUME NEW U, T \subseteq U, IsClosedOver(U, arcs) PROVE Onward(arcs, T) \subseteq U
    BY <1>3 DEF Onward, IsClosedOver
  <1>4. IsClosedOver(T, arcs) => Onward(arcs, T) = T
    BY <1>1, <1>3
  <1>5. Onward(arcs, T) = T => IsClosedOver(T, arcs)
    <2>1. ASSUME NEW n \in T, NEW b \in RangeOf(GridNeighbors[n]), b.arc \in arcs
          PROVE  b.node \in Onward(arcs, T)
      BY <2>1 DEF Onward
    <2>. QED BY <2>1 DEF IsClosedOver
  <1>. QED BY <1>1, <1>2, <1>3, <1>4, <1>5

\* What is reached from a node is the least set that holds it and that no arc
\* leads out of.
LEMMA ReachedIsLeast ==
  ASSUME NEW arcs, NEW n \in GroundedNodes
  PROVE  /\ ReachedOver(arcs, n) \in SUBSET GroundedNodes /\ n \in ReachedOver(arcs, n)
         /\ IsClosedOver(ReachedOver(arcs, n), arcs)
         /\ \A U \in SUBSET GroundedNodes :
              n \in U /\ IsClosedOver(U, arcs) => ReachedOver(arcs, n) \subseteq U
  <1>. DEFINE k == Cardinality(GridNodes)
  <1>1. PICK r : IsReach(r, k, arcs, n) /\ ReachedOver(arcs, n) = r[k]
    BY ReachedIsReach
  <1>2. k \in Nat /\ IsFiniteSet(GroundedNodes) /\ Cardinality(GroundedNodes) = k + 1
    BY FiniteGrid
  <1>. HIDE DEF k
  <1>3. r[0] = {n} /\ \A i \in 1..k : r[i] = Onward(arcs, r[i - 1])
    <2>1. \A i \in 0..k : r[i] = IF i = 0 THEN {n} ELSE Onward(arcs, r[i - 1])
      <3>1. r = [i \in 0..k |-> IF i = 0 THEN {n} ELSE Onward(arcs, r[i - 1])]
        BY <1>1, Zenon DEF IsReach
      <3>. QED BY <3>1
    <2>2. 0 \in 0..k /\ \A i \in 1..k : i \in 0..k /\ i # 0
      BY <1>2
    <2>. QED BY <2>1, <2>2
  <1>. DEFINE good(i) == /\ r[i] \in SUBSET GroundedNodes /\ n \in r[i]
                         /\ IsClosedOver(r[i], arcs) \/ Cardinality(r[i]) > i
                         /\ \A U \in SUBSET GroundedNodes :
                              n \in U /\ IsClosedOver(U, arcs) => r[i] \subseteq U
              bad == {i \in 0..k : ~ good(i)}
  <1>4. ASSUME bad # {} PROVE FALSE
    <2>1. PICK m \in bad : \A j \in bad : m <= j
      <3>1. bad \subseteq Nat
        OBVIOUS
      <3>. HIDE DEF bad
      <3>. QED BY <1>4, <3>1, LeastNatural
    <2>2. m \in 0..k /\ ~ good(m)
      OBVIOUS
    <2>3. m # 0
      <3>1. Cardinality({n}) = 1
        BY FS_Singleton
      <3>2. good(0)
        BY <1>3, <3>1
      <3>. QED BY <2>2, <3>2
    <2>4. m - 1 \in 0..k /\ m \in 1..k /\ good(m - 1)
      BY <1>2, <2>1, <2>2, <2>3
    <2>. DEFINE T == r[m - 1]
    <2>5. r[m] = Onward(arcs, T)
      BY <1>3, <2>4
    <2>6. /\ T \in SUBSET GroundedNodes /\ n \in T
          /\ IsClosedOver(T, arcs) \/ Cardinality(T) > m - 1
          /\ \A U \in SUBSET GroundedNodes : n \in U /\ IsClosedOver(U, arcs) => T \subseteq U
      BY <2>4
    <2>. HIDE DEF T
    <2>7. /\ r[m] \in SUBSET GroundedNodes /\ n \in r[m] /\ T \subseteq r[m]
          /\ r[m] = T <=> IsClosedOver(T, arcs)
          /\ \A U \in SUBSET GroundedNodes : n \in U /\ IsClosedOver(U, arcs) => r[m] \subseteq U
      BY <2>5, <2>6, OnwardStep
    <2>8. CASE IsClosedOver(T, arcs)
      BY <2>2, <2>7, <2>8
    <2>9. CASE ~ IsClosedOver(T, arcs)
      <3>1. T # r[m]
        BY <2>7, <2>9
      <3>2. IsFiniteSet(r[m])
        BY <1>2, <2>7, FS_Subset
      <3>3. Cardinality(T) <= Cardinality(r[m]) /\ Cardinality(T) # Cardinality(r[m])
        BY <2>7, <3>1, <3>2, FS_Subset
      <3>4. IsFiniteSet(T)
        BY <2>7, <3>2, FS_Subset
      <3>5. Cardinality(T) \in Nat /\ Cardinality(r[m]) \in Nat
        BY <3>2, <3>4, FS_CardinalityType
      <3>6. Cardinality(r[m]) > m
        BY <2>2, <2>6, <2>9, <3>3, <3>5
      <3>. QED BY <2>2, <2>7, <3>6
    <2>. QED BY <2>8, <2>9
  <1>5. good(k)
    <2>1. k \in 0..k
      BY <1>2
    <2>. QED BY <1>4, <2>1
  <1>6. ASSUME Cardinality(r[k]) > k PROVE IsClosedOver(r[k], arcs)
    <2>1. r[k] \subseteq GroundedNodes /\ IsFiniteSet(r[k]) /\ Cardinality(r[k]) <= k + 1
      BY <1>2, <1>5, FS_Subset
    <2>2. Cardinality(r[k]) \in Nat
      BY <2>1, FS_CardinalityType
    <2>3. r[k] = GroundedNodes
      BY <1>2, <1>6, <2>1, <2>2, FS_Subset
    <2>. QED BY <2>3, NeighborFacts DEF IsClosedOver
  <1>. QED BY <1>1, <1>5, <1>6

-----------------------------------------------------------------------------
\* The inductive invariant, part by part.

IsResidue(n) == Charge(residue, n) # 0
HasPred == {n \in GroundedNodes : pred[n] # NoNode}
Reached(n) == n = Source \/ n \in HasPred
TreeArc(n) == GridArc[pred[n]][n].arc
Joined == {n \in HasPred : TreeArc(n) \in Marked}
InTree(n) == n = Source \/ n \in Joined

Growing == stage \in {"grow", "mark", "scan"}

\* An arc that is used costs less than LARGESHORT, the others have no flow.
Typed ==
    /\ stage \in {"solve", "grow", "mark", "scan", "discharge", "clip", "done", "aborted"}
    /\ residue \in [GridNodes -> Int]
    /\ IsInput(input) /\ mstcosts \in [Arcs -> Nat]
    /\ \A a \in Arcs : IF a \in CornerArcs THEN mstcosts[a] = Ineligible ELSE mstcosts[a] < Ineligible
    /\ mstflows \in [Arcs -> Int] /\ \A a \in Arcs \cap CornerArcs : mstflows[a] = 0
    /\ nodecost \in [GroundedNodes -> Int]
    /\ pred \in [GroundedNodes -> GroundedNodes \cup {NoNode}]
    /\ arcstatus \in [Arcs -> Int]

\* Predecessors lead back to the source: no set of nodes is closed under them.
Rooted == \A Z \in SUBSET HasPred : Z # {} => \E n \in Z : pred[n] \notin Z

Backward ==
    /\ Source \in GridNodes /\ IsResidue(Source) /\ pred[Source] = NoNode
    /\ \A n \in HasPred : /\ pred[n] \in GroundedNodes /\ Reached(pred[n])
                          /\ Leads(pred[n], n)
    /\ Rooted

MarksAreArcs == \A a \in Marked : \E n \in Joined : a = TreeArc(n)

\* The node whose arc was marked last waits for its predecessor to be joined.
IsAhead(n) == stage = "mark" /\ pred[n] = pathto

Labels ==
    /\ nodecost[Source] = 0
    /\ \A n \in GroundedNodes : /\ 0 <= nodecost[n] /\ nodecost[n] <= Unreached
                                /\ Reached(n) <=> nodecost[n] < Unreached
    /\ \A n \in HasPred : nodecost[pred[n]] <= nodecost[n] \/ (n \in Joined /\ IsAhead(n))
    /\ \A n \in Joined : nodecost[n] = 0 /\ (InTree(pred[n]) \/ IsAhead(n))

\* A residue is on the tree, or nothing was reached over it so far.
ResiduesWait ==
    \A n \in GroundedNodes : IsResidue(n) =>
      \/ InTree(n)
      \/ /\ n \in inbucket \/ ~ Reached(n) \/ (stage = "mark" /\ n = from)
         /\ \A m \in GroundedNodes : pred[m] # n

\* The neighbours of a node that has been scanned are reached.
Frontier ==
    \A n \in GroundedNodes : Reached(n) /\ n \notin inbucket =>
      \A j \in DOMAIN GridNeighbors[n] :
        GridNeighbors[n][j].arc \notin CornerArcs /\ (stage # "grow" /\ n = from => j < arcnum)
          => Reached(GridNeighbors[n][j].node)

\* What the loops of a step work on.
AtWork ==
    /\ stage \in {"mark", "scan"} =>
         from \in GroundedNodes /\ Reached(from) /\ arcnum \in DOMAIN GridNeighbors[from]
    /\ stage = "scan" /\ IsResidue(from) => InTree(from)
    /\ stage = "mark" =>
         /\ arcnum = 1 /\ IsResidue(from) /\ from # Source /\ pathto \in HasPred
         /\ pathto = from \/ (from \in Joined /\ ~ IsResidue(pathto))

\* A node waits in the bucket of its cost, or of the cost it had before it
\* was put on the tree.
Queued ==
    /\ inbucket \in SUBSET GroundedNodes /\ \A n \in inbucket : Reached(n)
    /\ \E cost \in [GroundedNodes -> Int] :
         /\ IsQueue(mstbkts, GroundedNodes) /\ Holds(mstbkts, inbucket, cost)
         /\ \A n \in inbucket : nodecost[n] \in {cost[n], 0}

\* A distance is that of a way which passes no node twice, so that a distance is
\* told from VERYFAR where all arcs together are shorter.
NodeCount == Cardinality(GroundedNodes)
FarEnough == \A a \in Arcs \ CornerArcs : mstcosts[a] * NodeCount <= Unreached

Ways ==
    \E way \in [GroundedNodes -> SUBSET GroundedNodes] :
      \A n \in GroundedNodes : Reached(n) =>
        /\ n \in way[n] /\ \A m \in way[n] : nodecost[m] <= nodecost[n]
        /\ nodecost[n] * NodeCount <= (Cardinality(way[n]) - 1) * Unreached

GrowInv ==
    Growing =>
      /\ Backward /\ MarksAreArcs /\ Labels /\ ResiduesWait /\ Frontier /\ AtWork /\ Queued /\ Ways
      /\ \A a \in Arcs : arcstatus[a] \in {0, -1}

\* The tree that is walked.
TreeStands ==
    /\ Backward /\ MarksAreArcs
    /\ \A n \in Joined : InTree(pred[n])
    /\ \A n \in GroundedNodes : IsResidue(n) => InTree(n)

WalkInv == stage = "discharge" => TreeStands /\ from \in GroundedNodes

TreeInv == Typed /\ GrowInv /\ WalkInv

-----------------------------------------------------------------------------
\* The tree.

\* The arc to the predecessor.
LEMMA TreeArcLeads ==
  ASSUME NEW n \in HasPred, pred[n] \in GroundedNodes, Leads(pred[n], n)
  PROVE  /\ n \in GroundedNodes /\ TreeArc(n) \in Arcs \ CornerArcs
         /\ \E b \in RangeOf(GridNeighbors[pred[n]]) : b.node = n /\ b.arc = TreeArc(n)
         /\ \E c \in RangeOf(GridNeighbors[n]) : c.node = pred[n] /\ c.arc = TreeArc(n)
  <1>1. n \in GroundedNodes
    BY DEF HasPred
  <1>2. /\ GridArc[pred[n]][n] \in RangeOf(GridNeighbors[pred[n]])
        /\ GridArc[pred[n]][n].node = n /\ GridArc[pred[n]][n].arc \in Arcs \ CornerArcs
    BY <1>1, GridArcLeads
  <1>3. \E c \in RangeOf(GridNeighbors[n]) : c.arc = GridArc[pred[n]][n].arc /\ c.node = pred[n]
    BY <1>2, WayBack
  <1>. QED BY <1>1, <1>2, <1>3 DEF TreeArc

\* The arcs to different predecessors are different.
LEMMA OwnArc ==
  ASSUME Backward, NEW n \in HasPred, NEW m \in HasPred, TreeArc(n) = TreeArc(m)
  PROVE  n = m
  <1>1. /\ pred[n] \in GroundedNodes /\ Leads(pred[n], n)
        /\ pred[m] \in GroundedNodes /\ Leads(pred[m], m)
    BY DEF Backward
  <1>2. PICK b \in RangeOf(GridNeighbors[pred[n]]) : b.node = n /\ b.arc = TreeArc(n)
    BY <1>1, TreeArcLeads
  <1>3. PICK c \in RangeOf(GridNeighbors[pred[m]]) : c.node = m /\ c.arc = TreeArc(m)
    BY <1>1, TreeArcLeads
  <1>4. n = m \/ (pred[n] = m /\ n = pred[m])
    BY <1>1, <1>2, <1>3, SameArc
  <1>5. ~ (pred[n] = m /\ n = pred[m])
    <2>1. {n, m} \in SUBSET HasPred
      OBVIOUS
    <2>2. \E x \in {n, m} : pred[x] \notin {n, m}
      BY <2>1 DEF Backward, Rooted
    <2>. QED BY <2>2
  <1>. QED BY <1>4, <1>5

\* What a walk over the marked arcs reaches are the nodes on the tree.
LEMMA TreeIsReached ==
  ASSUME Typed, TreeStands
  PROVE  ReachedOver(Marked, Source) = Joined \cup {Source}
  <1>. DEFINE T == Joined \cup {Source}
              R == ReachedOver(Marked, Source)
  <1>1. Source \in GroundedNodes /\ T \in SUBSET GroundedNodes
    BY DEF TreeStands, Backward, Joined, HasPred, GroundedNodes
  <1>2. R \subseteq T
    <2>1. ASSUME NEW n \in T, NEW b \in RangeOf(GridNeighbors[n]), b.arc \in Marked
          PROVE  b.node \in T
      <3>1. PICK m \in Joined : b.arc = TreeArc(m)
        BY <2>1 DEF TreeStands, MarksAreArcs
      <3>2. m \in HasPred /\ pred[m] \in GroundedNodes /\ Leads(pred[m], m) /\ pred[m] \in T
        BY <3>1 DEF TreeStands, Backward, Joined, InTree
      <3>3. PICK c \in RangeOf(GridNeighbors[pred[m]]) : c.node = m /\ c.arc = TreeArc(m)
        BY <3>2, TreeArcLeads
      <3>4. b.node = c.node \/ b.node = pred[m]
        BY <1>1, <3>1, <3>2, <3>3, SameArc
      <3>. QED BY <3>1, <3>2, <3>3, <3>4
    <2>2. IsClosedOver(T, Marked)
      BY <2>1 DEF IsClosedOver
    <2>. HIDE DEF T
    <2>3. Source \in T
      BY DEF T
    <2>. QED BY <1>1, <2>2, <2>3, ReachedIsLeast
  <1>3. T \subseteq R
    <2>. DEFINE Z == T \ R
    <2>1. Source \in R /\ IsClosedOver(R, Marked)
      BY <1>1, ReachedIsLeast
    <2>. HIDE DEF R
    <2>2. Z \in SUBSET HasPred
      BY <2>1 DEF Joined
    <2>3. ASSUME Z # {} PROVE FALSE
      <3>1. PICK n \in Z : pred[n] \notin Z
        BY <2>2, <2>3 DEF TreeStands, Backward, Rooted
      <3>2. n \in Joined /\ n \notin R
        BY <2>1, <3>1
      <3>3. n \in HasPred /\ pred[n] \in GroundedNodes /\ Leads(pred[n], n) /\ pred[n] \in T
        BY <3>2 DEF TreeStands, Backward, Joined, InTree
      <3>4. pred[n] \in R
        BY <3>1, <3>3
      <3>5. PICK b \in RangeOf(GridNeighbors[pred[n]]) : b.node = n /\ b.arc = TreeArc(n)
        BY <3>3, TreeArcLeads
      <3>6. TreeArc(n) \in Marked
        BY <3>2 DEF Joined
      <3>. QED BY <2>1, <3>2, <3>4, <3>5, <3>6 DEF IsClosedOver
    <2>. QED BY <2>3
  <1>. QED BY <1>2, <1>3

LEMMA TreeConnects ==
  ASSUME Typed, WalkInv
  PROVE  ConnectsResidues
  <1>. SUFFICES ASSUME stage = "discharge"
                PROVE  LET tree == ReachedOver(Marked, Source)
                       IN  /\ \A n \in GroundedNodes : Charge(residue, n) # 0 => n \in tree
                           /\ Cardinality(Marked) = Cardinality(tree) - 1
    BY DEF ConnectsResidues
  <1>1. TreeStands
    BY DEF WalkInv
  <1>2. ReachedOver(Marked, Source) = Joined \cup {Source}
    BY <1>1, TreeIsReached
  <1>3. \A n \in GroundedNodes : Charge(residue, n) # 0 => n \in Joined \cup {Source}
    BY <1>1 DEF TreeStands, IsResidue, InTree
  <1>4. IsFiniteSet(Joined) /\ Source \notin Joined /\ IsFiniteSet(Marked)
    BY <1>1, FiniteGrid, FS_Subset DEF TreeStands, Backward, Joined, HasPred, Marked
  <1>5. Cardinality(Joined) = Cardinality(Marked)
    <2>. DEFINE arcOf == [n \in Joined |-> TreeArc(n)]
    <2>1. \A n \in Joined : TreeArc(n) \in Marked
      BY DEF Joined
    <2>2. \A n, m \in Joined : TreeArc(n) = TreeArc(m) => n = m
      BY <1>1, OwnArc DEF TreeStands, Joined
    <2>3. \A a \in Marked : \E n \in Joined : TreeArc(n) = a
      BY <1>1 DEF TreeStands, MarksAreArcs
    <2>4. arcOf \in Bijection(Joined, Marked)
      BY <2>1, <2>2, <2>3 DEF Bijection, Injection, IsInjective, Surjection
    <2>. QED BY <1>4, <2>4, FS_Bijection DEF ExistsBijection
  <1>6. Cardinality(Joined \cup {Source}) = Cardinality(Joined) + 1 /\ Cardinality(Joined) \in Nat
    BY <1>4, FS_AddElement, FS_CardinalityType
  <1>. QED BY <1>2, <1>3, <1>5, <1>6

-----------------------------------------------------------------------------
\* The largest and the least of a finite set of integers.

LEMMA LeastOfSet ==
  ASSUME NEW S, IsFiniteSet(S), S \subseteq Int, S # {}
  PROVE  LeastOf(S) \in S /\ \A y \in S : LeastOf(S) <= y
  <1>1. \E x \in S : \A y \in S : x <= y
    BY LeastElement
  <1>. QED BY <1>1 DEF LeastOf

LEMMA MostOfSet ==
  ASSUME NEW S, IsFiniteSet(S), S \subseteq Int, S # {}
  PROVE  MostOf(S) \in S /\ \A y \in S : MostOf(S) >= y
  <1>. DEFINE neg == [x \in S |-> -x]
              N == {neg[x] : x \in S}
  <1>1. IsFiniteSet(N)
    <2>1. neg \in Surjection(S, N)
      BY DEF Surjection
    <2>. QED BY <2>1, FS_Surjection
  <1>2. N \subseteq Int /\ N # {}
    OBVIOUS
  <1>3. PICK v \in N : \A w \in N : v <= w
    <2>. HIDE DEF N
    <2>. QED BY <1>1, <1>2, LeastElement
  <1>4. PICK x \in S : v = -x
    BY <1>3
  <1>5. ASSUME NEW y \in S PROVE x >= y
    <2>1. -y \in N
      OBVIOUS
    <2>2. v <= -y
      BY <1>3, <2>1
    <2>. QED BY <1>4, <2>2
  <1>6. \E z \in S : \A y \in S : z >= y
    BY <1>5
  <1>. QED BY <1>6 DEF MostOf

\* The largest of zero and some values of a function of arcs.
LEMMA MostOfArcs ==
  ASSUME NEW A \in SUBSET Arcs, NEW f \in [Arcs -> Nat]
  PROVE  MostOf({0} \cup {f[a] : a \in A}) \in Nat
  <1>. DEFINE V == {f[a] : a \in A}
              g == [a \in A |-> f[a]]
  <1>1. IsFiniteSet(A)
    BY FiniteGrid, FS_Subset
  <1>2. IsFiniteSet(V)
    <2>1. g \in Surjection(A, V)
      BY DEF Surjection
    <2>. QED BY <1>1, <2>1, FS_Surjection
  <1>3. V \subseteq Nat
    OBVIOUS
  <1>. HIDE DEF V
  <1>4. IsFiniteSet({0} \cup V)
    BY <1>2, FS_Singleton, FS_Union
  <1>5. {0} \cup V \subseteq Int /\ {0} \cup V # {}
    BY <1>3
  <1>6. MostOf({0} \cup V) \in {0} \cup V
    BY <1>4, <1>5, MostOfSet
  <1>. QED BY <1>3, <1>6 DEF V

LEMMA LastBucketNatural ==
  ASSUME NEW cost \in [Arcs -> Nat]
  PROVE  LastBucket(cost) \in Nat /\ LastBucket(cost) > 0
  <1>. DEFINE A == {a \in Arcs : a[2] \notin {0, NCol - 2}}
              most == MostOf({0} \cup {cost[a] : a \in A})
  <1>1. most \in Nat
    BY MostOfArcs
  <1>2. LastBucket(cost) = (most + 1) * (NRow + NCol + 1) - 1
    BY DEF LastBucket
  <1>. HIDE DEF most
  <1>3. (most + 1) * (NRow + NCol + 1) = most * (NRow + NCol + 1) + (NRow + NCol + 1)
    BY <1>1, Sizes
  <1>4. most * (NRow + NCol + 1) \in Nat
    BY <1>1, Sizes
  <1>. QED BY <1>2, <1>3, <1>4, Sizes

\* The nodes in the order in which the code goes through them.
LEMMA OrderLists ==
  /\ Len(NodeOrder) \in Nat /\ DOMAIN NodeOrder = 1..Len(NodeOrder)
  /\ \A i \in DOMAIN NodeOrder : NodeOrder[i] \in GroundedNodes
  <1>. DEFINE K == (NRow - 1) * (NCol - 1)
              rest == [i \in 1..K |-> <<(i - 1) \div (NCol - 1), (i - 1) % (NCol - 1)>>]
  <1>1. K \in Nat
    BY Sizes
  <1>2. NodeOrder = <<Ground>> \o rest
    BY DEF NodeOrder
  <1>3. Len(rest) = K /\ Len(<<Ground>>) = 1
    BY <1>1
  <1>4. ASSUME NEW i \in 1..K PROVE rest[i] \in GridNodes
    <2>. DEFINE m == NCol - 1
                q == (i - 1) \div m
                e == (i - 1) % m
    <2>1. m \in Nat /\ m > 0 /\ i - 1 \in Nat
      BY <1>1, Sizes
    <2>2. q \in Int /\ e \in 0..m - 1 /\ i - 1 = m * q + e
      <3>. HIDE DEF m
      <3>. QED BY <2>1
    <2>3. i - 1 < (NRow - 1) * m
      BY <1>1
    <2>. HIDE DEF m, q, e
    <2>4. q >= 0
      <3>1. ASSUME q < 0 PROVE FALSE
        <4>1. m * q <= m * (-1)
          BY <2>1, <2>2, <3>1
        <4>. QED BY <2>1, <2>2, <4>1
      <3>. QED BY <2>2, <3>1
    <2>5. q < NRow - 1
      <3>1. ASSUME q >= NRow - 1 PROVE FALSE
        <4>1. m * q >= m * (NRow - 1)
          BY <2>1, <2>2, <3>1, Sizes
        <4>2. m * (NRow - 1) = (NRow - 1) * m /\ (NRow - 1) * m \in Int /\ m * q \in Int
          BY <2>1, <2>2, Sizes
        <4>. QED BY <2>1, <2>2, <2>3, <4>1, <4>2
      <3>. QED BY <2>2, <3>1, Sizes
    <2>6. q \in 0..NRow - 2 /\ e \in 0..NCol - 2
      BY <2>2, <2>4, <2>5, Sizes DEF m
    <2>7. rest[i] = <<q, e>>
      BY DEF q, e, m
    <2>. QED BY <2>6, <2>7, InGrid
  <1>. HIDE DEF K, rest
  <1>5. <<Ground>> \in Seq(GroundedNodes)
    BY DEF GroundedNodes
  <1>6. rest \in Seq(GroundedNodes)
    <2>1. rest \in [1..K -> GroundedNodes]
      BY <1>4 DEF rest, GroundedNodes
    <2>. QED BY <1>1, <2>1, SeqDef
  <1>7. NodeOrder \in Seq(GroundedNodes)
    BY <1>2, <1>5, <1>6
  <1>. QED BY <1>7

\* The first node with a residue is in the grid.
LEMMA SourceIsResidue ==
  ASSUME NEW res \in [GridNodes -> Int], FirstResidue(res) # NoNode
  PROVE  FirstResidue(res) \in GridNodes /\ Charge(res, FirstResidue(res)) # 0
  <1>. DEFINE found == {i \in DOMAIN NodeOrder : NodeOrder[i] # Ground /\ res[NodeOrder[i]] # 0}
  <1>1. found # {} /\ FirstResidue(res) = NodeOrder[LeastOf(found)]
    BY DEF FirstResidue
  <1>2. Len(NodeOrder) \in Int /\ 1 \in Int
    BY OrderLists
  <1>3. IsFiniteSet(1..Len(NodeOrder)) /\ found \subseteq 1..Len(NodeOrder)
    BY <1>2, OrderLists, FS_Interval
  <1>4. IsFiniteSet(found) /\ found \subseteq Int
    BY <1>3, FS_Subset
  <1>5. LeastOf(found) \in found
    <2>. HIDE DEF found
    <2>. QED BY <1>1, <1>4, LeastOfSet
  <1>6. FirstResidue(res) \in GridNodes /\ res[FirstResidue(res)] # 0 /\ FirstResidue(res) # Ground
    BY <1>1, <1>5, OrderLists DEF GroundedNodes
  <1>. QED BY <1>6 DEF Charge

IsGroundCharge(s, k, res) ==
    s = [i \in 0..k |->
           IF i = 0 THEN 0
           ELSE s[i - 1] - (IF NodeOrder[i] = Ground THEN 0 ELSE res[NodeOrder[i]])]

LEMMA GroundChargeExists ==
  ASSUME NEW res, NEW k \in Nat
  PROVE  \E s : IsGroundCharge(s, k, res)
  <1>. DEFINE bad == {m \in Nat : ~ \E s : IsGroundCharge(s, m, res)}
              less(i) == IF NodeOrder[i] = Ground THEN 0 ELSE res[NodeOrder[i]]
  <1>1. ASSUME bad # {} PROVE FALSE
    <2>1. PICK m \in bad : \A j \in bad : m <= j
      <3>1. bad \subseteq Nat
        OBVIOUS
      <3>. HIDE DEF bad
      <3>. QED BY <1>1, <3>1, LeastNatural
    <2>2. m \in Nat /\ ~ \E s : IsGroundCharge(s, m, res)
      OBVIOUS
    <2>. HIDE DEF less
    <2>3. m # 0
      <3>. DEFINE f == [i \in 0..0 |-> 0]
      <3>1. f = [i \in 0..0 |-> IF i = 0 THEN 0 ELSE f[i - 1] - less(i)]
        OBVIOUS
      <3>. HIDE DEF f
      <3>2. IsGroundCharge(f, 0, res)
        BY <3>1 DEF IsGroundCharge, less
      <3>. QED BY <2>2, <3>2
    <2>4. m - 1 \in Nat /\ m - 1 \notin bad
      BY <2>1, <2>2, <2>3
    <2>5. PICK f : IsGroundCharge(f, m - 1, res)
      BY <2>4
    <2>. DEFINE g == [i \in 0..m |-> IF i = m THEN f[m - 1] - less(m) ELSE f[i]]
    <2>6. ASSUME NEW i \in 0..m
          PROVE  g[i] = IF i = 0 THEN 0 ELSE g[i - 1] - less(i)
      <3>1. \A j \in 0..m - 1 : g[j] = f[j]
        BY <2>2
      <3>2. CASE i = m
        <4>1. m - 1 \in 0..m - 1
          BY <2>4
        <4>. QED BY <2>3, <3>1, <3>2, <4>1
      <3>3. CASE i # m
        <4>1. i \in 0..m - 1 /\ (i # 0 => i - 1 \in 0..m - 1)
          BY <2>2, <3>3
        <4>2. f[i] = IF i = 0 THEN 0 ELSE f[i - 1] - less(i)
          BY <2>5, <4>1 DEF IsGroundCharge, less
        <4>. QED BY <3>1, <4>1, <4>2
      <3>. QED BY <3>2, <3>3
    <2>7. g = [i \in 0..m |-> g[i]]
      OBVIOUS
    <2>. HIDE DEF g
    <2>8. g = [i \in 0..m |-> IF i = 0 THEN 0 ELSE g[i - 1] - less(i)]
      BY <2>6, <2>7
    <2>9. IsGroundCharge(g, m, res)
      BY <2>8 DEF IsGroundCharge, less
    <2>. QED BY <2>2, <2>9
  <1>. QED BY <1>1

\* The charge of ground is the last of the sums of what the nodes before have less.
LEMMA GroundChargeIsSum ==
  ASSUME NEW res \in [GridNodes -> Int]
  PROVE  \E s \in [0..Len(NodeOrder) -> Int] :
           /\ s[0] = 0 /\ GroundCharge(res) = s[Len(NodeOrder)]
           /\ \A i \in 1..Len(NodeOrder) :
                s[i] = s[i - 1] - (IF NodeOrder[i] = Ground THEN 0 ELSE res[NodeOrder[i]])
  <1>. DEFINE k == Len(NodeOrder)
              s == CHOOSE f : IsGroundCharge(f, k, res)
              less(i) == IF NodeOrder[i] = Ground THEN 0 ELSE res[NodeOrder[i]]
  <1>1. k \in Nat
    BY OrderLists
  <1>2. IsGroundCharge(s, k, res)
    BY <1>1, GroundChargeExists
  <1>3. GroundCharge(res) = s[k]
    BY DEF GroundCharge, IsGroundCharge
  <1>4. \A i \in 1..k : less(i) \in Int
    BY OrderLists DEF GroundedNodes
  <1>5. s = [i \in 0..k |-> IF i = 0 THEN 0 ELSE s[i - 1] - less(i)]
    BY <1>2, Zenon DEF IsGroundCharge
  <1>. HIDE DEF s, k, less
  <1>6. s[0] = 0 /\ \A i \in 1..k : s[i] = s[i - 1] - less(i)
    <2>1. \A i \in 0..k : s[i] = IF i = 0 THEN 0 ELSE s[i - 1] - less(i)
      BY <1>5
    <2>2. 0 \in 0..k /\ \A i \in 1..k : i \in 0..k /\ i # 0
      BY <1>1
    <2>. QED BY <2>1, <2>2
  <1>7. \A i \in 0..k : s[i] \in Int
    <2>. DEFINE bad == {i \in 0..k : s[i] \notin Int}
    <2>1. ASSUME bad # {} PROVE FALSE
      <3>1. PICK m \in bad : \A j \in bad : m <= j
        <4>1. bad \subseteq Nat
          OBVIOUS
        <4>. HIDE DEF bad
        <4>. QED BY <2>1, <4>1, LeastNatural
      <3>2. m \in 1..k /\ s[m] \notin Int
        BY <1>1, <1>6, <3>1
      <3>3. m - 1 \in 0..k /\ ~ (m <= m - 1)
        BY <1>1, <3>2
      <3>4. s[m - 1] \in Int
        BY <3>1, <3>3
      <3>. QED BY <1>4, <1>6, <3>2, <3>4
    <2>. QED BY <2>1
  <1>8. DOMAIN s = 0..k /\ s = [i \in 0..k |-> s[i]]
    BY <1>5
  <1>9. s \in [0..k -> Int]
    BY <1>7, <1>8
  <1>. QED BY <1>3, <1>6, <1>9 DEF k, less

LEMMA ChargeInteger ==
  ASSUME NEW res \in [GridNodes -> Int], NEW n \in GroundedNodes
  PROVE  Charge(res, n) \in Int
  <1>1. GroundCharge(res) \in Int
    <2>1. Len(NodeOrder) \in 0..Len(NodeOrder)
      BY OrderLists
    <2>. QED BY <2>1, GroundChargeIsSum
  <1>. QED BY <1>1 DEF Charge, GroundedNodes

-----------------------------------------------------------------------------
\* What a step of the code does to the invariant.

LEMMA Constants ==
  /\ Unreached \in Int /\ Unreached > 0 /\ Ineligible \in Int
  /\ NodeCount \in Int /\ NodeCount > 0
  <1>1. Cardinality(GroundedNodes) \in Nat /\ Cardinality(GroundedNodes) > 0
    BY FiniteGrid
  <1>. QED BY <1>1, MSTAssumption DEF NodeCount

\* A queue that holds the source only.
LEMMA FirstInQueue ==
  ASSUME NEW N, NEW n \in N, NEW hi \in Nat, hi > 0, NEW cost \in [N -> Int], cost[n] = 0
  PROVE  LET q == BucketInsert(EmptyQueue(0, hi, 0), n, 0)
         IN  IsQueue(q, N) /\ Holds(q, {n}, cost)
  <1>. DEFINE e == EmptyQueue(0, hi, 0)
  <1>1. e.lo = 0 /\ e.hi = hi /\ e.curr = 0 /\ e.at = [i \in 0..hi |-> << >>]
    BY DEF EmptyQueue, Queue
  <1>2. IsQueue(e, N)
    <2>1. << >> \in Seq(N)
      OBVIOUS
    <2>2. [i \in 0..hi |-> << >>] \in [0..hi -> Seq(N)] /\ 0 \in 0..hi
      BY <2>1
    <2>. HIDE DEF e
    <2>. QED BY <1>1, <2>2 DEF IsQueue
  <1>3. Holds(e, {}, cost)
    BY <1>1 DEF Holds
  <1>4. Slot(e, 0) = 0
    BY <1>1 DEF Slot
  <1>5. Link(e, n, 0) = BucketInsert(e, n, 0)
    <2>1. BucketInsert(e, n, 0).curr = 0
      BY <1>1 DEF BucketInsert, WithList, Queue
    <2>2. StartingAt(BucketInsert(e, n, 0), 0) = BucketInsert(e, n, 0)
      BY <2>1 DEF StartingAt, BucketInsert, WithList, Queue
    <2>3. (IF 0 < e.hi /\ 0 < e.curr THEN 0 ELSE e.curr) = 0
      BY <1>1
    <2>. QED BY <1>4, <2>2, <2>3 DEF Link
  <1>. HIDE DEF e
  <1>6. IsQueue(Link(e, n, 0), N) /\ Holds(Link(e, n, 0), {} \cup {n}, [cost EXCEPT ![n] = 0])
    <2>1. {} \in SUBSET N /\ n \notin {} /\ 0 \in Int
      OBVIOUS
    <2>. QED BY <1>2, <1>3, <2>1, Linked
  <1>7. [cost EXCEPT ![n] = 0] = cost /\ {} \cup {n} = {n}
    OBVIOUS
  <1>. QED BY <1>5, <1>6, <1>7 DEF e

LEMMA StartTreeKeeps ==
  ASSUME TreeInv, StartTree
  PROVE  TreeInv'
  <1>1. /\ stage = "solve" /\ stage' = "grow" /\ residue' = residue /\ mstcosts' = mstcosts
        /\ mstflows' = mstflows /\ input' = input
        /\ pred' = [n \in GroundedNodes |-> NoNode] /\ arcstatus' = [a \in Arcs |-> 0]
        /\ nodecost' = [n \in GroundedNodes |-> IF n = Source THEN 0 ELSE Unreached]
        /\ inbucket' = {Source} /\ Source # NoNode
        /\ mstbkts' = BucketInsert(EmptyQueue(0, LastBucket(input.cost), 0), Source, 0)
    BY DEF StartTree
  <1>2. Typed
    BY DEF TreeInv
  <1>3. Source' = Source /\ \A n : IsResidue(n)' <=> IsResidue(n)
    BY <1>1 DEF Source, IsResidue
  <1>4. Source \in GridNodes /\ IsResidue(Source) /\ Source \in GroundedNodes
    BY <1>1, <1>2, SourceIsResidue DEF Source, IsResidue, Typed, GroundedNodes
  <1>5. HasPred' = {} /\ Joined' = {} /\ Marked' = {}
    <2>1. \A n \in GroundedNodes : pred'[n] = NoNode
      BY <1>1
    <2>2. \A a \in Arcs : ~ (arcstatus'[a] < 0)
      BY <1>1
    <2>. QED BY <2>1, <2>2 DEF HasPred, Joined, Marked
  <1>6. Typed'
    BY <1>1, <1>2, Constants DEF Typed
  <1>7. \A n \in GroundedNodes : Reached(n)' <=> n = Source
    BY <1>3, <1>5 DEF Reached
  <1>8. Backward'
    BY <1>1, <1>3, <1>4, <1>5 DEF Backward, Rooted
  <1>9. MarksAreArcs' /\ \A a \in Arcs : arcstatus'[a] \in {0, -1}
    BY <1>1, <1>5 DEF MarksAreArcs
  <1>10. Labels'
    <2>1. \A n \in GroundedNodes : /\ 0 <= nodecost'[n] /\ nodecost'[n] <= Unreached
                                   /\ Reached(n)' <=> nodecost'[n] < Unreached
      BY <1>1, <1>7, Constants
    <2>2. nodecost'[Source] = 0
      BY <1>1, <1>4
    <2>. QED BY <1>3, <1>5, <2>1, <2>2 DEF Labels
  <1>11. ResiduesWait'
    BY <1>1, <1>3, <1>7, NotANode DEF ResiduesWait, InTree
  <1>12. Frontier'
    BY <1>1, <1>7 DEF Frontier
  <1>13. AtWork'
    BY <1>1 DEF AtWork
  <1>14. Queued'
    <2>1. LastBucket(input.cost) \in Nat /\ LastBucket(input.cost) > 0
      BY <1>2, LastBucketNatural DEF Typed, IsInput
    <2>2. nodecost' \in [GroundedNodes -> Int] /\ nodecost'[Source] = 0
      BY <1>1, <1>4, Constants
    <2>3. IsQueue(mstbkts', GroundedNodes) /\ Holds(mstbkts', {Source}, nodecost')
      BY <1>1, <1>4, <2>1, <2>2, FirstInQueue
    <2>4. \A n \in inbucket' : Reached(n)' /\ n \in GroundedNodes
      BY <1>1, <1>4, <1>7
    <2>. QED BY <1>1, <2>2, <2>3, <2>4 DEF Queued
  <1>15. Ways'
    <2>. DEFINE way == [n \in GroundedNodes |-> {n}]
    <2>1. Cardinality({Source}) = 1
      BY FS_Singleton
    <2>2. 0 * NodeCount = 0 /\ (1 - 1) * Unreached = 0
      BY Constants
    <2>3. nodecost'[Source] = 0 /\ nodecost'[Source] * NodeCount <= (Cardinality({Source}) - 1) * Unreached
      BY <1>1, <1>4, <2>1, <2>2
    <2>4. way \in [GroundedNodes -> SUBSET GroundedNodes] /\ way[Source] = {Source}
      BY <1>4
    <2>5. \A n \in GroundedNodes : Reached(n)' =>
            /\ n \in way[n] /\ \A m \in way[n] : nodecost'[m] <= nodecost'[n]
            /\ nodecost'[n] * NodeCount <= (Cardinality(way[n]) - 1) * Unreached
      BY <1>7, <2>3, <2>4
    <2>. HIDE DEF way
    <2>. QED BY <2>4, <2>5 DEF Ways, NodeCount
  <1>16. GrowInv'
    BY <1>8, <1>9, <1>10, <1>11, <1>12, <1>13, <1>14, <1>15 DEF GrowInv
  <1>17. WalkInv'
    BY <1>1 DEF WalkInv
  <1>. QED BY <1>6, <1>16, <1>17 DEF TreeInv

\* The parts of the invariant while the tree grows.
LEMMA GrowParts ==
  ASSUME TreeInv, Growing
  PROVE  /\ Typed /\ Backward /\ MarksAreArcs /\ Labels /\ ResiduesWait /\ Frontier /\ AtWork
         /\ Queued /\ Ways
         /\ \A a \in Arcs : arcstatus[a] \in {0, -1}
  BY DEF TreeInv, GrowInv

LEMMA TakeClosestKeeps ==
  ASSUME TreeInv, TakeClosest
  PROVE  TreeInv'
  <1>1. /\ stage = "grow" /\ IsFilled(mstbkts)
        /\ from' = ClosestNode(mstbkts) /\ mstbkts' = AfterClosest(mstbkts)
        /\ inbucket' = inbucket \ {from'} /\ pathto' = from' /\ arcnum' = 1
        /\ stage' = IF Charge(residue, from') # 0 /\ from' # Source THEN "mark" ELSE "scan"
    BY DEF TakeClosest
  <1>2. /\ input' = input /\ residue' = residue /\ mstcosts' = mstcosts /\ mstflows' = mstflows
        /\ nodecost' = nodecost /\ pred' = pred /\ arcstatus' = arcstatus
    BY DEF TakeClosest
  <1>3. /\ Typed /\ Backward /\ MarksAreArcs /\ Labels /\ ResiduesWait /\ Frontier /\ Queued /\ Ways
        /\ \A a \in Arcs : arcstatus[a] \in {0, -1}
    BY <1>1, GrowParts DEF Growing
  <1>4. /\ Source' = Source /\ HasPred' = HasPred /\ Marked' = Marked /\ Joined' = Joined
        /\ \A n : /\ IsResidue(n)' <=> IsResidue(n)
                  /\ Reached(n)' <=> Reached(n)
                  /\ InTree(n)' <=> InTree(n)
                  /\ TreeArc(n)' = TreeArc(n)
    BY <1>2 DEF Source, HasPred, Marked, Joined, IsResidue, Reached, InTree, TreeArc
  <1>5. stage' \in {"mark", "scan"} /\ (stage' = "mark" <=> IsResidue(from') /\ from' # Source)
    BY <1>1 DEF IsResidue
  <1>6. /\ from' \in inbucket /\ from' \in GroundedNodes /\ Reached(from')
        /\ Queued'
    <2>1. PICK cost \in [GroundedNodes -> Int] :
            /\ IsQueue(mstbkts, GroundedNodes) /\ Holds(mstbkts, inbucket, cost)
            /\ \A n \in inbucket : nodecost[n] \in {cost[n], 0}
      BY <1>3 DEF Queued
    <2>2. inbucket \in SUBSET GroundedNodes /\ \A n \in inbucket : Reached(n)
      BY <1>3 DEF Queued
    <2>3. inbucket # {}
      BY <1>1, <2>1, <2>2, ClosestTaken
    <2>4. /\ from' \in inbucket /\ IsQueue(mstbkts', GroundedNodes)
          /\ Holds(mstbkts', inbucket', cost)
      BY <1>1, <2>1, <2>2, <2>3, ClosestTaken
    <2>5. /\ inbucket' \in SUBSET GroundedNodes /\ \A n \in inbucket' : Reached(n)'
          /\ \A n \in inbucket' : nodecost'[n] \in {cost[n], 0}
      BY <1>1, <1>2, <1>4, <2>1, <2>2
    <2>6. Queued'
      BY <2>4, <2>5 DEF Queued
    <2>. QED BY <2>2, <2>4, <2>6
  <1>7. Typed'
    BY <1>2, <1>3, <1>5 DEF Typed
  <1>8. Backward' /\ MarksAreArcs'
    BY <1>2, <1>3, <1>4 DEF Backward, MarksAreArcs, Rooted
  <1>9. Labels'
    <2>1. \A n \in HasPred : nodecost[pred[n]] <= nodecost[n]
      BY <1>1, <1>3 DEF Labels, IsAhead
    <2>2. \A n \in Joined : nodecost[n] = 0 /\ InTree(pred[n])
      BY <1>1, <1>3 DEF Labels, IsAhead
    <2>. QED BY <1>2, <1>3, <1>4, <2>1, <2>2 DEF Labels
  <1>10. ResiduesWait'
    <2>1. ASSUME NEW n \in GroundedNodes, IsResidue(n), ~ InTree(n)
          PROVE  /\ n \in inbucket' \/ ~ Reached(n) \/ (stage' = "mark" /\ n = from')
                 /\ \A m \in GroundedNodes : pred[m] # n
      <3>1. /\ n \in inbucket \/ ~ Reached(n)
            /\ \A m \in GroundedNodes : pred[m] # n
        BY <1>1, <1>3, <2>1 DEF ResiduesWait
      <3>2. n # Source
        BY <2>1 DEF InTree
      <3>. QED BY <1>1, <1>5, <2>1, <3>1, <3>2
    <2>. QED BY <1>2, <1>4, <2>1 DEF ResiduesWait
  <1>11. Frontier'
    <2>1. \A n \in GroundedNodes : Reached(n) /\ n \notin inbucket =>
            \A j \in DOMAIN GridNeighbors[n] :
              GridNeighbors[n][j].arc \notin CornerArcs => Reached(GridNeighbors[n][j].node)
      BY <1>1, <1>3 DEF Frontier
    <2>2. \A n \in GroundedNodes : \A j \in DOMAIN GridNeighbors[n] : ~ (j < 1)
      BY NeighborFacts
    <2>3. stage' # "grow"
      BY <1>5
    <2>. QED BY <1>1, <1>4, <2>1, <2>2, <2>3 DEF Frontier
  <1>12. AtWork'
    <2>1. arcnum' \in DOMAIN GridNeighbors[from']
      BY <1>1, <1>6, NeighborFacts
    <2>2. stage' = "scan" /\ IsResidue(from') => InTree(from')
      BY <1>5 DEF InTree
    <2>3. stage' = "mark" => IsResidue(from') /\ from' # Source /\ pathto' \in HasPred
      BY <1>1, <1>5, <1>6 DEF Reached
    <2>4. IsResidue(from)' <=> IsResidue(from')
      BY <1>2 DEF IsResidue
    <2>5. InTree(from)' <=> InTree(from')
      BY <1>4 DEF InTree
    <2>6. Reached(from)'
      BY <1>4, <1>6 DEF Reached
    <2>. QED BY <1>1, <1>4, <1>6, <2>1, <2>2, <2>3, <2>4, <2>5, <2>6 DEF AtWork
  <1>13. Ways'
    <2>1. PICK way \in [GroundedNodes -> SUBSET GroundedNodes] :
            \A n \in GroundedNodes : Reached(n) =>
              /\ n \in way[n] /\ \A m \in way[n] : nodecost[m] <= nodecost[n]
              /\ nodecost[n] * NodeCount <= (Cardinality(way[n]) - 1) * Unreached
      BY <1>3 DEF Ways
    <2>. QED BY <1>2, <1>4, <2>1 DEF Ways, NodeCount
  <1>14. GrowInv' /\ WalkInv'
    BY <1>2, <1>3, <1>5, <1>6, <1>8, <1>9, <1>10, <1>11, <1>12, <1>13 DEF GrowInv, WalkInv
  <1>. QED BY <1>7, <1>14 DEF TreeInv

LEMMA MarkPathKeeps ==
  ASSUME TreeInv, MarkPath
  PROVE  TreeInv'
  <1>. DEFINE q == pred[pathto]
              a == TreeArc(pathto)
  <1>1. /\ stage = "mark"
        /\ nodecost' = [nodecost EXCEPT ![pathto] = 0]
        /\ arcstatus' = [arcstatus EXCEPT ![a] = -1]
        /\ IF IsResidue(q) THEN stage' = "scan" /\ pathto' = pathto
           ELSE stage' = stage /\ pathto' = q
    BY DEF MarkPath, TreeArc, IsResidue
  <1>2. /\ input' = input /\ residue' = residue /\ mstcosts' = mstcosts /\ mstflows' = mstflows
        /\ mstbkts' = mstbkts /\ inbucket' = inbucket /\ pred' = pred /\ from' = from
        /\ arcnum' = arcnum
    BY DEF MarkPath
  <1>3. /\ Typed /\ Backward /\ MarksAreArcs /\ Labels /\ ResiduesWait /\ Frontier /\ AtWork
        /\ Queued /\ Ways
        /\ \A x \in Arcs : arcstatus[x] \in {0, -1}
    BY <1>1, GrowParts DEF Growing
  <1>4. /\ pathto \in HasPred /\ arcnum = 1 /\ IsResidue(from) /\ from # Source
        /\ from \in GroundedNodes /\ Reached(from) /\ arcnum \in DOMAIN GridNeighbors[from]
        /\ pathto = from \/ (from \in Joined /\ ~ IsResidue(pathto))
    BY <1>1, <1>3 DEF AtWork
  <1>5. /\ q \in GroundedNodes /\ Reached(q) /\ Leads(q, pathto) /\ pathto \in GroundedNodes
        /\ a \in Arcs \ CornerArcs /\ pathto # Source /\ q # pathto
        /\ Source \in GroundedNodes /\ IsResidue(Source)
    <2>1. q \in GroundedNodes /\ Reached(q) /\ Leads(q, pathto) /\ pred[Source] = NoNode
      BY <1>3, <1>4 DEF Backward
    <2>2. {pathto} \in SUBSET HasPred
      BY <1>4
    <2>3. q # pathto
      BY <1>3, <2>2 DEF Backward, Rooted
    <2>. QED BY <1>3, <1>4, <2>1, <2>3, TreeArcLeads DEF HasPred, Backward, GroundedNodes
  <1>. HIDE DEF a
  <1>6. Marked' = Marked \cup {a} /\ \A x \in Arcs : arcstatus'[x] \in {0, -1}
    BY <1>1, <1>3, <1>5 DEF Marked, Typed
  <1>7. /\ Source' = Source /\ HasPred' = HasPred
        /\ \A n : /\ IsResidue(n)' <=> IsResidue(n)
                  /\ Reached(n)' <=> Reached(n)
                  /\ TreeArc(n)' = TreeArc(n)
    BY <1>2 DEF Source, HasPred, IsResidue, Reached, TreeArc
  <1>8. Joined' = Joined \cup {pathto}
    <2>1. \A n \in HasPred : TreeArc(n) = a => n = pathto
      BY <1>3, <1>4, OwnArc DEF a
    <2>. QED BY <1>4, <1>6, <1>7, <2>1 DEF Joined, a
  <1>9. \A n : InTree(n)' <=> InTree(n) \/ n = pathto
    BY <1>7, <1>8 DEF InTree
  <1>10. IsResidue(q) => InTree(q) /\ nodecost[q] = 0
    <2>1. IsResidue(q) => InTree(q)
      BY <1>3, <1>4, <1>5 DEF ResiduesWait
    <2>. QED BY <1>3, <2>1 DEF Labels, InTree
  <1>11. /\ nodecost'[pathto] = 0 /\ \A n \in GroundedNodes : n # pathto => nodecost'[n] = nodecost[n]
         /\ \A n \in GroundedNodes : nodecost[n] \in Int /\ nodecost'[n] \in Int /\ nodecost'[n] <= nodecost[n]
         /\ nodecost' \in [GroundedNodes -> Int]
    <2>1. nodecost \in [GroundedNodes -> Int]
      BY <1>3 DEF Typed
    <2>2. nodecost[pathto] \in Int /\ 0 <= nodecost[pathto]
      BY <1>3, <1>5, <2>1 DEF Labels
    <2>. QED BY <1>1, <1>5, <2>1, <2>2
  <1>12. stage' \in {"mark", "scan"} /\ (stage' = "scan" <=> IsResidue(q))
    BY <1>1
  <1>13. Typed'
    <2>1. arcstatus' \in [Arcs -> Int]
      <3>1. arcstatus \in [Arcs -> Int] /\ -1 \in Int
        BY <1>3 DEF Typed
      <3>. QED BY <1>1, <3>1
    <2>. QED BY <1>2, <1>3, <1>11, <1>12, <2>1 DEF Typed
  <1>14. Backward'
    BY <1>2, <1>3, <1>7 DEF Backward, Rooted
  <1>15. MarksAreArcs'
    BY <1>3, <1>4, <1>6, <1>7, <1>8 DEF MarksAreArcs, a
  <1>16. Labels'
    <2>1. nodecost'[Source] = 0
      BY <1>3, <1>5, <1>11 DEF Labels
    <2>2. ASSUME NEW n \in GroundedNodes
          PROVE  /\ 0 <= nodecost'[n] /\ nodecost'[n] <= Unreached
                 /\ Reached(n) <=> nodecost'[n] < Unreached
      <3>1. CASE n = pathto
        BY <1>4, <1>11, <3>1, Constants DEF Reached
      <3>2. CASE n # pathto
        BY <1>3, <1>11, <3>2 DEF Labels
      <3>. QED BY <3>1, <3>2
    <2>3. ~ IsResidue(q) => stage' = "mark" /\ pathto' = q
      BY <1>1
    <2>4. \A n \in HasPred : n \in GroundedNodes /\ pred[n] \in GroundedNodes
      BY <1>3 DEF Backward, HasPred
    <2>5. ASSUME NEW n \in HasPred
          PROVE  \/ nodecost'[pred[n]] <= nodecost'[n]
                 \/ n \in Joined' /\ stage' = "mark" /\ pred[n] = pathto'
      <3>1. CASE n = pathto
        <4>1. IsResidue(q) => nodecost'[q] = 0
          BY <1>5, <1>10, <1>11
        <4>. QED BY <1>8, <1>11, <2>3, <3>1, <4>1
      <3>2. CASE n # pathto
        <4>1. nodecost[pred[n]] <= nodecost[n] \/ pred[n] = pathto
          BY <1>1, <1>3 DEF Labels, IsAhead
        <4>2. nodecost'[n] = nodecost[n] /\ 0 <= nodecost'[n]
          BY <1>11, <2>2, <2>4, <3>2
        <4>3. CASE pred[n] = pathto
          BY <1>11, <4>2, <4>3
        <4>4. CASE pred[n] # pathto
          BY <1>11, <2>4, <4>1, <4>2, <4>4
        <4>. QED BY <4>3, <4>4
      <3>. QED BY <3>1, <3>2
    <2>6. ASSUME NEW n \in Joined'
          PROVE  /\ nodecost'[n] = 0
                 /\ \/ pred[n] = Source \/ pred[n] \in Joined'
                    \/ stage' = "mark" /\ pred[n] = pathto'
      <3>1. CASE n = pathto
        <4>1. IsResidue(q) => q = Source \/ q \in Joined'
          BY <1>8, <1>10 DEF InTree
        <4>. QED BY <1>11, <2>3, <3>1, <4>1
      <3>2. CASE n # pathto
        <4>1. n \in Joined /\ n \in GroundedNodes
          BY <1>8, <3>2 DEF Joined, HasPred
        <4>2. nodecost[n] = 0 /\ (InTree(pred[n]) \/ pred[n] = pathto)
          BY <1>1, <1>3, <4>1 DEF Labels, IsAhead
        <4>3. pred[n] = Source \/ pred[n] \in Joined'
          BY <1>8, <4>2 DEF InTree
        <4>. QED BY <1>11, <3>2, <4>1, <4>2, <4>3
      <3>. QED BY <3>1, <3>2
    <2>7. /\ nodecost'[Source'] = 0
          /\ \A n \in GroundedNodes : /\ 0 <= nodecost'[n] /\ nodecost'[n] <= Unreached
                                      /\ Reached(n)' <=> nodecost'[n] < Unreached
      BY <1>7, <2>1, <2>2
    <2>8. \A n \in HasPred' :
            nodecost'[pred'[n]] <= nodecost'[n] \/ (n \in Joined' /\ stage' = "mark" /\ pred'[n] = pathto')
      BY <1>2, <1>7, <2>5
    <2>9. \A n \in Joined' :
            /\ nodecost'[n] = 0
            /\ pred'[n] = Source' \/ pred'[n] \in Joined' \/ (stage' = "mark" /\ pred'[n] = pathto')
      BY <1>2, <1>7, <2>6
    <2>. QED BY <2>7, <2>8, <2>9 DEF Labels, InTree, IsAhead
  <1>17. ResiduesWait'
    <2>1. from \in Joined'
      BY <1>4, <1>8
    <2>2. ASSUME NEW n \in GroundedNodes, IsResidue(n), ~ InTree(n)'
          PROVE  /\ n \in inbucket \/ ~ Reached(n)
                 /\ \A m \in GroundedNodes : pred[m] # n
      <3>1. ~ InTree(n)
        BY <1>9, <2>2
      <3>2. n # from
        BY <2>1, <2>2 DEF InTree
      <3>. QED BY <1>3, <2>2, <3>1, <3>2 DEF ResiduesWait
    <2>. QED BY <1>2, <1>7, <2>2 DEF ResiduesWait
  <1>18. Frontier'
    BY <1>1, <1>2, <1>3, <1>7, <1>12 DEF Frontier
  <1>19. AtWork'
    <2>1. IsResidue(q) \/ (q \in HasPred /\ pathto' = q)
      BY <1>1, <1>5 DEF Reached
    <2>2. from \in Joined'
      BY <1>4, <1>8
    <2>3. InTree(from)'
      BY <1>2, <2>2 DEF InTree
    <2>4. Reached(from)' /\ (IsResidue(from)' <=> IsResidue(from))
      BY <1>2, <1>4, <1>7 DEF Reached, IsResidue
    <2>5. (IsResidue(pathto)' <=> IsResidue(pathto'))
      BY <1>2 DEF IsResidue
    <2>. QED BY <1>1, <1>2, <1>4, <1>7, <1>12, <2>1, <2>2, <2>3, <2>4, <2>5 DEF AtWork
  <1>20. Queued'
    <2>1. PICK cost \in [GroundedNodes -> Int] :
            /\ IsQueue(mstbkts, GroundedNodes) /\ Holds(mstbkts, inbucket, cost)
            /\ \A n \in inbucket : nodecost[n] \in {cost[n], 0}
      BY <1>3 DEF Queued
    <2>2. inbucket \in SUBSET GroundedNodes /\ \A n \in inbucket : Reached(n)
      BY <1>3 DEF Queued
    <2>3. \A n \in inbucket : nodecost'[n] \in {cost[n], 0}
      BY <1>11, <2>1, <2>2
    <2>. QED BY <1>2, <1>7, <2>1, <2>2, <2>3 DEF Queued
  <1>21. Ways'
    <2>1. PICK way \in [GroundedNodes -> SUBSET GroundedNodes] :
            \A n \in GroundedNodes : Reached(n) =>
              /\ n \in way[n] /\ \A m \in way[n] : nodecost[m] <= nodecost[n]
              /\ nodecost[n] * NodeCount <= (Cardinality(way[n]) - 1) * Unreached
      BY <1>3 DEF Ways
    <2>. DEFINE way1 == [way EXCEPT ![pathto] = {pathto}]
    <2>2. way1 \in [GroundedNodes -> SUBSET GroundedNodes]
      BY <1>5
    <2>3. ASSUME NEW n \in GroundedNodes, Reached(n)
          PROVE  /\ n \in way1[n] /\ \A m \in way1[n] : nodecost'[m] <= nodecost'[n]
                 /\ nodecost'[n] * NodeCount <= (Cardinality(way1[n]) - 1) * Unreached
      <3>1. CASE n = pathto
        <4>1. way1[n] = {pathto} /\ Cardinality({pathto}) = 1
          BY <1>5, <3>1, FS_Singleton
        <4>2. 0 * NodeCount = 0 /\ (1 - 1) * Unreached = 0
          BY Constants
        <4>. QED BY <1>11, <3>1, <4>1, <4>2
      <3>2. CASE n # pathto
        <4>1. way1[n] = way[n] /\ nodecost'[n] = nodecost[n]
          BY <1>11, <3>2
        <4>2. \A m \in way[n] : m \in GroundedNodes /\ nodecost[m] <= nodecost[n]
          BY <2>1, <2>3
        <4>3. \A m \in way[n] : nodecost'[m] <= nodecost[n]
          BY <1>11, <4>2
        <4>. QED BY <2>1, <2>3, <4>1, <4>3
      <3>. QED BY <3>1, <3>2
    <2>. HIDE DEF way1
    <2>4. \A n \in GroundedNodes : Reached(n)' =>
            /\ n \in way1[n] /\ \A m \in way1[n] : nodecost'[m] <= nodecost'[n]
            /\ nodecost'[n] * NodeCount <= (Cardinality(way1[n]) - 1) * Unreached
      BY <1>7, <2>3
    <2>. QED BY <2>2, <2>4 DEF Ways, NodeCount
  <1>22. GrowInv' /\ WalkInv'
    BY <1>6, <1>12, <1>14, <1>15, <1>16, <1>17, <1>18, <1>19, <1>20, <1>21 DEF GrowInv, WalkInv
  <1>. QED BY <1>13, <1>22 DEF TreeInv

\* The arc that is looked at, and the distance over it.
LEMMA ArcScanned ==
  ASSUME TreeInv, FarEnough, stage = "scan",
         NEW b, b = GridNeighbors[from][arcnum]
  PROVE  /\ b \in RangeOf(GridNeighbors[from]) /\ b.node \in GroundedNodes /\ b.node # from
         /\ b.arc \in Arcs /\ ArcDist(b.arc) \in Nat
         /\ nodecost[from] \in Nat /\ nodecost[from] < Unreached
         /\ IF b.arc \in CornerArcs THEN ArcDist(b.arc) = Unreached
            ELSE ArcDist(b.arc) * NodeCount <= Unreached
  <1>1. /\ Typed /\ Backward /\ MarksAreArcs /\ Labels /\ AtWork
        /\ \A x \in Arcs : arcstatus[x] \in {0, -1}
    BY GrowParts DEF Growing
  <1>2. from \in GroundedNodes /\ Reached(from) /\ arcnum \in DOMAIN GridNeighbors[from]
    BY <1>1 DEF AtWork
  <1>3. b \in RangeOf(GridNeighbors[from]) /\ b.node \in GroundedNodes /\ b.node # from /\ b.arc \in Arcs
    BY <1>2, NeighborFacts
  <1>4. nodecost[from] \in Nat /\ nodecost[from] < Unreached
    <2>1. nodecost[from] \in Int
      BY <1>1, <1>2 DEF Typed
    <2>. QED BY <1>1, <1>2, <2>1 DEF Labels
  <1>5. mstcosts[b.arc] \in Nat /\ arcstatus[b.arc] \in Int
    BY <1>1, <1>3 DEF Typed
  <1>6. CASE arcstatus[b.arc] < 0
    <2>1. b.arc \in Marked
      BY <1>3, <1>6 DEF Marked
    <2>2. PICK n \in Joined : b.arc = TreeArc(n)
      BY <1>1, <2>1 DEF MarksAreArcs
    <2>3. n \in HasPred /\ pred[n] \in GroundedNodes /\ Leads(pred[n], n)
      BY <1>1, <2>2 DEF Joined, Backward
    <2>4. b.arc \notin CornerArcs
      BY <2>2, <2>3, TreeArcLeads
    <2>5. ArcDist(b.arc) = 0 /\ 0 * NodeCount = 0
      BY <1>6, Constants DEF ArcDist
    <2>. QED BY <1>3, <1>4, <1>6, <2>4, <2>5, Constants
  <1>7. CASE ~ (arcstatus[b.arc] < 0) /\ b.arc \in CornerArcs
    <2>1. mstcosts[b.arc] = Ineligible
      BY <1>1, <1>3, <1>7 DEF Typed
    <2>2. ArcDist(b.arc) = Unreached
      BY <1>7, <2>1 DEF ArcDist
    <2>. QED BY <1>3, <1>4, <1>7, <2>1, <2>2, Constants
  <1>8. CASE ~ (arcstatus[b.arc] < 0) /\ b.arc \notin CornerArcs
    <2>1. mstcosts[b.arc] < Ineligible
      BY <1>1, <1>3, <1>8 DEF Typed
    <2>2. mstcosts[b.arc] # Ineligible
      BY <1>5, <2>1, Constants
    <2>3. ArcDist(b.arc) = mstcosts[b.arc]
      BY <1>8, <2>2 DEF ArcDist
    <2>4. mstcosts[b.arc] * NodeCount <= Unreached
      BY <1>3, <1>8 DEF FarEnough
    <2>. QED BY <1>3, <1>4, <1>5, <1>8, <2>2, <2>3, <2>4, Constants
  <1>. QED BY <1>6, <1>7, <1>8

\* Over an arc that is used there is always a way shorter than VERYFAR: it
\* passes no node twice.
LEMMA NotTooFar ==
  ASSUME TreeInv, FarEnough, stage = "scan",
         NEW b, b = GridNeighbors[from][arcnum], b.arc \notin CornerArcs,
         nodecost[from] + ArcDist(b.arc) >= nodecost[b.node]
  PROVE  Reached(b.node)
  <1>. SUFFICES ASSUME ~ Reached(b.node) PROVE FALSE
    OBVIOUS
  <1>. DEFINE to == b.node
              D == ArcDist(b.arc)
  <1>1. Labels /\ Ways /\ AtWork
    BY GrowParts DEF Growing
  <1>2. /\ to \in GroundedNodes /\ to # from /\ b.arc \in Arcs /\ D \in Nat
        /\ nodecost[from] \in Nat /\ nodecost[from] < Unreached
    BY ArcScanned
  <1>3. D * NodeCount <= Unreached
    BY ArcScanned
  <1>4. from \in GroundedNodes /\ Reached(from)
    BY <1>1 DEF AtWork
  <1>5. nodecost[to] = Unreached
    <2>1. ~ (nodecost[to] < Unreached) /\ nodecost[to] <= Unreached /\ 0 <= nodecost[to]
      BY <1>1, <1>2 DEF Labels
    <2>2. nodecost[to] \in Int
      BY <1>2 DEF TreeInv, Typed
    <2>. QED BY <2>1, <2>2, Constants
  <1>6. PICK way \in [GroundedNodes -> SUBSET GroundedNodes] :
          /\ \A m \in way[from] : nodecost[m] <= nodecost[from]
          /\ nodecost[from] * NodeCount <= (Cardinality(way[from]) - 1) * Unreached
    BY <1>1, <1>4 DEF Ways
  <1>. DEFINE w == way[from]
              C == Cardinality(w)
  <1>7. w \subseteq GroundedNodes \ {to}
    <2>1. ~ (nodecost[to] <= nodecost[from])
      BY <1>2, <1>5, Constants
    <2>. QED BY <1>4, <1>6, <2>1
  <1>8. C \in Nat /\ C <= NodeCount - 1
    <2>1. IsFiniteSet(GroundedNodes \ {to}) /\ Cardinality(GroundedNodes \ {to}) = NodeCount - 1
      BY <1>2, FiniteGrid, FS_RemoveElement DEF NodeCount
    <2>2. IsFiniteSet(w) /\ C <= Cardinality(GroundedNodes \ {to})
      BY <1>7, <2>1, FS_Subset
    <2>. QED BY <2>1, <2>2, FS_CardinalityType
  <1>9. nodecost[from] * NodeCount <= (C - 1) * Unreached
    BY <1>6
  <1>10. nodecost[from] + D >= Unreached
    BY <1>5
  <1>11. D \in Int /\ nodecost[from] \in Int
    BY <1>2
  <1>. HIDE DEF C, w, D
  <1>12. \A x, y \in Int : (x + y) * NodeCount = x * NodeCount + y * NodeCount
    BY Constants
  <1>13. (nodecost[from] + D) * NodeCount <= (C - 1) * Unreached + Unreached
    <2>1. nodecost[from] * NodeCount \in Int /\ D * NodeCount \in Int /\ (C - 1) * Unreached \in Int
      BY <1>8, <1>11, Constants
    <2>. QED BY <1>3, <1>9, <1>11, <1>12, <2>1, Constants
  <1>14. Unreached * NodeCount <= (nodecost[from] + D) * NodeCount
    BY <1>10, <1>11, Constants
  <1>15. (C - 1) * Unreached + Unreached = C * Unreached
    BY <1>8, Constants
  <1>16. C * Unreached <= (NodeCount - 1) * Unreached
    BY <1>8, Constants
  <1>17. (NodeCount - 1) * Unreached = NodeCount * Unreached - Unreached
    BY Constants
  <1>18. Unreached * NodeCount = NodeCount * Unreached /\ NodeCount * Unreached \in Int
    BY Constants
  <1>19. (nodecost[from] + D) * NodeCount \in Int /\ C * Unreached \in Int
    BY <1>8, <1>11, Constants
  <1>. QED BY <1>13, <1>14, <1>15, <1>16, <1>17, <1>18, <1>19, Constants

\* An arc that gives the node at its other end no shorter way.
LEMMA NotBetterKeeps ==
  ASSUME TreeInv, FarEnough, ScanArc, NEW b, b = GridNeighbors[from][arcnum],
         nodecost[from] + ArcDist(b.arc) >= nodecost[b.node]
  PROVE  TreeInv'
  <1>1. /\ stage = "scan" /\ UNCHANGED treevars /\ arcnum' = arcnum + 1
        /\ stage' = IF arcnum = Len(GridNeighbors[from]) THEN "grow" ELSE "scan"
    BY DEF ScanArc, Relax
  <1>2. /\ input' = input /\ residue' = residue /\ mstcosts' = mstcosts /\ mstflows' = mstflows
        /\ mstbkts' = mstbkts /\ inbucket' = inbucket /\ nodecost' = nodecost /\ pred' = pred
        /\ arcstatus' = arcstatus /\ from' = from /\ pathto' = pathto
    BY <1>1 DEF ScanArc, treevars
  <1>3. /\ Typed /\ Backward /\ MarksAreArcs /\ Labels /\ ResiduesWait /\ Frontier /\ AtWork
        /\ Queued /\ Ways
        /\ \A x \in Arcs : arcstatus[x] \in {0, -1}
    BY <1>1, GrowParts DEF Growing
  <1>4. /\ Source' = Source /\ HasPred' = HasPred /\ Marked' = Marked /\ Joined' = Joined
        /\ \A n : /\ IsResidue(n)' <=> IsResidue(n)
                  /\ Reached(n)' <=> Reached(n)
                  /\ InTree(n)' <=> InTree(n)
                  /\ TreeArc(n)' = TreeArc(n)
    BY <1>2 DEF Source, HasPred, Marked, Joined, IsResidue, Reached, InTree, TreeArc
  <1>5. stage' \in {"grow", "scan"} /\ (stage' = "grow" <=> arcnum = Len(GridNeighbors[from]))
    BY <1>1
  <1>6. b.arc \notin CornerArcs => Reached(b.node)
    BY <1>1, NotTooFar
  <1>7. /\ from \in GroundedNodes /\ Reached(from) /\ arcnum \in 1..Len(GridNeighbors[from])
        /\ DOMAIN GridNeighbors[from] = 1..Len(GridNeighbors[from]) /\ Len(GridNeighbors[from]) \in Nat
        /\ IsResidue(from) => InTree(from)
    BY <1>1, <1>3, NeighborFacts DEF AtWork
  <1>8. Typed'
    BY <1>2, <1>3, <1>5 DEF Typed
  <1>9. Backward' /\ MarksAreArcs'
    BY <1>2, <1>3, <1>4 DEF Backward, MarksAreArcs, Rooted
  <1>10. Labels'
    <2>1. \A n \in HasPred : nodecost[pred[n]] <= nodecost[n]
      BY <1>1, <1>3 DEF Labels, IsAhead
    <2>2. \A n \in Joined : nodecost[n] = 0 /\ InTree(pred[n])
      BY <1>1, <1>3 DEF Labels, IsAhead
    <2>. QED BY <1>2, <1>3, <1>4, <2>1, <2>2 DEF Labels
  <1>11. ResiduesWait'
    BY <1>1, <1>2, <1>3, <1>4 DEF ResiduesWait
  <1>12. Frontier'
    <2>1. ASSUME NEW n \in GroundedNodes, Reached(n), n \notin inbucket,
                 NEW k \in DOMAIN GridNeighbors[n], GridNeighbors[n][k].arc \notin CornerArcs,
                 stage' # "grow" /\ n = from => k < arcnum + 1
          PROVE  Reached(GridNeighbors[n][k].node)
      <3>1. CASE n = from /\ k = arcnum
        BY <1>6, <2>1, <3>1
      <3>2. CASE ~ (n = from /\ k = arcnum)
        <4>1. stage # "grow" /\ n = from => k < arcnum
          <5>1. n = from => k \in 1..Len(GridNeighbors[from])
            BY <1>7
          <5>. QED BY <1>5, <1>7, <2>1, <3>2, <5>1
        <4>. QED BY <1>3, <2>1, <4>1 DEF Frontier
      <3>. QED BY <3>1, <3>2
    <2>. QED BY <1>1, <1>2, <1>4, <2>1 DEF Frontier
  <1>13. AtWork'
    <2>1. stage' = "scan" => arcnum + 1 \in DOMAIN GridNeighbors[from]
      BY <1>5, <1>7
    <2>2. (Reached(from)' <=> Reached(from)) /\ (IsResidue(from)' <=> IsResidue(from))
      BY <1>2, <1>4 DEF Reached, IsResidue
    <2>3. InTree(from)' <=> InTree(from)
      BY <1>2, <1>4 DEF InTree
    <2>. QED BY <1>1, <1>2, <1>5, <1>7, <2>1, <2>2, <2>3 DEF AtWork
  <1>14. Queued'
    BY <1>2, <1>3, <1>4 DEF Queued
  <1>15. Ways'
    <2>1. PICK way \in [GroundedNodes -> SUBSET GroundedNodes] :
            \A n \in GroundedNodes : Reached(n) =>
              /\ n \in way[n] /\ \A m \in way[n] : nodecost[m] <= nodecost[n]
              /\ nodecost[n] * NodeCount <= (Cardinality(way[n]) - 1) * Unreached
      BY <1>3 DEF Ways
    <2>. QED BY <1>2, <1>4, <2>1 DEF Ways, NodeCount
  <1>16. GrowInv' /\ WalkInv'
    BY <1>2, <1>3, <1>5, <1>9, <1>10, <1>11, <1>12, <1>13, <1>14, <1>15 DEF GrowInv, WalkInv
  <1>. QED BY <1>8, <1>16 DEF TreeInv

\* An arc that does: its end is relabelled, and the tree has grown no circle.
LEMMA BetterKeeps ==
  ASSUME TreeInv, FarEnough, ScanArc, NEW b, b = GridNeighbors[from][arcnum],
         ~ (nodecost[from] + ArcDist(b.arc) >= nodecost[b.node])
  PROVE  TreeInv'
  <1>. DEFINE to == b.node
              D == ArcDist(b.arc)
              d == nodecost[from] + D
  <1>1. /\ stage = "scan" /\ arcnum' = arcnum + 1
        /\ stage' = IF arcnum = Len(GridNeighbors[from]) THEN "grow" ELSE "scan"
        /\ mstbkts' = Link(Unlink(mstbkts, to, to \in inbucket, nodecost[to]), to, d)
        /\ inbucket' = inbucket \cup {to}
        /\ nodecost' = [nodecost EXCEPT ![to] = d]
        /\ pred' = [pred EXCEPT ![to] = from]
    BY DEF ScanArc, Relax
  <1>2. /\ input' = input /\ residue' = residue /\ mstcosts' = mstcosts /\ mstflows' = mstflows
        /\ arcstatus' = arcstatus /\ from' = from /\ pathto' = pathto
    BY DEF ScanArc
  <1>3. /\ Typed /\ Backward /\ MarksAreArcs /\ Labels /\ ResiduesWait /\ Frontier /\ AtWork
        /\ Queued /\ Ways
        /\ \A x \in Arcs : arcstatus[x] \in {0, -1}
    BY <1>1, GrowParts DEF Growing
  <1>4. /\ b \in RangeOf(GridNeighbors[from]) /\ to \in GroundedNodes /\ to # from /\ b.arc \in Arcs
        /\ D \in Nat /\ nodecost[from] \in Nat /\ nodecost[from] < Unreached
        /\ IF b.arc \in CornerArcs THEN D = Unreached ELSE D * NodeCount <= Unreached
    BY <1>1, ArcScanned
  <1>5. /\ from \in GroundedNodes /\ Reached(from) /\ arcnum \in 1..Len(GridNeighbors[from])
        /\ DOMAIN GridNeighbors[from] = 1..Len(GridNeighbors[from]) /\ Len(GridNeighbors[from]) \in Nat
        /\ IsResidue(from) => InTree(from)
    BY <1>1, <1>3, NeighborFacts DEF AtWork
  <1>6. ~ (d >= nodecost[to])
    OBVIOUS
  <1>. HIDE DEF D
  <1>7. /\ nodecost \in [GroundedNodes -> Int] /\ nodecost[to] \in Int /\ nodecost[to] <= Unreached
        /\ pred \in [GroundedNodes -> GroundedNodes \cup {NoNode}]
    BY <1>3, <1>4 DEF Typed, Labels
  <1>8. /\ d \in Int /\ nodecost[from] <= d /\ 0 <= d /\ d < nodecost[to] /\ d < Unreached
        /\ nodecost[from] < nodecost[to] /\ nodecost[to] > 0
    BY <1>4, <1>6, <1>7, Constants
  <1>. HIDE DEF d
  <1>9. b.arc \notin CornerArcs /\ D * NodeCount <= Unreached
    BY <1>4, <1>8, Constants DEF d
  <1>10. Leads(from, to)
    BY <1>4, <1>9 DEF Leads
  <1>11. /\ to # Source /\ to \notin Joined /\ ~ InTree(to)
         /\ Source \in GroundedNodes /\ IsResidue(Source) /\ Source \in GridNodes
    <2>1. nodecost[Source] = 0 /\ \A n \in Joined : nodecost[n] = 0
      BY <1>3 DEF Labels
    <2>. QED BY <1>3, <1>8, <2>1 DEF InTree, Backward, GroundedNodes
  <1>. HIDE DEF to
  <1>12. /\ \A n \in GroundedNodes : n # to => pred'[n] = pred[n] /\ nodecost'[n] = nodecost[n]
         /\ pred'[to] = from /\ nodecost'[to] = d
         /\ pred' \in [GroundedNodes -> GroundedNodes \cup {NoNode}]
         /\ nodecost' \in [GroundedNodes -> Int]
    BY <1>1, <1>4, <1>5, <1>7, <1>8
  <1>13. HasPred' = HasPred \cup {to}
    BY <1>4, <1>5, <1>12, NotANode DEF HasPred
  <1>14. /\ Source' = Source /\ Marked' = Marked
         /\ \A n : IsResidue(n)' <=> IsResidue(n)
    BY <1>2 DEF Source, Marked, IsResidue
  <1>15. \A n \in GroundedNodes : Reached(n)' <=> Reached(n) \/ n = to
    BY <1>13, <1>14 DEF Reached
  <1>16. \A n \in GroundedNodes : n # to => TreeArc(n)' = TreeArc(n)
    BY <1>12 DEF TreeArc
  <1>17. \A n \in HasPred : /\ n \in GroundedNodes /\ pred[n] \in GroundedNodes
                            /\ nodecost[pred[n]] <= nodecost[n]
                            /\ Reached(pred[n]) /\ Leads(pred[n], n)
    BY <1>1, <1>3 DEF Labels, IsAhead, Backward, HasPred
  <1>18. \A n \in Joined : n \in HasPred /\ n # to /\ nodecost[n] = 0 /\ InTree(pred[n])
    BY <1>1, <1>3, <1>11 DEF Labels, IsAhead, Joined
  <1>19. GridArc[from][to].arc \notin Marked
    <2>1. ASSUME GridArc[from][to].arc \in Marked PROVE FALSE
      <3>1. PICK n \in Joined : GridArc[from][to].arc = TreeArc(n)
        BY <1>3, <2>1 DEF MarksAreArcs
      <3>2. n \in HasPred /\ pred[n] \in GroundedNodes /\ Leads(pred[n], n) /\ n # to
        BY <1>17, <1>18
      <3>3. PICK c \in RangeOf(GridNeighbors[pred[n]]) : c.node = n /\ c.arc = TreeArc(n)
        BY <3>2, TreeArcLeads
      <3>4. GridArc[from][to] \in RangeOf(GridNeighbors[from]) /\ GridArc[from][to].node = to
        BY <1>4, <1>5, <1>10, GridArcLeads
      <3>5. n = from /\ pred[n] = to
        BY <1>5, <3>1, <3>2, <3>3, <3>4, SameArc
      <3>. QED BY <1>5, <1>7, <1>8, <1>17, <3>2, <3>5
    <2>. QED BY <2>1
  <1>20. Joined' = Joined
    <2>1. TreeArc(to)' = GridArc[from][to].arc
      BY <1>12 DEF TreeArc
    <2>. QED BY <1>11, <1>12, <1>13, <1>14, <1>16, <1>17, <1>18, <1>19, <2>1 DEF Joined
  <1>21. \A n : InTree(n)' <=> InTree(n)
    BY <1>14, <1>20 DEF InTree
  <1>22. stage' \in {"grow", "scan"} /\ (stage' = "grow" <=> arcnum = Len(GridNeighbors[from]))
    BY <1>1
  <1>23. Typed'
    BY <1>2, <1>3, <1>12, <1>22 DEF Typed
  <1>24. Backward'
    <2>1. pred'[Source] = NoNode
      BY <1>3, <1>11, <1>12 DEF Backward
    <2>2. \A n \in HasPred' : pred'[n] \in GroundedNodes /\ Reached(pred'[n]) /\ Leads(pred'[n], n)
      BY <1>5, <1>10, <1>12, <1>13, <1>17
    <2>3. ASSUME NEW Z \in SUBSET HasPred', Z # {}
          PROVE  \E n \in Z : pred'[n] \notin Z
      <3>1. CASE to \notin Z
        <4>1. Z \in SUBSET HasPred
          BY <1>13, <2>3, <3>1
        <4>2. PICK n \in Z : pred[n] \notin Z
          BY <1>3, <2>3, <4>1 DEF Backward, Rooted
        <4>3. pred'[n] = pred[n]
          BY <1>12, <1>17, <3>1, <4>1, <4>2
        <4>. QED BY <4>2, <4>3
      <3>2. CASE to \in Z /\ from \notin Z
        BY <1>12, <3>2
      <3>3. CASE to \in Z /\ from \in Z
        <4>. DEFINE low == {n \in Z : nodecost[n] < nodecost[to]}
        <4>1. from \in low /\ low \in SUBSET HasPred
          BY <1>7, <1>8, <1>13, <2>3, <3>3
        <4>2. PICK n \in low : pred[n] \notin low
          <5>. HIDE DEF low
          <5>. QED BY <1>3, <4>1 DEF Backward, Rooted
        <4>3. n \in Z /\ n \in HasPred /\ n \in GroundedNodes /\ nodecost[n] < nodecost[to]
          BY <1>17, <4>1, <4>2
        <4>4. pred[n] \in GroundedNodes /\ nodecost[pred[n]] <= nodecost[n]
          BY <1>17, <4>3
        <4>5. nodecost[pred[n]] < nodecost[to] /\ n # to
          BY <1>7, <4>3, <4>4
        <4>6. pred[n] \notin Z
          BY <4>2, <4>5
        <4>. QED BY <1>12, <4>3, <4>5, <4>6
      <3>. QED BY <3>1, <3>2, <3>3
    <2>4. Rooted'
      BY <2>3 DEF Rooted
    <2>5. \A n \in HasPred' : /\ pred'[n] \in GroundedNodes /\ Leads(pred'[n], n)
                              /\ pred'[n] = Source' \/ pred'[n] \in HasPred'
      BY <1>13, <1>14, <2>2 DEF Reached
    <2>. QED BY <1>11, <1>14, <2>1, <2>4, <2>5 DEF Backward, Reached
  <1>25. MarksAreArcs'
    BY <1>3, <1>14, <1>16, <1>17, <1>18, <1>20 DEF MarksAreArcs
  <1>26. Labels'
    <2>1. nodecost'[Source'] = 0
      BY <1>3, <1>11, <1>12, <1>14 DEF Labels
    <2>2. ASSUME NEW n \in GroundedNodes
          PROVE  /\ 0 <= nodecost'[n] /\ nodecost'[n] <= Unreached
                 /\ Reached(n)' <=> nodecost'[n] < Unreached
      <3>1. CASE n = to
        BY <1>8, <1>12, <1>15, <3>1, Constants
      <3>2. CASE n # to
        BY <1>3, <1>12, <1>15, <3>2 DEF Labels
      <3>. QED BY <3>1, <3>2
    <2>3. ASSUME NEW n \in HasPred' PROVE nodecost'[pred'[n]] <= nodecost'[n]
      <3>1. CASE n = to
        BY <1>4, <1>5, <1>8, <1>12, <3>1
      <3>2. CASE n # to
        <4>1. /\ pred'[n] = pred[n] /\ nodecost'[n] = nodecost[n] /\ pred[n] \in GroundedNodes
              /\ nodecost[pred[n]] <= nodecost[n] /\ n \in GroundedNodes
          BY <1>12, <1>13, <1>17, <3>2
        <4>2. nodecost'[pred[n]] <= nodecost[pred[n]] /\ nodecost'[pred[n]] \in Int
          <5>1. CASE pred[n] = to
            BY <1>7, <1>8, <1>12, <5>1
          <5>2. CASE pred[n] # to
            BY <1>7, <1>12, <4>1, <5>2
          <5>. QED BY <5>1, <5>2
        <4>3. nodecost[pred[n]] \in Int /\ nodecost[n] \in Int
          BY <1>7, <4>1
        <4>. QED BY <4>1, <4>2, <4>3
      <3>. QED BY <3>1, <3>2
    <2>4. \A n \in Joined' : /\ nodecost'[n] = 0
                             /\ pred'[n] = Source' \/ pred'[n] \in Joined'
      BY <1>12, <1>14, <1>17, <1>18, <1>20 DEF InTree
    <2>. QED BY <2>1, <2>2, <2>3, <2>4 DEF Labels, InTree
  <1>27. ResiduesWait'
    <2>1. ASSUME NEW n \in GroundedNodes, IsResidue(n), ~ InTree(n)
          PROVE  /\ n \in inbucket' \/ ~ Reached(n)'
                 /\ \A m \in GroundedNodes : pred'[m] # n
      <3>1. /\ n \in inbucket \/ ~ Reached(n)
            /\ \A m \in GroundedNodes : pred[m] # n
        BY <1>1, <1>3, <2>1 DEF ResiduesWait
      <3>2. n # from
        BY <1>5, <2>1
      <3>. QED BY <1>1, <1>12, <1>15, <3>1, <3>2
    <2>. QED BY <1>14, <1>21, <2>1 DEF ResiduesWait
  <1>28. Frontier'
    <2>1. ASSUME NEW n \in GroundedNodes, Reached(n)', n \notin inbucket',
                 NEW k \in DOMAIN GridNeighbors[n], GridNeighbors[n][k].arc \notin CornerArcs,
                 stage' # "grow" /\ n = from => k < arcnum + 1
          PROVE  Reached(GridNeighbors[n][k].node)'
      <3>1. GridNeighbors[n][k].node \in GroundedNodes
        BY <2>1, NeighborFacts
      <3>2. CASE n = from /\ k = arcnum
        BY <1>15, <3>1, <3>2 DEF to
      <3>3. CASE ~ (n = from /\ k = arcnum)
        <4>1. stage # "grow" /\ n = from => k < arcnum
          <5>1. n = from => k \in 1..Len(GridNeighbors[from])
            BY <1>5
          <5>. QED BY <1>5, <1>22, <2>1, <3>3, <5>1
        <4>2. Reached(n) /\ n \notin inbucket
          BY <1>1, <1>15, <2>1
        <4>3. Reached(GridNeighbors[n][k].node)
          BY <1>3, <2>1, <4>1, <4>2 DEF Frontier
        <4>. QED BY <1>15, <3>1, <4>3
      <3>. QED BY <3>2, <3>3
    <2>. QED BY <1>1, <1>2, <2>1 DEF Frontier
  <1>29. AtWork'
    <2>1. stage' = "scan" => arcnum + 1 \in DOMAIN GridNeighbors[from]
      BY <1>5, <1>22
    <2>2. Reached(from)' /\ (IsResidue(from)' <=> IsResidue(from))
      BY <1>2, <1>5, <1>13, <1>14 DEF Reached, IsResidue
    <2>3. InTree(from)' <=> InTree(from)
      BY <1>2, <1>14, <1>20 DEF InTree
    <2>. QED BY <1>1, <1>2, <1>5, <1>22, <2>1, <2>2, <2>3 DEF AtWork
  <1>30. Queued'
    <2>1. PICK cost \in [GroundedNodes -> Int] :
            /\ IsQueue(mstbkts, GroundedNodes) /\ Holds(mstbkts, inbucket, cost)
            /\ \A n \in inbucket : nodecost[n] \in {cost[n], 0}
      BY <1>3 DEF Queued
    <2>2. inbucket \in SUBSET GroundedNodes /\ \A n \in inbucket : Reached(n)
      BY <1>3 DEF Queued
    <2>. DEFINE cost1 == [cost EXCEPT ![to] = d]
    <2>3. Unlink(mstbkts, to, to \in inbucket, nodecost[to]) = Unlink(mstbkts, to, to \in inbucket, cost[to])
      <3>1. to \in inbucket => nodecost[to] = cost[to]
        BY <1>7, <1>8, <2>1
      <3>. QED BY <3>1 DEF Unlink
    <2>4. IsQueue(mstbkts', GroundedNodes) /\ Holds(mstbkts', inbucket', cost1)
      BY <1>1, <1>4, <1>8, <2>1, <2>2, <2>3, Relabelled DEF to
    <2>5. cost1 \in [GroundedNodes -> Int] /\ cost1[to] = d /\ \A n \in GroundedNodes : n # to => cost1[n] = cost[n]
      BY <1>4, <1>8
    <2>6. \A n \in inbucket' : n \in GroundedNodes /\ Reached(n)' /\ nodecost'[n] \in {cost1[n], 0}
      BY <1>1, <1>4, <1>12, <1>15, <2>1, <2>2, <2>5
    <2>. QED BY <2>4, <2>5, <2>6 DEF Queued
  <1>31. Ways'
    <2>1. PICK way \in [GroundedNodes -> SUBSET GroundedNodes] :
            \A n \in GroundedNodes : Reached(n) =>
              /\ n \in way[n] /\ \A m \in way[n] : nodecost[m] <= nodecost[n]
              /\ nodecost[n] * NodeCount <= (Cardinality(way[n]) - 1) * Unreached
      BY <1>3 DEF Ways
    <2>. DEFINE w == way[from] \cup {to}
                C == Cardinality(way[from])
                way1 == [way EXCEPT ![to] = w]
    <2>2. way1 \in [GroundedNodes -> SUBSET GroundedNodes] /\ way1[to] = w
      BY <1>4, <1>5
    <2>3. /\ way[from] \in SUBSET GroundedNodes
          /\ \A m \in way[from] : nodecost[m] <= nodecost[from]
          /\ nodecost[from] * NodeCount <= (C - 1) * Unreached
      BY <1>5, <2>1
    <2>4. to \notin way[from]
      <3>1. ~ (nodecost[to] <= nodecost[from])
        BY <1>4, <1>7, <1>8
      <3>. QED BY <2>3, <3>1
    <2>5. C \in Nat /\ Cardinality(w) = C + 1
      <3>1. IsFiniteSet(way[from])
        BY <2>3, FiniteGrid, FS_Subset
      <3>. QED BY <2>4, <3>1, FS_AddElement, FS_CardinalityType
    <2>6. \A m \in way[from] : nodecost'[m] = nodecost[m] /\ nodecost[m] \in Int
      BY <1>7, <1>12, <2>3, <2>4
    <2>7. to \in w /\ \A m \in w : nodecost'[m] <= d
      <3>1. \A m \in way[from] : nodecost'[m] <= d
        BY <1>4, <1>8, <2>3, <2>6
      <3>. QED BY <1>8, <1>12, <3>1
    <2>8. d * NodeCount <= (Cardinality(w) - 1) * Unreached
      <3>1. \A x, y \in Int : (x + y) * NodeCount = x * NodeCount + y * NodeCount
        BY Constants
      <3>2. d * NodeCount = nodecost[from] * NodeCount + D * NodeCount
        BY <1>4, <3>1 DEF d
      <3>3. (C - 1) * Unreached + Unreached = (C + 1 - 1) * Unreached
        BY <2>5, Constants
      <3>4. /\ nodecost[from] * NodeCount \in Int /\ D * NodeCount \in Int
            /\ (C - 1) * Unreached \in Int /\ (C + 1 - 1) * Unreached \in Int
        BY <1>4, <2>5, Constants
      <3>. QED BY <1>9, <2>3, <2>5, <3>2, <3>3, <3>4, Constants
    <2>. HIDE DEF w, C
    <2>9. ASSUME NEW n \in GroundedNodes, Reached(n)'
          PROVE  /\ n \in way1[n] /\ \A m \in way1[n] : nodecost'[m] <= nodecost'[n]
                 /\ nodecost'[n] * NodeCount <= (Cardinality(way1[n]) - 1) * Unreached
      <3>1. CASE n = to
        BY <1>12, <2>2, <2>7, <2>8, <3>1
      <3>2. CASE n # to
        <4>1. way1[n] = way[n] /\ nodecost'[n] = nodecost[n] /\ Reached(n)
          BY <1>12, <1>15, <2>9, <3>2
        <4>2. n \in way[n] /\ \A m \in way[n] : m \in GroundedNodes /\ nodecost[m] <= nodecost[n]
          BY <2>1, <4>1
        <4>3. \A m \in way[n] : nodecost'[m] <= nodecost[n]
          BY <1>7, <1>8, <1>12, <4>2
        <4>. QED BY <2>1, <4>1, <4>2, <4>3
      <3>. QED BY <3>1, <3>2
    <2>. HIDE DEF way1
    <2>. QED BY <2>2, <2>9 DEF Ways, NodeCount
  <1>32. GrowInv' /\ WalkInv'
    BY <1>2, <1>3, <1>22, <1>24, <1>25, <1>26, <1>27, <1>28, <1>29, <1>30, <1>31 DEF GrowInv, WalkInv
  <1>. QED BY <1>23, <1>32 DEF TreeInv

LEMMA ScanArcKeeps ==
  ASSUME TreeInv, FarEnough, ScanArc
  PROVE  TreeInv'
  <1>1. PICK b : b = GridNeighbors[from][arcnum]
    OBVIOUS
  <1>. QED BY <1>1, NotBetterKeeps, BetterKeeps

\* Nothing is left to scan: all nodes are reached, so all residues are on the tree.
LEMMA StartDischargeKeeps ==
  ASSUME TreeInv, StartDischarge
  PROVE  TreeInv'
  <1>1. /\ stage = "grow" /\ ~ IsFilled(mstbkts) /\ stage' = "discharge"
        /\ nodecost' = [n \in GroundedNodes |-> Charge(residue, n)] /\ from' = Source
        /\ input' = input /\ residue' = residue /\ mstcosts' = mstcosts /\ mstflows' = mstflows
        /\ pred' = pred /\ arcstatus' = arcstatus
    BY DEF StartDischarge
  <1>2. /\ Typed /\ Backward /\ MarksAreArcs /\ Labels /\ ResiduesWait /\ Frontier /\ Queued
    BY <1>1, GrowParts DEF Growing
  <1>3. /\ Source' = Source /\ HasPred' = HasPred /\ Marked' = Marked /\ Joined' = Joined
        /\ \A n : /\ IsResidue(n)' <=> IsResidue(n)
                  /\ Reached(n)' <=> Reached(n)
                  /\ InTree(n)' <=> InTree(n)
                  /\ TreeArc(n)' = TreeArc(n)
    BY <1>1 DEF Source, HasPred, Marked, Joined, IsResidue, Reached, InTree, TreeArc
  <1>4. inbucket = {}
    <2>1. PICK cost \in [GroundedNodes -> Int] :
            IsQueue(mstbkts, GroundedNodes) /\ Holds(mstbkts, inbucket, cost)
      BY <1>2 DEF Queued
    <2>2. inbucket \in SUBSET GroundedNodes
      BY <1>2 DEF Queued
    <2>. QED BY <1>1, <2>1, <2>2, ClosestTaken
  <1>5. \A n \in GroundedNodes : Reached(n)
    <2>. DEFINE U == {n \in GroundedNodes : Reached(n)}
    <2>1. U \in SUBSET GroundedNodes /\ Source \in U /\ Source # Ground
      BY <1>2, NotANode DEF Backward, Reached, GroundedNodes
    <2>2. ASSUME NEW n \in U, NEW m \in GroundedNodes, Leads(n, m) PROVE m \in U
      <3>1. PICK j \in DOMAIN GridNeighbors[n] :
              GridNeighbors[n][j].node = m /\ GridNeighbors[n][j].arc \notin CornerArcs
        BY <2>2 DEF Leads, RangeOf
      <3>. QED BY <1>1, <1>2, <1>4, <3>1 DEF Frontier
    <2>. HIDE DEF U
    <2>3. U = GroundedNodes
      BY <2>1, <2>2, WholeGrid
    <2>. QED BY <2>3 DEF U
  <1>6. \A n \in GroundedNodes : IsResidue(n) => InTree(n)
    BY <1>1, <1>2, <1>4, <1>5 DEF ResiduesWait
  <1>7. \A n \in Joined : InTree(pred[n])
    BY <1>1, <1>2 DEF Labels, IsAhead
  <1>8. Backward' /\ MarksAreArcs'
    BY <1>1, <1>2, <1>3 DEF Backward, MarksAreArcs, Rooted
  <1>9. TreeStands'
    BY <1>1, <1>3, <1>6, <1>7, <1>8 DEF TreeStands
  <1>10. Typed'
    <2>1. \A n \in GroundedNodes : Charge(residue, n) \in Int
      BY <1>2, ChargeInteger DEF Typed
    <2>2. nodecost' \in [GroundedNodes -> Int]
      BY <1>1, <2>1
    <2>. QED BY <1>1, <1>2, <2>2 DEF Typed
  <1>11. from' \in GroundedNodes
    BY <1>1, <1>2 DEF Backward, GroundedNodes
  <1>12. GrowInv' /\ WalkInv'
    BY <1>1, <1>9, <1>11 DEF GrowInv, Growing, WalkInv
  <1>. QED BY <1>10, <1>12 DEF TreeInv

\* The arc that is followed is on the tree.
LEMMA ArcFollowed ==
  ASSUME from \in GroundedNodes, arcstatus \in [Arcs -> Int], ~ IsWalked(from)
  PROVE  LET fresh == WithStatus(from, -1)
             i == IF fresh # {} THEN LeastOf(fresh) ELSE MostOf(WithStatus(from, -2))
             along == GridNeighbors[from][i]
         IN  /\ along \in RangeOf(GridNeighbors[from])
             /\ along.arc \in Marked /\ along.arc \in Arcs
             /\ along.node \in GroundedNodes /\ along.node # from /\ along.dir \in {1, -1}
             /\ arcstatus[along.arc] = IF fresh # {} THEN -1 ELSE -2
             /\ fresh = {} => \A j \in WithStatus(from, -2) : i >= j
  <1>. DEFINE fresh == WithStatus(from, -1)
              followed == WithStatus(from, -2)
              i == IF fresh # {} THEN LeastOf(fresh) ELSE MostOf(followed)
              along == GridNeighbors[from][i]
  <1>1. DOMAIN GridNeighbors[from] = 1..Len(GridNeighbors[from]) /\ Len(GridNeighbors[from]) \in Nat
    BY NeighborFacts
  <1>2. \A st : /\ WithStatus(from, st) \subseteq 1..Len(GridNeighbors[from])
                /\ WithStatus(from, st) \subseteq Int
    BY <1>1 DEF WithStatus
  <1>3. IsFiniteSet(1..Len(GridNeighbors[from]))
    <2>1. 1 \in Int /\ Len(GridNeighbors[from]) \in Int
      BY <1>1
    <2>. QED BY <2>1, FS_Interval
  <1>4. /\ IsFiniteSet(fresh) /\ fresh \subseteq Int
        /\ IsFiniteSet(followed) /\ followed \subseteq Int
    BY <1>2, <1>3, FS_Subset
  <1>5. fresh # {} \/ followed # {}
    BY DEF IsWalked
  <1>6. /\ fresh # {} => i \in fresh
        /\ fresh = {} => i \in followed /\ \A j \in followed : i >= j
    <2>. HIDE DEF fresh, followed
    <2>. QED BY <1>4, <1>5, LeastOfSet, MostOfSet
  <1>7. i \in DOMAIN GridNeighbors[from] /\ arcstatus[along.arc] = IF fresh # {} THEN -1 ELSE -2
    BY <1>6 DEF WithStatus
  <1>. HIDE DEF i, fresh, followed
  <1>8. /\ along \in RangeOf(GridNeighbors[from]) /\ along.arc \in Arcs
        /\ along.node \in GroundedNodes /\ along.node # from /\ along.dir \in {1, -1}
    BY <1>7, NeighborFacts
  <1>9. along.arc \in Marked
    BY <1>7, <1>8 DEF Marked
  <1>. QED BY <1>6, <1>7, <1>8, <1>9 DEF i, fresh, followed

LEMMA FollowArcKeeps ==
  ASSUME TreeInv, FollowArc
  PROVE  TreeInv'
  <1>. DEFINE fresh == WithStatus(from, -1)
              i == IF fresh # {} THEN LeastOf(fresh) ELSE MostOf(WithStatus(from, -2))
  <1>1. Typed /\ TreeStands /\ from \in GroundedNodes /\ stage = "discharge" /\ ~ IsWalked(from)
    BY DEF FollowArc, TreeInv, WalkInv
  <1>2. PICK along : along = GridNeighbors[from][i]
    OBVIOUS
  <1>3. /\ arcstatus' = [arcstatus EXCEPT ![along.arc] = @ - 1] /\ from' = along.node
        /\ IF fresh # {} THEN UNCHANGED <<mstflows, nodecost>>
           ELSE /\ mstflows' = [mstflows EXCEPT ![along.arc] = @ + along.dir * nodecost[from]]
                /\ nodecost' = [nodecost EXCEPT ![along.node] = @ + nodecost[from], ![from] = 0]
        /\ input' = input /\ residue' = residue /\ mstcosts' = mstcosts /\ stage' = stage
        /\ pred' = pred
    BY <1>2 DEF FollowArc
  <1>4. /\ along.arc \in Marked /\ along.arc \in Arcs /\ along.node \in GroundedNodes
        /\ along.node # from /\ along.dir \in {1, -1} /\ arcstatus[along.arc] \in {-1, -2}
    BY <1>1, <1>2, ArcFollowed DEF Typed
  <1>. HIDE DEF i, fresh
  <1>5. /\ arcstatus \in [Arcs -> Int] /\ nodecost \in [GroundedNodes -> Int]
        /\ mstflows \in [Arcs -> Int] /\ \A a \in Arcs \cap CornerArcs : mstflows[a] = 0
    BY <1>1 DEF Typed
  <1>6. arcstatus' \in [Arcs -> Int] /\ Marked' = Marked
    BY <1>3, <1>4, <1>5 DEF Marked
  <1>7. along.arc \notin CornerArcs
    <2>1. PICK n \in Joined : along.arc = TreeArc(n)
      BY <1>1, <1>4 DEF TreeStands, MarksAreArcs
    <2>2. n \in HasPred /\ pred[n] \in GroundedNodes /\ Leads(pred[n], n)
      BY <1>1, <2>1 DEF Joined, TreeStands, Backward
    <2>. QED BY <2>1, <2>2, TreeArcLeads
  <1>8. /\ nodecost' \in [GroundedNodes -> Int]
        /\ mstflows' \in [Arcs -> Int] /\ \A a \in Arcs \cap CornerArcs : mstflows'[a] = 0
    <2>1. nodecost[from] \in Int /\ along.dir * nodecost[from] \in Int
      BY <1>1, <1>4, <1>5
    <2>. QED BY <1>1, <1>3, <1>4, <1>5, <1>7, <2>1
  <1>9. /\ Source' = Source /\ HasPred' = HasPred /\ Joined' = Joined
        /\ \A n : /\ IsResidue(n)' <=> IsResidue(n)
                  /\ Reached(n)' <=> Reached(n)
                  /\ InTree(n)' <=> InTree(n)
                  /\ TreeArc(n)' = TreeArc(n)
    BY <1>3, <1>6 DEF Source, HasPred, Joined, IsResidue, Reached, InTree, TreeArc
  <1>10. Typed'
    BY <1>1, <1>3, <1>6, <1>8 DEF Typed
  <1>11. Backward' /\ MarksAreArcs'
    BY <1>1, <1>3, <1>6, <1>9 DEF TreeStands, Backward, MarksAreArcs, Rooted
  <1>12. TreeStands'
    BY <1>1, <1>3, <1>9, <1>11 DEF TreeStands
  <1>13. GrowInv' /\ WalkInv'
    BY <1>1, <1>3, <1>4, <1>12 DEF GrowInv, Growing, WalkInv
  <1>. QED BY <1>10, <1>13 DEF TreeInv

LEMMA ArcsOfNode ==
  ASSUME NEW n \in GridNodes
  PROVE  /\ <<n[1], n[2]>> \in Arcs /\ <<n[1], n[2] + 1>> \in Arcs
         /\ <<n[1] + NRow - 1, n[2]>> \in Arcs /\ <<n[1] + NRow, n[2]>> \in Arcs
  <1>1. PICK r \in 0..NRow - 2, c \in 0..NCol - 2 : n = <<r, c>>
    BY DEF GridNodes
  <1>2. /\ c \in 0..NCol - 1 /\ c + 1 \in 0..NCol - 1
        /\ r + NRow - 1 \in NRow - 1..2 * NRow - 2 /\ r + NRow \in NRow - 1..2 * NRow - 2
    BY Sizes
  <1>3. <<r, c>> \in RowArcs /\ <<r, c + 1>> \in RowArcs
    BY <1>2, InGrid
  <1>4. <<r + NRow - 1, c>> \in ColArcs /\ <<r + NRow, c>> \in ColArcs
    BY <1>2, InGrid
  <1>. QED BY <1>1, <1>3, <1>4 DEF Arcs

LEMMA SurplusInteger ==
  ASSUME NEW f \in [Arcs -> Int], NEW n \in GridNodes
  PROVE  Surplus(f, n) \in Int
  <1>1. /\ f[<<n[1], n[2]>>] \in Int /\ f[<<n[1], n[2] + 1>>] \in Int
        /\ f[<<n[1] + NRow - 1, n[2]>>] \in Int /\ f[<<n[1] + NRow, n[2]>>] \in Int
    BY ArcsOfNode
  <1>. QED BY <1>1, NotANode DEF Surplus

\* The limit is not negative.
LEMMA LimitNatural ==
  ASSUME NEW flow \in [Arcs -> Int]
  PROVE  ClipLimit(flow) \in Int /\ ClipLimit(flow) >= 0
  <1>. DEFINE g == [a \in Arcs |-> IF flow[a] < 0 THEN -flow[a] ELSE flow[a]]
              V == {IF flow[a] < 0 THEN -flow[a] ELSE flow[a] : a \in Arcs}
              M == MostFlow(flow)
  <1>1. IsFiniteSet(V)
    <2>1. g \in Surjection(Arcs, V)
      BY DEF Surjection
    <2>. QED BY <2>1, FiniteGrid, FS_Surjection
  <1>2. V \subseteq Int /\ V # {}
    <2>1. <<0, 0>> \in Arcs
      BY Sizes, InGrid DEF Arcs
    <2>. QED BY <2>1
  <1>3. M \in Int
    <2>1. MostOf(V) \in V
      <3>. HIDE DEF V
      <3>. QED BY <1>1, <1>2, MostOfSet
    <2>. QED BY <1>2, <2>1 DEF MostFlow
  <1>. HIDE DEF M
  <1>4. (2 * M) \div 3 + 2 \in Int /\ MaxFlow \in Int /\ MaxFlow >= 0
    BY <1>3, MSTAssumption
  <1>. DEFINE S == {(2 * M) \div 3 + 2, MaxFlow}
  <1>5. IsFiniteSet(S) /\ S \subseteq Int /\ S # {} /\ MaxFlow \in S
    <2>1. IsFiniteSet({(2 * M) \div 3 + 2}) /\ IsFiniteSet({MaxFlow})
      BY FS_Singleton
    <2>2. IsFiniteSet({(2 * M) \div 3 + 2} \cup {MaxFlow})
      BY <2>1, FS_Union
    <2>3. S = {(2 * M) \div 3 + 2} \cup {MaxFlow}
      OBVIOUS
    <2>4. S \subseteq Int
      BY <1>4
    <2>. QED BY <2>2, <2>3, <2>4
  <1>6. MostOf(S) \in S /\ \A y \in S : MostOf(S) >= y
    <2>. HIDE DEF S
    <2>. QED BY <1>5, MostOfSet
  <1>7. ClipLimit(flow) = MostOf(S)
    BY DEF ClipLimit, M
  <1>8. ClipLimit(flow) \in Int /\ ClipLimit(flow) >= MaxFlow
    <2>. HIDE DEF S
    <2>. QED BY <1>5, <1>6, <1>7
  <1>. QED BY <1>4, <1>8

LEMMA ClipFlowKeeps ==
  ASSUME TreeInv, ClipFlow
  PROVE  TreeInv'
  <1>. DEFINE flow == [a \in Arcs |-> Clipped(mstflows, a)]
              res == [n \in GridNodes |-> PutBack(mstflows, n)[4]]
              L == ClipLimit(mstflows)
  <1>1. /\ Typed /\ stage' \in {"done", "solve", "aborted"}
        /\ input' = input /\ nodecost' = nodecost /\ pred' = pred /\ arcstatus' = arcstatus
    BY DEF ClipFlow, treevars, TreeInv
  <1>2. L \in Int /\ L >= 0
    BY <1>1, LimitNatural DEF Typed
  <1>3. /\ mstflows \in [Arcs -> Int] /\ \A a \in Arcs \cap CornerArcs : mstflows[a] = 0
        /\ residue \in [GridNodes -> Int] /\ mstcosts \in [Arcs -> Nat]
        /\ \A a \in Arcs : IF a \in CornerArcs THEN mstcosts[a] = Ineligible ELSE mstcosts[a] < Ineligible
    BY <1>1 DEF Typed
  <1>4. \A a \in Arcs : /\ flow[a] \in Int
                        /\ Excess(mstflows, a) \in Int
                        /\ mstflows[a] = 0 => flow[a] = 0 /\ Excess(mstflows, a) = 0
    <2>1. \A a \in Arcs : flow[a] = IF mstflows[a] > L THEN L ELSE IF mstflows[a] < -L THEN -L ELSE mstflows[a]
      BY DEF Clipped
    <2>2. \A a \in Arcs : Excess(mstflows, a) = mstflows[a] - flow[a]
      BY DEF Excess
    <2>. HIDE DEF L, flow
    <2>. QED BY <1>2, <1>3, <2>1, <2>2
  <1>5. flow \in [Arcs -> Int]
    <2>1. flow = [a \in Arcs |-> flow[a]]
      OBVIOUS
    <2>. HIDE DEF flow
    <2>. QED BY <1>4, <2>1
  <1>9. MaxCost(mstcosts) \in Nat
    <2>. DEFINE most == MostOf({0} \cup {mstcosts[a] : a \in {a \in Arcs : mstcosts[a] < Ineligible}})
    <2>1. most \in Nat
      BY <1>3, MostOfArcs
    <2>2. MaxCost(mstcosts) = CostIncrement + most
      BY DEF MaxCost
    <2>. HIDE DEF most
    <2>. QED BY <2>1, <2>2, MSTAssumption
  <1>6. CASE UNCHANGED <<residue, mstflows, mstcosts>>
    <2>1. Typed'
      BY <1>1, <1>6 DEF Typed
    <2>. QED BY <1>1, <2>1 DEF TreeInv, GrowInv, Growing, WalkInv
  <1>7. CASE /\ MaxCost(mstcosts) < Ineligible
             /\ residue' = res /\ mstflows' = flow
             /\ mstcosts' = [a \in Arcs |-> IF Excess(mstflows, a) = 0 THEN mstcosts[a]
                                            ELSE MaxCost(mstcosts)]
    <2>1. ASSUME NEW n \in GridNodes PROVE PutBack(mstflows, n)[4] \in Int
      <3>. DEFINE e1 == Excess(mstflows, <<n[1], n[2]>>)
                  e2 == Excess(mstflows, <<n[1], n[2] + 1>>)
                  e3 == Excess(mstflows, <<n[1] + NRow - 1, n[2]>>)
                  e4 == Excess(mstflows, <<n[1] + NRow, n[2]>>)
      <3>1. e1 \in Int /\ e2 \in Int /\ e3 \in Int /\ e4 \in Int
        <4>. HIDE DEF flow
        <4>. QED BY <1>4, ArcsOfNode
      <3>2. PutBack(mstflows, n)[4] = (residue[n] - e1 + e2) - e3 + e4
        <4>1. PutBack(mstflows, n)
                = <<residue[n] - e1, residue[n] - e1 + e2, (residue[n] - e1 + e2) - e3,
                    (residue[n] - e1 + e2) - e3 + e4>>
          BY Zenon DEF PutBack
        <4>. HIDE DEF e1, e2, e3, e4
        <4>. QED BY <4>1
      <3>. HIDE DEF e1, e2, e3, e4
      <3>. QED BY <1>3, <3>1, <3>2
    <2>2. residue' \in [GridNodes -> Int]
      BY <1>7, <2>1
    <2>. HIDE DEF flow, res
    <2>4. /\ mstcosts' \in [Arcs -> Nat]
          /\ \A a \in Arcs : IF a \in CornerArcs THEN mstcosts'[a] = Ineligible ELSE mstcosts'[a] < Ineligible
          /\ \A a \in Arcs \cap CornerArcs : mstflows'[a] = 0
      BY <1>3, <1>4, <1>7, <1>9
    <2>3. Typed'
      BY <1>1, <1>5, <1>7, <2>2, <2>4 DEF Typed
    <2>. QED BY <1>1, <2>3 DEF TreeInv, GrowInv, Growing, WalkInv
  <1>8. \/ UNCHANGED <<residue, mstflows, mstcosts>>
        \/ /\ ~ (MaxCost(mstcosts) >= Ineligible)
           /\ residue' = res /\ mstflows' = flow
           /\ mstcosts' = [a \in Arcs |-> IF Excess(mstflows, a) = 0 THEN mstcosts[a]
                                          ELSE MaxCost(mstcosts)]
    BY DEF ClipFlow
  <1>10. ~ (MaxCost(mstcosts) >= Ineligible) => MaxCost(mstcosts) < Ineligible
    BY <1>9, Constants
  <1>. QED BY <1>6, <1>7, <1>8, <1>10

-----------------------------------------------------------------------------
\* The theorems.

LEMMA TreeInvStart == MSTStart => TreeInv
  <1>. SUFFICES ASSUME NEW i \in MSTInputs, StartFrom(i) PROVE TreeInv
    BY DEF MSTStart
  <1>1. /\ input = i /\ residue = i.residue /\ mstcosts = i.cost
        /\ mstflows = [a \in Arcs |-> 0] /\ arcstatus = [a \in Arcs |-> 0]
        /\ nodecost = [n \in GroundedNodes |-> 0] /\ pred = [n \in GroundedNodes |-> NoNode]
        /\ stage = "solve"
    BY DEF StartFrom
  <1>2. IsInput(i)
    BY InputAssumption
  <1>3. Typed
    BY <1>1, <1>2 DEF Typed, IsInput
  <1>. QED BY <1>1, <1>3 DEF TreeInv, GrowInv, Growing, WalkInv

LEMMA TreeInvStep == TreeInv /\ FarEnough /\ [MSTNext]_mstvars => TreeInv'
  <1>. SUFFICES ASSUME TreeInv, FarEnough, [MSTNext]_mstvars PROVE TreeInv'
    OBVIOUS
  <1>1. CASE NoResidue
    <2>1. Typed' /\ stage' = "done"
      BY <1>1 DEF NoResidue, treevars, walkvars, TreeInv, Typed
    <2>. QED BY <2>1 DEF TreeInv, GrowInv, Growing, WalkInv
  <1>2. CASE StartTree
    BY <1>2, StartTreeKeeps
  <1>3. CASE TakeClosest
    BY <1>3, TakeClosestKeeps
  <1>4. CASE MarkPath
    BY <1>4, MarkPathKeeps
  <1>5. CASE ScanArc
    BY <1>5, ScanArcKeeps
  <1>6. CASE StartDischarge
    BY <1>6, StartDischargeKeeps
  <1>7. CASE FollowArc
    BY <1>7, FollowArcKeeps
  <1>8. CASE Discharged
    <2>1. Typed' /\ stage' = "clip"
      BY <1>8 DEF Discharged, treevars, walkvars, TreeInv, Typed
    <2>. QED BY <2>1 DEF TreeInv, GrowInv, Growing, WalkInv
  <1>9. CASE ClipFlow
    BY <1>9, ClipFlowKeeps
  <1>10. CASE UNCHANGED mstvars
    <2>1. /\ input' = input /\ residue' = residue /\ mstcosts' = mstcosts /\ mstflows' = mstflows
          /\ stage' = stage /\ mstbkts' = mstbkts /\ inbucket' = inbucket /\ nodecost' = nodecost
          /\ pred' = pred /\ arcstatus' = arcstatus /\ from' = from /\ pathto' = pathto
          /\ arcnum' = arcnum
      BY <1>10 DEF mstvars, treevars, walkvars
    <2>2. /\ Source' = Source /\ HasPred' = HasPred /\ Marked' = Marked /\ Joined' = Joined
          /\ \A n : /\ IsResidue(n)' <=> IsResidue(n)
                    /\ Reached(n)' <=> Reached(n)
                    /\ InTree(n)' <=> InTree(n)
                    /\ TreeArc(n)' = TreeArc(n)
                    /\ IsAhead(n)' <=> IsAhead(n)
      BY <2>1 DEF Source, HasPred, Marked, Joined, IsResidue, Reached, InTree, TreeArc, IsAhead
    <2>3. Typed' /\ (Growing' <=> Growing)
      BY <2>1 DEF TreeInv, Typed, Growing
    <2>4. (Backward' <=> Backward) /\ (MarksAreArcs' <=> MarksAreArcs)
      BY <2>1, <2>2 DEF Backward, MarksAreArcs, Rooted
    <2>5. Labels => Labels'
      BY <2>1, <2>2 DEF Labels
    <2>6. ResiduesWait => ResiduesWait'
      BY <2>1, <2>2 DEF ResiduesWait
    <2>7. Frontier => Frontier'
      BY <2>1, <2>2 DEF Frontier
    <2>8. AtWork => AtWork'
      <3>1. /\ Reached(from)' <=> Reached(from)
            /\ IsResidue(from)' <=> IsResidue(from)
            /\ InTree(from)' <=> InTree(from)
            /\ IsResidue(pathto)' <=> IsResidue(pathto)
        BY <2>1, <2>2 DEF Reached, IsResidue, InTree
      <3>. QED BY <2>1, <2>2, <3>1 DEF AtWork
    <2>9. Queued => Queued'
      BY <2>1, <2>2 DEF Queued
    <2>10. Ways => Ways'
      BY <2>1, <2>2 DEF Ways, NodeCount
    <2>11. GrowInv'
      BY <2>1, <2>3, <2>4, <2>5, <2>6, <2>7, <2>8, <2>9, <2>10 DEF TreeInv, GrowInv
    <2>12. TreeStands => TreeStands'
      BY <2>1, <2>2, <2>4 DEF TreeStands
    <2>13. WalkInv'
      BY <2>1, <2>12 DEF TreeInv, WalkInv
    <2>. QED BY <2>3, <2>11, <2>13 DEF TreeInv
  <1>. QED BY <1>1, <1>2, <1>3, <1>4, <1>5, <1>6, <1>7, <1>8, <1>9, <1>10
           DEF MSTNext, MSTStep, MSTStopped

\* Where VERYFAR is more than the way through all nodes could cost, SolveMST()
\* keeps its tree, its distances and its queue in the order the invariant states.
THEOREM TreeInvHolds == MSTSpec /\ []FarEnough => []TreeInv
  <1>. QED BY TreeInvStart, TreeInvStep, PTL DEF MSTSpec

\* So the arcs that SolveMST() marked connect the residues without a circle when
\* DischargeTree() walks over them.
THEOREM TreeIsSpanning == MSTSpec /\ []FarEnough => []ConnectsResidues
  <1>1. TreeInv => ConnectsResidues
    BY TreeConnects DEF TreeInv
  <1>. QED BY <1>1, TreeInvHolds, PTL

\* The costs are all less than LARGESHORT, before ClipFlow() raises them and
\* after, so the tree is right on any image where that times the nodes fits
\* under VERYFAR.
THEOREM ShortCostsConnect ==
  ASSUME Ineligible * Cardinality(GroundedNodes) <= Unreached
  PROVE  MSTSpec => []ConnectsResidues
  <1>1. Typed => FarEnough
    <2>. SUFFICES ASSUME Typed, NEW a \in Arcs \ CornerArcs
                  PROVE  mstcosts[a] * NodeCount <= Unreached
      BY DEF FarEnough
    <2>1. mstcosts[a] \in Int /\ mstcosts[a] <= Ineligible
      BY Constants DEF Typed
    <2>2. /\ mstcosts[a] * NodeCount <= Ineligible * NodeCount
          /\ mstcosts[a] * NodeCount \in Int /\ Ineligible * NodeCount \in Int
      BY <2>1, Constants
    <2>. QED BY <2>2, Constants DEF NodeCount
  <1>2. TreeInv /\ [MSTNext]_mstvars => TreeInv'
    BY <1>1, TreeInvStep DEF TreeInv
  <1>3. TreeInv => ConnectsResidues
    BY TreeConnects DEF TreeInv
  <1>. QED BY <1>2, <1>3, TreeInvStart, PTL DEF MSTSpec

-----------------------------------------------------------------------------
\* The walk over the tree, and the charges it takes along.

Status(n) == arcstatus[TreeArc(n)]

\* The nodes between the source and the one the walk is at.
Open == {n \in Joined : Status(n) = -2}

IsDone(n) == n \in Joined /\ Status(n) = -3

\* Before an open node there are open nodes back to the source, below a node not
\* seen yet only such nodes, and below one that is done only ones that are done.
Walk ==
    /\ from = Source \/ from \in Open
    /\ \A n \in Joined : Status(n) \in {-1, -2, -3}
    /\ \A n \in Open : (pred[n] = Source \/ pred[n] \in Open) /\ pred[n] # from
    /\ \A n, m \in Open : pred[n] = pred[m] => n = m
    /\ \A n, m \in Joined : pred[n] = m /\ Status(m) # -2 => Status(n) = Status(m)
    /\ \A n \in GroundedNodes : IsDone(n) \/ ~ InTree(n) => nodecost[n] = 0

\* The charges of all nodes add up to nothing.
ZeroSum(c) ==
    \E s \in [0..Len(NodeOrder) -> Int] :
      /\ s[0] = 0 /\ s[Len(NodeOrder)] = 0
      /\ \A i \in 1..Len(NodeOrder) : s[i] = s[i - 1] + c[NodeOrder[i]]

ChargesInv ==
    /\ stage = "discharge" => Walk /\ ZeroSum(nodecost)
    /\ stage = "clip" => \A n \in GroundedNodes : nodecost[n] = 0

\* What is left for ClipFlow() where no flow is too large.
NoExcess == stage = "clip" => MostFlow(mstflows) <= MaxFlow

\* What the flows have brought to a node is what its charge differs by from its
\* residue.
BalanceInv ==
    /\ stage = "solve" \/ Growing =>
         residue = input.residue /\ mstflows = [a \in Arcs |-> 0]
    /\ stage \in {"discharge", "clip"} =>
         /\ residue = input.residue
         /\ \A n \in GridNodes : Surplus(mstflows, n) + residue[n] = nodecost[n]
    /\ InitialFlowsBalance

LEMMA QuotientIsOne ==
  ASSUME NEW m \in Nat, m > 0, NEW q \in Int, NEW e \in 0..m - 1, NEW r \in Int, NEW c \in 0..m - 1,
         m * q + e = m * r + c
  PROVE  q = r /\ e = c
  <1>1. ASSUME NEW x \in Int, NEW y \in Int, x < y PROVE m * x + m <= m * y
    <2>1. m * (x + 1) <= m * y
      BY <1>1
    <2>2. m * (x + 1) = m * x + m
      OBVIOUS
    <2>. QED BY <2>1, <2>2
  <1>2. m * q \in Int /\ m * r \in Int
    OBVIOUS
  <1>3. ~ (q < r)
    BY <1>1, <1>2
  <1>4. ~ (r < q)
    BY <1>1, <1>2
  <1>5. q = r
    BY <1>3, <1>4
  <1>. QED BY <1>2, <1>5

\* Ground is the first in the order, and every node is in it once.
LEMMA OrderOnce ==
  /\ NodeOrder[1] = Ground
  /\ \A n \in GroundedNodes : \E p \in 1..Len(NodeOrder) :
       NodeOrder[p] = n /\ \A i \in 1..Len(NodeOrder) : NodeOrder[i] = n => i = p
  <1>. DEFINE m == NCol - 1
              K == (NRow - 1) * m
              rest == [i \in 1..K |-> <<(i - 1) \div m, (i - 1) % m>>]
  <1>1. K \in Nat /\ m \in Nat /\ m > 0
    BY Sizes
  <1>2. NodeOrder = <<Ground>> \o rest
    BY DEF NodeOrder
  <1>3. rest \in [1..K -> (Int \X Int)]
    <2>1. \A i \in 1..K : (i - 1) \div m \in Int /\ (i - 1) % m \in Int
      <3>. HIDE DEF m
      <3>. QED BY <1>1
    <2>. QED BY <2>1
  <1>4. rest \in Seq(Int \X Int) /\ Len(rest) = K /\ <<Ground>> \in Seq(Int \X Int)
    <2>1. rest \in Seq(Int \X Int)
      <3>. HIDE DEF rest
      <3>. QED BY <1>1, <1>3, SeqDef
    <2>2. Len(rest) = K
      BY <1>1
    <2>3. Ground \in Int \X Int
      BY DEF Ground
    <2>. HIDE DEF rest
    <2>. QED BY <2>1, <2>2, <2>3
  <1>5. /\ Len(NodeOrder) = K + 1 /\ NodeOrder[1] = Ground
        /\ \A i \in 2..K + 1 : i - 1 \in 1..K /\ NodeOrder[i] = rest[i - 1]
    <2>. HIDE DEF rest, K
    <2>. QED BY <1>1, <1>2, <1>4
  <1>6. ASSUME NEW i \in 1..K, NEW r \in Int, NEW c \in 0..m - 1
        PROVE  rest[i] = <<r, c>> <=> i - 1 = m * r + c
    <2>. DEFINE q == (i - 1) \div m
                e == (i - 1) % m
    <2>1. q \in Int /\ e \in 0..m - 1 /\ i - 1 = m * q + e
      <3>1. i - 1 \in Int
        BY <1>1
      <3>. HIDE DEF m
      <3>. QED BY <1>1, <3>1
    <2>2. rest[i] = <<q, e>>
      OBVIOUS
    <2>. HIDE DEF q, e, rest, m
    <2>3. m * q + e = m * r + c => q = r /\ e = c
      BY <1>1, <2>1, QuotientIsOne
    <2>4. <<q, e>> = <<r, c>> <=> q = r /\ e = c
      OBVIOUS
    <2>. QED BY <2>1, <2>2, <2>3, <2>4
  <1>7. \A i \in 2..K + 1 : NodeOrder[i] # Ground
    <2>1. ASSUME NEW i \in 1..K, rest[i] = Ground PROVE FALSE
      <3>1. (i - 1) % m >= 0
        <4>1. i - 1 \in Int
          BY <1>1
        <4>. HIDE DEF m
        <4>. QED BY <1>1, <4>1
      <3>2. rest[i] = <<(i - 1) \div m, (i - 1) % m>>
        OBVIOUS
      <3>. HIDE DEF rest, m
      <3>. QED BY <2>1, <3>1, <3>2 DEF Ground
    <2>. HIDE DEF rest
    <2>. QED BY <1>5, <2>1
  <1>8. ASSUME NEW n \in GroundedNodes
        PROVE  \E p \in 1..Len(NodeOrder) :
                 NodeOrder[p] = n /\ \A i \in 1..Len(NodeOrder) : NodeOrder[i] = n => i = p
    <2>1. CASE n = Ground
      <3>1. 1 \in 1..Len(NodeOrder) /\ \A i \in 1..Len(NodeOrder) : i = 1 \/ i \in 2..K + 1
        <4>. HIDE DEF K
        <4>. QED BY <1>1, <1>5
      <3>. QED BY <1>5, <1>7, <2>1, <3>1
    <2>2. CASE n # Ground
      <3>1. PICK r \in 0..NRow - 2, c \in 0..NCol - 2 : n = <<r, c>>
        BY <2>2 DEF GroundedNodes, GridNodes
      <3>2. c \in 0..m - 1 /\ r \in Int /\ m * r \in Int
        BY Sizes
      <3>3. m * r + c + 1 \in 1..K
        <4>1. m * r >= 0
          <5>. HIDE DEF m
          <5>. QED BY <1>1
        <4>2. m * r <= m * (NRow - 2)
          <5>1. r <= NRow - 2 /\ NRow - 2 \in Int
            BY Sizes
          <5>. HIDE DEF m
          <5>. QED BY <1>1, <5>1
        <4>3. m * (NRow - 2) + m = K
          BY Sizes
        <4>. HIDE DEF m, K
        <4>. QED BY <1>1, <3>2, <4>1, <4>2, <4>3, Sizes
      <3>4. PICK j \in 1..K : j - 1 = m * r + c
        <4>. HIDE DEF m, K
        <4>. QED BY <3>2, <3>3
      <3>5. rest[j] = n /\ \A i \in 1..K : rest[i] = n => i = j
        <4>1. \A i \in 1..K : i - 1 = j - 1 => i = j
          BY <1>1
        <4>. HIDE DEF rest, m
        <4>. QED BY <1>6, <3>1, <3>2, <3>4, <4>1
      <3>6. PICK p \in 2..K + 1 : p - 1 = j
        <4>1. j + 1 \in 2..K + 1 /\ j + 1 - 1 = j
          BY <1>1
        <4>. QED BY <4>1
      <3>7. p \in 1..Len(NodeOrder) /\ NodeOrder[p] = n
        <4>. HIDE DEF rest, K
        <4>. QED BY <1>1, <1>5, <3>5, <3>6
      <3>8. ASSUME NEW i \in 1..Len(NodeOrder), NodeOrder[i] = n PROVE i = p
        <4>1. i \in 2..K + 1
          <5>. HIDE DEF K
          <5>. QED BY <1>1, <1>5, <2>2, <3>8
        <4>2. i - 1 \in 1..K /\ rest[i - 1] = n
          BY <1>5, <3>8, <4>1
        <4>3. i - 1 = j
          BY <3>5, <4>2
        <4>. QED BY <3>6, <4>1, <4>3
      <3>. QED BY <3>7, <3>8
    <2>. QED BY <2>1, <2>2
  <1>. QED BY <1>5, <1>8

\* The arcs into and out of a node of the grid.
LEMMA ArcsAtNode ==
  ASSUME NEW m \in GridNodes, NEW a \in Arcs
  PROVE  /\ ArcEnd(a) = m <=> a = <<m[1], m[2]>> \/ a = <<m[1] + NRow - 1, m[2]>>
         /\ ArcStart(a) = m <=> a = <<m[1], m[2] + 1>> \/ a = <<m[1] + NRow, m[2]>>
  <1>1. PICK r \in 0..NRow - 2, c \in 0..NCol - 2 : m = <<r, c>>
    BY DEF GridNodes
  <1>2. m # Ground /\ m[1] = r /\ m[2] = c
    BY <1>1, NotANode
  <1>3. \A x, y : AtOrGround(x, y) = m <=> <<x, y>> = m
    BY <1>2 DEF AtOrGround
  <1>4. CASE a \in RowArcs
    <2>1. PICK q \in 0..NRow - 2, d \in 0..NCol - 1 : a = <<q, d>>
      BY <1>4 DEF RowArcs
    <2>2. ArcStart(a) = AtOrGround(q, d - 1) /\ ArcEnd(a) = AtOrGround(q, d)
      BY <2>1, RowArcEnds
    <2>3. ArcEnd(a) = m <=> q = r /\ d = c
      BY <1>1, <1>3, <2>2
    <2>4. ArcStart(a) = m <=> q = r /\ d - 1 = c
      BY <1>1, <1>3, <2>2
    <2>5. q # r + NRow - 1 /\ q # r + NRow /\ (d - 1 = c <=> d = c + 1)
      BY Sizes
    <2>. QED BY <1>2, <2>1, <2>3, <2>4, <2>5
  <1>5. CASE a \in ColArcs
    <2>1. PICK q \in NRow - 1..2 * NRow - 2, d \in 0..NCol - 2 : a = <<q, d>>
      BY <1>5 DEF ColArcs
    <2>2. PICK k \in 0..NRow - 1 : q = NRow - 1 + k
      <3>1. q - (NRow - 1) \in 0..NRow - 1 /\ q = NRow - 1 + (q - (NRow - 1))
        BY Sizes
      <3>. QED BY <3>1
    <2>3. ArcStart(a) = AtOrGround(k - 1, d) /\ ArcEnd(a) = AtOrGround(k, d)
      BY <2>1, <2>2, ColArcEnds
    <2>4. ArcEnd(a) = m <=> k = r /\ d = c
      BY <1>1, <1>3, <2>3
    <2>5. ArcStart(a) = m <=> k - 1 = r /\ d = c
      BY <1>1, <1>3, <2>3
    <2>6. /\ q # r /\ (k = r <=> q = r + NRow - 1) /\ (k - 1 = r <=> q = r + NRow)
      BY <2>2, Sizes
    <2>. QED BY <1>2, <2>1, <2>4, <2>5, <2>6
  <1>. QED BY <1>4, <1>5 DEF Arcs

\* A flow that is put on an arc goes from the surplus of one end to the other's.
LEMMA SurplusMoves ==
  ASSUME NEW f \in [Arcs -> Int], NEW x \in Int, NEW n \in GroundedNodes,
         NEW b \in RangeOf(GridNeighbors[n]), NEW m \in GridNodes,
         NEW g, \A y \in Arcs : g[y] = IF y = b.arc THEN f[y] + b.dir * x ELSE f[y]
  PROVE  Surplus(g, m)
           = Surplus(f, m) + (IF m = b.node THEN x ELSE IF m = n THEN -x ELSE 0)
  <1>. DEFINE a == b.arc
              in1 == <<m[1], m[2]>>
              out1 == <<m[1], m[2] + 1>>
              in2 == <<m[1] + NRow - 1, m[2]>>
              out2 == <<m[1] + NRow, m[2]>>
  <1>1. /\ a \in Arcs /\ b.node # n /\ b.dir \in {1, -1} /\ LeavesBy(n, b)
        /\ m # Ground
    BY NeighborFacts, ArcsOut, NotANode
  <1>2. in1 \in Arcs /\ out1 \in Arcs /\ in2 \in Arcs /\ out2 \in Arcs
    BY ArcsOfNode
  <1>3. in1 # out1 /\ in1 # in2 /\ in1 # out2 /\ out1 # in2 /\ out1 # out2 /\ in2 # out2
    <2>1. PICK r \in 0..NRow - 2, c \in 0..NCol - 2 : m = <<r, c>>
      BY DEF GridNodes
    <2>. QED BY <2>1, Sizes
  <1>4. /\ ArcEnd(a) = m <=> a = in1 \/ a = in2
        /\ ArcStart(a) = m <=> a = out1 \/ a = out2
    BY <1>1, ArcsAtNode
  <1>5. Surplus(f, m) = f[in1] - f[out1] + f[in2] - f[out2]
    BY <1>1 DEF Surplus
  <1>6. Surplus(g, m) = g[in1] - g[out1] + g[in2] - g[out2]
    BY <1>1 DEF Surplus
  <1>7. \A y \in Arcs : f[y] \in Int /\ g[y] = IF y = a THEN f[y] + b.dir * x ELSE f[y]
    BY <1>1
  <1>. DEFINE z == b.dir * x
  <1>8. /\ z \in Int
        /\ b.dir = 1 => z = x
        /\ b.dir = -1 => z = -x
    BY <1>1
  <1>9. \/ b.dir = 1 /\ n = ArcStart(a) /\ b.node = ArcEnd(a)
        \/ b.dir = -1 /\ n = ArcEnd(a) /\ b.node = ArcStart(a)
    BY <1>1 DEF LeavesBy
  <1>10. ArcStart(a) # ArcEnd(a)
    BY <1>1, EndsDiffer
  <1>. HIDE DEF a, in1, out1, in2, out2, z
  <1>11. Surplus(g, m) = Surplus(f, m) + (IF ArcEnd(a) = m THEN z ELSE IF ArcStart(a) = m THEN -z ELSE 0)
    <2>1. \A y \in Arcs : f[y] \in Int /\ g[y] = IF y = a THEN f[y] + z ELSE f[y]
      BY <1>7 DEF z
    <2>2. CASE a = in1
      BY <1>2, <1>3, <1>4, <1>5, <1>6, <1>8, <2>1, <2>2
    <2>3. CASE a = in2
      BY <1>2, <1>3, <1>4, <1>5, <1>6, <1>8, <2>1, <2>3
    <2>4. CASE a = out1
      BY <1>2, <1>3, <1>4, <1>5, <1>6, <1>8, <2>1, <2>4
    <2>5. CASE a = out2
      BY <1>2, <1>3, <1>4, <1>5, <1>6, <1>8, <2>1, <2>5
    <2>6. CASE a \notin {in1, in2, out1, out2}
      BY <1>2, <1>4, <1>5, <1>6, <2>1, <2>6
    <2>. QED BY <2>2, <2>3, <2>4, <2>5, <2>6
  <1>. QED BY <1>1, <1>8, <1>9, <1>10, <1>11 DEF a, z

\* The charge of ground makes up for the residues.
LEMMA ChargesSumToZero ==
  ASSUME NEW res \in [GridNodes -> Int], NEW c, \A n \in GroundedNodes : c[n] = Charge(res, n)
  PROVE  ZeroSum(c)
  <1>. DEFINE K == Len(NodeOrder)
              C == GroundCharge(res)
  <1>1. PICK s \in [0..K -> Int] :
          /\ s[0] = 0 /\ C = s[K]
          /\ \A i \in 1..K : s[i] = s[i - 1] - (IF NodeOrder[i] = Ground THEN 0 ELSE res[NodeOrder[i]])
    BY GroundChargeIsSum
  <1>2. K \in Nat /\ \A i \in 1..K : NodeOrder[i] \in GroundedNodes
    BY OrderLists
  <1>3. 1 \in 1..K /\ NodeOrder[1] = Ground /\ \A i \in 1..K : NodeOrder[i] = Ground => i = 1
    <2>1. Ground \in GroundedNodes
      BY DEF GroundedNodes
    <2>2. PICK p \in 1..K : NodeOrder[p] = Ground /\ \A i \in 1..K : NodeOrder[i] = Ground => i = p
      BY <2>1, OrderOnce
    <2>3. 1 \in 1..K
      BY <1>2, <2>2
    <2>. QED BY <2>2, <2>3, OrderOnce
  <1>. DEFINE t == [i \in 0..K |-> IF i = 0 THEN 0 ELSE C - s[i]]
  <1>. HIDE DEF K, C
  <1>4. C \in Int /\ \A i \in 0..K : s[i] \in Int
    BY <1>1, <1>2
  <1>5. t \in [0..K -> Int] /\ t[0] = 0 /\ t[K] = 0 /\ \A i \in 1..K : t[i] = C - s[i]
    BY <1>1, <1>2, <1>3, <1>4
  <1>6. ASSUME NEW i \in 1..K PROVE t[i] = t[i - 1] + c[NodeOrder[i]]
    <2>1. i - 1 \in 0..K /\ i \in 0..K
      BY <1>2
    <2>2. CASE i = 1
      <3>1. c[Ground] = C
        BY DEF Charge, C, GroundedNodes
      <3>2. s[1] = 0
        BY <1>1, <1>3, <2>2
      <3>. QED BY <1>3, <1>4, <1>5, <2>2, <3>1, <3>2
    <2>3. CASE i # 1
      <3>1. NodeOrder[i] # Ground /\ c[NodeOrder[i]] = res[NodeOrder[i]] /\ res[NodeOrder[i]] \in Int
        BY <1>2, <1>3, <2>3 DEF Charge, GroundedNodes
      <3>2. i - 1 \in 1..K
        BY <1>2, <2>3
      <3>3. t[i] = C - s[i] /\ t[i - 1] = C - s[i - 1] /\ s[i] = s[i - 1] - res[NodeOrder[i]]
        BY <1>1, <1>5, <3>1, <3>2
      <3>. QED BY <1>4, <2>1, <3>1, <3>3
    <2>. QED BY <2>2, <2>3
  <1>. HIDE DEF t
  <1>. QED BY <1>5, <1>6 DEF ZeroSum, K

\* How a sum that is written down term by term changes.
LEMMA TermsMoved ==
  ASSUME NEW t1, NEW t0, NEW s1, NEW s0 \in Int, NEW u1, NEW u0 \in Int, NEW w1, NEW w0 \in Int,
         NEW a \in Int, NEW b \in Int, NEW d \in Int, NEW d1,
         t1 = s1 + u1 - w1, t0 = s0 + u0 - w0,
         s1 = s0 + d, u1 = u0 + a, w1 = w0 + b, d1 = d + a - b
  PROVE  t1 = t0 + d1
  OBVIOUS

\* A charge that moves leaves the sum as it was.
LEMMA SumKeptByMove ==
  ASSUME NEW c \in [GroundedNodes -> Int], ZeroSum(c),
         NEW x \in GroundedNodes, NEW y \in GroundedNodes, x # y
  PROVE  ZeroSum([c EXCEPT ![y] = @ + c[x], ![x] = 0])
  <1>. DEFINE K == Len(NodeOrder)
              v == c[x]
              c1 == [c EXCEPT ![y] = @ + v, ![x] = 0]
  <1>1. K \in Nat /\ \A i \in 1..K : NodeOrder[i] \in GroundedNodes
    BY OrderLists
  <1>2. PICK p \in 1..K : NodeOrder[p] = x /\ \A i \in 1..K : NodeOrder[i] = x => i = p
    BY OrderOnce
  <1>3. PICK q \in 1..K : NodeOrder[q] = y /\ \A i \in 1..K : NodeOrder[i] = y => i = q
    BY OrderOnce
  <1>4. PICK s \in [0..K -> Int] :
          /\ s[0] = 0 /\ s[K] = 0
          /\ \A i \in 1..K : s[i] = s[i - 1] + c[NodeOrder[i]]
    BY DEF ZeroSum
  <1>. DEFINE up == [i \in 0..K |-> IF i >= q THEN v ELSE 0]
              down == [i \in 0..K |-> IF i >= p THEN v ELSE 0]
              t == [i \in 0..K |-> s[i] + up[i] - down[i]]
  <1>. HIDE DEF K
  <1>5. v \in Int /\ \A i \in 0..K : s[i] \in Int
    OBVIOUS
  <1>6. /\ \A n \in GroundedNodes : c[n] \in Int
        /\ \A n \in GroundedNodes : n # x /\ n # y => c1[n] = c[n]
        /\ c1[x] = 0 /\ c1[y] = c[y] + v /\ c[x] = v
    OBVIOUS
  <1>. HIDE DEF v, c1
  <1>7. t \in [0..K -> Int] /\ t[0] = 0 /\ t[K] = 0 /\ \A i \in 0..K : t[i] = s[i] + up[i] - down[i]
    BY <1>1, <1>4, <1>5
  <1>8. ASSUME NEW i \in 1..K PROVE t[i] = t[i - 1] + c1[NodeOrder[i]]
    <2>1. i - 1 \in 0..K /\ i \in 0..K /\ i \in Int /\ p \in Int /\ q \in Int
      BY <1>1
    <2>2. t[i] = s[i] + up[i] - down[i] /\ t[i - 1] = s[i - 1] + up[i - 1] - down[i - 1]
      BY <1>7, <2>1
    <2>3. s[i] = s[i - 1] + c[NodeOrder[i]] /\ s[i - 1] \in Int /\ s[i] \in Int
      BY <1>4, <1>5, <2>1
    <2>4. /\ up[i] = up[i - 1] + (IF i = q THEN v ELSE 0)
          /\ down[i] = down[i - 1] + (IF i = p THEN v ELSE 0)
      BY <1>5, <2>1
    <2>5. c1[NodeOrder[i]] = c[NodeOrder[i]] + (IF i = q THEN v ELSE 0) - (IF i = p THEN v ELSE 0)
      <3>1. NodeOrder[i] \in GroundedNodes /\ (NodeOrder[i] = x <=> i = p) /\ (NodeOrder[i] = y <=> i = q)
        BY <1>1, <1>2, <1>3
      <3>2. c[NodeOrder[i]] \in Int
        BY <1>6, <3>1
      <3>3. CASE i = p
        BY <1>5, <1>6, <3>1, <3>3
      <3>4. CASE i = q
        BY <1>5, <1>6, <3>1, <3>2, <3>4
      <3>5. CASE i # p /\ i # q
        BY <1>6, <3>1, <3>2, <3>5
      <3>. QED BY <3>3, <3>4, <3>5
    <2>6. c[NodeOrder[i]] \in Int /\ up[i - 1] \in Int /\ down[i - 1] \in Int
      BY <1>1, <1>5, <1>6, <2>1
    <2>. DEFINE a == IF i = q THEN v ELSE 0
                b == IF i = p THEN v ELSE 0
    <2>7. a \in Int /\ b \in Int
      BY <1>5
    <2>8. /\ up[i] = up[i - 1] + a /\ down[i] = down[i - 1] + b
          /\ c1[NodeOrder[i]] = c[NodeOrder[i]] + a - b
      BY <2>4, <2>5
    <2>. HIDE DEF up, down, t, a, b
    <2>9. PICK t1, t0, s1, s0, u1, u0, w1, w0, d, d1 :
            /\ t1 = t[i] /\ t0 = t[i - 1] /\ s1 = s[i] /\ s0 = s[i - 1]
            /\ u1 = up[i] /\ u0 = up[i - 1] /\ w1 = down[i] /\ w0 = down[i - 1]
            /\ d = c[NodeOrder[i]] /\ d1 = c1[NodeOrder[i]]
      OBVIOUS
    <2>10. /\ s0 \in Int /\ u0 \in Int /\ w0 \in Int /\ d \in Int
           /\ t1 = s1 + u1 - w1 /\ t0 = s0 + u0 - w0
           /\ s1 = s0 + d /\ u1 = u0 + a /\ w1 = w0 + b /\ d1 = d + a - b
      BY <2>2, <2>3, <2>6, <2>8, <2>9
    <2>11. t1 = t0 + d1
      BY <2>7, <2>10, TermsMoved
    <2>. QED BY <2>9, <2>11
  <1>. HIDE DEF t
  <1>. QED BY <1>7, <1>8 DEF ZeroSum, K, c1, v

\* Where no other node has a charge, none has.
LEMMA LastHasNone ==
  ASSUME NEW c \in [GroundedNodes -> Int], ZeroSum(c), NEW n \in GroundedNodes,
         \A m \in GroundedNodes : m # n => c[m] = 0
  PROVE  c[n] = 0
  <1>. DEFINE K == Len(NodeOrder)
  <1>1. K \in Nat /\ \A i \in 1..K : NodeOrder[i] \in GroundedNodes
    BY OrderLists
  <1>2. PICK p \in 1..K : NodeOrder[p] = n /\ \A i \in 1..K : NodeOrder[i] = n => i = p
    BY OrderOnce
  <1>3. PICK s \in [0..K -> Int] :
          /\ s[0] = 0 /\ s[K] = 0
          /\ \A i \in 1..K : s[i] = s[i - 1] + c[NodeOrder[i]]
    BY DEF ZeroSum
  <1>. HIDE DEF K
  <1>4. \A i \in 1..K : s[i] = s[i - 1] + (IF i = p THEN c[n] ELSE 0)
    BY <1>1, <1>2, <1>3
  <1>5. c[n] \in Int
    OBVIOUS
  <1>. DEFINE good(i) == s[i] = IF i >= p THEN c[n] ELSE 0
              bad == {i \in 0..K : ~ good(i)}
  <1>6. ASSUME bad # {} PROVE FALSE
    <2>1. PICK i \in bad : \A j \in bad : i <= j
      <3>1. bad \subseteq Nat
        OBVIOUS
      <3>. HIDE DEF bad
      <3>. QED BY <1>6, <3>1, LeastNatural
    <2>2. i \in 0..K /\ ~ good(i)
      OBVIOUS
    <2>3. i # 0
      BY <1>1, <1>3, <2>2
    <2>4. i \in 1..K /\ i - 1 \in 0..K /\ ~ (i <= i - 1)
      BY <1>1, <2>2, <2>3
    <2>5. good(i - 1)
      <3>1. i - 1 \notin bad
        BY <2>1, <2>4
      <3>. QED BY <2>4, <3>1
    <2>6. s[i] = s[i - 1] + (IF i = p THEN c[n] ELSE 0)
      BY <1>4, <2>4
    <2>. QED BY <1>1, <1>5, <2>2, <2>4, <2>5, <2>6
  <1>7. good(K)
    <2>1. K \in 0..K
      BY <1>1
    <2>. QED BY <1>6, <2>1
  <1>. QED BY <1>1, <1>3, <1>7

\* The arc of the tree that leads to a node is among those of its predecessor
\* and among its own.
LEMMA JoinedArc ==
  ASSUME TreeStands, NEW n \in Joined
  PROVE  /\ n \in GroundedNodes /\ n \in HasPred /\ n # Source /\ pred[n] \in GroundedNodes
         /\ TreeArc(n) \in Arcs /\ InTree(pred[n])
         /\ \E i \in DOMAIN GridNeighbors[n] : GridNeighbors[n][i].arc = TreeArc(n)
         /\ \E i \in DOMAIN GridNeighbors[pred[n]] : GridNeighbors[pred[n]][i].arc = TreeArc(n)
  <1>1. n \in HasPred /\ n \in GroundedNodes /\ n # Source /\ InTree(pred[n])
    BY DEF Joined, HasPred, TreeStands, Backward
  <1>2. pred[n] \in GroundedNodes /\ Leads(pred[n], n)
    BY <1>1 DEF TreeStands, Backward
  <1>3. /\ TreeArc(n) \in Arcs
        /\ \E b \in RangeOf(GridNeighbors[pred[n]]) : b.arc = TreeArc(n)
        /\ \E c \in RangeOf(GridNeighbors[n]) : c.arc = TreeArc(n)
    BY <1>1, <1>2, TreeArcLeads
  <1>. QED BY <1>1, <1>2, <1>3 DEF RangeOf

\* The arc that is followed leads to a node not seen yet, or back up.
LEMMA Followed ==
  ASSUME Typed, TreeStands, Walk, from \in GroundedNodes, ~ IsWalked(from),
         NEW along, along = GridNeighbors[from][IF WithStatus(from, -1) # {}
                                                THEN LeastOf(WithStatus(from, -1))
                                                ELSE MostOf(WithStatus(from, -2))]
  PROVE  \/ /\ WithStatus(from, -1) # {}
            /\ along.node \in Joined /\ along.arc = TreeArc(along.node)
            /\ Status(along.node) = -1 /\ pred[along.node] = from
         \/ /\ WithStatus(from, -1) = {}
            /\ from \in Open /\ along.arc = TreeArc(from) /\ along.node = pred[from]
            /\ \A n \in Joined : pred[n] = from => Status(n) = -3
  <1>1. /\ along \in RangeOf(GridNeighbors[from]) /\ along.arc \in Marked
        /\ arcstatus[along.arc] = IF WithStatus(from, -1) # {} THEN -1 ELSE -2
    BY ArcFollowed DEF Typed
  <1>2. PICK m \in Joined : along.arc = TreeArc(m)
    BY <1>1 DEF TreeStands, MarksAreArcs
  <1>3. m \in HasPred /\ m \in GroundedNodes /\ pred[m] \in GroundedNodes /\ Leads(pred[m], m)
    BY <1>2 DEF Joined, HasPred, TreeStands, Backward
  <1>4. PICK b \in RangeOf(GridNeighbors[pred[m]]) : b.node = m /\ b.arc = TreeArc(m)
    BY <1>3, TreeArcLeads
  <1>5. (from = pred[m] /\ along.node = m) \/ (from = m /\ along.node = pred[m])
    BY <1>1, <1>2, <1>3, <1>4, SameArc
  <1>6. CASE WithStatus(from, -1) # {}
    <2>1. Status(m) = -1
      BY <1>1, <1>2, <1>6 DEF Status
    <2>2. from # m
      <3>1. m # Source
        BY <1>2, JoinedArc
      <3>. QED BY <2>1, <3>1 DEF Walk, Open
    <2>. QED BY <1>2, <1>5, <1>6, <2>1, <2>2
  <1>7. CASE WithStatus(from, -1) = {}
    <2>1. Status(m) = -2 /\ m \in Open
      BY <1>1, <1>2, <1>7 DEF Status, Open
    <2>2. from # pred[m]
      BY <2>1 DEF Walk
    <2>3. ASSUME NEW n \in Joined, pred[n] = from PROVE Status(n) = -3
      <3>1. PICK i \in DOMAIN GridNeighbors[from] : GridNeighbors[from][i].arc = TreeArc(n)
        BY <2>3, JoinedArc
      <3>2. i \notin WithStatus(from, -1)
        BY <1>7
      <3>3. Status(n) # -1
        BY <3>1, <3>2 DEF WithStatus, Status
      <3>4. n \notin Open
        BY <2>3 DEF Walk
      <3>. QED BY <3>3, <3>4 DEF Walk, Open
    <2>. QED BY <1>2, <1>5, <1>7, <2>1, <2>2, <2>3
  <1>. QED BY <1>6, <1>7

\* At the end the walk is back at the source and every other node is done.
LEMMA WalkIsOver ==
  ASSUME Typed, TreeStands, Walk, ZeroSum(nodecost), IsWalked(from)
  PROVE  \A n \in GroundedNodes : nodecost[n] = 0
  <1>1. \A n \in Joined : /\ n \in HasPred /\ pred[n] \in GroundedNodes /\ InTree(pred[n])
                          /\ n # Source
    BY JoinedArc
  <1>2. from = Source
    <2>1. ASSUME from \in Open PROVE FALSE
      <3>1. from \in Joined /\ Status(from) = -2
        BY <2>1 DEF Open
      <3>2. PICK i \in DOMAIN GridNeighbors[from] : GridNeighbors[from][i].arc = TreeArc(from)
        BY <3>1, JoinedArc
      <3>3. i \in WithStatus(from, -2)
        BY <3>1, <3>2 DEF WithStatus, Status
      <3>. QED BY <3>3 DEF IsWalked
    <2>. QED BY <2>1 DEF Walk
  <1>3. Open = {}
    <2>1. Open \in SUBSET HasPred
      BY <1>1 DEF Open
    <2>2. ASSUME Open # {} PROVE FALSE
      <3>1. PICK n \in Open : pred[n] \notin Open
        BY <2>1, <2>2 DEF TreeStands, Backward, Rooted
      <3>. QED BY <1>2, <3>1 DEF Walk
    <2>. QED BY <2>2
  <1>4. {n \in Joined : Status(n) = -1} = {}
    <2>. DEFINE U == {n \in Joined : Status(n) = -1}
    <2>1. U \in SUBSET HasPred
      BY <1>1
    <2>2. ASSUME U # {} PROVE FALSE
      <3>. HIDE DEF U
      <3>1. PICK n \in U : pred[n] \notin U
        BY <2>1, <2>2 DEF TreeStands, Backward, Rooted
      <3>2. n \in Joined /\ Status(n) = -1
        BY <3>1 DEF U
      <3>3. CASE pred[n] = Source
        <4>1. PICK i \in DOMAIN GridNeighbors[from] : GridNeighbors[from][i].arc = TreeArc(n)
          BY <1>2, <3>2, <3>3, JoinedArc
        <4>2. i \in WithStatus(from, -1)
          BY <3>2, <4>1 DEF WithStatus, Status
        <4>. QED BY <4>2 DEF IsWalked
      <3>4. CASE pred[n] \in Joined
        <4>1. Status(pred[n]) # -2
          BY <1>3, <3>4 DEF Open
        <4>2. Status(pred[n]) = -1
          BY <3>2, <3>4, <4>1 DEF Walk
        <4>. QED BY <3>1, <3>4, <4>2 DEF U
      <3>. QED BY <1>1, <3>2, <3>3, <3>4 DEF InTree
    <2>. QED BY <2>2
  <1>5. \A n \in Joined : Status(n) = -3
    BY <1>3, <1>4 DEF Walk, Open
  <1>6. \A n \in GroundedNodes : n # Source => nodecost[n] = 0
    BY <1>5 DEF Walk, IsDone, InTree
  <1>7. Source \in GroundedNodes /\ nodecost \in [GroundedNodes -> Int]
    BY DEF TreeStands, Backward, GroundedNodes, Typed
  <1>8. nodecost[Source] = 0
    BY <1>6, <1>7, LastHasNone
  <1>. QED BY <1>6, <1>8

\* Down the arc to a node that was not seen yet.
LEMMA WalkDown ==
  ASSUME TreeStands, Walk, NEW m \in Joined, Status(m) = -1, pred[m] = from,
         arcstatus \in [Arcs -> Int],
         arcstatus' = [arcstatus EXCEPT ![TreeArc(m)] = @ - 1], from' = m,
         nodecost' = nodecost, pred' = pred, residue' = residue
  PROVE  Walk'
  <1>1. /\ m # Source /\ m # from /\ m \in GroundedNodes /\ TreeArc(m) \in Arcs
        /\ from = Source \/ from \in Open
    <2>1. m # from
      <3>1. {m} \in SUBSET HasPred
        BY JoinedArc
      <3>. QED BY <3>1 DEF TreeStands, Backward, Rooted
    <2>. QED BY <2>1, JoinedArc DEF Walk
  <1>2. \A a \in Arcs : arcstatus'[a] = IF a = TreeArc(m) THEN arcstatus[a] - 1 ELSE arcstatus[a]
    OBVIOUS
  <1>3. \A n \in Joined : TreeArc(n) = TreeArc(m) => n = m
    BY OwnArc, JoinedArc DEF TreeStands
  <1>4. /\ Source' = Source /\ HasPred' = HasPred /\ \A n : TreeArc(n)' = TreeArc(n)
    BY DEF Source, HasPred, TreeArc
  <1>5. \A n : Status(n)' = arcstatus'[TreeArc(n)]
    BY <1>4 DEF Status
  <1>6. \A n \in Joined : Status(n)' = IF n = m THEN -2 ELSE Status(n)
    <2>1. \A n \in Joined : TreeArc(n) \in Arcs
      BY JoinedArc
    <2>. QED BY <1>2, <1>3, <1>5, <2>1 DEF Status
  <1>7. Joined' = Joined
    <2>1. Marked' = Marked
      <3>1. arcstatus[TreeArc(m)] = -1
        BY DEF Status
      <3>. QED BY <1>1, <1>2, <3>1 DEF Marked
    <2>. QED BY <1>4, <2>1 DEF Joined
  <1>8. Open' = Open \cup {m}
    BY <1>6, <1>7 DEF Open
  <1>9. \A n : (IsDone(n)' <=> IsDone(n)) /\ (InTree(n)' <=> InTree(n))
    BY <1>4, <1>6, <1>7 DEF IsDone, InTree
  <1>10. m \notin Open
    BY DEF Open
  <1>11. from' \in Open'
    BY <1>8
  <1>12. \A n \in Joined' : Status(n)' \in {-1, -2, -3}
    BY <1>6, <1>7 DEF Walk
  <1>13. \A n \in Open' : (pred'[n] = Source' \/ pred'[n] \in Open') /\ pred'[n] # from'
    <2>1. \A n \in Open : pred[n] # m
      BY <1>1, <1>10 DEF Walk
    <2>. QED BY <1>1, <1>4, <1>8, <2>1 DEF Walk
  <1>14. \A n, k \in Open' : pred'[n] = pred'[k] => n = k
    BY <1>8 DEF Walk
  <1>15. \A n, k \in Joined' : pred'[n] = k /\ Status(k)' # -2 => Status(n)' = Status(k)'
    <2>. SUFFICES ASSUME NEW n \in Joined, NEW k \in Joined, pred[n] = k, Status(k)' # -2
                  PROVE  Status(n)' = Status(k)'
      BY <1>7
    <2>1. k # m /\ Status(k)' = Status(k)
      BY <1>6
    <2>2. Status(n) = Status(k)
      BY <2>1 DEF Walk
    <2>3. n # m
      <3>1. ASSUME n = m PROVE FALSE
        <4>1. k \in Open
          BY <1>1, <3>1, JoinedArc
        <4>. QED BY <2>1, <4>1 DEF Open
      <3>. QED BY <3>1
    <2>. QED BY <1>6, <2>1, <2>2, <2>3
  <1>16. \A n \in GroundedNodes : IsDone(n)' \/ ~ InTree(n)' => nodecost'[n] = 0
    BY <1>9 DEF Walk
  <1>. QED BY <1>11, <1>12, <1>13, <1>14, <1>15, <1>16 DEF Walk

\* Back up, over the arc of a node below which everything is done.
LEMMA WalkUp ==
  ASSUME TreeStands, Walk, from \in Open, \A n \in Joined : pred[n] = from => Status(n) = -3,
         arcstatus \in [Arcs -> Int], nodecost \in [GroundedNodes -> Int],
         arcstatus' = [arcstatus EXCEPT ![TreeArc(from)] = @ - 1], from' = pred[from],
         nodecost' = [nodecost EXCEPT ![pred[from]] = @ + nodecost[from], ![from] = 0],
         pred' = pred, residue' = residue
  PROVE  Walk'
  <1>1. PICK p : p = pred[from]
    OBVIOUS
  <1>2. /\ from \in Joined /\ Status(from) = -2
        /\ from # Source /\ p # from /\ from \in GroundedNodes /\ TreeArc(from) \in Arcs
        /\ p \in GroundedNodes
        /\ p = Source \/ p \in Open
    <2>1. from \in Joined /\ Status(from) = -2
      BY DEF Open
    <2>2. p # from
      <3>1. {from} \in SUBSET HasPred
        BY <2>1, JoinedArc
      <3>. QED BY <1>1, <3>1 DEF TreeStands, Backward, Rooted
    <2>. QED BY <1>1, <2>1, <2>2, JoinedArc DEF Walk
  <1>3. \A a \in Arcs : arcstatus'[a] = IF a = TreeArc(from) THEN arcstatus[a] - 1 ELSE arcstatus[a]
    OBVIOUS
  <1>4. \A n \in Joined : TreeArc(n) = TreeArc(from) => n = from
    BY <1>2, OwnArc, JoinedArc DEF TreeStands
  <1>5. /\ Source' = Source /\ HasPred' = HasPred /\ \A n : TreeArc(n)' = TreeArc(n)
    BY DEF Source, HasPred, TreeArc
  <1>6. \A n : Status(n)' = arcstatus'[TreeArc(n)]
    BY <1>5 DEF Status
  <1>7. \A n \in Joined : Status(n)' = IF n = from THEN -3 ELSE Status(n)
    <2>1. \A n \in Joined : TreeArc(n) \in Arcs
      BY JoinedArc
    <2>. QED BY <1>2, <1>3, <1>4, <1>6, <2>1 DEF Status
  <1>8. Joined' = Joined
    <2>1. Marked' = Marked
      <3>1. arcstatus[TreeArc(from)] = -2
        BY <1>2 DEF Status
      <3>. QED BY <1>2, <1>3, <3>1 DEF Marked
    <2>. QED BY <1>5, <2>1 DEF Joined
  <1>9. Open' = Open \ {from}
    BY <1>7, <1>8 DEF Open
  <1>10. \A n : /\ IsDone(n)' <=> IsDone(n) \/ n = from
                /\ InTree(n)' <=> InTree(n)
    BY <1>2, <1>5, <1>7, <1>8 DEF IsDone, InTree
  <1>11. from' = Source' \/ from' \in Open'
    BY <1>1, <1>2, <1>5, <1>9
  <1>12. \A n \in Joined' : Status(n)' \in {-1, -2, -3}
    BY <1>7, <1>8 DEF Walk
  <1>13. \A n \in Open' : (pred'[n] = Source' \/ pred'[n] \in Open') /\ pred'[n] # from'
    BY <1>1, <1>2, <1>5, <1>9 DEF Walk
  <1>14. \A n, k \in Open' : pred'[n] = pred'[k] => n = k
    BY <1>9 DEF Walk
  <1>15. \A n, k \in Joined' : pred'[n] = k /\ Status(k)' # -2 => Status(n)' = Status(k)'
    <2>. SUFFICES ASSUME NEW n \in Joined, NEW k \in Joined, pred[n] = k, Status(k)' # -2
                  PROVE  Status(n)' = Status(k)'
      BY <1>8
    <2>1. CASE k = from
      <3>1. Status(n) = -3 /\ n # from
        BY <1>2, <2>1
      <3>. QED BY <1>7, <2>1, <3>1
    <2>2. CASE k # from
      <3>1. Status(k)' = Status(k)
        BY <1>7, <2>2
      <3>2. Status(n) = Status(k)
        BY <3>1 DEF Walk
      <3>3. n # from
        BY <1>2, <3>1, <3>2
      <3>. QED BY <1>7, <3>1, <3>2, <3>3
    <2>. QED BY <2>1, <2>2
  <1>16. \A n \in GroundedNodes : IsDone(n)' \/ ~ InTree(n)' => nodecost'[n] = 0
    <2>. SUFFICES ASSUME NEW n \in GroundedNodes, IsDone(n) \/ n = from \/ ~ InTree(n)
                  PROVE  nodecost'[n] = 0
      BY <1>10
    <2>1. CASE n = from
      BY <2>1
    <2>2. CASE n # from
      <3>1. nodecost[n] = 0
        BY <2>2 DEF Walk
      <3>2. n # p
        <4>1. p = Source => ~ IsDone(p) /\ InTree(p)
          BY JoinedArc DEF IsDone, InTree
        <4>2. p \in Open => ~ IsDone(p) /\ InTree(p)
          BY DEF Open, IsDone, InTree
        <4>. QED BY <1>2, <2>2, <4>1, <4>2
      <3>. QED BY <1>1, <2>2, <3>1, <3>2
    <2>. QED BY <2>1, <2>2
  <1>. QED BY <1>11, <1>12, <1>13, <1>14, <1>15, <1>16 DEF Walk

\* The walk begins at the source, with the residues for charges.
LEMMA WalkStarts ==
  ASSUME TreeInv, TreeInv', StartDischarge
  PROVE  Walk' /\ ZeroSum(nodecost')
  <1>1. /\ stage = "grow" /\ stage' = "discharge" /\ from' = Source
        /\ nodecost' = [n \in GroundedNodes |-> Charge(residue, n)]
        /\ residue' = residue /\ pred' = pred /\ arcstatus' = arcstatus
    BY DEF StartDischarge
  <1>2. Typed /\ TreeStands' /\ \A a \in Arcs : arcstatus[a] \in {0, -1}
    BY <1>1 DEF TreeInv, GrowInv, Growing, WalkInv
  <1>3. /\ Source' = Source /\ HasPred' = HasPred /\ Marked' = Marked /\ Joined' = Joined
        /\ \A n : TreeArc(n)' = TreeArc(n)
    BY <1>1 DEF Source, HasPred, Marked, Joined, TreeArc
  <1>4. /\ \A n : (InTree(n)' <=> InTree(n)) /\ (IsResidue(n)' <=> IsResidue(n))
        /\ \A n : Status(n)' = Status(n)
    BY <1>1, <1>3 DEF InTree, IsResidue, Status
  <1>5. \A n \in Joined : Status(n) = -1
    BY <1>2 DEF Joined, Marked, Status
  <1>6. Open' = {} /\ \A n : ~ IsDone(n)'
    BY <1>3, <1>4, <1>5 DEF Open, IsDone
  <1>7. \A n \in GroundedNodes : nodecost'[n] = Charge(residue, n)
    BY <1>1
  <1>8. \A n \in GroundedNodes : IsDone(n)' \/ ~ InTree(n)' => nodecost'[n] = 0
    BY <1>2, <1>4, <1>6, <1>7 DEF TreeStands, IsResidue
  <1>9. Walk'
    BY <1>1, <1>3, <1>4, <1>5, <1>6, <1>8 DEF Walk
  <1>10. ZeroSum(nodecost')
    BY <1>2, <1>7, ChargesSumToZero DEF Typed
  <1>. QED BY <1>9, <1>10

\* What FollowArc does to the charges, and to the flows.
LEMMA ChargeMoves ==
  ASSUME TreeInv, ChargesInv, FollowArc
  PROVE  /\ Walk' /\ ZeroSum(nodecost')
         /\ \A n \in GridNodes : Surplus(mstflows', n) - nodecost'[n] = Surplus(mstflows, n) - nodecost[n]
  <1>. DEFINE fresh == WithStatus(from, -1)
              i == IF fresh # {} THEN LeastOf(fresh) ELSE MostOf(WithStatus(from, -2))
  <1>1. /\ Typed /\ TreeStands /\ from \in GroundedNodes /\ stage = "discharge" /\ ~ IsWalked(from)
        /\ Walk /\ ZeroSum(nodecost)
    BY DEF FollowArc, TreeInv, WalkInv, ChargesInv
  <1>2. PICK along : along = GridNeighbors[from][i]
    OBVIOUS
  <1>3. /\ arcstatus' = [arcstatus EXCEPT ![along.arc] = @ - 1] /\ from' = along.node
        /\ IF fresh # {} THEN UNCHANGED <<mstflows, nodecost>>
           ELSE /\ mstflows' = [mstflows EXCEPT ![along.arc] = @ + along.dir * nodecost[from]]
                /\ nodecost' = [nodecost EXCEPT ![along.node] = @ + nodecost[from], ![from] = 0]
        /\ residue' = residue /\ pred' = pred
    BY <1>2 DEF FollowArc
  <1>4. along \in RangeOf(GridNeighbors[from]) /\ along.node \in GroundedNodes /\ along.node # from
    BY <1>1, <1>2, ArcFollowed DEF Typed
  <1>5. \/ /\ fresh # {}
           /\ along.node \in Joined /\ along.arc = TreeArc(along.node)
           /\ Status(along.node) = -1 /\ pred[along.node] = from
        \/ /\ fresh = {}
           /\ from \in Open /\ along.arc = TreeArc(from) /\ along.node = pred[from]
           /\ \A n \in Joined : pred[n] = from => Status(n) = -3
    BY <1>1, <1>2, Followed
  <1>. HIDE DEF i, fresh
  <1>6. /\ arcstatus \in [Arcs -> Int] /\ nodecost \in [GroundedNodes -> Int]
        /\ mstflows \in [Arcs -> Int]
    BY <1>1 DEF Typed
  <1>7. CASE fresh # {}
    <2>1. Walk'
      BY <1>1, <1>3, <1>5, <1>6, <1>7, WalkDown
    <2>. QED BY <1>1, <1>3, <1>7, <2>1
  <1>8. CASE fresh = {}
    <2>1. nodecost' = [nodecost EXCEPT ![along.node] = @ + nodecost[from], ![from] = 0]
      BY <1>3, <1>8
    <2>2. Walk'
      BY <1>1, <1>3, <1>5, <1>6, <1>8, <2>1, WalkUp
    <2>3. ZeroSum(nodecost')
      BY <1>1, <1>4, <1>6, <2>1, SumKeptByMove
    <2>4. ASSUME NEW m \in GridNodes
          PROVE  Surplus(mstflows', m) - nodecost'[m] = Surplus(mstflows, m) - nodecost[m]
      <3>1. PICK x \in Int : x = nodecost[from]
        BY <1>1, <1>6
      <3>2. mstflows' = [mstflows EXCEPT ![along.arc] = @ + along.dir * x]
        BY <1>3, <1>8, <3>1
      <3>3. Surplus(mstflows', m)
              = Surplus(mstflows, m) + (IF m = along.node THEN x ELSE IF m = from THEN -x ELSE 0)
        <4>1. PICK f, g : f \in [Arcs -> Int] /\ f = mstflows /\ g = mstflows'
          BY <1>6
        <4>2. \A y \in Arcs : g[y] = IF y = along.arc THEN f[y] + along.dir * x ELSE f[y]
          BY <3>2, <4>1
        <4>3. Surplus(g, m) = Surplus(f, m) + (IF m = along.node THEN x ELSE IF m = from THEN -x ELSE 0)
          BY <1>1, <1>4, <4>1, <4>2, SurplusMoves
        <4>. QED BY <4>1, <4>3
      <3>4. nodecost'[m] = IF m = from THEN 0 ELSE IF m = along.node THEN nodecost[m] + x ELSE nodecost[m]
        BY <1>4, <1>6, <2>1, <3>1 DEF GroundedNodes
      <3>5. Surplus(mstflows, m) \in Int /\ nodecost[m] \in Int
        BY <1>6, SurplusInteger DEF GroundedNodes
      <3>. QED BY <1>4, <3>1, <3>3, <3>4, <3>5
    <2>. QED BY <2>2, <2>3, <2>4
  <1>. QED BY <1>7, <1>8

\* The charges add up to zero at each step, and all are gone at the end.
LEMMA ChargesInvStep == TreeInv /\ TreeInv' /\ ChargesInv /\ [MSTNext]_mstvars => ChargesInv'
  <1>. SUFFICES ASSUME TreeInv, TreeInv', ChargesInv, [MSTNext]_mstvars PROVE ChargesInv'
    OBVIOUS
  <1>1. CASE StartDischarge
    <2>1. stage' = "discharge"
      BY <1>1 DEF StartDischarge
    <2>. QED BY <1>1, <2>1, WalkStarts DEF ChargesInv, ZeroSum
  <1>2. CASE FollowArc
    <2>1. stage' = "discharge"
      BY <1>2 DEF FollowArc
    <2>. QED BY <1>2, <2>1, ChargeMoves DEF ChargesInv, ZeroSum
  <1>3. CASE Discharged
    <2>1. stage = "discharge" /\ stage' = "clip" /\ IsWalked(from) /\ nodecost' = nodecost
      BY <1>3 DEF Discharged, treevars
    <2>2. Typed /\ TreeStands /\ Walk /\ ZeroSum(nodecost)
      BY <2>1 DEF TreeInv, WalkInv, ChargesInv
    <2>3. \A n \in GroundedNodes : nodecost[n] = 0
      BY <2>1, <2>2, WalkIsOver
    <2>. QED BY <2>1, <2>3 DEF ChargesInv
  <1>4. CASE NoResidue \/ StartTree \/ TakeClosest \/ MarkPath \/ ScanArc \/ ClipFlow
    <2>1. stage' \notin {"discharge", "clip"}
      <3>1. CASE NoResidue
        BY <3>1 DEF NoResidue
      <3>2. CASE StartTree
        BY <3>2 DEF StartTree
      <3>3. CASE TakeClosest
        BY <3>3 DEF TakeClosest
      <3>4. CASE MarkPath
        BY <3>4 DEF MarkPath
      <3>5. CASE ScanArc
        BY <3>5 DEF ScanArc
      <3>6. CASE ClipFlow
        BY <3>6 DEF ClipFlow
      <3>. QED BY <1>4, <3>1, <3>2, <3>3, <3>4, <3>5, <3>6
    <2>. QED BY <2>1 DEF ChargesInv
  <1>5. CASE UNCHANGED mstvars
    <2>1. /\ residue' = residue /\ stage' = stage /\ nodecost' = nodecost
          /\ pred' = pred /\ arcstatus' = arcstatus /\ from' = from
      BY <1>5 DEF mstvars, treevars, walkvars
    <2>2. /\ Source' = Source /\ HasPred' = HasPred /\ Joined' = Joined
          /\ \A n : /\ TreeArc(n)' = TreeArc(n)
                    /\ InTree(n)' <=> InTree(n)
      BY <2>1 DEF Source, HasPred, Marked, Joined, InTree, TreeArc
    <2>3. \A n : Status(n)' = Status(n)
      BY <2>1, <2>2 DEF Status
    <2>4. Open' = Open /\ \A n : IsDone(n)' <=> IsDone(n)
      BY <2>2, <2>3 DEF Open, IsDone
    <2>5. Walk => Walk'
      BY <2>1, <2>2, <2>3, <2>4 DEF Walk
    <2>. QED BY <2>1, <2>5 DEF ChargesInv, ZeroSum
  <1>. QED BY <1>1, <1>2, <1>3, <1>4, <1>5 DEF MSTNext, MSTStep, MSTStopped

\* Without flows nothing is brought to a node.
LEMMA NoSurplus ==
  ASSUME NEW n \in GridNodes
  PROVE  Surplus([a \in Arcs |-> 0], n) = 0
  <1>. DEFINE f == [a \in Arcs |-> 0]
  <1>1. /\ f[<<n[1], n[2]>>] = 0 /\ f[<<n[1], n[2] + 1>>] = 0
        /\ f[<<n[1] + NRow - 1, n[2]>>] = 0 /\ f[<<n[1] + NRow, n[2]>>] = 0
    BY ArcsOfNode
  <1>. QED BY <1>1, NotANode DEF Surplus

\* A node with a residue is found.
LEMMA NoneFound ==
  ASSUME NEW res, FirstResidue(res) = NoNode, NEW n \in GridNodes
  PROVE  res[n] = 0
  <1>. DEFINE found == {i \in DOMAIN NodeOrder : NodeOrder[i] # Ground /\ res[NodeOrder[i]] # 0}
  <1>1. PICK p \in 1..Len(NodeOrder) : NodeOrder[p] = n
    BY OrderOnce DEF GroundedNodes
  <1>2. found = {}
    <2>1. ASSUME found # {} PROVE FALSE
      <3>1. Len(NodeOrder) \in Int /\ 1 \in Int
        BY OrderLists
      <3>2. IsFiniteSet(1..Len(NodeOrder)) /\ found \subseteq 1..Len(NodeOrder)
        BY <3>1, OrderLists, FS_Interval
      <3>3. IsFiniteSet(found) /\ found \subseteq Int
        BY <3>2, FS_Subset
      <3>4. LeastOf(found) \in found
        <4>. HIDE DEF found
        <4>. QED BY <2>1, <3>3, LeastOfSet
      <3>5. FirstResidue(res) \in GroundedNodes
        BY <2>1, <3>4, OrderLists DEF FirstResidue
      <3>. QED BY <3>5, NotANode
    <2>. QED BY <2>1
  <1>3. p \notin found /\ p \in DOMAIN NodeOrder /\ NodeOrder[p] # Ground
    BY <1>1, <1>2, OrderLists, NotANode
  <1>. QED BY <1>1, <1>3

\* What the flows bring to a node follows its charge.
LEMMA BalanceInvStep ==
  ASSUME TreeInv, TreeInv', ChargesInv, ChargesInv', BalanceInv, NoExcess, [MSTNext]_mstvars
  PROVE  BalanceInv'
  <1>1. input' = input
    BY DEF MSTNext, MSTStep, MSTStopped, mstvars, NoResidue, StartTree, TakeClosest, MarkPath,
           ScanArc, StartDischarge, FollowArc, Discharged, ClipFlow
  <1>2. CASE NoResidue
    <2>1. /\ stage = "solve" /\ stage' = "done" /\ Source = NoNode
          /\ residue' = residue /\ mstflows' = mstflows
      BY <1>2 DEF NoResidue
    <2>2. residue = input.residue /\ mstflows = [a \in Arcs |-> 0]
      BY <2>1 DEF BalanceInv
    <2>3. \A n \in GridNodes : residue[n] = 0
      BY <2>1, NoneFound DEF Source
    <2>4. \A n \in GridNodes : Surplus(mstflows, n) = 0
      BY <2>2, NoSurplus
    <2>. QED BY <1>1, <2>1, <2>2, <2>3, <2>4 DEF BalanceInv, InitialFlowsBalance, Growing
  <1>3. CASE StartTree \/ TakeClosest \/ MarkPath \/ ScanArc
    <2>1. /\ stage = "solve" \/ Growing
          /\ stage' \in {"grow", "mark", "scan"}
          /\ residue' = residue /\ mstflows' = mstflows
      <3>1. CASE StartTree
        BY <3>1 DEF StartTree
      <3>2. CASE TakeClosest
        BY <3>2 DEF TakeClosest, Growing
      <3>3. CASE MarkPath
        BY <3>3 DEF MarkPath, Growing
      <3>4. CASE ScanArc
        BY <3>4 DEF ScanArc, Growing
      <3>. QED BY <1>3, <3>1, <3>2, <3>3, <3>4
    <2>. QED BY <1>1, <2>1 DEF BalanceInv, InitialFlowsBalance, Growing
  <1>4. CASE StartDischarge
    <2>1. /\ stage = "grow" /\ stage' = "discharge"
          /\ residue' = residue /\ mstflows' = mstflows
          /\ nodecost' = [n \in GroundedNodes |-> Charge(residue, n)]
      BY <1>4 DEF StartDischarge
    <2>2. residue = input.residue /\ mstflows = [a \in Arcs |-> 0]
      BY <2>1 DEF BalanceInv, Growing
    <2>3. \A n \in GridNodes : Surplus(mstflows, n) = 0
      BY <2>2, NoSurplus
    <2>4. \A n \in GridNodes : nodecost'[n] = residue[n] /\ residue[n] \in Int
      BY <2>1, NotANode DEF Charge, GroundedNodes, TreeInv, Typed
    <2>. QED BY <1>1, <2>1, <2>2, <2>3, <2>4 DEF BalanceInv, InitialFlowsBalance, Growing
  <1>5. CASE FollowArc
    <2>1. stage = "discharge" /\ stage' = "discharge" /\ residue' = residue
      BY <1>5 DEF FollowArc
    <2>2. residue = input.residue /\ \A n \in GridNodes : Surplus(mstflows, n) + residue[n] = nodecost[n]
      BY <2>1 DEF BalanceInv
    <2>3. ASSUME NEW n \in GridNodes PROVE Surplus(mstflows', n) + residue[n] = nodecost'[n]
      <3>1. /\ Surplus(mstflows, n) \in Int /\ Surplus(mstflows', n) \in Int
            /\ nodecost[n] \in Int /\ nodecost'[n] \in Int /\ residue[n] \in Int
        BY SurplusInteger DEF TreeInv, Typed, GroundedNodes
      <3>2. Surplus(mstflows', n) - nodecost'[n] = Surplus(mstflows, n) - nodecost[n]
        BY <1>5, ChargeMoves
      <3>3. Surplus(mstflows, n) + residue[n] = nodecost[n]
        BY <2>2
      <3>. QED BY <3>1, <3>2, <3>3
    <2>. QED BY <1>1, <2>1, <2>2, <2>3 DEF BalanceInv, InitialFlowsBalance, Growing
  <1>6. CASE Discharged
    <2>1. /\ stage = "discharge" /\ stage' = "clip"
          /\ residue' = residue /\ mstflows' = mstflows /\ nodecost' = nodecost
      BY <1>6 DEF Discharged, treevars
    <2>. QED BY <1>1, <2>1 DEF BalanceInv, InitialFlowsBalance, Growing
  <1>7. CASE ClipFlow
    <2>1. stage = "clip" /\ MostFlow(mstflows) <= MaxFlow
      BY <1>7 DEF ClipFlow, NoExcess
    <2>2. stage' = "done" /\ residue' = residue /\ mstflows' = mstflows
      BY <1>7, <2>1 DEF ClipFlow
    <2>3. /\ residue = input.residue
          /\ \A n \in GridNodes : Surplus(mstflows, n) + residue[n] = nodecost[n]
      BY <2>1 DEF BalanceInv
    <2>4. \A n \in GridNodes : nodecost[n] = 0
      BY <2>1 DEF ChargesInv, GroundedNodes
    <2>. QED BY <1>1, <2>2, <2>3, <2>4 DEF BalanceInv, InitialFlowsBalance, Growing
  <1>8. CASE UNCHANGED mstvars
    <2>1. /\ residue' = residue /\ mstflows' = mstflows /\ stage' = stage /\ nodecost' = nodecost
      BY <1>8 DEF mstvars, treevars
    <2>. QED BY <1>1, <2>1 DEF BalanceInv, InitialFlowsBalance, Growing
  <1>. QED BY <1>2, <1>3, <1>4, <1>5, <1>6, <1>7, <1>8 DEF MSTNext, MSTStep, MSTStopped

\* No flow, and the residues of the input.
LEMMA BalanceStart == MSTStart => ChargesInv /\ BalanceInv
  <1>. SUFFICES ASSUME NEW i \in MSTInputs, StartFrom(i) PROVE ChargesInv /\ BalanceInv
    BY DEF MSTStart
  <1>1. input = i /\ residue = i.residue /\ mstflows = [a \in Arcs |-> 0] /\ stage = "solve"
    BY DEF StartFrom
  <1>. QED BY <1>1 DEF ChargesInv, BalanceInv, InitialFlowsBalance, Growing

\* The walk of DischargeTree() takes every charge along until none is left, in
\* every round of MSTInitFlows().
THEOREM ChargesDischarged ==
  MSTSpec /\ []FarEnough => [](stage = "clip" => \A n \in GroundedNodes : nodecost[n] = 0)
  <1>1. ChargesInv => (stage = "clip" => \A n \in GroundedNodes : nodecost[n] = 0)
    BY DEF ChargesInv
  <1>2. MSTStart => ChargesInv
    BY BalanceStart
  <1>3. TreeInv /\ TreeInv' /\ ChargesInv /\ [MSTNext]_mstvars => ChargesInv'
    BY ChargesInvStep
  <1>. QED BY <1>1, <1>2, <1>3, TreeInvHolds, PTL DEF MSTSpec

\* As long as ClipFlow() finds no flow above initmaxflow, the flows that
\* MSTInitFlows() returns balance the residues of the image.
THEOREM UnclippedFlowsBalance ==
  MSTSpec /\ []FarEnough /\ []NoExcess => []InitialFlowsBalance
  <1>1. BalanceInv => InitialFlowsBalance
    BY DEF BalanceInv
  <1>2. MSTStart => ChargesInv /\ BalanceInv
    BY BalanceStart
  <1>3. TreeInv /\ TreeInv' /\ ChargesInv /\ BalanceInv /\ NoExcess /\ [MSTNext]_mstvars
          => ChargesInv' /\ BalanceInv'
    <2>. SUFFICES ASSUME TreeInv, TreeInv', ChargesInv, BalanceInv, NoExcess, [MSTNext]_mstvars
                  PROVE  ChargesInv' /\ BalanceInv'
      OBVIOUS
    <2>1. ChargesInv'
      BY ChargesInvStep
    <2>. QED BY <2>1, BalanceInvStep
  <1>. QED BY <1>1, <1>2, <1>3, TreeInvHolds, PTL DEF MSTSpec

=============================================================================
