--------------------------- MODULE BucketQueueProofs ---------------------------
(***************************************************************************)
(* What the bucket queue promises, for any range of buckets, any nodes and *)
(* any costs, beyond the range as well: its operations keep what Holds     *)
(* says, and the node it gives is one of least cost.                       *)
(***************************************************************************)
EXTENDS BucketQueue, FiniteSets, FiniteSetTheorems, SequenceTheorems, WellFoundedInduction, TLAPS

\* Any set of natural numbers that is not empty has a least element.
LEMMA LeastNatural ==
  ASSUME NEW T, T \subseteq Nat, T # {}
  PROVE  \E x \in T : \A y \in T : x <= y
  <1>1. \E x \in T : \A y \in T : ~ (<<y, x>> \in OpToRel(<, Nat))
    BY NatLessThanWellFounded, WFMin, Zenon
  <1>2. \A x, y \in Nat : <<y, x>> \in OpToRel(<, Nat) <=> y < x
    BY DEF OpToRel
  <1>3. PICK x \in T : \A y \in T : ~ (<<y, x>> \in OpToRel(<, Nat))
    BY <1>1, Zenon
  <1>4. \A y \in T : x \in Nat /\ y \in Nat /\ ~ (y < x)
    BY <1>2, <1>3, Zenon
  <1>. QED BY <1>4

\* An element of a finite set of integers is the least if the fewest elements are
\* below it.
LEMMA LeastElement ==
  ASSUME NEW S, IsFiniteSet(S), S \subseteq Int, S # {}
  PROVE  \E x \in S : \A y \in S : x <= y
  <1>. DEFINE Under(x) == {y \in S : y < x}
              Ranks == {Cardinality(Under(x)) : x \in S}
  <1>1. \A x \in S : IsFiniteSet(Under(x)) /\ Cardinality(Under(x)) \in Nat
    BY FS_Subset, FS_CardinalityType
  <1>2. PICK r \in Ranks : \A s \in Ranks : r <= s
    <2>1. Ranks \subseteq Nat /\ Ranks # {}
      BY <1>1
    <2>. HIDE DEF Ranks
    <2>. QED BY <2>1, LeastNatural
  <1>3. PICK x \in S : r = Cardinality(Under(x))
    BY <1>2
  <1>4. ASSUME NEW y \in S, ~ (x <= y) PROVE FALSE
    <2>1. y < x
      BY <1>4
    <2>2. Under(y) \subseteq Under(x) /\ y \in Under(x) /\ y \notin Under(y)
      <3>1. \A z \in S : z \in Int /\ x \in Int /\ y \in Int
        OBVIOUS
      <3>2. \A z \in S : z < y => z < x
        BY <2>1, <3>1
      <3>3. ~ (y < y)
        BY <3>1
      <3>. QED BY <2>1, <3>2, <3>3, Zenon
    <2>3. Cardinality(Under(y)) <= Cardinality(Under(x))
      BY <1>1, <2>2, FS_Subset
    <2>4. Cardinality(Under(y)) # Cardinality(Under(x))
      BY <1>1, <2>2, FS_Subset
    <2>5. Cardinality(Under(x)) <= Cardinality(Under(y))
      BY <1>2, <1>3
    <2>. QED BY <1>1, <2>3, <2>4, <2>5
  <1>. QED BY <1>4

\* A queue of nodes of N.
IsQueue(q, N) ==
    /\ q.lo \in Int /\ q.hi \in Int /\ q.lo < q.hi /\ q.curr \in q.lo..q.hi
    /\ q.at \in [q.lo..q.hi -> Seq(N)]

\* A list belongs to every cost.
LEMMA SlotIndex ==
  ASSUME NEW N, NEW q, IsQueue(q, N), NEW c \in Int
  PROVE  /\ q.lo \in Int /\ q.hi \in Int /\ q.lo < q.hi
         /\ Slot(q, c) \in q.lo..q.hi
         /\ Slot(q, c) \notin {q.lo, q.hi} => Slot(q, c) = c
         /\ Slot(q, c) = q.hi => c >= q.hi
         /\ Slot(q, c) = q.lo => c <= q.lo
  <1>1. q.lo \in Int /\ q.hi \in Int /\ q.lo < q.hi
    BY DEF IsQueue
  <1>. QED BY <1>1 DEF Slot

\* A lower list holds the nodes of lower cost.
LEMMA SlotsInOrder ==
  ASSUME NEW N, NEW q, IsQueue(q, N), NEW c \in Int, NEW d \in Int,
         Slot(q, c) < Slot(q, d)
  PROVE  c < d
  <1>1. q.lo \in Int /\ q.hi \in Int /\ q.lo < q.hi
    BY SlotIndex
  <1>. QED BY <1>1 DEF Slot

\* The search stops at the first list that has a node, if any has.
LEMMA FirstFilled ==
  ASSUME NEW N, NEW q, IsQueue(q, N), IsFilled(q)
  PROVE  /\ NextFilled(q) \in q.curr..q.hi
         /\ q.at[NextFilled(q)] # << >>
         /\ \A i \in q.curr..q.hi : q.at[i] # << >> => NextFilled(q) <= i
  <1>. DEFINE filled == {i \in q.curr..q.hi : q.at[i] # << >>}
  <1>1. q.curr \in Int /\ q.hi \in Int
    BY DEF IsQueue
  <1>2. IsFiniteSet(filled) /\ filled \subseteq Int /\ filled # {}
    <2>1. IsFiniteSet(q.curr..q.hi)
      BY <1>1, FS_Interval
    <2>. QED BY <1>1, <2>1, FS_Subset DEF IsFilled
  <1>3. \E i \in filled : \A j \in filled : i <= j
    <2>. HIDE DEF filled
    <2>. QED BY <1>2, LeastElement
  <1>4. NextFilled(q) = CHOOSE i \in filled : \A j \in filled : i <= j
    BY <1>2 DEF NextFilled
  <1>. QED BY <1>3, <1>4

\* In a list that is searched the node found is the first of those of least cost.
LEMMA LeastOfList ==
  ASSUME NEW N, NEW list \in Seq(N), list # << >>, NEW cost \in [N -> Int]
  PROVE  \E j \in DOMAIN list :
           /\ \A m \in DOMAIN list : cost[list[j]] <= cost[list[m]]
           /\ \A m \in 1..(j - 1) : cost[list[j]] < cost[list[m]]
  <1>. DEFINE costOf == [j \in DOMAIN list |-> cost[list[j]]]
              costs == {costOf[j] : j \in DOMAIN list}
  <1>1. DOMAIN list = 1..Len(list) /\ Len(list) \in Nat /\ 1 \in DOMAIN list
    OBVIOUS
  <1>2. \A j \in DOMAIN list : list[j] \in N /\ cost[list[j]] \in Int
    BY <1>1
  <1>3. PICK v \in costs : \A w \in costs : v <= w
    <2>1. IsFiniteSet(DOMAIN list)
      BY <1>1, FS_Interval
    <2>2. IsFiniteSet(costs)
      <3>1. costOf \in Surjection(DOMAIN list, costs)
        BY DEF Surjection
      <3>. QED BY <2>1, <3>1, FS_Surjection
    <2>3. costs \subseteq Int /\ costs # {}
      BY <1>1, <1>2
    <2>. HIDE DEF costs
    <2>. QED BY <2>2, <2>3, LeastElement
  <1>4. PICK j \in {i \in DOMAIN list : cost[list[i]] = v} :
               \A k \in {i \in DOMAIN list : cost[list[i]] = v} : j <= k
    <2>. DEFINE least == {j \in DOMAIN list : cost[list[j]] = v}
    <2>1. least \subseteq Nat /\ least # {}
      BY <1>1, <1>3
    <2>. HIDE DEF least
    <2>2. \E x \in least : \A y \in least : x <= y
      BY <2>1, LeastNatural
    <2>. QED BY <2>2 DEF least
  <1>5. \A m \in DOMAIN list : cost[list[j]] <= cost[list[m]]
    BY <1>3, <1>4
  <1>6. ASSUME NEW m \in 1..(j - 1) PROVE cost[list[j]] < cost[list[m]]
    <2>1. m \in DOMAIN list /\ m < j
      BY <1>1, <1>4
    <2>2. cost[list[m]] # v
      BY <1>1, <1>4, <2>1
    <2>. QED BY <1>2, <1>4, <1>5, <2>1, <2>2
  <1>. QED BY <1>4, <1>5, <1>6

-----------------------------------------------------------------------------
\* MinOutCostNode() gives a node of the queue, and no node of the queue costs
\* less, whether the costs fit in the buckets or not.
THEOREM LeastCostFirst ==
  ASSUME NEW N, NEW q, IsQueue(q, N), NEW waiting \in SUBSET N,
         NEW cost \in [N -> Int], Holds(q, waiting, cost), waiting # {}
  PROVE  /\ MinOutCostNode(q, cost) \in waiting
         /\ Slot(q, cost[MinOutCostNode(q, cost)]) = NextFilled(q) /\ IsFilled(q)
         /\ \A m \in waiting : cost[MinOutCostNode(q, cost)] <= cost[m]
  <1>. DEFINE i == NextFilled(q)
              list == q.at[i]
  <1>1. /\ q.lo \in Int /\ q.hi \in Int /\ q.lo < q.hi /\ q.curr \in q.lo..q.hi
        /\ q.at \in [q.lo..q.hi -> Seq(N)]
    BY DEF IsQueue
  <1>2. \A m \in waiting : /\ Slot(q, cost[m]) \in q.curr..q.hi
                           /\ \E j \in DOMAIN q.at[Slot(q, cost[m])] : q.at[Slot(q, cost[m])][j] = m
    <2>. SUFFICES ASSUME NEW m \in waiting
                  PROVE  Slot(q, cost[m]) \in q.curr..q.hi
      BY DEF Holds
    <2>1. Slot(q, cost[m]) \in q.lo..q.hi
      BY SlotIndex
    <2>2. q.at[Slot(q, cost[m])] # << >>
      BY DEF Holds
    <2>. QED BY <1>1, <2>1, <2>2 DEF Holds
  <1>3. IsFilled(q)
    BY <1>2 DEF IsFilled
  <1>4. /\ i \in q.lo..q.hi /\ list \in Seq(N) /\ list # << >>
        /\ \A k \in q.curr..q.hi : q.at[k] # << >> => i <= k
    BY <1>1, <1>3, FirstFilled
  <1>5. \A j \in DOMAIN list : /\ list[j] \in waiting
                               /\ Slot(q, cost[list[j]]) = i
    BY <1>4 DEF Holds
  <1>6. PICK k \in DOMAIN list : /\ MinOutCostNode(q, cost) = list[k]
                                 /\ \A m \in DOMAIN list : cost[list[k]] <= cost[list[m]]
    <2>1. CASE i \in {q.lo, q.hi}
      BY <1>4, <2>1, LeastOfList DEF MinOutCostNode
    <2>2. CASE i \notin {q.lo, q.hi}
      <3>1. \A j \in DOMAIN list : cost[list[j]] = i
        BY <1>5, <2>2, SlotIndex
      <3>2. 1 \in DOMAIN list /\ MinOutCostNode(q, cost) = list[1]
        BY <1>4, <2>2 DEF MinOutCostNode
      <3>. QED BY <1>4, <3>1, <3>2
    <2>. QED BY <2>1, <2>2
  <1>7. ASSUME NEW m \in waiting PROVE cost[list[k]] <= cost[m]
    <2>1. i <= Slot(q, cost[m])
      BY <1>2, <1>4
    <2>2. CASE i = Slot(q, cost[m])
      BY <1>2, <1>6, <2>2
    <2>3. CASE i < Slot(q, cost[m])
      BY <1>5, <1>6, <2>3, SlotsInOrder
    <2>. QED BY <1>1, <1>4, <2>1, <2>2, <2>3, SlotIndex
  <1>. QED BY <1>3, <1>5, <1>6, <1>7

-----------------------------------------------------------------------------
\* A list without one of its nodes holds the others, each once still.
LEMMA WithoutOne ==
  ASSUME NEW N, NEW list \in Seq(N), NEW n, \E k \in DOMAIN list : list[k] = n,
         \A i, j \in DOMAIN list : list[i] = list[j] => i = j
  PROVE  /\ Without(list, n) \in Seq(N)
         /\ \A j \in DOMAIN Without(list, n) :
              /\ Without(list, n)[j] # n
              /\ \E i \in DOMAIN list : Without(list, n)[j] = list[i]
         /\ \A i, j \in DOMAIN Without(list, n) :
              Without(list, n)[i] = Without(list, n)[j] => i = j
         /\ \A i \in DOMAIN list : list[i] # n =>
              \E j \in DOMAIN Without(list, n) : Without(list, n)[j] = list[i]
  <1>. DEFINE k == CHOOSE k \in DOMAIN list : list[k] = n
              rest == Without(list, n)
  <1>1. k \in DOMAIN list /\ list[k] = n
    OBVIOUS
  <1>2. rest = [j \in 1..Len(list) - 1 |-> IF j < k THEN list[j] ELSE list[j + 1]]
    BY DEF Without
  <1>. HIDE DEF k, rest
  <1>3. DOMAIN list = 1..Len(list) /\ Len(list) \in Nat /\ k \in 1..Len(list)
    BY <1>1
  <1>4. DOMAIN rest = 1..Len(list) - 1
    BY <1>2
  <1>5. \A j \in DOMAIN rest :
          /\ j < k => j \in DOMAIN list /\ rest[j] = list[j] /\ j # k
          /\ ~ (j < k) => j + 1 \in DOMAIN list /\ rest[j] = list[j + 1] /\ j + 1 # k
    BY <1>2, <1>3, <1>4
  <1>6. rest \in Seq(N)
    <2>1. Len(list) - 1 \in Nat
      BY <1>3
    <2>2. rest \in [1..Len(list) - 1 -> N]
      BY <1>2, <1>4, <1>5
    <2>. QED BY <2>1, <2>2, SeqDef
  <1>7. ASSUME NEW j \in DOMAIN rest
        PROVE  rest[j] # n /\ \E i \in DOMAIN list : rest[j] = list[i]
    <2>1. PICK i \in DOMAIN list : rest[j] = list[i] /\ i # k
      BY <1>5
    <2>. QED BY <1>1, <2>1
  <1>8. ASSUME NEW i \in DOMAIN rest, NEW j \in DOMAIN rest, rest[i] = rest[j]
        PROVE  i = j
    <2>1. i \in Nat /\ j \in Nat
      BY <1>3, <1>4
    <2>2. CASE i < k
      BY <1>3, <1>5, <1>8, <2>1, <2>2
    <2>3. CASE ~ (i < k)
      BY <1>3, <1>5, <1>8, <2>1, <2>3
    <2>. QED BY <2>2, <2>3
  <1>9. ASSUME NEW i \in DOMAIN list, list[i] # n
        PROVE  \E j \in DOMAIN rest : rest[j] = list[i]
    <2>1. CASE i < k
      BY <1>3, <1>4, <1>5, <2>1
    <2>2. CASE i > k
      <3>1. i - 1 \in DOMAIN rest /\ ~ (i - 1 < k) /\ (i - 1) + 1 = i
        BY <1>3, <1>4, <2>2
      <3>. QED BY <1>5, <3>1
    <2>. QED BY <1>1, <1>3, <1>9, <2>1, <2>2
  <1>. QED BY <1>6, <1>7, <1>8, <1>9 DEF rest

\* A queue with another list in one place.
LEMMA Replaced ==
  ASSUME NEW N, NEW q, IsQueue(q, N), NEW i \in q.lo..q.hi, NEW s \in Seq(N)
  PROVE  /\ IsQueue(WithList(q, i, s), N)
         /\ WithList(q, i, s).lo = q.lo /\ WithList(q, i, s).hi = q.hi
         /\ WithList(q, i, s).curr = q.curr
         /\ WithList(q, i, s).at[i] = s
         /\ \A j \in q.lo..q.hi : j # i => WithList(q, i, s).at[j] = q.at[j]
  BY DEF IsQueue, WithList, Queue

\* A queue with the buckets of another and nothing in those that are empty there.
IsPartOf(r, q) ==
    /\ r.lo = q.lo /\ r.hi = q.hi /\ r.curr = q.curr
    /\ \A i \in DOMAIN q.at : q.at[i] = << >> => r.at[i] = << >>

\* BucketRemove() leaves a queue of the other nodes.
LEMMA Removed ==
  ASSUME NEW N, NEW q, IsQueue(q, N), NEW waiting \in SUBSET N,
         NEW cost \in [N -> Int], Holds(q, waiting, cost), NEW n \in waiting,
         NEW r, r = BucketRemove(q, n, Slot(q, cost[n]))
  PROVE  IsQueue(r, N) /\ Holds(r, waiting \ {n}, cost) /\ IsPartOf(r, q)
  <1>. DEFINE i == Slot(q, cost[n])
              list == q.at[i]
              rest == Without(list, n)
  <1>1. i \in q.lo..q.hi /\ list \in Seq(N)
    <2>1. i \in q.lo..q.hi
      BY SlotIndex
    <2>. QED BY <2>1 DEF IsQueue
  <1>2. \E k \in DOMAIN list : list[k] = n
    BY DEF Holds
  <1>3. \A a, b \in DOMAIN list : list[a] = list[b] => a = b
    BY <1>1 DEF Holds
  <1>4. r = WithList(q, i, rest)
    BY DEF BucketRemove
  <1>. HIDE DEF i, rest
  <1>5. /\ rest \in Seq(N)
        /\ \A j \in DOMAIN rest : rest[j] # n /\ \E m \in DOMAIN list : rest[j] = list[m]
        /\ \A a, b \in DOMAIN rest : rest[a] = rest[b] => a = b
        /\ \A m \in DOMAIN list : list[m] # n => \E j \in DOMAIN rest : rest[j] = list[m]
    <2>. HIDE DEF list
    <2>. QED BY <1>1, <1>2, <1>3, WithoutOne DEF rest
  <1>6. /\ IsQueue(r, N) /\ r.lo = q.lo /\ r.hi = q.hi /\ r.curr = q.curr /\ r.at[i] = rest
        /\ \A j \in q.lo..q.hi : j # i => r.at[j] = q.at[j]
    BY <1>1, <1>4, <1>5, Replaced
  <1>7. \A c \in Int : Slot(r, c) = Slot(q, c)
    BY <1>6 DEF Slot
  <1>8. \A j \in DOMAIN q.at : q.at[j] = << >> => r.at[j] = << >>
    <2>1. list # << >> /\ DOMAIN q.at = q.lo..q.hi
      BY <1>1, <1>2 DEF IsQueue
    <2>. QED BY <1>6, <2>1
  <1>9. Holds(r, waiting \ {n}, cost)
    <2>1. ASSUME NEW j \in q.lo..q.hi
          PROVE  /\ \A m \in DOMAIN r.at[j] : /\ r.at[j][m] \in waiting \ {n}
                                              /\ Slot(q, cost[r.at[j][m]]) = j
                 /\ \A a, b \in DOMAIN r.at[j] : r.at[j][a] = r.at[j][b] => a = b
                 /\ j < q.curr => r.at[j] = << >>
      <3>1. /\ \A m \in DOMAIN q.at[j] : /\ q.at[j][m] \in waiting
                                         /\ Slot(q, cost[q.at[j][m]]) = j
            /\ \A a, b \in DOMAIN q.at[j] : q.at[j][a] = q.at[j][b] => a = b
            /\ j < q.curr => q.at[j] = << >>
        BY DEF Holds
      <3>2. CASE j = i
        <4>1. r.at[j] = rest /\ q.at[j] = list
          BY <1>6, <3>2
        <4>2. j < q.curr => r.at[j] = << >>
          BY <1>8, <3>1 DEF IsQueue
        <4>. HIDE DEF list
        <4>. QED BY <1>5, <3>1, <4>1, <4>2
      <3>3. CASE j # i
        <4>1. r.at[j] = q.at[j]
          BY <1>6, <3>3
        <4>2. \A m \in DOMAIN q.at[j] : q.at[j][m] # n
          BY <3>1, <3>3 DEF i
        <4>. QED BY <3>1, <4>1, <4>2
      <3>. QED BY <3>2, <3>3
    <2>2. ASSUME NEW m \in waiting \ {n}
          PROVE  \E j \in DOMAIN r.at[Slot(q, cost[m])] : r.at[Slot(q, cost[m])][j] = m
      <3>1. \E j \in DOMAIN q.at[Slot(q, cost[m])] : q.at[Slot(q, cost[m])][j] = m
        BY DEF Holds
      <3>2. Slot(q, cost[m]) \in q.lo..q.hi
        BY SlotIndex
      <3>3. CASE Slot(q, cost[m]) = i
        BY <1>5, <1>6, <3>1, <3>3
      <3>4. CASE Slot(q, cost[m]) # i
        BY <1>6, <3>1, <3>2, <3>4
      <3>. QED BY <3>3, <3>4
    <2>3. \A m \in waiting : Slot(r, cost[m]) = Slot(q, cost[m])
      BY <1>7
    <2>4. \A j \in r.lo..r.hi : \A m \in DOMAIN r.at[j] : Slot(r, cost[r.at[j][m]]) = j
      BY <1>6, <2>1, <2>3
    <2>. QED BY <1>6, <2>1, <2>2, <2>3, <2>4 DEF Holds
  <1>. QED BY <1>6, <1>8, <1>9 DEF IsPartOf

\* A list with a node before its first.
LEMMA WithOneMore ==
  ASSUME NEW N, NEW list \in Seq(N), NEW n \in N
  PROVE  /\ <<n>> \o list \in Seq(N)
         /\ DOMAIN (<<n>> \o list) = 1..Len(list) + 1
         /\ (<<n>> \o list)[1] = n
         /\ \A j \in 1..Len(list) + 1 :
              j # 1 => j - 1 \in 1..Len(list) /\ (<<n>> \o list)[j] = list[j - 1]
  <1>1. Len(list) \in Nat /\ <<n>> \in Seq(N) /\ Len(<<n>>) = 1
    OBVIOUS
  <1>2. <<n>> \o list \in Seq(N) /\ Len(<<n>> \o list) = Len(list) + 1
    BY <1>1
  <1>3. DOMAIN (<<n>> \o list) = 1..Len(list) + 1
    BY <1>2
  <1>4. (<<n>> \o list)[1] = n
    BY <1>1
  <1>5. ASSUME NEW j \in 1..Len(list) + 1, j # 1
        PROVE  j - 1 \in 1..Len(list) /\ (<<n>> \o list)[j] = list[j - 1]
    BY <1>1, <1>5
  <1>. QED BY <1>2, <1>3, <1>4, <1>5

\* BucketInsert() with the index it is called with, and curr moved if need be,
\* adds the node.
LEMMA Linked ==
  ASSUME NEW N, NEW q, IsQueue(q, N), NEW waiting \in SUBSET N,
         NEW cost \in [N -> Int], Holds(q, waiting, cost),
         NEW n \in N, n \notin waiting, NEW c \in Int
  PROVE  /\ IsQueue(Link(q, n, c), N)
         /\ Holds(Link(q, n, c), waiting \cup {n}, [cost EXCEPT ![n] = c])
  <1>. DEFINE i == Slot(q, c)
              list == q.at[i]
              more == <<n>> \o list
              in == WithList(q, i, more)
              r == Link(q, n, c)
              cost1 == [cost EXCEPT ![n] = c]
  <1>1. i \in q.lo..q.hi /\ list \in Seq(N)
    <2>1. i \in q.lo..q.hi
      BY SlotIndex
    <2>. QED BY <2>1 DEF IsQueue
  <1>2. /\ more \in Seq(N) /\ DOMAIN more = 1..Len(list) + 1 /\ more[1] = n
        /\ DOMAIN list = 1..Len(list) /\ Len(list) \in Nat
        /\ \A j \in DOMAIN more : j # 1 => j - 1 \in DOMAIN list /\ more[j] = list[j - 1]
    <2>1. DOMAIN list = 1..Len(list) /\ Len(list) \in Nat
      BY <1>1
    <2>. HIDE DEF list
    <2>. QED BY <1>1, <2>1, WithOneMore DEF more
  <1>3. r = StartingAt(in, IF i < q.hi /\ i < q.curr THEN i ELSE q.curr)
    BY DEF Link, BucketInsert
  <1>4. /\ IsQueue(in, N) /\ in.lo = q.lo /\ in.hi = q.hi /\ in.at[i] = more
        /\ in.curr = q.curr /\ \A j \in q.lo..q.hi : j # i => in.at[j] = q.at[j]
    <2>. HIDE DEF i, list, more, in
    <2>. QED BY <1>1, <1>2, Replaced DEF in
  <1>. HIDE DEF i, more, in, r
  <1>5. /\ IsQueue(r, N) /\ r.lo = q.lo /\ r.hi = q.hi /\ r.at[i] = more
        /\ \A j \in q.lo..q.hi : j # i => r.at[j] = q.at[j]
        /\ r.curr <= q.curr /\ (i # q.hi => r.curr <= i)
    BY <1>1, <1>3, <1>4 DEF IsQueue, StartingAt, Queue
  <1>6. /\ \A d \in Int : Slot(r, d) = Slot(q, d)
        /\ \A m \in waiting : cost1[m] = cost[m] /\ cost[m] \in Int
        /\ cost1[n] = c
    BY <1>5 DEF Slot
  <1>. HIDE DEF cost1
  <1>7. \A j \in q.lo..q.hi :
          /\ \A m \in DOMAIN q.at[j] : /\ q.at[j][m] \in waiting
                                       /\ Slot(q, cost[q.at[j][m]]) = j
          /\ \A a, b \in DOMAIN q.at[j] : q.at[j][a] = q.at[j][b] => a = b
          /\ j < q.curr => q.at[j] = << >>
    BY DEF Holds
  <1>8. ASSUME NEW j \in q.lo..q.hi
        PROVE  /\ \A m \in DOMAIN r.at[j] : /\ r.at[j][m] \in waiting \cup {n}
                                            /\ Slot(r, cost1[r.at[j][m]]) = j
               /\ \A a, b \in DOMAIN r.at[j] : r.at[j][a] = r.at[j][b] => a = b
               /\ j < r.curr => r.at[j] = << >>
    <2>1. CASE j = i
      <3>1. \A m \in DOMAIN more : /\ more[m] \in waiting \cup {n}
                                   /\ Slot(r, cost1[more[m]]) = j
        <4>1. n \in waiting \cup {n} /\ Slot(r, cost1[n]) = j
          BY <1>6, <2>1 DEF i
        <4>2. \A m \in DOMAIN list : /\ list[m] \in waiting
                                     /\ Slot(r, cost1[list[m]]) = j
          BY <1>6, <1>7, <2>1
        <4>. HIDE DEF list
        <4>. QED BY <1>2, <4>1, <4>2
      <3>2. ASSUME NEW a \in DOMAIN more, NEW b \in DOMAIN more, more[a] = more[b]
            PROVE  a = b
        <4>1. \A m \in DOMAIN list : list[m] # n
          BY <1>1, <1>7
        <4>2. a = 1 <=> b = 1
          BY <1>2, <3>2, <4>1
        <4>3. a \in Int /\ b \in Int
          BY <1>2
        <4>4. \A x, y \in DOMAIN list : list[x] = list[y] => x = y
          BY <1>1, <1>7
        <4>. HIDE DEF list
        <4>5. CASE a = 1
          BY <4>2, <4>5
        <4>6. CASE a # 1
          <5>1. a - 1 = b - 1
            BY <1>2, <3>2, <4>2, <4>4, <4>6
          <5>. QED BY <4>3, <5>1
        <4>. QED BY <4>5, <4>6
      <3>3. ~ (j < r.curr)
        BY <1>1, <1>5, <2>1 DEF IsQueue
      <3>. QED BY <1>5, <2>1, <3>1, <3>2, <3>3
    <2>2. CASE j # i
      <3>1. j < r.curr => j < q.curr
        BY <1>5 DEF IsQueue
      <3>. QED BY <1>5, <1>6, <1>7, <2>2, <3>1
    <2>. QED BY <2>1, <2>2
  <1>9. ASSUME NEW m \in waiting \cup {n}
        PROVE  \E j \in DOMAIN r.at[Slot(r, cost1[m])] : r.at[Slot(r, cost1[m])][j] = m
    <2>1. CASE m = n
      <3>1. Slot(r, cost1[m]) = i
        BY <1>6, <2>1 DEF i
      <3>2. 1 \in DOMAIN more
        BY <1>1, <1>2
      <3>. QED BY <1>2, <1>5, <2>1, <3>1, <3>2
    <2>2. CASE m \in waiting
      <3>. DEFINE s == Slot(q, cost[m])
      <3>1. Slot(r, cost1[m]) = s /\ s \in q.lo..q.hi
        BY <1>6, <2>2, SlotIndex
      <3>2. PICK j \in DOMAIN q.at[s] : q.at[s][j] = m
        BY <2>2 DEF Holds
      <3>. HIDE DEF s
      <3>3. CASE s = i
        <4>1. j \in DOMAIN list /\ list[j] = m
          BY <3>2, <3>3
        <4>. HIDE DEF list
        <4>2. j + 1 \in DOMAIN more /\ j + 1 # 1 /\ (j + 1) - 1 = j
          BY <1>2, <4>1
        <4>3. more[j + 1] = m
          BY <1>2, <4>1, <4>2
        <4>. QED BY <1>5, <3>1, <3>3, <4>2, <4>3
      <3>4. CASE s # i
        BY <1>5, <3>1, <3>2, <3>4
      <3>. QED BY <3>3, <3>4
    <2>. QED BY <2>1, <2>2
  <1>10. Holds(r, waiting \cup {n}, cost1)
    BY <1>5, <1>8, <1>9 DEF Holds
  <1>. QED BY <1>5, <1>10 DEF r, cost1

-----------------------------------------------------------------------------
\* AddNewNode() and SolveMST() give a node another cost, whether it is in the
\* queue or not: the queue then holds the nodes it held and that one.
THEOREM Relabelled ==
  ASSUME NEW N, NEW q, IsQueue(q, N), NEW waiting \in SUBSET N,
         NEW cost \in [N -> Int], Holds(q, waiting, cost), NEW n \in N, NEW c \in Int
  PROVE  LET r == Link(Unlink(q, n, n \in waiting, cost[n]), n, c)
         IN  /\ IsQueue(r, N)
             /\ Holds(r, waiting \cup {n}, [cost EXCEPT ![n] = c])
  <1>. DEFINE u == Unlink(q, n, n \in waiting, cost[n])
  <1>1. IsQueue(u, N) /\ Holds(u, waiting \ {n}, cost)
    <2>1. CASE n \in waiting
      BY <2>1, Removed DEF Unlink
    <2>2. CASE n \notin waiting
      <3>1. u = q /\ waiting \ {n} = waiting
        BY <2>2 DEF Unlink
      <3>. QED BY <3>1
    <2>. QED BY <2>1, <2>2
  <1>. HIDE DEF u
  <1>2. IsQueue(Link(u, n, c), N)
        /\ Holds(Link(u, n, c), (waiting \ {n}) \cup {n}, [cost EXCEPT ![n] = c])
    <2>1. waiting \ {n} \in SUBSET N /\ n \notin waiting \ {n}
      OBVIOUS
    <2>. QED BY <1>1, <2>1, Linked
  <1>3. (waiting \ {n}) \cup {n} = waiting \cup {n}
    OBVIOUS
  <1>. QED BY <1>2, <1>3 DEF u

\* A node taken off the first list with any node leaves a queue of the others.
LEMMA TakenFromFirst ==
  ASSUME NEW N, NEW q, IsQueue(q, N), NEW waiting \in SUBSET N,
         NEW cost \in [N -> Int], Holds(q, waiting, cost), IsFilled(q),
         NEW n \in waiting, Slot(q, cost[n]) = NextFilled(q)
  PROVE  /\ IsQueue(AfterMin(q, n), N)
         /\ Holds(AfterMin(q, n), waiting \ {n}, cost)
         /\ AfterMin(q, n).lo = q.lo /\ AfterMin(q, n).hi = q.hi
  <1>. DEFINE i == NextFilled(q)
              u == BucketRemove(q, n, i)
  <1>3. IsQueue(u, N) /\ Holds(u, waiting \ {n}, cost) /\ IsPartOf(u, q)
    <2>1. u = BucketRemove(q, n, Slot(q, cost[n]))
      OBVIOUS
    <2>. HIDE DEF i, u
    <2>. QED BY <2>1, Removed
  <1>4. /\ i \in q.curr..q.hi
        /\ \A j \in q.curr..q.hi : q.at[j] # << >> => i <= j
    BY FirstFilled
  <1>. HIDE DEF i, u
  <1>5. \A j \in q.lo..q.hi : j < i => u.at[j] = << >>
    <2>1. \A j \in q.lo..q.hi : j < q.curr => q.at[j] = << >>
      BY DEF Holds
    <2>. QED BY <1>3, <1>4, <2>1 DEF IsQueue, IsPartOf
  <1>. DEFINE r == StartingAt(u, i)
  <1>6. /\ r.lo = u.lo /\ r.hi = u.hi /\ r.at = u.at /\ r.curr = i
        /\ \A c : Slot(r, c) = Slot(u, c)
    BY DEF StartingAt, Queue, Slot
  <1>. HIDE DEF r
  <1>7. IsQueue(r, N)
    <2>1. u.lo = q.lo /\ u.hi = q.hi /\ q.lo <= q.curr /\ q.curr \in Int /\ q.lo \in Int
      BY <1>3 DEF IsQueue, IsPartOf
    <2>2. i \in u.lo..u.hi
      BY <1>4, <2>1
    <2>. QED BY <1>3, <1>6, <2>2 DEF IsQueue
  <1>8. Holds(r, waiting \ {n}, cost)
    <2>1. u.lo = q.lo /\ u.hi = q.hi
      BY <1>3 DEF IsPartOf
    <2>2. ASSUME NEW j \in r.lo..r.hi
          PROVE  /\ \A m \in DOMAIN r.at[j] : /\ r.at[j][m] \in waiting \ {n}
                                              /\ Slot(r, cost[r.at[j][m]]) = j
                 /\ \A a, b \in DOMAIN r.at[j] : r.at[j][a] = r.at[j][b] => a = b
                 /\ j < r.curr => r.at[j] = << >>
      BY <1>3, <1>5, <1>6, <2>1 DEF Holds
    <2>3. ASSUME NEW m \in waiting \ {n}
          PROVE  \E j \in DOMAIN r.at[Slot(r, cost[m])] : r.at[Slot(r, cost[m])][j] = m
      BY <1>3, <1>6 DEF Holds
    <2>. QED BY <2>2, <2>3 DEF Holds
  <1>9. AfterMin(q, n) = r
    BY DEF AfterMin, u, i, r
  <1>. QED BY <1>3, <1>6, <1>7, <1>8, <1>9 DEF IsPartOf

\* The queue that MinOutCostNode() leaves holds the other nodes.
THEOREM LeastTaken ==
  ASSUME NEW N, NEW q, IsQueue(q, N), NEW waiting \in SUBSET N,
         NEW cost \in [N -> Int], Holds(q, waiting, cost), waiting # {}
  PROVE  LET n == MinOutCostNode(q, cost)
         IN  /\ IsQueue(AfterMin(q, n), N)
             /\ Holds(AfterMin(q, n), waiting \ {n}, cost)
  <1>1. MinOutCostNode(q, cost) \in waiting
    BY LeastCostFirst
  <1>2. Slot(q, cost[MinOutCostNode(q, cost)]) = NextFilled(q) /\ IsFilled(q)
    BY LeastCostFirst
  <1>. QED BY <1>1, <1>2, TakenFromFirst

\* ClosestNode() gives a node of the queue, of a bucket below which there is none,
\* and leaves a queue of the others.  The queue is empty when it gives none.
THEOREM ClosestTaken ==
  ASSUME NEW N, NEW q, IsQueue(q, N), NEW waiting \in SUBSET N,
         NEW cost \in [N -> Int], Holds(q, waiting, cost)
  PROVE  /\ IsFilled(q) <=> waiting # {}
         /\ waiting # {} =>
              /\ ClosestNode(q) \in waiting
              /\ \A m \in waiting : Slot(q, cost[ClosestNode(q)]) <= Slot(q, cost[m])
              /\ IsQueue(AfterClosest(q), N)
              /\ Holds(AfterClosest(q), waiting \ {ClosestNode(q)}, cost)
              /\ AfterClosest(q).lo = q.lo /\ AfterClosest(q).hi = q.hi
  <1>. DEFINE i == NextFilled(q)
              n == ClosestNode(q)
  <1>1. IsFilled(q) => waiting # {}
    <2>. SUFFICES ASSUME NEW j \in q.curr..q.hi, q.at[j] # << >>
                  PROVE  waiting # {}
      BY DEF IsFilled
    <2>1. j \in q.lo..q.hi /\ q.at[j] \in Seq(N)
      BY DEF IsQueue
    <2>2. 1 \in DOMAIN q.at[j]
      BY <2>1
    <2>. QED BY <2>1, <2>2 DEF Holds
  <1>2. waiting # {} => IsFilled(q)
    BY LeastCostFirst
  <1>. SUFFICES ASSUME waiting # {}
                PROVE  /\ n \in waiting
                       /\ \A m \in waiting : Slot(q, cost[n]) <= Slot(q, cost[m])
                       /\ IsQueue(AfterClosest(q), N)
                       /\ Holds(AfterClosest(q), waiting \ {n}, cost)
                       /\ AfterClosest(q).lo = q.lo /\ AfterClosest(q).hi = q.hi
    BY <1>1, <1>2
  <1>3. /\ i \in q.lo..q.hi /\ q.at[i] \in Seq(N) /\ q.at[i] # << >>
        /\ \A j \in q.curr..q.hi : q.at[j] # << >> => i <= j
    BY <1>2, FirstFilled DEF IsQueue
  <1>4. 1 \in DOMAIN q.at[i] /\ n = q.at[i][1]
    BY <1>3 DEF ClosestNode
  <1>5. n \in waiting /\ Slot(q, cost[n]) = i
    BY <1>3, <1>4 DEF Holds
  <1>6. ASSUME NEW m \in waiting PROVE i <= Slot(q, cost[m])
    <2>1. Slot(q, cost[m]) \in q.lo..q.hi
      BY SlotIndex
    <2>2. q.at[Slot(q, cost[m])] # << >>
      BY DEF Holds
    <2>3. Slot(q, cost[m]) >= q.curr
      BY <2>1, <2>2 DEF Holds, IsQueue
    <2>. QED BY <1>3, <2>1, <2>2, <2>3 DEF IsQueue
  <1>7. /\ IsQueue(AfterMin(q, n), N) /\ Holds(AfterMin(q, n), waiting \ {n}, cost)
        /\ AfterMin(q, n).lo = q.lo /\ AfterMin(q, n).hi = q.hi
    BY <1>2, <1>5, TakenFromFirst
  <1>. QED BY <1>5, <1>6, <1>7 DEF AfterClosest
=============================================================================
