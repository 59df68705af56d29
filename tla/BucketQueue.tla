---------------------------- MODULE BucketQueue ----------------------------
(***************************************************************************)
(* The bucket queue of the network solver (bucketT in snaphu.h, the bucket *)
(* functions of snaphu_solver.c): lists of nodes indexed by a cost, with   *)
(* an underflow list at the lowest index and an overflow list at the       *)
(* highest, and an index curr below which every list is empty.  The links  *)
(* next and prev of the nodes in a list are the order of a sequence.       *)
(***************************************************************************)
EXTENDS Integers, Sequences

\* A queue: its lowest and highest index, the lists, and where to look first.
Queue(lo, hi, at, curr) == [lo |-> lo, hi |-> hi, at |-> at, curr |-> curr]

EmptyQueue(lo, hi, curr) == Queue(lo, hi, [i \in lo..hi |-> << >>], curr)

\* The index of the list that holds a node of cost c.
Slot(q, c) == IF c >= q.hi THEN q.hi ELSE IF c > q.lo THEN c ELSE q.lo

\* The queue with another list at an index; with another index to start from.
WithList(q, i, list) == Queue(q.lo, q.hi, [q.at EXCEPT ![i] = list], q.curr)
StartingAt(q, i) == Queue(q.lo, q.hi, q.at, i)

BucketInsert(q, n, i) == WithList(q, i, <<n>> \o q.at[i])

Without(list, n) ==
    LET k == CHOOSE k \in DOMAIN list : list[k] = n
    IN  [j \in 1..Len(list) - 1 |-> IF j < k THEN list[j] ELSE list[j + 1]]

BucketRemove(q, n, i) == WithList(q, i, Without(q.at[i], n))

\* Takes the node off the list of its old cost, if it is on one.
Unlink(q, n, queued, old) ==
    IF queued THEN BucketRemove(q, n, Slot(q, old)) ELSE q

\* Mutant of Link: curr is left where it is.
LinkKeepsCurr(q, n, c) == BucketInsert(q, n, Slot(q, c))

\* Puts the node on the list of its cost; curr follows a lower one, which an
\* overflowing cost never is.
Link(q, n, c) ==
    LET i == Slot(q, c)
    IN  StartingAt(BucketInsert(q, n, i), IF i < q.hi /\ i < q.curr THEN i ELSE q.curr)

\* The first list that is not empty, from curr on; hi when there is none.
NextFilled(q) ==
    LET filled == {i \in q.curr..q.hi : q.at[i] # << >>} IN
    IF filled = {} THEN q.hi ELSE CHOOSE i \in filled : \A j \in filled : i <= j

\* The node MinOutCostNode() returns: the first of its list, or, in the
\* underflow and the overflow list, the first of those of least cost.
MinOutCostNode(q, cost) ==
    LET i    == NextFilled(q)
        list == q.at[i]
        k    == IF i \in {q.lo, q.hi}
                THEN CHOOSE j \in DOMAIN list :
                       /\ \A m \in DOMAIN list : cost[list[j]] <= cost[list[m]]
                       /\ \A m \in 1..(j - 1) : cost[list[j]] < cost[list[m]]
                ELSE 1
    IN  list[k]

\* The queue once that node has been taken.
AfterMin(q, n) == StartingAt(BucketRemove(q, n, NextFilled(q)), NextFilled(q))

IsFilled(q) == \E i \in q.curr..q.hi : q.at[i] # << >>

\* ClosestNode() takes the first node of the first list that is not empty.
ClosestNode(q) == Head(q.at[NextFilled(q)])

AfterClosest(q) == AfterMin(q, ClosestNode(q))

-----------------------------------------------------------------------------
\* What holds between two operations: the nodes of a set are on the list of
\* their cost, no other node and no node twice is on any, and there is none
\* before the index the search starts from.
Holds(q, waiting, cost) ==
    /\ \A i \in q.lo..q.hi :
         /\ \A j \in DOMAIN q.at[i] : /\ q.at[i][j] \in waiting
                                     /\ Slot(q, cost[q.at[i][j]]) = i
         /\ \A j, k \in DOMAIN q.at[i] : q.at[i][j] = q.at[i][k] => j = k
         /\ i < q.curr => q.at[i] = << >>
    /\ \A n \in waiting : \E j \in DOMAIN q.at[Slot(q, cost[n])] : q.at[Slot(q, cost[n])][j] = n
=============================================================================
