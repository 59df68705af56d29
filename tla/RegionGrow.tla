----------------------------- MODULE RegionGrow -----------------------------
(***************************************************************************)
(* What snaphu makes of a solution: GrowConnCompsMask() finds the          *)
(* connected components it trusts, GrowRegions() cuts a tile into reliable *)
(* regions (snaphu_tile.c).  Both grow from the first pixel that has no    *)
(* number yet, over arcs where another cycle of flow would be expensive;   *)
(* a component takes only arcs above a threshold, a region takes the best  *)
(* arcs until it is big enough, or is merged with the closest one.         *)
(***************************************************************************)
EXTENDS GridNetwork, BucketQueue, ArcCosts

CONSTANTS
  ConnCompThresh, MinConnCompSize, MaxNComps,    \* of components
  TileCostThresh, MinRegionSize,                 \* of regions
  NotReached                                     \* VERYFAR

\* CheckParams() and SetupTile() refuse other parameters.
ASSUME GrowAssumption ==
    /\ {ConnCompThresh, TileCostThresh} \subseteq Int
    /\ {MinConnCompSize, MinRegionSize} \subseteq 0..NRow * NCol
    /\ MaxNComps \in Nat \ {0}
    /\ NotReached \in Nat /\ NotReached > LargeShort

VARIABLES
  what, gpc,                        \* which of the two, and where it is
  arcdist,                          \* negcost: how far apart an arc's pixels are
  regions,                          \* incost: the number of each pixel, or -1
  outcost, queue,
  regioncounter, regionsizes,
  closest, lastfromdist             \* of regions only

growvars == <<what, gpc, arcdist, regions, outcost, queue, regioncounter, regionsizes,
              closest, lastfromdist>>

-----------------------------------------------------------------------------
\* How far apart the pixels beside an arc are.

\* What is stored in a short.
Short(x) == ((x + 32768) % 65536) - 32768

\* What a cycle of flow would cost less than the threshold, if it would.
Doubt(k, f, thresh) ==
    LET up == GetCost(k, f, 1, 1)
        down == GetCost(k, f, -1, 1)
        less == Short(thresh - (IF down < up THEN down ELSE up))
    IN  IF less < 0 THEN 0 ELSE less

\* The arcs before and after an arc that go the same way.
InLine(a) ==
    IF a \in RowArcs THEN RowArcs \cap {<<a[1], a[2] - 1>>, <<a[1], a[2] + 1>>}
    ELSE ColArcs \cap {<<a[1] - 1, a[2]>>, <<a[1] + 1, a[2]>>}

\* A quotient rounded to the nearest integer, to the even one if there are two.
Rint(t, n) ==
    LET down == t \div n
        over == 2 * (t % n)
    IN  IF over > n \/ (over = n /\ down % 2 = 1) THEN down + 1 ELSE down

\* ThickenCosts(): a mean of an arc, counted twice, and the arcs in line with it.
Thicken(doubt) ==
    [a \in Arcs |->
        LET near(b) == IF b \in InLine(a) THEN doubt[b] ELSE 0
            dir == IF a \in RowArcs THEN <<0, 1>> ELSE <<1, 0>>
            total == 2 * doubt[a] + near(<<a[1] - dir[1], a[2] - dir[2]>>)
                                  + near(<<a[1] + dir[1], a[2] + dir[2]>>)
            mean == Rint(total, 2 + Cardinality(InLine(a)))
        IN  IF mean > LargeShort THEN LargeShort ELSE mean]

Distances(cost, flow, thresh) == Thicken([a \in Arcs |-> Doubt(cost[a], flow[a], thresh)])

-----------------------------------------------------------------------------
\* The neighbours of a pixel in the order of RegionsNeighborNode(): right, below,
\* left, above.  Some are outside the image.
PixelNeighbors ==
    [p \in Pixels |->
        LET r == p[1]
            c == p[2]
        IN  << [pixel |-> <<r, c + 1>>, arc |-> <<NRow - 1 + r, c>>],
               [pixel |-> <<r + 1, c>>, arc |-> <<r, c>>],
               [pixel |-> <<r, c - 1>>, arc |-> <<NRow - 1 + r, c - 1>>],
               [pixel |-> <<r - 1, c>>, arc |-> <<r - 1, c>>] >>]

Largest(dist) == CHOOSE d \in {dist[a] : a \in Arcs} : \A a \in Arcs : dist[a] <= d

FirstOf(S) == CHOOSE p \in S : \A q \in S : p[1] * NCol + p[2] <= q[1] * NCol + q[2]

Unnumbered == {p \in Pixels : regions[p] < 0}
Region(i) == {p \in Pixels : regions[p] = i}
IsQueued(q, p) == \E i \in q.lo..q.hi : p \in RangeOf(q.at[i])

MinSize == IF what = "regions" THEN MinRegionSize ELSE MinConnCompSize

GrowOff ==
    /\ what = "none" /\ gpc = "idle"
    /\ arcdist = [a \in Arcs |-> 0]
    /\ regions = [p \in Pixels |-> -1] /\ outcost = [p \in Pixels |-> NotReached]
    /\ queue = EmptyQueue(0, 0, 0)
    /\ regioncounter = 0 /\ regionsizes = [i \in 0..NRow * NCol |-> 0]
    /\ closest = [dist |-> NotReached, region |-> 0] /\ lastfromdist = 0

\* Up to the loop over all pixels.  Components need one bucket.
StartGrowing(kind, dist) ==
    /\ what' = kind /\ gpc' = "next"
    /\ arcdist' = dist
    /\ regions' = [p \in Pixels |-> -1] /\ outcost' = [p \in Pixels |-> NotReached]
    /\ queue' = EmptyQueue(0, IF kind = "components" THEN 0
                              ELSE 1 + Largest(dist), 0)
    /\ regioncounter' = IF kind = "components" THEN 0 ELSE -1
    /\ regionsizes' = [i \in 0..NRow * NCol |-> 0]
    /\ closest' = [dist |-> NotReached, region |-> 0] /\ lastfromdist' = 0

\* Mutant of NoneClosest: the distance is kept from the region before.
NoneClosestKept == closest

NoneClosest == [closest EXCEPT !.dist = NotReached]

\* The next pixel without a number is a source.  ClearBuckets() resets the
\* pixels left in the queue, not the one taken off it last.
NextSource ==
    /\ gpc = "next" /\ Unnumbered # {}
    /\ LET p == FirstOf(Unnumbered)
       IN  /\ outcost' = [q \in Pixels |-> IF q = p THEN 0
                                           ELSE IF IsQueued(queue, q) THEN NotReached ELSE outcost[q]]
           /\ queue' = BucketInsert(EmptyQueue(0, queue.hi, 0), p, 0)
    /\ regioncounter' = regioncounter + 1
    /\ regionsizes' = [regionsizes EXCEPT ![regioncounter'] = 0]
    /\ closest' = NoneClosest /\ lastfromdist' = 0
    /\ gpc' = "grow"
    /\ UNCHANGED <<what, arcdist, regions>>

From == ClosestNode(queue)
BigEnough == regionsizes[regioncounter] >= MinSize

\* The closest pixel is farther away than those before it: only then may a
\* region stop growing.
IsFarther == what = "regions" /\ IsFilled(queue) /\ outcost[From] > lastfromdist

MayStop ==
    \/ ~ IsFilled(queue)
    \/ IsFarther /\ (BigEnough \/ outcost[From] > closest.dist)

\* What a component takes next.
MayEnter(q, b) == regions[b.pixel] < 0 /\ arcdist[b.arc] = 0 /\ ~ IsQueued(q, b.pixel)

EnterComponent(w, b) ==
    IF MayEnter(w.queue, b) THEN [w EXCEPT !.queue = BucketInsert(@, b.pixel, 0)] ELSE w

\* A region queues a pixel it reaches over a shorter arc than before.
EnterRegion(w, b) ==
    LET d == arcdist[b.arc]
        filled == BucketInsert(Unlink(w.queue, b.pixel, IsQueued(w.queue, b.pixel),
                                      w.outcost[b.pixel]), b.pixel, d)
    IN  IF d >= w.outcost[b.pixel] THEN w
        ELSE [outcost |-> [w.outcost EXCEPT ![b.pixel] = d],
              queue |-> StartingAt(filled, IF d < filled.curr THEN d ELSE filled.curr),
              closest |-> w.closest]

\* The neighbour is in another region: which of them is the closest?
Compare(w, b) ==
    IF regions[b.pixel] # regioncounter /\ arcdist[b.arc] < w.closest.dist
    THEN [w EXCEPT !.closest = [dist |-> arcdist[b.arc], region |-> regions[b.pixel]]] ELSE w

Look(w, from, i) ==
    LET b == PixelNeighbors[from][i]
    IN  IF b.pixel \notin Pixels THEN w
        ELSE IF what = "components" THEN EnterComponent(w, b)
        ELSE IF regions[b.pixel] >= 0 THEN Compare(w, b) ELSE EnterRegion(w, b)

LookRound(w, from) == Look(Look(Look(Look(w, from, 1), from, 2), from, 3), from, 4)

\* The closest pixel becomes part of the region.
TakeNode ==
    /\ gpc = "grow" /\ IsFilled(queue) /\ ~ MayStop
    /\ LET w == LookRound([outcost |-> outcost, queue |-> AfterClosest(queue), closest |-> closest],
                          From)
       IN  outcost' = w.outcost /\ queue' = w.queue /\ closest' = w.closest
    /\ regions' = [regions EXCEPT ![From] = regioncounter]
    /\ regionsizes' = [regionsizes EXCEPT ![regioncounter] = @ + 1]
    /\ lastfromdist' = outcost[From]
    /\ UNCHANGED <<what, gpc, arcdist, regioncounter>>

StopGrowing ==
    /\ gpc = "grow" /\ MayStop
    /\ queue' = IF IsFilled(queue) THEN AfterClosest(queue) ELSE queue
    /\ UNCHANGED <<what, arcdist, outcost, closest, lastfromdist>>

RegionComplete ==
    /\ StopGrowing /\ BigEnough
    /\ gpc' = "next"
    /\ UNCHANGED <<regions, regioncounter, regionsizes>>

\* MergeRegions(): a region of its own number would be walked for ever.
MergeRegions ==
    /\ StopGrowing /\ ~ BigEnough /\ what = "regions"
    /\ regions' = [p \in Pixels |-> IF regions[p] = regioncounter THEN closest.region
                                    ELSE regions[p]]
    /\ regionsizes' = [regionsizes EXCEPT ![closest.region] = @ + regionsizes[regioncounter]]
    /\ regioncounter' = regioncounter - 1
    /\ gpc' = IF closest.region = regioncounter THEN "merging" ELSE "next"

\* A component that is too small is none: RenumberRegion() with zero.
DropComponent ==
    /\ StopGrowing /\ ~ BigEnough /\ what = "components"
    /\ regions' = [p \in Pixels |-> IF regions[p] = regioncounter THEN 0 ELSE regions[p]]
    /\ regioncounter' = regioncounter - 1
    /\ gpc' = "next"
    /\ UNCHANGED regionsizes

-----------------------------------------------------------------------------
\* Too many components: the size of the MaxNComps-th largest is the least that
\* is kept, but of those of that size the first ones go if there are too many.
AsBig(s) == Cardinality({i \in 1..regioncounter : regionsizes[i] >= s})

LeastKept ==
    CHOOSE s \in {regionsizes[i] : i \in 1..regioncounter} :
        AsBig(s + 1) < MaxNComps /\ MaxNComps <= AsBig(s)

\* Mutant of IsKept: all of the least size are kept.
IsKeptTied(i, least) == regionsizes[i] >= least

IsKept(i, least) ==
    \/ regionsizes[i] > least
    \/ /\ regionsizes[i] = least
       /\ Cardinality({j \in 1..i - 1 : regionsizes[j] = least}) >= AsBig(least) - MaxNComps

\* The components kept are numbered again in the order of their first pixels,
\* which is that of their numbers.
Renumbered ==
    LET least == LeastKept
        kept == {i \in 1..regioncounter : IsKept(i, least)}
    IN  [p \in Pixels |-> IF regions[p] \in kept
                          THEN Cardinality({i \in kept : i <= regions[p]}) ELSE 0]

FinishGrowing ==
    /\ gpc = "next" /\ Unnumbered = {}
    /\ regions' = IF what = "components" /\ regioncounter > MaxNComps THEN Renumbered ELSE regions
    /\ gpc' = "idle"
    /\ UNCHANGED <<what, arcdist, outcost, queue, regioncounter, regionsizes, closest, lastfromdist>>

Grow == NextSource \/ TakeNode \/ RegionComplete \/ MergeRegions \/ DropComponent \/ FinishGrowing

\* One growth after another, from any distances Distances() gives.
GrowNext ==
    \/ Grow
    \/ /\ gpc = "idle"
       /\ \E kind \in {"components", "regions"}, dist \in [Arcs -> 0..LargeShort] :
             StartGrowing(kind, dist)

GrowSpec == GrowOff /\ [][GrowNext]_growvars

-----------------------------------------------------------------------------
\* Properties.

\* The pixels of s that a pixel of it reaches through s over arcs of a set.
Reached(p, s, arcs) ==
    LET next(t) == t \cup UNION {{b.pixel : b \in {b \in RangeOf(PixelNeighbors[q]) :
                                      b.pixel \in s /\ b.arc \in arcs}} : q \in t}
        reach[i \in 0..Cardinality(Pixels)] == IF i = 0 THEN {p} ELSE next(reach[i - 1])
    IN  reach[Cardinality(Pixels)]

\* Between two regions: the numbers are used one after the other, each by as many
\* pixels as the program counts, no fewer than wanted, though regions are merged
\* and numbers used again, and in the end by every pixel; and no region is merged
\* with itself, which would never end.
RegionsCounted ==
    /\ gpc # "merging"
    /\ what = "regions" /\ gpc # "grow" =>
         /\ \A p \in Pixels : regions[p] \in -1..regioncounter
         /\ \A i \in 0..regioncounter :
              /\ regionsizes[i] = Cardinality(Region(i))
              /\ regionsizes[i] >= MinRegionSize
              /\ Region(i) # {}
         /\ gpc = "idle" => Unnumbered = {}

\* All that, and the pixels of a region hang together.
RegionsSound ==
    /\ RegionsCounted
    /\ what = "regions" /\ gpc # "grow" =>
         \A i \in 0..regioncounter : Reached(FirstOf(Region(i)), Region(i), Arcs) = Region(i)

\* The connected components are the largest sets of pixels held together by arcs of
\* which no cycle is cheaper than the threshold, none too small, not more than
\* wanted, numbered from one in the order of their first pixels.
ComponentsLargest ==
    what = "components" /\ gpc = "idle" =>
      LET sure == {a \in Arcs : arcdist[a] = 0}
          big == {c \in {Reached(p, Pixels, sure) : p \in Pixels} :
                    Cardinality(c) >= MinConnCompSize}
          kept == {Region(regions[p]) : p \in {q \in Pixels : regions[q] # 0}}
      IN  /\ kept \subseteq big
          /\ Cardinality(kept) = IF Cardinality(big) < MaxNComps THEN Cardinality(big) ELSE MaxNComps
          /\ \A c \in kept, d \in big \ kept : Cardinality(d) <= Cardinality(c)
          /\ \A p \in Pixels : regions[p] # 0 =>
               regions[p] = Cardinality({c \in kept :
                  LET f == FirstOf(c)
                      g == FirstOf(Region(regions[p]))
                  IN  f[1] * NCol + f[2] <= g[1] * NCol + g[2]})
=============================================================================
