# GMTSAR: a verification project

This directory holds TLA+ models of the parts of GMTSAR whose correctness rests
on the order in which things happen, the TLC configurations that model-check
them on small instances, and TLAPS proofs of the properties that matter most,
for every value of the constants.

Contents: 1 the system, 2 the plan, 3 the modules and the code, 4 the runs, 5 the
proofs, 6 fairness and other assumptions, 7 findings, 8 what is not modelled.

## 1. Inventory

GMTSAR turns pairs of raw or single-look-complex radar images into
interferograms. It is a collection of stand-alone programs which communicate
through files in one directory tree, driven by shell (or Python) scripts.

### 1.1 Components

| component | where | state it keeps | operations |
|---|---|---|---|
| snaphu driver | `snaphu/src/snaphu.c` `Unwrap`, signal handlers in `snaphu_util.c` | tile cursor, child counter, signal handlers, iteration number | fork a child for a tile, skip a masked tile, wait for a child, assemble, re-optimize as one tile, die with the whole group |
| snaphu tile geometry | `snaphu_tile.c` `SetupTile`, `SetTileReadParams`; `snaphu_io.c` `CheckParams` | none: sizes computed in four places | cut the image into overlapping tiles, put it together again |
| snaphu tile assembly | `snaphu_tile.c` `AssembleTiles`, `ReadNextRegion`, `ReadEdgesAboveAndBelow`, `Set*Edge`, `AssembleTileConnComps`, `IntegrateSecondaryFlows` | the tile directory; rotating buffers, bulk offsets, seam flows, component table | read, trace, count, renumber, shift, write, unlink |
| snaphu optimizer loop | `snaphu.c` `UnwrapTile`, `snaphu_tile.c` `AssembleTiles` | flow increment, number of increments done, best cost | next flow increment, stop when done, give up |
| snaphu signal dumps | `snaphu_util.c` `SetDump`, `snaphu_solver.c` `TreeSolve`, `snaphu.c` `UnwrapTile` | dump and stop flags, cost arrays, the output file | dump on SIGHUP, dump and stop on SIGINT |
| snaphu secondary network | `snaphu_tile.c` `TraceRegions`, `TraceSecondaryArc`, `ParseSecondaryFlows` | nodes, arcs and costs on the region boundaries | trace, build, parse flows |
| snaphu network solver | `snaphu_solver.c` `TreeSolve` and what it calls | the flows, the spanning tree with its thread, potentials and apexes, the bucket queue, the candidate arcs, the node groups and masks | select the regions, make a boundary node, grow the tree, pivot, push flow round a cycle, prune, balance the edge of a region |
| snaphu MST initialization | `snaphu_solver.c` `MSTInitFlows`, `SolveMST`, `DischargeTree`, `ClipFlow` | residues, flows, scalar costs, the queue | connect the residues, discharge them, clip the flows |
| snaphu MCF initialization | `snaphu_cs2.c` | a minimum-cost-flow network | refine, price update |
| snaphu region growing | `snaphu_tile.c` `GrowRegions`, `GrowConnCompsMask` | region of every node | grow, merge, renumber, limit the number |
| snaphu costs | `snaphu_cost.c` | cost arrays | build statistical costs, incremental costs |
| SAR kernels | `gmtsar/*.c` | arrays of one image or pair | focus, correlate, resample, interfere, filter |
| time series | `gmtsar/sbas*.c` | least-squares systems | invert a stack of interferograms |
| parameter files | `gmtsar/update_PRM_sub.c`, `get_params.c` | one PRM file | rewrite a value, read all |
| preprocessors | `preproc/*` | one scene | decode a sensor's format to SLC, PRM and LED files |
| csh pipeline | `gmtsar/csh/*` | the directory tree: raw, SLC, topo, intf | the six stages of `p2p_processing.csh`, batch and parallel variants |
| Python port | `gmtsar/python/*` | the same tree | the same stages, kernels and tests |

Nearly all control of interest is in snaphu, the phase unwrapper: it is the only
program that forks, waits, traps signals, keeps a directory of intermediate files
it may find again and runs an optimizer whose end is a matter of counters. The
SAR kernels are sequential floating-point programs. The scripts are next: stages
over shared directories, some of them run in parallel.

### 1.2 How they interact

- *fork, wait, exit status.* `Unwrap` forks one child per tile and learns of a
  child only through `wait()`. Parent and child share nothing in memory.
- *signals.* A parent that is told to go, or finds a child gone badly, sends
  SIGTERM to its process group. A child forked a moment ago still has its
  parent's handler. In a single-tile run SIGHUP and SIGINT reach the solver
  through two global flags.
- *files.* Children leave phase, cost, region, component and log files in the
  tile directory; the parent reads and removes them. The directory outlives a run
  with `-k`, with `--assemble`, or when a run dies. Under `-S` the assembled
  result is a temporary file between the two iterations of one run.
- *calls.* `UnwrapTile` and `AssembleTiles` both drive `TreeSolve` with a loop
  over flow increments. `AssembleTiles` passes over the tiles three or four times.

### 1.3 What is hard

| behaviour | where it is hard | where it is treated |
|---|---|---|
| interleaving of parent, children and signals | a child may die while others are forked, while it still has the parent's handler, or while the parent is in `wait()` | TileUnwrap |
| counters that decide an exit | `--nchildren==0`, `nflowdone>=...`, `nnondecreasedcostiter>=...` | TileUnwrap, FlowLoop |
| files left by an earlier run | masked tiles, `--assemble`, `-S` with a process id used before | TileUnwrap |
| files removed while they are still needed | four functions unlink, a neighbour's turn reads | TileAssembly |
| values carried from one tile to the next | buffers, sizes, bulk offsets, scratch tables | TileAssembly |
| boundaries of arithmetic | tile size rounded up, overlap halved up and down | TileGeometry |
| signals at every step | flags set by a handler and cleared by the solver | SolverSignals |
| a loop that must end | costs that are re-estimated, zero flow, uninitialized count | FlowLoop |
| values repaired only where they can have changed | after a pivot: potentials, levels, apexes, candidates, told by group numbers | TreeSolve |
| a queue that may run empty | the tree must never grow from an empty queue; costs outside its range | BucketQueue, TreeSolve |
| regions solved one after another on shared arrays | masks set for a region and taken back, edges balanced after it | NodeRegions, TreeSolve |
| pivots that must end | costs that are not convex, rounded costs, pivots that push nothing | TreeSolve |
| a loop over what the last round left | clipping of flows, residues not reset | MSTInit |
| numbers and distances used again | merged regions, a queue cleared in part, components renumbered in place | RegionGrow |

The full list, with source lines, is under `hazards` in `PROJECT.json`.

### 1.4 What makes each component correct

- *driver*: never more than `--nproc` live children; the counter is exact; the
  result is assembled only when every selected tile is done; children do not
  outlive their parent; a run ends; exit status 0 means a complete output.
- *geometry*: the result's lines are the image's, once each and in order; every
  tile has lines of its own that lie in its file; seams are where both
  neighbours think they are.
- *assembly*: no pass needs a file an earlier one removed; both tiles of a seam
  see the same flows, and these are the discontinuities of the result;
  components are numbered by size over all tiles; what should go is gone.
- *optimizer loop*: it stops as done only when no increment in use has a
  negative cycle; it gives up only if the cost has stalled; it ends.
- *solver*: the tree stays a tree and its thread a preorder of it; potentials and
  apexes are what the tree says after every pivot; no cycle that pays and no
  shorter way is left when it says so; flow is conserved, the cost falls, it ends.
- *MST initialization*: its flows balance the residues.
- *region growing*: every pixel in one region, regions whole, numbered without
  gaps and large enough; components are the largest of those the costs vouch for.
- *signals*: a hangup is answered before the next pass; costs are freed only by
  a run that stops; every normal exit leaves a complete output.

## 2. Plan

| stage | modules | abstract specification | theorems |
|---|---|---|---|
| 1 (done) | TileUnwrap (+ TileMode), FlowLoop, SolverSignals, TileGeometry, TileAssembly | TileMode: what a tile-mode run promises | invariants of the first four |
| 2 (done) | BucketQueue; GridNetwork, ArcCosts, NodeRegions; TreeSolve, MSTInit, RegionGrow; UnwrapTile, which composes the last three | the queue as a set of waiting nodes with costs; conservation of flow | the queue's operations |
| 3 (done) | proofs about TileUnwrap, TileAssembly and RegionGrow | TileMode, implemented by TileUnwrap | the refinement; what the passes rely on, their files and component numbers, for every grid; regions whole and large enough, merges that end; components complete and the largest kept |
| 4 (done) | MSTInit step by step, NodeRegions and MSTInit with recursive functions in place of RECURSIVE operators | | the initial tree connects the residues; the walk over it leaves no charge; the flows balance unless clipped |
| 5 (next) | TreeSolve with recursive functions in place of RECURSIVE operators | | tree and flow conservation through a pivot |

Composition: TileAssembly is what TileUnwrap's three actions AssembleReads,
RemoveTile and AssembleWritten abstract; TileGeometry justifies TileAssembly's
view of tiles that meet in seams of equal length; FlowLoop's secondary loop runs
between TileAssembly's first and second pass; UnwrapTile hands the flows of
MSTInit to TreeSolve, one iteration of FlowLoop, and those it leaves to RegionGrow. TileUnwrap, TileAssembly and
UnwrapTile are modules of their own because the product of their states would
show nothing the parts do not.

Modules that are proved about declare no RECURSIVE operator, keep parameters in
CONSTANTS with named assumptions, and state their invariants as conjunctions of
named parts, so that a proof step can name the part an action may disturb.

## 3. Modules and code

`PROJECT.json` maps each definition to its lines; this is the outline.

**TileUnwrap** is `Unwrap()` with the handlers of `snaphu_util.c`. `pc` is where the
parent is: `iter` (top of the `optiter` loop), `loop` and `count` (the parallel
loop before `fork()` and between `fork()` and the parent's bookkeeping), `serial`
and `tile` (the loop of `--nproc 1`), `assemble`, `assembling`, `single`,
`singlewrite` (the second iteration of `-S`), `iterend`, `dead`. `child[t]` goes from
`none` through `born` (parent's handler still in place), `running`, `writing`,
`written` to the zombies `ok` and `bad` and to `reaped`. Each step of a child is
its own action, so a signal falls between any two. A file is absent, partial,
new (of this run) or old; a file's name carries the process id under `-S`. Faults are a
bounded number of: a child that fails, a signal to a child or to the parent,
`fork()` that fails (which SIGKILLs the group), a parent that fails or is killed.
`wait()` without children returns -1 and leaves `childstatus` unwritten, so the
first such test may go either way. `Restart` starts another invocation on the
files the last one left.

**TileMode** is the abstract specification: a run works on some of the selected
tiles at a time, at most as many as it has workers, finishes each once, then
assembles, and ends done or failed. `TileUnwrap!ImplementsTileMode` is the
refinement: parallel, serial and assemble-only runs all implement it.

**FlowLoop** has one action, an iteration of the loop: `Solve` (TreeSolve from all
sources for one increment), `EvaluateCost`, `CountIncrement`, then one of the three
ends `GiveUp`, `Done`, `NextIncrement`, in the code's order. The constant `Loops`
chooses the loop of `UnwrapTile`, the one of `AssembleTiles`, or both. TreeSolve is
abstracted to what the loop relies on: it settles the increment it was given and
may unsettle others; with `exact` costs an augmentation lowers the total.

**SolverSignals** is a single-tile run as the handlers see it: between passes, at
the test of the dump flag, while costs are freed, while the dump is written,
at the test of the stop flag, at the clearing of the dump flag, in a pass, in the
final write. `Interrupt` and `Hangup` are enabled at every one.

**TileGeometry** has the sizes of `SetupTile`, `SetTileReadParams`,
`ReadEdgesAboveAndBelow` and the acceptance test of `CheckParams` as operators, in
one dimension (columns are computed by the same expressions), and one action:
writing one tile row of the result.

**TileAssembly** is `AssembleTiles` and what it calls. A record `run` holds the grid,
the options and the tiles; the passes are `read`, `edges`, `trace` (per tile), `count`,
`sort`, `map` (components), `integrate`, `clean`. The buffers hold the tile whose
data were read into them; the phase of a tile is its number of cycles along each
edge, with a slip on some arcs of a seam. The four `Set*Edge` functions are
`UpperFlows`, `LowerJumps`/`BulkBelow`, `LeftFlows` and `RightJumps`/`RightOffset`,
evaluated in the code's order within TraceRegions. A missing file ends the
program. Sorting leaves components of equal size in any order, as `qsort` does.
An uninitialized offset holds `Uninit`.

**GridNetwork** is the network: nodes between the pixels and one ground node, arcs
between them as `SetupTreeSolveNetwork` numbers them, the walks of `NeighborNode`
and `GetArc`, and what a mask of pixels does to arcs and nodes. **ArcCosts** is the
cost of an arc as the deformation mode has it (a parabola, flat beyond a shelf)
and the incremental cost of a push, rounded and clipped as `CalcCostDefo` and
`ReCalcCost` do. **BucketQueue** is the bucket queue: a list per cost, an underflow
and an overflow list, and the index the search starts from; `AddNewNode`,
`MinOutCostNode` and `ClosestNode` use it. **NodeRegions** has the regions, their
sources, the boundary node of a region inside masked pixels (`InitBoundary`,
`CheckBoundary`) and the balancing of a region's edge (`DischargeBoundary`).

**TreeSolve** is the solver for one flow increment. `pc` is `select` (the sources),
`region` (the next one), `grow` (a node is taken off the queue and its arcs are looked
at), `candidates` (the bag is sorted into the list; each candidate is tried),
`finish` (the region's edge, the masks), `done` or `failed` (an aborting check). One
action is one iteration of the code's loops; within it the network is a record
that the functions hand on in the code's order. A pivot is `CycleOf`, `MarkPaths`
(the push, the groups of the two paths), `LeavingNode`, `SidesOf`, `UpdateCycle`,
`Exchange` (`Remount`, `ResetApexes`) and `CheckOthers`. The linked thread is a sequence.
Equal candidates may be tried in any order, as `qsort` leaves them.

**MSTInit** is the initialization. `stage` is where `MSTInitFlows()` or a function it calls
is: `solve` (the loop looks for a source: `StartTree` or `NoResidue`), then in `SolveMST()`
`grow` (`TakeClosest` takes a node off the queue), `mark` (`MarkPath` marks one arc of the path
back from a residue and puts its node at distance zero) and `scan` (`ScanArc` looks at one
arc); then `discharge` (`StartDischarge`, one arc of the walk at a time by `FollowArc`, to the end,
`Discharged`), where `nodecost` holds the charges, as the code keeps them in `outcost`; then `clip`
(`ClipFlow` caps flows above a limit, adds the excess to the residue at the start of the arc and
subtracts it at the end, testing the range at each of the two, `PutBack`, and raises the cost of the arc) and the next round, `done`, or `aborted`.

**RegionGrow** has both `GrowConnCompsMask` and `GrowRegions`; `what` says which. `gpc` is
`next` (the loop over pixels: `NextSource`, or `FinishGrowing` when all have a number),
`grow` (`TakeNode` takes one pixel off the queue; `RegionComplete`, `MergeRegions` and
`DropComponent` end the region) or `idle`; `merging` is the walk that would not end. The
distances are made from the flows as `ThickenCosts` does, rounding to even and
wrapping to shorts included. `NextSource` resets what `ClearBuckets` does: the pixels
left in the queue, not the one last taken off it. `Renumbered` keeps the largest
components, and of those of equal size the last. UnwrapTile starts a growth where the program
does; `GrowSpec`, which the proofs are about, starts one from any distances.

**UnwrapTile** composes the three: `InitFlows` until the tree has flows that balance the
residues, `HandOver`, `SolveNetwork`; with unwrapped input the solver starts from the
flows it brings, or, with `-G`, nothing is solved and the components are grown from
them. `GrowConnCompsMask` and `GrowRegions` start the growth.

MC modules (MCTileUnwrap, MCFlowLoop, MCTileAssembly, MCUnwrapTile, MCMSTInit) hold the sets the
configurations give to constants. Proof modules are named after the module they
prove about. Operators marked "Mutant of X" are plausible wrong versions of X;
each property of a passing run is violated when one of them takes X's place.

## 4. Runs

| run | bounds | distinct states | what it shows |
|---|---|---|---|
| `tile_run` | 2 x 2 tiles, `--nproc` 1 or 2, every mask, `-S` and `--assemble`, one fault | 24 700 | process limit, exact counter, assembly after the tiles, children follow their parent, every run with work ends, refinement of TileMode |
| `tile_reruns` | 1 x 2 tiles, two invocations, two process ids, `-k` too, one fault, SIGKILL | 96 032 | exit 0 has an output, the temporary result outlives its use, skipped tiles are not touched |
| `tile_no_tile` | 2 x 2 tiles, mask without a tile | violation | EveryRunEnds is violated (finding 1) |
| `flow` | maxflow 3, flows to 4, costs to 3, both loops, inexact costs, ignored cycles | 106 279 | what is settled when the loop is done, when it gives up, that it ends |
| `flow_uninit` | secondary loop, nflowdone starts at anything | violation | DoneMeansSettled is violated (finding 2) |
| `flow_give_up` | secondary loop | violation | GivesUpOnlyIfStalled is violated (finding 3) |
| `signals` | three passes, four signals | 2 490 | hangups are dumped, costs held, exits complete |
| `signals_interrupt` | the same | violation | InterruptHonoured is violated (finding 4) |
| `geometry` | all accepted grids of up to 40 lines and 6 tiles | 15 507 | the result is seamless, every tile has its own lines |
| `assemble` | grids 1 x 3, 3 x 1, 2 x 3, 3 x 2, 3 x 3; slips on 1, 2 or 3 of 3 arcs; components of 0 to 2 pixels; each kind of file missing | 168 555 | buffers, offsets, seam flows, numbers and files agree over the passes |
| `unwrap_tile` | 4 x 5 pixels, four masks, five patterns of flow, three sets of costs, increments 1 and 2, flows found or brought, then at most 2 components of 3 pixels or more and regions of 4 or more | 39 391 | tree, potentials, apexes and queue through every pivot; nothing that pays is left; flow is conserved; regions and components are what they should be; every tile is finished |
| `mst_clip` | 3 x 4 pixels, every pattern of residues -1, 0 and 1, arcs of cost 1, limit 2 on the flows | violation | ResiduesMakeUp is violated (finding 5) |

Why the bounds are enough. *Tiles*: 2 x 2 has a row to wrap, a tile still to fork
while both slots are taken, and with two slots every order of two live children;
a third slot adds no new relation. One fault is followed by every reaction of the
code, and a fault of a reaction is again the death of the parent. *Reruns*: a third
invocation finds only what the second left, and files are merely old or new;
two process ids may differ or recur. *Increments*: three increments suffice for
the one in hand, one before and one after; flow one above maxflow covers the
largest flow being beyond the parameter; costs to 3 let the total fall and rise
again. *Signals*: four signals are more than one of each kind in one round of the
dump; a pass more repeats the same flags. *Geometry*: 40 lines and 6 tiles include
all remainders of the divisions; the theorems cover the rest. *Assembly*: three
columns make all three buffers rotate through a full row and into the next; three
arcs are the least for which a mode can differ from the rest; 3 x 3 has a tile
with four neighbours. In 3 x 2 and 3 x 3 grids the phase is one slope, with every
slip; all phases are tried on 2 x 3. *Solver*: twelve grid nodes and the ground
node make trees six levels deep, in which a pivot turns over a path of several nodes
and leaves subtrees on both sides; the masks give a region with a boundary node, a
region beside the image's edge, two regions and nodes of a single arc. Costs with
shelves make arcs that are not convex, the group counter starts again at 12
instead of 1.5 billion (`MaxGroupBase`), buckets -3 to 8 leave costs for the underflow and
overflow lists, and pruning comes every second time with a low threshold. *Regions*: on the
same images regions stop because they are large enough, because another region is
closer and because nothing is left to reach; some are merged; components are dropped
for their size, for their number, and among equals.

`CHECK_DEADLOCK FALSE` is given where the program really stops (the process has
exited, the loop is left, the result is written). In `unwrap_tile` it is not: a state in
which no part can go on would be an error.

## 5. Proofs

All are for every value of the constants that satisfies the named assumptions.

**TileUnwrapProofs** (`Invariance`, `BoundedConcurrency`, `ExactCount`,
`AssemblyWaits`, `Outcome`, `NormalExit`, `TileInitKept`, `SkippedKept`, `Implementation`). "The counter is exact" is not inductive: whether a wait may bring
the counter to 0 depends on which tiles have a child. `IInv` says which: *Fresh*
(tile mode begins with the cursor at the first tile and no child), *Passed* (in
the loop, the tiles with a child are the selected ones before the cursor, and the
tile under it between `fork()` and the bookkeeping), *NoChildElsewhere* (outside
the loop no child is left unless the parent died in it), *Counted* (cardinality of the
unreaped children against the counter, and the counter's range), *Written* (a child that
has finished has left its file complete) and *SerialPassed* (the same for
`--nproc 1`). At the exit of the loop the counter is 0, so by *Counted* nobody is
unreaped, by *Passed* every selected tile has been waited for, and by *Written* its
file is new. Cardinalities use the library's theorems on finite sets.

How a run ends needs a second invariant over the first one, `OInv`: *Ended* (a run has
an exit status exactly when it is over), *Asked* (only a selected tile gets a process or
is unwrapped by the parent, and never when the run only assembles), *Iterations* (tiles are the first iteration's, the
second is that of `-S`, and at the end of the last one the output is new), *AllFinished* (past the loops every selected tile is finished: the
parallel loop has waited for each, the serial one has passed the last) and
`NormalExitHasOutput` itself. `TileInitOutlived` and `SkippedTilesUntouched` are properties of steps:
in each action either the files they speak of are not touched, or the invariants give
what the property asks. `Implementation` proves that TileUnwrap implements
TileMode, with the mapping the runs check. Initial states map to initial
states; a step of a child, a step of the parent alone, a signal that only changes a flag
map to stutters (`HiddenStep` and the lemmas on it); `fork()` and the serial loop begin a
tile that nobody began, which *Passed* and *Counted* show to be on a free worker;
`wait()` finishes it; the end of the last iteration succeeds, which takes *AllFinished*; a death of
the parent fails the run, and the children that live on change nothing TileMode sees.

**FlowLoopProofs** (`Invariance`, `Settled`, `GivesUp`). The count of settled
increments is tied to the increments themselves by *RecentlySettled*: of the
`nflowdone` increments tried last, all are settled (in the grid loop all but the
oldest, since the largest flow may shrink below the increment in hand in the
iteration that counts it). *CountedStalls* ties the counter of useless iterations to the
history of the total. Both theorems are for the code as it is: `Settled` carries
the condition that the count starts at 0, which the grid loop guarantees, the
secondary loop does not (finding 2); `GivesUp` is about the grid loop, the other
one violates it (finding 3).

**SolverSignalsProofs** (`Invariance`, `CostsHeld`, `HangupsDumped`,
`ExitsComplete`). A hangup's dump is done, due or under way (*HangupPending*); while the
dump flag is being taken back the output is the current solution (*DumpCurrent*);
only a run that will stop has freed its costs (*FreedByStop*).

**TileGeometryProofs** (`Invariance`, `ResultIsSeamless`, `OwnLinesFit`,
`EdgesAreNeighbours`). The work is in arithmetic lemmas: bounds on the rounded-up
quotient give bounds on the step between tiles, from these the last tile's lines,
and the seams follow line by line.

**TileAssemblyProofs** (`Invariance`, `AtHand`, `Agreement`, `Smooth`, `Described`, `TypeCorrect`,
`FilesInvariance`, `FilesOutlast`, `ComponentsInvariance`, `Numbering`), for every
grid, every phase, slip and set of missing files. What a tile finds in the buffers
was put there by another turn of the same pass, or by another pass, so the
invariant says for every position what has been read so far: *Position* (the tile in
hand is in the grid), *Reading* (which tile's data each buffer holds, and which
width, before a tile is read and while it is traced), *Bulks* (the first tile's bulk
offset is zero; no offset is changed once it was used), *Extent* (flows
are noted for exactly the seams of the tiles traced), *Seams* (the flows
on a seam are the jumps of the two phases less the difference of the offsets, with
mode zero where the tile chose its neighbour's offset) and *Integrated* (the offset a
tile is shifted by is its bulk offset, and the next one to use is kept for it). A seam is
described from two sides at two times; *Seams* holds what the first side left for
the second.

The files are the business of `FInv`: *FilesKept* (there is what there was, less what the
passes so far have removed, tile by tile as the pass in hand moves on), *FilesFound* (what was read
was there, and a run that failed misses a file) and *DirectoryKept*. `FilesLast`
follows: no pass removes what another reads. The components are the business of `CInv`: *Listed* (while they are counted,
each component of the tiles passed is in the list once), *SortedList* (then the list is in order,
has as many as there are or may be, and what is not in it comes after all that is)
and *Labelled* (the tiles mapped so far have their places in it). `qsort()` is any bijection that
leaves the list in order, so ties may fall either way, and the numbers are still
right.

**BucketQueueProofs** (`LeastCostFirst`, `Relabelled`, `LeastTaken`, `ClosestTaken`). These are lemmas about
operators, for any number of buckets and any costs: in a queue that holds a set of nodes,
each in the bucket of its cost and none before `curr` (`Holds`, which `FringeQueued`
checks along the runs), the node returned costs no more than any other, and
linking, unlinking and taking a node keep the queue so. They rest on the fact that a
non-empty set of integers bounded below has a least element (`LeastNatural`, `LeastElement`).

**RegionGrowProofs** (`GrowInvariant`, `RegionsAreCounted`, `RegionsAreWhole`,
`RegionsAreSound`, `MergedWithNeighbor`, `LargestComponents`), for tiles of any size. `GrowSpec` is RegionGrow by itself: growths of
either kind one after the other, from any distances in the range of `ThickenCosts()`
(`DistancesInRange`), a superset of those UnwrapTile hands it. Nothing in `MergeRegions()`
itself keeps it from walking for ever; that it ends follows from how regions grow, and
most of the invariant says that. *Between* two regions the older ones are *Settled*: counted,
large enough, in one piece. While one grows, its queue holds exactly the pixels that wait, by
their distances, so that what it takes is beside it (*IsOnItsWay*) and it stays in one piece. Its source
is the first pixel without a number, so the pixel left of it or above it is in an older region, and once the
source is taken the closest region is known and is another one (*IsAtSource*, *IsOnItsWay*). Only
the first region has no other, and it passes no neighbour over (*IsFirstRegion*): it can
only stop too early when nothing waits, then it is the tile, which is large enough. `LookedAround`
follows the four looks of a step, `Relabelled` and `ClosestTaken` carry the queue through
them. The distances left over from the region before do no harm to any of this: from the second
region on, nothing depends on a pixel not being passed over. "In one piece" is kept
by cuts (*IsWhole*: whatever part is taken, there are neighbours on both sides); the property
the run checks walks from the first pixel (`Reached`). What the walk reaches is shown to be the least
set that holds the first pixel and that no neighbour inside the region leads out of (`ReachedIsLeast`), so a
region that cannot be cut is reached as a whole (`WholeIsReached`). The walk is a recursive
function of the number of its steps. The library's induction theorems take an operator and cannot be
used, so each induction on that number looks at the least counterexample, which `LeastNatural` provides.

`LargestComponents` is about `GrowConnCompsMask()`: the components are all that the arcs of distance 0 hold
together, the largest are kept, as many as may be, and they are numbered in the order of
their first pixels. A component is a least non-empty set that no such arc leads out of (`IsComponent`),
which is what a walk from any of its pixels reaches (`ReachedIsComponent`). While one grows, its
pixels and those that wait hang together (*HangsTogether*: a closed set with one of
them has all), and no arc leads from the taken ones to any other; so when nothing waits, it is
closed and least. It then is *Finished*, or too small and dropped (*DroppedAreSmall*). *Leads*
keeps the order: its first pixel comes before all pixels not numbered yet, which makes the numbers
rise with the first pixels. At the end the numbers are replaced by their ranks among those kept
(`RanksCount`); that the threshold and the countdown of ties leave exactly `MaxNComps` of them, and
none smaller than one left out, is `EnoughAreKept`.

**MSTInitProofs** (`TreeInvHolds`, `TreeIsSpanning`, `ShortCostsConnect`, `ChargesDischarged`,
`UnclippedFlowsBalance`), for images of any size, any residues and costs (`InputAssumption`: residues
fit a signed char, the corner arcs cost LARGESHORT, all others less). The invariant `TreeInv` follows `SolveMST()` step by step. *Backward*:
every node reached has a predecessor that an arc in use leads from, and no set of nodes is closed
under predecessors (*Rooted*), so they all lead to the source. *MarksAreArcs*: the marked arcs are the arcs to the
predecessors of the nodes joined, one each (`OwnArc`). *Labels*: distances do not grow towards the source, they are zero on
the tree, and a node has one below VERYFAR exactly if it was reached. *Frontier*: the neighbours of a node that
was scanned are reached. *ResiduesWait*: a residue is on the tree or nothing was reached over it yet. *Queued*: the
nodes that wait are in the queue. A node's bucket need not be that of its cost: `MarkPath` sets the
distance of waiting nodes to zero without moving them, so *Queued* says "of its cost, or of the
cost it had before it was put on the tree"; unlinking such a node from the wrong bucket cannot happen, since no way to it is
shorter than zero. When the queue is empty, the nodes reached are closed under arcs in use, and
`WholeGrid` shows that these lead everywhere, over ground where corner arcs are out of use. So all residues are reached, and joined.

An arc that is out of use counts as VERYFAR and any other way must stay below that, or a node is
not reached. *Ways* bounds a distance by the arcs of a way that passes no node twice, and `FarEnough` (the
cost of an arc times the number of nodes is at most VERYFAR, 2 000 000 000) is the condition of
`TreeInvHolds`. It is a condition on the costs of the run; `ShortCostsConnect` replaces it by one on constants,
LARGESHORT times the nodes at most VERYFAR. With LARGESHORT 32 000 this covers tiles of 62 500 nodes
with any costs; for larger ones `FarEnough` asks for smaller costs (at most 1000 for two million nodes). It is
sufficient, not necessary: shortest ways have far fewer arcs, but as the queue keeps all large costs in
its last bucket in no order, the first label of a node may belong to a longer way. The assumption on the costs,
1 to LARGESHORT, is what snaphu_cost.c:370 and 389-392 give the weights: clipped to `params->maxcost` (1000 unless
the user sets it), LARGESHORT for the corner arcs. A MAXCOST of LARGESHORT or more is outside it.

`ChargesInv` follows `DischargeTree()`. *Walk*: the arcs followed once are the way from the source to the node the
walk is at; below a node not seen yet all are unseen, below one that is done all are done, and
these have no charge. *ZeroSum*: the charges of all nodes, in the order the code goes through
them, add up to zero, because ground's charge was made so. At the end all but the source are done, so its
charge is zero as well. `BalanceInv` adds that the flows have brought to a node what its charge gained. With no
flow above the limit (`NoExcess`) the result balances the residues (`InitialFlowsBalance`).
Finding 5 is about the rounds that clip. Flows are integers there, shorts in the code: an arc gets its flow in one addition per round, and the
theorem speaks of runs in which it is at most `initmaxflow`.

*Only model-checked*: liveness (`RunEnds`, `ChildrenFollowParent`, `Ends`, `TileFinished`),
which needs fairness and ENABLED; the properties of TreeSolve, whose walks along the
tree are RECURSIVE operators, beyond this prover; and that UnwrapTile, which extends TreeSolve, puts
the parts together rightly.

## 6. Fairness and other assumptions

- *TileUnwrap*: weak fairness of the parent's own steps and of the delivery of a
  pending SIGTERM: the operating system schedules a runnable process and delivers
  signals. A child's computation need not end; `RunEnds` assumes that it does
  (`ChildrenScheduled`), `ChildrenFollowParent` does not. Nothing is assumed of
  faults, signals from outside or further invocations.
- *FlowLoop*: weak fairness of the only action.
- *UnwrapTile*: `KeepsRunning`, a sequential program goes on until the tile is finished
  or the solver has aborted. It is stated by steps taken rather than by WF, since `UnwrapNext`
  can be taken in every state that has not stopped (deadlock is checked).
- TileAssembly, TileGeometry and SolverSignals are checked for safety only.
- A new invocation starts when the processes of the last one are gone, and all
  invocations use one tile directory. Other processes of the group (a calling
  script) are outside the model, although `kill(0, ...)` reaches them.
- TreeSolve settles the increment it was called for. That an augmentation lowers
  the total is assumed only where a property says `exact`.
- Files are written in full or not at all, apart from the state "partial" a crash
  leaves; disks do not fill while a child writes, except as the fault ChildFails.
- In ArcCosts costs are integers and `ceil` of a quotient is taken of integers; the
  code's costs are shorts, the quotient a double without rounding error at that
  size. The other cost modes give other numbers to the same code.
- In TreeSolve the thread is a sequence and an arc's candidate flag is its being in
  the bag or the list. The mask and the residues are inputs; residues are those of
  flows that exist, as the residues of a phase are.
- In TileAssembly the secondary network's flows are zero. The offsets, seam
  flows and files do not depend on them; the result does, and what the properties
  say of it is what the network is given to correct. Phases are whole cycles:
  rounding of a fraction is the same on both sides of a seam and is left out.

## 7. Findings

1. *A mask without a tile never ends* (`tile_no_tile`). With more than one process
   the loop is left only when the counter becomes 0 by decrement; with no child
   it becomes -1. With one process the same input goes on to the assembly.
2. *`nflowdone` is read before it is set in AssembleTiles* (`flow_uninit`).
   `InitNetwork` sets it only for a grid network. With a large value on the stack
   the secondary optimizer stops after one increment; with a very negative one it runs
   until it gives up.
3. *The secondary loop gives up while the cost falls* (`flow_give_up`): `>=` is
   compared after the minimum was updated; the grid loop has `>`.
4. *An interrupt during a dump is forgotten* (`signals_interrupt`): the dump flag is
   cleared after the stop flag was read. Only a later SIGHUP makes the program
   look at the stop flag again (a second SIGINT ends it without a dump).

5. *Clipping starts from residues that were discharged already* (`mst_clip`). `ClipFlow` counts on
   `DischargeTree` to have set the residues to zero, so that the excess it puts back and the
   clipped flows make up the problem (comment at `snaphu_solver.c:3898-3905`); `DischargeTree`
   clears a copy of them (line 3835). The next round discharges the same residues once
   more and the excess with them: residues and flows grow from round to round, until the program
   aborts with "Overflow of residue data type". (With `InitialFlowsBalance` in place of the property
   the same configuration passes: within 30 rounds every start that clips ends so.) The other exit, the
   escape when costs come close to LARGESHORT (3948), hands over flows that do not balance
   the residues; with `MAXCOST` at its 1000 it takes more than 150 rounds that clip, with a
   `MAXCOST` of 31 600 two rounds are enough. Clipping is off unless `INITMAXFLOW` is set low;
   the manual warns of "erratic results" and of an infinite loop.

Smaller disagreements, met while reading and not made into runs:

- `GrowRegions` says "no more nonregion nodes" (`snaphu_tile.c:539, 544`) where there may
  be one: the pixel that was taken off the queue when an earlier region stopped keeps its
  distance, since `ClearBuckets` resets only what is queued, and a later region passes it
  by unless its own arc is shorter. Such a region is merged with another though it
  could grow, or leaves the pixel to a region of its own. Regions stay whole and large enough
  (`RegionsSound`, which holds with and without it); they are only cut differently.
- `--assemble` with `-S` looks for tile files whose names hold its own process id;
  none exist. The default cost file's name, on the other hand, holds neither the
  output's name nor the process id (`snaphu_tile.c:302-305`).
- With `--costoutfile`, `--log` or a dump option the tile directory keeps those
  files, `rmdir` fails silently and the directory stays, although the manual says it
  is removed unless `-k` or `--assemble` is given.
- The grid loop may end with one increment unsettled when the largest flow shrinks
  in the last iteration (hence the slack in `SettledFromZero`).
- With no flow at all the grid loop reports a lack of cost reduction (0 >= 2*0).
- The dump a signal asks for does not add back the coarse estimate of `-e`; the
  final output does.
- Some accepted grids have a tile beyond the image: 16 lines, 4 tiles, overlap 11
  (`snaphu_io.c:981`).
- A tile that owns a single line: `SetLowerEdge` then reads the cost row before the
  first (`costs[nrow-2]`, e.g. 9 lines, 3 tiles, overlap 6), and for a last tile of one
  line the row costs read for its neighbour are column costs (4 lines, 2 tiles,
  overlap 1; `snaphu_io.c:3232`). Such tiles are far smaller than any in use.

## 8. Not modelled, and why

- *solver on the secondary network*: TreeSolve is modelled on the grid. The non-grid
  variants of `NeighborNode` and `GetArc` differ in where arcs are stored.
- *region growing*: the costs read back from a file for Lp modes, the limits on the number
  of regions (32000) and components (255) that end the program, the output files.
- *secondary network* (`snaphu_tile.c`): tracing arcs along region boundaries and pricing
  their flows, a sequential walk over pixel data with no other actor.
- *MCF initialization* (cs2) is third-party code.
- *costs, SAR kernels, time series, preprocessors*: floating-point and decoding,
  with hardly any control; TLC and TLAPS have nothing to offer there.
- *input and output of snaphu*: the parser and the raster formats. The options
  that steer control are inputs of the models.
- *pipeline, batch scripts, Python port*: what a stage reads and leaves is decided
  by programs outside the repository (GMT) and by the scripts' working directory;
  a model would have to invent which files each leaves. Their hazards are listed in
  `PROJECT.json`, with the lines.
- *parameter files*: one process rewrites a file and moves it into place; scanning and
  printing of values is all there is.
