# Verification of clipper2next

clipper2next is a C++20 library for boolean operations, offsetting, rectangle clipping and
triangulation of polygons with integer coordinates. This directory holds TLA+ models of the parts
of it whose correctness depends on long sequences of steps, on callbacks that re-enter the library
or on threads, the TLC runs that check them on small instances, and proofs, checked by TLAPS, for
every instance.

Contents: [Inventory](#inventory), [Hard behaviours](#hard-behaviours), [Plan](#plan),
[Conventions](#conventions), one section per modelled component, [Proofs](#proofs),
[Disagreements found](#disagreements-found), [Not modelled](#not-modelled),
[Running the checks](#running-the-checks).

## Inventory

A request enters through `src/api` (or `src/batch` for many at once), is validated and estimated
against resource limits there, and is executed by one of the engines. Engine state is recycled in
thread-local slots. The host lends threads through `sync_bulk_executor_ref` and receives results
as values or through writers.

| component | state it keeps | operations | interacts with | what makes it correct |
|---|---|---|---|---|
| clip engine: sweep (`src/clip/engine`) | active edge list (AEL), winding counts, output records with two sides and an owner, joins, scanline queue, local minima | `execute_scanbeam`: insert minima, intersections, tops, horizontals; `intersect_edges`, `add_local_min/max_polygon`, `split`, `check_join_*` | output stage; called by requests, the topology pipeline, offset cleanup | counts equal the winding numbers of the regions; hot edges bound the requested result; an open record has two sides; the AEL stays a list; owner chains end |
| clip engine: scanlines and intersection list | priority queue of y, SEL with jump links, intersection nodes | `insert_scanline`, `pop_scanline`, build, sort and process the list | sweep | each crossing pair is listed once; processing in point order always finds an adjacent pair |
| clip engine: loading of paths (`engine_lifecycle*`) | vertices with flags, local minima, the reusable engine state | `add_paths`, `reset`, `cleanup`, `release` | requests, prepared requests, sweep | every edge of a path is swept once; minima point at vertices that live |
| clip engine: output rings and cleanup | rings of linked points, splits, owners | `add_out_pt`, join, split, `clean_collinear`, owner resolution | sweep, polygon tree, descriptors | rings stay rings; no point is lost or shared; owners form a forest |
| borrowed topology pipeline (`src/api/requests_topology*`) | thread slot (engine state, workspace, in-use and release flags), vertex blocks, the caller's writer transaction | `clip_topology_checked`, `release_thread_caches` | caller's path sources and writer (callbacks), engine | leases are exclusive; second pass stays within the first pass's measures; writer sees begin/acquire/finish or one cancel |
| batch clip (`src/batch`) | shared smallest error code (atomic), result slots, work order | `clip_batch_checked` | host executor's threads, clip requests | the answer does not depend on the schedule |
| offset groups (`src/offset/offset_group*`) | chunks, per-chunk rings, the state's signed distance | admission, chunk building, execution, assembly | host executor, offset request pipeline | same rings, order and distance as the serial loop |
| offset request pipeline and cleanup union | thread offset state, group list | `offset_checked`, `offset_stage_checked`, `offset_builder` | offset groups, clip engine | the rings cover the offset of the paths; the union is skipped only when it would change nothing |
| clip requests and fast paths (`src/api/requests.cpp`, `src/clip`) | prepared requests, the thread's engine slot | `clip_checked`, fast paths for rectangles and contained inputs | engine | a fast path gives what the engine would |
| union component grouping (`src/support`) | disjoint-set forest | group bounding boxes | batch, fast paths | two inputs that touch are in one group |
| thread caches | five thread-local slots | `release_thread_caches` | all engines | nothing in use is released |
| topology store, stable pool (`src/support/private/storage`) | slots, free list, generations | `emplace`, `erase`, `clear`, `get` | storage for engine objects | a stale handle is rejected |
| path sets and builder (`include/core`) | points, descriptors, cursor | `begin`, `acquire`, `finish`, `cancel` | writers, results | descriptors tile the points when finished |
| rectangle clipping (`src/rectclip`) | the thread's context: nodes, rings, lists of the sides | `rect_clip` of polygons and lines | requests, thread caches | the answer is what lies in the rectangle, whatever the thread did before; the walk ends |
| triangulation, minkowski, geometry, geotypes | triangulation graph; none for the rest | pure functions of coordinates | - | geometric predicates |

## Hard behaviours

`PROJECT.json` lists every hazard at its line. They fall into these groups.

* **Long legal sequences.** The sweep derives the counts of every new edge from its neighbour's and
  updates them crossing by crossing. A slip shows many events later, as a ring with the wrong
  orientation or an edge that names a record which was closed.
* **Callbacks.** The topology pipeline calls the caller's code in the middle of an operation, at
  eight places; that code may call the library again on the same thread, release its caches, fail, or
  answer differently on a second reading.
* **Threads.** Batch and offset hand work to the host's executor, which may run ranges in any order,
  return early, or report an error although all items ran.
* **Shared structure under surgery.** After the sweep rings are joined, split, cleaned and given owners
  through raw links, by functions that call each other; a ring or an owner chain that is not closed any
  more is a loop without end.
* **Reused state.** Engine state, rectangle context and offset state of a thread are taken by call after
  call, also after one that failed half way.
* **Shortcuts.** Whole algorithms are skipped when a guard says that their answer is known.
* **Numeric edges.** The chunk builder subtracts unsigned counts and divides by what is left; offsets
  decide the side of a join from the product of several signs.
* **Partial failure.** Errors of items, of the executor, of memory and of writers can coincide; which
  one the caller sees is part of the contract.

There is no persistence and no network, hence no crash recovery, message loss or timeout.

## Plan

Ordered by what breaks most silently. Each component gets a module, an MC module with its `.cfg`
files and, when its invariants are inductive without data induction, a proof module.

| order | module | models | abstract specification | runs | theorems | state |
|---|---|---|---|---|---|---|
| 1 | `ActiveEdges` | the sweep over closed paths | winding numbers of regions, as definitions | 2 | typing and AEL integrity, the counts, the output, the owners | done |
| 2 | `BulkExecution`, `ClipBatch` | shared error code, slots, batch call | `BatchPromise` | 1 | all safety, refinement | done |
| 3 | `BorrowedTopology` | callbacks, leases, writer transaction | `TopologyWriter` | 1 | all safety, refinement | done |
| 4 | `IntersectionList` | crossings of one scanbeam | `CrossingPromise` | 1 | all safety, refinement | done |
| 5 | `PathSetBuilder` | path sets and their builder | - | 1 | completeness | done |
| 6 | `OutputRings`, `PlaneGeometry` | rings after the sweep: horizontal joins, cleanup, splits, owners, paths, trees, descriptors | closed rings, nested tree | 2 | closed rings, what the steps read, owners that end | done |
| 7 | `EngineLoading`, `ClosedClipShortcuts`, `ClipRequests` | loading of paths, shortcuts, prepared requests, union components, calls in sequence | the region of the operation | 2 | - (see [Proofs](#proofs)) | done |
| 8 | `RectClip`, `ThreadCalls` | rectangle clip; both interfaces on one thread | the inside of the rectangle | with 7 | - | done |
| 9 | `OffsetGeometry`, `OffsetGroup`, `OffsetCalls` | rings of a path, chunks of a group, the call with its shortcuts | cells within the distance | 2 | the chunks and their answer | done |
| 10 | open paths | `ActiveEdges` with open ends | - | planned | - | planned |
| 11 | triangulation | the graph under flips, with orientation as an oracle | planar graph | planned | - | planned |

Composition: `ClipBatch` EXTENDS `BulkExecution`; `OffsetCalls` EXTENDS `OffsetGroup`, which EXTENDS
`OffsetGeometry`, and relies on what `BulkExecution` shows of the shared error code. `ThreadCalls`
EXTENDS `ClipRequests`, which EXTENDS `ClosedClipShortcuts` and `EngineLoading`, and instantiates
`RectClip`. `PlaneGeometry` is the geometry of them all. `IntersectionList` justifies the
`Intersection` action of `ActiveEdges`: `CrossingPromise` says that only neighbours cross, the left
one to the right, and `ActiveEdges` lets any pair of neighbours do so. `ClipRequests` names what the
sweep answers by what was swept, `OffsetCalls` the union by its rings and fill rule, `BorrowedTopology`
keeps "some rings or a failure" of it.

## Conventions

* Names of variables, actions and values are the source's, in the letter case of TLA+ where the
  source has functions. `PROJECT.json` maps every definition to its lines.
* A definition commented with `Variant:` or `Mutant:` is not used by the model. It is a plausible bug; the checks
  put it in place of the definition that follows it and expect a property to fail.
* In the modules of the sweep coordinates are abstracted to what decides control: the geometry picks
  freely which neighbours cross, which bounds meet or which edges are collinear. A property that holds
  for every choice holds for those that real coordinates allow. The modules of rings, shortcuts,
  rectangles and offsets compute with small integer coordinates; the library's 128-bit and floating-point
  arithmetic is exact there.
* Regions are compared cell by cell: `Samples` of `PlaneGeometry` has a point in every cell that the
  vertices of the paths tell apart, off all edges, and `Winding` is the reference for how often a path
  goes round it.
* Every bound is a CONSTANT whose comment starts with "bound", or a constant of the source scaled down.

## The sweep: `ActiveEdges`

State: `state` is `clipper_base_state` (the AEL as a sequence, the edges with their counts, record
and join, the records as tables `front`, `back`, `owner`, `has_points`, and `succeeded`), `phase` is
the step of `execute_scanbeam`, `task` the handler whose loop is running. The helpers take and return
a state, as the C++ functions take `clipper_base_state&`.

| action | code |
|---|---|
| `InsertLocalMinimum`, `BoundCross`, `BoundDone` | `insert_local_minima_into_ael`: both bounds, counts, contributing test, the loop that crosses the right bound outwards |
| `Intersection` | the body of `do_intersections` for one node: `intersect_edges`, swap, joins |
| `UpdateTopEdge` | `do_top_edge` of an edge that goes on: `update_edge_into_ael` |
| `BeginMaxima`, `MaximaCross`, `MaximaDone` | `do_maxima` |
| `BeginHorizontal` ... `HorizontalDone` | `do_horizontal` in either direction |
| `NextPhase` | the order of the steps; the sweep ends when a step failed |

Runs and bounds:

* `sweep_counts`: four edges, two records, horizontals, both path types, every clip type and fill rule.
  Four edges are two local minima, the least with crossings between paths; all counts of -2..2 occur, and
  with two records one can close and another open.
  `WindingMatchesRegions`: the counts carried from edge to edge are the winding numbers recomputed
  from the whole list. `HotEdgesBoundTheResult`: an edge builds output exactly where the requested
  result begins or ends. `FrontHasResultOnRight`: the rings are consistently oriented.
  `RecordsCoupled`: an open record has two sides, a closed one none.
* `sweep_joins`: six edges and three records, joins, polygon tree, no horizontals (each alone fills the
  bound of time). `AelIntact`, `JoinsPaired`, `NeverFails` (no local maximum finds two edges of one side,
  so the execution never aborts), `ClosedRecordsStayClosed`, and `OwnersAcyclic`: `get_real_outrec`
  ends. Six edges and three records are the smallest instance on which a `set_owner` without its cycle
  test goes wrong.

`CHECK_DEADLOCK FALSE`: the sweep ends, and the pools are bounded. The edges of a run are symmetric:
nothing orders them but the list. The order of edges in the AEL is free, so the model also reaches
lists no drawing produces; all properties but those stated above as properties of closed paths hold on
them too.

## Intersections of a scanbeam: `IntersectionList`

State: `top_x` the edges' x at the top, `sel` and `starts` the merge sort (the SEL with its jump links,
or the vectors of the contiguous form: both are an order and the positions where runs start), `cursor`
the merge in progress, `nodes` and `point` the list, `next` the iterator, `actives` the AEL.
`MoveRightEdgeBeforeLeft` and `KeepLeftEdge` are the two branches of the merge loop, `PassDone` the end
of a pass with the early stop of the contiguous form, `SortIntersections` the sort (ties in any order,
as `std::sort` allows), `Rebuild` the fallback of the monotone schedule, `ProcessNode` one iteration of
`do_intersections`.

The points are any ranks, ties included: what rounding does to them is irrelevant to the properties.

* `intersections`: up to five edges, three x (so that edges also meet), both schedules. Five edges leave
  three runs after the first pass, so the early stop has two borders to look at. One rank of points is
  enough: with all points equal every order of the nodes occurs. `NodesAreTheCrossings`: the list is
  exactly the set of crossings. `NeverStranded`: an adjacent pair is always left, the assertion at
  `engine_scanbeam_services.cpp:187`. `CrossingsKept` (`CrossingPromise`): only neighbours cross, the
  left one to the right. `EndsInOrder`: the active edges end up in their new order, ties as before.

`SortIntersections` leaves nodes with equal points in any order, because `sort_intersections` uses
`std::sort`; a comment (`engine_scanbeam_services.cpp:130`) takes them to keep the order in which they
were listed. The properties hold for every order.

## Batch clip: `BulkExecution`, `ClipBatch`, `BatchPromise`

`BulkExecution` has the threads of the host executor: `Claim` hands a range to a thread,
`ItemSucceeds`, `ItemFails`, `CasFails` and `CasSucceeds` are the steps of an item and of
`bulk_failure_state::record` between two atomic operations (the exchange is weak: it may fail at any
time), `ExecutorReturns` ends the call, with or without an error, whether or not all items ran.
`ClipBatch` adds admission, the sequential loop, the failures of preparation and the answer.
`BatchPromise` is the contract without threads.

* `batch`: two threads, three items, codes 4, 6 and 11, all work orders; every interleaving. Three items
  let an exchange lose twice to the other thread; the codes are an ordinary one and the two the executor
  path produces itself. `SmallestErrorKept`, `AnswerIsDeterministic` (once all
  items ran, the answer is theirs, values in input order) and the refinement `PromiseKept` are safety;
  the proofs hold for any number of threads.
  `CallReturns` is liveness under `FairSpec`: weak fairness of each thread's next step and of the
  executor's return. The threads are operating system threads; the exchange is taken to succeed
  eventually when the value is the one loaded, as the standard asks of implementations; a failing one is
  fair only while the value differs. The executor's contract is to cover all positions or return.

## Offsets: `OffsetGeometry`, `OffsetGroup`, `OffsetCalls`

`OffsetGeometry` gives the rings of one path: `append_offset_join` decides at every vertex between a
concave, mitered, beveled or squared join, `offset_polygon`, `offset_open_joined`, `offset_open_path` and
`append_single_point_offset` walk the path. Paths are parallel to the axes and distances are integers:
normals are unit vectors of the grid and every computed point is a grid point, so the model is exact. It
was compared with the library on 6,500 random paths, joins, ends and distances, ring by ring, without a
difference. Joins are Miter and Bevel, ends Polygon, Joined, Butt and Square; round ones and the Square
join at right angles are rounded and left out, as are delta callbacks.

`OffsetGroup` is a group under way: `BuildSerially` the loop without executor, `BuildChunk` an iteration
of `build_offset_chunks`, `RunRange` a thread's range of chunks, `ExecutorReturns` the tail.
`OffsetCalls` is the call around it: `CollectGroup` reads a group of a borrowed request twice,
`MakeGroups` is the owning request and the builder, `StartGeneration`, `LoadGroup` and `TakeRings` take
the distance of the state from group to group, `Finish` answers the rings directly or through the union.
The union is the clip of other modules: what is checked of it is which rings it gets and how they are
filled. It may also fail.

* `offset_chunks`: some 2,500 requests; one group of up to five paths and an executor, all shapes of
  paths (bends to both sides, holes, spikes, repeated and collinear points, paths apart, touching or
  near), joins, ends and signs, two groups of which the first changes what the second starts from,
  requests that change between the readings, that leave the range or exceed a limit.
  `ChunksWithinPaths`: no unsigned difference of the chunk builder wraps. `ParallelMatchesSerial`:
  whatever the order of the chunks, the answer is the serial one, order and signed distance included.
  `AnswerIsTheOffset`: what the rings cover under the fill rule, cell by cell, is the polygons and
  all that is within the distance of the paths, or the polygons without it; exactly so for mitered joins
  and square ends, in between for bevels and butts. `DirectRingsCoverOnce`: rings answered without a union
  do not overlap and all have the direction asked for.
* `offset_empty_paths`: fails, see [below](#disagreements-found).

`AnswerIsTheOffset` is stated for groups an offset is defined for: polygons that all run in the direction
of the first group and wind round nothing twice, groups of other kinds only beside polygons of positive
direction, a negative distance for one group alone. The library gives no meaning to the others: the union
has one fill rule, and a polygon group without area makes the distance of later groups positive
(`offset_group_state.cpp:13`). Joined groups with a path of two points are left out, too: such a path
changes the ends of all later paths (`offset_group_processor.cpp:220`). The statement was tried on the
library's own answers to 8,000 random requests; only those groups differ.

The thresholds of the code (512 paths, 524,288 points, 16 workers; 64 and 512 points and 256 and 4096
paths of the shortcuts) are scaled to 2 paths, 4 points, one worker, 8 and 12 points, 2 and 4 paths: with
the code's factor of four chunks per worker there are four chunks, so that five paths give full, short
and single-path chunks, and some drawings are on either side of each limit. `CHECK_DEADLOCK FALSE`: the
call ends.

## Borrowed topology: `BorrowedTopology`, `TopologyWriter`

One thread, a stack of calls. Every access to the caller is a callback; the frame's `at` says which one
is running (`count`, `measure`, `recount`, `copy`, `begin`, `acquire`, `finish`, `cancel`), and an
action is the return of a callback with all the code up to the next one. While a callback runs, the
caller may start another call (`Call`), release the caches (`ReleaseThreadState`), fail
(`CallbackFails`), or return a path that differs from the one measured. `slot` and `workspaces` are the
thread's lease. `TopologyWriter` is the transaction each writer sees.

* `topology`: two calls, nested or one after the other, one path per source of seven shapes in each
  pass, small limits. `WritesStayInBlock` and `EngineWithinPlan`: the second pass writes inside the block
  of the first and the engine runs within its plan, although the caller may answer differently the second
  time. `WorkspaceIsOwn`, `NoStaleRequest`, `ReleaseIsDeferred`: a nested call never touches the outer
  one's workspace and a release waits for the outermost call. `WriterPromiseKept`: each writer sees the
  protocol. Two calls are an outer and a nested one, or a call and the next; deeper calls lease the same
  way as the second, which the proofs show for any depth.

## Path sets: `PathSetBuilder`

A path set is its descriptors and its number of points; `AppendToSet` is `path_set::append`, the
other actions are the calls of the builder, in any order, failed `begin`s included (they end as
`Cancel`). An `acquire` or `finish` that throws changes nothing and is no action. `path_sets` checks
that no sequence leaves an incomplete set behind.

## Output rings: `OutputRings`, `PlaneGeometry`

State: `op` and `rec` are the output points and records with their links, `segments` and `joins` the
pending horizontals, `call` a stack of frames for the functions that call each other (a frame is a
function, its record and where it is), `answer` what was built. `ConvertSegments` is
`convert_horizontal_segments_to_joins` during the sweep, `ProcessJoins` `process_horizontal_joins`,
`CleanRing` the frames of `clean_collinear` and `fix_self_intersections` with the splits they make,
`FindOwner` those of `check_bounds`, `check_split_owner` and `recursive_check_owners`, and `BuildAnswer`
paths, trees and the walk of `requests_topology_output`.

A state to start from cannot be made up: rings that no sweep builds break the code. `MCOutputRings` has 60
drawings recorded from the library, with the clip each comes from: rings that touch, cross themselves,
lie in one another, are joined along horizontals. The model was compared with some 3,000 recorded
executions, from these states to the answer, without a difference.

* `rings`: all drawings. `RingsIntact`: the links are those of closed rings, whatever is joined or
  split. `RingsBelongToOneRecord`: every point leads to the record of its ring, and to one.
  `OwnersEnd`: owners do not turn in a circle. `AnswerIsComplete`: every ring with an area is answered,
  and once. `TreeIsNested`: rings and holes alternate and no ring lies in its sibling. `SearchesEnd`: the
  calls that search a record with points are bounded by the records - each is marked by the owner it is
  searched for -, and the stack is used up only where emptied records have split off each other in a circle,
  whose splits are searched without a mark. `CleanupEnds` is liveness under `FairSpec`, the engine goes on
  while it can: every loop comes to its end, in the answer, in `internal_error`, or in one of the two
  endings below.
* `rings_topology`: fails, see [below](#disagreements-found).

The drawings are samples, not all outputs of a sweep: crossings that are rounded leave the tree of about
two in 70 more drawings badly nested, which is a limit of the algorithm on integers, and those are not in
the run. A drawing makes at most 40 points; the bound `MaxPoints`, 60, is never reached.

Two endings are states without meaning, and `Ended` names them. `overflow` (`StackOverflow`): the library's
stack is exhausted, in the model at `MaxFrames`, 60 frames deep. One drawing gets there, every other stays
within the bound of `SearchesEnd`. `undefined` (`ReadFreedRecords`): the two loops of `prepare_output_records`
are range-for loops over a `std::vector`, and `check_bounds`, in the first loop or called by the owner search in
the second, appends records to it. Whether the vector moves depends on its spare capacity, which the model leaves
open: while records of the old range are left, a step may go on with the next of them, to the old end, or read
freed storage, after which nothing is said. If the split record was the last one, nothing more is read and
the loop just stops.

## Requests on one thread: `EngineLoading`, `ClosedClipShortcuts`, `ClipRequests`

`EngineLoading`: `initialize_vertex_path` with its flags, `add_local_minimum`, the reusable state of the
thread and of a prepared request, `reset_engine_state`, the heap of scanlines and how bounds climb from a
minimum to a maximum. `ClosedClipShortcuts`: every guard and answer that spares the engine.
`ClipRequests`: `Begin` and `Validate` a call, `Prepare` and `Destroy` a prepared request, `Shortcut`,
`Group` and `TakeComponent` (a union is cut into components whose boxes meet, by a disjoint-set forest),
`Load`, `StartSweep`, `SweepScanline`, `EndSweep`, and `AllocationFails`, at any step of the engine, which
leaves its state as it is.

* `requests` (module `MCThreadCalls`): nearly a thousand requests alone, among them pairs of rectangles in
  all positions, and three calls in sequence for some of them. `AnswerCoversRegion`: rings given without
  the engine and the parts that are swept are, cell by cell, the region the operation makes of the
  filled paths, once. `EngineUsesLiveVertices`: while the engine works, its minima point at vertices that
  are there, its own or those of a prepared request that lives. `EverythingIsSwept`: in the end every edge of
  every path has been swept once, whatever the state was used for before.
* `requests_bowtie`: fails, see [below](#disagreements-found).

Areas of rectangles are `long double` in the code: `Rounded` keeps `LongDoubleDigits` binary digits, ties to
even. 24 digits hold every area of the run, as the 64 of the code do for rectangles up to some 2^31 wide;
beyond that the shortcut goes wrong (see below).

Left out of `AnswerCoversRegion`: union components that are out of range, which the code drops
(`boolean_union_service.cpp:24`), subjects that cross one another, for which the shortcut of the containing
rectangle tests nesting by boxes and first points only (a hazard in `PROJECT.json`), and the direction of
rings in unions and trees, where a passed-through ring keeps its own. The limits of the code (4096, 512, 256
and 64 points) are scaled to 12, 8, 4 and 8 so that paths on either side occur.

## Rectangle clip: `RectClip`, `ThreadCalls`

State: `context` is the thread's `rectclip_context` (nodes, rings, the two lists of each side), `walk` the
loop of `execute_path` over a path, `tidy` that of `tidy_edges` over a side. `PassBy`, `Enter`,
`CutThrough`, `PassThrough` and `Leave` are its branches for a step from one location to the next, `EndWalk` the end
with the corners that go round, `CheckEdges`, `TidyEdges` and `BuildPaths` what follows. `ThreadCalls` lets
one thread call both interfaces in turn, fail, and release its caches.

* `requests` has some 9,000 rectangle clips: all triangles and lines on a grid that shares its lines with
  the rectangle, paths of four and five points round it, combs, paths along its sides, several paths, and
  sequences after calls that failed. `RectAnswerIsTheInside`: the answer covers what lies in the rectangle,
  and nothing else; lines keep their pieces inside. `RectCallsEnd`, under `RectCallsGoOn` (the thread goes
  on): walk and tidying end; the history variable `tick` lets TLC see a step that changes nothing.

Every edge of the requests crosses the lines of the rectangle in grid points, so nothing is rounded; on such
requests model and library agree on 10,000 random ones. Left out: paths that go round the rectangle twice or
have a spike along a side (their answer depends on the parity of one point, a hazard in `PROJECT.json`). The branch of `PassThrough`
that finds no first meeting is never taken: an edge that leaves the rectangle's far side has met a near one.

## Proofs

Checked by tlapm from nothing; the assumptions are those on the constants, nothing else.
`PROJECT.json` lists 28 rows: a theorem that shows two checked properties has one for each.

* `ActiveEdgesProofs`, `SweepStaysIntact`: for every pool, every number of records and every
  choice of inputs, `TypeOK /\ AelIntact`. The invariant is inductive as it stands; the work is in
  lemmas that say of each helper what it does to the list (almost all leave it alone, `Cross` swaps
  neighbours, `InsertBounds` inserts two, `RemoveFromAel` removes one).
* The same module, `CountsMatchTheRegions`: `WindingMatchesRegions` says of each edge that its
  counts are sums over all edges before it. The inductive invariant `WInv` adds `PairMatches`: the right
  bound of a minimum that is still crossed outwards has counts that match its place, and the two edges of
  a maximum run in opposite directions, so that taking both out changes no sum beyond them. A sum is a
  recursive function over positions; `SameSums`, `SumsBefore`, `SumsAfter` and `SumsRest` say what an
  insertion, removal or swap does to it, by the least position at which two sums would differ. The code
  side is `CrossCounts` (`intersect_edges`, every fill rule), `LeftBoundMatches` (the counts taken from
  the neighbour of the same path type and those of the other type added up on the way) and
  `MaximumLeaves`.
* `ActiveEdgesOutputProofs`, `OutputBoundsTheResult`, `RingsAreOriented`, `RecordsStayCoupled`, `JoinsStayPaired`,
  `SweepNeverFails`, `ClosedForGood`: what the sweep draws, for every pool, clip type and fill rule. The five
  invariants hold only together: that a local maximum finds the two sides of a record needs that hot edges
  are the borders of the result, which needs the counts of `WInv`. `Sound` says position by position what an edge must
  be (`DrawnAt`, `PairedAt`) and record by record who holds it (`Coupled`), and adds that no horizontal edge is joined;
  `SInv` adds what a handler did before its loop: the bounds of a maximum are split, the edge of `do_horizontal` is
  horizontal. The records change in four ways (`Opened`, `Exchanged`, `Closed`, `Merged`). A handler
  changes the regions in three: a crossing changes the one between two edges (`CrossTells`: what
  `intersect_edges` reads off the counts is where the result begins and ends, for each clip type), a minimum
  adds two (`ContributingTells`: `is_contributing` is right), a maximum takes two away. The lists differ in a block of
  two (`Patched`, `PutIn`, `TakenOut`), and the rest follows from the old state.
* The same module, `OwnersNeverCycle`: following owners from any record ends. `Rooted` is inductive, but not
  per assignment: `set_owner` first takes its new owner out from under the record, when it is there, and
  that this suffices (`AdoptedStaysRooted`) needs to know what its walk finds. `GetRealOutrec` and `OwnedBy`
  are recursive functions over a table that could have cycles, so `ActiveEdgesProofs` first shows that they
  exist for every table (`OwnersFollowed`, by the sets closed under the owner) and only then that what they
  find keeps the table rooted. No record may be given to itself either: two joined records differ because each
  side has one holder (`Coupled`), and a new record is hung under that of a hot edge further left (`LeftOf`).
* `IntersectionListProofs`, `CrossingsFound`, `ScanbeamNeverFails`, `EdgesEndInOrder`,
  `OnlyNeighboursCross`: for any number of edges. The inductive invariant `IInv` has two parts. `SortInv`:
  the list holds, once each, the pairs that `sel` has turned round so far; edges of different runs are in
  the order below, those of one run in that of the top, but for the two runs under way. When one run is
  left these pairs are the crossings. `ProcessInv`: the nodes not yet processed are the crossings whose
  edges `actives` still has in the old order. Hence as long as a node is left, one has adjacent edges.
* `ClipBatchProofs`, `BatchErrors`: for any threads, items and codes. The inductive invariant adds three
  parts: `RangesDisjoint` (threads and unclaimed positions share nothing), `CasHoldsSmaller` (a thread
  in its loop holds an error smaller than what it loaded) and `EndedRecorded` (an item that ended with an
  error is not smaller than the shared code). `BatchAnswerIsDeterministic` adds that ranges are claimed only while
  the executor runs. `BatchKeepsPromise`: refinement of `BatchPromise`.
* `BorrowedTopologyProofs`, `LeasesAreSound`, `ReleaseServed`: for any depth and any number of calls. The
  inductive invariant is `LeaseInv`: only the outermost call has the thread's slot, the slot is in use
  exactly while there are calls, every nested call has a place of its own, and each workspace belongs to
  the call that leased it. `SecondPassWithinFirst` and `WritersSeeTheProtocol` extend it to `CallsInv`:
  what is known of a frame at each callback (which paths are measured, that the block is as large as all
  of them, what is written, where its writer is) and of the workspace it leased; every callback may
  call the library again, which changes other frames and workspaces only.
* `OutputRingsProofs`, `RingsStayIntact`, `StepsFindWhatTheyRead`, `OwnersComeToAnEnd`: for any drawings that
  are what a sweep leaves, of any size. The inductive invariant `IInv` has four parts.
  `PointsIntact`: every point is the neighbour of its neighbours, the links of closed rings. A join crosses
  two links, a split or a removal changes two, a duplicate adds a point; each lemma says that the two changed links
  meet again (`LinkedKeepsRings`, `InsertedKeepsRings`, `TakenOutKeepsRings`).
  `RecordsAre`: the fields of a record name points and records that are there.
  `StackIs`: each frame of the cleanup functions finds what its function has read before it called another one -
  the ring is still live, the owner is still there, the split is still in its list -, because while functions
  wait, records and lists of splits only grow (`Grows`), and only one owner is looked for at a time (`Above`), so the
  search that runs is the one the waiting function asked for.
  `PhaseIs`: what the loops rely on; during the joins, that every emptied record was joined to one
  that `get_real_outrec` reaches within as many steps as there are emptied records (`Chains`).
  The assumption on the drawings, `DrawingsAssumption`, is no more than that: closed rings, emptied records joined to
  an earlier one, owners that end. The last is what `OwnersNeverCycle` shows of the sweep; TLC evaluates all of it on
  the 60 recorded drawings.
* The same module, the owners. `Rooted`: of any set of records one has an owner that is not in it, so following
  owners ends. New records are leaves (`LeafAdded`), the owner search hangs a record under its owner's
  owner (a shortcut), and `set_owner` and `check_split_owner` exchange two records when the
  new owner lies under the record. The loops over owners and rings are `Iterated` in the model;
  `IteratedWalks` says which steps that takes, and a bound on them comes from the least one that would be wrong.
* `PathSetBuilderProofs`, `SetsAreComplete`: the invariant adds what the builder knows of the set: its
  cursor is where the paths end and its point count is the set's.

* `OffsetGroupProofs`, `EveryChunkHasAPath`, `ExecutorChangesNothing`: for any requests whose groups are
  sequences of paths of integer points. A chunk ends at `LatestEnd` at most, which leaves a path for each later one
  (there are never more chunks than paths: `ChunkCountBound`). The rest of `GroupInv` says that chunks follow
  on each other from the first path (`ChunksFollow`) and that a result is its chunk's (`RanAsPlanned`). When they
  reach the last path, `ChunksGiveAll`: their concatenation is the serial one, and a ring out of range in one is a
  ring out of range in the other. Admission does the rest (`AdmittedGroup`): no path changes the end type of
  another, and the distance of the state is not made positive. What a path generates stays opaque but for
  being a sequence of rings. `FlattenSeq` is given by the table of its prefixes (`RunExists`, `FlattenIsRun`).

Only model-checked, and why:

* All liveness (`CallReturns`, `CleanupEnds`, `RectCallsEnd`), and with it ENABLED: beyond the prover.
* What depends on where points lie: `RingsBelongToOneRecord`, `TreeIsNested` and `AnswerIsComplete` (a joined
  ring is divided between two records by a point-in-polygon test, and a ring without area is left out), `AnswerIsTheOffset`,
  `DirectRingsCoverOnce`, `AnswerCoversRegion` and `RectAnswerIsTheInside`. They are regions computed by definitions
  over data, and no invariant of a step describes them; some hold only of drawings whose crossings were not
  rounded.
* `SearchesEnd`: its bound counts the frames of a search against the records it has marked, over all functions that
  wait, and where it is not a bound it speaks of a circle of splits; the invariant for that is not written.
* `EngineUsesLiveVertices` and `EverythingIsSwept`: the minima are ordered by `SortSeq` and the paths are loaded by
  folds with an operator, of which the prover has no usable definition.

Induction over positions is not beyond the prover - a set of numbers that is not empty has a least one, which
follows from the library's theorems -, so recursive functions over positions are proved about throughout.

## Disagreements found

* **Division by zero** (`offset_empty_paths`). A polygon group of at least 512 paths that ends with empty
  paths, offset with an executor: a chunk ends when its points reach the target, the last chunk's target
  is all remaining points, so it stops before the empty paths; the loop goes on with no chunk left and
  divides by it (`offset_group_parallel.cpp:64`). Compiled and run with 512 rectangles and four empty
  paths the process ends with SIGFPE; the same request without an executor succeeds. `README.md:184` of
  the repository promises the same results with an executor.
* **Rings missing from the topology** (`rings_topology`). The walk that measures the rings of a borrowed
  topology goes over a container that grows while it cleans (`requests_topology_output.cpp:26`): rings that a
  cleanup splits off are cleaned but neither measured nor described, and the caller's writer gets none of
  them, while the tree of the same clip has them. The drawing of the run has one record, where this is all. With
  more records the container may be reallocated under the loop (`create_outrec`,
  `engine_output_owner.h:19`) and the rest is read from freed storage: for the union of (2,0)(0,2)(2,3) and
  (0,4)(2,0)(3,2) by the even-odd rule, a drawing of the run `rings`, AddressSanitizer reports a heap-use-after-free at
  `requests_topology_output.cpp:27`.
* **A bowtie taken for a rectangle** (`requests_bowtie`). The shortcut for trees of nested rectangles
  accepts every path with the four corners of its bounds (`clip_tree_fast_path.cpp:18`), in any order, and
  answers a crossing ring; `request_metadata.cpp:45` says of the same test that it is not enough.

Seen while modelling, without a run of their own:

* A tiny triangle that `check_bounds` keeps and `path64_point_count` does not fails the whole borrowed
  request with `internal_error` (`requests_topology_output.cpp:64`).
* `engine_horizontal_join_builder.cpp:38` walks a ring that lies on one y as a whole for ever.
* A horizontal run of no width is taken for a segment (`engine_horizontal_segments.cpp:16`) and a join
  with it takes away area.
* `check_split_owner` searches the splits of an emptied record without marking it
  (`engine_output_cleanup_bounds.cpp:47`); where two emptied records are in each other's splits it recurses
  until the stack is exhausted. Two of some 700,000 random clips do; one is the last drawing of the run `rings`,
  and `clip_topology_checked` of it ends the process, although it reports its other failures as codes.
* The areas that tell whether two rectangles cover their bounds are `long double`
  (`closed_clip_rectangle_operations.cpp:33`): from a side of 2^32 on, two squares that are offset by one in both directions
  are answered as one rectangle, with two corners too many. On the compiled library the union of (0,0)-(2^32,2^32)
  and (1,1)-(2^32+1,2^32+1) is (0,0)-(2^32+1,2^32+1); at 2^31 it is the right octagon.
* Under the Negative rule the single ring of a union component is given the direction opposite to the
  engine's (`clip_union_component_guards.cpp:84`); a clockwise rectangle keeps its orientation in a tree.
* A component of a union that is out of range is dropped without an error
  (`boolean_union_service.cpp:24`).
* An executor that reports success without covering all chunks loses their paths
  (`offset_group_parallel.cpp:152`); its contract (`execution.h:19`) asks it to cover them.
* An empty path in an open or joined offset group is used as if it had points.

## Not modelled

`PROJECT.json` lists every component with its reason. In short: open paths in the sweep are planned;
triangulation depends on in-circle and orientation predicates of which a small domain shows little;
128-bit and floating-point arithmetic, number formats and vector instructions are replaced by the values
they stand for; minkowski has no state; `topology_store` is used by its tests only, `stable_pool` is an
arena; delta callbacks, round and square joins, round ends and distances below one (other than 0) of
offsets; the byte and time costs of the resource plans are bounds on points and paths; the validation of
option values.

## Running the checks

    tlc -workers 2 -config MCSweepCounts.cfg MCActiveEdges.tla
    tlapm ActiveEdgesProofs.tla

Each run of `PROJECT.json` names its module and cfg. `requests`, `topology` and `intersections` take about
two minutes each, `sweep_counts` and `offset_chunks` under one, the others seconds; from nothing
`ActiveEdgesProofs`, `ActiveEdgesOutputProofs` and `OutputRingsProofs` take about ten minutes each, the other
proofs few minutes at most.
