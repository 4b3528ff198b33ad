----------------------------- MODULE EngineLoading -----------------------------
(***************************************************************************)
(* How the paths of a request get into the engine's state and how the      *)
(* sweep climbs them: the vertices with their flags, the local minima, the *)
(* scanlines and the bounds that start at a minimum and end at a local     *)
(* maximum.  y grows downwards, the sweep goes from the largest to the     *)
(* smallest.  What the edges do on their way is the subject of             *)
(* ActiveEdges; here an edge is swept or not.                              *)
(*                                                                         *)
(* A local minimum points at a vertex in one of two storages: the engine's *)
(* own, or that of a prepared request.                                     *)
(***************************************************************************)
EXTENDS Integers, Sequences, FiniteSets, FiniteSetsExt, SequencesExt

VARIABLES
  engine,   \* the engine state of the thread
  prepared  \* the runtime data of the prepared request, shared by its executions

-----------------------------------------------------------------------------
(* From a path to vertices.                                                *)

\* The points of a path without repetitions, nor, if it is closed, a last
\* one that repeats the first.
VertexPoints(path, is_open) ==
  LET kept == SetToSortSeq({k \in DOMAIN path : k = 1 \/ path[k] # path[k - 1]}, <)
      points == [k \in DOMAIN kept |-> path[kept[k]]]
  IN  IF ~ is_open /\ Len(points) > 1 /\ points[1] = Last(points) THEN Front(points) ELSE points

WithFlag(loaded, k, flag) == [loaded EXCEPT !.flags[k] = @ \cup {flag}]

add_local_minimum(loaded, k) ==
  IF "local_min" \in loaded.flags[k] THEN loaded
  ELSE [WithFlag(loaded, k, "local_min") EXCEPT !.minima = Append(@, k)]

\* The first vertex after, or the last before, the first one at another height.
OtherHeights(points) == {k \in DOMAIN points : points[k].y # points[1].y}

GoesUpFrom(points, is_open) ==
  IF is_open
  THEN OtherHeights(points) = {} \/ points[Min(OtherHeights(points))].y <= points[1].y
  ELSE points[Max(OtherHeights(points))].y > points[1].y

Unflagged(points, going_up) ==
  [points |-> points, flags |-> [k \in DOMAIN points |-> {}], minima |-> <<>>, going_up |-> going_up]

Started(points) ==
  LET up == GoesUpFrom(points, TRUE)
      flagged == WithFlag(Unflagged(points, up), 1, "open_start")
  IN  IF up THEN add_local_minimum(flagged, 1) ELSE WithFlag(flagged, 1, "local_max")

\* At vertex k the path may turn at the vertex before.
TurnBefore(loaded, k) ==
  LET rise == loaded.points[k - 1].y - loaded.points[k].y
  IN  IF rise < 0 /\ loaded.going_up
        THEN [WithFlag(loaded, k - 1, "local_max") EXCEPT !.going_up = FALSE]
      ELSE IF rise > 0 /\ ~ loaded.going_up
        THEN [add_local_minimum(loaded, k - 1) EXCEPT !.going_up = TRUE]
      ELSE loaded

Ended(loaded) ==
  LET size == Len(loaded.points)
      flagged == WithFlag(loaded, size, "open_end")
  IN  IF loaded.going_up THEN WithFlag(flagged, size, "local_max") ELSE add_local_minimum(flagged, size)

RoundTheStart(loaded, going_up_initial) ==
  LET size == Len(loaded.points)
  IN  IF loaded.going_up = going_up_initial THEN loaded
      ELSE IF going_up_initial THEN add_local_minimum(loaded, size)
      ELSE WithFlag(loaded, size, "local_max")

initialize_vertex_path(points, is_open) ==
  LET size == Len(points)
      up == GoesUpFrom(points, is_open)
      walked(start) == FoldLeft(TurnBefore, start, [k \in 1 .. size - 1 |-> k + 1])
  IN  IF size < 2 \/ (size = 2 /\ ~ is_open) THEN Unflagged(points, FALSE)
      ELSE IF is_open THEN Ended(walked(Started(points)))
      ELSE IF OtherHeights(points) = {} THEN Unflagged(points, FALSE)
      ELSE RoundTheStart(walked(Unflagged(points, up)), up)

-----------------------------------------------------------------------------
(* Storages of vertices and lists of local minima.                         *)

NoVertices == [vertices |-> <<>>, minima |-> <<>>]

MinimaOf(loaded, storage, path, polytype, is_open) ==
  [n \in DOMAIN loaded.minima |->
     [storage |-> storage, path |-> path, at |-> loaded.minima[n], polytype |-> polytype, is_open |-> is_open]]

AddPath(held, path, storage, polytype, is_open) ==
  LET loaded == initialize_vertex_path(VertexPoints(path, is_open), is_open)
  IN  [vertices |-> Append(held.vertices, [points |-> loaded.points, flags |-> loaded.flags]),
       minima |-> held.minima \o MinimaOf(loaded, storage, Len(held.vertices) + 1, polytype, is_open)]

add_paths_to_storage(held, paths, storage, polytype, is_open) ==
  FoldLeft(LAMBDA so_far, path : IF path = <<>> THEN so_far
                                 ELSE AddPath(so_far, path, storage, polytype, is_open), held, paths)

\* The paths of a request in the order every caller adds them in.
Loaded(q, storage) ==
  add_paths_to_storage(
    add_paths_to_storage(
      add_paths_to_storage(NoVertices, q.subjects, storage, "subject", FALSE),
      q.open_subjects, storage, "subject", TRUE),
    q.clips, storage, "clip", FALSE)

Storage(name) == IF name = "own" THEN engine.vertices ELSE prepared.vertices

VertexAt(minimum, k) == Storage(minimum.storage)[minimum.path].points[k]

FlagsAt(minimum, k) == Storage(minimum.storage)[minimum.path].flags[k]

\* Bottom up, then from the left; equal ones keep their order.
Sorted(minima, At(_)) ==
  LET before(i, j) == \/ At(minima[i]).y > At(minima[j]).y
                      \/ At(minima[i]).y = At(minima[j]).y /\ At(minima[i]).x < At(minima[j]).x
                      \/ At(minima[i]) = At(minima[j]) /\ i < j
      order == SetToSortSeq(DOMAIN minima, before)
  IN  [n \in DOMAIN minima |-> minima[order[n]]]

\* The heights of a list of minima, one of each run of equal ones.
HeapOf(minima, At(_)) ==
  LET runs == SetToSortSeq({n \in DOMAIN minima : n = 1 \/ At(minima[n]).y # At(minima[n - 1]).y}, <)
  IN  [r \in DOMAIN runs |-> At(minima[runs[r]]).y]

-----------------------------------------------------------------------------
(* The engine's state.                                                     *)

NoSweep == [scanlines |-> <<>>, next_minimum |-> 1, bounds |-> {}, swept |-> <<>>]

EmptyEngine ==
  [vertices |-> <<>>, minima |-> <<>>, sorted |-> FALSE, precomputed |-> <<>>, sweep |-> NoSweep]

cleanup_engine_state == [engine EXCEPT !.precomputed = <<>>, !.sweep = NoSweep]

\* As if a state were fit for reuse after the clean-up of a call.
ReusedAsItIs == cleanup_engine_state

reset_engine_state_for_reuse == EmptyEngine

\* As if paths added to a state left its list of minima sorted.
WithPathsStillSorted(acquired, q) ==
  LET held == Loaded(q, "own")
  IN  [acquired EXCEPT !.sorted = TRUE, !.vertices = @ \o held.vertices, !.minima = @ \o held.minima]

\* The state after a request's paths have been added to an acquired state.
WithPaths(acquired, q) ==
  LET held == Loaded(q, "own")
  IN  [acquired EXCEPT !.sorted = FALSE, !.vertices = @ \o held.vertices, !.minima = @ \o held.minima]

\* The state after the minima of the prepared request have been appended.
WithPrepared(acquired) ==
  [acquired EXCEPT !.minima = @ \o prepared.minima, !.sorted = prepared.minima_sorted,
                   !.precomputed = prepared.heap]

HeightOf(minimum) == VertexAt(minimum, minimum.at).y

reset_engine_state ==
  LET point(minimum) == VertexAt(minimum, minimum.at)
      minima == IF engine.sorted THEN engine.minima ELSE Sorted(engine.minima, point)
  IN  [engine EXCEPT
         !.minima = minima, !.sorted = TRUE,
         !.sweep = [NoSweep EXCEPT !.scanlines =
                      IF engine.precomputed # <<>> THEN engine.precomputed ELSE HeapOf(minima, point)]]

-----------------------------------------------------------------------------
(* The climb.  The scanlines are a heap; a pop takes its front and every   *)
(* copy of it.                                                             *)

NextAt(minimum, k, direction) ==
  LET size == Len(Storage(minimum.storage)[minimum.path].points)
  IN  IF direction = 1 THEN IF k = size THEN 1 ELSE k + 1
      ELSE IF k = 1 THEN size ELSE k - 1

Bound(minimum, direction) ==
  [minimum |-> minimum, direction |-> direction, top |-> NextAt(minimum, minimum.at, direction)]

BoundsOf(minimum) ==
  {Bound(minimum, direction) : direction \in
     {d \in {-1, 1} : (IF d = -1 THEN "open_start" ELSE "open_end") \notin FlagsAt(minimum, minimum.at)}}

TopHeight(bound) == VertexAt(bound.minimum, bound.top).y

IsMaxima(bound) == "local_max" \in FlagsAt(bound.minimum, bound.top)

update_edge_into_ael(bound) == [bound EXCEPT !.top = NextAt(bound.minimum, bound.top, bound.direction)]

\* The edge a bound is on, named by the vertex it begins at in the path.
EdgeOf(bound) ==
  [storage |-> bound.minimum.storage, path |-> bound.minimum.path,
   from |-> IF bound.direction = 1 THEN NextAt(bound.minimum, bound.top, -1) ELSE bound.top]

\* What becomes of a bound whose top is at height y: it goes on until it
\* ends or leaves that height.  The edges it sweeps on the way come with it.
Ride(bound, y) ==
  LET size == Len(Storage(bound.minimum.storage)[bound.minimum.path].points)
      onward(b) == IF TopHeight(b) # y \/ IsMaxima(b) THEN b ELSE update_edge_into_ael(b)
      ride[n \in 0 .. size] == IF n = 0 THEN bound ELSE onward(ride[n - 1])
      ends == Min({n \in 0 .. size : onward(ride[n]) = ride[n]})
  IN  [bounds |-> {b \in {ride[ends]} : TopHeight(b) # y},
       swept |-> [n \in 1 .. ends |-> EdgeOf(ride[n])]]

\* The minima that are popped at height y: as many as are next in the list.
PoppedMinima(y) ==
  LET from == engine.sweep.next_minimum
      ends == {n \in from .. Len(engine.minima) : HeightOf(engine.minima[n]) # y}
  IN  from .. (IF ends = {} THEN Len(engine.minima) ELSE Min(ends) - 1)

\* One scanline: the bounds that end there or go on, and the new ones.
Scanned(y) ==
  LET arriving == {bound \in engine.sweep.bounds : TopHeight(bound) = y}
      starting == UNION {BoundsOf(engine.minima[n]) : n \in PoppedMinima(y)}
      entered == SetToSeq(starting)
      going == SetToSeq(arriving) \o entered
      rides == [n \in DOMAIN going |-> Ride(going[n], y)]
      riding == UNION {rides[n].bounds : n \in DOMAIN rides}
      remaining == SelectSeq(engine.sweep.scanlines, LAMBDA height : height # y)
  IN  [scanlines |-> remaining \o SetToSeq({TopHeight(bound) : bound \in riding}),
       next_minimum |-> engine.sweep.next_minimum + Cardinality(PoppedMinima(y)),
       bounds |-> (engine.sweep.bounds \ arriving) \cup riding,
       swept |-> engine.sweep.swept \o [n \in DOMAIN entered |-> EdgeOf(entered[n])]
                   \o FlattenSeq([n \in DOMAIN rides |-> rides[n].swept])]

HeapFront == Max(Range(engine.sweep.scanlines))
=============================================================================
