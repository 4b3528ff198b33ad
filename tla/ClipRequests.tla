------------------------------ MODULE ClipRequests -----------------------------
(***************************************************************************)
(* The calls of the clipping interface on one thread: clip, clip_checked   *)
(* and clip_tree, the same with a prepared request, and union_paths, the   *)
(* service the offsets and the Minkowski sums are united by.  A call       *)
(* validates, tries the shortcuts, and has the rest swept by the engine    *)
(* state of the thread, which calls before it have used.  A union is cut   *)
(* into the components whose boxes do not meet.  An allocation may fail    *)
(* where the engine works: the call ends and the state stays as it is.     *)
(*                                                                         *)
(* A part of the answer the engine made is named by what was swept.        *)
(***************************************************************************)
EXTENDS ClosedClipShortcuts, EngineLoading

CONSTANTS
  Requests,  \* the requests of the calls
  Repeated,  \* bound: those that are made in sequences; each of the rest is made alone
  MaxCalls   \* bound: calls of a sequence, preparations counted

ASSUME RequestsAssumption == Repeated \subseteq Requests /\ MaxCalls \in Nat

VARIABLES
  pc,        \* the step of the call
  request,   \* its request
  todo,      \* the components of a union still to be united
  answer,    \* the rings given directly and the requests swept, or an error
  calls      \* the calls made

vars == <<engine, prepared, pc, request, todo, answer, calls>>

NoRequest == [api |-> "none"]

NotPrepared == [request |-> NoRequest, vertices |-> <<>>, minima |-> <<>>, minima_sorted |-> FALSE,
                heap |-> <<>>, cached |-> FALSE]

NoAnswer == [error |-> FALSE, rings |-> <<>>, swept |-> <<>>]

Init ==
  /\ engine = EmptyEngine /\ prepared = NotPrepared
  /\ pc = "idle" /\ request = NoRequest /\ todo = <<>> /\ answer = NoAnswer /\ calls = 0

-----------------------------------------------------------------------------
(* A call begins.                                                          *)

MayCall == pc = "idle" /\ calls < MaxCalls

Counted(q) == IF q \in Repeated THEN calls + 1 ELSE MaxCalls

Begin(q, step) ==
  /\ request' = q /\ pc' = step /\ answer' = NoAnswer
  /\ UNCHANGED <<engine, prepared, todo>>

\* Unchecked calls rely on their caller for the range of the coordinates.
Call(q) ==
  /\ MayCall /\ (q.checked \/ q.in_range) /\ q.api # "union" /\ calls' = Counted(q)
  /\ Begin(q, IF q.checked THEN "validate" ELSE "shortcut")

UnionCall(q) ==
  MayCall /\ q.api = "union" /\ q.in_range /\ calls' = Counted(q) /\ Begin(q, "group")

\* The prepared request is called with: its own options decide.
PreparedCall(checked) ==
  /\ prepared # NotPrepared /\ MayCall /\ calls' = calls + 1
  /\ Begin([prepared.request EXCEPT !.api = "prepared", !.checked = checked],
           IF checked THEN "validate" ELSE "shortcut")
  /\ checked \/ prepared.request.in_range

Validate ==
  /\ pc = "validate"
  /\ IF request.in_range THEN pc' = "shortcut" /\ UNCHANGED answer
     ELSE pc' = "idle" /\ answer' = [NoAnswer EXCEPT !.error = TRUE]
  /\ UNCHANGED <<engine, prepared, request, todo, calls>>

-----------------------------------------------------------------------------
(* Preparing a request.                                                    *)

\* The shape of which prepare_clip_request keeps the exact result: lines
\* clipped by one path.
CanCacheExactResult(q) ==
  /\ q.clip_type = "intersection" /\ q.fill_rule = "nonzero"
  /\ q.subjects = <<>> /\ q.open_subjects # <<>> /\ Len(q.clips) = 1
  /\ q.preserve_collinear /\ ~ q.reverse_solution

PreparedFrom(q) ==
  LET held == Loaded(q, "prepared")
      point(minimum) == held.vertices[minimum.path].points[minimum.at]
      minima == Sorted(held.minima, point)
  IN  IF ~ q.in_range THEN [NotPrepared EXCEPT !.request = q] ELSE
      [request |-> q, vertices |-> held.vertices, minima |-> minima, minima_sorted |-> TRUE,
       heap |-> HeapOf(minima, point), cached |-> CanCacheExactResult(q)]

\* An exact result is computed by the engine of the thread, as a call would.
Prepare(q) ==
  /\ MayCall /\ q \in Repeated /\ q.api = "clip" /\ calls' = calls + 1
  /\ \E data \in {PreparedFrom(q)} : prepared' = data
  /\ IF q.in_range /\ CanCacheExactResult(q)
     THEN request' = [q EXCEPT !.api = "cache"] /\ pc' = "engine" /\ answer' = NoAnswer
     ELSE UNCHANGED <<request, pc, answer>>
  /\ UNCHANGED <<engine, todo>>

\* The owner lets go of the prepared request.
Destroy ==
  /\ pc = "idle" /\ prepared # NotPrepared /\ prepared' = NotPrepared
  /\ UNCHANGED <<engine, pc, request, todo, answer, calls>>

release_clip_thread_state ==
  /\ pc = "idle" /\ engine' = [EmptyEngine EXCEPT !.sorted = engine.sorted]
  /\ UNCHANGED <<prepared, pc, request, todo, answer, calls>>

-----------------------------------------------------------------------------
(* Answers without the engine.                                             *)

ShortcutsOf(q) ==
  IF q.api = "tree" THEN try_execute_nested_rectangle_union_tree(q)
  ELSE try_execute_closed_clip_fast_path(q)

Shortcut ==
  /\ pc = "shortcut"
  /\ \E answers \in {ShortcutsOf(request)} :
       IF answers = Declined THEN pc' = "engine" /\ UNCHANGED answer
       ELSE pc' = "idle" /\ \E rings \in answers : answer' = [answer EXCEPT !.rings = rings]
  /\ UNCHANGED <<engine, prepared, request, todo, calls>>

-----------------------------------------------------------------------------
(* The components of a union: a forest over the paths, joined where boxes  *)
(* meet, found by a sweep from the left.                                   *)

Root(parents, k) ==
  LET up[n \in Nat] == IF n = 0 THEN k ELSE parents[up[n - 1]]
  IN  up[Len(parents)]

merge_union_components(parents, i, j) ==
  LET roots == {Root(parents, i), Root(parents, j)}
  IN  [parents EXCEPT ![Max(roots)] = Min(roots)]

LeftToRight(boxes) ==
  SetToSortSeq(DOMAIN boxes,
    LAMBDA i, j : \/ boxes[i].left < boxes[j].left
                  \/ boxes[i].left = boxes[j].left /\ boxes[i].right < boxes[j].right
                  \/ boxes[i].left = boxes[j].left /\ boxes[i].right = boxes[j].right /\ i < j)

\* The boxes to the left of which the sweep has not passed are active.
MeetActive(forest, boxes, k) ==
  LET active == SelectSeq(forest.active, LAMBDA i : boxes[i].right >= boxes[k].left)
      touching == SelectSeq(active, LAMBDA i : Intersects(boxes[i], boxes[k]))
  IN  [parents |-> FoldLeft(LAMBDA parents, i : merge_union_components(parents, i, k), forest.parents, touching),
       active |-> Append(active, k)]

group_union_components_by_bounds(boxes) ==
  LET forest == FoldLeft(LAMBDA so_far, k : MeetActive(so_far, boxes, k),
                         [parents |-> [k \in DOMAIN boxes |-> k], active |-> <<>>], LeftToRight(boxes))
      members(root) == SetToSortSeq({k \in DOMAIN boxes : Root(forest.parents, k) = root}, <)
  IN  SelectSeq([root \in DOMAIN boxes |-> members(root)], LAMBDA component : component # <<>>)

\* Empty paths belong to no component.
ComponentsOf(paths) ==
  LET drawn == SelectSeq(paths, LAMBDA path : path # <<>>)
      components == group_union_components_by_bounds([k \in DOMAIN drawn |-> Bounds(drawn[k])])
  IN  IF ~ request.decompose \/ Len(paths) < 2 \/ Len(components) <= 1 THEN <<paths>>
      ELSE [c \in DOMAIN components |-> [k \in DOMAIN components[c] |-> drawn[components[c][k]]]]

Group ==
  /\ pc = "group" /\ pc' = "component" /\ todo' = ComponentsOf(request.subjects)
  /\ UNCHANGED <<engine, prepared, request, answer, calls>>

TakeComponent ==
  /\ pc = "component"
  /\ IF todo = <<>> THEN pc' = "idle" /\ UNCHANGED <<todo, answer>>
     ELSE \E direct \in {IF Len(todo[1]) # 1 THEN Declined
                         ELSE try_return_singleton_component_direct(todo[1][1], request)} :
            IF direct = Declined THEN pc' = "engine" /\ UNCHANGED <<todo, answer>>
            ELSE /\ pc' = "component" /\ todo' = Tail(todo)
                 /\ \E ring \in direct : answer' = [answer EXCEPT !.rings = Append(@, ring)]
  /\ UNCHANGED <<engine, prepared, request, calls>>

-----------------------------------------------------------------------------
(* Answers by the engine.                                                  *)

\* What the engine is given: the request, or one component of a union.
SweptRequest ==
  IF request.api # "union" THEN request
  ELSE [request EXCEPT !.clip_type = "union", !.subjects = todo[1], !.clips = <<>>, !.open_subjects = <<>>]

CachedResult == request.api = "prepared" /\ prepared.cached

TakeCachedResult ==
  /\ pc = "engine" /\ CachedResult
  /\ pc' = "idle" /\ answer' = [answer EXCEPT !.swept = Append(@, prepared.request)]
  /\ UNCHANGED <<engine, prepared, request, todo, calls>>

Load ==
  /\ pc = "engine" /\ ~ CachedResult /\ pc' = "loaded"
  /\ engine' = IF request.api = "prepared" THEN WithPrepared(reset_engine_state_for_reuse)
               ELSE WithPaths(reset_engine_state_for_reuse, SweptRequest)
  /\ UNCHANGED <<prepared, request, todo, answer, calls>>

StartSweep ==
  /\ pc = "loaded" /\ pc' = "sweep" /\ engine' = reset_engine_state
  /\ UNCHANGED <<prepared, request, todo, answer, calls>>

SweepScanline ==
  /\ pc = "sweep" /\ request.clip_type # "noclip" /\ engine.sweep.scanlines # <<>>
  /\ \E sweep \in {Scanned(HeapFront)} : engine' = [engine EXCEPT !.sweep = sweep]
  /\ UNCHANGED <<prepared, pc, request, todo, answer, calls>>

EndSweep ==
  /\ pc = "sweep" /\ (request.clip_type = "noclip" \/ engine.sweep.scanlines = <<>>)
  /\ engine' = cleanup_engine_state
  /\ answer' = [answer EXCEPT !.swept = Append(@, SweptRequest)]
  /\ IF request.api = "union" THEN pc' = "component" /\ todo' = Tail(todo)
     ELSE pc' = "idle" /\ UNCHANGED todo
  /\ UNCHANGED <<prepared, request, calls>>

\* A request whose result was to be kept is not there if it cannot be made.
AllocationFails ==
  /\ pc \in {"loaded", "sweep"}
  /\ pc' = "idle" /\ todo' = <<>> /\ answer' = [NoAnswer EXCEPT !.error = TRUE]
  /\ prepared' = IF request.api = "cache" THEN NotPrepared ELSE prepared
  /\ UNCHANGED <<engine, request, calls>>

\* The calls of the thread.
Calls ==
  \/ \E q \in IF calls = 0 THEN Requests ELSE Repeated : Call(q) \/ UnionCall(q) \/ Prepare(q)
  \/ \E checked \in BOOLEAN : PreparedCall(checked)
  \/ Destroy
  \/ Validate \/ Shortcut \/ Group \/ TakeComponent
  \/ TakeCachedResult \/ Load \/ StartSweep \/ SweepScanline \/ EndSweep \/ AllocationFails

Next == Calls \/ release_clip_thread_state

Spec == Init /\ [][Next]_vars
-----------------------------------------------------------------------------
(* What a call promises.                                                   *)

Filled(fill_rule, winding) ==
  CASE fill_rule = "evenodd" -> winding % 2 = 1
    [] fill_rule = "nonzero" -> winding # 0
    [] fill_rule = "positive" -> winding > 0
    [] fill_rule = "negative" -> winding < 0

\* Is s in the region the request asks for?
Within(q, s) ==
  LET subject == Filled(q.fill_rule, WindingOfAll(s, q.subjects))
      clip == Filled(q.fill_rule, WindingOfAll(s, q.clips))
  IN  CASE q.clip_type = "intersection" -> subject /\ clip
        [] q.clip_type = "union" -> subject \/ clip
        [] q.clip_type = "difference" -> subject /\ ~ clip
        [] q.clip_type = "xor" -> subject # clip
        [] q.clip_type = "noclip" -> FALSE

TimesAnswered(s, sense) ==
  sense * WindingOfAll(s, answer.rings)
    + Cardinality({n \in DOMAIN answer.swept : Within(answer.swept[n], s)})

Answered == pc = "idle" /\ request # NoRequest /\ ~ answer.error

\* A ring the engine did not make keeps the direction of its path in a tree
\* and in a union; elsewhere it is that of a solution.
Senses == IF request.api \in {"tree", "union"} THEN {1, -1} ELSE {1}

-----------------------------------------------------------------------------
(* Safety.                                                                 *)

VertexIsLive(minimum) ==
  /\ minimum.path \in DOMAIN Storage(minimum.storage)
  /\ minimum.at \in DOMAIN Storage(minimum.storage)[minimum.path].points

\* While the engine works on a request its local minima point at vertices
\* that are there: at its own, or at those of a prepared request that has not
\* been destroyed since.  The state of the thread is used over and over, by
\* requests of both kinds, and keeps its minima after a call, and after one
\* that failed also its precomputed scanlines.
EngineUsesLiveVertices ==
  pc \in {"loaded", "sweep"} =>
    \A n \in DOMAIN engine.minima : VertexIsLive(engine.minima[n])

\* The edges of the paths of a request that the engine has to sweep: all of
\* those of a path that has a local minimum.
EdgesToSweep ==
  LET paths == {<<engine.minima[n].storage, engine.minima[n].path, engine.minima[n].is_open>> :
                  n \in DOMAIN engine.minima}
      edges(p) == 1 .. Len(Storage(p[1])[p[2]].points) - (IF p[3] THEN 1 ELSE 0)
  IN  UNION {{[storage |-> p[1], path |-> p[2], from |-> k] : k \in edges(p)} : p \in paths}

IsHeap(values) == \A k \in 2 .. Len(values) : values[k \div 2] >= values[k]

\* The sweep misses nothing and goes nowhere twice: whatever the thread's
\* state was used for before, and whether the minima were sorted and the
\* scanlines computed now or when the request was prepared, the scanlines are
\* a heap to begin with, no local minimum is left behind, and in the end
\* every edge of every path has been swept once and every bound has ended.
EverythingIsSwept ==
  /\ pc = "sweep" /\ engine.sweep.next_minimum = 1 => IsHeap(engine.sweep.scanlines)
  /\ pc = "sweep" /\ request.clip_type # "noclip" /\ engine.sweep.scanlines = <<>> =>
       /\ engine.sweep.next_minimum = Len(engine.minima) + 1 /\ engine.sweep.bounds = {}
       /\ Range(engine.sweep.swept) = EdgesToSweep
       /\ Len(engine.sweep.swept) = Cardinality(EdgesToSweep)

\* A call answers the region it was asked for, once: the rings given without
\* the engine and the parts the engine swept lie apart and cover what the
\* operation makes of the filled paths, and nothing else.
AnswerCoversRegion ==
  Answered =>
    \E sense \in Senses :
      \A s \in Samples(request.subjects \o request.clips) :
        TimesAnswered(s, sense) = IF Within(request, s) THEN 1 ELSE 0

\* A ring given without the engine does not cross itself: the comments of
\* the shortcuts say that "passthrough must only ever emit provably simple
\* rings" and that a bowtie is not a rectangle.
DirectRingsAreSimple ==
  Answered =>
    \A n \in DOMAIN answer.rings :
      \A j, k \in DOMAIN answer.rings[n] :
        ~ ProperlyIntersect(answer.rings[n][j], PointAfter(answer.rings[n], j),
                            answer.rings[n][k], PointAfter(answer.rings[n], k))
=============================================================================
