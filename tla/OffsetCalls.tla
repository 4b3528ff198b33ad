------------------------------ MODULE OffsetCalls ------------------------------
(***************************************************************************)
(* One call of an offset: through offset_stage_checked, which reads its    *)
(* groups twice from the caller and may have an executor; offset_checked,  *)
(* which has one group of its own; or the builder, which may answer with a *)
(* tree.  The groups are generated one after the other (OffsetGroup), the  *)
(* distance of the state going from each to the next, and the rings are    *)
(* answered as they are or put through a union.                            *)
(*                                                                         *)
(* The union is the clip of other modules: here what it answers is the     *)
(* rings with the rule they are filled by.  The limits on bytes and on the *)
(* work of the engine are, like those kept here, bounds on points.         *)
(***************************************************************************)
EXTENDS OffsetGroup

CONSTANTS
  Requests,                 \* the requests a call is made with
  MaximumInputPaths,        \* limits.maximum_input_path_count
  MaximumInputPoints,       \* limits.maximum_input_point_count
  MaximumCleanupPoints,     \* the points whose union is within the engine limits
  MaximumOutputPoints,      \* limits.maximum_output_point_count
  ScanLimit,                \* direct_nonconvex_path_scan_limit
  PreparedScanLimit,        \* prepared_simple_path_scan_limit
  DisjointLimit,            \* direct_disjoint_simple_path_count_limit
  PreparedDisjointLimit     \* prepared_disjoint_path_count_limit

Paths == Seq(Seq([x : Int, y : Int]))

\* A group as the caller shows it: its paths, and those of the second reading.
ShownGroup ==
  [paths : Paths, again : Paths, join_type : {"Miter", "Bevel"},
   end_type : {"Polygon", "Joined", "Butt", "Square"}]

ASSUME OffsetCallsAssumption ==
  /\ {MaximumInputPaths, MaximumInputPoints, MaximumCleanupPoints, MaximumOutputPoints,
      ScanLimit, PreparedScanLimit, DisjointLimit, PreparedDisjointLimit} \subseteq Nat
  /\ \A q \in Requests :
       /\ q.groups \in Seq(ShownGroup) /\ q.limit \in Nat /\ q.delta \in Int
       /\ q.entry \in {"stage", "owning", "builder"}
       /\ q.entry # "stage" => q.limit = 1
       /\ q.tree => q.entry = "builder"
       /\ q.entry = "owning" => Len(q.groups) = 1

VARIABLES
  request,   \* the entry, the groups, the distance, the options and the executor
  at,        \* where the call is
  read,      \* the groups that were read
  groups,    \* std::vector<offset_group>
  next,      \* the group that is generated
  solution,  \* the rings of the groups before it
  reply      \* what the call answers

call_vars == <<request, at, read, groups, next, solution, reply>>

vars == <<group_vars, call_vars>>

IsStage == request.entry = "stage"

Count(paths) == SumFunctionOnSet([i \in DOMAIN paths |-> Len(paths[i])], DOMAIN paths)

Init ==
  /\ GroupInit
  /\ request \in Requests
  /\ limit = request.limit
  /\ at = "collecting" /\ read = 0 /\ groups = <<>>
  /\ next = 1 /\ solution = <<>>
  /\ reply = [kind |-> "none"]

-----------------------------------------------------------------------------
(* What a call answers.                                                    *)

\* An error leaves nothing of the groups in the output.
Fail(error) ==
  /\ at' = "done" /\ reply' = [kind |-> "error", error |-> error]
  /\ solution' = <<>>

\* The stage looks at the size of what it answers.
Deliver(paths, is_direct) ==
  IF IsStage /\ Count(paths) > MaximumOutputPoints THEN Fail("resource_limit")
  ELSE /\ at' = "done" /\ solution' = <<>>
       /\ reply' = [kind |-> "paths", paths |-> paths, direct |-> is_direct]

\* The union may fail, and its answer may be too large for the stage.
DeliverUnion(rings, is_reversed_orientation) ==
  \/ IsStage /\ Fail("resource_limit")
  \/ /\ at' = "done" /\ solution' = <<>>
     /\ reply' = [kind |-> "union", rings |-> rings,
                  fill_rule |-> IF is_reversed_orientation THEN "negative" ELSE "positive"]

-----------------------------------------------------------------------------
(* The groups.                                                             *)

\* A group with the paths the caller showed.
Collected(g, paths) ==
  [paths |-> [i \in DOMAIN paths |-> CleanPath(paths[i], is_closed_path(g.end_type))],
   join_type |-> g.join_type, end_type |-> g.end_type]

\* copy_path: the second reading of a path, with the sizes of the first.
IsPathChanged(g, i) ==
  \/ Len(g.again[i]) # Len(g.paths[i])
  \/ Len(CleanPath(g.again[i], TRUE)) # Len(CleanPath(g.paths[i], TRUE))

PathError(g, i) ==
  IF IsPathChanged(g, i) THEN "input_changed"
  ELSE IF ~ InRange(<<g.again[i]>>) THEN "coordinate_range" ELSE "ok"

\* collect_group, after the groups before it.
CollectError(n) ==
  LET g == request.groups[n]
      read_so_far == FlattenSeq([k \in 1 .. n |-> request.groups[k].paths])
      bad == {i \in DOMAIN g.paths : PathError(g, i) # "ok"}
  IN  IF Len(read_so_far) > MaximumInputPaths \/ Count(read_so_far) > MaximumInputPoints
      THEN "resource_limit"
      ELSE IF Len(g.again) # Len(g.paths) THEN "input_changed"
      ELSE IF bad # {} THEN PathError(g, Min(bad)) ELSE "ok"

\* One group of the loop of execute_borrowed_offset_stage.
CollectGroup ==
  /\ at = "collecting" /\ IsStage /\ read < Len(request.groups)
  /\ LET g == request.groups[read + 1]
     IN  IF CollectError(read + 1) # "ok"
         THEN Fail(CollectError(read + 1)) /\ UNCHANGED <<read, groups>>
         ELSE /\ read' = read + 1
              /\ groups' = groups \o (IF g.again = <<>> THEN <<>> ELSE <<Collected(g, g.again)>>)
              /\ UNCHANGED <<at, solution, reply>>
  /\ UNCHANGED <<request, next, group_vars>>

\* offset_checked, and the calls of add of the builder.
MakeGroups ==
  /\ at = "collecting" /\ ~ IsStage /\ read < Len(request.groups)
  /\ IF request.entry = "owning" /\ ~ InRange(request.groups[1].paths)
     THEN Fail("coordinate_range") /\ UNCHANGED <<read, groups>>
     ELSE IF request.entry = "owning" /\ request.delta = 0
     THEN Deliver(request.groups[1].paths, FALSE) /\ UNCHANGED <<read, groups>>
     ELSE /\ read' = Len(request.groups)
          /\ groups' = FlattenSeq([n \in DOMAIN request.groups |->
                          LET g == request.groups[n]
                          IN  IF g.paths = <<>> THEN <<>> ELSE <<Collected(g, g.paths)>>])
          /\ UNCHANGED <<at, solution, reply>>
  /\ UNCHANGED <<request, next, group_vars>>

-----------------------------------------------------------------------------
(* execute_offset_algorithm.                                               *)

\* A distance of 0 copies the paths; a tree is a union of the copies.
StartGeneration ==
  /\ at = "collecting" /\ read = Len(request.groups)
  /\ LET copies == FlattenSeq([n \in DOMAIN groups |-> groups[n].paths])
     IN  IF groups = <<>> \/ (request.delta = 0 /\ ~ request.tree)
         THEN Deliver(copies, FALSE) /\ UNCHANGED <<next, state_delta>>
         ELSE /\ at' = "generating"
              /\ IF request.delta = 0
                 THEN next' = Len(groups) + 1 /\ solution' = copies /\ state_delta' = 0
                 ELSE state_delta' = request.delta /\ UNCHANGED <<next, solution>>
              /\ UNCHANGED reply
  /\ UNCHANGED <<request, read, groups, group, limit, delta, pc, chunks, remaining_points, results, answer>>

LoadGroup ==
  /\ at = "generating" /\ next <= Len(groups)
  /\ CallGroup(groups[next])
  /\ UNCHANGED call_vars

TakeRings ==
  /\ at = "generating" /\ GroupIsDone
  /\ IF answer.kind = "rings"
     THEN next' = next + 1 /\ solution' = solution \o answer.of /\ UNCHANGED <<at, reply>>
     ELSE /\ Fail(IF answer = Raised THEN "coordinate_range" ELSE "executor_failure")
          /\ UNCHANGED next
  /\ UNCHANGED <<request, read, groups>>

\* check_reverse_orientation: that of the first group of polygons.
paths_reversed ==
  LET polygons == {n \in DOMAIN groups : groups[n].end_type = "Polygon"}
  IN  polygons # {} /\ is_reversed(groups[Min(polygons)])

matches_fill_orientation(path) == is_positive(path) # paths_reversed

IsSimpleShell(path, scan_limit) ==
  Len(path) >= 3 /\ matches_fill_orientation(path) /\ path_is_provably_simple(path, scan_limit)

pairwise_bbox_disjoint(paths) ==
  \A i, j \in DOMAIN paths : i < j => ~ Intersects(Bounds(paths[i]), Bounds(paths[j]))

\* What both shortcuts ask of the call.
MayAnswerDirectly ==
  /\ ~ request.tree /\ request.delta > 0 /\ ~ request.preserve_collinear
  /\ Len(groups) = 1 /\ groups[1].end_type = "Polygon"

can_return_direct_simple ==
  /\ MayAnswerDirectly /\ Len(groups[1].paths) = 1
  /\ Len(solution) = 1 /\ IsSimpleShell(solution[1], ScanLimit)

\* Mutant: the bounds of the rings are not looked at.
DisjointWithoutBounds ==
  /\ MayAnswerDirectly /\ Len(solution) \in 2 .. DisjointLimit
  /\ \A k \in DOMAIN solution : IsSimpleShell(solution[k], ScanLimit)

can_return_direct_disjoint ==
  /\ MayAnswerDirectly /\ Len(solution) \in 2 .. DisjointLimit
  /\ \A k \in DOMAIN solution : IsSimpleShell(solution[k], ScanLimit)
  /\ pairwise_bbox_disjoint(solution)

Trimmed == [k \in DOMAIN solution |-> trim_collinear_closed_component(solution[k])]

\* try_prepare_direct_disjoint_simple_offset, which only the stage tries.
can_prepare_direct_disjoint ==
  /\ IsStage /\ MayAnswerDirectly /\ Len(solution) \in 2 .. PreparedDisjointLimit
  /\ \A k \in DOMAIN solution :
       Len(solution[k]) >= 3 /\ IsSimpleShell(Trimmed[k], PreparedScanLimit)
  /\ pairwise_bbox_disjoint(Trimmed)

\* The ring from its rightmost point on, the lowest of them.
StartingRight(path) ==
  LET first == Min({k \in DOMAIN path : \A j \in DOMAIN path :
                      path[j].x < path[k].x \/ (path[j].x = path[k].x /\ path[j].y <= path[k].y)})
  IN  SubSeq(path, first, Len(path)) \o SubSeq(path, 1, first - 1)

canonicalize_direct_offset_solution(paths) ==
  [k \in DOMAIN paths |->
     StartingRight(IF request.reverse_solution # paths_reversed THEN Reverse(paths[k]) ELSE paths[k])]

Finish ==
  /\ at = "generating" /\ pc = "idle" /\ next > Len(groups)
  /\ IF solution = <<>> THEN Deliver(<<>>, FALSE)
     ELSE IF ~ InRange(solution) THEN Fail("coordinate_range")
     ELSE IF can_return_direct_simple \/ can_return_direct_disjoint
     THEN Deliver(canonicalize_direct_offset_solution(solution), TRUE)
     ELSE IF can_prepare_direct_disjoint
     THEN Deliver(canonicalize_direct_offset_solution(Trimmed), TRUE)
     ELSE IF IsStage /\ Count(solution) > MaximumCleanupPoints THEN Fail("resource_limit")
     ELSE DeliverUnion(solution, paths_reversed)
  /\ UNCHANGED <<request, read, groups, next, group_vars>>

Next ==
  \/ CollectGroup \/ MakeGroups \/ StartGeneration
  \/ LoadGroup \/ (GroupStep /\ UNCHANGED call_vars) \/ TakeRings
  \/ Finish

Spec == Init /\ [][Next]_vars

-----------------------------------------------------------------------------
(* What an offset is: the cells inside the polygons, and those within the  *)
(* distance of the paths.                                                  *)

Distance == Abs(request.delta)

IsAnswered == reply.kind \in {"paths", "union"}

Rings == IF reply.kind = "paths" THEN reply.paths ELSE reply.rings

\* The points of the grid on a path.
PointsOn(path, end_type) ==
  LET points(a, b) == [x : Min({a.x, b.x}) .. Max({a.x, b.x}), y : Min({a.y, b.y}) .. Max({a.y, b.y})]
  IN  UNION {points(path[k], path[Min({k + 1, Len(path)})]) : k \in DOMAIN path}
        \cup (IF is_closed_path(end_type) /\ path # <<>> THEN points(Last(path), path[1]) ELSE {})

PointsOnPaths ==
  UNION {UNION {PointsOn(groups[n].paths[i], groups[n].end_type) :
                  i \in DOMAIN groups[n].paths} : n \in DOMAIN groups}

\* A cell is named by its point that is least in both coordinates.
Cells ==
  LET near(values) == IF values = {} THEN {} ELSE Min(values) - Distance - 1 .. Max(values) + Distance
  IN  [x : near({p.x : p \in PointsOnPaths}), y : near({p.y : p \in PointsOnPaths})]

WindingIn(cell, paths) ==
  WindingOfAll([x |-> Parts * cell.x + 100, y |-> Parts * cell.y + 23], paths)

Covered ==
  {c \in Cells : LET w == WindingIn(c, Rings)
                 IN  IF reply.kind = "paths" THEN w # 0
                     ELSE IF reply.fill_rule = "negative" THEN w < 0 ELSE w > 0}

Near ==
  {c \in Cells : \E p \in [x : c.x - Distance + 1 .. c.x + Distance,
                           y : c.y - Distance + 1 .. c.y + Distance] : p \in PointsOnPaths}

Polygons ==
  FlattenSeq([n \in DOMAIN groups |->
    SelectSeq(groups[n].paths, LAMBDA path : groups[n].end_type = "Polygon" /\ Len(path) >= 3)])

Inside == {c \in Cells : WindingIn(c, Polygons) # 0}

\* The groups an offset is defined for: polygons that wind round every cell
\* once at most, all in the direction of the first group, and no group of
\* another kind with polygons of the other direction.
AreRegular ==
  /\ \A c \in Cells : WindingIn(c, Polygons) \in {0, IF paths_reversed THEN -1 ELSE 1}
  /\ \A n \in DOMAIN groups :
       IF groups[n].end_type = "Polygon"
       THEN has_lowest_path(groups[n]) => is_reversed(groups[n]) = paths_reversed
       ELSE ~ paths_reversed
  /\ request.delta < 0 => Len(groups) = 1

\* A path of two points in a joined group changes the ends of the others.
HasJoinedTwoPoints ==
  \E n \in DOMAIN groups :
    groups[n].end_type = "Joined" /\ \E i \in DOMAIN groups[n].paths : Len(groups[n].paths[i]) = 2

\* Mitered corners and square ends reach as far as the distance everywhere.
ReachesAll == \A n \in DOMAIN groups : groups[n].join_type = "Miter" /\ groups[n].end_type # "Butt"

\* Polygons lose what is near their border when the distance is negative;
\* everything else grows, and what the answer covers lies between the
\* polygons and the offset, which it reaches if its joins and ends do.
IsTheOffset ==
  IF request.delta < 0 /\ \E n \in DOMAIN groups : has_lowest_path(groups[n])
  THEN /\ Inside \ Near \subseteq Covered /\ Covered \subseteq Inside
       /\ ReachesAll => Covered = Inside \ Near
  ELSE /\ Inside \subseteq Covered /\ Covered \subseteq Inside \cup Near
       /\ ReachesAll => Covered = Inside \cup Near

\* Whatever the entry, the executor and the shortcut, the rings of a call
\* cover the offset of the paths it read: joins on either side, ends, caps,
\* the walk back, the direction of the polygons and the fill of the union
\* fit together.
AnswerIsTheOffset ==
  IsAnswered /\ request.delta # 0 /\ groups # <<>> /\ AreRegular /\ ~ HasJoinedTwoPoints => IsTheOffset

\* output_is_disjoint_simple_shells: what is answered without a union winds
\* round every cell once at most, in the direction that was asked for.
DirectRingsCoverOnce ==
  IsAnswered /\ reply.kind = "paths" /\ reply.direct =>
    \A c \in Cells : WindingIn(c, reply.paths) \in {0, IF request.reverse_solution THEN -1 ELSE 1}
=============================================================================
