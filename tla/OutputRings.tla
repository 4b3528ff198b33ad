------------------------------ MODULE OutputRings ------------------------------
(***************************************************************************)
(* The output of the engine after its sweep: the rings of output points    *)
(* and the output records that own them.  Horizontal segments are paired   *)
(* into joins while the sweep goes on; when it is over the joins are       *)
(* processed, every ring is cleaned of collinear points and of crossings   *)
(* with itself, and the answer is built: the closed paths, a tree of       *)
(* paths, or the rings of the borrowed topology.                           *)
(*                                                                         *)
(* A point is named by its place in op, a record by its place in rec, and  *)
(* a null pointer is None.  The functions that call each other are frames  *)
(* of a stack; the last one runs.  Records of open paths are not here.     *)
(***************************************************************************)
EXTENDS PlaneGeometry, SequencesExt

CONSTANTS
  Drawings,  \* the outputs to begin with: points, records, segments and joins
  MaxPoints, \* bound: output points a drawing may grow to
  MaxFrames  \* bound: functions that may call each other before the stack is used up

None == 0

\* The rings are closed in both directions.
RingsIntactIn(points) ==
  \A p \in DOMAIN points :
    /\ points[p].next \in DOMAIN points /\ points[points[p].next].prev = p
    /\ points[p].prev \in DOMAIN points /\ points[points[p].prev].next = p

VARIABLES
  op,        \* the output points
  rec,       \* the output records
  options,   \* the answer asked for and preserve_collinear
  pc,        \* the step of the engine
  index,     \* the segment, join or record a loop is at
  second,    \* the second segment of a pair
  limit,     \* where a loop over the records ends
  segments,  \* the horizontal segments
  joins,     \* the horizontal joins: pairs of points
  call,      \* the stack of the cleanup functions
  returned,  \* what the last of them returned
  answer     \* the records answered, with their parents

vars == <<op, rec, options, pc, index, second, limit, segments, joins, call, returned, answer>>

using_polytree == options.answer # "paths"

-----------------------------------------------------------------------------
(* Rings and records.                                                      *)

\* Where n steps from p lead.
Iterated(step, p, n) ==
  LET walk[k \in Nat] == IF k = 0 THEN p ELSE step[walk[k - 1]]
  IN  walk[n]

\* The points from p on, in the order of their links.
Ring(points, p) ==
  Iterated([ring \in Seq(DOMAIN points) |->
              IF points[Last(ring)].next = p THEN ring ELSE Append(ring, points[Last(ring)].next)],
           <<p>>, Len(points))

RingOf(points, p) == Range(Ring(points, p))

\* A loop over the points of a ring comes back to where it began.
WalkReturns(p) ==
  \A q \in RingOf(op, p) : op[q].next \in RingOf(op, p) /\ op[q].prev \in RingOf(op, p)

PathOf(points, p) ==
  LET ring == Ring(points, p)
      path[k \in Nat] == IF k = 0 THEN <<>> ELSE Append(path[k - 1], points[ring[k]].pt)
  IN  path[Len(ring)]

get_real_outrec(records, r) ==
  Iterated([o \in 0 .. Len(records) |->
              IF o # None /\ records[o].pts = None THEN records[o].owner ELSE o],
           r, Len(records))

\* The records a record belongs to, directly or not.
Owners(records, r) ==
  Iterated([owners \in SUBSET (0 .. Len(records)) |->
              owners \cup {records[o].owner : o \in owners \ {None}}],
           {records[r].owner}, Len(records)) \ {None}

\* What the sweep leaves: closed rings, and records of which the emptied ones
\* were joined to one made before.
ASSUME DrawingsAssumption ==
  /\ MaxPoints \in Nat /\ MaxFrames \in Nat
  /\ \A d \in Drawings :
       /\ d.op \in Seq([pt : [x : Int, y : Int], next : Nat, prev : Nat, outrec : DOMAIN d.rec,
                        has_horizontal_segment : BOOLEAN])
       /\ RingsIntactIn(d.op)
       /\ d.rec \in Seq([owner : 0 .. Len(d.rec), has_edges : BOOLEAN, pts : 0 .. Len(d.op),
                         splits : {<<>>}, recursive_split : {None}, polygon_node : {None},
                         bounds : [left : {0}, top : {0}, right : {0}, bottom : {0}]])
       /\ \A r \in DOMAIN d.rec :
            /\ d.rec[r].pts = None => d.rec[r].owner \in 1 .. r - 1
            /\ r \notin Owners(d.rec, r)
       /\ d.segments \in Seq([left : DOMAIN d.op, right : {None}, left_to_right : BOOLEAN])
       /\ d.joins \in Seq((DOMAIN d.op) \X (DOMAIN d.op))
       /\ d.options \in [answer : {"paths", "tree", "topology"}, preserve_collinear : BOOLEAN]

NewRecord(pts, owner) ==
  [owner |-> owner, has_edges |-> FALSE, pts |-> pts, splits |-> <<>>, recursive_split |-> None,
   bounds |-> [left |-> 0, top |-> 0, right |-> 0, bottom |-> 0], polygon_node |-> None]

NewPoint(pt, next, prev, outrec) ==
  [pt |-> pt, next |-> next, prev |-> prev, outrec |-> outrec, has_horizontal_segment |-> FALSE]

\* duplicate_out_point: the new point has the next free name.
DuplicateAfter(points, p) ==
  Append([points EXCEPT ![points[p].next].prev = Len(points) + 1, ![p].next = Len(points) + 1],
         NewPoint(points[p].pt, points[p].next, p, points[p].outrec))

DuplicateBefore(points, p) ==
  Append([points EXCEPT ![points[p].prev].next = Len(points) + 1, ![p].prev = Len(points) + 1],
         NewPoint(points[p].pt, p, points[p].prev, points[p].outrec))

Alone(points, p) == [points[p] EXCEPT !.next = p, !.prev = p, !.outrec = None]

dispose_out_point(p) ==
  [[op EXCEPT ![op[p].prev].next = op[p].next, ![op[p].next].prev = op[p].prev]
     EXCEPT ![p] = Alone(op, p)]

dispose_out_points(r) ==
  /\ WalkReturns(rec[r].pts)
  /\ op' = [p \in DOMAIN op |-> IF p \in RingOf(op, rec[r].pts) THEN Alone(op, p) ELSE op[p]]
  /\ rec' = [rec EXCEPT ![r].pts = None]

\* Mutant: the points keep the record they had.
PointsLeftAlone(points, records, r) == points

fix_output_record_points(points, records, r) ==
  LET ring == RingOf(points, records[r].pts)
  IN  [p \in DOMAIN points |-> IF p \in ring THEN [points[p] EXCEPT !.outrec = r] ELSE points[p]]

ReallyClose(a, b) == a.x - b.x \in -1 .. 1 /\ a.y - b.y \in -1 .. 1

is_very_small_triangle(p) ==
  LET a == op[op[p].prev].pt
      b == op[p].pt
      c == op[op[p].next].pt
  IN  /\ op[op[p].next].next = op[p].prev
      /\ ReallyClose(a, c) \/ ReallyClose(b, c) \/ ReallyClose(b, a)

\* The points visit_path64 hands out: the ring without the repeated ones.
VisitedPath(p) ==
  LET path == PathOf(op, op[p].next)
      kept == SelectSeq([k \in DOMAIN path |-> k], LAMBDA k : k = 1 \/ path[k] # path[k - 1])
  IN  [k \in DOMAIN kept |-> path[kept[k]]]

path64_point_count(p) ==
  IF p = None \/ op[p].next = p \/ op[p].next = op[p].prev THEN 0
  ELSE IF Len(VisitedPath(p)) = 3 /\ is_very_small_triangle(op[p].next) THEN 0
  ELSE Len(VisitedPath(p))

-----------------------------------------------------------------------------
(* Containment of rings.                                                   *)

\* The last point of the ring, before the k-th, that is not at the height of pt.
LastOffLine(path, pt, k) ==
  LET off == {j \in DOMAIN path : path[j].y # pt.y}
  IN  IF \E j \in off : j < k THEN Max({j \in off : j < k}) ELSE Max(off)

point_in_output_polygon(pt, path) ==
  LET above(k) == path[LastOffLine(path, pt, k)].y < pt.y
      crossings == {k \in DOMAIN path : path[k].y # pt.y /\ above(k) # (path[k].y < pt.y)}
      side(k) == cross_product_sign(PointBefore(path, k), path[k], pt)
      beyond(k) == pt.x > PointBefore(path, k).x /\ pt.x > path[k].x
      short(k) == pt.x < PointBefore(path, k).x /\ pt.x < path[k].x
      touched == \E k \in DOMAIN path :
        \/ path[k] = pt
        \/ path[k].y = pt.y /\ PointBefore(path, k).y = pt.y
             /\ (pt.x < PointBefore(path, k).x) # (pt.x < path[k].x)
        \/ k \in crossings /\ ~ beyond(k) /\ ~ short(k) /\ side(k) = 0
      toggles == {k \in crossings : ~ short(k) /\ (beyond(k) \/ (side(k) < 0) = above(k))}
  IN  IF Len(path) < 3 \/ \A k \in DOMAIN path : path[k].y = pt.y THEN "outside"
      ELSE IF touched THEN "on"
      ELSE IF Cardinality(toggles) % 2 = 1 THEN "inside" ELSE "outside"

Doubled(path) == [k \in DOMAIN path |-> [x |-> 2 * path[k].x, y |-> 2 * path[k].y]]

EdgeMiddles(path) ==
  [k \in DOMAIN path |-> [x |-> path[k].x + PointAfter(path, k).x,
                          y |-> path[k].y + PointAfter(path, k).y]]

\* All points of the ring are on the other: the first edge whose middle is not decides.
boundary_path_is_inside(inner, outer) ==
  LET verdicts == Verdicts(EdgeMiddles(inner), LAMBDA p : point_in_polygon(p, Doubled(outer)))
  IN  verdicts # <<>> /\ verdicts[1] = "inside"

Aligned(a, b, c) == (a.x = b.x /\ b.x = c.x) \/ (a.y = b.y /\ b.y = c.y)

\* The path without the points in the middle of vertical and horizontal runs;
\* a point is compared with the last one that was kept.
get_clean_path(path) ==
  LET corners == {k \in 1 .. Len(path) - 1 : ~ Aligned(PointBefore(path, k), path[k], path[k + 1])}
      start == Min(corners \cup {Len(path)})
      with(kept, k) ==
        IF Aligned(Last(kept), path[k], PointAfter(path, k)) THEN kept ELSE Append(kept, path[k])
      clean[k \in Nat] == IF k <= start THEN <<path[start]>> ELSE with(clean[k - 1], k)
  IN  clean[Len(path)]

\* path2_contains_path1 on the paths of the two rings.
ContainsPath(inner, outer) ==
  LET verdicts == Verdicts(inner, LAMBDA p : point_in_output_polygon(p, outer))
  IN  IF Agreements(verdicts) # {} THEN verdicts[Min(Agreements(verdicts))] = "inside"
      ELSE IF verdicts = <<>> THEN boundary_path_is_inside(inner, outer)
      ELSE path_contains_path(get_clean_path(inner), get_clean_path(outer))

path2_contains_path1(points, p, q) == ContainsPath(PathOf(points, p), PathOf(points, q))

-----------------------------------------------------------------------------
(* convert_horizontal_segments_to_joins, while the sweep goes on.          *)

Init ==
  \E d \in Drawings :
    /\ op = d.op /\ rec = d.rec /\ segments = d.segments /\ joins = d.joins
    /\ options = d.options
    /\ pc = IF d.segments # <<>> THEN "update" ELSE "joins"
    /\ index = 1 /\ second = None /\ limit = 0
    /\ call = <<>> /\ returned = FALSE /\ answer = <<>>

Height(p) == op[p].pt.y

\* The ends of the horizontal run of a point.  While the record has edges the
\* run does not pass from one end of the output to the other.
RunStart(p) ==
  LET r == rec[get_real_outrec(rec, op[p].outrec)]
      goes(q) == /\ IF r.has_edges THEN q # op[r.pts].next ELSE op[q].prev # p
                 /\ Height(op[q].prev) = Height(p)
  IN  Iterated([q \in DOMAIN op |-> IF goes(q) THEN op[q].prev ELSE q], p, Len(op))

RunEnd(p) ==
  LET r == rec[get_real_outrec(rec, op[p].outrec)]
      goes(q) == /\ IF r.has_edges THEN q # r.pts ELSE op[q].next # RunStart(p)
                 /\ Height(op[q].next) = Height(p)
  IN  Iterated([q \in DOMAIN op |-> IF goes(q) THEN op[q].next ELSE q], p, Len(op))

\* update_horizontal_segment: the first segment to get to a left point has it.
UpdateSegment ==
  /\ pc = "update" /\ index <= Len(segments)
  /\ LET start == RunStart(segments[index].left)
         end == RunEnd(segments[index].left)
         forward == op[start].pt.x < op[end].pt.x
         left == IF forward THEN start ELSE end
         right == IF forward THEN end ELSE start
     IN  IF start = end
         THEN segments' = [segments EXCEPT ![index].right = None] /\ UNCHANGED op
         ELSE /\ segments' = [segments EXCEPT ![index] =
                   [left |-> left, left_to_right |-> forward,
                    right |-> IF op[left].has_horizontal_segment THEN None ELSE right]]
              /\ op' = [op EXCEPT ![left].has_horizontal_segment = TRUE]
  /\ index' = index + 1
  /\ UNCHANGED <<rec, options, pc, second, limit, joins, call, returned, answer>>

compare_horizontal_segments(s, t) ==
  /\ s.right # None
  /\ t.right # None => op[s.left].pt.x < op[t.left].pt.x

\* A stable sort: what comes before the i-th segment in the sorted list.
SortedBefore(i) ==
  {j \in DOMAIN segments :
     \/ compare_horizontal_segments(segments[j], segments[i])
     \/ j < i /\ ~ compare_horizontal_segments(segments[i], segments[j])}

SortSegments ==
  /\ pc = "update" /\ index > Len(segments)
  /\ limit' = Cardinality({i \in DOMAIN segments : segments[i].right # None})
  /\ IF limit' < 2
     THEN pc' = "done" /\ UNCHANGED <<segments, index, second>>
     ELSE /\ segments' = [k \in DOMAIN segments |->
               segments[CHOOSE i \in DOMAIN segments : Cardinality(SortedBefore(i)) = k - 1]]
          /\ pc' = "pairs" /\ index' = 1 /\ second' = 2
  /\ UNCHANGED <<op, rec, options, joins, call, returned, answer>>

NextPair ==
  /\ IF second < limit THEN second' = second + 1 /\ UNCHANGED index
     ELSE index' = index + 1 /\ second' = index + 2
  /\ pc' = IF second = limit /\ index + 1 = limit THEN "done" ELSE "pairs"

\* The two segments run in opposite directions over a common stretch.
SegmentsOverlap(s, t) ==
  /\ s.left_to_right # t.left_to_right
  /\ op[t.left].pt.x < op[s.right].pt.x
  /\ op[t.right].pt.x > op[s.left].pt.x

SkipPair ==
  /\ pc = "pairs" /\ ~ SegmentsOverlap(segments[index], segments[second])
  /\ NextPair
  /\ UNCHANGED <<op, rec, options, limit, segments, joins, call, returned, answer>>

TakePair ==
  /\ pc = "pairs" /\ SegmentsOverlap(segments[index], segments[second])
  /\ pc' = "advance first"
  /\ UNCHANGED <<op, rec, options, index, second, limit, segments, joins, call, returned, answer>>

\* Where the left point of the segment s goes next on its line, if it stays left of t's.
Onward(s) == IF s.left_to_right THEN op[s.left].next ELSE op[s.left].prev

Advances(s, t) ==
  Height(Onward(s)) = Height(segments[index].left) /\ op[Onward(s)].pt.x <= op[t.left].pt.x

AdvanceFirst ==
  /\ pc = "advance first"
  /\ IF Advances(segments[index], segments[second])
     THEN segments' = [segments EXCEPT ![index].left = Onward(segments[index])] /\ UNCHANGED pc
     ELSE pc' = "advance second" /\ UNCHANGED segments
  /\ UNCHANGED <<op, rec, options, index, second, limit, joins, call, returned, answer>>

AdvanceSecond ==
  /\ pc = "advance second" /\ Advances(segments[second], segments[index])
  /\ segments' = [segments EXCEPT ![second].left = Onward(segments[second])]
  /\ UNCHANGED <<op, rec, options, pc, index, second, limit, joins, call, returned, answer>>

\* The joined points are duplicates: after the point of the segment that runs
\* to the right, before the one of the other.
JoinPair ==
  /\ pc = "advance second" /\ ~ Advances(segments[second], segments[index])
  /\ Len(op) + 2 <= MaxPoints
  /\ LET rightward == IF segments[index].left_to_right THEN index ELSE second
         leftward == IF segments[index].left_to_right THEN second ELSE index
     IN  op' = DuplicateBefore(DuplicateAfter(op, segments[rightward].left),
                               segments[leftward].left)
  /\ joins' = Append(joins, <<Len(op) + 1, Len(op) + 2>>)
  /\ NextPair
  /\ UNCHANGED <<rec, options, limit, segments, call, returned, answer>>

-----------------------------------------------------------------------------
(* process_horizontal_joins, after the sweep.                              *)

\* Mutant: the last of the four links is left as it was.
LinkedHalfway(p, q) ==
  [op EXCEPT ![p].next = q, ![q].prev = p, ![op[p].next].prev = op[q].prev]

\* The links of the two points and of their neighbours are exchanged: one ring
\* becomes two, or two become one.
Linked(p, q) ==
  [op EXCEPT ![p].next = q, ![q].prev = p,
             ![op[p].next].prev = op[q].prev, ![op[q].prev].next = op[p].next]

Joining ==
  LET p == joins[index][1]
      q == joins[index][2]
  IN  [first |-> p, second |-> q, back |-> op[p].next,
       first_record |-> get_real_outrec(rec, op[p].outrec),
       second_record |-> get_real_outrec(rec, op[q].outrec)]

\* The ring the second record has now, and the point the first one is left with.
WithSplitRing(j) ==
  LET records == Append(rec, NewRecord(j.back, None))
      points == fix_output_record_points(Linked(j.first, j.second), records, Len(records))
  IN  IF points[rec[j.first_record].pts].outrec = Len(records)
      THEN [op |-> [points EXCEPT ![j.first].outrec = j.first_record],
            rec |-> [records EXCEPT ![j.first_record].pts = j.first]]
      ELSE [op |-> points, rec |-> records]

\* Mutant: the first record keeps the ring it has.
RingsAsTheyAre(o, first, new) == o

\* A ring within the other is the hole: the first record keeps the outer ring.
ExchangedRings(o, first, new) ==
  LET records == [o.rec EXCEPT ![first].pts = o.rec[new].pts, ![new].pts = o.rec[first].pts]
  IN  [op |-> fix_output_record_points(fix_output_record_points(o.op, records, first),
                                       records, new),
       rec |-> records]

JoinWithinRecord(j) ==
  \E o \in {WithSplitRing(j)} :
    LET new == Len(o.rec)
        first == o.rec[j.first_record].pts
    IN  \E inner \in {using_polytree /\ path2_contains_path1(o.op, first, j.back)} :
          /\ op' = IF inner THEN ExchangedRings(o, j.first_record, new).op ELSE o.op
          /\ rec' = [IF inner THEN ExchangedRings(o, j.first_record, new).rec ELSE o.rec EXCEPT
                       ![new].owner =
                          IF using_polytree /\ ~ inner /\ ~ path2_contains_path1(o.op, j.back, first)
                          THEN o.rec[j.first_record].owner ELSE j.first_record,
                       ![j.first_record].splits = IF using_polytree THEN Append(@, new) ELSE @]

\* Mutant: nobody looks whether the owner belongs to the record.
OwnerAsIs(records, r, owner) == [records EXCEPT ![r].owner = owner]

\* set_owner: an owner that belongs to the record is given the record's own owner.
set_owner(records, r, owner) ==
  LET real == [records EXCEPT ![owner].owner = get_real_outrec(records, @)]
  IN  [real EXCEPT ![owner].owner =
                     IF r = owner \/ r \in Owners(real, owner) THEN records[r].owner ELSE @,
                   ![r].owner = owner]

\* The splits moved so far, and those still to move.
move_splits(records, from, to) ==
  LET moved == Iterated([s \in Seq(DOMAIN records) \X Seq(DOMAIN records) |->
                           IF s[2] = <<>> THEN s
                           ELSE <<IF Head(s[2]) = to THEN s[1] ELSE Append(s[1], Head(s[2])), Tail(s[2])>>],
                        <<records[to].splits, records[from].splits>>, Len(records[from].splits))
  IN  [records EXCEPT ![from].splits = <<>>, ![to].splits = moved[1]]

JoinRecords(j) ==
  LET records == [rec EXCEPT ![j.second_record].pts = None]
  IN  /\ op' = Linked(j.first, j.second)
      /\ rec' = IF using_polytree
                THEN move_splits(set_owner(records, j.second_record, j.first_record),
                                 j.second_record, j.first_record)
                ELSE [records EXCEPT ![j.second_record].owner = j.first_record]

ProcessJoin ==
  /\ pc = "joins" /\ index <= Len(joins)
  /\ \E j \in {Joining} :
       IF j.first_record = j.second_record THEN JoinWithinRecord(j) ELSE JoinRecords(j)
  /\ index' = index + 1
  /\ UNCHANGED <<options, pc, second, limit, segments, joins, call, returned, answer>>

JoinsProcessed ==
  /\ pc = "joins" /\ index > Len(joins)
  /\ pc' = IF options.answer = "topology" THEN "bounds" ELSE "records"
  /\ index' = 1 /\ limit' = Len(rec)
  /\ UNCHANGED <<op, rec, options, second, segments, joins, call, returned, answer>>

-----------------------------------------------------------------------------
(* The stack of the cleanup functions.                                     *)

Frame(at, r, holder) ==
  [at |-> at, record |-> r, holder |-> holder, index |-> 1, current |-> None, start |-> None]

Running(at) == call # <<>> /\ Last(call).at = at

Top == Last(call)

Goto(at) == call' = [call EXCEPT ![Len(call)].at = at] /\ UNCHANGED returned

\* The running function goes on at a step when the one it calls returns.
CallThen(frame, at) ==
  call' = Append([call EXCEPT ![Len(call)].at = at], frame) /\ UNCHANGED returned

Return(value) == call' = Front(call) /\ returned' = value

engine == <<options, pc, index, second, limit, segments, joins>>

-----------------------------------------------------------------------------
(* clean_collinear and fix_self_intersections.                             *)

IsValidClosedPath(points, p) ==
  /\ p # None /\ points[p].next # p /\ points[p].next # points[p].prev

CleanCollinear ==
  /\ Running("clean")
  /\ LET r == get_real_outrec(rec, Top.record)
     IN  IF IsValidClosedPath(op, rec[r].pts) /\ ~ is_very_small_triangle(rec[r].pts)
         THEN /\ call' = [call EXCEPT ![Len(call)] = [@ EXCEPT !.at = "scan", !.record = r,
                            !.current = rec[r].pts, !.start = rec[r].pts]]
              /\ UNCHANGED <<op, rec, returned>>
         ELSE dispose_out_points(r) /\ Return(FALSE)
  /\ UNCHANGED <<engine, answer>>

\* The point adds nothing to its ring: it is doubled, is the tip of a spike, or
\* lies on a straight line that need not be preserved.
IsRedundant(p) ==
  LET a == op[op[p].prev].pt
      b == op[p].pt
      c == op[op[p].next].pt
  IN  /\ cross_product_sign(a, b, c) = 0
      /\ b = a \/ b = c \/ ~ options.preserve_collinear \/ dot_product(a, b, c) < 0

\* Mutant: the scan is not begun anew at the point after.
RemovePointOnly ==
  /\ Running("scan") /\ IsRedundant(Top.current)
  /\ op' = dispose_out_point(Top.current)
  /\ rec' = [rec EXCEPT ![Top.record].pts = IF @ = Top.current THEN op[@].prev ELSE @]
  /\ call' = [call EXCEPT ![Len(call)] = [@ EXCEPT !.current = op[Top.current].next, !.at = "check"]]
  /\ UNCHANGED <<engine, returned, answer>>

\* The redundant point goes; every point of the ring is looked at anew.
RemovePoint ==
  /\ Running("scan") /\ IsRedundant(Top.current)
  /\ op' = dispose_out_point(Top.current)
  /\ rec' = [rec EXCEPT ![Top.record].pts = IF @ = Top.current THEN op[@].prev ELSE @]
  /\ call' = [call EXCEPT ![Len(call)] =
        [@ EXCEPT !.current = op[Top.current].next, !.start = op[Top.current].next, !.at = "check"]]
  /\ UNCHANGED <<engine, returned, answer>>

\* After a removal: a ring of less than three points, or a tiny one, is given up.
CheckRing ==
  /\ Running("check")
  /\ IF IsValidClosedPath(op, Top.current) /\ ~ is_very_small_triangle(Top.current)
     THEN Goto("scan") /\ UNCHANGED <<op, rec>>
     ELSE dispose_out_points(Top.record) /\ Return(FALSE)
  /\ UNCHANGED <<engine, answer>>

KeepPoint ==
  /\ Running("scan") /\ ~ IsRedundant(Top.current)
  /\ LET next == op[Top.current].next
     IN  call' = [call EXCEPT ![Len(call)] =
           [@ EXCEPT !.current = IF next = Top.start THEN rec[Top.record].pts ELSE next,
                     !.at = IF next # Top.start THEN "scan"
                            ELSE IF op[op[rec[Top.record].pts].next].next = op[rec[Top.record].pts].prev
                            THEN "fixed" ELSE "fix"]]
  /\ UNCHANGED <<op, rec, engine, returned, answer>>

\* The four edges at a point: from the one that ends in it.
Ahead(p) == op[op[p].next].next

CrossesNextButOne(p) == ProperlyIntersect(op[op[p].prev].pt, op[p].pt, op[op[p].next].pt, op[Ahead(p)].pt)

CrossesTheOneAfter(p) ==
  ProperlyIntersect(op[op[p].prev].pt, op[p].pt, op[Ahead(p)].pt, op[op[Ahead(p)].next].pt)

\* The scan of a ring for crossings goes on until it is back at the first point.
ScanOn(p, records) ==
  call' = [call EXCEPT ![Len(call)] =
     [@ EXCEPT !.current = p, !.at = IF p = records[Top.record].pts THEN "fixed" ELSE "fix"]]

NoCrossing ==
  /\ Running("fix") /\ ~ CrossesNextButOne(Top.current)
  /\ ScanOn(op[Top.current].next, rec)
  /\ UNCHANGED <<op, rec, engine, returned, answer>>

\* A micro self-intersection: a duplicate of the point is put where the edge
\* that is crossed as well begins, and nothing is split.
RelocateDuplicate ==
  /\ Running("fix") /\ CrossesNextButOne(Top.current) /\ CrossesTheOneAfter(Top.current)
  /\ Len(op) < MaxPoints
  /\ op' = [DuplicateBefore(op, Top.current) EXCEPT ![Len(op) + 1].pt = op[Ahead(Top.current)].pt]
  /\ ScanOn(Top.current, rec)
  /\ UNCHANGED <<rec, engine, returned, answer>>

Abs(value) == IF value < 0 THEN - value ELSE value

\* Where the edges cross at a split, and the area of the ring and of what is split off.
Crossing == line_intersection_point(op[op[Top.current].prev].pt, op[Top.current].pt,
                                    op[op[Top.current].next].pt, op[Ahead(Top.current)].pt)

RingArea == DoubleArea(PathOf(op, op[Top.current].prev))

SplitArea == DoubleArea(<<Crossing, op[Top.current].pt, op[op[Top.current].next].pt>>)

Splitting == Running("fix") /\ CrossesNextButOne(Top.current) /\ ~ CrossesTheOneAfter(Top.current)

GiveUpRing ==
  /\ Splitting /\ Abs(RingArea) < 4
  /\ dispose_out_points(Top.record) /\ Return(FALSE)
  /\ UNCHANGED <<engine, answer>>

\* The ring goes from before the crossing edges to after them, over a point of
\* its own unless they cross at one of these ends.
ShortenedRing ==
  LET before == op[Top.current].prev
      after == Ahead(Top.current)
  IN  IF Crossing \in {op[before].pt, op[after].pt}
      THEN [op EXCEPT ![after].prev = before, ![before].next = after]
      ELSE Append([op EXCEPT ![after].prev = Len(op) + 1, ![before].next = Len(op) + 1],
                  NewPoint(Crossing, after, before, op[before].outrec))

\* What is split off is a ring of its own unless it is tiny, or a small one that
\* runs the other way.
SplitOffIsKept ==
  /\ Abs(SplitArea) >= 1
  /\ 2 * Abs(SplitArea) > Abs(RingArea) \/ (SplitArea > 0) = (RingArea > 0)

DropSplitOff(points) ==
  LET p == Top.current
      q == op[p].next
  IN  /\ op' = [points EXCEPT ![p] = Alone(op, p), ![q] = Alone(op, q)]
      /\ rec' = [rec EXCEPT ![Top.record].pts = op[p].prev]

\* The ring that is split off begins with the new point.
WithSplitOff(points, split) ==
  LET p == Top.current
      q == op[p].next
      new == Len(points) + 1
  IN  Append([points EXCEPT ![p] = [points[p] EXCEPT !.outrec = split, !.prev = new],
                            ![q] = [points[q] EXCEPT !.outrec = split, !.next = new]],
             NewPoint(Crossing, p, q, split))

KeepSplitOff(points) ==
  LET before == op[Top.current].prev
      split == Len(rec) + 1
      records == Append([rec EXCEPT ![Top.record].pts = before],
                        NewRecord(Len(points) + 1, rec[Top.record].owner))
  IN  \E both \in {WithSplitOff(points, split)} :
        /\ op' = both
        /\ rec' = IF ~ using_polytree THEN records
                  ELSE IF path2_contains_path1(both, before, Len(both))
                  THEN [records EXCEPT ![split].splits = <<Top.record>>]
                  ELSE [records EXCEPT ![Top.record].splits = Append(@, split)]

do_split_operation ==
  /\ Splitting /\ Abs(RingArea) >= 4
  /\ Len(op) + 2 <= MaxPoints
  /\ \E points \in {ShortenedRing} :
       LET p == op[Top.current].prev
       IN  /\ IF SplitOffIsKept THEN KeepSplitOff(points) ELSE DropSplitOff(points)
           /\ call' = [call EXCEPT ![Len(call)] =
                [@ EXCEPT !.current = p,
                          !.at = IF points[points[p].next].next = points[p].prev
                                 THEN "fixed" ELSE "fix"]]
  /\ UNCHANGED <<engine, returned, answer>>

RingFixed ==
  /\ Running("fixed") /\ Return(FALSE)
  /\ UNCHANGED <<op, rec, engine, answer>>

-----------------------------------------------------------------------------
(* check_bounds, check_split_owner and resolve_output_record_owner.        *)

check_bounds ==
  /\ Running("bounds")
  /\ IF rec[Top.record].pts = None THEN Return(FALSE)
     ELSE IF ~ IsEmpty(rec[Top.record].bounds) THEN Return(TRUE)
     ELSE CallThen(Frame("clean", Top.record, None), "cleaned")
  /\ UNCHANGED <<op, rec, engine, answer>>

\* The rings of the borrowed topology are not built here, only measured.
SetBounds ==
  /\ Running("cleaned")
  /\ LET p == rec[Top.record].pts
     IN  IF p = None \/ (options.answer # "topology" /\ path64_point_count(p) = 0)
         THEN Return(FALSE) /\ UNCHANGED rec
         ELSE Return(TRUE) /\ rec' = [rec EXCEPT ![Top.record].bounds = Bounds(PathOf(op, p))]
  /\ UNCHANGED <<op, engine, answer>>

SplitOf(frame) == rec[frame.holder].splits[frame.index]

RealSplit == get_real_outrec(rec, SplitOf(Top))

NextSplit == call' = [call EXCEPT ![Len(call)] = [Top EXCEPT !.at = "splits", !.index = @ + 1]]

SplitIsEmptied == rec[SplitOf(Top)].pts = None /\ rec[SplitOf(Top)].splits # <<>>

\* Records split off by one that has no points now are searched first.
LookAtSplit ==
  /\ Running("splits")
  /\ IF Top.index > Len(rec[Top.holder].splits) THEN Return(FALSE)
     ELSE IF SplitIsEmptied
     THEN /\ Len(call) < MaxFrames
          /\ CallThen(Frame("splits", Top.record, SplitOf(Top)), "empty split")
     ELSE Goto("split")
  /\ UNCHANGED <<op, rec, engine, answer>>

\* Emptied records are not marked: the stack may not hold the searches through them.
StackOverflow ==
  /\ Running("splits") /\ Top.index <= Len(rec[Top.holder].splits)
  /\ SplitIsEmptied /\ Len(call) >= MaxFrames
  /\ pc' = "overflow" /\ call' = <<>>
  /\ UNCHANGED <<op, rec, options, index, second, limit, segments, joins, returned, answer>>

EmptySplitSearched ==
  /\ Running("empty split")
  /\ IF returned THEN Return(TRUE) ELSE Goto("split")
  /\ UNCHANGED <<op, rec, engine, answer>>

\* The search goes on at a step with the split it is at when the function called returns.
SearchThen(frame, at, split) ==
  /\ call' = Append([call EXCEPT ![Len(call)] = [@ EXCEPT !.at = at, !.current = split]], frame)
  /\ UNCHANGED returned

\* Mutant: the split is not marked as searched for the record.
TrySplitUnmarked ==
  /\ Running("split")
  /\ IF RealSplit \in {None, Top.record} \/ rec[RealSplit].recursive_split = Top.record
     THEN NextSplit /\ UNCHANGED returned
     ELSE IF rec[RealSplit].splits # <<>>
     THEN SearchThen(Frame("splits", Top.record, RealSplit), "split searched", RealSplit)
     ELSE SearchThen(Frame("bounds", RealSplit, None), "split bounded", RealSplit)
  /\ UNCHANGED <<op, rec, engine, answer>>

TrySplit ==
  /\ Running("split")
  /\ IF RealSplit \in {None, Top.record} \/ rec[RealSplit].recursive_split = Top.record
     THEN NextSplit /\ UNCHANGED <<rec, returned>>
     ELSE /\ rec' = [rec EXCEPT ![RealSplit].recursive_split = Top.record]
          /\ IF rec[RealSplit].splits # <<>>
             THEN SearchThen(Frame("splits", Top.record, RealSplit), "split searched", RealSplit)
             ELSE SearchThen(Frame("bounds", RealSplit, None), "split bounded", RealSplit)
  /\ UNCHANGED <<op, engine, answer>>

SplitSearched ==
  /\ Running("split searched")
  /\ IF returned THEN Return(TRUE)
     ELSE CallThen(Frame("bounds", Top.current, None), "split bounded")
  /\ UNCHANGED <<op, rec, engine, answer>>

ContainsRecord(outer, r) ==
  /\ ContainsRect(rec[outer].bounds, rec[r].bounds)
  /\ path2_contains_path1(op, rec[r].pts, rec[outer].pts)

\* A split that contains the record becomes its owner; one that belongs to the
\* record is given the record's owner first.
SplitBounded ==
  /\ Running("split bounded")
  /\ IF returned /\ ContainsRecord(Top.current, Top.record)
     THEN /\ Return(TRUE)
          /\ rec' = [rec EXCEPT
               ![Top.current].owner = IF Top.record \in Owners(rec, Top.current)
                                      THEN rec[Top.record].owner ELSE @,
               ![Top.record].owner = Top.current]
     ELSE NextSplit /\ UNCHANGED <<rec, returned>>
  /\ UNCHANGED <<op, engine, answer>>

\* From owner to owner, until one contains the record.
resolve_output_record_owner ==
  /\ Running("resolve")
  /\ LET owner == rec[Top.record].owner
     IN  IF IsEmpty(rec[Top.record].bounds) \/ owner = None THEN Return(FALSE)
         ELSE IF rec[owner].splits # <<>>
         THEN CallThen(Frame("splits", Top.record, owner), "owner searched")
         ELSE Goto("owner")
  /\ UNCHANGED <<op, rec, engine, answer>>

OwnerSearched ==
  /\ Running("owner searched")
  /\ IF returned THEN Return(FALSE) ELSE Goto("owner")
  /\ UNCHANGED <<op, rec, engine, answer>>

ToNextOwner ==
  /\ Goto("resolve")
  /\ rec' = [rec EXCEPT ![Top.record].owner = rec[rec[Top.record].owner].owner]

TryOwner ==
  /\ Running("owner")
  /\ IF rec[rec[Top.record].owner].pts = None THEN ToNextOwner
     ELSE CallThen(Frame("bounds", rec[Top.record].owner, None), "owner bounded") /\ UNCHANGED rec
  /\ UNCHANGED <<op, engine, answer>>

OwnerBounded ==
  /\ Running("owner bounded")
  /\ IF returned /\ ContainsRecord(rec[Top.record].owner, Top.record)
     THEN Return(FALSE) /\ UNCHANGED rec
     ELSE ToNextOwner
  /\ UNCHANGED <<op, engine, answer>>

-----------------------------------------------------------------------------
(* The answer: paths and trees.                                            *)

\* Records split off while the loop runs are still to come.
NextRecord ==
  /\ pc = "records" /\ call = <<>> /\ index <= Len(rec)
  /\ call' = IF rec[index].pts = None THEN <<>>
             ELSE IF using_polytree
             THEN <<Frame("place", index, None), Frame("bounds", index, None)>>
             ELSE <<Frame("emit", index, None), Frame("clean", index, None)>>
  /\ index' = index + 1
  /\ UNCHANGED <<op, rec, options, pc, second, limit, segments, joins, returned, answer>>

RecordsDone ==
  /\ pc = "records" /\ call = <<>> /\ index > Len(rec)
  /\ pc' = "done"
  /\ UNCHANGED <<op, rec, options, index, second, limit, segments, joins, call, returned, answer>>

EmitPath ==
  /\ Running("emit") /\ Return(FALSE)
  /\ answer' = IF path64_point_count(rec[Top.record].pts) = 0 THEN answer
               ELSE Append(answer, [record |-> Top.record, parent |-> None])
  /\ UNCHANGED <<op, rec, engine>>

PlaceRecord ==
  /\ Running("place")
  /\ IF returned THEN Goto("owners") ELSE Return(FALSE)
  /\ UNCHANGED <<op, rec, engine, answer>>

recursive_check_owners ==
  /\ Running("owners")
  /\ IF rec[Top.record].polygon_node # None \/ IsEmpty(rec[Top.record].bounds) THEN Return(FALSE)
     ELSE CallThen(Frame("resolve", Top.record, None), "resolved")
  /\ UNCHANGED <<op, rec, engine, answer>>

OwnerNeedsNode ==
  LET owner == rec[Top.record].owner
  IN  owner # None /\ rec[owner].polygon_node = None

PlaceOwnerFirst ==
  /\ Running("resolved") /\ OwnerNeedsNode
  /\ CallThen(Frame("owners", rec[Top.record].owner, None), "owner placed")
  /\ UNCHANGED <<op, rec, engine, answer>>

\* Mutant: the record is not given its node.
AddChildOnly ==
  /\ (Running("resolved") /\ ~ OwnerNeedsNode) \/ Running("owner placed")
  /\ answer' = Append(answer, [record |-> Top.record, parent |-> None])
  /\ Return(FALSE)
  /\ UNCHANGED <<op, rec, engine>>

\* The node of an owner that was not placed is read all the same: it is any.
AddChild ==
  /\ (Running("resolved") /\ ~ OwnerNeedsNode) \/ Running("owner placed")
  /\ \E node \in IF OwnerNeedsNode THEN 0 .. Len(answer)
                 ELSE IF rec[Top.record].owner = None THEN {None}
                 ELSE {rec[rec[Top.record].owner].polygon_node} :
       answer' = Append(answer, [record |-> Top.record,
                                 parent |-> IF node = None THEN None ELSE answer[node].record])
  /\ rec' = [rec EXCEPT ![Top.record].polygon_node = Len(answer) + 1]
  /\ Return(FALSE)
  /\ UNCHANGED <<op, engine>>

-----------------------------------------------------------------------------
(* The answer: the borrowed topology.                                      *)

\* Two loops over the records there were when each of them began.  They go on
\* where the records were then: records split off since may have had no room
\* there, and what was moved away from is freed.
NextBounds ==
  /\ pc = "bounds" /\ call = <<>> /\ index <= limit
  /\ call' = IF rec[index].pts = None THEN <<>> ELSE <<Frame("bounds", index, None)>>
  /\ index' = index + 1
  /\ UNCHANGED <<op, rec, options, pc, second, limit, segments, joins, returned, answer>>

BoundsDone ==
  /\ pc = "bounds" /\ call = <<>> /\ index > limit
  /\ pc' = "resolve" /\ index' = 1 /\ limit' = Len(rec)
  /\ UNCHANGED <<op, rec, options, second, segments, joins, call, returned, answer>>

Described(r) == rec[r].pts # None /\ ~ IsEmpty(rec[r].bounds)

NextResolve ==
  /\ pc = "resolve" /\ call = <<>> /\ index <= limit
  /\ call' = IF Described(index) THEN <<Frame("resolve", index, None)>> ELSE <<>>
  /\ index' = index + 1
  /\ UNCHANGED <<op, rec, options, pc, second, limit, segments, joins, returned, answer>>

\* What a loop reads in the freed storage is the old records, which NextBounds
\* and NextResolve go on with, or nothing that means anything.
ReadFreedRecords ==
  /\ pc \in {"bounds", "resolve"} /\ call = <<>> /\ index <= limit
  /\ Len(rec) > limit
  /\ pc' = "undefined"
  /\ UNCHANGED <<op, rec, options, index, second, limit, segments, joins, call, returned, answer>>

\* record_depth gives up when the owners are more than the records.
OwnersEndAt(records, r) == \A o \in Owners(records, r) \cup {r} : o \notin Owners(records, o)

IsHole(r) == Cardinality(Owners(rec, r)) % 2 = 1

Shells == SelectSeq([r \in DOMAIN rec |-> r], LAMBDA r : Described(r) /\ ~ IsHole(r))

HolesOf(shell) ==
  SelectSeq([r \in DOMAIN rec |-> r],
            LAMBDA r : Described(r) /\ IsHole(r) /\ rec[r].owner = shell)

\* Why collect_record_metadata and assign_polygon_relationships refuse the records.
InternalError ==
  \E r \in DOMAIN rec : Described(r) /\
    LET owner == rec[r].owner
        shell == IF IsHole(r) \/ owner = None THEN owner ELSE rec[owner].owner
    IN  \/ ~ OwnersEndAt(rec, r) \/ path64_point_count(rec[r].pts) = 0
        \/ shell # None /\ shell \notin Range(Shells)

DescribeTopology ==
  /\ pc = "resolve" /\ call = <<>> /\ index > limit
  /\ IF InternalError THEN pc' = "internal_error" /\ UNCHANGED answer
     ELSE /\ pc' = "done"
          /\ answer' = FlattenSeq([k \in DOMAIN Shells |->
               LET rings == <<Shells[k]>> \o HolesOf(Shells[k])
               IN  [i \in DOMAIN rings |-> [record |-> rings[i], parent |-> rec[rings[i]].owner]]])
  /\ UNCHANGED <<op, rec, options, index, second, limit, segments, joins, call, returned>>

\* The engine has answered, or the program has no meaning from here on.
Ended == pc \in {"done", "internal_error", "undefined", "overflow"}

Terminated == Ended /\ UNCHANGED vars

ConvertSegments ==
  UpdateSegment \/ SortSegments \/ SkipPair \/ TakePair \/ AdvanceFirst \/ AdvanceSecond \/ JoinPair

ProcessJoins == ProcessJoin \/ JoinsProcessed

CleanRing ==
  \/ CleanCollinear \/ RemovePoint \/ CheckRing \/ KeepPoint \/ NoCrossing \/ RelocateDuplicate
  \/ GiveUpRing \/ do_split_operation \/ RingFixed

FindOwner ==
  \/ check_bounds \/ SetBounds \/ LookAtSplit \/ StackOverflow \/ EmptySplitSearched \/ TrySplit
  \/ SplitSearched \/ SplitBounded \/ resolve_output_record_owner \/ OwnerSearched \/ TryOwner
  \/ OwnerBounded

BuildAnswer ==
  \/ NextRecord \/ RecordsDone \/ EmitPath \/ PlaceRecord \/ recursive_check_owners
  \/ PlaceOwnerFirst \/ AddChild \/ NextBounds \/ BoundsDone \/ NextResolve \/ ReadFreedRecords
  \/ DescribeTopology

Next == ConvertSegments \/ ProcessJoins \/ CleanRing \/ FindOwner \/ BuildAnswer \/ Terminated

Spec == Init /\ [][Next]_vars

\* The engine is one loop after the other and waits for nobody.  This is
\* WF_vars(Next), as the next step is enabled until the end.
Progress == []<>Ended \/ []<><<Next>>_vars

FairSpec == Spec /\ Progress

-----------------------------------------------------------------------------
(* Properties.                                                             *)

\* Whatever is joined, split, moved or taken out, the links of the points stay
\* those of closed rings: no loop over a ring meets a point it cannot leave or
\* one that has left the ring.
RingsIntact == RingsIntactIn(op)

Live(r) == rec[r].pts # None

\* Every point of the ring of a record leads to that record, through the records
\* that were emptied since it was made, and no two records share a ring.
RingsBelongToOneRecord ==
  \A r \in DOMAIN rec : Live(r) =>
    \A p \in RingOf(op, rec[r].pts) : get_real_outrec(rec, op[p].outrec) = r

\* The owners of a record come to an end: the loops over them, and the depth of
\* a ring in the tree, are finite.
OwnersEnd == using_polytree => \A r \in DOMAIN rec : r \notin Owners(rec, r)

Answered == {answer[k].record : k \in DOMAIN answer}

\* Paths and trees: every ring that is left with an area is answered, and once.
AnswerIsComplete ==
  pc = "done" /\ segments = <<>> /\ options.answer # "topology" =>
    /\ Answered = {r \in DOMAIN rec : Live(r) /\ path64_point_count(rec[r].pts) # 0}
    /\ Cardinality(Answered) = Len(answer)

RingAnswered(k) == PathOf(op, rec[answer[k].record].pts)

LevelsAlternate ==
  \A k, j \in DOMAIN answer : answer[k].parent = answer[j].record =>
    DoubleArea(RingAnswered(k)) * DoubleArea(RingAnswered(j)) < 0

SiblingsApart ==
  \A k, j \in DOMAIN answer : k # j /\ answer[k].parent = answer[j].parent =>
    \E i \in DOMAIN RingAnswered(k) : point_in_polygon(RingAnswered(k)[i], RingAnswered(j)) # "inside"

\* The owners found after the sweep make the tree of the rings: a ring is a hole
\* in its parent or an island in a hole, so the two run in opposite directions,
\* and no ring lies inside another one with the same parent.
TreeIsNested == options.answer = "tree" /\ pc = "done" => LevelsAlternate /\ SiblingsApart

EmptiedSplits(r) == {s \in Range(rec[r].splits) : rec[s].pts = None /\ rec[s].splits # <<>>}

\* The records that are searched through emptied ones alone when r is.
SearchedUnmarked(r) ==
  Iterated([found \in SUBSET DOMAIN rec |-> found \cup UNION {EmptiedSplits(s) : s \in found}],
           EmptiedSplits(r), Len(rec))

\* A record is marked when it is searched for another, so searches of splits of
\* splits do not call each other without end: but for the searches through
\* emptied records, which mark nothing, the stack stays in proportion to the
\* records there are.  Those use it up where emptied records have split off each
\* other in a circle, as they do in one drawing, and nowhere else.
SearchesEnd ==
  /\ Cardinality({i \in DOMAIN call : call[i].at # "empty split"}) <= 2 * Len(rec) + 5
  /\ pc = "overflow" => \E r \in DOMAIN rec : r \in SearchedUnmarked(r)

\* Every loop comes to its end, however often it is set back by the changes it
\* makes; a loop that reads freed storage or calls itself in a circle has ended
\* in a state without meaning.
CleanupEnds == <>Ended

=============================================================================
