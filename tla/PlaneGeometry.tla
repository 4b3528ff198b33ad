----------------------------- MODULE PlaneGeometry -----------------------------
(***************************************************************************)
(* The exact predicates on points, paths and rectangles of the plane that  *)
(* the other components decide by.  The library takes the products in 128  *)
(* bits, or splits them, so that they are exact; here they are products    *)
(* of integers.  A path is a sequence of points, closed by its last edge.  *)
(***************************************************************************)
EXTENDS Integers, Sequences, SequencesExt, FiniteSets, FiniteSetsExt, Functions

Sign(value) == IF value > 0 THEN 1 ELSE IF value < 0 THEN -1 ELSE 0

cross_product_sign(a, b, c) ==
  Sign((b.x - a.x) * (c.y - b.y) - (b.y - a.y) * (c.x - b.x))

dot_product(a, b, c) == (b.x - a.x) * (c.x - b.x) + (b.y - a.y) * (c.y - b.y)

Between(value, a, b) == (a <= value /\ value <= b) \/ (b <= value /\ value <= a)

OnSegment(p, a, b) ==
  /\ cross_product_sign(a, b, p) = 0
  /\ Between(p.x, a.x, b.x) /\ Between(p.y, a.y, b.y)

ProperlyIntersect(a, b, c, d) ==
  /\ cross_product_sign(a, b, c) * cross_product_sign(a, b, d) < 0
  /\ cross_product_sign(c, d, a) * cross_product_sign(c, d, b) < 0

\* segments_intersect, inclusive: an end on the other segment counts, an
\* overlap of parallel segments does not.
Touch(a, b, c, d) ==
  /\ ~ (cross_product_sign(a, b, c) = 0 /\ cross_product_sign(a, b, d) = 0)
  /\ ~ (cross_product_sign(c, d, a) = 0 /\ cross_product_sign(c, d, b) = 0)
  /\ \/ OnSegment(c, a, b) \/ OnSegment(d, a, b) \/ OnSegment(a, c, d) \/ OnSegment(b, c, d)
     \/ ProperlyIntersect(a, b, c, d)

\* Integer division that drops the fraction, as a cast does; d > 0.
Truncated(n, d) == IF n >= 0 THEN n \div d ELSE - ((- n) \div d)

\* The point of the first segment the fast form of line_intersection_point
\* answers, for lines that are not parallel: never past an end of it.
line_intersection_point(a, b, c, d) ==
  LET determinant == (b.y - a.y) * (d.x - c.x) - (d.y - c.y) * (b.x - a.x)
      ratio == Sign(determinant) * ((a.x - c.x) * (d.y - c.y) - (a.y - c.y) * (d.x - c.x))
      size == Sign(determinant) * determinant
  IN  IF ratio <= 0 THEN a
      ELSE IF ratio >= size THEN b
      ELSE [x |-> Truncated(a.x * size + ratio * (b.x - a.x), size),
            y |-> Truncated(a.y * size + ratio * (b.y - a.y), size)]

-----------------------------------------------------------------------------
(* Paths.                                                                  *)

PointBefore(path, k) == path[IF k = 1 THEN Len(path) ELSE k - 1]

PointAfter(path, k) == path[IF k = Len(path) THEN 1 ELSE k + 1]

\* Twice the area, with the sign of the orientation.
DoubleArea(path) ==
  FoldFunction(LAMBDA a, b : a + b, 0,
    [k \in DOMAIN path |->
       (PointBefore(path, k).y + path[k].y) * (PointBefore(path, k).x - path[k].x)])

\* The edges a ray from p to the right crosses.
RayCrossings(p, path) ==
  {k \in DOMAIN path :
     LET a == PointBefore(path, k)
         b == path[k]
     IN  /\ (a.y > p.y) # (b.y > p.y)
         /\ (cross_product_sign(a, b, p) > 0) = (b.y > p.y)}

point_in_polygon(p, path) ==
  IF Len(path) < 3 THEN "outside"
  ELSE IF \E k \in DOMAIN path : OnSegment(p, PointBefore(path, k), path[k]) THEN "on"
  ELSE IF Cardinality(RayCrossings(p, path)) % 2 = 1 THEN "inside" ELSE "outside"

Bounds(path) ==
  [left |-> Min({path[k].x : k \in DOMAIN path}), top |-> Min({path[k].y : k \in DOMAIN path}),
   right |-> Max({path[k].x : k \in DOMAIN path}), bottom |-> Max({path[k].y : k \in DOMAIN path})]

IsEmpty(rect) == rect.bottom <= rect.top \/ rect.right <= rect.left

ContainsRect(outer, inner) ==
  /\ inner.left >= outer.left /\ inner.right <= outer.right
  /\ inner.top >= outer.top /\ inner.bottom <= outer.bottom

ContainsPoint(rect, p) ==
  p.x > rect.left /\ p.x < rect.right /\ p.y > rect.top /\ p.y < rect.bottom

Intersects(r, s) ==
  /\ Max({r.left, s.left}) <= Min({r.right, s.right})
  /\ Max({r.top, s.top}) <= Min({r.bottom, s.bottom})

Midpoint(rect) ==
  [x |-> Truncated(rect.left + rect.right, 2), y |-> Truncated(rect.top + rect.bottom, 2)]

-----------------------------------------------------------------------------
(* Is a path inside another?  Its points are tried in turn: the first time *)
(* two that are not on the border agree they decide.                       *)

Verdicts(path, Where(_)) ==
  SelectSeq([k \in DOMAIN path |-> Where(path[k])], LAMBDA verdict : verdict # "on")

Agreements(verdicts) == {k \in 2 .. Len(verdicts) : verdicts[k] = verdicts[k - 1]}

path_contains_path(inner, outer) ==
  LET verdicts == Verdicts(inner, LAMBDA p : point_in_polygon(p, outer))
  IN  IF Agreements(verdicts) # {} THEN verdicts[Min(Agreements(verdicts))] = "inside"
      ELSE /\ verdicts # <<>> /\ verdicts[Len(verdicts)] = "inside"
           /\ point_in_polygon(Midpoint(Bounds(inner)), outer) = "inside"

-----------------------------------------------------------------------------
(* Simple rings.                                                           *)

is_collinear(a, b, c) == cross_product_sign(a, b, c) = 0

Changes(signs) == {k \in DOMAIN signs : signs[k] # signs[IF k = 1 THEN Len(signs) ELSE k - 1]}

\* The direction of the edges along one axis turns round twice at most.
TurnsTwice(Delta(_), path) ==
  Cardinality(Changes(SelectSeq([k \in DOMAIN path |-> Sign(Delta(k))], LAMBDA s : s # 0))) <= 2

is_convex_simple_polygon(path) ==
  /\ Len(path) >= 3
  /\ \A k \in DOMAIN path : path[k] # PointAfter(path, k)
  /\ Cardinality({cross_product_sign(PointBefore(path, k), path[k], PointAfter(path, k)) :
                    k \in DOMAIN path} \ {0}) = 1
  /\ TurnsTwice(LAMBDA k : PointAfter(path, k).x - path[k].x, path)
  /\ TurnsTwice(LAMBDA k : PointAfter(path, k).y - path[k].y, path)

Adjacent(j, k, size) == k = j + 1 \/ (j = 1 /\ k = size)

\* Two edges meet: at a point, or along a stretch of one line.
EdgesMeet(a, b, c, d) ==
  /\ Intersects(Bounds(<<a, b>>), Bounds(<<c, d>>))
  /\ Touch(a, b, c, d) \/ (is_collinear(a, b, c) /\ is_collinear(a, b, d))

has_non_adjacent_self_intersection(path, scan_limit) ==
  /\ Len(path) >= 4
  /\ \/ Len(path) > scan_limit
     \/ \E k \in DOMAIN path : path[k] = PointAfter(path, k)
     \/ \E j, k \in DOMAIN path :
          /\ j < k /\ ~ Adjacent(j, k, Len(path))
          /\ EdgesMeet(path[j], PointAfter(path, j), path[k], PointAfter(path, k))

path_is_provably_simple(path, scan_limit) ==
  /\ Len(path) >= 3
  /\ is_convex_simple_polygon(path) \/ ~ has_non_adjacent_self_intersection(path, scan_limit)

is_positive(path) == DoubleArea(path) >= 0

\* The points a trimmed ring keeps between its ends: each is compared with
\* the last one kept and with its successor.
KeptBetween(path, first, last) ==
  FoldLeft(LAMBDA kept, k : IF is_collinear(Last(kept), path[k], path[k + 1]) THEN kept
                            ELSE Append(kept, path[k]),
           <<path[first]>>, [k \in 1 .. last - first - 1 |-> first + k])

\* The ring without the points at its end that lie between their neighbours.
Unrolled(ring) ==
  LET closed(size) == size > 2 /\ is_collinear(ring[size], ring[size - 1], ring[1])
      sizes == {n \in 1 .. Len(ring) : ~ closed(n) /\ \A m \in n + 1 .. Len(ring) : closed(m)}
  IN  SubSeq(ring, 1, Max(sizes))

trim_collinear_closed_component(path) ==
  LET size == Len(path)
      first == Min({size} \cup {k \in 1 .. size - 1 : ~ is_collinear(path[size], path[k], path[k + 1])})
      last == Max({first} \cup {k \in first + 1 .. size : ~ is_collinear(path[k - 1], path[k], path[first])})
      kept == KeptBetween(path, first, last)
  IN  IF first = last THEN <<>>
      ELSE IF ~ is_collinear(Last(kept), path[last], kept[1]) THEN Append(kept, path[last])
      ELSE IF Len(Unrolled(kept)) < 3 THEN <<>> ELSE Unrolled(kept)

-----------------------------------------------------------------------------
(* For properties: the plane is looked at in one point of every cell of    *)
(* the grid, chosen so that no edge between grid points that are less than *)
(* 14 apart runs through it: coordinates are counted in parts of a cell.   *)

Parts == 211

Samples(paths) ==
  LET coordinates == UNION {{paths[k][n].x : n \in DOMAIN paths[k]} \cup {paths[k][n].y : n \in DOMAIN paths[k]} :
                              k \in DOMAIN paths}
      cells == IF coordinates = {} THEN {} ELSE Min(coordinates) .. Max(coordinates)
  IN  [x : {Parts * column + 100 : column \in cells}, y : {Parts * row + 23 : row \in cells}]

Winding(s, path) ==
  LET side(a, b) == (b.x - a.x) * (s.y - Parts * b.y) - (b.y - a.y) * (s.x - Parts * b.x)
      upward == {k \in DOMAIN path : Parts * PointBefore(path, k).y < s.y /\ s.y < Parts * path[k].y
                                       /\ side(PointBefore(path, k), path[k]) > 0}
      downward == {k \in DOMAIN path : Parts * path[k].y < s.y /\ s.y < Parts * PointBefore(path, k).y
                                         /\ side(PointBefore(path, k), path[k]) < 0}
  IN  Cardinality(upward) - Cardinality(downward)

WindingOfAll(s, paths) ==
  FoldFunction(LAMBDA a, b : a + b, 0, [k \in DOMAIN paths |-> Winding(s, paths[k])])

\* The steps of an edge from one grid point on it to the next.
UnitSteps(a, b) ==
  LET extent == Max({b.x - a.x, a.x - b.x, b.y - a.y, a.y - b.y})
      count == Max({n \in 1 .. extent : (b.x - a.x) % n = 0 /\ (b.y - a.y) % n = 0})
      at(n) == [x |-> a.x + n * ((b.x - a.x) \div count), y |-> a.y + n * ((b.y - a.y) \div count)]
  IN  IF extent = 0 THEN {} ELSE {[from |-> at(n), to |-> at(n + 1)] : n \in 0 .. count - 1}

\* How often the edges of open paths take a step.
TimesTaken(step, paths) ==
  Cardinality({e \in UNION {{k} \X (2 .. Len(paths[k])) : k \in DOMAIN paths} :
                 step \in UnitSteps(paths[e[1]][e[2] - 1], paths[e[1]][e[2]])})
=============================================================================
