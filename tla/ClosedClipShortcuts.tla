-------------------------- MODULE ClosedClipShortcuts --------------------------
(***************************************************************************)
(* The answers that are given without running the engine: intersections    *)
(* with a rectangle that contains the subjects, operations on two          *)
(* rectangles, intersections of boxes that do not meet, trees of nested    *)
(* rectangles, and single rings of a union.  A shortcut is the set of its  *)
(* answers: empty when it declines, else the one sequence of paths.  Rings *)
(* are as the code builds them up to the point they begin at.              *)
(***************************************************************************)
EXTENDS PlaneGeometry, SequencesExt

CONSTANTS
  PointThreshold,    \* points the containing rectangle shortcut looks at
  RelaxedThreshold,  \* points of a path up to which a collinear one is left to the engine
  ScanLimit,         \* points of a path up to which its edges are compared in pairs
  TrimLimit,         \* points of a union's ring up to which it is trimmed
  LongDoubleDigits   \* bits of the significand areas of rectangles are computed with

ASSUME LimitsAssumption ==
  /\ PointThreshold \in Nat /\ RelaxedThreshold \in Nat
  /\ ScanLimit \in Nat /\ TrimLimit \in Nat
  /\ LongDoubleDigits \in Nat \ {0}

Declined == {}

Point(x, y) == [x |-> x, y |-> y]

Corner(rect, horizontal, vertical) == Point(rect[horizontal], rect[vertical])

-----------------------------------------------------------------------------
(* Rectangles.                                                             *)

Corners(rect) == {Corner(rect, h, v) : h \in {"left", "right"}, v \in {"top", "bottom"}}

\* What the tree of nested rectangles takes for one.
HasCornersOnly(path) ==
  Len(path) = 4 /\ ~ IsEmpty(Bounds(path)) /\ Corners(Bounds(path)) \subseteq Range(path)

path_as_axis_aligned_rect(path) ==
  /\ HasCornersOnly(path)
  /\ \A k \in DOMAIN path : path[k].x = PointAfter(path, k).x \/ path[k].y = PointAfter(path, k).y

union_bounds(r, s) ==
  [left |-> Min({r.left, s.left}), top |-> Min({r.top, s.top}),
   right |-> Max({r.right, s.right}), bottom |-> Max({r.bottom, s.bottom})]

Meet(r, s) ==
  [left |-> Max({r.left, s.left}), top |-> Max({r.top, s.top}),
   right |-> Min({r.right, s.right}), bottom |-> Min({r.bottom, s.bottom})]

StrictOverlap(r, s) == ~ IsEmpty(Meet(r, s))

ShareEdge(r, s) ==
  \/ (r.right = s.left \/ s.right = r.left) /\ Meet(r, s).top < Meet(r, s).bottom
  \/ (r.bottom = s.top \/ s.bottom = r.top) /\ Meet(r, s).left < Meet(r, s).right

\* The long double nearest to a number that is not negative, the even one of two.
Rounded(number) ==
  LET unit[n \in Nat] == IF n < 2^LongDoubleDigits THEN 1 ELSE 2 * unit[n \div 2]
      below == number \div unit[number]
      rest == number % unit[number]
      up == 2 * rest > unit[number] \/ (2 * rest = unit[number] /\ below % 2 = 1)
  IN  (IF up THEN below + 1 ELSE below) * unit[number]

rect_area(rect) ==
  IF IsEmpty(rect) THEN 0
  ELSE Rounded(Rounded(rect.right - rect.left) * Rounded(rect.bottom - rect.top))

covered_area(r, s) == Rounded(Rounded(rect_area(r) + rect_area(s)) - rect_area(Meet(r, s)))

SolutionPath(rect) ==
  <<Corner(rect, "right", "bottom"), Corner(rect, "left", "bottom"),
    Corner(rect, "left", "top"), Corner(rect, "right", "top")>>

SideBySide(l, r) == l.top = r.top /\ l.bottom = r.bottom /\ l.right = r.left

Stacked(t, b) == t.left = b.left /\ t.right = b.right /\ t.bottom = b.top

SideBySideUnion(l, r) ==
  <<Corner(r, "left", "top"), Corner(r, "right", "top"), Corner(r, "right", "bottom"),
    Corner(r, "left", "bottom"), Corner(l, "left", "bottom"), Corner(l, "left", "top")>>

StackedUnion(t, b) ==
  <<Corner(b, "right", "bottom"), Corner(b, "left", "bottom"), Corner(b, "left", "top"),
    Corner(t, "left", "top"), Corner(t, "right", "top"), Corner(b, "right", "top")>>

\* As if every two rectangles filled the one around them.
AlwaysRectangular(r, s) == {SolutionPath(union_bounds(r, s))}

\* Two rectangles that fill the one around them, or seem to when areas are rounded.
RectangularUnion(r, s) ==
  IF covered_area(r, s) # rect_area(union_bounds(r, s)) THEN Declined
  ELSE IF SideBySide(r, s) THEN {SideBySideUnion(r, s)}
  ELSE IF SideBySide(s, r) THEN {SideBySideUnion(s, r)}
  ELSE IF Stacked(r, s) THEN {StackedUnion(r, s)}
  ELSE IF Stacked(s, r) THEN {StackedUnion(s, r)}
  ELSE {SolutionPath(union_bounds(r, s))}

\* A ring that is written with the top as its first side, or mirrored.
Facing(vertical, path) == IF vertical = "top" THEN path ELSE Reverse(path)

Opposite(side) ==
  CASE side = "left" -> "right" [] side = "right" -> "left" [] side = "top" -> "bottom" [] OTHER -> "top"

\* l reaches further left and to the side v, r further right and to the other.
Staggered(l, r, v) ==
  /\ l.left < r.left /\ l.right < r.right
  /\ IF v = "top" THEN l.top < r.top /\ l.bottom < r.bottom ELSE l.top > r.top /\ l.bottom > r.bottom

StaggeredUnion(l, r, v) ==
  LET w == Opposite(v)
  IN  Facing(v, <<Point(l.right, r[v]), Corner(r, "right", v), Corner(r, "right", w), Corner(r, "left", w),
                  Point(r.left, l[w]), Corner(l, "left", w), Corner(l, "left", v), Corner(l, "right", v)>>)

TwoRectangleUnion(r, s) ==
  IF RectangularUnion(r, s) # Declined THEN RectangularUnion(r, s)
  ELSE {StaggeredUnion(pair[1], pair[2], v) :
          <<pair, v>> \in {<<p, w>> \in {<<r, s>>, <<s, r>>} \X {"top", "bottom"} :
                             StrictOverlap(r, s) /\ Staggered(p[1], p[2], w)}}

TouchedSides(subject, cut) == {side \in {"left", "top", "right", "bottom"} : cut[side] = subject[side]}

\* What is left of a rectangle of which another takes the corner at h and v.
CornerDifference(subject, clip) ==
  LET cut == Meet(subject, clip)
      ring(h, v) ==
        <<Point(subject[h], cut[Opposite(v)]), Corner(cut, Opposite(h), Opposite(v)),
          Point(cut[Opposite(h)], subject[v]), Corner(subject, Opposite(h), v),
          Corner(subject, Opposite(h), Opposite(v)), Corner(subject, h, Opposite(v))>>
  IN  {IF (h = "right") = (v = "bottom") THEN ring(h, v) ELSE Reverse(ring(h, v)) :
         <<h, v>> \in {<<h, v>> \in {"left", "right"} \X {"top", "bottom"} :
                         ~ IsEmpty(cut) /\ TouchedSides(subject, cut) = {h, v}}}

\* The two rectangles of a request of one subject and one clip, as a set.
RectanglePair(q, clip_type) ==
  {<<Bounds(q.subjects[1]), Bounds(q.clips[1])>> : single \in
     {k \in {1} : /\ q.clip_type = clip_type /\ Len(q.subjects) = 1 /\ Len(q.clips) = 1
                  /\ path_as_axis_aligned_rect(q.subjects[1]) /\ path_as_axis_aligned_rect(q.clips[1])}}

try_execute_two_rectangle_intersection(q) ==
  {IF StrictOverlap(pair[1], pair[2]) THEN <<SolutionPath(Meet(pair[1], pair[2]))>> ELSE <<>> :
     pair \in RectanglePair(q, "intersection")}

Apart(pair) == ~ StrictOverlap(pair[1], pair[2]) /\ ~ ShareEdge(pair[1], pair[2])

Both(pair) == <<SolutionPath(pair[1]), SolutionPath(pair[2])>>

try_execute_two_rectangle_union(q) ==
  UNION {LET joined == TwoRectangleUnion(pair[1], pair[2])
         IN  IF joined # Declined THEN {<<path>> : path \in joined}
             ELSE IF Apart(pair) THEN {Both(pair)} ELSE Declined : pair \in RectanglePair(q, "union")}

XorOfOverlapping(pair) ==
  {<<subject_difference, clip_difference>> :
     subject_difference \in CornerDifference(pair[1], pair[2]),
     clip_difference \in CornerDifference(pair[2], pair[1])}

XorOfSeparate(pair) ==
  LET joined == RectangularUnion(pair[1], pair[2])
  IN  IF joined # Declined THEN {<<path>> : path \in joined}
      ELSE IF Apart(pair) THEN {Both(pair)} ELSE Declined

try_execute_two_rectangle_xor(q) ==
  UNION {IF StrictOverlap(pair[1], pair[2]) THEN XorOfOverlapping(pair) ELSE XorOfSeparate(pair) :
           pair \in RectanglePair(q, "xor")}

try_execute_two_rectangle_difference(q) ==
  UNION {IF ~ StrictOverlap(pair[1], pair[2]) THEN {<<SolutionPath(pair[1])>>}
         ELSE IF Meet(pair[1], pair[2]) = pair[1] THEN {<<>>}
         ELSE {<<path>> : path \in CornerDifference(pair[1], pair[2])} :
           pair \in RectanglePair(q, "difference")}

-----------------------------------------------------------------------------
(* Subjects that a rectangle contains pass through.                        *)

ReallyClose(p, q) == p.x - q.x \in -1 .. 1 /\ p.y - q.y \in -1 .. 1

\* The path without the points at its end that repeat its first one.
PassthroughPart(path) ==
  LET ends == {k \in DOMAIN path : \A j \in k + 1 .. Len(path) : path[j] = path[1]}
  IN  SubSeq(path, 1, Min(ends))

should_remove_passthrough_point(path, k) ==
  LET before == PointBefore(path, k)
      after == PointAfter(path, k)
  IN  /\ is_collinear(before, path[k], after)
      /\ path[k] = before \/ path[k] = after \/ dot_product(before, path[k], after) < 0

\* The cleaning walks the path; after it drops a point it looks at the one
\* before again.  <<path, index>> does not change when it is over.
CleanStep(path, k) ==
  IF Len(path) < 3 \/ k > Len(path) THEN <<path, k>>
  ELSE IF should_remove_passthrough_point(path, k) THEN <<RemoveAt(path, k), Max({k - 1, 1})>>
  ELSE <<path, k + 1>>

clean_contained_path_for_passthrough(path) ==
  LET walk[n \in Nat] == IF n = 0 THEN <<path, 1>> ELSE CleanStep(walk[n - 1][1], walk[n - 1][2])
  IN  walk[3 * Len(path)][1]

Emittable(path) ==
  /\ Len(path) >= 3
  /\ ~ (Len(path) = 3 /\ \E k \in 1 .. 3 : ReallyClose(path[k], PointAfter(path, k)))

NeedsEngine(path, k) ==
  \/ ReallyClose(path[k], PointAfter(path, k))
  \/ is_collinear(PointBefore(path, k), path[k], PointAfter(path, k))

\* What a subject becomes on its way through, if it may pass.
PassedThrough(path, rect) ==
  LET part == PassthroughPart(path)
      cleaned == clean_contained_path_for_passthrough(part)
  IN  IF path = <<>> \/ Len(part) < 3 \/ \E k \in DOMAIN part : ~ ContainsPoint(rect, part[k]) THEN Declined
      ELSE IF Len(part) <= RelaxedThreshold
             THEN IF \E k \in DOMAIN part : NeedsEngine(part, k) THEN Declined ELSE {part}
      ELSE IF \E k \in DOMAIN part : should_remove_passthrough_point(part, k)
             THEN IF Emittable(cleaned) THEN {cleaned} ELSE Declined
      ELSE {part}

\* Does path i contain path j, as far as its box and the first point of j say?
SeemsToContain(paths, i, j) ==
  /\ ContainsRect(Bounds(paths[i]), Bounds(paths[j]))
  /\ point_in_polygon(paths[j][1], paths[i]) = "inside"

\* The pairs of paths whose containment decides nothing.
Undecided(paths, i, j) ==
  /\ Intersects(Bounds(paths[i]), Bounds(paths[j]))
  /\ \/ SeemsToContain(paths, i, j) = SeemsToContain(paths, j, i)
     \/ ContainsRect(Bounds(paths[i]), Bounds(paths[j])) /\ point_in_polygon(paths[j][1], paths[i]) = "on"
     \/ ContainsRect(Bounds(paths[j]), Bounds(paths[i])) /\ point_in_polygon(paths[i][1], paths[j]) = "on"

DepthsKnown(paths) ==
  /\ \A i \in DOMAIN paths : DoubleArea(paths[i]) # 0
  /\ \A i, j \in DOMAIN paths : i < j => ~ Undecided(paths, i, j)

Depth(paths, j) ==
  Cardinality({i \in DOMAIN paths \ {j} :
                 Intersects(Bounds(paths[i]), Bounds(paths[j])) /\ SeemsToContain(paths, i, j)})

ShouldBePositive(paths, i) == Depth(paths, i) % 2 = 0

orient_passthrough_paths_like_clip_solution(paths, fill_rule) ==
  LET oriented == [i \in DOMAIN paths |->
                     IF is_positive(paths[i]) = ShouldBePositive(paths, i) THEN paths[i] ELSE Reverse(paths[i])]
  IN  IF Len(paths) = 1 THEN IF DoubleArea(paths[1]) = 0 THEN Declined ELSE {oriented}
      ELSE IF ~ DepthsKnown(paths) \/ (oriented # paths /\ fill_rule # "evenodd") THEN Declined
      ELSE {oriented}

TotalPoints(paths) == FoldFunction(LAMBDA a, b : a + b, 0, [k \in DOMAIN paths |-> Len(paths[k])])

try_execute_containing_rectangle_intersection(q) ==
  IF \/ q.clip_type # "intersection" \/ Len(q.clips) # 1 \/ q.subjects = <<>>
     \/ ~ path_as_axis_aligned_rect(q.clips[1]) \/ TotalPoints(q.subjects) > PointThreshold
  THEN Declined
  ELSE LET passed == [k \in DOMAIN q.subjects |-> PassedThrough(q.subjects[k], Bounds(q.clips[1]))]
       IN  IF \E k \in DOMAIN passed : \A path \in passed[k] : ~ path_is_provably_simple(path, ScanLimit)
           THEN Declined
           ELSE orient_passthrough_paths_like_clip_solution(
                  [k \in DOMAIN passed |-> CHOOSE path \in passed[k] : TRUE], q.fill_rule)

AllBounds(paths) == Bounds(FlattenSeq(paths))

try_execute_disjoint_bounds_intersection(q) ==
  IF q.clip_type # "intersection" THEN Declined
  ELSE IF \/ FlattenSeq(q.subjects) = <<>> \/ FlattenSeq(q.clips) = <<>>
          \/ ~ StrictOverlap(AllBounds(q.subjects), AllBounds(q.clips))
         THEN {<<>>} ELSE Declined

-----------------------------------------------------------------------------
(* The shortcuts of a clip, of a tree and of a union.                      *)

OptionsAreEligible(q) ==
  /\ q.open_subjects = <<>> /\ q.preserve_collinear /\ ~ q.reverse_solution
  /\ q.clip_type # "noclip" /\ q.fill_rule \in {"evenodd", "nonzero"}

FirstAnswer(answers) ==
  LET given == {k \in DOMAIN answers : answers[k] # Declined}
  IN  IF given = {} THEN Declined ELSE answers[Min(given)]

try_execute_closed_clip_fast_path(q) ==
  IF ~ OptionsAreEligible(q) THEN Declined
  ELSE FirstAnswer(<<try_execute_containing_rectangle_intersection(q),
                     try_execute_two_rectangle_intersection(q), try_execute_two_rectangle_union(q),
                     try_execute_two_rectangle_xor(q), try_execute_two_rectangle_difference(q),
                     try_execute_disjoint_bounds_intersection(q)>>)

try_execute_nested_rectangle_union_tree(q) ==
  IF \/ q.clip_type # "union" \/ q.fill_rule # "nonzero" \/ q.reverse_solution
     \/ q.clips # <<>> \/ q.open_subjects # <<>> \/ q.subjects = <<>>
     \/ \E k \in DOMAIN q.subjects :
          \/ ~ HasCornersOnly(q.subjects[k])
          \/ ~ ContainsRect(Bounds(q.subjects[1]), Bounds(q.subjects[k]))
          \/ is_positive(q.subjects[k]) # is_positive(q.subjects[1])
  THEN Declined
  ELSE {<<q.subjects[1]>>}

path_matches_fill_rule(path, fill_rule) ==
  fill_rule = IF is_positive(path) THEN "positive" ELSE "negative"

HasCollinearVertex(path) ==
  \E k \in DOMAIN path : is_collinear(PointBefore(path, k), path[k], PointAfter(path, k))

Directed(path, reverse_solution) == IF reverse_solution THEN Reverse(path) ELSE path

try_return_singleton_component_direct(path, q) ==
  IF ~ path_matches_fill_rule(path, q.fill_rule) \/ q.preserve_collinear \/ Len(path) < 3 THEN Declined
  ELSE IF HasCollinearVertex(path)
    THEN LET trimmed == trim_collinear_closed_component(path)
         IN  IF \/ Len(path) > TrimLimit \/ Len(trimmed) < 3
                \/ ~ path_matches_fill_rule(trimmed, q.fill_rule)
                \/ ~ path_is_provably_simple(trimmed, ScanLimit)
             THEN Declined ELSE {Directed(trimmed, q.reverse_solution)}
  ELSE IF path_is_provably_simple(path, ScanLimit) THEN {Directed(path, q.reverse_solution)} ELSE Declined
=============================================================================
