-------------------------------- MODULE RectClip -------------------------------
(***************************************************************************)
(* Clipping to a rectangle without the engine.  A path is followed from    *)
(* one side of the rectangle to the next: its points inside, the points    *)
(* where it crosses a side and the corners it goes round become a ring of  *)
(* nodes.  Nodes on a side are listed with the side, by their direction;   *)
(* where two rings, or two parts of one, overlap on a side in opposite     *)
(* directions they are joined or split, and the rings left are answered.   *)
(* Lines are followed in the same way and their pieces answered as they    *)
(* are.  The nodes and lists are kept per thread and used again.           *)
(*                                                                         *)
(* A node is named by its place in context.nodes, a null pointer is None.  *)
(* The lists of side s are 2s + 1, of nodes that go round clockwise, and   *)
(* 2s + 2.  A path is a sequence of points, with y downwards.              *)
(***************************************************************************)
EXTENDS PlaneGeometry, SequencesExt

VARIABLES
  context,     \* the reusable rectclip_context of the thread
  pc,          \* the step of the call
  request,     \* its request
  path_index,  \* the path it is at
  walk,        \* the locals of execute_path
  tidy,        \* the locals of tidy_edges, with the side
  answer       \* the paths answered, or an error

vars == <<context, pc, request, path_index, walk, tidy, answer>>

None == 0
Left == 0
Top == 1
Right == 2
Bottom == 3
Inside == 4
Sides == Left .. Bottom

clockwise_list(side) == 2 * side + 1
counter_clockwise_list(side) == 2 * side + 2

NoRect == [left |-> 0, top |-> 0, right |-> 0, bottom |-> 0]

reset_for_rect(rect) ==
  [rect |-> rect, path_bounds |-> NoRect, nodes |-> <<>>, results |-> <<>>,
   edges |-> [list \in 1 .. 8 |-> <<>>], start_locs |-> <<>>]

NoRequest == [api |-> "none"]

NoWalk == [index |-> 1, location |-> Inside, crossing |-> Inside, first_cross |-> Inside, start |-> Inside]

NoTidy == [side |-> Left, i |-> 1, j |-> 1]

NoAnswer == [error |-> FALSE, paths |-> <<>>]

Init ==
  /\ context = reset_for_rect(NoRect) /\ pc = "idle" /\ request = NoRequest
  /\ path_index = 1 /\ walk = NoWalk /\ tidy = NoTidy /\ answer = NoAnswer

rect == context.rect
path == request.paths[path_index]
OfLines == request.api = "lines"

-----------------------------------------------------------------------------
(* Points and sides.                                                       *)

is_on_rect_boundary(p) ==
  \/ p.x \in {rect.left, rect.right} /\ rect.top <= p.y /\ p.y <= rect.bottom
  \/ p.y \in {rect.top, rect.bottom} /\ rect.left <= p.x /\ p.x <= rect.right

\* A point on a side is at that side; the left and the right come first.
classify_point(p) ==
  LET within_height == rect.top <= p.y /\ p.y <= rect.bottom
      within_width == rect.left <= p.x /\ p.x <= rect.right
  IN  IF p.x < rect.left \/ (p.x = rect.left /\ within_height) THEN Left
      ELSE IF p.x > rect.right \/ (p.x = rect.right /\ within_height) THEN Right
      ELSE IF p.y < rect.top \/ (p.y = rect.top /\ within_width) THEN Top
      ELSE IF p.y > rect.bottom \/ (p.y = rect.bottom /\ within_width) THEN Bottom
      ELSE Inside

Corner(side) ==
  CASE side = Left -> [x |-> rect.left, y |-> rect.top]
    [] side = Top -> [x |-> rect.right, y |-> rect.top]
    [] side = Right -> [x |-> rect.right, y |-> rect.bottom]
    [] side = Bottom -> [x |-> rect.left, y |-> rect.bottom]

adjacent_location(side, clockwise) == (side + (IF clockwise THEN 1 ELSE 3)) % 4

heading_clockwise(previous, current) == (previous + 1) % 4 = current

are_opposites(previous, current) == previous - current \in {2, -2}

is_clockwise(previous, current, from, to) ==
  IF are_opposites(previous, current) THEN cross_product_sign(from, Midpoint(rect), to) < 0
  ELSE heading_clockwise(previous, current)

start_locations_are_clockwise(locations) ==
  LET delta(k) == locations[k] - locations[k - 1]
      turn(k) == CASE delta(k) \in {1, -1} -> delta(k) [] delta(k) = 3 -> -1
                   [] delta(k) = -3 -> 1 [] OTHER -> 0
  IN  FoldLeft(LAMBDA sum, k : sum + turn(k), 0, [k \in 1 .. Len(locations) - 1 |-> k + 1]) > 0

\* The sides a walk from one side to another passes, the first included.
Passed(from, to, clockwise) ==
  LET at[k \in Nat] == IF k = 0 THEN from ELSE adjacent_location(at[k - 1], clockwise)
      steps == Min({k \in 1 .. 5 : at[k] = to})
  IN  [k \in 1 .. steps |-> at[k - 1]]

Beyond(side, p) ==
  CASE side = Left -> p.x <= rect.left
    [] side = Top -> p.y <= rect.top
    [] side = Right -> p.x >= rect.right
    [] side = Bottom -> p.y >= rect.bottom

FirstNot(from, Holds(_)) ==
  Min({k \in from .. Len(path) : ~ Holds(path[k])} \cup {Len(path) + 1})

\* The sides a point that is no longer beyond a side is tried for, in turn.
SidesTried(side) ==
  CASE side = Left -> <<Right, Top, Bottom>>
    [] side = Top -> <<Bottom, Left, Right>>
    [] side = Right -> <<Left, Top, Bottom>>
    [] side = Bottom -> <<Top, Left, Right>>

\* The index of the first point not beyond the side, and where it is.
next_external_location(side, from) ==
  LET index == FirstNot(from, LAMBDA p : Beyond(side, p))
      there == SelectSeq(SidesTried(side), LAMBDA s : Beyond(s, path[index]))
  IN  [index |-> index,
       location |-> IF index > Len(path) THEN side ELSE IF there = <<>> THEN Inside ELSE there[1]]

-----------------------------------------------------------------------------
(* Where a segment meets a side: no point, or one.                         *)

get_segment_intersection(a, b, c, d) ==
  IF cross_product_sign(a, c, d) = 0
  THEN {p \in {a} : cross_product_sign(b, c, d) # 0 /\ OnSegment(p, c, d)}
  ELSE IF cross_product_sign(b, c, d) = 0 THEN {p \in {b} : OnSegment(p, c, d)}
  ELSE IF OnSegment(c, a, b) THEN {c}
  ELSE IF OnSegment(d, a, b) THEN {d}
  ELSE {p \in {line_intersection_point(a, b, c, d)} : ProperlyIntersect(a, b, c, d)}

MeetingWith(side, a, b) ==
  CASE side = Left -> get_segment_intersection(a, b, Corner(Left), Corner(Bottom))
    [] side = Top -> get_segment_intersection(a, b, Corner(Left), Corner(Top))
    [] side = Right -> get_segment_intersection(a, b, Corner(Top), Corner(Right))
    [] side = Bottom -> get_segment_intersection(a, b, Corner(Right), Corner(Bottom))

\* The sides tried for the segment from a, a point in the location.
SidesMet(location, a) ==
  CASE location = Left -> <<Left>> \o (IF a.y < rect.top THEN <<Top>> ELSE <<>>) \o <<Bottom>>
    [] location = Top -> <<Top>> \o (IF a.x < rect.left THEN <<Left>> ELSE <<>>) \o <<Right>>
    [] location = Right -> <<Right>> \o (IF a.y < rect.top THEN <<Top>> ELSE <<>>) \o <<Bottom>>
    [] location = Bottom -> <<Bottom>> \o (IF a.x < rect.left THEN <<Left>> ELSE <<>>) \o <<Right>>
    [] location = Inside -> <<Left, Top, Right, Bottom>>

get_intersection(a, b, location) ==
  LET met == SelectSeq(SidesMet(location, a), LAMBDA side : MeetingWith(side, a, b) # {})
  IN  IF met = <<>> THEN {} ELSE {[location |-> met[1], point |-> p] : p \in MeetingWith(met[1], a, b)}

-----------------------------------------------------------------------------
(* Rings of nodes.                                                         *)

add(c, point, start_new) ==
  LET new == Len(c.nodes) + 1
      last == Last(c.results)
      after == c.nodes[last].next
      Node(owner, next, prev) == [pt |-> point, owner |-> owner, edge |-> None, next |-> next, prev |-> prev]
  IN  IF c.results = <<>> \/ start_new
      THEN [c EXCEPT !.nodes = Append(@, Node(1, new, new)), !.results = Append(@, new)]
      ELSE IF c.nodes[last].pt = point THEN c
      ELSE [c EXCEPT !.nodes = Append([[@ EXCEPT ![after].prev = new] EXCEPT ![last].next = new],
                                      Node(Len(c.results), after, last)),
                     !.results[Len(c.results)] = new]

AddAll(c, points) == FoldLeft(LAMBDA so_far, p : add(so_far, p, FALSE), c, points)

add_corner(c, previous, current) ==
  add(c, Corner(IF heading_clockwise(previous, current) THEN previous ELSE current), FALSE)

\* The corners between the sides from one to another.
AddCorners(c, from, to, clockwise) ==
  AddAll(c, [k \in DOMAIN Passed(from, to, clockwise) |->
               LET side == Passed(from, to, clockwise)[k]
               IN  Corner(IF clockwise THEN side ELSE adjacent_location(side, FALSE))])

add_to_edge(c, list, node) ==
  IF c.nodes[node].edge # None THEN c
  ELSE [c EXCEPT !.nodes[node].edge = list, !.edges[list] = Append(@, node)]

uncouple_edge(c, node) ==
  LET list == c.nodes[node].edge
      places == {k \in DOMAIN c.edges[list] : c.edges[list][k] = node}
  IN  IF list = None THEN c
      ELSE IF places = {} THEN [c EXCEPT !.nodes[node].edge = None]
      ELSE [c EXCEPT !.edges[list][Min(places)] = None, !.nodes[node].edge = None]

\* The nodes of a ring, in the order of their links.
RingFrom(nodes, node) ==
  LET onward(ring) ==
        IF nodes[Last(ring)].next = node THEN ring ELSE Append(ring, nodes[Last(ring)].next)
      reached[k \in Nat] == IF k = 0 THEN <<node>> ELSE onward(reached[k - 1])
  IN  reached[Len(nodes)]

set_new_owner(nodes, node, owner) ==
  [n \in DOMAIN nodes |->
     IF n \in Range(RingFrom(nodes, node)) THEN [nodes[n] EXCEPT !.owner = owner] ELSE nodes[n]]

Unlinked(nodes, node) ==
  [[nodes EXCEPT ![nodes[node].prev].next = nodes[node].next] EXCEPT ![nodes[node].next].prev = nodes[node].prev]

CollinearAt(nodes, node) ==
  cross_product_sign(nodes[nodes[node].prev].pt, nodes[node].pt, nodes[nodes[node].next].pt) = 0

-----------------------------------------------------------------------------
(* check_edges.                                                            *)

\* One round of the loop that takes the points out of a ring that lie
\* between their neighbours; a node that is left alone is none.
DropCollinear(scan) ==
  LET node == scan.cursor
      back == scan.nodes[node].prev
      rest == Unlinked(scan.nodes, node)
      start == IF node = scan.start THEN rest[back].prev ELSE scan.start
  IN  IF ~ CollinearAt(scan.nodes, node)
      THEN [scan EXCEPT !.cursor = scan.nodes[node].next, !.ended = scan.nodes[node].next = scan.start]
      ELSE IF back = node THEN [scan EXCEPT !.cursor = None, !.start = None, !.ended = TRUE]
      ELSE [nodes |-> rest, start |-> start, cursor |-> back, ended |-> back = start]

Scan(nodes, node) ==
  FoldLeft(LAMBDA scan, round : IF scan.ended THEN scan ELSE DropCollinear(scan),
           [nodes |-> nodes, start |-> node, cursor |-> node, ended |-> FALSE],
           [round \in 1 .. 3 * Len(nodes) |-> round])

get_edges_for_point(p) ==
  {side \in {Left, Right} : p.x = (IF side = Left THEN rect.left ELSE rect.right)}
    \cup {side \in {Top, Bottom} : p.y = (IF side = Top THEN rect.top ELSE rect.bottom)}

is_heading_clockwise(from, to, side) ==
  CASE side = Left -> to.y < from.y
    [] side = Top -> to.x > from.x
    [] side = Right -> to.y > from.y
    [] side = Bottom -> to.x < from.x

maybe_attach_boundary_edge(c, node) ==
  LET from == c.nodes[c.nodes[node].prev].pt
      to == c.nodes[node].pt
      sides == get_edges_for_point(from) \cap get_edges_for_point(to)
      side == Min(sides)
  IN  IF sides = {} THEN c
      ELSE add_to_edge(c, IF is_heading_clockwise(from, to, side) THEN clockwise_list(side)
                          ELSE counter_clockwise_list(side), node)

CheckRing(c, k) ==
  LET scan == Scan(c.nodes, c.results[k])
      cleaned == [c EXCEPT !.nodes = scan.nodes, !.results[k] = scan.start]
  IN  IF c.results[k] = None \/ scan.start = None THEN cleaned
      ELSE FoldLeft(maybe_attach_boundary_edge, cleaned, RingFrom(cleaned.nodes, scan.start))

check_edges(c) ==
  FoldLeft(LAMBDA so_far, k : IF so_far.results[k] = None THEN so_far ELSE CheckRing(so_far, k),
           c, [k \in DOMAIN c.results |-> k])

-----------------------------------------------------------------------------
(* tidy_edges.                                                             *)

IsHorizontal(side) == side \in {Top, Bottom}
ClockwiseIsTowardLarger(side) == side \in {Top, Right}

is_ring_exhausted(nodes, node) == node = None \/ nodes[node].next = nodes[node].prev

is_detached_or_collapsed(nodes, node) ==
  nodes[node].next = nodes[node].prev \/ nodes[node].pt = nodes[nodes[node].prev].pt

\* The part of its side that the edge of a node from the one before covers.
Span(nodes, side, node) ==
  LET of(n) == IF IsHorizontal(side) THEN nodes[n].pt.x ELSE nodes[n].pt.y
  IN  [from |-> of(nodes[node].prev), to |-> of(node)]

is_previous_segment_larger(nodes, side, node) ==
  Span(nodes, side, node).to > Span(nodes, side, node).from

\* Of a clockwise edge and one the other way the ends toward the smaller
\* coordinate, p1 and p2, and the other ends.
EndsOf(nodes, side, with, against) ==
  IF ClockwiseIsTowardLarger(side)
  THEN [p1 |-> nodes[with].prev, p1a |-> with, p2 |-> against, p2a |-> nodes[against].prev]
  ELSE [p1 |-> with, p1a |-> nodes[with].prev, p2 |-> nodes[against].prev, p2a |-> against]

spans_overlap(nodes, side, ends) ==
  LET of(n) == IF IsHorizontal(side) THEN nodes[n].pt.x ELSE nodes[n].pt.y
  IN  of(ends.p1) < of(ends.p2a) /\ of(ends.p1a) > of(ends.p2)

reconnect_joined_ring(nodes, side, ends) ==
  LET link(before, first, second) == [[before EXCEPT ![first].next = second] EXCEPT ![second].prev = first]
  IN  IF ClockwiseIsTowardLarger(side)
      THEN link(link(nodes, ends.p1, ends.p2), ends.p2a, ends.p1a)
      ELSE link(link(nodes, ends.p2, ends.p1), ends.p1a, ends.p2a)

\* Two rings become one, or one ring two, and the results name both nodes.
Rejoined(c, side, ends) ==
  LET emptied == [c EXCEPT !.results[c.nodes[ends.p2].owner] = None]
      owned == set_new_owner(c.nodes, ends.p2, c.nodes[ends.p1].owner)
  IN  [emptied EXCEPT !.nodes = reconnect_joined_ring(owned, side, ends)]

SplitInTwo(c, side, ends) ==
  LET nodes == reconnect_joined_ring(c.nodes, side, ends)
  IN  [c EXCEPT !.nodes = set_new_owner(nodes, ends.p1a, Len(c.results) + 1),
                !.results = Append(@, ends.p1a)]

\* What is left of the two edges goes back to the lists: [context, i, j].
assign_split_edges(c, at, node, node2) ==
  LET side == at.side
      with == clockwise_list(side)
      against == counter_clockwise_list(side)
      IsClockwise(n) == is_previous_segment_larger(c.nodes, side, n) = ClockwiseIsTowardLarger(side)
      kept(lists, n) == IF IsClockwise(n) THEN [lists EXCEPT ![with][at.i] = n] ELSE [lists EXCEPT ![against][at.j] = n]
      only(n) == IF IsClockwise(n)
                 THEN [context |-> [c EXCEPT !.edges[with][at.i] = n, !.edges[against][at.j] = None],
                       i |-> at.i, j |-> at.j + 1]
                 ELSE [context |-> [c EXCEPT !.edges[against][at.j] = n, !.edges[with][at.i] = None],
                       i |-> at.i + 1, j |-> at.j]
      moved(before, n, list) == add_to_edge(uncouple_edge(before, n), list, n)
  IN  IF is_detached_or_collapsed(c.nodes, node) THEN only(node2)
      ELSE IF is_detached_or_collapsed(c.nodes, node2) THEN only(node)
      ELSE IF IsClockwise(node) /\ IsClockwise(node2)
      THEN [context |-> [moved([c EXCEPT !.edges[with][at.i] = node], node2, with)
                           EXCEPT !.edges[against][at.j] = None],
            i |-> at.i, j |-> at.j + 1]
      ELSE IF ~ IsClockwise(node) /\ ~ IsClockwise(node2)
      THEN [context |-> moved([c EXCEPT !.edges[with][at.i] = None, !.edges[against][at.j] = node2], node, against),
            i |-> at.i + 1, j |-> 1]
      ELSE [context |-> [c EXCEPT !.edges = kept(kept(c.edges, node), node2)], i |-> at.i, j |-> at.j]

\* Mutant: the edges that do not overlap are looked at again.
SameEdges(c, i, j) == [context |-> c, i |-> i, j |-> j]

\* The next edge of the other direction for the same clockwise one.
NextEdge(c, i, j) == [context |-> c, i |-> i, j |-> j + 1]

\* One round of the loop over the lists of a side.
TidyRound(c, at) ==
  LET with == c.edges[clockwise_list(at.side)]
      against == c.edges[counter_clockwise_list(at.side)]
      j == Min({k \in at.j .. Len(against) : ~ is_ring_exhausted(c.nodes, against[k])} \cup {Len(against) + 1})
      ends == EndsOf(c.nodes, at.side, with[at.i], against[j])
      joined == IF c.nodes[with[at.i]].owner # c.nodes[against[j]].owner
                THEN Rejoined(c, at.side, ends) ELSE SplitInTwo(c, at.side, ends)
      toward == ClockwiseIsTowardLarger(at.side)
      node == IF toward THEN ends.p2 ELSE ends.p1
      node2 == IF toward THEN ends.p1a ELSE ends.p2a
      named == [joined EXCEPT !.results =
                  [[@ EXCEPT ![joined.nodes[node].owner] = node] EXCEPT ![joined.nodes[node2].owner] = node2]]
  IN  IF is_ring_exhausted(c.nodes, with[at.i])
      THEN [context |-> [c EXCEPT !.edges[clockwise_list(at.side)][at.i] = None], i |-> at.i + 1, j |-> 1]
      ELSE IF j > Len(against) THEN [context |-> c, i |-> at.i + 1, j |-> 1]
      ELSE IF ~ spans_overlap(c.nodes, at.side, ends) THEN NextEdge(c, at.i, j)
      ELSE assign_split_edges(named, [at EXCEPT !.j = j], node, node2)

-----------------------------------------------------------------------------
(* The paths of the answer.                                                *)

\* One round of the loop of build_polygon_path, at a node that is not the
\* one the ring ends at.
Straighten(scan) ==
  LET next == scan.nodes[scan.cursor].next
  IN  IF ~ CollinearAt(scan.nodes, scan.cursor) THEN [scan EXCEPT !.cursor = next]
      ELSE [nodes |-> Unlinked(scan.nodes, scan.cursor), end |-> scan.nodes[scan.cursor].prev, cursor |-> next]

build_polygon_path(nodes, node) ==
  LET scan == FoldLeft(LAMBDA so_far, round : IF so_far.cursor = so_far.end THEN so_far ELSE Straighten(so_far),
                       [nodes |-> nodes, end |-> node, cursor |-> nodes[node].next],
                       [round \in 1 .. 3 * Len(nodes) |-> round])
      ring == RingFrom(scan.nodes, scan.end)
  IN  IF is_ring_exhausted(nodes, node) THEN <<>> ELSE [k \in DOMAIN ring |-> scan.nodes[ring[k]].pt]

build_line_path(nodes, node) ==
  LET ring == RingFrom(nodes, nodes[node].next)
  IN  IF node = None \/ nodes[node].next = node THEN <<>> ELSE [k \in DOMAIN ring |-> nodes[ring[k]].pt]

PathsOf(c) ==
  SelectSeq([k \in DOMAIN c.results |-> IF OfLines THEN build_line_path(c.nodes, c.results[k])
                                        ELSE build_polygon_path(c.nodes, c.results[k])],
            LAMBDA points : points # <<>>)

-----------------------------------------------------------------------------
(* A call begins.  request.out are the paths with a coordinate out of      *)
(* range, 0 standing for the rectangle.                                    *)

MinimumSize(q) == IF q.api = "lines" THEN 2 ELSE 3

rectclip_rect_contains_bounds(q, bounds) ==
  IF q.api # "lines" THEN ContainsRect(q.rect, bounds)
  ELSE /\ bounds.left > q.rect.left /\ bounds.right < q.rect.right
       /\ bounds.top > q.rect.top /\ bounds.bottom < q.rect.bottom

\* The bounds of a path, or of all the paths of a request together.
rectclip_unprepared_path_bounds(points) == Bounds(points)
build_rectclip_path_bounds_if_in_range(q) == Bounds(FlattenSeq(q.paths))

\* The facade's shortcut: every path lies in the rectangle.
AllContained(q) ==
  /\ \A k \in DOMAIN q.paths : Len(q.paths[k]) >= MinimumSize(q)
  /\ rectclip_rect_contains_bounds(q, build_rectclip_path_bounds_if_in_range(q))

SinglePathOutside(q) ==
  /\ Len(q.paths) = 1 /\ Len(q.paths[1]) >= MinimumSize(q)
  /\ ~ Intersects(q.rect, Bounds(q.paths[1]))

copy_line_paths(paths) ==
  LET copied(points) ==
        FoldLeft(LAMBDA copy, p : IF copy # <<>> /\ Last(copy) = p THEN copy ELSE Append(copy, p), <<>>, points)
  IN  SelectSeq([k \in DOMAIN paths |-> copied(paths[k])], LAMBDA points : Len(points) >= 2)

Failure(q) == [NoAnswer EXCEPT !.error = q.checked]

\* The requests answered before the first path is looked at, and how.
AnsweredAtOnce(q) ==
  IF 0 \in q.out /\ (q.checked \/ q.api = "lines") THEN {Failure(q)}
  ELSE IF IsEmpty(q.rect) \/ q.paths = <<>> THEN {NoAnswer}
  ELSE IF q.api = "rect" THEN {}
  ELSE IF q.out # {} THEN {IF q.api = "lines" THEN Failure(q) ELSE NoAnswer}
  ELSE IF SinglePathOutside(q) THEN {NoAnswer}
  ELSE IF AllContained(q)
  THEN {[NoAnswer EXCEPT !.paths = IF q.api = "lines" THEN copy_line_paths(q.paths) ELSE q.paths]}
  ELSE {}

\* An unchecked call relies on its caller for the range of the coordinates.
Begin(q) ==
  /\ pc = "idle" /\ (q.api = "rect" /\ ~ q.checked => q.out = {})
  /\ request' = q /\ path_index' = 1
  /\ IF AnsweredAtOnce(q) = {} THEN pc' = "path" /\ answer' = NoAnswer
     ELSE pc' = "idle" /\ answer' \in AnsweredAtOnce(q)
  /\ context' = IF AnsweredAtOnce(q) = {} /\ q.api # "rect" THEN reset_for_rect(q.rect) ELSE context
  /\ UNCHANGED <<walk, tidy>>

release_rectclip_thread_state ==
  /\ pc = "idle" /\ context' = [reset_for_rect(rect) EXCEPT !.path_bounds = context.path_bounds]
  /\ UNCHANGED <<pc, request, path_index, walk, tidy, answer>>

-----------------------------------------------------------------------------
(* The next path.                                                          *)

TooShort(points) == Len(points) < MinimumSize(request)

Misses(points) == ~ Intersects(request.rect, rectclip_unprepared_path_bounds(points))

LiesInside(points) ==
  ~ OfLines /\ ContainsRect(request.rect, rectclip_unprepared_path_bounds(points))

MustBeClipped(points) == ~ TooShort(points) /\ ~ Misses(points) /\ ~ LiesInside(points)

PathOutOfRange ==
  /\ pc = "path" /\ path_index \in request.out
  /\ pc' = "idle" /\ answer' = Failure(request)
  /\ UNCHANGED <<context, request, path_index, walk, tidy>>

TakePathAsItIs ==
  /\ pc = "path" /\ path_index \in DOMAIN request.paths /\ path_index \notin request.out /\ ~ MustBeClipped(path)
  /\ answer' = IF TooShort(path) \/ Misses(path) THEN answer ELSE [answer EXCEPT !.paths = Append(@, path)]
  /\ path_index' = path_index + 1
  /\ UNCHANGED <<context, pc, request, walk, tidy>>

EndCall ==
  /\ pc = "path" /\ path_index > Len(request.paths) /\ pc' = "idle"
  /\ UNCHANGED <<context, request, path_index, walk, tidy, answer>>

\* A call of rect_clip takes the thread's context with its first path to clip.
ContextForPath ==
  LET first == \A k \in 1 .. path_index - 1 : ~ MustBeClipped(request.paths[k])
      ready == IF request.api = "rect" /\ first THEN reset_for_rect(request.rect) ELSE context
  IN  [ready EXCEPT !.path_bounds = rectclip_unprepared_path_bounds(path)]

StartClip ==
  /\ pc = "path" /\ path_index \in DOMAIN request.paths /\ path_index \notin request.out /\ MustBeClipped(path)
  /\ context' = ContextForPath /\ pc' = "start"
  /\ UNCHANGED <<request, path_index, walk, tidy, answer>>

-----------------------------------------------------------------------------
(* execute_path: where the path starts.  A point on the border does not    *)
(* tell: the points before it are asked, or those after it of a line.      *)

OffBorder == {k \in DOMAIN path : ~ is_on_rect_boundary(path[k])}

\* Mutant: a path that starts on a side starts outside.
StartAtTheFirst == classify_point(path[IF OfLines THEN 1 ELSE Len(path)])

StartLocation ==
  LET first == IF OfLines THEN 1 ELSE Len(path)
      decisive == IF OfLines THEN Min(OffBorder) ELSE Max(OffBorder)
  IN  IF first \notin OffBorder /\ classify_point(path[decisive]) = Inside THEN Inside
      ELSE classify_point(path[first])

reset_line_storage(c) == [c EXCEPT !.nodes = <<>>, !.results = <<>>, !.start_locs = <<>>]

reset_polygon_storage(c) == [reset_line_storage(c) EXCEPT !.edges = [list \in 1 .. 8 |-> <<>>]]

\* A line lets go of what it finds in the context, a polygon takes it empty.
Entered == IF OfLines THEN reset_line_storage(context) ELSE context

AfterWalk == IF OfLines THEN "build" ELSE "check"

StartOnBorder ==
  /\ pc = "start" /\ OffBorder = {}
  /\ context' = AddAll(Entered, path) /\ pc' = AfterWalk
  /\ UNCHANGED <<request, path_index, walk, tidy, answer>>

StartWalk ==
  /\ pc = "start" /\ OffBorder # {} /\ pc' = "walk"
  /\ walk' = [NoWalk EXCEPT !.index = IF OfLines THEN 2 ELSE 1, !.location = StartLocation, !.start = StartLocation]
  /\ context' = IF OfLines /\ StartLocation = Inside THEN add(Entered, path[1], FALSE) ELSE Entered
  /\ UNCHANGED <<request, path_index, tidy, answer>>

-----------------------------------------------------------------------------
(* execute_path: the edges.                                                *)

WithinRect(p) == rect.left <= p.x /\ p.x <= rect.right /\ rect.top <= p.y /\ p.y <= rect.bottom

\* The next point somewhere else; those inside on the way are added.
get_next_location ==
  LET index == FirstNot(walk.index, WithinRect)
      out == path[index]
      location == IF out.x < rect.left THEN Left ELSE IF out.x > rect.right THEN Right
                  ELSE IF out.y > rect.bottom THEN Bottom ELSE Top
  IN  IF walk.location # Inside
      THEN next_external_location(walk.location, walk.index) @@ [context |-> context]
      ELSE [index |-> index, location |-> IF index > Len(path) THEN Inside ELSE location,
            context |-> AddAll(context, SubSeq(path, walk.index, index - 1))]

\* The edge that leads there meets the rectangle, and where.
Ahead(next) == get_intersection(path[next.index], PointBefore(path, next.index), next.location)

WentRound(next) ==
  is_clockwise(walk.location, next.location, PointBefore(path, next.index), path[next.index])

\* The edge passes the rectangle: the sides are noted until it is met, and
\* from then on the corners are added.
PassBy ==
  /\ pc = "walk" /\ ~ OfLines
  /\ \E next \in {get_next_location} :
       /\ next.index <= Len(path) /\ Ahead(next) = {} /\ next.location # Inside
       /\ walk' = [walk EXCEPT !.index = next.index + 1, !.location = next.location,
                               !.crossing = IF @ = Inside THEN Inside ELSE next.location]
       /\ context' =
            IF walk.crossing = Inside
            THEN [next.context EXCEPT !.start_locs = @ \o Passed(walk.location, next.location, WentRound(next))]
            ELSE IF walk.location = Inside \/ walk.location = next.location THEN next.context
            ELSE AddCorners(next.context, walk.location, next.location, WentRound(next))
  /\ UNCHANGED <<pc, request, path_index, tidy, answer>>

Enter ==
  /\ pc = "walk" /\ ~ OfLines
  /\ \E next \in {get_next_location} :
       /\ next.index <= Len(path) /\ next.location = Inside
       /\ \E hit \in Ahead(next) :
            /\ walk' = [walk EXCEPT !.index = next.index, !.location = Inside, !.crossing = hit.location,
                                    !.first_cross = IF @ = Inside THEN hit.location ELSE @]
            /\ LET clockwise == is_clockwise(walk.location, hit.location, PointBefore(path, next.index), path[next.index])
                   rounded == IF walk.first_cross = Inside
                              THEN [next.context EXCEPT !.start_locs = Append(@, walk.location)]
                              ELSE IF walk.location = hit.location THEN next.context
                              ELSE AddCorners(next.context, walk.location, hit.location, clockwise)
               IN  context' = add(rounded, hit.point, FALSE)
  /\ UNCHANGED <<pc, request, path_index, tidy, answer>>

\* The edge comes from outside and ends outside: it cuts a corner off, or
\* touches the rectangle in one point.
CutThrough(next, hit, first) ==
  LET noted == IF walk.first_cross = Inside THEN [next.context EXCEPT !.start_locs = Append(@, walk.location)]
               ELSE next.context
      rounded == IF walk.crossing \in {Inside, first.location} THEN noted
                 ELSE add_corner(noted, walk.crossing, first.location)
      entered == add(rounded, first.point, FALSE)
      there == classify_point(path[next.index])
      touches == hit.point = first.point
  IN  /\ context' = IF touches THEN add_corner(entered, hit.location, there) ELSE add(entered, hit.point, FALSE)
      /\ walk' = [walk EXCEPT !.index = next.index,
                              !.first_cross = IF @ = Inside THEN first.location ELSE @,
                              !.location = IF touches THEN there ELSE hit.location,
                              !.crossing = IF touches THEN there ELSE hit.location]

PassThrough ==
  /\ pc = "walk" /\ ~ OfLines /\ walk.location # Inside
  /\ \E next \in {get_next_location} :
       /\ next.index <= Len(path) /\ next.location # Inside
       /\ \E hit \in Ahead(next) :
            LET first == get_intersection(PointBefore(path, next.index), path[next.index], walk.location)
            IN  IF first # {} THEN \E meeting \in first : CutThrough(next, hit, meeting)
                ELSE /\ context' = next.context
                     /\ walk' = [walk EXCEPT !.index = next.index + 1, !.crossing = hit.location]
  /\ UNCHANGED <<pc, request, path_index, tidy, answer>>

Leave ==
  /\ pc = "walk" /\ ~ OfLines /\ walk.location = Inside
  /\ \E next \in {get_next_location} :
       /\ next.index <= Len(path) /\ next.location # Inside
       /\ \E hit \in Ahead(next) :
            /\ context' = add(next.context, hit.point, FALSE)
            /\ walk' = [walk EXCEPT !.index = next.index, !.location = hit.location, !.crossing = hit.location,
                                    !.first_cross = IF @ = Inside THEN hit.location ELSE @]
  /\ UNCHANGED <<pc, request, path_index, tidy, answer>>

\* The edges of a line: a piece begins where it comes in.
WalkLine ==
  /\ pc = "walk" /\ OfLines
  /\ \E next \in {get_next_location} :
       /\ next.index <= Len(path)
       /\ LET first == get_intersection(PointBefore(path, next.index), path[next.index], walk.location)
              skipped == Ahead(next) = {} \/ (next.location # Inside /\ walk.location # Inside /\ first = {})
          IN  IF skipped
              THEN /\ context' = next.context
                   /\ walk' = [walk EXCEPT !.index = next.index + 1, !.location = next.location]
              ELSE \E hit \in Ahead(next) :
                     /\ walk' = [walk EXCEPT !.index = next.index, !.location = next.location]
                     /\ IF next.location = Inside THEN context' = add(next.context, hit.point, TRUE)
                        ELSE IF walk.location = Inside THEN context' = add(next.context, hit.point, FALSE)
                        ELSE \E meeting \in first :
                               context' = add(add(next.context, meeting.point, TRUE), hit.point, FALSE)
  /\ UNCHANGED <<pc, request, path_index, tidy, answer>>

-----------------------------------------------------------------------------
(* finish_path: the corners that are left to go round.                     *)

\* Corners of the rectangle outside the path less those inside it, until
\* two decide.
path_contains_rectangle ==
  LET verdict(side) == CASE point_in_polygon(Corner(side), path) = "outside" -> 1
                         [] point_in_polygon(Corner(side), path) = "inside" -> -1
                         [] OTHER -> 0
  IN  FoldLeft(LAMBDA count, side : IF count \in {2, -2} THEN count ELSE count + verdict(side),
               0, <<Left, Top, Right, Bottom>>) <= 0

\* A path around the rectangle: its ring is the rectangle's.
GoRound(c) ==
  LET sides == <<Left, Top, Right, Bottom>>
      round(so_far, side) ==
        LET added == add(so_far, Corner(side), FALSE)
        IN  add_to_edge(added, clockwise_list(side), added.results[1])
  IN  FoldLeft(round, c, IF start_locations_are_clockwise(c.start_locs) THEN sides ELSE Reverse(sides))

\* The corner on the way from a side to the next.
NextCorner(c, from, to) ==
  add(c, Corner(IF heading_clockwise(from, to) THEN from ELSE adjacent_location(from, FALSE)), FALSE)

Retraced(c, location) ==
  FoldLeft(LAMBDA so_far, side :
             IF side = so_far.at THEN so_far
             ELSE [at |-> side, context |-> NextCorner(so_far.context, so_far.at, side)],
           [at |-> location, context |-> c], c.start_locs)

finish_path(c, location) ==
  LET back == Retraced(c, location)
  IN  IF walk.first_cross = Inside
      THEN IF walk.start # Inside /\ ContainsRect(c.path_bounds, c.rect) /\ path_contains_rectangle THEN GoRound(c) ELSE c
      ELSE IF location = Inside \/ (location = walk.first_cross /\ Len(c.start_locs) <= 2) THEN c
      ELSE IF back.at = walk.first_cross THEN back.context
      ELSE NextCorner(back.context, back.at, walk.first_cross)

EndWalk ==
  /\ pc = "walk"
  /\ \E next \in {get_next_location} :
       /\ next.index > Len(path)
       /\ context' = IF OfLines THEN next.context ELSE finish_path(next.context, next.location)
  /\ walk' = NoWalk /\ pc' = AfterWalk
  /\ UNCHANGED <<request, path_index, tidy, answer>>

-----------------------------------------------------------------------------
(* From the rings to the answer.                                           *)

CheckEdges ==
  /\ pc = "check" /\ context' = check_edges(context)
  /\ pc' = "tidy" /\ tidy' = NoTidy
  /\ UNCHANGED <<request, path_index, walk, answer>>

SideIsTidy ==
  \/ context.edges[counter_clockwise_list(tidy.side)] = <<>>
  \/ tidy.i > Len(context.edges[clockwise_list(tidy.side)])

TidyEdges ==
  /\ pc = "tidy" /\ ~ SideIsTidy
  /\ \E round \in {TidyRound(context, tidy)} :
       context' = round.context /\ tidy' = [tidy EXCEPT !.i = round.i, !.j = round.j]
  /\ UNCHANGED <<pc, request, path_index, walk, answer>>

NextSide ==
  /\ pc = "tidy" /\ SideIsTidy
  /\ IF tidy.side = Bottom THEN pc' = "build" /\ tidy' = NoTidy
     ELSE pc' = "tidy" /\ tidy' = [NoTidy EXCEPT !.side = tidy.side + 1]
  /\ UNCHANGED <<context, request, path_index, walk, answer>>

BuildPaths ==
  /\ pc = "build" /\ pc' = "path" /\ path_index' = path_index + 1
  /\ answer' = [answer EXCEPT !.paths = @ \o PathsOf(context)]
  /\ context' = IF OfLines THEN reset_line_storage(context) ELSE reset_polygon_storage(context)
  /\ UNCHANGED <<request, walk, tidy>>

\* The call ends and leaves the context of the thread as it is.
AllocationFails ==
  /\ pc \in {"start", "walk", "check", "tidy", "build"}
  /\ pc' = "idle" /\ answer' = [NoAnswer EXCEPT !.error = TRUE] /\ walk' = NoWalk /\ tidy' = NoTidy
  /\ UNCHANGED <<context, request, path_index>>

\* A step of a call that has begun.
Step ==
  \/ PathOutOfRange \/ TakePathAsItIs \/ EndCall \/ StartClip
  \/ StartOnBorder \/ StartWalk \/ PassBy \/ Enter \/ PassThrough \/ Leave \/ WalkLine \/ EndWalk
  \/ CheckEdges \/ TidyEdges \/ NextSide \/ BuildPaths

-----------------------------------------------------------------------------
(* Safety.                                                                 *)

Twice(p, q) == [x |-> p.x + q.x, y |-> p.y + q.y]

Doubled(r) == [left |-> 2 * r.left, top |-> 2 * r.top, right |-> 2 * r.right, bottom |-> 2 * r.bottom]

PolygonsAreTheInside ==
  \A s \in Samples(request.paths) :
    WindingOfAll(s, answer.paths) =
      IF ContainsPoint([left |-> Parts * request.rect.left, right |-> Parts * request.rect.right,
                        top |-> Parts * request.rect.top, bottom |-> Parts * request.rect.bottom], s)
      THEN WindingOfAll(s, request.paths) ELSE 0

StepsOf(paths) ==
  UNION {UnitSteps(paths[k][n - 1], paths[k][n]) : <<k, n>> \in UNION {{k} \X (2 .. Len(paths[k])) : k \in DOMAIN paths}}

\* A step on a side of the rectangle may be answered or not.
LinesAreTheInside ==
  /\ StepsOf(answer.paths) \subseteq StepsOf(request.paths)
  /\ \A step \in StepsOf(request.paths) :
       LET middle == Twice(step.from, step.to)
           box == Doubled(request.rect)
           at_most == [left |-> middle.x, top |-> middle.y, right |-> middle.x, bottom |-> middle.y]
       IN  /\ ContainsPoint(box, middle) => TimesTaken(step, answer.paths) = TimesTaken(step, request.paths)
           /\ ~ ContainsRect(box, at_most) => TimesTaken(step, answer.paths) = 0

\* A call answers what lies in the rectangle: round every point in it the
\* answered rings turn as often as the paths do, round none outside it, and
\* of the lines the pieces inside are there, as often as they are drawn.  It
\* does so wherever a path starts, however often it meets the sides and the
\* corners and turns back on them, whichever of the shortcuts are taken, and
\* whatever a call that failed before has left in the context of the thread.
AnswerIsTheInside ==
  pc = "idle" /\ request # NoRequest /\ ~ answer.error =>
    IF request.out # {} THEN answer.paths = <<>>
    ELSE IF OfLines THEN LinesAreTheInside ELSE PolygonsAreTheInside
=============================================================================
