----------------------------- MODULE MCThreadCalls -----------------------------
(* Instances of ThreadCalls for TLC: those of ClipRequests, and paths and    *)
(* lines for the rectangle clip.  Every edge crosses the lines through the   *)
(* rectangle's sides in grid points, so that no crossing is rounded.         *)
EXTENDS ThreadCalls, MCClipRequests

Rectangle(left, top, right, bottom) == [left |-> left, top |-> top, right |-> right, bottom |-> bottom]

Small == Rectangle(1, 1, 3, 3)

RectRequest(api, box, paths) == [api |-> api, checked |-> FALSE, rect |-> box, paths |-> paths, out |-> {}]

Grid(values) == {Point(a, b) : a \in values, b \in values}

CrossesInGridPoints(a, b, box) ==
  /\ \A c \in {box.left, box.right} :
       (a.x < c /\ c < b.x) \/ (b.x < c /\ c < a.x) => ((c - a.x) * (b.y - a.y)) % Max({b.x - a.x, a.x - b.x}) = 0
  /\ \A c \in {box.top, box.bottom} :
       (a.y < c /\ c < b.y) \/ (b.y < c /\ c < a.y) => ((c - a.y) * (b.x - a.x)) % Max({b.y - a.y, a.y - b.y}) = 0

Exact(path, box) == \A k \in DOMAIN path : CrossesInGridPoints(PointBefore(path, k), path[k], box)

\* All triangles, flat ones too, from the left half of a grid that shares
\* its lines with the rectangle.
Triangles == {<<a, b, c>> : a \in {p \in Grid(0 .. 4) : p.x < 2 /\ p.y <= p.x + 2}, b \in Grid(0 .. 4), c \in Grid(0 .. 4)}

\* All paths of four points, and of five from a corner, of which none is on
\* a side: they go round the rectangle, through it and back.
Wide == Rectangle(2, 2, 6, 6)

Around == {<<a, b, c, d>> : a \in Grid({0, 4, 8}), b \in Grid({0, 4, 8}), c \in Grid({0, 4, 8}), d \in Grid({0, 4, 8})}

\* Longer ones: combs whose teeth end in the rectangle, on a side or behind
\* it; a path round a part of it; one that follows its sides there and back.
Comb(depth) ==
  Path(<<<<0, 0>>, <<8, 0>>, <<8, 8>>, <<6, depth>>, <<4, 8>>, <<2, depth>>, <<0, 8>>>>)

Teeth(depth) ==
  Path(<<<<0, 2>>, <<depth, 2>>, <<depth, 3>>, <<0, 3>>, <<0, 4>>, <<depth, 4>>, <<depth, 5>>, <<0, 5>>>>)

Turns ==
  {Comb(4), Comb(6), Teeth(2), Teeth(4), Teeth(6), Teeth(8),
   Path(<<<<0, 0>>, <<8, 0>>, <<8, 8>>, <<4, 8>>, <<4, 7>>, <<7, 7>>, <<7, 1>>, <<1, 1>>, <<1, 7>>, <<4, 7>>, <<4, 8>>, <<0, 8>>>>),
   Path(<<<<2, 2>>, <<6, 2>>, <<6, 4>>, <<6, 8>>, <<6, 4>>, <<4, 2>>, <<2, 2>>, <<2, 6>>>>),
   Path(<<<<2, 0>>, <<2, 4>>, <<2, 8>>, <<6, 8>>, <<6, 4>>, <<4, 6>>, <<4, 2>>>>),
   Path(<<<<0, 4>>, <<4, 4>>, <<4, 0>>, <<8, 0>>, <<8, 4>>, <<4, 4>>, <<4, 8>>, <<0, 8>>>>)}

Rotations(path) == {SubSeq(path, k, Len(path)) \o SubSeq(path, 1, k - 1) : k \in DOMAIN path}

Lines == {<<a, b, c>> : a \in {p \in Grid(0 .. 4) : p.x <= 2 /\ p.y <= p.x}, b \in Grid(0 .. 4), c \in Grid(0 .. 4)}

\* Several paths at once: short ones, some inside, some outside; with each
\* of the interfaces.
Several ==
  {<<Box(3, 3, 5, 5)>>, <<Box(3, 3, 5, 5), Teeth(4)>>, <<Teeth(4), Teeth(6), Path(<<<<3, 3>>, <<4, 4>>>>)>>,
   <<Path(<<<<3, 3>>, <<3, 3>>, <<5, 4>>>>), Path(<<<<4, 4>>>>)>>, <<Box(0, 0, 1, 1)>>, <<Box(0, 0, 1, 1), Box(7, 7, 9, 9)>>,
   <<Path(<<<<4, 4>>, <<5, 5>>>>), Path(<<<<4, 4>>, <<4, 4>>>>), Path(<<<<3, 4>>, <<3, 5>>, <<3, 5>>>>)>>, <<<<>>, Teeth(4)>>, <<>>}

OfSeveral ==
  {[RectRequest(api, box, paths) EXCEPT !.checked = checked, !.out = out] :
     api \in {"rect", "prepared", "lines"}, box \in {Wide, Rectangle(4, 4, 4, 6)}, paths \in Several,
     checked \in BOOLEAN, out \in {{}, {0}, {2}}}

RectSequences ==
  {RectRequest("rect", Wide, <<Teeth(4), Comb(4)>>), RectRequest("lines", Small, <<Path(<<<<0, 2>>, <<2, 2>>, <<2, 4>>>>)>>),
   [RectRequest("rect", Wide, <<Teeth(6), Box(0, 0, 1, 1)>>) EXCEPT !.checked = TRUE, !.out = {2}]}

AllRectRequests ==
  RectSequences
    \cup {RectRequest("rect", Small, <<path>>) : path \in {t \in Triangles : Exact(t, Small)}}
    \cup {RectRequest("rect", Wide, <<path>>) : path \in Around \cup UNION {Rotations(turn) : turn \in Turns}}
    \cup {RectRequest("prepared", Wide, <<Reverse(path)>>) : path \in UNION {Rotations(turn) : turn \in Turns}}
    \cup {RectRequest("lines", Small, <<path>>) : path \in {t \in Lines : Exact(t, Small)}}
    \cup {q \in OfSeveral : q.out \subseteq {0} \cup DOMAIN q.paths}
=============================================================================
