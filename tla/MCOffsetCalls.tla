----------------------------- MODULE MCOffsetCalls -----------------------------
(* Instances of OffsetCalls for TLC.                                         *)
EXTENDS OffsetCalls

\* Paths are written as sequences of pairs.
Points2(pairs) == [k \in DOMAIN pairs |-> [x |-> pairs[k][1], y |-> pairs[k][2]]]

Box(left, top, right, bottom) ==
  Points2(<<<<left, top>>, <<right, top>>, <<right, bottom>>, <<left, bottom>>>>)

Group(paths, join_type, end_type) ==
  [paths |-> paths, again |-> paths, join_type |-> join_type, end_type |-> end_type]

Request(entry, request_groups, distance) ==
  [entry |-> entry, groups |-> request_groups, delta |-> distance, limit |-> 1, tree |-> FALSE,
   preserve_collinear |-> FALSE, reverse_solution |-> FALSE]

\* Up to MaxPaths paths of a list, the k-th of them shifted to the right.
Shifted(path, k) == [n \in DOMAIN path |-> [path[n] EXCEPT !.x = @ + 5 * (k - 1)]]

Rows(shapes, sizes) ==
  {[k \in DOMAIN row |-> Shifted(row[k], k)] : row \in UNION {[1 .. size -> shapes] : size \in sizes}}

Dot == <<[x |-> 1, y |-> 1]>>
Segment == Points2(<<<<0, 0>>, <<2, 0>>>>)
Corner == Points2(<<<<0, 0>>, <<2, 0>>, <<2, 2>>>>)
Square == Box(0, 0, 2, 2)

\* One group for the executor: all ways to cut paths of few points, or none.
Concurrent(sizes) ==
  {[Request("stage", <<Group(paths, "Miter", "Polygon")>>, distance) EXCEPT !.limit = 2] :
     paths \in Rows({<<>>, Dot, Square}, sizes), distance \in {-1, 1}}
  \cup {[Request("stage", <<Group(paths, "Bevel", "Joined")>>, 1) EXCEPT !.limit = 2] :
     paths \in Rows({Segment, Square}, sizes)}
  \cup {[Request("stage", <<Group(paths, "Bevel", "Butt")>>, 1) EXCEPT !.limit = 2] :
     paths \in Rows({Segment, Corner}, sizes)}

\* A path whose rings leave the range, among others.
Distant == {[Request("stage", <<Group(paths, "Miter", "Polygon")>>, 1) EXCEPT !.limit = 2] :
              paths \in {<<Square, Box(28, 0, 30, 2), Dot>>, <<Square, Box(28, 0, 31, 2), Dot>>}}

ConcurrentRequests == Concurrent(1 .. 5) \cup Distant

\* Paths with bends on either side, in both directions, inside each other,
\* apart, touching, near; with repeated points, spikes and points on edges.
Ell == Points2(<<<<0, 0>>, <<6, 0>>, <<6, 2>>, <<3, 2>>, <<3, 5>>, <<0, 5>>>>)
Cup == Points2(<<<<0, 0>>, <<2, 0>>, <<2, 3>>, <<5, 3>>, <<5, 0>>, <<7, 0>>, <<7, 6>>, <<0, 6>>>>)

Drawings ==
  {<<Square>>, <<Ell>>, <<Reverse(Ell)>>, <<Cup>>, <<Reverse(Cup)>>,
   <<Box(0, 0, 8, 8), Reverse(Box(2, 2, 6, 6))>>, <<Reverse(Box(2, 2, 6, 6)), Box(0, 0, 8, 8)>>,
   <<Reverse(Box(0, 0, 8, 8)), Box(3, 3, 5, 5)>>,
   <<Square, Box(6, 0, 8, 2)>>, <<Square, Box(4, 0, 6, 2)>>, <<Square, Box(2, 2, 4, 4)>>,
   <<Box(0, 0, 2, 1), Box(5, 0, 7, 1), Box(0, 5, 2, 6), Box(5, 5, 7, 6)>>,
   <<Points2(<<<<0, 0>>, <<2, 0>>, <<2, 0>>, <<4, 0>>, <<4, 4>>, <<4, 2>>, <<4, 4>>, <<0, 4>>, <<0, 0>>>>)>>,
   <<Points2(<<<<0, 0>>, <<4, 0>>, <<4, 2>>, <<6, 2>>, <<4, 2>>, <<4, 4>>, <<0, 4>>>>)>>,
   <<Dot, Points2(<<<<3, 0>>, <<6, 0>>, <<3, 0>>>>)>>}

\* Paths whose ends no edge along an axis joins.
OpenDrawings ==
  {<<Points2(<<<<0, 0>>, <<4, 0>>, <<2, 0>>, <<2, 3>>>>)>>,
   <<Points2(<<<<0, 0>>, <<3, 0>>, <<3, 2>>, <<5, 2>>, <<5, 5>>, <<1, 5>>>>), Segment>>}

Entries(distance, g) ==
  {Request("owning", <<g>>, distance),
   [Request("stage", <<g>>, distance) EXCEPT !.reverse_solution = TRUE],
   [Request("stage", <<g>>, distance) EXCEPT !.preserve_collinear = TRUE],
   [Request("builder", <<g>>, distance) EXCEPT !.tree = TRUE]}

Drawn ==
  UNION {Entries(distance, Group(paths, join_type, end_type)) :
           distance \in {-1, 1, 2}, paths \in Drawings, join_type \in {"Miter", "Bevel"},
           end_type \in {"Polygon", "Joined", "Butt", "Square"}}
  \cup UNION {Entries(distance, Group(paths, join_type, end_type)) :
           distance \in {-1, 1, 2}, paths \in OpenDrawings, join_type \in {"Miter", "Bevel"},
           end_type \in {"Butt", "Square"}}

\* A distance of 0, ranges, no groups.
Plain ==
  UNION {Entries(0, Group(paths, "Miter", "Polygon")) :
           paths \in {<<Ell>>, <<Cup, Cup>>, <<>>, <<Box(28, 0, 31, 2)>>}}
  \cup {Request("builder", <<Group(<<Box(28, 0, 31, 2)>>, "Miter", "Polygon")>>, distance) :
           distance \in {0, 1}}
  \cup {Request(entry, <<>>, 1) : entry \in {"stage", "builder"}}

\* Two groups, of which the first changes what the second starts from.
Pairs ==
  {[Request(entry, <<first, second>>, distance) EXCEPT !.limit = IF entry = "stage" THEN 2 ELSE 1] :
     entry \in {"stage", "builder"}, distance \in {-1, 1},
     first \in {Group(<<Dot>>, "Miter", "Polygon"), Group(<<Ell>>, "Bevel", "Polygon"),
                Group(<<Reverse(Square)>>, "Miter", "Polygon"), Group(<<>>, "Miter", "Polygon"),
                Group(<<Ell, Square>>, "Miter", "Joined"), Group(<<Box(28, 0, 30, 2)>>, "Miter", "Polygon")},
     second \in {Group(<<Box(2, 2, 6, 6), Box(8, 2, 10, 4)>>, "Miter", "Polygon"),
                 Group(<<Reverse(Square), Reverse(Ell)>>, "Miter", "Polygon"),
                 Group(<<Shifted(Corner, 2), Shifted(Segment, 2)>>, "Miter", "Square")}}

\* The caller shows something else the second time.
Changed ==
  {Request("stage", <<Group(<<Dot>>, "Miter", "Square"),
                      [Group(<<Ell, Square>>, "Miter", "Polygon") EXCEPT !.again = again]>>, 1) :
     again \in {<<Ell>>, <<Ell, Shifted(Square, 3)>>, <<Ell, Corner>>, <<Square, Ell>>,
                <<Ell, Points2(<<<<0, 0>>, <<2, 0>>, <<2, 0>>, <<2, 2>>>>)>>,
                <<Ell, Box(0, 0, 31, 2)>>, <<Box(0, 0, 31, 2), Square>>}}

\* More than the limits.
Large ==
  {Request("stage", <<Group([k \in 1 .. 7 |-> Dot], "Miter", "Polygon")>>, 1),
   Request("stage", <<Group(<<Cup, Cup, Cup, Cup>>, "Miter", "Polygon")>>, 1),
   Request("stage", <<Group(<<Cup, Square>>, "Miter", "Butt"), Group(<<Cup, Cup>>, "Miter", "Butt")>>, 1)}

CallRequests == ConcurrentRequests \cup Drawn \cup Plain \cup Pairs \cup Changed \cup Large

\* Polygons of no more than four points, of which some have none.
EmptyPathRequests == Concurrent({5})
=============================================================================
