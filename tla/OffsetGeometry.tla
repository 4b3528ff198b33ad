--------------------------- MODULE OffsetGeometry ---------------------------
(***************************************************************************)
(* The rings an offset generates for one path.  The paths are those whose  *)
(* edges are parallel to the axes and the joins miters and bevels: then    *)
(* every normal is a unit vector of the grid and every point the library   *)
(* computes in floating point is a grid point, so nothing is rounded.  At  *)
(* a corner the angle between two edges is known by the sine and the       *)
(* cosine, each one of -1, 0 and 1.                                        *)
(***************************************************************************)
EXTENDS PlaneGeometry

\* The point p moved by d along n.
Moved(p, n, d) == [x |-> p.x + n.x * d, y |-> p.y + n.y * d]

Negated(n) == [x |-> - n.x, y |-> - n.y]

unit_normal(a, b) == [x |-> Sign(b.y - a.y), y |-> - Sign(b.x - a.x)]

assign_normals(path) == [k \in DOMAIN path |-> unit_normal(path[k], PointAfter(path, k))]

SinA(n, m) == n.y * m.x - m.y * n.x
CosA(n, m) == n.x * m.x + n.y * m.y

Abs(d) == IF d < 0 THEN - d ELSE d

-----------------------------------------------------------------------------
(* What is appended at a vertex, with the normals of the edges before and  *)
(* after it.                                                               *)

append_bevel(p, before, after, d) == <<Moved(p, before, d), Moved(p, after, d)>>

append_miter(p, before, after, d) ==
  IF CosA(after, before) = 1 THEN <<Moved(p, after, d)>>
  ELSE <<Moved(Moved(p, before, d), after, d)>>

\* Where the path turns back: past the vertex, in the direction of the edge
\* before it.
append_square(p, before, d) ==
  LET beyond == Moved(p, [x |-> - before.y, y |-> before.x], Abs(d))
  IN  <<Moved(beyond, before, d), Moved(beyond, before, - d)>>

append_concave(p, before, after, d) == <<Moved(p, before, d), p, Moved(p, after, d)>>

\* Mutant: the sign of the distance does not matter.
JoinWithoutSign(path, normals, j, k, join_type, d) ==
  LET before == normals[k]
      after == normals[j]
      cos_a == CosA(after, before)
  IN  IF path[j] = path[k] THEN <<>>
      ELSE IF cos_a # -1 /\ SinA(after, before) < 0 THEN append_concave(path[j], before, after, d)
      ELSE IF cos_a = 1 \/ (cos_a = 0 /\ join_type = "Miter") THEN append_miter(path[j], before, after, d)
      ELSE IF join_type = "Miter" THEN append_square(path[j], before, d)
      ELSE append_bevel(path[j], before, after, d)

\* The join at vertex j, which the path comes to from vertex k.
append_offset_join(path, normals, j, k, join_type, d) ==
  LET before == normals[k]
      after == normals[j]
      cos_a == CosA(after, before)
  IN  IF path[j] = path[k] THEN <<>>
      ELSE IF cos_a # -1 /\ SinA(after, before) * d < 0 THEN append_concave(path[j], before, after, d)
      ELSE IF cos_a = 1 \/ (cos_a = 0 /\ join_type = "Miter") THEN append_miter(path[j], before, after, d)
      ELSE IF join_type = "Miter" THEN append_square(path[j], before, d)
      ELSE append_bevel(path[j], before, after, d)

-----------------------------------------------------------------------------
(* Rings.                                                                  *)

offset_polygon(path, normals, join_type, d) ==
  FlattenSeq([j \in DOMAIN path |->
    append_offset_join(path, normals, j, IF j = 1 THEN Len(path) ELSE j - 1, join_type, d)])

\* The normals of the path walked backwards.
Backwards(normals) ==
  LET reversed == Reverse(normals)
  IN  [k \in DOMAIN normals |-> Negated(reversed[IF k = Len(normals) THEN 1 ELSE k + 1])]

offset_open_joined(path, join_type, d) ==
  <<offset_polygon(path, assign_normals(path), join_type, d),
    offset_polygon(Reverse(path), Backwards(assign_normals(path)), join_type, d)>>

\* The cap at an end, with the normal there.
Cap(p, normal, end_type, d) ==
  IF end_type = "Butt" THEN <<Moved(p, normal, - Abs(d)), Moved(p, normal, Abs(d))>>
  ELSE LET beyond == Moved(p, [x |-> normal.y, y |-> - normal.x], Abs(d))
       IN  <<Moved(beyond, normal, - d), Moved(beyond, normal, d)>>

\* One ring: along the path to its end and back to its start.
offset_open_path(path, join_type, end_type, d) ==
  LET there == assign_normals(path)
      high == Len(path)
      back == [k \in DOMAIN path |-> Negated(there[IF k = 1 THEN high - 1 ELSE k - 1])]
  IN  Cap(path[1], there[1], end_type, d)
        \o FlattenSeq([n \in 1 .. high - 2 |->
             append_offset_join(path, there, n + 1, n, join_type, d)])
        \o Cap(path[high], back[high], end_type, d)
        \o FlattenSeq([n \in 1 .. high - 2 |->
             append_offset_join(path, back, high - n, high - n + 1, join_type, d)])

append_single_point_offset(p, d) ==
  IF d < 1 THEN <<>>
  ELSE <<<<[x |-> p.x - d, y |-> p.y - d], [x |-> p.x + d, y |-> p.y - d],
           [x |-> p.x + d, y |-> p.y + d], [x |-> p.x - d, y |-> p.y + d]>>>>

\* A path of two points in a group of joined paths has square ends.
build_offset_path_with_end_type(path, join_type, group_end_type, end_type, d) ==
  IF Len(path) = 1 THEN append_single_point_offset(path[1], d)
  ELSE LET ends == IF Len(path) = 2 /\ group_end_type = "Joined" THEN "Square" ELSE end_type
       IN  CASE ends = "Polygon" -> <<offset_polygon(path, assign_normals(path), join_type, d)>>
             [] ends = "Joined" -> offset_open_joined(path, join_type, d)
             [] OTHER -> <<offset_open_path(path, join_type, ends, d)>>

-----------------------------------------------------------------------------
(* The paths of a group before anything is generated.                      *)

WithoutRepeats(path) ==
  FoldLeft(LAMBDA kept, p : IF kept # <<>> /\ Last(kept) = p THEN kept ELSE Append(kept, p), <<>>, path)

\* No point repeats the one before it and, if closed, the last not the first.
CleanPath(path, is_closed) ==
  LET kept == WithoutRepeats(path)
      sizes == {n \in 1 .. Len(kept) : \A m \in n + 1 .. Len(kept) : kept[m] = kept[1]}
  IN  IF is_closed /\ kept # <<>> THEN SubSeq(kept, 1, Min(sizes)) ELSE kept

is_closed_path(end_type) == end_type \in {"Polygon", "Joined"}

\* p is below q, or as low and further left; y grows downwards.
Lower(p, q) == p.y > q.y \/ (p.y = q.y /\ p.x < q.x)

\* The first path with an area that has the lowest point of all such paths;
\* {} when there is none.
lowest_path_index(paths) ==
  LET candidates == {i \in DOMAIN paths : paths[i] # <<>> /\ DoubleArea(paths[i]) # 0}
      lowest == {i \in candidates :
                   \E k \in DOMAIN paths[i] : \A j \in candidates : \A n \in DOMAIN paths[j] :
                     ~ Lower(paths[j][n], paths[i][k])}
  IN  IF lowest = {} THEN {} ELSE {Min(lowest)}

\* prepare_paths: only polygons have a lowest path and an orientation.
has_lowest_path(group) == group.end_type = "Polygon" /\ lowest_path_index(group.paths) # {}
is_reversed(group) ==
  group.end_type = "Polygon" /\ \E i \in lowest_path_index(group.paths) : DoubleArea(group.paths[i]) < 0

=============================================================================
