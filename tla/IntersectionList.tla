--------------------------- MODULE IntersectionList ---------------------------
(***************************************************************************)
(* do_intersections: the edges of the AEL that change order within a       *)
(* scanbeam are found by a merge sort on their x at its top, listed with   *)
(* the points where they cross, sorted by point and processed.             *)
(*                                                                         *)
(* Edges are named by their position in the AEL at the start.  The sorted  *)
(* edges (the SEL with its jump links, or the vectors of the contiguous    *)
(* form) are one sequence and the positions at which its runs start.       *)
(* The points are calculated and rounded: here they are any ranks.         *)
(***************************************************************************)
EXTENDS Integers, Sequences, SequencesExt, FiniteSets, FiniteSetsExt

CONSTANTS
  MaxEdges,  \* bound: edges of the AEL
  MaxX,      \* bound: different x at the top
  MaxPoint,  \* bound: different points, in the order of the sort
  Modes      \* the scanbeam_schedule_modes of the run

ASSUME IntersectionAssumption ==
  /\ MaxEdges \in Nat /\ MaxX \in Nat \ {0} /\ MaxPoint \in Nat \ {0}
  /\ Modes \subseteq {"unit_runs", "monotone_runs"}

VARIABLES
  top_x,      \* scanbeam_top_x of the edges
  mode,       \* the schedule mode, "rebuild" once a monotone list was discarded
  pc,         \* the step of do_intersections
  sel,        \* the edges in the order sorted so far
  starts,     \* the positions of sel at which a run starts
  cursor,     \* the merge: left, right and right_end
  nodes,      \* the intersection nodes: pairs of edges, the left one first
  point,      \* the points of the pairs, once calculated
  next,       \* the node the sort or the processing is at
  actives,    \* the active edge list
  succeeded   \* *succeeded_

vars == <<top_x, mode, pc, sel, starts, cursor, nodes, point, next, actives, succeeded>>

Edge == DOMAIN top_x
EdgeCount == Len(top_x)
End == EdgeCount + 1   \* the position past the last edge
NoMerge == [left |-> 1, right |-> 1, right_end |-> 1]

\* The start of the run after the one at or before a position.
RunAfter(position) == Min({s \in starts : s > position} \cup {End})

\* The merge of the run at a position with its successor.
MergeAt(position) ==
  [left |-> position, right |-> RunAfter(position), right_end |-> RunAfter(RunAfter(position))]

\* Variant: an inversion is looked for by the ends of the list only.
HasInversionOfEnds == EdgeCount > 1 /\ top_x[EdgeCount] < top_x[1]

HasInversion == \E i \in 1 .. EdgeCount - 1 : top_x[i + 1] < top_x[i]

\* Maximal runs of edges that are in order already.
MonotoneStarts == {1} \cup {i \in 2 .. EdgeCount : top_x[i] < top_x[i - 1]}

Init ==
  /\ top_x \in UNION {[1 .. n -> 1 .. MaxX] : n \in 0 .. MaxEdges}
  /\ mode \in Modes
  /\ pc = "schedule"
  /\ sel = [i \in Edge |-> i] /\ actives = sel
  /\ starts = {} /\ cursor = NoMerge
  /\ nodes = <<>> /\ point = <<>> /\ next = 1
  /\ succeeded = TRUE

\* An AEL of one edge, or with nothing to cross, is left alone.
NothingToDo ==
  /\ pc = "schedule" /\ ~HasInversion
  /\ pc' = "done"
  /\ UNCHANGED <<top_x, mode, sel, starts, cursor, nodes, point, next, actives, succeeded>>

Schedule ==
  /\ pc = "schedule" /\ HasInversion
  /\ starts' = IF mode = "monotone_runs" THEN MonotoneStarts ELSE Edge
  /\ pc' = "pass"
  /\ UNCHANGED <<top_x, mode, sel, cursor, nodes, point, next, actives, succeeded>>

-----------------------------------------------------------------------------
(* The merge sort.                                                         *)

\* A pass over the runs begins: the first two are merged.
BeginPass ==
  /\ pc = "pass"
  /\ cursor' = MergeAt(1)
  /\ pc' = "merge"
  /\ UNCHANGED <<top_x, mode, sel, starts, nodes, point, next, actives, succeeded>>

Merging == pc = "merge" /\ cursor.left < cursor.right /\ cursor.right < cursor.right_end

Overtakes == top_x[sel[cursor.right]] < top_x[sel[cursor.left]]

\* The pairs the right edge makes with what is left of the left run, from its
\* last edge back.
Overtaken ==
  [k \in 1 .. cursor.right - cursor.left |-> <<sel[cursor.right - k], sel[cursor.right]>>]

\* The right edge crosses the rest of the left run and moves before it.
MoveRightEdgeBeforeLeft ==
  /\ Merging /\ Overtakes
  /\ nodes' = nodes \o Overtaken
  /\ sel' = InsertAt(RemoveAt(sel, cursor.right), cursor.left, sel[cursor.right])
  /\ cursor' = [cursor EXCEPT !.left = @ + 1, !.right = @ + 1]
  /\ UNCHANGED <<top_x, mode, pc, starts, point, next, actives, succeeded>>

KeepLeftEdge ==
  /\ Merging /\ ~Overtakes
  /\ cursor' = [cursor EXCEPT !.left = @ + 1]
  /\ UNCHANGED <<top_x, mode, pc, sel, starts, nodes, point, next, actives, succeeded>>

\* The two runs are one; the next two, if there are two, are merged.
MergeDone ==
  /\ pc = "merge" /\ ~Merging
  /\ starts' = starts \ {Max({s \in starts : s < cursor.right_end})}
  /\ IF RunAfter(cursor.right_end) # End
     THEN cursor' = MergeAt(cursor.right_end) /\ pc' = "merge"
     ELSE cursor' = NoMerge /\ pc' = "pass done"
  /\ UNCHANGED <<top_x, mode, sel, nodes, point, next, actives, succeeded>>

\* Variant: only the border before the last run is looked at.
RunsAreOrderedAtLast ==
  \A s \in starts \ {1} : (\A t \in starts : t <= s) => top_x[sel[s - 1]] <= top_x[sel[s]]

RunsAreOrdered == \A s \in starts \ {1} : top_x[sel[s - 1]] <= top_x[sel[s]]

\* The contiguous form stops early when all runs are in order; the SEL goes on
\* until one run is left.
PassDone ==
  /\ pc = "pass done"
  /\ pc' = IF starts = {1} \/ (mode # "monotone_runs" /\ RunsAreOrdered) THEN "sort" ELSE "pass"
  /\ UNCHANGED <<top_x, mode, sel, starts, cursor, nodes, point, next, actives, succeeded>>

-----------------------------------------------------------------------------
(* The sort by point and the processing.                                   *)

\* The points of the listed pairs; a pair has the same point when it is listed anew.
CalculatePoints ==
  /\ pc = "sort" /\ nodes # <<>>
  /\ IF mode = "rebuild" THEN UNCHANGED point
     ELSE point' \in [Range(nodes) -> 1 .. MaxPoint]
  /\ pc' = "sorting"
  /\ UNCHANGED <<top_x, mode, sel, starts, cursor, nodes, next, actives, succeeded>>

Ahead == next .. Len(nodes)

\* std::sort, one node after the other; nodes with equal points in any order.
SortIntersections ==
  /\ pc = "sorting" /\ next <= Len(nodes)
  /\ \E i \in Ahead :
       /\ \A j \in Ahead : point[nodes[i]] <= point[nodes[j]]
       /\ nodes' = InsertAt(RemoveAt(nodes, i), next, nodes[i])
  /\ next' = next + 1
  /\ UNCHANGED <<top_x, mode, pc, sel, starts, cursor, point, actives, succeeded>>

SharesEdge(m, n) == {m[1], m[2]} \cap {n[1], n[2]} # {}

HasOrderDependentCoincidentIntersections ==
  \E i, j \in DOMAIN nodes : /\ i < j /\ point[nodes[i]] = point[nodes[j]]
                             /\ SharesEdge(nodes[i], nodes[j])

\* A list of monotone runs whose order could depend on them is built again from
\* unit runs.
Rebuild ==
  /\ pc = "sorting" /\ next > Len(nodes)
  /\ mode = "monotone_runs" /\ HasOrderDependentCoincidentIntersections
  /\ mode' = "rebuild"
  /\ nodes' = <<>> /\ next' = 1
  /\ sel' = actives /\ starts' = Edge /\ cursor' = NoMerge
  /\ pc' = "pass"
  /\ UNCHANGED <<top_x, point, actives, succeeded>>

SortDone ==
  /\ pc = "sorting" /\ next > Len(nodes)
  /\ mode = "monotone_runs" => ~HasOrderDependentCoincidentIntersections
  /\ next' = 1
  /\ pc' = "process"
  /\ UNCHANGED <<top_x, mode, sel, starts, cursor, nodes, point, actives, succeeded>>

PositionOf(e) == CHOOSE i \in DOMAIN actives : actives[i] = e

\* Variant: edges are taken for neighbours.
AlwaysAdjacent(node) == TRUE

\* intersection_edges_are_adjacent_in_ael
AreAdjacent(node) ==
  PositionOf(node[1]) + 1 = PositionOf(node[2]) \/ PositionOf(node[2]) + 1 = PositionOf(node[1])

\* Variant: no node further on is looked for.
NextAdjacentAtOnce == {i \in {next} : AreAdjacent(nodes[i])}

\* find_next_adjacent_intersection
NextAdjacent == {i \in Ahead : AreAdjacent(nodes[i]) /\ \A j \in next .. i - 1 : ~AreAdjacent(nodes[j])}

\* The edges of a node change places in the AEL.
CrossEdges(node) ==
  actives' = [actives EXCEPT ![PositionOf(node[1])] = node[2], ![PositionOf(node[2])] = node[1]]

\* The node i takes the place of the one to process.
BroughtForward(i) == [nodes EXCEPT ![next] = nodes[i], ![i] = nodes[next]]

\* One iteration of the loop of do_intersections: the first node from here on
\* whose edges are neighbours changes places with this one and its edges cross;
\* without such a node the execution fails.
ProcessNode ==
  /\ pc = "process" /\ next <= Len(nodes)
  /\ IF NextAdjacent = {}
     THEN /\ succeeded' = FALSE /\ pc' = "done"
          /\ nodes' = <<>>
          /\ UNCHANGED <<next, actives>>
     ELSE /\ \E i \in NextAdjacent :
               /\ nodes' = BroughtForward(i)
               /\ CrossEdges(nodes[i])
          /\ next' = next + 1
          /\ UNCHANGED <<pc, succeeded>>
  /\ UNCHANGED <<top_x, mode, sel, starts, cursor, point>>

ProcessDone ==
  /\ pc = "process" /\ next > Len(nodes)
  /\ nodes' = <<>>
  /\ pc' = "done"
  /\ UNCHANGED <<top_x, mode, sel, starts, cursor, point, next, actives, succeeded>>

Next ==
  \/ NothingToDo \/ Schedule
  \/ BeginPass \/ MoveRightEdgeBeforeLeft \/ KeepLeftEdge \/ MergeDone \/ PassDone
  \/ CalculatePoints \/ SortIntersections \/ Rebuild \/ SortDone
  \/ ProcessNode \/ ProcessDone

Spec == Init /\ [][Next]_vars

-----------------------------------------------------------------------------
(* Properties.                                                             *)

\* The pairs of edges that are in another order at the top of the scanbeam.
Crossings == {p \in Edge \X Edge : p[1] < p[2] /\ top_x[p[2]] < top_x[p[1]]}

\* Whatever the schedule, with its runs and its early ends, the list holds every
\* pair that crosses exactly once and no other.
NodesAreTheCrossings ==
  pc \in {"sort", "sorting", "process"} =>
    Range(nodes) = Crossings /\ Len(nodes) = Cardinality(Crossings)

\* Whatever points the nodes were sorted by, rounding and ties included, there
\* is always a listed pair of neighbours left to cross: the scanbeam never fails.
NeverStranded == succeeded

\* In the end the active edges are in the order of their x, and those that
\* meet keep the order they had below; the sorted edges, from which the top
\* edges of the scanbeam are taken and given their x, are in the same order.
EndsInOrder ==
  pc = "done" =>
    /\ \A i, j \in DOMAIN actives :
         i < j => \/ top_x[actives[i]] < top_x[actives[j]]
                  \/ top_x[actives[i]] = top_x[actives[j]] /\ actives[i] < actives[j]
    /\ sel = actives

Promise == INSTANCE CrossingPromise

\* Only neighbours cross, the left one to the right, and none crosses twice.
CrossingsKept == Promise!Spec

=============================================================================
