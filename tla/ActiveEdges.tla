---------------------------- MODULE ActiveEdges ----------------------------
(***************************************************************************)
(* The sweep of the clip engine over closed paths: the active edge list    *)
(* (AEL), the winding counts that are updated edge by edge, the output     *)
(* records the hot edges build, and the joins of collinear neighbours.     *)
(*                                                                         *)
(* Geometry is abstracted to its outcomes: where a bound enters the list,  *)
(* which neighbours cross, which bounds meet at a local maximum, which     *)
(* edges are horizontal and which neighbours are collinear are choices.    *)
(* Everything the engine decides from them is translated: the counts, the  *)
(* contributing tests, the sides, the records and their owners.            *)
(*                                                                         *)
(* The helpers take and return the engine state s, as the functions of the *)
(* engine take clipper_base_state&.                                        *)
(***************************************************************************)
EXTENDS Integers, Sequences, FiniteSets, SequencesExt

CONSTANTS
  Edge,             \* edge nodes of the active pool
  NoEdge,           \* the null edge
  PathTypes,        \* subset of {"Subject", "Clip"} the inputs use
  ClipTypes,        \* the clip operations of the run
  FillRules,        \* the fill rules of the run
  HorizontalChoice, \* {FALSE} or BOOLEAN: may a bound be horizontal
  JoinChoice,       \* {FALSE} or BOOLEAN: may neighbours be collinear
  UsingPolytree,    \* using_polytree_
  MaxRecords        \* bound on the output records of one execution

ASSUME ActiveEdgesAssumption ==
  /\ IsFiniteSet(Edge) /\ NoEdge \notin Edge
  /\ PathTypes \subseteq {"Subject", "Clip"}
  /\ ClipTypes \subseteq {"Intersection", "Union", "Difference", "Xor"}
  /\ FillRules \subseteq {"EvenOdd", "NonZero", "Positive", "Negative"}
  /\ HorizontalChoice \subseteq BOOLEAN /\ FALSE \in HorizontalChoice
  /\ JoinChoice \subseteq BOOLEAN /\ FALSE \in JoinChoice
  /\ UsingPolytree \in BOOLEAN
  /\ MaxRecords \in Nat

VARIABLES
  state,  \* clipper_base_state: AEL, edges, records, owners, succeeded
  phase,  \* the step of execute_scanbeam
  task    \* the handler whose loop is running: its edge and its maxima pair

vars == <<state, phase, task>>

NoRecord == 0

\* initialize_bound: a fresh edge of the pool.
Bound(polytype, wind_dx, horizontal) ==
  [polytype |-> polytype, wind_dx |-> wind_dx, winding_count |-> 0, wind_cnt2 |-> 0,
   outrec |-> NoRecord, join_with |-> "NoJoin", horizontal |-> horizontal]

Dead == Bound("Subject", 1, FALSE)
Idle == [kind |-> "idle", edge |-> NoEdge, pair |-> NoEdge]

-----------------------------------------------------------------------------
(* The active edge list.                                                   *)

Active(s) == Range(s.actives)
Count(s) == Len(s.actives)
PositionOf(s, e) == CHOOSE i \in DOMAIN s.actives : s.actives[i] = e
At(s, i) == IF i \in 1 .. Count(s) THEN s.actives[i] ELSE NoEdge
NextInAel(s, e) == At(s, PositionOf(s, e) + 1)
PrevInAel(s, e) == At(s, PositionOf(s, e) - 1)
LastOf(s, positions) ==
  IF \E i \in positions : \A j \in positions : j <= i
  THEN s.actives[CHOOSE i \in positions : \A j \in positions : j <= i]
  ELSE NoEdge

\* Variant: only one of the two links is rewritten.
SwapPositionsHalf(s, first, second) == [s EXCEPT !.actives[PositionOf(s, first)] = second]

SwapPositions(s, first, second) ==
  [s EXCEPT !.actives = [@ EXCEPT ![PositionOf(s, first)] = second,
                                  ![PositionOf(s, second)] = first]]

RemoveFromAel(s, e) ==
  IF e \in Active(s)
  THEN [s EXCEPT !.actives = RemoveAt(@, PositionOf(s, e)), !.edge[e] = Dead]
  ELSE s

IsHot(s, e) == s.edge[e].outrec # NoRecord
IsJoined(s, e) == s.edge[e].join_with # "NoJoin"
IsFront(s, e) == IsHot(s, e) /\ s.front[s.edge[e].outrec] = e
SamePolyType(s, d, e) == s.edge[d].polytype = s.edge[e].polytype

PreviousHotEdge(s, e) == LastOf(s, {i \in 1 .. PositionOf(s, e) - 1 : IsHot(s, s.actives[i])})

-----------------------------------------------------------------------------
(* Winding counts and the contributing test.                               *)

Abs(n) == IF n < 0 THEN -n ELSE n

\* The sum of wind_dx over the positions between which hold edges of the other path type.
OppositeWinding(s, between, polytype) ==
  LET with(dx) == {i \in between : /\ s.edge[s.actives[i]].polytype # polytype
                                   /\ s.edge[s.actives[i]].wind_dx = dx}
  IN  Cardinality(with(1)) - Cardinality(with(-1))

OppositeEdges(s, between, polytype) ==
  Cardinality({i \in between : s.edge[s.actives[i]].polytype # polytype})

\* Variant: the count always steps, also between edges of opposite directions.
NextWindingCountAlwaysSteps(s, previous, wind_dx) ==
  IF s.fillrule = "EvenOdd" THEN wind_dx ELSE s.edge[previous].winding_count + wind_dx

NextWindingCount(s, previous, wind_dx) ==
  LET p == s.edge[previous]
  IN  CASE s.fillrule = "EvenOdd" -> wind_dx
        [] s.fillrule # "EvenOdd" /\ p.winding_count * p.wind_dx < 0 /\ Abs(p.winding_count) <= 1
             -> wind_dx
        [] OTHER -> p.winding_count + (IF p.wind_dx * wind_dx < 0 THEN 0 ELSE wind_dx)

PreviousOfType(s, e) ==
  LastOf(s, {i \in 1 .. PositionOf(s, e) - 1 : SamePolyType(s, s.actives[i], e)})

ClosedWindingCount(s, e, previous) ==
  IF previous = NoEdge THEN s.edge[e].wind_dx ELSE NextWindingCount(s, previous, s.edge[e].wind_dx)

\* The count of the other type, carried over the edges of that type since previous.
ClosedOppositeCount(s, e, previous) ==
  LET first == IF previous = NoEdge THEN 1 ELSE PositionOf(s, previous) + 1
      between == first .. PositionOf(s, e) - 1
      start == IF previous = NoEdge THEN 0 ELSE s.edge[previous].wind_cnt2
      toggles == OppositeEdges(s, between, s.edge[e].polytype)
  IN  IF s.fillrule = "EvenOdd"
      THEN IF toggles % 2 = 0 THEN start ELSE IF start = 0 THEN 1 ELSE 0
      ELSE start + OppositeWinding(s, between, s.edge[e].polytype)

SetWindCountForClosedPathEdge(s, e) ==
  LET previous == PreviousOfType(s, e)
  IN  [s EXCEPT !.edge[e].winding_count = ClosedWindingCount(s, e, previous),
                !.edge[e].wind_cnt2 = ClosedOppositeCount(s, e, previous)]

IsPrimaryBoundary(fillrule, count) ==
  CASE fillrule = "EvenOdd"  -> TRUE
    [] fillrule = "NonZero"  -> count \in {1, -1}
    [] fillrule = "Positive" -> count = 1
    [] fillrule = "Negative" -> count = -1

IsInsideFill(fillrule, count) ==
  CASE fillrule = "Positive" -> count > 0
    [] fillrule = "Negative" -> count < 0
    [] fillrule \in {"EvenOdd", "NonZero"} -> count # 0

IsContributing(s, e) ==
  LET me == s.edge[e]
      inside == IsInsideFill(s.fillrule, me.wind_cnt2)
  IN  /\ IsPrimaryBoundary(s.fillrule, me.winding_count)
      /\ CASE s.cliptype = "Intersection" -> inside
           [] s.cliptype = "Union"        -> ~inside
           [] s.cliptype = "Difference"   -> inside = (me.polytype = "Clip")
           [] s.cliptype = "Xor"          -> TRUE

-----------------------------------------------------------------------------
(* Output records: their two sides and their owners.                       *)

Records(s) == DOMAIN s.front

\* get_real_outrec: the first record on the owner chain that still has points.
GetRealOutrec(s, record) ==
  LET real[r \in 0 .. Len(s.front)] ==
        IF r = NoRecord \/ s.has_points[r] THEN r ELSE real[s.owner[r]]
  IN  real[record]

\* Does the owner chain from r meet the record?
OwnedBy(s, record, from) ==
  LET meets[r \in 0 .. Len(s.front)] ==
        IF r \in {NoRecord, record} THEN r = record ELSE meets[s.owner[r]]
  IN  meets[from]

\* Variant: the test that the chain of new_owner meets record is missing.
SetOwnerUnchecked(s, record, new_owner) ==
  [s EXCEPT !.owner[new_owner] = GetRealOutrec(s, @), !.owner[record] = new_owner]

SetOwner(s, record, new_owner) ==
  LET s1 == [s EXCEPT !.owner[new_owner] = GetRealOutrec(s, @)]
      s2 == IF OwnedBy(s1, record, new_owner)
            THEN [s1 EXCEPT !.owner[new_owner] = s1.owner[record]] ELSE s1
  IN  [s2 EXCEPT !.owner[record] = new_owner]

SetSides(s, record, start_edge, end_edge) ==
  [s EXCEPT !.front[record] = start_edge, !.back[record] = end_edge]

CreateOutrec(s) ==
  [s EXCEPT !.front = Append(@, NoEdge), !.back = Append(@, NoEdge),
            !.owner = Append(@, NoRecord), !.has_points = Append(@, TRUE)]

AddLocalMinPolygon(s, first, second, is_new) ==
  LET record == Len(s.front) + 1
      named(t) == [t EXCEPT !.edge[first].outrec = record, !.edge[second].outrec = record]
      owned(t, hot) == IF hot # NoEdge /\ UsingPolytree
                       THEN SetOwner(t, record, t.edge[hot].outrec) ELSE t
      first_is_front(t, hot) == IF hot = NoEdge THEN is_new ELSE IsFront(t, hot) # is_new
      sided(t, hot) == IF first_is_front(t, hot) THEN SetSides(owned(t, hot), record, first, second)
                                                 ELSE SetSides(owned(t, hot), record, second, first)
      built(t) == sided(t, PreviousHotEdge(t, first))
  IN  built(named(CreateOutrec(s)))

SplitJoinedEdge(s, e) ==
  LET split(left, right) ==
        AddLocalMinPolygon([s EXCEPT !.edge[left].join_with = "NoJoin",
                                     !.edge[right].join_with = "NoJoin"], left, right, TRUE)
  IN  IF s.edge[e].join_with = "Right" THEN split(e, NextInAel(s, e)) ELSE split(PrevInAel(s, e), e)

\* Variant: a joined edge goes on as if it were cold.
NeverSplit(s, e) == s

SplitIfJoined(s, e) == IF IsJoined(s, e) THEN SplitJoinedEdge(s, e) ELSE s

SwapOutrecs(s, first, second) ==
  LET r1 == s.edge[first].outrec
      r2 == s.edge[second].outrec
      replace(side, r, old, new) == [side EXCEPT ![r] = IF @ = old THEN new ELSE @]
      in1(side) == IF r1 = NoRecord THEN side ELSE replace(side, r1, first, second)
      in2(side) == IF r2 = NoRecord THEN side ELSE replace(side, r2, second, first)
  IN  IF r1 = r2
      THEN [s EXCEPT !.front[r1] = s.back[r1], !.back[r1] = s.front[r1]]
      ELSE [s EXCEPT !.front = in2(in1(@)), !.back = in2(in1(@)),
                     !.edge[first].outrec = r2, !.edge[second].outrec = r1]

\* The side of first's record passes to the edge that holds the other side of
\* second's.
InheritSide(s, first, second) ==
  LET r1 == s.edge[first].outrec
      r2 == s.edge[second].outrec
      heir == IF IsFront(s, first) THEN s.front[r2] ELSE s.back[r2]
      t == IF IsFront(s, first) THEN [s EXCEPT !.front[r1] = heir]
                                ELSE [s EXCEPT !.back[r1] = heir]
  IN  IF heir = NoEdge THEN t ELSE [t EXCEPT !.edge[heir].outrec = r1]

EmptyRecord(s, record) ==
  [s EXCEPT !.front[record] = NoEdge, !.back[record] = NoEdge, !.has_points[record] = FALSE]

JoinOutrecPaths(s, first, second) ==
  LET r1 == s.edge[first].outrec
      r2 == s.edge[second].outrec
      joined(t) == SetOwner(EmptyRecord(t, r2), r2, r1)
  IN  [joined(InheritSide(s, first, second)) EXCEPT !.edge[first].outrec = NoRecord,
                                                    !.edge[second].outrec = NoRecord]

\* Variant: the edges keep naming the closed record.
UncoupleSidesOnly(s, record) == [s EXCEPT !.front[record] = NoEdge, !.back[record] = NoEdge]

UncoupleOutrec(s, record) ==
  [s EXCEPT !.edge[s.front[record]].outrec = NoRecord,
            !.edge[s.back[record]].outrec = NoRecord,
            !.front[record] = NoEdge, !.back[record] = NoEdge]

\* The tail of add_local_max_polygon when both edges close the same record.
CloseRecord(s, first) ==
  LET record == s.edge[first].outrec
      owned(hot) == IF ~UsingPolytree THEN s
                    ELSE IF hot = NoEdge THEN [s EXCEPT !.owner[record] = NoRecord]
                    ELSE SetOwner(s, record, s.edge[hot].outrec)
      settled(t) == IF t.owner[record] # NoRecord /\ t.front[t.owner[record]] = NoEdge
                    THEN [t EXCEPT !.owner[record] = GetRealOutrec(t, @)] ELSE t
  IN  settled(UncoupleOutrec(owned(PreviousHotEdge(s, first)), record))

\* Both edges must be hot and on opposite sides: succeeded is cleared when the
\* sides agree; a cold edge, whose null record the code would follow, counts as
\* the same failure.
AddLocalMaxPolygon(s, first, second) ==
  LET closed(t) ==
        CASE \/ ~IsHot(t, first)
             \/ ~IsHot(t, second)
             \/ IsFront(t, first) = IsFront(t, second) -> [t EXCEPT !.succeeded = FALSE]
          [] OTHER -> IF t.edge[first].outrec = t.edge[second].outrec THEN CloseRecord(t, first)
                      ELSE IF t.edge[first].outrec < t.edge[second].outrec
                      THEN JoinOutrecPaths(t, first, second)
                      ELSE JoinOutrecPaths(t, second, first)
  IN  closed(SplitIfJoined(SplitIfJoined(s, first), second))

-----------------------------------------------------------------------------
(* check_join_left and check_join_right: the geometric tests are the        *)
(* choice collinear, the other early returns are the guard.                 *)

MayJoin(s, left, right) ==
  /\ left # NoEdge /\ right # NoEdge
  /\ IsHot(s, left) /\ IsHot(s, right)
  /\ ~s.edge[left].horizontal /\ ~s.edge[right].horizontal

JoinEdges(s, left, right) ==
  LET s1 == IF s.edge[left].outrec = s.edge[right].outrec
            THEN AddLocalMaxPolygon(s, left, right)
            ELSE IF s.edge[left].outrec < s.edge[right].outrec
            THEN JoinOutrecPaths(s, left, right) ELSE JoinOutrecPaths(s, right, left)
  IN  [s1 EXCEPT !.edge[left].join_with = "Right", !.edge[right].join_with = "Left"]

CheckJoinLeft(s, e, collinear) ==
  IF collinear /\ MayJoin(s, PrevInAel(s, e), e) THEN JoinEdges(s, PrevInAel(s, e), e) ELSE s

CheckJoinRight(s, e, collinear) ==
  IF collinear /\ MayJoin(s, e, NextInAel(s, e)) THEN JoinEdges(s, e, NextInAel(s, e)) ELSE s

-----------------------------------------------------------------------------
(* intersect_edges: first crosses second, its right neighbour.             *)

\* Variant: the sign of the Negative rule is forgotten.
FillUnsigned(s, count) == IF s.fillrule \in {"EvenOdd", "NonZero"} THEN Abs(count) ELSE count

FillAdjusted(s, count) ==
  CASE s.fillrule \in {"EvenOdd", "NonZero"} -> Abs(count)
    [] s.fillrule = "Positive" -> count
    [] s.fillrule = "Negative" -> -count

UpdateWindCounts(s, first, second) ==
  LET f == s.edge[first]
      g == s.edge[second]
      plus(count, dx) == IF count + dx = 0 THEN -count ELSE count + dx
      toggled(count) == IF count = 0 THEN 1 ELSE 0
  IN  CASE f.polytype = g.polytype /\ s.fillrule = "EvenOdd" ->
             [s EXCEPT !.edge[first].winding_count = g.winding_count,
                       !.edge[second].winding_count = f.winding_count]
        [] f.polytype = g.polytype /\ s.fillrule # "EvenOdd" ->
             [s EXCEPT !.edge[first].winding_count = plus(f.winding_count, g.wind_dx),
                       !.edge[second].winding_count = plus(g.winding_count, -f.wind_dx)]
        [] f.polytype # g.polytype /\ s.fillrule # "EvenOdd" ->
             [s EXCEPT !.edge[first].wind_cnt2 = f.wind_cnt2 + g.wind_dx,
                       !.edge[second].wind_cnt2 = g.wind_cnt2 - f.wind_dx]
        [] OTHER ->
             [s EXCEPT !.edge[first].wind_cnt2 = toggled(f.wind_cnt2),
                       !.edge[second].wind_cnt2 = toggled(g.wind_cnt2)]

StartsLocalMinimum(s, first, second) ==
  LET outside(e) == FillAdjusted(s, s.edge[e].wind_cnt2) <= 0
  IN  CASE s.cliptype = "Union" -> outside(first) /\ outside(second)
        [] s.cliptype = "Difference" ->
             IF s.edge[first].polytype = "Clip" THEN ~outside(first) /\ ~outside(second)
                                                ELSE outside(first) /\ outside(second)
        [] s.cliptype = "Xor" -> TRUE
        [] OTHER -> ~outside(first) /\ ~outside(second)

\* What the crossing does to the records, once the counts are updated.
CrossOutput(s, first, second) ==
  LET count(e) == FillAdjusted(s, s.edge[e].winding_count)
      in01(e) == count(e) \in {0, 1}
      hot(e) == IsHot(s, e)
  IN  CASE (~hot(first) /\ ~in01(first)) \/ (~hot(second) /\ ~in01(second)) -> s
        [] hot(first) /\ hot(second) /\ in01(first) /\ in01(second)
             /\ (SamePolyType(s, first, second) \/ s.cliptype = "Xor") ->
             IF IsFront(s, first) \/ s.edge[first].outrec = s.edge[second].outrec
             THEN AddLocalMinPolygon(AddLocalMaxPolygon(s, first, second), first, second, FALSE)
             ELSE SwapOutrecs(s, first, second)
        [] hot(first) /\ hot(second)
             /\ ~(in01(first) /\ in01(second)
                  /\ (SamePolyType(s, first, second) \/ s.cliptype = "Xor")) ->
             AddLocalMaxPolygon(s, first, second)
        [] hot(first) # hot(second) /\ (hot(first) \/ in01(first)) /\ (hot(second) \/ in01(second))
             -> SwapOutrecs(s, first, second)
        [] OTHER ->
             IF \/ ~SamePolyType(s, first, second)
                \/ /\ count(first) = 1 /\ count(second) = 1
                   /\ StartsLocalMinimum(s, first, second)
             THEN AddLocalMinPolygon(s, first, second, FALSE) ELSE s

IntersectEdges(s, first, second) ==
  LET t == SplitIfJoined(SplitIfJoined(s, first), second)
  IN  CrossOutput(UpdateWindCounts(t, first, second), first, second)

Cross(s, first, second) == SwapPositions(IntersectEdges(s, first, second), first, second)

-----------------------------------------------------------------------------
(* execute_scanbeam.                                                       *)

Horizontals(s) == {e \in Active(s) : s.edge[e].horizontal}

Step(new_state, new_task) ==
  /\ Len(new_state.front) <= MaxRecords
  /\ state' = new_state
  /\ task' = new_task
  /\ phase' = phase

\* Variant: the neighbours of the insertion point may be joined.
InsertionPointUnchecked(s, after) == after + 1

\* insert_left_edge: never between two joined neighbours.
InsertionPoint(s, after) ==
  IF after > 0 /\ s.edge[At(s, after)].join_with = "Right" THEN after + 2 ELSE after + 1

InsertLeftEdge(s, e, after) == [s EXCEPT !.actives = InsertAt(@, InsertionPoint(s, after), e)]

InsertRightEdge(s, left, right) ==
  [s EXCEPT !.actives = InsertAt(@, PositionOf(s, left) + 1, right)]

\* Both bounds are in the list: count, hot edges, join on the left.
InsertBounds(s, left, right, collinear) ==
  LET inserted(t) ==
        InsertRightEdge([t EXCEPT !.edge[right].winding_count = t.edge[left].winding_count,
                                  !.edge[right].wind_cnt2 = t.edge[left].wind_cnt2], left, right)
      started(t) ==
        IF IsContributing(t, left)
        THEN CheckJoinLeft(AddLocalMinPolygon(inserted(t), left, right, TRUE), left, collinear)
        ELSE inserted(t)
  IN  started(SetWindCountForClosedPathEdge(s, left))

\* The left bound l and the right bound r of one local minimum, up to the loop
\* that moves the right one.
InsertMinimum(s, left, right, l, r, after, collinear) ==
  LET s1 == [s EXCEPT !.edge[left] = l, !.edge[right] = r]
  IN  InsertBounds(InsertLeftEdge(s1, left, after), left, right, collinear)

InsertLocalMinimum ==
  /\ phase = "minima" /\ task = Idle
  /\ \E left, right \in Edge \ Active(state), polytype \in PathTypes, wind_dx \in {-1, 1},
        after \in 0 .. Count(state), left_horizontal, right_horizontal \in HorizontalChoice,
        collinear \in JoinChoice :
       /\ left # right /\ ~(left_horizontal /\ right_horizontal)
       \* the early return of insert_left_edge: JoinsPaired shows it is never taken
       /\ InsertionPoint(state, after) <= Count(state) + 1
       /\ Step(InsertMinimum(state, left, right, Bound(polytype, wind_dx, left_horizontal),
                             Bound(polytype, -wind_dx, right_horizontal), after, collinear),
               [kind |-> "bound", edge |-> right, pair |-> NoEdge])

\* The loop of insert_local_minima_into_ael: right_bound passes its neighbour.
BoundCross ==
  /\ task.kind = "bound"
  /\ NextInAel(state, task.edge) # NoEdge
  /\ Step(Cross(state, task.edge, NextInAel(state, task.edge)), task)

BoundDone ==
  /\ task.kind = "bound"
  /\ \E collinear \in JoinChoice : Step(CheckJoinRight(state, task.edge, collinear), Idle)

\* do_intersections: one node of the sorted list.
Intersection ==
  /\ phase = "intersections"
  /\ \E i \in 1 .. Count(state) - 1, join_left, join_right \in JoinChoice :
       LET first == At(state, i)
           second == At(state, i + 1)
           crossed == Cross(state, first, second)
       IN  Step(CheckJoinRight(CheckJoinLeft(crossed, second, join_left), first, join_right), Idle)

\* update_edge_into_ael, horizontal being what the next segment is.
UpdateEdgeIntoAel(s, e, horizontal, join_left, join_right) ==
  LET joined(t) == CheckJoinRight(CheckJoinLeft(t, e, join_left), e, join_right)
      updated(t) == IF horizontal THEN t ELSE joined(t)
  IN  updated(SplitIfJoined([s EXCEPT !.edge[e].horizontal = horizontal], e))

\* do_top_edge of an edge whose top vertex is not a maximum.
UpdateTopEdge ==
  /\ phase = "tops" /\ task = Idle
  /\ \E e \in Active(state) \ Horizontals(state), horizontal \in HorizontalChoice,
        join_left, join_right \in JoinChoice :
       Step(UpdateEdgeIntoAel(state, e, horizontal, join_left, join_right), Idle)

\* Two bounds of one path type meet at a local maximum: one climbs the path
\* forwards, the other backwards.
MaximaPair(s, e, pair) ==
  /\ SamePolyType(s, e, pair)
  /\ s.edge[e].wind_dx = -s.edge[pair].wind_dx

BeginMaxima ==
  /\ phase = "tops" /\ task = Idle
  /\ \E i, j \in 1 .. Count(state) :
       LET e == At(state, i)
           pair == At(state, j)
       IN  /\ i < j /\ MaximaPair(state, e, pair)
           /\ {e, pair} \cap Horizontals(state) = {}
           /\ Step(SplitIfJoined(SplitIfJoined(state, e), pair),
                   [kind |-> "maxima", edge |-> e, pair |-> pair])

MaximaCross ==
  /\ task.kind = "maxima"
  /\ NextInAel(state, task.edge) # task.pair
  /\ Step(Cross(state, task.edge, NextInAel(state, task.edge)), task)

MaximaDone ==
  /\ task.kind = "maxima"
  /\ NextInAel(state, task.edge) = task.pair
  /\ LET s1 == IF IsHot(state, task.edge)
               THEN AddLocalMaxPolygon(state, task.edge, task.pair) ELSE state
     IN  Step(RemoveFromAel(RemoveFromAel(s1, task.edge), task.pair), Idle)

\* do_horizontal: the popped edge moves over its neighbours, in either direction.
InHorizontalPhase == phase \in {"minima horizontals", "top horizontals"}

BeginHorizontal ==
  /\ InHorizontalPhase /\ task = Idle
  /\ \E e \in Horizontals(state) :
       Step(state, [kind |-> "horizontal", edge |-> e, pair |-> NoEdge])

HorizontalCrossRight ==
  /\ task.kind = "horizontal"
  /\ \E join \in JoinChoice :
       LET e == NextInAel(state, task.edge)
       IN  /\ e # NoEdge
           /\ Step(CheckJoinLeft(Cross(state, task.edge, e), e, join), task)

HorizontalCrossLeft ==
  /\ task.kind = "horizontal"
  /\ \E join \in JoinChoice :
       LET e == PrevInAel(state, task.edge)
       IN  /\ e # NoEdge
           /\ Step(CheckJoinRight(Cross(state, e, task.edge), e, join), task)

\* The horizontal meets the edge that ends at its maximum; left and right are
\* the two in AEL order.
HorizontalMaxima ==
  /\ task.kind = "horizontal"
  /\ \E e \in {NextInAel(state, task.edge), PrevInAel(state, task.edge)} \ {NoEdge} :
       LET h == task.edge
           left == IF e = NextInAel(state, h) THEN h ELSE e
           right == IF e = NextInAel(state, h) THEN e ELSE h
           s1 == IF IsHot(state, h) THEN AddLocalMaxPolygon(SplitIfJoined(state, e), left, right)
                                    ELSE state
       IN  /\ MaximaPair(state, h, e) /\ ~state.edge[e].horizontal
           /\ Step(RemoveFromAel(RemoveFromAel(s1, e), h), Idle)

\* The horizontal run ends and the bound turns upwards.
HorizontalDone ==
  /\ task.kind = "horizontal"
  /\ \E join_left, join_right \in JoinChoice :
       Step(UpdateEdgeIntoAel(state, task.edge, FALSE, join_left, join_right), Idle)

\* The order of the steps of one scanbeam; the sweep stops when a step failed
\* and at the last scanline.
NextPhase ==
  /\ task = Idle /\ phase # "done"
  /\ InHorizontalPhase => Horizontals(state) = {}
  /\ phase' = CASE phase = "minima" -> "minima horizontals"
                [] phase = "minima horizontals" ->
                     IF state.actives = <<>> THEN "done" ELSE "intersections"
                [] phase = "intersections" -> "tops"
                [] phase = "tops" -> "top horizontals"
                [] phase = "top horizontals" -> IF state.succeeded THEN "minima" ELSE "done"
  /\ UNCHANGED <<state, task>>

Init ==
  /\ \E cliptype \in ClipTypes, fillrule \in FillRules :
       state = [cliptype |-> cliptype, fillrule |-> fillrule, actives |-> <<>>,
                edge |-> [e \in Edge |-> Dead], front |-> <<>>, back |-> <<>>,
                owner |-> <<>>, has_points |-> <<>>, succeeded |-> TRUE]
  /\ phase = "minima"
  /\ task = Idle

Next ==
  \/ InsertLocalMinimum \/ BoundCross \/ BoundDone
  \/ Intersection
  \/ UpdateTopEdge \/ BeginMaxima \/ MaximaCross \/ MaximaDone
  \/ BeginHorizontal \/ HorizontalCrossRight \/ HorizontalCrossLeft
  \/ HorizontalMaxima \/ HorizontalDone
  \/ NextPhase

Spec == Init /\ [][Next]_vars

-----------------------------------------------------------------------------
(* Properties.                                                             *)

JoinStates == {"NoJoin", "Left", "Right"}
EdgeType == [polytype : {"Subject", "Clip"}, wind_dx : {-1, 1}, winding_count : Int,
             wind_cnt2 : Int, outrec : Nat, join_with : JoinStates, horizontal : BOOLEAN]
TaskType == {Idle} \cup [kind : {"bound", "horizontal"}, edge : Edge, pair : {NoEdge}]
                   \cup [kind : {"maxima"}, edge : Edge, pair : Edge]
Phases == {"minima", "minima horizontals", "intersections", "tops", "top horizontals", "done"}

\* The record table grows in step: every record has two sides, an owner and a
\* points flag, and no edge refers to a record beyond the table.
StateType(s) ==
  /\ DOMAIN s = {"cliptype", "fillrule", "actives", "edge", "front", "back", "owner",
                 "has_points", "succeeded"}
  /\ s.cliptype \in {"Intersection", "Union", "Difference", "Xor"}
  /\ s.fillrule \in {"EvenOdd", "NonZero", "Positive", "Negative"}
  /\ s.actives \in Seq(Edge)
  /\ s.edge \in [Edge -> EdgeType]
  /\ s.front \in Seq(Edge \cup {NoEdge})
  /\ s.back \in Seq(Edge \cup {NoEdge})
  /\ s.has_points \in Seq(BOOLEAN)
  /\ Len(s.back) = Len(s.front) /\ Len(s.has_points) = Len(s.front)
  /\ s.succeeded \in BOOLEAN
  /\ \A e \in Edge : s.edge[e].outrec <= Len(s.front)

\* The engine state, the running handler and the phase are well formed, and no
\* edge refers to a record that create_outrec has not made.
TypeOK ==
  /\ StateType(state)
  /\ task \in TaskType
  /\ phase \in Phases

\* No loop of the sweep loses its edge: an edge is linked into the list once,
\* the edge a handler moves is linked, and the other edge of a maximum stays on
\* its right, so that "while (next_edge != max_pair)" never runs off the list.
AelIntact ==
  /\ IsInjective(state.actives)
  /\ task.kind # "idle" => task.edge \in Active(state)
  /\ task.kind = "maxima" =>
       \E i, j \in DOMAIN state.actives :
         i < j /\ state.actives[i] = task.edge /\ state.actives[j] = task.pair

\* The winding number, for one path type, of the region right of position i:
\* recomputed from the whole list instead of carried from edge to edge.
RegionWinding(s, i, polytype) ==
  LET with(dx) == {j \in 1 .. i : /\ s.edge[s.actives[j]].polytype = polytype
                                  /\ s.edge[s.actives[j]].wind_dx = dx}
  IN  Cardinality(with(1)) - Cardinality(with(-1))

\* The counts every edge carries, through any sequence of insertions, crossings
\* and maxima, are those of the regions it separates: winding_count is the one
\* of its own type farther from zero, wind_cnt2 that of the other type.
WindingMatchesRegions ==
  \A i \in DOMAIN state.actives :
    LET e == state.edge[state.actives[i]]
        other == IF e.polytype = "Subject" THEN "Clip" ELSE "Subject"
        left == RegionWinding(state, i - 1, e.polytype)
        right == RegionWinding(state, i, e.polytype)
        opposite == RegionWinding(state, i, other)
    IN  IF state.fillrule = "EvenOdd"
        THEN /\ e.winding_count \in {-1, 1}
             /\ e.wind_cnt2 = opposite % 2
        ELSE /\ e.winding_count = (IF Abs(left) > Abs(right) THEN left ELSE right)
             /\ e.wind_cnt2 = opposite

Filled(fillrule, winding) ==
  CASE fillrule = "EvenOdd"  -> winding % 2 = 1
    [] fillrule = "NonZero"  -> winding # 0
    [] fillrule = "Positive" -> winding > 0
    [] fillrule = "Negative" -> winding < 0

\* Is the region right of position i part of the result the request asks for?
InResult(s, i) ==
  LET subject == Filled(s.fillrule, RegionWinding(s, i, "Subject"))
      clip == Filled(s.fillrule, RegionWinding(s, i, "Clip"))
  IN  CASE s.cliptype = "Intersection" -> subject /\ clip
        [] s.cliptype = "Union"        -> subject \/ clip
        [] s.cliptype = "Difference"   -> subject /\ ~clip
        [] s.cliptype = "Xor"          -> subject # clip

\* An edge builds output (it is hot, or one of a joined pair) exactly when it
\* separates the result from its outside.
HotEdgesBoundTheResult ==
  \A i \in DOMAIN state.actives :
    LET e == state.actives[i]
    IN  (IsHot(state, e) \/ IsJoined(state, e)) <=> (InResult(state, i - 1) # InResult(state, i))

\* The front side of every record has the result on its right, the back side
\* on its left: the output rings are consistently oriented.
FrontHasResultOnRight ==
  \A i \in DOMAIN state.actives :
    LET e == state.actives[i]
    IN  IsHot(state, e) => (IsFront(state, e) <=> InResult(state, i))

\* An open record is held by exactly two active edges, one per side, and a
\* closed one by none; a hot edge is a side of the record it names.
RecordsCoupled ==
  /\ \A e \in Edge : IsHot(state, e) =>
       /\ e \in Active(state)
       /\ e \in {state.front[state.edge[e].outrec], state.back[state.edge[e].outrec]}
  /\ \A r \in Records(state) :
       LET front == state.front[r]
           back == state.back[r]
       IN  \/ front = NoEdge /\ back = NoEdge
           \/ /\ NoEdge \notin {front, back} /\ front # back /\ state.has_points[r]
              /\ state.edge[front].outrec = r /\ state.edge[back].outrec = r

\* Joined edges come in adjacent cold pairs, the left one joined to its right.
JoinsPaired ==
  \A i \in DOMAIN state.actives :
    LET join(j) == IF j \in DOMAIN state.actives
                   THEN state.edge[state.actives[j]].join_with ELSE "NoJoin"
    IN  /\ join(i) = "Right" <=> join(i + 1) = "Left"
        /\ join(i) = "Left" => i > 1
        /\ IsJoined(state, state.actives[i]) => ~IsHot(state, state.actives[i])

\* add_local_max_polygon never meets two edges on the same side, nor a cold
\* one: the sweep of closed paths does not fail.
NeverFails == state.succeeded

\* Following owners from any record ends: get_real_outrec and the cleanup
\* passes, which walk the chain, terminate.
OwnersAcyclic ==
  \A S \in SUBSET Records(state) :
    S # {} => \E r \in S : state.owner[r] \notin S

\* A record whose sides were released is never built on again: nothing gives
\* it a side, and nothing gives points back to one that was joined to another.
ClosedRecordsStayClosed ==
  [][\A r \in Records(state) :
       /\ state.front[r] = NoEdge => state'.front[r] = NoEdge /\ state'.back[r] = NoEdge
       /\ ~state.has_points[r] => ~state'.has_points[r]]_vars
=============================================================================
