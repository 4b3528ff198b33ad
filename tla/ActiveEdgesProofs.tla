------------------------- MODULE ActiveEdgesProofs -------------------------
(***************************************************************************)
(* Proofs about the sweep of ActiveEdges: the engine state stays well      *)
(* typed and no loop loses its edge; and the winding counts are those of   *)
(* the regions, for every number of edges, every fill rule and every       *)
(* schedule of the sweep.                                                  *)
(*                                                                         *)
(* The counts are updated edge by edge; the winding of a region is the sum *)
(* over the whole list on its left.  The proof follows the sums: an        *)
(* operation on the output records leaves the list and the counts alone,   *)
(* a crossing exchanges two terms of the sums, the two bounds of a local   *)
(* minimum or maximum are neighbours whose terms cancel.                   *)
(***************************************************************************)
EXTENDS ActiveEdges, SequenceTheorems, FiniteSetTheorems, WellFoundedInduction, TLAPS

MaybeEdge == Edge \cup {NoEdge}

-----------------------------------------------------------------------------
(* Lemmas about the record table and the active edge list.                 *)

\* Overwriting one entry of a table keeps its length and the type of its entries.
LEMMA OverwriteType ==
  ASSUME NEW S, NEW q \in Seq(S), NEW i, NEW x, i \in DOMAIN q => x \in S
  PROVE  /\ [q EXCEPT ![i] = x] \in Seq(S)
         /\ Len([q EXCEPT ![i] = x]) = Len(q)
<1>1. CASE i \in DOMAIN q
  BY <1>1
<1>2. CASE i \notin DOMAIN q
  <2>1. [q EXCEPT ![i] = x] = q
    BY <1>2
  <2> QED BY <2>1
<1> QED BY <1>1, <1>2

LEMMA InsertAtType ==
  ASSUME NEW q \in Seq(Edge), NEW i \in 1 .. Len(q) + 1, NEW e \in Edge
  PROVE  InsertAt(q, i, e) \in Seq(Edge)
  BY DEF InsertAt

LEMMA RemoveAtType ==
  ASSUME NEW q \in Seq(Edge), NEW i \in 1 .. Len(q)
  PROVE  RemoveAt(q, i) \in Seq(Edge)
  BY DEF RemoveAt

\* The record an edge of a well-formed state names is in the table.
LEMMA HotRecord ==
  ASSUME NEW s, StateType(s), NEW e \in Edge, IsHot(s, e)
  PROVE  s.edge[e].outrec \in 1 .. Len(s.front)
  BY DEF StateType, IsHot, NoRecord, EdgeType

LEMMA TableLength ==
  ASSUME NEW s, StateType(s)
  PROVE  Len(s.front) \in Nat /\ {NoRecord, Len(s.front)} \subseteq 0 .. Len(s.front)
<1>1. Len(s.front) \in Nat
  BY DEF StateType
<1> QED BY <1>1 DEF NoRecord

LEMMA AtType ==
  ASSUME NEW s, StateType(s), NEW i
  PROVE  At(s, i) \in MaybeEdge
  BY DEF StateType, At, Count, MaybeEdge

LEMMA NeighbourType ==
  ASSUME NEW s, StateType(s), NEW e
  PROVE  NextInAel(s, e) \in MaybeEdge /\ PrevInAel(s, e) \in MaybeEdge
  BY AtType DEF NextInAel, PrevInAel

\* Rewriting one edge keeps the state well formed.
LEMMA EdgeUpdateType ==
  ASSUME NEW s, StateType(s), NEW e, NEW new,
         e \in Edge => new \in EdgeType /\ new.outrec <= Len(s.front)
  PROVE  StateType([s EXCEPT !.edge[e] = new])
  BY DEF StateType

LEMMA OutrecType ==
  ASSUME NEW s, StateType(s), NEW e, NEW r \in 0 .. Len(s.front)
  PROVE  StateType([s EXCEPT !.edge[e].outrec = r])
<1> DEFINE new == [s.edge[e] EXCEPT !.outrec = r]
<1>1. ASSUME e \in Edge PROVE new \in EdgeType /\ new.outrec <= Len(s.front)
  <2>1. s.edge[e] \in EdgeType /\ r \in Nat /\ r <= Len(s.front)
    BY <1>1 DEF StateType
  <2> QED BY <2>1 DEF EdgeType
<1>2. StateType([s EXCEPT !.edge[e] = new])
  <2> HIDE DEF new
  <2> QED BY <1>1, EdgeUpdateType
<1>3. [s EXCEPT !.edge[e].outrec = r] = [s EXCEPT !.edge[e] = new]
  OBVIOUS
<1> QED BY <1>2, <1>3

LEMMA JoinWithType ==
  ASSUME NEW s, StateType(s), NEW e, NEW j \in JoinStates
  PROVE  StateType([s EXCEPT !.edge[e].join_with = j])
<1> DEFINE new == [s.edge[e] EXCEPT !.join_with = j]
<1>1. e \in Edge => new \in EdgeType /\ new.outrec <= Len(s.front)
  BY ZenonT(30) DEF StateType, EdgeType
<1>2. StateType([s EXCEPT !.edge[e] = new])
  <2> HIDE DEF new
  <2> QED BY <1>1, EdgeUpdateType
<1>3. [s EXCEPT !.edge[e].join_with = j] = [s EXCEPT !.edge[e] = new]
  OBVIOUS
<1> QED BY <1>2, <1>3

LEMMA FrontType ==
  ASSUME NEW s, StateType(s), NEW r, NEW e, r \in 1 .. Len(s.front) => e \in MaybeEdge
  PROVE  /\ StateType([s EXCEPT !.front[r] = e])
         /\ Len([s EXCEPT !.front[r] = e].front) = Len(s.front)
<1>0. s.front \in Seq(MaybeEdge) /\ (r \in DOMAIN s.front => e \in MaybeEdge)
  BY DEF StateType, MaybeEdge
<1>1. \A q \in Seq(MaybeEdge) : (r \in DOMAIN q => e \in MaybeEdge) =>
        /\ [q EXCEPT ![r] = e] \in Seq(MaybeEdge)
        /\ Len([q EXCEPT ![r] = e]) = Len(q)
  BY OverwriteType
<1> DEFINE t == [s EXCEPT !.front[r] = e]
<1>2. /\ DOMAIN t = DOMAIN s
      /\ t.front = [s.front EXCEPT ![r] = e]
      /\ \A f \in DOMAIN s \ {"front"} : t[f] = s[f]
  BY DEF StateType
<1> HIDE DEF t
<1> QED BY <1>0, <1>1, <1>2 DEF StateType, MaybeEdge

LEMMA BackType ==
  ASSUME NEW s, StateType(s), NEW r, NEW e, r \in 1 .. Len(s.front) => e \in MaybeEdge
  PROVE  /\ StateType([s EXCEPT !.back[r] = e])
         /\ Len([s EXCEPT !.back[r] = e].front) = Len(s.front)
<1>0. s.back \in Seq(MaybeEdge) /\ (r \in DOMAIN s.back => e \in MaybeEdge)
  BY DEF StateType, MaybeEdge
<1>1. \A q \in Seq(MaybeEdge) : (r \in DOMAIN q => e \in MaybeEdge) =>
        /\ [q EXCEPT ![r] = e] \in Seq(MaybeEdge)
        /\ Len([q EXCEPT ![r] = e]) = Len(q)
  BY OverwriteType
<1> DEFINE t == [s EXCEPT !.back[r] = e]
<1>2. /\ DOMAIN t = DOMAIN s
      /\ t.back = [s.back EXCEPT ![r] = e]
      /\ \A f \in DOMAIN s \ {"back"} : t[f] = s[f]
  BY DEF StateType
<1> HIDE DEF t
<1> QED BY <1>0, <1>1, <1>2 DEF StateType, MaybeEdge

LEMMA HasPointsType ==
  ASSUME NEW s, StateType(s), NEW r, NEW b \in BOOLEAN
  PROVE  StateType([s EXCEPT !.has_points[r] = b])
<1>1. /\ [s.has_points EXCEPT ![r] = b] \in Seq(BOOLEAN)
      /\ Len([s.has_points EXCEPT ![r] = b]) = Len(s.has_points)
  BY OverwriteType, SMTT(30) DEF StateType
<1> DEFINE t == [s EXCEPT !.has_points[r] = b]
<1>2. /\ DOMAIN t = DOMAIN s
      /\ t.has_points = [s.has_points EXCEPT ![r] = b]
      /\ \A f \in DOMAIN s \ {"has_points"} : t[f] = s[f]
  BY DEF StateType
<1> HIDE DEF t
<1> QED BY <1>1, <1>2 DEF StateType

LEMMA ActivesType ==
  ASSUME NEW s, StateType(s), NEW q \in Seq(Edge)
  PROVE  StateType([s EXCEPT !.actives = q])
  BY DEF StateType

\* The positions LastOf picks from are positions of the list.
LEMMA LastOfType ==
  ASSUME NEW s, StateType(s), NEW P \in SUBSET (1 .. Len(s.actives))
  PROVE  LastOf(s, P) \in MaybeEdge /\ (LastOf(s, P) # NoEdge => LastOf(s, P) \in Active(s))
<1>1. s.actives \in Seq(Edge) /\ DOMAIN s.actives = 1 .. Len(s.actives)
  BY DEF StateType
<1>2. CASE \E i \in P : \A j \in P : j <= i
  <2> DEFINE k == CHOOSE i \in P : \A j \in P : j <= i
  <2>1. k \in P
    BY <1>2
  <2>2. LastOf(s, P) = s.actives[k]
    BY <1>2 DEF LastOf
  <2> HIDE DEF k
  <2> QED BY <1>1, <2>1, <2>2 DEF Active, Range, MaybeEdge
<1>3. CASE ~ \E i \in P : \A j \in P : j <= i
  BY <1>3 DEF LastOf, MaybeEdge
<1> QED BY <1>2, <1>3

LEMMA ActiveEdge ==
  ASSUME NEW s, StateType(s), NEW e \in Active(s)
  PROVE  e \in Edge /\ PositionOf(s, e) \in 1 .. Len(s.actives)
  BY DEF StateType, Active, Range, PositionOf

LEMMA SwapPositionsType ==
  ASSUME NEW s, StateType(s), NEW first \in Edge, NEW second \in Edge
  PROVE  StateType(SwapPositions(s, first, second))
<1> DEFINE q1 == [s.actives EXCEPT ![PositionOf(s, first)] = second]
           q2 == [q1 EXCEPT ![PositionOf(s, second)] = first]
<1>1. q1 \in Seq(Edge)
  BY OverwriteType DEF StateType
<1>2. q2 \in Seq(Edge)
  <2> HIDE DEF q1
  <2> QED BY <1>1, OverwriteType
<1>3. StateType([s EXCEPT !.actives = q2])
  <2> HIDE DEF q2
  <2> QED BY <1>2, ActivesType
<1>4. SwapPositions(s, first, second) = [s EXCEPT !.actives = q2]
  BY DEF SwapPositions
<1> QED BY <1>3, <1>4

LEMMA RemoveFromAelType ==
  ASSUME NEW s, StateType(s), NEW e \in Edge
  PROVE  StateType(RemoveFromAel(s, e))
<1>1. CASE e \in Active(s)
  <2> DEFINE q == RemoveAt(s.actives, PositionOf(s, e))
  <2>1. q \in Seq(Edge)
    BY <1>1, ActiveEdge, RemoveAtType DEF StateType
  <2> DEFINE t == [s EXCEPT !.actives = q]
  <2>2. StateType(t)
    <3> HIDE DEF q
    <3> QED BY <2>1, ActivesType
  <2>3. Dead \in EdgeType /\ Dead.outrec = 0
    BY DEF Dead, Bound, EdgeType, NoRecord, JoinStates
  <2>4. Dead.outrec <= Len(t.front)
    BY <2>2, <2>3 DEF StateType
  <2>5. StateType([t EXCEPT !.edge[e] = Dead])
    <3> HIDE DEF t
    <3> QED BY <2>2, <2>3, <2>4, EdgeUpdateType
  <2>6. RemoveFromAel(s, e) = [t EXCEPT !.edge[e] = Dead]
    BY <1>1 DEF RemoveFromAel
  <2> QED BY <2>5, <2>6
<1>2. CASE e \notin Active(s)
  BY <1>2 DEF RemoveFromAel
<1> QED BY <1>1, <1>2

-----------------------------------------------------------------------------
(* Every operation on the records keeps the state well formed.             *)

LEMMA CreateOutrecType ==
  ASSUME NEW s, StateType(s)
  PROVE  /\ StateType(CreateOutrec(s))
         /\ Len(CreateOutrec(s).front) = Len(s.front) + 1
  BY DEF StateType, CreateOutrec, EdgeType

LEMMA SetOwnerType ==
  ASSUME NEW s, StateType(s), NEW r, NEW o
  PROVE  StateType(SetOwner(s, r, o))
  BY DEF StateType, SetOwner

LEMMA SetSidesType ==
  ASSUME NEW s, StateType(s), NEW r, NEW d \in MaybeEdge, NEW e \in MaybeEdge
  PROVE  StateType(SetSides(s, r, d, e))
<1> DEFINE t == [s EXCEPT !.front[r] = d]
<1>1. StateType(t)
  BY FrontType
<1>2. StateType([t EXCEPT !.back[r] = e])
  <2> HIDE DEF t
  <2> QED BY <1>1, BackType
<1>3. SetSides(s, r, d, e) = [t EXCEPT !.back[r] = e]
  BY DEF SetSides
<1> QED BY <1>2, <1>3

LEMMA AddLocalMinType ==
  ASSUME NEW s, StateType(s), NEW first \in MaybeEdge, NEW second \in MaybeEdge, NEW is_new
  PROVE  StateType(AddLocalMinPolygon(s, first, second, is_new))
<1> DEFINE s1 == CreateOutrec(s)
           record == Len(s.front) + 1
           s15 == [s1 EXCEPT !.edge[first].outrec = record]
           s2 == [s1 EXCEPT !.edge[first].outrec = record, !.edge[second].outrec = record]
           previous_hot == PreviousHotEdge(s2, first)
           s3 == IF previous_hot # NoEdge /\ UsingPolytree
                 THEN SetOwner(s2, record, s2.edge[previous_hot].outrec) ELSE s2
<1>1. StateType(s1) /\ record \in 0 .. Len(s1.front)
  <2>1. StateType(s1) /\ Len(s1.front) = record
    BY CreateOutrecType
  <2> HIDE DEF s1, record
  <2>2. record \in 0 .. Len(s1.front)
    BY <2>1, TableLength
  <2> QED BY <2>1, <2>2
<1>2. StateType(s15) /\ s15.front = s1.front
  <2> HIDE DEF s1, record
  <2>1. StateType(s15)
    BY <1>1, OutrecType
  <2> QED BY <1>1, <2>1 DEF StateType
<1>3. StateType(s2)
  <2>1. s2 = [s15 EXCEPT !.edge[second].outrec = record]
    OBVIOUS
  <2> HIDE DEF s1, s2, s15, record
  <2> QED BY <1>1, <1>2, <2>1, OutrecType
<1>4. StateType(s3)
  <2> HIDE DEF s1, s2, record, previous_hot
  <2> QED BY <1>3, SetOwnerType
<1>5. \/ AddLocalMinPolygon(s, first, second, is_new) = SetSides(s3, record, first, second)
      \/ AddLocalMinPolygon(s, first, second, is_new) = SetSides(s3, record, second, first)
  BY DEF AddLocalMinPolygon
<1> HIDE DEF s3, record
<1> QED BY <1>4, <1>5, SetSidesType

LEMMA SplitIfJoinedType ==
  ASSUME NEW s, StateType(s), NEW e \in Edge
  PROVE  StateType(SplitIfJoined(s, e))
<1> DEFINE left  == IF s.edge[e].join_with = "Right" THEN e ELSE PrevInAel(s, e)
           right == IF s.edge[e].join_with = "Right" THEN NextInAel(s, e) ELSE e
           s1 == [s EXCEPT !.edge[left].join_with = "NoJoin"]
           s2 == [s1 EXCEPT !.edge[right].join_with = "NoJoin"]
<1>1. left \in MaybeEdge /\ right \in MaybeEdge
  BY NeighbourType DEF MaybeEdge
<1>2. StateType(s1)
  <2> HIDE DEF left
  <2> QED BY JoinWithType DEF JoinStates
<1>3. StateType(s2)
  <2> HIDE DEF s1, right
  <2> QED BY <1>2, JoinWithType DEF JoinStates
<1>4. SplitJoinedEdge(s, e) = AddLocalMinPolygon(s2, left, right, TRUE)
  BY DEF SplitJoinedEdge
<1>5. StateType(SplitJoinedEdge(s, e))
  <2> HIDE DEF s2, left, right
  <2> QED BY <1>1, <1>3, <1>4, AddLocalMinType
<1> QED BY <1>5 DEF SplitIfJoined

\* The value of a side that names a record of the table.
LEMMA SideType ==
  ASSUME NEW s, StateType(s), NEW r
  PROVE  r \in 1 .. Len(s.front) => s.front[r] \in MaybeEdge /\ s.back[r] \in MaybeEdge
  BY DEF StateType, MaybeEdge

LEMMA ReplaceType ==
  ASSUME NEW side \in Seq(MaybeEdge), NEW r, NEW old, NEW new \in Edge
  PROVE  /\ [side EXCEPT ![r] = IF @ = old THEN new ELSE @] \in Seq(MaybeEdge)
         /\ Len([side EXCEPT ![r] = IF @ = old THEN new ELSE @]) = Len(side)
<1> DEFINE x == IF side[r] = old THEN new ELSE side[r]
<1>1. r \in DOMAIN side => x \in MaybeEdge
  BY DEF MaybeEdge
<1>2. [side EXCEPT ![r] = IF @ = old THEN new ELSE @] = [side EXCEPT ![r] = x]
  OBVIOUS
<1> HIDE DEF x
<1> QED BY <1>1, <1>2, OverwriteType

LEMMA SidesType ==
  ASSUME NEW s, StateType(s), NEW f \in Seq(MaybeEdge), NEW b \in Seq(MaybeEdge),
         Len(f) = Len(s.front), Len(b) = Len(s.front)
  PROVE  /\ StateType([s EXCEPT !.front = f, !.back = b])
         /\ [s EXCEPT !.front = f, !.back = b].front = f
<1> DEFINE t == [s EXCEPT !.front = f, !.back = b]
<1>1. /\ DOMAIN t = DOMAIN s
      /\ t.front = f /\ t.back = b
      /\ \A field \in DOMAIN s \ {"front", "back"} : t[field] = s[field]
  BY DEF StateType
<1> HIDE DEF t
<1> QED BY <1>1 DEF StateType, MaybeEdge

LEMMA SwapOutrecsType ==
  ASSUME NEW s, StateType(s), NEW first \in Edge, NEW second \in Edge
  PROVE  StateType(SwapOutrecs(s, first, second))
<1> DEFINE r1 == s.edge[first].outrec
           r2 == s.edge[second].outrec
<1>1. r1 \in 0 .. Len(s.front) /\ r2 \in 0 .. Len(s.front)
  BY TableLength DEF StateType, EdgeType
<1>2. CASE r1 = r2
  <2> DEFINE t == [s EXCEPT !.front[r1] = s.back[r1]]
  <2>1. StateType(t) /\ Len(t.front) = Len(s.front)
    <3> HIDE DEF r1
    <3> QED BY SideType, FrontType
  <2>2. StateType([t EXCEPT !.back[r1] = s.front[r1]])
    <3> HIDE DEF t, r1
    <3> QED BY <2>1, SideType, BackType
  <2>3. SwapOutrecs(s, first, second) = [t EXCEPT !.back[r1] = s.front[r1]]
    BY <1>2 DEF SwapOutrecs
  <2> QED BY <2>2, <2>3
<1>3. CASE r1 # r2
  <2> DEFINE replace(side, r, old, new) == [side EXCEPT ![r] = IF @ = old THEN new ELSE @]
             in1(side) == IF r1 = NoRecord THEN side ELSE replace(side, r1, first, second)
             in2(side) == IF r2 = NoRecord THEN side ELSE replace(side, r2, second, first)
             front == in2(in1(s.front))
             back == in2(in1(s.back))
             t == [s EXCEPT !.front = front, !.back = back]
  <2>1. \A side \in Seq(MaybeEdge) :
          /\ in1(side) \in Seq(MaybeEdge) /\ Len(in1(side)) = Len(side)
          /\ in2(side) \in Seq(MaybeEdge) /\ Len(in2(side)) = Len(side)
    BY ReplaceType
  <2>2. s.front \in Seq(MaybeEdge) /\ s.back \in Seq(MaybeEdge) /\ Len(s.back) = Len(s.front)
    BY DEF StateType, MaybeEdge
  <2>3. StateType(t) /\ Len(t.front) = Len(s.front)
    <3>1. /\ front \in Seq(MaybeEdge) /\ Len(front) = Len(s.front)
          /\ back \in Seq(MaybeEdge) /\ Len(back) = Len(s.front)
      <4> HIDE DEF in1, in2
      <4> QED BY <2>1, <2>2
    <3> HIDE DEF front, back
    <3>2. \A f, b \in Seq(MaybeEdge) : Len(f) = Len(s.front) /\ Len(b) = Len(s.front) =>
            /\ StateType([s EXCEPT !.front = f, !.back = b])
            /\ [s EXCEPT !.front = f, !.back = b].front = f
      BY SidesType
    <3>3. StateType(t) /\ t.front = front
      BY <3>1, <3>2
    <3> HIDE DEF t
    <3> QED BY <3>1, <3>3
  <2> DEFINE t1 == [t EXCEPT !.edge[first].outrec = r2]
  <2>4. StateType(t1) /\ Len(t1.front) = Len(s.front)
    <3>1. StateType(t1)
      <4> HIDE DEF t, r2
      <4> QED BY <1>1, <2>3, OutrecType
    <3>2. t1.front = t.front
      <4> HIDE DEF t, r2
      <4> QED BY <2>3 DEF StateType
    <3> QED BY <2>3, <3>1, <3>2
  <2>5. StateType([t1 EXCEPT !.edge[second].outrec = r1])
    <3> HIDE DEF t1, r1
    <3> QED BY <1>1, <2>4, OutrecType
  <2>6. SwapOutrecs(s, first, second) = [t1 EXCEPT !.edge[second].outrec = r1]
    BY <1>3 DEF SwapOutrecs
  <2> QED BY <2>5, <2>6
<1> QED BY <1>2, <1>3

LEMMA InheritSideType ==
  ASSUME NEW s, StateType(s), NEW first \in Edge, NEW second \in Edge,
         IsHot(s, first), IsHot(s, second)
  PROVE  StateType(InheritSide(s, first, second))
<1> DEFINE r1 == s.edge[first].outrec
           r2 == s.edge[second].outrec
           heir == IF IsFront(s, first) THEN s.front[r2] ELSE s.back[r2]
           s1 == IF IsFront(s, first) THEN [s EXCEPT !.front[r1] = heir]
                                      ELSE [s EXCEPT !.back[r1] = heir]
           s2 == IF heir = NoEdge THEN s1 ELSE [s1 EXCEPT !.edge[heir].outrec = r1]
<1>1. r1 \in 1 .. Len(s.front) /\ r2 \in 1 .. Len(s.front)
  BY HotRecord
<1>2. heir \in MaybeEdge
  BY <1>1, SideType
<1>3. StateType(s1) /\ Len(s1.front) = Len(s.front)
  <2> HIDE DEF heir, r1
  <2>1. CASE IsFront(s, first)
    BY <1>2, <2>1, FrontType
  <2>2. CASE ~IsFront(s, first)
    BY <1>2, <2>2, BackType
  <2> QED BY <2>1, <2>2
<1>4. StateType(s2)
  <2>1. r1 \in 0 .. Len(s1.front)
    BY <1>1, <1>3
  <2> HIDE DEF s1, heir, r1
  <2> QED BY <1>3, <2>1, OutrecType
<1>5. InheritSide(s, first, second) = s2
  BY DEF InheritSide
<1> QED BY <1>4, <1>5

LEMMA EmptyRecordType ==
  ASSUME NEW s, StateType(s), NEW r
  PROVE  StateType(EmptyRecord(s, r))
<1> DEFINE t == [s EXCEPT !.front[r] = NoEdge]
           u == [t EXCEPT !.back[r] = NoEdge]
           v == [u EXCEPT !.has_points[r] = FALSE]
<1>1. NoEdge \in MaybeEdge
  BY DEF MaybeEdge
<1>2. StateType(t)
  BY <1>1, FrontType
<1>3. StateType(u)
  <2> HIDE DEF t
  <2> QED BY <1>1, <1>2, BackType
<1>4. StateType(v)
  <2> HIDE DEF u
  <2> QED BY <1>3, HasPointsType
<1>5. EmptyRecord(s, r) = v
  BY DEF EmptyRecord
<1> QED BY <1>4, <1>5

LEMMA JoinOutrecPathsType ==
  ASSUME NEW s, StateType(s), NEW first \in Edge, NEW second \in Edge,
         IsHot(s, first), IsHot(s, second)
  PROVE  StateType(JoinOutrecPaths(s, first, second))
<1> DEFINE r1 == s.edge[first].outrec
           r2 == s.edge[second].outrec
           s2 == InheritSide(s, first, second)
           s4 == SetOwner(EmptyRecord(s2, r2), r2, r1)
           s5 == [s4 EXCEPT !.edge[first].outrec = NoRecord]
<1>1. StateType(s4)
  BY InheritSideType, EmptyRecordType, SetOwnerType
<1>2. StateType(s5)
  <2> HIDE DEF s4
  <2> QED BY <1>1, OutrecType, TableLength
<1>3. StateType([s5 EXCEPT !.edge[second].outrec = NoRecord])
  <2> HIDE DEF s5
  <2> QED BY <1>2, OutrecType, TableLength
<1>4. JoinOutrecPaths(s, first, second) = [s4 EXCEPT !.edge[first].outrec = NoRecord,
                                                     !.edge[second].outrec = NoRecord]
  BY DEF JoinOutrecPaths
<1>5. [s4 EXCEPT !.edge[first].outrec = NoRecord, !.edge[second].outrec = NoRecord]
        = [s5 EXCEPT !.edge[second].outrec = NoRecord]
  OBVIOUS
<1> HIDE DEF s4, s5
<1> QED BY <1>3, <1>4, <1>5

LEMMA UncoupleType ==
  ASSUME NEW s, StateType(s), NEW r
  PROVE  StateType(UncoupleOutrec(s, r))
<1> DEFINE s1 == [s EXCEPT !.edge[s.front[r]].outrec = NoRecord]
           s2 == [s1 EXCEPT !.edge[s.back[r]].outrec = NoRecord]
           s3 == [s2 EXCEPT !.front[r] = NoEdge]
<1>1. StateType(s1)
  BY OutrecType, TableLength
<1>2. StateType(s2)
  <2> HIDE DEF s1
  <2> QED BY <1>1, OutrecType, TableLength
<1>3. NoEdge \in MaybeEdge
  BY DEF MaybeEdge
<1>4. StateType(s3)
  <2> HIDE DEF s2
  <2> QED BY <1>2, <1>3, FrontType
<1>5. StateType([s3 EXCEPT !.back[r] = NoEdge])
  <2> HIDE DEF s3
  <2> QED BY <1>3, <1>4, BackType
<1>6. UncoupleOutrec(s, r) = [s3 EXCEPT !.back[r] = NoEdge]
  BY DEF UncoupleOutrec
<1> QED BY <1>5, <1>6

LEMMA OwnerType ==
  ASSUME NEW s, StateType(s), NEW r, NEW o
  PROVE  StateType([s EXCEPT !.owner[r] = o])
  BY DEF StateType

LEMMA CloseRecordType ==
  ASSUME NEW s, StateType(s), NEW e
  PROVE  StateType(CloseRecord(s, e))
<1> DEFINE record == s.edge[e].outrec
           previous_hot == PreviousHotEdge(s, e)
           s1 == IF ~UsingPolytree THEN s
                 ELSE IF previous_hot = NoEdge THEN [s EXCEPT !.owner[record] = NoRecord]
                 ELSE SetOwner(s, record, s.edge[previous_hot].outrec)
           s2 == UncoupleOutrec(s1, record)
           owner == s2.owner[record]
<1>1. StateType(s1)
  <2> HIDE DEF record, previous_hot
  <2> QED BY OwnerType, SetOwnerType
<1>2. StateType(s2)
  <2> HIDE DEF s1, record
  <2> QED BY <1>1, UncoupleType
<1>3. StateType([s2 EXCEPT !.owner[record] = GetRealOutrec(s2, owner)])
  <2> HIDE DEF s2, record
  <2> QED BY <1>2, OwnerType
<1>4. \/ CloseRecord(s, e) = s2
      \/ CloseRecord(s, e) = [s2 EXCEPT !.owner[record] = GetRealOutrec(s2, owner)]
  BY DEF CloseRecord
<1> QED BY <1>2, <1>3, <1>4

LEMMA AddLocalMaxType ==
  ASSUME NEW s, StateType(s), NEW first \in Edge, NEW second \in Edge
  PROVE  StateType(AddLocalMaxPolygon(s, first, second))
<1> DEFINE t1 == SplitIfJoined(s, first)
           t == SplitIfJoined(t1, second)
<1>1. StateType(t)
  <2>1. StateType(t1)
    BY SplitIfJoinedType
  <2> HIDE DEF t1
  <2> QED BY <2>1, SplitIfJoinedType
<1>2. StateType([t EXCEPT !.succeeded = FALSE])
  <2> HIDE DEF t
  <2> QED BY <1>1 DEF StateType
<1>3. StateType(CloseRecord(t, first))
  <2> HIDE DEF t
  <2> QED BY <1>1, CloseRecordType
<1>4. IsHot(t, first) /\ IsHot(t, second) =>
        StateType(JoinOutrecPaths(t, first, second)) /\ StateType(JoinOutrecPaths(t, second, first))
  <2> HIDE DEF t
  <2> QED BY <1>1, JoinOutrecPathsType
<1>5. \/ AddLocalMaxPolygon(s, first, second) = [t EXCEPT !.succeeded = FALSE]
      \/ AddLocalMaxPolygon(s, first, second) = CloseRecord(t, first)
      \/ /\ IsHot(t, first) /\ IsHot(t, second)
         /\ AddLocalMaxPolygon(s, first, second)
              \in {JoinOutrecPaths(t, first, second), JoinOutrecPaths(t, second, first)}
  BY DEF AddLocalMaxPolygon
<1> HIDE DEF t
<1> QED BY <1>2, <1>3, <1>4, <1>5

LEMMA JoinEdgesType ==
  ASSUME NEW s, StateType(s), NEW left \in Edge, NEW right \in Edge,
         IsHot(s, left), IsHot(s, right)
  PROVE  StateType(JoinEdges(s, left, right))
<1> DEFINE s1 == IF s.edge[left].outrec = s.edge[right].outrec
                 THEN AddLocalMaxPolygon(s, left, right)
                 ELSE IF s.edge[left].outrec < s.edge[right].outrec
                 THEN JoinOutrecPaths(s, left, right) ELSE JoinOutrecPaths(s, right, left)
           s2 == [s1 EXCEPT !.edge[left].join_with = "Right"]
<1>1. StateType(s1)
  BY AddLocalMaxType, JoinOutrecPathsType
<1>2. StateType(s2)
  <2> HIDE DEF s1
  <2> QED BY <1>1, JoinWithType DEF JoinStates
<1>3. StateType([s2 EXCEPT !.edge[right].join_with = "Left"])
  <2> HIDE DEF s2
  <2> QED BY <1>2, JoinWithType DEF JoinStates
<1>4. JoinEdges(s, left, right) = [s2 EXCEPT !.edge[right].join_with = "Left"]
  <2>1. JoinEdges(s, left, right) =
          [s1 EXCEPT !.edge[left].join_with = "Right", !.edge[right].join_with = "Left"]
    BY DEF JoinEdges
  <2> HIDE DEF s1
  <2> QED BY <2>1
<1> QED BY <1>3, <1>4

LEMMA CheckJoinType ==
  ASSUME NEW s, StateType(s), NEW e \in Edge, NEW collinear
  PROVE  StateType(CheckJoinLeft(s, e, collinear)) /\ StateType(CheckJoinRight(s, e, collinear))
<1> DEFINE previous == PrevInAel(s, e)
           next == NextInAel(s, e)
<1>1. previous \in MaybeEdge /\ next \in MaybeEdge
  BY NeighbourType
<1>2. MayJoin(s, previous, e) => StateType(JoinEdges(s, previous, e))
  <2> HIDE DEF previous
  <2> QED BY <1>1, JoinEdgesType DEF MayJoin, MaybeEdge
<1>3. MayJoin(s, e, next) => StateType(JoinEdges(s, e, next))
  <2> HIDE DEF next
  <2> QED BY <1>1, JoinEdgesType DEF MayJoin, MaybeEdge
<1> QED BY <1>2, <1>3 DEF CheckJoinLeft, CheckJoinRight

-----------------------------------------------------------------------------
(* Crossings and winding counts.                                           *)

LEMMA CountsType ==
  ASSUME NEW s, StateType(s), NEW e, NEW n, e \in Edge => n \in Int
  PROVE  /\ StateType([s EXCEPT !.edge[e].winding_count = n])
         /\ StateType([s EXCEPT !.edge[e].wind_cnt2 = n])
<1> DEFINE new1 == [s.edge[e] EXCEPT !.winding_count = n]
           new2 == [s.edge[e] EXCEPT !.wind_cnt2 = n]
<1>1. e \in Edge => new1 \in EdgeType /\ new1.outrec <= Len(s.front)
  BY ZenonT(30) DEF StateType, EdgeType
<1>2. e \in Edge => new2 \in EdgeType /\ new2.outrec <= Len(s.front)
  BY ZenonT(30) DEF StateType, EdgeType
<1>3. StateType([s EXCEPT !.edge[e] = new1]) /\ StateType([s EXCEPT !.edge[e] = new2])
  <2> HIDE DEF new1, new2
  <2> QED BY <1>1, <1>2, EdgeUpdateType
<1>4. /\ [s EXCEPT !.edge[e].winding_count = n] = [s EXCEPT !.edge[e] = new1]
      /\ [s EXCEPT !.edge[e].wind_cnt2 = n] = [s EXCEPT !.edge[e] = new2]
  OBVIOUS
<1> QED BY <1>3, <1>4

\* Both counts of one field, set together.
LEMMA TwoCountsType ==
  ASSUME NEW s, StateType(s), NEW d, NEW e, NEW m \in Int, NEW n \in Int
  PROVE  /\ StateType([s EXCEPT !.edge[d].winding_count = m, !.edge[e].winding_count = n])
         /\ StateType([s EXCEPT !.edge[d].wind_cnt2 = m, !.edge[e].wind_cnt2 = n])
         /\ StateType([s EXCEPT !.edge[d].winding_count = m, !.edge[e].wind_cnt2 = n])
<1> DEFINE s1 == [s EXCEPT !.edge[d].winding_count = m]
           s2 == [s EXCEPT !.edge[d].wind_cnt2 = m]
<1>1. StateType(s1) /\ StateType(s2)
  BY CountsType
<1>2. /\ StateType([s1 EXCEPT !.edge[e].winding_count = n])
      /\ StateType([s2 EXCEPT !.edge[e].wind_cnt2 = n])
      /\ StateType([s1 EXCEPT !.edge[e].wind_cnt2 = n])
  <2> HIDE DEF s1, s2
  <2> QED BY <1>1, CountsType
<1>3. /\ [s EXCEPT !.edge[d].winding_count = m, !.edge[e].winding_count = n]
           = [s1 EXCEPT !.edge[e].winding_count = n]
      /\ [s EXCEPT !.edge[d].wind_cnt2 = m, !.edge[e].wind_cnt2 = n]
           = [s2 EXCEPT !.edge[e].wind_cnt2 = n]
      /\ [s EXCEPT !.edge[d].winding_count = m, !.edge[e].wind_cnt2 = n]
           = [s1 EXCEPT !.edge[e].wind_cnt2 = n]
  OBVIOUS
<1> HIDE DEF s1, s2
<1> QED BY <1>2, <1>3

\* The counts and the direction of an edge are integers.
LEMMA CountsAreIntegers ==
  ASSUME NEW s, StateType(s), NEW e \in Edge
  PROVE  /\ s.edge[e].winding_count \in Int /\ s.edge[e].wind_cnt2 \in Int
         /\ s.edge[e].wind_dx \in Int
  BY DEF StateType, EdgeType

LEMMA UpdateWindCountsType ==
  ASSUME NEW s, StateType(s), NEW first \in Edge, NEW second \in Edge
  PROVE  StateType(UpdateWindCounts(s, first, second))
<1> DEFINE f == s.edge[first]
           g == s.edge[second]
           plus(count, dx) == IF count + dx = 0 THEN -count ELSE count + dx
           toggled(count) == IF count = 0 THEN 1 ELSE 0
           m1 == plus(f.winding_count, g.wind_dx)
           n1 == plus(g.winding_count, -f.wind_dx)
           m2 == f.wind_cnt2 + g.wind_dx
           n2 == g.wind_cnt2 - f.wind_dx
           m3 == toggled(f.wind_cnt2)
           n3 == toggled(g.wind_cnt2)
           b0 == [s EXCEPT !.edge[first].winding_count = g.winding_count,
                           !.edge[second].winding_count = f.winding_count]
           b1 == [s EXCEPT !.edge[first].winding_count = m1, !.edge[second].winding_count = n1]
           b2 == [s EXCEPT !.edge[first].wind_cnt2 = m2, !.edge[second].wind_cnt2 = n2]
           b3 == [s EXCEPT !.edge[first].wind_cnt2 = m3, !.edge[second].wind_cnt2 = n3]
<1>1. /\ f.winding_count \in Int /\ f.wind_cnt2 \in Int /\ f.wind_dx \in Int
      /\ g.winding_count \in Int /\ g.wind_cnt2 \in Int /\ g.wind_dx \in Int
  BY CountsAreIntegers
<1>2. {m1, n1, m2, n2, m3, n3} \subseteq Int
  <2> HIDE DEF f, g
  <2> QED BY <1>1
<1>3. StateType(b0)
  <2> HIDE DEF f, g
  <2> QED BY <1>1, TwoCountsType
<1>4. StateType(b1) /\ StateType(b2) /\ StateType(b3)
  <2> HIDE DEF m1, n1, m2, n2, m3, n3
  <2> QED BY <1>2, TwoCountsType
<1>5. UpdateWindCounts(s, first, second) \in {b0, b1, b2, b3}
  BY DEF UpdateWindCounts
<1> HIDE DEF b0, b1, b2, b3
<1> QED BY <1>3, <1>4, <1>5

LEMMA CrossOutputType ==
  ASSUME NEW s, StateType(s), NEW first \in Edge, NEW second \in Edge
  PROVE  StateType(CrossOutput(s, first, second))
<1> DEFINE t == AddLocalMaxPolygon(s, first, second)
<1>1. StateType(t)
  BY AddLocalMaxType
<1>2. StateType(AddLocalMinPolygon(t, first, second, FALSE))
  <2> HIDE DEF t
  <2> QED BY <1>1, AddLocalMinType DEF MaybeEdge
<1>3. StateType(SwapOutrecs(s, first, second))
  BY SwapOutrecsType
<1>4. StateType(AddLocalMinPolygon(s, first, second, FALSE))
  BY AddLocalMinType DEF MaybeEdge
<1>5. CrossOutput(s, first, second)
        \in {s, t, AddLocalMinPolygon(t, first, second, FALSE), SwapOutrecs(s, first, second),
             AddLocalMinPolygon(s, first, second, FALSE)}
  BY DEF CrossOutput
<1> HIDE DEF t
<1> QED BY <1>1, <1>2, <1>3, <1>4, <1>5

LEMMA CrossType ==
  ASSUME NEW s, StateType(s), NEW first \in Edge, NEW second \in Edge
  PROVE  StateType(Cross(s, first, second))
<1> DEFINE t1 == SplitIfJoined(s, first)
           t2 == SplitIfJoined(t1, second)
           t3 == UpdateWindCounts(t2, first, second)
           t4 == CrossOutput(t3, first, second)
<1>1. StateType(t1)
  BY SplitIfJoinedType
<1>2. StateType(t2)
  <2> HIDE DEF t1
  <2> QED BY <1>1, SplitIfJoinedType
<1>3. StateType(t3)
  <2> HIDE DEF t2
  <2> QED BY <1>2, UpdateWindCountsType
<1>4. StateType(t4)
  <2> HIDE DEF t3
  <2> QED BY <1>3, CrossOutputType
<1>5. Cross(s, first, second) = SwapPositions(t4, first, second)
  BY DEF Cross, IntersectEdges
<1> HIDE DEF t4
<1> QED BY <1>4, <1>5, SwapPositionsType

\* The number of chosen positions of an interval is a natural number.
LEMMA CountOfPositions ==
  ASSUME NEW a \in Int, NEW b \in Int, NEW S \in SUBSET (a .. b)
  PROVE  Cardinality(S) \in Nat
<1>1. IsFiniteSet(a .. b)
  BY FS_Interval
<1>2. IsFiniteSet(S)
  BY <1>1, FS_Subset
<1> QED BY <1>2, FS_CardinalityType

LEMMA NextWindingCountType ==
  ASSUME NEW s, StateType(s), NEW e \in Edge, NEW dx \in Int
  PROVE  NextWindingCount(s, e, dx) \in Int
<1>1. NextWindingCount(s, e, dx)
        \in {dx, s.edge[e].winding_count + 0, s.edge[e].winding_count + dx}
  BY DEF NextWindingCount
<1> QED BY <1>1, CountsAreIntegers

LEMMA PreviousOfTypeType ==
  ASSUME NEW s, StateType(s), NEW e \in Active(s)
  PROVE  LET previous == PreviousOfType(s, e)
         IN  previous # NoEdge => previous \in Active(s)
<1> DEFINE chosen == {i \in 1 .. PositionOf(s, e) - 1 : SamePolyType(s, s.actives[i], e)}
<1>1. PositionOf(s, e) \in 1 .. Len(s.actives) /\ Len(s.actives) \in Nat
  <2>1. PositionOf(s, e) \in DOMAIN s.actives
    BY ActiveEdge
  <2>2. s.actives \in Seq(Edge)
    BY DEF StateType
  <2> QED BY <2>1, <2>2
<1>2. chosen \in SUBSET (1 .. Len(s.actives))
  <2> DEFINE p == PositionOf(s, e)
             n == Len(s.actives)
  <2> HIDE DEF p, n
  <2>1. \A i \in 1 .. p - 1 : i \in 1 .. n
    BY <1>1 DEF p, n
  <2> QED BY <2>1 DEF p, n
<1> HIDE DEF chosen
<1>3. LastOf(s, chosen) # NoEdge => LastOf(s, chosen) \in Active(s)
  BY <1>2, LastOfType
<1> QED BY <1>3 DEF PreviousOfType, chosen

LEMMA ClosedOppositeCountType ==
  ASSUME NEW s, StateType(s), NEW e \in Active(s), NEW previous,
         previous # NoEdge => previous \in Active(s)
  PROVE  ClosedOppositeCount(s, e, previous) \in Int
<1> DEFINE here == PositionOf(s, e)
           polytype == s.edge[e].polytype
           first == IF previous = NoEdge THEN 1 ELSE PositionOf(s, previous) + 1
           between == first .. here - 1
           start == IF previous = NoEdge THEN 0 ELSE s.edge[previous].wind_cnt2
           toggles == OppositeEdges(s, between, polytype)
           with(dx) == {i \in between : /\ s.edge[s.actives[i]].polytype # polytype
                                        /\ s.edge[s.actives[i]].wind_dx = dx}
<1>1. first \in Int /\ here - 1 \in Int
  <2>1. here \in Int /\ (previous # NoEdge => PositionOf(s, previous) \in Int)
    BY ActiveEdge
  <2> QED BY <2>1
<1>2. start \in Int
  <2>1. previous # NoEdge => previous \in Edge
    BY ActiveEdge
  <2> QED BY <2>1, CountsAreIntegers
<1>3. Cardinality(with(1)) \in Nat /\ Cardinality(with(-1)) \in Nat
  <2>1. with(1) \in SUBSET (first .. here - 1) /\ with(-1) \in SUBSET (first .. here - 1)
    OBVIOUS
  <2> HIDE DEF with, first, here
  <2> QED BY <1>1, <2>1, CountOfPositions
<1>4. OppositeWinding(s, between, polytype) = Cardinality(with(1)) - Cardinality(with(-1))
  BY DEF OppositeWinding
<1>5. OppositeWinding(s, between, polytype) \in Int
  <2> HIDE DEF with
  <2> QED BY <1>3, <1>4
<1>6. ClosedOppositeCount(s, e, previous) =
        IF s.fillrule = "EvenOdd"
        THEN IF toggles % 2 = 0 THEN start ELSE IF start = 0 THEN 1 ELSE 0
        ELSE start + OppositeWinding(s, between, polytype)
  BY DEF ClosedOppositeCount
<1> HIDE DEF start, toggles, between, polytype
<1> QED BY <1>2, <1>5, <1>6

LEMMA SetWindCountType ==
  ASSUME NEW s, StateType(s), NEW e \in Active(s)
  PROVE  StateType(SetWindCountForClosedPathEdge(s, e))
<1> DEFINE previous == PreviousOfType(s, e)
           count == ClosedWindingCount(s, e, previous)
           opposite == ClosedOppositeCount(s, e, previous)
<1>1. previous # NoEdge => previous \in Active(s)
  BY PreviousOfTypeType
<1>2. e \in Edge /\ (previous # NoEdge => previous \in Edge)
  <2> HIDE DEF previous
  <2> QED BY <1>1, ActiveEdge
<1>3. count \in Int
  <2> HIDE DEF previous
  <2> QED BY <1>2, CountsAreIntegers, NextWindingCountType DEF ClosedWindingCount
<1>4. opposite \in Int
  <2> HIDE DEF previous
  <2> QED BY <1>1, ClosedOppositeCountType
<1>5. SetWindCountForClosedPathEdge(s, e) =
        [s EXCEPT !.edge[e].winding_count = count, !.edge[e].wind_cnt2 = opposite]
  BY DEF SetWindCountForClosedPathEdge
<1>6. \A m, n \in Int : StateType([s EXCEPT !.edge[e].winding_count = m, !.edge[e].wind_cnt2 = n])
  BY TwoCountsType
<1> HIDE DEF count, opposite
<1> QED BY <1>3, <1>4, <1>5, <1>6

-----------------------------------------------------------------------------
(* The helpers of the actions keep the state well formed.                  *)

\* Inserting an edge puts it into the list.
LEMMA InsertedEdge ==
  ASSUME NEW s, StateType(s), NEW e \in Edge, NEW i \in 1 .. Count(s) + 1
  PROVE  /\ StateType([s EXCEPT !.actives = InsertAt(@, i, e)])
         /\ e \in Active([s EXCEPT !.actives = InsertAt(@, i, e)])
<1> DEFINE q == InsertAt(s.actives, i, e)
           t == [s EXCEPT !.actives = q]
<1>1. s.actives \in Seq(Edge) /\ i \in 1 .. Len(s.actives) + 1
  BY DEF StateType, Count
<1>2. q \in Seq(Edge)
  BY <1>1, InsertAtType
<1>3. i \in DOMAIN q /\ q[i] = e
  <2> DEFINE a == SubSeq(s.actives, 1, i - 1)
             b == SubSeq(s.actives, i, Len(s.actives))
             c == a \o <<e>>
  <2>1. a \in Seq(Edge) /\ Len(a) = i - 1 /\ b \in Seq(Edge)
    BY <1>1
  <2>2. c \in Seq(Edge) /\ Len(c) = i /\ c[i] = e
    <3> HIDE DEF a
    <3> QED BY <1>1, <2>1
  <2>3. i \in DOMAIN (c \o b) /\ (c \o b)[i] = e
    <3> HIDE DEF b, c
    <3> QED BY <1>1, <2>1, <2>2
  <2>4. q = c \o b
    BY DEF InsertAt
  <2> QED BY <2>3, <2>4
<1>4. StateType(t) /\ t.actives = q
  <2> HIDE DEF q
  <2>1. StateType(t)
    BY <1>2, ActivesType
  <2> QED BY <2>1 DEF StateType
<1>5. [s EXCEPT !.actives = InsertAt(@, i, e)] = t
  OBVIOUS
<1> HIDE DEF q, t
<1> QED BY <1>3, <1>4, <1>5 DEF Active, Range

LEMMA InsertBoundsType ==
  ASSUME NEW s, StateType(s), NEW left \in Active(s), NEW right \in Edge, NEW collinear
  PROVE  StateType(InsertBounds(s, left, right, collinear))
<1> DEFINE s1 == SetWindCountForClosedPathEdge(s, left)
           l == s1.edge[left]
           s2a == [s1 EXCEPT !.edge[right].winding_count = l.winding_count,
                             !.edge[right].wind_cnt2 = l.wind_cnt2]
           s2 == InsertRightEdge(s2a, left, right)
           s3 == AddLocalMinPolygon(s2, left, right, TRUE)
<1>1. left \in Edge
  BY ActiveEdge
<1>2. StateType(s1)
  BY SetWindCountType
<1>3. s1.actives = s.actives
  BY DEF SetWindCountForClosedPathEdge, StateType
<1>4. StateType(s2a)
  <2>1. l.winding_count \in Int /\ l.wind_cnt2 \in Int
    <3> HIDE DEF s1
    <3> QED BY <1>1, <1>2, CountsAreIntegers
  <2>2. \A m, n \in Int :
          StateType([s1 EXCEPT !.edge[right].winding_count = m, !.edge[right].wind_cnt2 = n])
    <3> HIDE DEF s1
    <3> QED BY <1>2, TwoCountsType
  <2> HIDE DEF s1, l
  <2> QED BY <2>1, <2>2
<1>5. s2a.actives = s.actives
  <2> HIDE DEF s1
  <2> QED BY <1>2, <1>3 DEF StateType
<1>6. StateType(s2)
  <2>1. left \in Active(s2a)
    <3> HIDE DEF s2a
    <3> QED BY <1>5 DEF Active
  <2> HIDE DEF s2a
  <2>2. PositionOf(s2a, left) + 1 \in 1 .. Count(s2a) + 1
    <3>1. PositionOf(s2a, left) \in 1 .. Len(s2a.actives)
      BY <1>4, <2>1, ActiveEdge
    <3>2. Len(s2a.actives) \in Nat
      BY <1>4 DEF StateType
    <3> QED BY <3>1, <3>2 DEF Count
  <2> QED BY <1>4, <2>2, InsertedEdge DEF InsertRightEdge
<1>7. StateType(s3)
  <2> HIDE DEF s2
  <2> QED BY <1>1, <1>6, AddLocalMinType DEF MaybeEdge
<1>8. StateType(CheckJoinLeft(s3, left, collinear))
  <2> HIDE DEF s3
  <2> QED BY <1>1, <1>7, CheckJoinType
<1>9. InsertBounds(s, left, right, collinear) \in {s2, CheckJoinLeft(s3, left, collinear)}
  BY DEF InsertBounds
<1> HIDE DEF s2, s3
<1> QED BY <1>6, <1>8, <1>9

LEMMA UpdateEdgeIntoAelType ==
  ASSUME NEW s, StateType(s), NEW e \in Edge, NEW horizontal \in BOOLEAN,
         NEW join_left, NEW join_right
  PROVE  StateType(UpdateEdgeIntoAel(s, e, horizontal, join_left, join_right))
<1> DEFINE s0 == [s EXCEPT !.edge[e].horizontal = horizontal]
           s1 == SplitIfJoined(s0, e)
           s2 == CheckJoinLeft(s1, e, join_left)
<1>1. StateType(s0)
  <2> DEFINE new == [s.edge[e] EXCEPT !.horizontal = horizontal]
  <2>1. new \in EdgeType /\ new.outrec <= Len(s.front)
    <3>1. s.edge[e] \in EdgeType /\ s.edge[e].outrec <= Len(s.front)
      BY DEF StateType
    <3> QED BY <3>1 DEF EdgeType
  <2>2. StateType([s EXCEPT !.edge[e] = new])
    <3> HIDE DEF new
    <3> QED BY <2>1, EdgeUpdateType
  <2>3. s0 = [s EXCEPT !.edge[e] = new]
    OBVIOUS
  <2> HIDE DEF s0, new
  <2> QED BY <2>2, <2>3
<1>2. StateType(s1)
  <2> HIDE DEF s0
  <2> QED BY <1>1, SplitIfJoinedType
<1>3. StateType(s2)
  <2> HIDE DEF s1
  <2> QED BY <1>2, CheckJoinType
<1>4. StateType(CheckJoinRight(s2, e, join_right))
  <2> HIDE DEF s2
  <2> QED BY <1>3, CheckJoinType
<1>5. UpdateEdgeIntoAel(s, e, horizontal, join_left, join_right)
        \in {s1, CheckJoinRight(s2, e, join_right)}
  BY DEF UpdateEdgeIntoAel
<1> HIDE DEF s1, s2
<1> QED BY <1>2, <1>4, <1>5

LEMMA RemovePairType ==
  ASSUME NEW s, StateType(s), NEW d \in Edge, NEW e \in Edge
  PROVE  StateType(RemoveFromAel(RemoveFromAel(s, d), e))
<1> DEFINE t == RemoveFromAel(s, d)
<1>1. StateType(t)
  BY RemoveFromAelType
<1> HIDE DEF t
<1>2. StateType(RemoveFromAel(t, e))
  BY <1>1, RemoveFromAelType
<1> QED BY <1>2 DEF t

LEMMA CrossJoinType ==
  ASSUME NEW s, StateType(s), NEW first \in Edge, NEW second \in Edge, NEW d \in Edge,
         NEW collinear
  PROVE  /\ StateType(CheckJoinLeft(Cross(s, first, second), d, collinear))
         /\ StateType(CheckJoinRight(Cross(s, first, second), d, collinear))
<1> DEFINE t == Cross(s, first, second)
<1>1. StateType(t)
  BY CrossType
<1> HIDE DEF t
<1>2. StateType(CheckJoinLeft(t, d, collinear)) /\ StateType(CheckJoinRight(t, d, collinear))
  BY <1>1, CheckJoinType
<1> QED BY <1>2 DEF t

LEMMA TaskEdges ==
  ASSUME TypeOK
  PROVE  /\ task.kind \in {"bound", "horizontal", "maxima"} => task.edge \in Edge
         /\ task.kind = "maxima" => task.pair \in Edge
         /\ Idle \in TaskType
         /\ \A e \in Edge, k \in {"bound", "horizontal"} :
              [kind |-> k, edge |-> e, pair |-> NoEdge] \in TaskType
         /\ \A d, e \in Edge : [kind |-> "maxima", edge |-> d, pair |-> e] \in TaskType
  BY DEF TypeOK, TaskType, Idle

\* The edge at a position of the list.
LEMMA EdgeAt ==
  ASSUME NEW s, StateType(s)
  PROVE  /\ \A i \in 1 .. Count(s) : At(s, i) \in Edge
         /\ \A i : At(s, i) # NoEdge => At(s, i) \in Edge
         /\ \A e : NextInAel(s, e) # NoEdge => NextInAel(s, e) \in Edge
         /\ \A e : PrevInAel(s, e) # NoEdge => PrevInAel(s, e) \in Edge
         /\ Active(s) \subseteq Edge
<1>1. \A i \in 1 .. Count(s) : At(s, i) \in Edge
  BY DEF StateType, At, Count
<1> QED BY <1>1, AtType, NeighbourType, ActiveEdge DEF MaybeEdge

\* Two fresh bounds enter at an insertion point of the list.
LEMMA FreshBoundsType ==
  ASSUME NEW s, StateType(s), NEW left \in Edge, NEW right \in Edge, NEW collinear,
         NEW after \in 0 .. Count(s), InsertionPoint(s, after) <= Count(s) + 1,
         NEW l \in EdgeType, NEW r \in EdgeType,
         l.outrec = NoRecord, r.outrec = NoRecord,
         l.join_with = "NoJoin", r.join_with = "NoJoin"
  PROVE  LET u == [s EXCEPT !.edge[left] = l, !.edge[right] = r]
         IN  /\ StateType(u)
             /\ InsertionPoint(u, after) \in 1 .. Count(u) + 1
             /\ StateType(InsertMinimum(s, left, right, l, r, after, collinear))
<1> DEFINE s1 == [s EXCEPT !.edge[left] = l]
           s2 == [s1 EXCEPT !.edge[right] = r]
           s3 == InsertLeftEdge(s2, left, after)
<1>1. StateType(s1)
  <2>1. 0 <= Len(s.front)
    BY TableLength
  <2> QED BY <2>1, EdgeUpdateType DEF NoRecord
<1>2. StateType(s2)
  <2> HIDE DEF s1
  <2>1. 0 <= Len(s1.front)
    BY <1>1, TableLength
  <2> QED BY <1>1, <2>1, EdgeUpdateType DEF NoRecord
<1>3. s2.actives = s.actives /\ \A e \in Edge : s2.edge[e].join_with \in {"NoJoin", s.edge[e].join_with}
  BY DEF StateType
<1>4. InsertionPoint(s2, after) \in 1 .. Count(s2) + 1
  <2>1. Count(s2) = Count(s) /\ Count(s) \in Nat /\ At(s2, after) = At(s, after)
    <3> HIDE DEF s2
    <3> QED BY <1>3 DEF Count, At, StateType
  <2>2. after > 0 => At(s, after) \in Edge
    BY <2>1, EdgeAt
  <2>3. InsertionPoint(s2, after) \in {after + 1, InsertionPoint(s, after)}
    <3> HIDE DEF s2
    <3> QED BY <1>3, <2>1, <2>2 DEF InsertionPoint
  <2>4. InsertionPoint(s, after) \in {after + 1, after + 2}
    BY DEF InsertionPoint
  <2> HIDE DEF s2
  <2> QED BY <2>1, <2>3, <2>4
<1>5. StateType(s3) /\ left \in Active(s3)
  <2> HIDE DEF s2
  <2> QED BY <1>2, <1>4, InsertedEdge DEF InsertLeftEdge
<1>6. StateType(InsertBounds(s3, left, right, collinear))
  <2> HIDE DEF s3
  <2> QED BY <1>5, InsertBoundsType
<1>7. InsertMinimum(s, left, right, l, r, after, collinear)
        = InsertBounds(s3, left, right, collinear)
  BY DEF InsertMinimum
<1>8. s2 = [s EXCEPT !.edge[left] = l, !.edge[right] = r]
  OBVIOUS
<1> HIDE DEF s3, s2
<1> QED BY <1>2, <1>4, <1>6, <1>7, <1>8

LEMMA BoundIsEdge ==
  ASSUME NEW p \in {"Subject", "Clip"}, NEW dx \in {-1, 1}, NEW h \in BOOLEAN
  PROVE  /\ Bound(p, dx, h) \in EdgeType /\ Bound(p, -dx, h) \in EdgeType
         /\ Bound(p, dx, h).outrec = NoRecord /\ Bound(p, dx, h).join_with = "NoJoin"
         /\ Bound(p, -dx, h).outrec = NoRecord /\ Bound(p, -dx, h).join_with = "NoJoin"
<1>1. \A d : Bound(p, d, h) =
        [polytype |-> p, wind_dx |-> d, winding_count |-> 0, wind_cnt2 |-> 0,
         outrec |-> NoRecord, join_with |-> "NoJoin", horizontal |-> h]
  BY DEF Bound
<1>2. -dx \in {-1, 1}
  OBVIOUS
<1> QED BY <1>1, <1>2 DEF EdgeType, JoinStates, NoRecord

-----------------------------------------------------------------------------
(* What the operations on the records leave alone: the list itself.        *)

SameList(s, t) == DOMAIN t = DOMAIN s /\ t.actives = s.actives

LEMMA RecordsKeepTheList ==
  ASSUME NEW s, "actives" \in DOMAIN s, NEW d, NEW e, NEW r, NEW x
  PROVE  /\ SameList(s, CreateOutrec(s))
         /\ SameList(s, SetOwner(s, r, x))
         /\ SameList(s, SetSides(s, r, d, e))
         /\ SameList(s, SwapOutrecs(s, d, e))
         /\ SameList(s, UncoupleOutrec(s, r))
         /\ SameList(s, UpdateWindCounts(s, d, e))
<1>1. SameList(s, CreateOutrec(s))
  BY DEF SameList, CreateOutrec
<1>2. SameList(s, SetOwner(s, r, x))
  BY DEF SameList, SetOwner
<1>3. SameList(s, SetSides(s, r, d, e))
  BY DEF SameList, SetSides
<1>4. SameList(s, SwapOutrecs(s, d, e))
  BY DEF SameList, SwapOutrecs
<1>5. SameList(s, UncoupleOutrec(s, r))
  BY DEF SameList, UncoupleOutrec
<1>6. SameList(s, UpdateWindCounts(s, d, e))
  BY DEF SameList, UpdateWindCounts
<1> QED BY <1>1, <1>2, <1>3, <1>4, <1>5, <1>6

LEMMA AddLocalMinKeepsTheList ==
  ASSUME NEW s, "actives" \in DOMAIN s, NEW d, NEW e, NEW is_new
  PROVE  SameList(s, AddLocalMinPolygon(s, d, e, is_new))
<1> DEFINE s1 == CreateOutrec(s)
           record == Len(s.front) + 1
           s2 == [s1 EXCEPT !.edge[d].outrec = record, !.edge[e].outrec = record]
           previous_hot == PreviousHotEdge(s2, d)
           s3 == IF previous_hot # NoEdge /\ UsingPolytree
                 THEN SetOwner(s2, record, s2.edge[previous_hot].outrec) ELSE s2
<1>1. SameList(s, s1)
  BY RecordsKeepTheList
<1>2. SameList(s, s2)
  <2> HIDE DEF s1, record
  <2> QED BY <1>1 DEF SameList
<1>3. SameList(s, s3)
  <2> HIDE DEF s2, record, previous_hot
  <2> QED BY <1>2, RecordsKeepTheList DEF SameList
<1>4. \/ AddLocalMinPolygon(s, d, e, is_new) = SetSides(s3, record, d, e)
      \/ AddLocalMinPolygon(s, d, e, is_new) = SetSides(s3, record, e, d)
  BY DEF AddLocalMinPolygon
<1> HIDE DEF s3, record
<1> QED BY <1>3, <1>4, RecordsKeepTheList DEF SameList

LEMMA SplitKeepsTheList ==
  ASSUME NEW s, "actives" \in DOMAIN s, NEW e
  PROVE  SameList(s, SplitIfJoined(s, e))
<1> DEFINE left  == IF s.edge[e].join_with = "Right" THEN e ELSE PrevInAel(s, e)
           right == IF s.edge[e].join_with = "Right" THEN NextInAel(s, e) ELSE e
           s1 == [s EXCEPT !.edge[left].join_with = "NoJoin", !.edge[right].join_with = "NoJoin"]
<1>1. SameList(s, s1)
  <2> HIDE DEF left, right
  <2> QED BY DEF SameList
<1>2. SplitJoinedEdge(s, e) = AddLocalMinPolygon(s1, left, right, TRUE)
  BY DEF SplitJoinedEdge
<1>3. SameList(s, SplitJoinedEdge(s, e))
  <2> HIDE DEF s1, left, right
  <2>1. "actives" \in DOMAIN s1
    BY <1>1 DEF SameList
  <2>2. SameList(s1, AddLocalMinPolygon(s1, left, right, TRUE))
    BY <2>1, AddLocalMinKeepsTheList
  <2> QED BY <1>1, <1>2, <2>2 DEF SameList
<1> QED BY <1>3 DEF SplitIfJoined, SameList

LEMMA JoinPathsKeepsTheList ==
  ASSUME NEW s, "actives" \in DOMAIN s, NEW d, NEW e
  PROVE  SameList(s, JoinOutrecPaths(s, d, e))
<1> DEFINE r1 == s.edge[d].outrec
           r2 == s.edge[e].outrec
           heir == IF IsFront(s, d) THEN s.front[r2] ELSE s.back[r2]
           s1 == IF IsFront(s, d) THEN [s EXCEPT !.front[r1] = heir] ELSE [s EXCEPT !.back[r1] = heir]
           s2 == InheritSide(s, d, e)
           s3 == EmptyRecord(s2, r2)
           s4 == SetOwner(s3, r2, r1)
<1>1. SameList(s, s1)
  <2> HIDE DEF r1, heir
  <2> QED BY DEF SameList
<1>2. SameList(s, s2)
  <2>1. s2 = IF heir = NoEdge THEN s1 ELSE [s1 EXCEPT !.edge[heir].outrec = r1]
    BY DEF InheritSide
  <2> HIDE DEF s1, s2, heir, r1
  <2> QED BY <1>1, <2>1 DEF SameList
<1>3. SameList(s, s3)
  <2> HIDE DEF s2, r2
  <2> QED BY <1>2 DEF SameList, EmptyRecord
<1>4. SameList(s, s4)
  <2> HIDE DEF s3, r1, r2
  <2> QED BY <1>3, RecordsKeepTheList DEF SameList
<1>5. JoinOutrecPaths(s, d, e) = [s4 EXCEPT !.edge[d].outrec = NoRecord, !.edge[e].outrec = NoRecord]
  BY DEF JoinOutrecPaths
<1> HIDE DEF s4
<1> QED BY <1>4, <1>5 DEF SameList

LEMMA CloseKeepsTheList ==
  ASSUME NEW s, "actives" \in DOMAIN s, NEW e
  PROVE  SameList(s, CloseRecord(s, e))
<1> DEFINE record == s.edge[e].outrec
           previous_hot == PreviousHotEdge(s, e)
           s1 == IF ~UsingPolytree THEN s
                 ELSE IF previous_hot = NoEdge THEN [s EXCEPT !.owner[record] = NoRecord]
                 ELSE SetOwner(s, record, s.edge[previous_hot].outrec)
           s2 == UncoupleOutrec(s1, record)
           owner == s2.owner[record]
<1>1. SameList(s, s1)
  <2> HIDE DEF record, previous_hot
  <2> QED BY RecordsKeepTheList DEF SameList
<1>2. SameList(s, s2)
  <2> HIDE DEF s1, record
  <2> QED BY <1>1, RecordsKeepTheList DEF SameList
<1>3. \/ CloseRecord(s, e) = s2
      \/ CloseRecord(s, e) = [s2 EXCEPT !.owner[record] = GetRealOutrec(s2, owner)]
  BY DEF CloseRecord
<1> HIDE DEF s2, record
<1> QED BY <1>2, <1>3 DEF SameList

LEMMA AddLocalMaxKeepsTheList ==
  ASSUME NEW s, "actives" \in DOMAIN s, NEW d, NEW e
  PROVE  SameList(s, AddLocalMaxPolygon(s, d, e))
<1> DEFINE t1 == SplitIfJoined(s, d)
           t == SplitIfJoined(t1, e)
<1>1. SameList(s, t)
  <2>1. SameList(s, t1)
    BY SplitKeepsTheList
  <2> HIDE DEF t1
  <2>2. SameList(t1, t)
    BY <2>1, SplitKeepsTheList DEF SameList
  <2> QED BY <2>1, <2>2 DEF SameList
<1>2. AddLocalMaxPolygon(s, d, e) \in {[t EXCEPT !.succeeded = FALSE], CloseRecord(t, d),
                                      JoinOutrecPaths(t, d, e), JoinOutrecPaths(t, e, d)}
  BY DEF AddLocalMaxPolygon
<1> HIDE DEF t
<1>3. "actives" \in DOMAIN t
  BY <1>1 DEF SameList
<1>4. SameList(t, [t EXCEPT !.succeeded = FALSE])
  BY <1>3 DEF SameList
<1>5. SameList(t, CloseRecord(t, d)) /\ SameList(t, JoinOutrecPaths(t, d, e))
        /\ SameList(t, JoinOutrecPaths(t, e, d))
  BY <1>3, CloseKeepsTheList, JoinPathsKeepsTheList
<1>6. SameList(t, AddLocalMaxPolygon(s, d, e))
  BY <1>2, <1>4, <1>5
<1> QED BY <1>1, <1>6 DEF SameList

LEMMA CheckJoinKeepsTheList ==
  ASSUME NEW s, "actives" \in DOMAIN s, NEW e, NEW collinear
  PROVE  /\ SameList(s, CheckJoinLeft(s, e, collinear))
         /\ SameList(s, CheckJoinRight(s, e, collinear))
<1>1. \A left, right : SameList(s, JoinEdges(s, left, right))
  <2> TAKE left, right
  <2> DEFINE s1 == IF s.edge[left].outrec = s.edge[right].outrec
                   THEN AddLocalMaxPolygon(s, left, right)
                   ELSE IF s.edge[left].outrec < s.edge[right].outrec
                   THEN JoinOutrecPaths(s, left, right) ELSE JoinOutrecPaths(s, right, left)
  <2>1. SameList(s, s1)
    BY AddLocalMaxKeepsTheList, JoinPathsKeepsTheList
  <2>2. JoinEdges(s, left, right) =
          [s1 EXCEPT !.edge[left].join_with = "Right", !.edge[right].join_with = "Left"]
    BY DEF JoinEdges
  <2> HIDE DEF s1
  <2> QED BY <2>1, <2>2 DEF SameList
<1>2. SameList(s, s)
  BY DEF SameList
<1> QED BY <1>1, <1>2 DEF CheckJoinLeft, CheckJoinRight

LEMMA CrossOutputKeepsTheList ==
  ASSUME NEW s, "actives" \in DOMAIN s, NEW d, NEW e
  PROVE  SameList(s, CrossOutput(s, d, e))
<1> DEFINE t == AddLocalMaxPolygon(s, d, e)
           u == AddLocalMinPolygon(t, d, e, FALSE)
           v == SwapOutrecs(s, d, e)
           w == AddLocalMinPolygon(s, d, e, FALSE)
<1>1. SameList(s, t) /\ SameList(s, v) /\ SameList(s, w) /\ SameList(s, s)
  <2>1. SameList(s, w)
    BY AddLocalMinKeepsTheList
  <2>2. SameList(s, t) /\ SameList(s, v)
    BY AddLocalMaxKeepsTheList, RecordsKeepTheList
  <2>3. SameList(s, s)
    BY DEF SameList
  <2> QED BY <2>1, <2>2, <2>3
<1>2. SameList(s, u)
  <2>1. "actives" \in DOMAIN t
    BY <1>1 DEF SameList
  <2> HIDE DEF t
  <2>2. SameList(t, u)
    BY <2>1, AddLocalMinKeepsTheList
  <2> QED BY <1>1, <2>2 DEF SameList
<1>3. CrossOutput(s, d, e) \in {s, t, u, v, w}
  BY DEF CrossOutput
<1> HIDE DEF t, u, v, w
<1> QED BY <1>1, <1>2, <1>3

\* A crossing changes the list by exchanging the two edges, and nothing else.
LEMMA CrossSwaps ==
  ASSUME NEW s, "actives" \in DOMAIN s, NEW d, NEW e
  PROVE  SameList(SwapPositions(s, d, e), Cross(s, d, e))
<1> DEFINE t1 == SplitIfJoined(s, d)
           t2 == SplitIfJoined(t1, e)
           t3 == UpdateWindCounts(t2, d, e)
           t4 == CrossOutput(t3, d, e)
<1>1. SameList(s, t1) /\ "actives" \in DOMAIN t1
  BY SplitKeepsTheList DEF SameList
<1>2. SameList(s, t2) /\ "actives" \in DOMAIN t2
  <2> HIDE DEF t1
  <2> QED BY <1>1, SplitKeepsTheList DEF SameList
<1>3. SameList(s, t3) /\ "actives" \in DOMAIN t3
  <2> HIDE DEF t2
  <2> QED BY <1>2, RecordsKeepTheList DEF SameList
<1>4. SameList(s, t4)
  <2> HIDE DEF t3
  <2> QED BY <1>3, CrossOutputKeepsTheList DEF SameList
<1>5. Cross(s, d, e) = SwapPositions(t4, d, e)
  BY DEF Cross, IntersectEdges
<1> HIDE DEF t4
<1>6. PositionOf(t4, d) = PositionOf(s, d) /\ PositionOf(t4, e) = PositionOf(s, e)
  <2>1. t4.actives = s.actives
    BY <1>4 DEF SameList
  <2> QED BY ONLY <2>1, Zenon DEF PositionOf
<1> DEFINE swap(q, i, j) == [q EXCEPT ![i] = e, ![j] = d]
<1>7. \A x : SwapPositions(x, d, e)
               = [x EXCEPT !.actives = swap(x.actives, PositionOf(x, d), PositionOf(x, e))]
  BY DEF SwapPositions
<1>8. swap(t4.actives, PositionOf(t4, d), PositionOf(t4, e))
        = swap(s.actives, PositionOf(s, d), PositionOf(s, e))
  BY <1>4, <1>6 DEF SameList
<1> HIDE DEF swap
<1> QED BY <1>4, <1>5, <1>7, <1>8 DEF SameList

-----------------------------------------------------------------------------
(* What the operations on the list do to it.                               *)

LEMMA PositionIsUnique ==
  ASSUME NEW s, IsInjective(s.actives), NEW i \in DOMAIN s.actives
  PROVE  PositionOf(s, s.actives[i]) = i
<1>1. \E j \in DOMAIN s.actives : s.actives[j] = s.actives[i]
  OBVIOUS
<1>2. /\ PositionOf(s, s.actives[i]) \in DOMAIN s.actives
      /\ s.actives[PositionOf(s, s.actives[i])] = s.actives[i]
  BY <1>1 DEF PositionOf
<1> QED BY <1>2 DEF IsInjective

\* Exchanging two positions of the list.
LEMMA SwapIntact ==
  ASSUME NEW s, StateType(s), IsInjective(s.actives),
         NEW i \in DOMAIN s.actives, NEW j \in DOMAIN s.actives, i # j
  PROVE  LET t == SwapPositions(s, s.actives[i], s.actives[j])
         IN  /\ t.actives = [s.actives EXCEPT ![i] = s.actives[j], ![j] = s.actives[i]]
             /\ IsInjective(t.actives)
             /\ Active(t) = Active(s)
<1> DEFINE q == [s.actives EXCEPT ![i] = s.actives[j], ![j] = s.actives[i]]
<1>1. SwapPositions(s, s.actives[i], s.actives[j]) = [s EXCEPT !.actives = q]
  BY PositionIsUnique DEF SwapPositions
<1>2. [s EXCEPT !.actives = q].actives = q
  BY DEF StateType
<1>3. IsInjective(q)
  BY DEF IsInjective
<1>4. Range(q) = Range(s.actives)
  <2>1. DOMAIN q = DOMAIN s.actives
    OBVIOUS
  <2>2. \A k \in DOMAIN q : q[k] \in Range(s.actives)
    BY DEF Range
  <2>3. \A k \in DOMAIN q : s.actives[k] \in Range(q)
    <3> TAKE k \in DOMAIN q
    <3>1. q[i] = s.actives[j] /\ q[j] = s.actives[i] /\ (k \notin {i, j} => q[k] = s.actives[k])
      OBVIOUS
    <3> HIDE DEF q
    <3> QED BY <2>1, <3>1 DEF Range
  <2> HIDE DEF q
  <2> QED BY <2>1, <2>2, <2>3 DEF Range
<1> HIDE DEF q
<1> QED BY <1>1, <1>2, <1>3, <1>4 DEF Active, q

\* What InsertAt and RemoveAt leave at every position.
LEMMA InsertAtShape ==
  ASSUME NEW q \in Seq(Edge), NEW i \in 1 .. Len(q) + 1, NEW e \in Edge
  PROVE  LET t == InsertAt(q, i, e)
         IN  /\ t \in Seq(Edge) /\ Len(t) = Len(q) + 1 /\ t[i] = e
             /\ \A k \in 1 .. i - 1 : t[k] = q[k]
             /\ \A k \in i + 1 .. Len(q) + 1 : t[k] = q[k - 1]
<1> DEFINE a == SubSeq(q, 1, i - 1)
           b == SubSeq(q, i, Len(q))
           c == a \o <<e>>
           t == c \o b
<1>1. /\ a \in Seq(Edge) /\ Len(a) = i - 1 /\ \A k \in 1 .. i - 1 : a[k] = q[k]
      /\ b \in Seq(Edge) /\ Len(b) = Len(q) + 1 - i
      /\ \A k \in 1 .. Len(q) + 1 - i : b[k] = q[k + i - 1]
  OBVIOUS
<1>2. /\ c \in Seq(Edge) /\ Len(c) = i /\ c[i] = e
      /\ \A k \in 1 .. i - 1 : c[k] = q[k]
  <2> HIDE DEF a
  <2> QED BY <1>1, SMTT(30)
<1>3. /\ t \in Seq(Edge) /\ Len(t) = Len(q) + 1 /\ t[i] = e
      /\ \A k \in 1 .. i - 1 : t[k] = q[k]
      /\ \A k \in i + 1 .. Len(q) + 1 : t[k] = q[k - 1]
  <2> HIDE DEF b, c
  <2>1. /\ t \in Seq(Edge) /\ Len(t) = Len(c) + Len(b)
        /\ \A k \in 1 .. Len(c) + Len(b) : t[k] = IF k <= Len(c) THEN c[k] ELSE b[k - Len(c)]
    <3>1. \A u, v \in Seq(Edge) :
            /\ u \o v \in Seq(Edge) /\ Len(u \o v) = Len(u) + Len(v)
            /\ \A k \in 1 .. Len(u) + Len(v) :
                 (u \o v)[k] = IF k <= Len(u) THEN u[k] ELSE v[k - Len(u)]
      BY ConcatProperties
    <3> QED BY <1>1, <1>2, <3>1
  <2> HIDE DEF t
  <2>2. Len(q) \in Nat /\ Len(t) = Len(q) + 1
    BY <1>1, <1>2, <2>1
  <2>3. \A k \in 1 .. i : t[k] = c[k]
    BY <1>1, <1>2, <2>1, <2>2
  <2>4. ASSUME NEW k \in i + 1 .. Len(q) + 1 PROVE t[k] = q[k - 1]
    <3>1. k - i \in 1 .. Len(q) + 1 - i /\ (k - i) + i - 1 = k - 1
      BY <2>2
    <3>2. t[k] = b[k - i]
      BY <1>1, <1>2, <2>1, <2>2
    <3>3. b[k - i] = q[(k - i) + i - 1]
      BY <1>1, <3>1
    <3> QED BY <3>1, <3>2, <3>3
  <2> QED BY <1>2, <2>1, <2>2, <2>3, <2>4
<1>4. InsertAt(q, i, e) = t
  BY DEF InsertAt
<1> HIDE DEF t
<1> QED BY <1>3, <1>4

LEMMA RemoveAtShape ==
  ASSUME NEW q \in Seq(Edge), NEW i \in 1 .. Len(q)
  PROVE  LET t == RemoveAt(q, i)
         IN  /\ Len(t) = Len(q) - 1 /\ t \in Seq(Edge)
             /\ \A k \in 1 .. i - 1 : t[k] = q[k]
             /\ \A k \in i .. Len(q) - 1 : t[k] = q[k + 1]
<1> DEFINE a == SubSeq(q, 1, i - 1)
           b == SubSeq(q, i + 1, Len(q))
           t == a \o b
<1>1. /\ a \in Seq(Edge) /\ Len(a) = i - 1 /\ \A k \in 1 .. i - 1 : a[k] = q[k]
      /\ b \in Seq(Edge) /\ Len(b) = Len(q) - i
      /\ \A k \in 1 .. Len(q) - i : b[k] = q[k + i]
  OBVIOUS
<1>2. /\ Len(t) = Len(q) - 1 /\ t \in Seq(Edge)
      /\ \A k \in 1 .. i - 1 : t[k] = q[k]
      /\ \A k \in i .. Len(q) - 1 : t[k] = q[k + 1]
  <2> HIDE DEF a, b
  <2>1. /\ t \in Seq(Edge) /\ Len(t) = Len(a) + Len(b)
        /\ \A k \in 1 .. Len(a) + Len(b) : t[k] = IF k <= Len(a) THEN a[k] ELSE b[k - Len(a)]
    BY <1>1, ConcatProperties
  <2> HIDE DEF t
  <2>2. Len(q) \in Nat /\ Len(t) = Len(q) - 1
    BY <1>1, <2>1
  <2>3. ASSUME NEW k \in 1 .. i - 1 PROVE t[k] = q[k]
    <3>1. k \in 1 .. Len(a) + Len(b) /\ k <= Len(a)
      BY <1>1, <2>2
    <3>2. t[k] = a[k]
      BY <2>1, <3>1
    <3> QED BY <1>1, <3>2
  <2>4. ASSUME NEW k \in i .. Len(q) - 1 PROVE t[k] = q[k + 1]
    <3>1. k - (i - 1) \in 1 .. Len(q) - i /\ k - (i - 1) + i = k + 1
      BY <2>2
    <3>2. t[k] = b[k - (i - 1)]
      BY <1>1, <2>1, <2>2, SMTT(30)
    <3>3. b[k - (i - 1)] = q[k - (i - 1) + i]
      BY <1>1, <3>1
    <3> QED BY <3>1, <3>2, <3>3
  <2> QED BY <2>1, <2>2, <2>3, <2>4
<1>3. RemoveAt(q, i) = t
  BY DEF RemoveAt
<1> HIDE DEF t
<1> QED BY <1>2, <1>3

LEMMA InsertIntact ==
  ASSUME NEW q \in Seq(Edge), IsInjective(q), NEW i \in 1 .. Len(q) + 1,
         NEW e \in Edge, e \notin Range(q)
  PROVE  IsInjective(InsertAt(q, i, e)) /\ Range(InsertAt(q, i, e)) = Range(q) \cup {e}
<1> DEFINE t == InsertAt(q, i, e)
<1>3. /\ t \in Seq(Edge) /\ Len(t) = Len(q) + 1 /\ t[i] = e
      /\ \A k \in 1 .. i - 1 : t[k] = q[k]
      /\ \A k \in i + 1 .. Len(q) + 1 : t[k] = q[k - 1]
  BY InsertAtShape
<1> HIDE DEF t
<1>5. DOMAIN t = 1 .. Len(q) + 1 /\ DOMAIN q = 1 .. Len(q) /\ Len(q) \in Nat
  BY <1>3
<1>6. ASSUME NEW k \in DOMAIN t, k # i PROVE t[k] \in Range(q)
  <2>1. CASE k < i
    BY <1>3, <1>5, <2>1 DEF Range
  <2>2. CASE i < k
    <3>1. k - 1 \in DOMAIN q /\ t[k] = q[k - 1]
      BY <1>3, <1>5, <2>2
    <3> QED BY <3>1 DEF Range
  <2> QED BY <1>5, <1>6, <2>1, <2>2
<1>7. IsInjective(t)
  <2> SUFFICES ASSUME NEW k \in DOMAIN t, NEW l \in DOMAIN t, t[k] = t[l], k < l
               PROVE  FALSE
    BY <1>5 DEF IsInjective
  <2>1. CASE k = i \/ l = i
    <3>1. t[k] \in Range(q) \/ t[l] \in Range(q)
      BY <1>6, <2>1
    <3>2. t[k] = e
      BY <1>3, <2>1
    <3> QED BY <3>1, <3>2
  <2>2. CASE k # i /\ l # i
    <3>1. PICK m \in 1 .. Len(q), n \in 1 .. Len(q) : m # n /\ t[k] = q[m] /\ t[l] = q[n]
      <4>0. k \in 1 .. Len(q) + 1 /\ l \in 1 .. Len(q) + 1
        BY <1>5
      <4>1. CASE l < i
        <5>1. k \in 1 .. Len(q) /\ l \in 1 .. Len(q) /\ k # l
          BY <1>5, <4>0, <4>1
        <5>2. t[k] = q[k] /\ t[l] = q[l]
          BY <1>3, <4>0, <4>1
        <5> QED BY <5>1, <5>2
      <4>2. CASE k < i /\ i < l
        <5>1. k \in 1 .. Len(q) /\ l - 1 \in 1 .. Len(q) /\ k # l - 1
          BY <1>5, <4>0, <4>2
        <5>2. t[k] = q[k] /\ t[l] = q[l - 1]
          BY <1>3, <4>0, <4>2
        <5> QED BY <5>1, <5>2
      <4>3. CASE i < k
        <5>1. k - 1 \in 1 .. Len(q) /\ l - 1 \in 1 .. Len(q) /\ k - 1 # l - 1
          BY <1>5, <4>0, <4>3
        <5>2. t[k] = q[k - 1] /\ t[l] = q[l - 1]
          BY <1>3, <4>0, <4>3
        <5> QED BY <5>1, <5>2
      <4> QED BY <2>2, <4>0, <4>1, <4>2, <4>3
    <3> QED BY <1>5, <3>1 DEF IsInjective
  <2> QED BY <2>1, <2>2
<1>8. Range(t) = Range(q) \cup {e}
  <2>1. \A m \in 1 .. Len(q) : q[m] \in Range(t)
    <3> TAKE m \in 1 .. Len(q)
    <3>1. CASE m < i
      BY <1>3, <1>5, <3>1 DEF Range
    <3>2. CASE i <= m
      <4>1. m + 1 \in i + 1 .. Len(q) + 1 /\ m + 1 \in DOMAIN t /\ (m + 1) - 1 = m
        BY <1>5, <3>2
      <4>2. t[m + 1] = q[m]
        BY <1>3, <4>1
      <4> QED BY <4>1, <4>2 DEF Range
    <3> QED BY <1>5, <3>1, <3>2
  <2>2. e \in Range(t)
    BY <1>3, <1>5 DEF Range
  <2>3. \A x \in Range(t) : x \in Range(q) \cup {e}
    BY <1>3, <1>6 DEF Range
  <2>4. \A x \in Range(q) : x \in Range(t)
    BY <1>5, <2>1 DEF Range
  <2> QED BY <2>2, <2>3, <2>4
<1> QED BY <1>7, <1>8 DEF t

LEMMA RemoveIntact ==
  ASSUME NEW q \in Seq(Edge), IsInjective(q), NEW i \in 1 .. Len(q)
  PROVE  IsInjective(RemoveAt(q, i))
<1> DEFINE t == RemoveAt(q, i)
<1>2. /\ Len(t) = Len(q) - 1 /\ t \in Seq(Edge)
      /\ \A k \in 1 .. i - 1 : t[k] = q[k]
      /\ \A k \in i .. Len(q) - 1 : t[k] = q[k + 1]
  BY RemoveAtShape
<1> HIDE DEF t
<1>4. DOMAIN t = 1 .. Len(q) - 1 /\ DOMAIN q = 1 .. Len(q) /\ Len(q) \in Nat
  BY <1>2
<1>5. \A k \in DOMAIN t, l \in DOMAIN t : k < l =>
        \E m \in DOMAIN q, n \in DOMAIN q : m # n /\ t[k] = q[m] /\ t[l] = q[n]
  <2> TAKE k \in DOMAIN t, l \in DOMAIN t
  <2> HAVE k < l
  <2>1. CASE l < i
    BY <1>2, <1>4, <2>1
  <2>2. CASE k < i /\ i <= l
    <3>1. k \in DOMAIN q /\ l + 1 \in DOMAIN q /\ k # l + 1 /\ t[k] = q[k] /\ t[l] = q[l + 1]
      BY <1>2, <1>4, <2>2
    <3> QED BY <3>1
  <2>3. CASE i <= k
    <3>1. /\ k + 1 \in DOMAIN q /\ l + 1 \in DOMAIN q /\ k + 1 # l + 1
          /\ t[k] = q[k + 1] /\ t[l] = q[l + 1]
      BY <1>2, <1>4, <2>3
    <3> QED BY <3>1
  <2> QED BY <1>4, <2>1, <2>2, <2>3
<1>6. IsInjective(t)
  BY <1>4, <1>5 DEF IsInjective
<1> QED BY <1>6 DEF t

\* A crossing of the neighbours at positions i and i + 1.
LEMMA CrossIntact ==
  ASSUME NEW s, StateType(s), IsInjective(s.actives),
         NEW i \in DOMAIN s.actives, i + 1 \in DOMAIN s.actives
  PROVE  LET t == Cross(s, s.actives[i], s.actives[i + 1])
         IN  /\ StateType(t)
             /\ t.actives = [s.actives EXCEPT ![i] = s.actives[i + 1], ![i + 1] = s.actives[i]]
             /\ IsInjective(t.actives)
             /\ Active(t) = Active(s)
<1> DEFINE d == s.actives[i]
           e == s.actives[i + 1]
           j == i + 1
           q == [s.actives EXCEPT ![i] = e, ![j] = d]
           u == SwapPositions(s, d, e)
           t == Cross(s, d, e)
<1>1. d \in Edge /\ e \in Edge /\ i # j /\ "actives" \in DOMAIN s
  BY DEF StateType
<1>2. StateType(t) /\ SameList(u, t)
  <2> HIDE DEF d, e
  <2> QED BY <1>1, CrossType, CrossSwaps
<1>3. u.actives = q /\ IsInjective(u.actives) /\ Active(u) = Active(s)
  <2> HIDE DEF j
  <2>1. j \in DOMAIN s.actives /\ e = s.actives[j]
    BY DEF j
  <2> QED BY <1>1, <2>1, SwapIntact
<1> HIDE DEF u, t, q
<1>4. t.actives = q /\ IsInjective(t.actives) /\ Active(t) = Active(s)
  BY <1>2, <1>3 DEF SameList, Active
<1> QED BY <1>2, <1>4 DEF t, q, u

\* Removing an edge keeps every other edge linked once.
LEMMA RemovePairIntact ==
  ASSUME NEW s, StateType(s), IsInjective(s.actives), NEW d \in Edge, NEW e \in Edge
  PROVE  IsInjective(RemoveFromAel(RemoveFromAel(s, d), e).actives)
<1>1. ASSUME NEW u, StateType(u), IsInjective(u.actives), NEW f \in Edge
      PROVE  IsInjective(RemoveFromAel(u, f).actives)
  <2>1. CASE f \in Active(u)
    <3>1. PositionOf(u, f) \in 1 .. Len(u.actives) /\ u.actives \in Seq(Edge)
      BY <1>1, <2>1, ActiveEdge DEF StateType
    <3>2. RemoveFromAel(u, f).actives = RemoveAt(u.actives, PositionOf(u, f))
      BY <1>1, <2>1 DEF RemoveFromAel, StateType
    <3> QED BY <1>1, <3>1, <3>2, RemoveIntact
  <2>2. CASE f \notin Active(u)
    BY <1>1, <2>2 DEF RemoveFromAel
  <2> QED BY <2>1, <2>2
<1>2. StateType(RemoveFromAel(s, d)) /\ IsInjective(RemoveFromAel(s, d).actives)
  BY <1>1, RemoveFromAelType
<1> QED BY <1>1, <1>2

-----------------------------------------------------------------------------
(* The inductive invariant and its preservation, action by action.         *)

Intact(s, t) ==
  /\ IsInjective(s.actives)
  /\ t.kind # "idle" => t.edge \in Active(s)
  /\ t.kind = "maxima" =>
       \E i, j \in DOMAIN s.actives : i < j /\ s.actives[i] = t.edge /\ s.actives[j] = t.pair

IInv == TypeOK /\ AelIntact

LEMMA IntactIsAelIntact == AelIntact <=> Intact(state, task)
  BY DEF AelIntact, Intact

LEMMA SameListIntact ==
  ASSUME NEW s, NEW u, NEW t, SameList(s, u), Intact(s, t)
  PROVE  Intact(u, t)
  BY DEF SameList, Intact, Active

LEMMA IdleIntact ==
  ASSUME NEW s, IsInjective(s.actives)
  PROVE  Intact(s, Idle)
  BY DEF Intact, Idle

\* A step whose new state and new task are well formed keeps the invariant.
LEMMA StepKeeps ==
  ASSUME IInv, NEW s, NEW t, Step(s, t), StateType(s), t \in TaskType, Intact(s, t)
  PROVE  IInv'
<1>1. state' = s /\ task' = t /\ phase' = phase
  BY DEF Step
<1>2. TypeOK'
  BY <1>1 DEF IInv, TypeOK, StateType
<1>3. AelIntact'
  BY <1>1 DEF AelIntact, Intact, Active
<1> QED BY <1>2, <1>3 DEF IInv

\* Inserting one edge that is not in the list.
LEMMA InsertOneIntact ==
  ASSUME NEW s, StateType(s), IsInjective(s.actives), NEW i \in 1 .. Count(s) + 1,
         NEW e \in Edge, e \notin Active(s)
  PROVE  LET t == [s EXCEPT !.actives = InsertAt(@, i, e)]
         IN  StateType(t) /\ IsInjective(t.actives) /\ Active(t) = Active(s) \cup {e}
<1> DEFINE q == InsertAt(s.actives, i, e)
<1>1. s.actives \in Seq(Edge) /\ i \in 1 .. Len(s.actives) + 1 /\ e \notin Range(s.actives)
  BY DEF StateType, Count, Active
<1>2. IsInjective(q) /\ Range(q) = Range(s.actives) \cup {e}
  BY <1>1, InsertIntact
<1>3. StateType([s EXCEPT !.actives = InsertAt(@, i, e)])
  BY InsertedEdge
<1>4. [s EXCEPT !.actives = InsertAt(@, i, e)].actives = q
  BY DEF StateType
<1> HIDE DEF q
<1> QED BY <1>2, <1>3, <1>4 DEF Active

LEMMA InsertBoundsIntact ==
  ASSUME NEW s, StateType(s), IsInjective(s.actives), NEW left \in Active(s),
         NEW right \in Edge, right \notin Active(s), NEW collinear
  PROVE  LET t == InsertBounds(s, left, right, collinear)
         IN  IsInjective(t.actives) /\ right \in Active(t)
<1> DEFINE s1 == SetWindCountForClosedPathEdge(s, left)
           l == s1.edge[left]
           s2a == [s1 EXCEPT !.edge[right].winding_count = l.winding_count,
                             !.edge[right].wind_cnt2 = l.wind_cnt2]
           s2 == InsertRightEdge(s2a, left, right)
           s3 == AddLocalMinPolygon(s2, left, right, TRUE)
           s4 == CheckJoinLeft(s3, left, collinear)
<1>1. StateType(s1) /\ s1.actives = s.actives
  BY SetWindCountType DEF SetWindCountForClosedPathEdge, StateType
<1>2. StateType(s2a) /\ s2a.actives = s.actives
  <2>1. left \in Edge
    BY ActiveEdge
  <2>2. l.winding_count \in Int /\ l.wind_cnt2 \in Int
    <3> HIDE DEF s1
    <3> QED BY <1>1, <2>1, CountsAreIntegers
  <2>3. \A m, n \in Int :
          StateType([s1 EXCEPT !.edge[right].winding_count = m, !.edge[right].wind_cnt2 = n])
    <3> HIDE DEF s1
    <3> QED BY <1>1, TwoCountsType
  <2> HIDE DEF s1, l
  <2>4. s2a.actives = s.actives
    BY <1>1 DEF StateType
  <2> QED BY <2>2, <2>3, <2>4
<1>3. IsInjective(s2.actives) /\ right \in Active(s2) /\ StateType(s2)
  <2> HIDE DEF s2a
  <2>1. /\ IsInjective(s2a.actives) /\ left \in Active(s2a) /\ right \notin Active(s2a)
    BY <1>2 DEF Active
  <2>2. PositionOf(s2a, left) \in 1 .. Len(s2a.actives)
    BY <1>2, <2>1, ActiveEdge
  <2>3. Len(s2a.actives) \in Nat
    BY <1>2 DEF StateType
  <2>4. PositionOf(s2a, left) + 1 \in 1 .. Count(s2a) + 1
    BY <2>2, <2>3 DEF Count
  <2> QED BY <1>2, <2>1, <2>4, InsertOneIntact DEF InsertRightEdge
<1>4. SameList(s2, s3)
  <2> HIDE DEF s2
  <2>1. "actives" \in DOMAIN s2
    BY <1>3 DEF StateType
  <2> QED BY <2>1, AddLocalMinKeepsTheList
<1>5. SameList(s2, s4)
  <2>1. "actives" \in DOMAIN s3
    <3> HIDE DEF s2, s3
    <3> QED BY <1>3, <1>4 DEF StateType, SameList
  <2> HIDE DEF s3
  <2>2. SameList(s3, s4)
    BY <2>1, CheckJoinKeepsTheList
  <2> HIDE DEF s2, s4
  <2> QED BY <1>4, <2>2 DEF SameList
<1>6. InsertBounds(s, left, right, collinear) \in {s2, s4}
  BY DEF InsertBounds
<1> HIDE DEF s2, s4
<1> QED BY <1>3, <1>5, <1>6 DEF SameList, Active

LEMMA InsertMinimumIntact ==
  ASSUME NEW s, StateType(s), IsInjective(s.actives),
         NEW left \in Edge, NEW right \in Edge, left # right,
         left \notin Active(s), right \notin Active(s), NEW collinear,
         NEW after \in 0 .. Count(s), InsertionPoint(s, after) <= Count(s) + 1,
         NEW l \in EdgeType, NEW r \in EdgeType,
         l.outrec = NoRecord, r.outrec = NoRecord,
         l.join_with = "NoJoin", r.join_with = "NoJoin"
  PROVE  LET t == InsertMinimum(s, left, right, l, r, after, collinear)
         IN  StateType(t) /\ IsInjective(t.actives) /\ right \in Active(t)
<1> DEFINE s2 == [s EXCEPT !.edge[left] = l, !.edge[right] = r]
           s3 == InsertLeftEdge(s2, left, after)
           t == InsertMinimum(s, left, right, l, r, after, collinear)
<1>1. StateType(s2) /\ InsertionPoint(s2, after) \in 1 .. Count(s2) + 1 /\ StateType(t)
  BY FreshBoundsType
<1>2. s2.actives = s.actives
  BY DEF StateType
<1>3. /\ StateType(s3) /\ IsInjective(s3.actives)
      /\ left \in Active(s3) /\ right \notin Active(s3)
  <2> HIDE DEF s2
  <2>1. IsInjective(s2.actives) /\ Active(s2) = Active(s)
    BY <1>2 DEF Active
  <2> QED BY <1>1, <2>1, InsertOneIntact DEF InsertLeftEdge
<1>4. LET u == InsertBounds(s3, left, right, collinear)
      IN  IsInjective(u.actives) /\ right \in Active(u)
  <2> HIDE DEF s3
  <2> QED BY <1>3, InsertBoundsIntact
<1>5. t = InsertBounds(s3, left, right, collinear)
  BY DEF InsertMinimum
<1> HIDE DEF s3, t
<1> QED BY <1>1, <1>4, <1>5 DEF t

\* What every case below starts from.
LEMMA InvFacts ==
  ASSUME IInv
  PROVE  /\ StateType(state) /\ task \in TaskType
         /\ IsInjective(state.actives) /\ Intact(state, task)
         /\ "actives" \in DOMAIN state /\ Count(state) \in Nat
         /\ DOMAIN state.actives = 1 .. Count(state)
         /\ \A i \in 1 .. Count(state) : At(state, i) = state.actives[i]
  BY DEF IInv, TypeOK, AelIntact, Intact, StateType, Count, At

LEMMA InsertKeeps ==
  ASSUME IInv, InsertLocalMinimum
  PROVE  IInv'
<1>1. PICK left, right \in Edge \ Active(state), polytype \in PathTypes, wind_dx \in {-1, 1},
           after \in 0 .. Count(state), left_horizontal, right_horizontal \in HorizontalChoice,
           collinear \in JoinChoice :
           /\ left # right
           /\ InsertionPoint(state, after) <= Count(state) + 1
           /\ Step(InsertMinimum(state, left, right, Bound(polytype, wind_dx, left_horizontal),
                                 Bound(polytype, -wind_dx, right_horizontal), after, collinear),
                   [kind |-> "bound", edge |-> right, pair |-> NoEdge])
  BY DEF InsertLocalMinimum
<1> DEFINE l == Bound(polytype, wind_dx, left_horizontal)
           r == Bound(polytype, -wind_dx, right_horizontal)
           s == InsertMinimum(state, left, right, l, r, after, collinear)
           t == [kind |-> "bound", edge |-> right, pair |-> NoEdge]
<1>2. /\ l \in EdgeType /\ l.outrec = NoRecord /\ l.join_with = "NoJoin"
      /\ r \in EdgeType /\ r.outrec = NoRecord /\ r.join_with = "NoJoin"
  BY BoundIsEdge, ActiveEdgesAssumption
<1>3. StateType(s) /\ IsInjective(s.actives) /\ right \in Active(s)
  <2> HIDE DEF l, r
  <2> QED BY <1>1, <1>2, InvFacts, InsertMinimumIntact
<1>4. Step(s, t)
  BY <1>1
<1>5. t \in TaskType
  BY DEF TaskType
<1> HIDE DEF s
<1>6. Intact(s, t)
  BY <1>3 DEF Intact
<1> HIDE DEF t
<1> QED BY <1>3, <1>4, <1>5, <1>6, StepKeeps

\* A step that exchanges neighbours and then only rewrites records.
LEMMA CrossedIntact ==
  ASSUME NEW s, StateType(s), IsInjective(s.actives),
         NEW i \in 1 .. Count(s) - 1, NEW u,
         SameList(Cross(s, s.actives[i], s.actives[i + 1]), u)
  PROVE  /\ IsInjective(u.actives) /\ Active(u) = Active(s)
         /\ u.actives = [s.actives EXCEPT ![i] = s.actives[i + 1], ![i + 1] = s.actives[i]]
<1>1. i \in DOMAIN s.actives /\ i + 1 \in DOMAIN s.actives
  BY DEF StateType, Count
<1> DEFINE t == Cross(s, s.actives[i], s.actives[i + 1])
<1>2. /\ t.actives = [s.actives EXCEPT ![i] = s.actives[i + 1], ![i + 1] = s.actives[i]]
      /\ IsInjective(t.actives) /\ Active(t) = Active(s)
  BY <1>1, CrossIntact
<1> HIDE DEF t
<1> QED BY <1>2 DEF SameList, Active, t

\* The neighbours of an edge of the list sit at the positions next to its own.
LEMMA NeighbourPosition ==
  ASSUME NEW s, StateType(s), IsInjective(s.actives), NEW e \in Active(s)
  PROVE  /\ NextInAel(s, e) # NoEdge =>
              \E i \in 1 .. Count(s) - 1 :
                e = s.actives[i] /\ NextInAel(s, e) = s.actives[i + 1]
         /\ PrevInAel(s, e) # NoEdge =>
              \E i \in 1 .. Count(s) - 1 :
                PrevInAel(s, e) = s.actives[i] /\ e = s.actives[i + 1]
<1> DEFINE p == PositionOf(s, e)
<1>1. p \in 1 .. Count(s) /\ e = s.actives[p] /\ Count(s) \in Nat
  <2>1. PICK j \in DOMAIN s.actives : s.actives[j] = e
    BY DEF Active, Range
  <2>2. p = j
    BY <2>1, PositionIsUnique
  <2> QED BY <2>1, <2>2 DEF StateType, Count
<1> HIDE DEF p
<1>2. ASSUME NextInAel(s, e) # NoEdge
      PROVE  p \in 1 .. Count(s) - 1 /\ NextInAel(s, e) = s.actives[p + 1]
  BY <1>1, <1>2 DEF NextInAel, At, p
<1>3. ASSUME PrevInAel(s, e) # NoEdge
      PROVE  p - 1 \in 1 .. Count(s) - 1 /\ PrevInAel(s, e) = s.actives[p - 1] /\ (p - 1) + 1 = p
  BY <1>1, <1>3 DEF PrevInAel, At, p
<1> QED BY <1>1, <1>2, <1>3

LEMMA BoundKeeps ==
  ASSUME IInv, BoundCross \/ BoundDone
  PROVE  IInv'
<1>1. task.edge \in Edge /\ task.edge \in Active(state) /\ task.kind = "bound"
  BY InvFacts, TaskEdges DEF BoundCross, BoundDone, IInv, Intact
<1>2. CASE BoundCross
  <2> DEFINE e == NextInAel(state, task.edge)
             s == Cross(state, task.edge, e)
  <2>1. e \in Edge
    BY <1>2, InvFacts, EdgeAt DEF BoundCross
  <2>2. PICK i \in 1 .. Count(state) - 1 : task.edge = state.actives[i] /\ e = state.actives[i + 1]
    BY <1>1, <1>2, InvFacts, NeighbourPosition DEF BoundCross
  <2>3. StateType(s)
    BY <1>1, <2>1, InvFacts, CrossType
  <2>4. IsInjective(s.actives) /\ Active(s) = Active(state)
    <3>1. SameList(s, s)
      BY DEF SameList
    <3> HIDE DEF e
    <3> QED BY <2>2, <3>1, InvFacts, CrossedIntact
  <2>5. Step(s, task)
    BY <1>2 DEF BoundCross
  <2> HIDE DEF s
  <2>6. Intact(s, task)
    BY <1>1, <2>4 DEF Intact
  <2> QED BY <2>3, <2>5, <2>6, InvFacts, StepKeeps
<1>3. CASE BoundDone
  <2>1. PICK collinear \in JoinChoice : Step(CheckJoinRight(state, task.edge, collinear), Idle)
    BY <1>3 DEF BoundDone
  <2> DEFINE s == CheckJoinRight(state, task.edge, collinear)
  <2>2. StateType(s) /\ SameList(state, s)
    BY <1>1, InvFacts, CheckJoinType, CheckJoinKeepsTheList
  <2> HIDE DEF s
  <2>3. Intact(s, Idle)
    BY <2>2, InvFacts, IdleIntact DEF SameList
  <2>4. Idle \in TaskType
    BY DEF TaskType
  <2> QED BY <2>1, <2>2, <2>3, <2>4, StepKeeps DEF s
<1> QED BY <1>2, <1>3

LEMMA IntersectionKeeps ==
  ASSUME IInv, Intersection
  PROVE  IInv'
<1>1. PICK i \in 1 .. Count(state) - 1, join_left, join_right \in JoinChoice :
        LET first == At(state, i)
            second == At(state, i + 1)
            crossed == Cross(state, first, second)
        IN  Step(CheckJoinRight(CheckJoinLeft(crossed, second, join_left), first, join_right), Idle)
  BY DEF Intersection
<1> DEFINE first == state.actives[i]
           second == state.actives[i + 1]
           t == Cross(state, first, second)
           s1 == CheckJoinLeft(t, second, join_left)
           s2 == CheckJoinRight(s1, first, join_right)
<1>2. /\ At(state, i) = first /\ At(state, i + 1) = second
      /\ first \in Edge /\ second \in Edge
  BY InvFacts DEF StateType
<1>3. StateType(t) /\ SameList(t, t)
  <2> HIDE DEF first, second
  <2> QED BY <1>2, InvFacts, CrossType DEF SameList
<1>4. IsInjective(t.actives)
  BY <1>3, InvFacts, CrossedIntact
<1>5. StateType(s1) /\ SameList(t, s1)
  <2> HIDE DEF t, first, second
  <2>1. "actives" \in DOMAIN t
    BY <1>3 DEF StateType
  <2> QED BY <1>2, <1>3, <2>1, CheckJoinType, CheckJoinKeepsTheList
<1>6. StateType(s2) /\ SameList(s1, s2)
  <2> HIDE DEF s1, first, second
  <2>1. "actives" \in DOMAIN s1
    BY <1>5 DEF StateType
  <2> QED BY <1>2, <1>5, <2>1, CheckJoinType, CheckJoinKeepsTheList
<1>7. Step(s2, Idle)
  BY <1>1, <1>2
<1> HIDE DEF t, s1, s2
<1>8. Intact(s2, Idle)
  BY <1>4, <1>5, <1>6, IdleIntact DEF SameList
<1>9. Idle \in TaskType
  BY DEF TaskType
<1> QED BY <1>6, <1>7, <1>8, <1>9, StepKeeps

LEMMA UpdateKeepsTheList ==
  ASSUME NEW s, "actives" \in DOMAIN s, NEW e, NEW horizontal, NEW join_left, NEW join_right
  PROVE  SameList(s, UpdateEdgeIntoAel(s, e, horizontal, join_left, join_right))
<1> DEFINE s0 == [s EXCEPT !.edge[e].horizontal = horizontal]
           s1 == SplitIfJoined(s0, e)
           s2 == CheckJoinLeft(s1, e, join_left)
           s3 == CheckJoinRight(s2, e, join_right)
<1>1. SameList(s, s0) /\ "actives" \in DOMAIN s0
  BY DEF SameList
<1>2. SameList(s, s1) /\ "actives" \in DOMAIN s1
  <2> HIDE DEF s0
  <2> QED BY <1>1, SplitKeepsTheList DEF SameList
<1>3. SameList(s, s2) /\ "actives" \in DOMAIN s2
  <2> HIDE DEF s1
  <2> QED BY <1>2, CheckJoinKeepsTheList DEF SameList
<1>4. SameList(s, s3)
  <2> HIDE DEF s2
  <2> QED BY <1>3, CheckJoinKeepsTheList DEF SameList
<1>5. UpdateEdgeIntoAel(s, e, horizontal, join_left, join_right) \in {s1, s3}
  BY DEF UpdateEdgeIntoAel
<1> HIDE DEF s1, s3
<1> QED BY <1>2, <1>4, <1>5

LEMMA UpdateKeeps ==
  ASSUME IInv, UpdateTopEdge \/ HorizontalDone
  PROVE  IInv'
<1>1. PICK e \in Edge, horizontal \in BOOLEAN, join_left, join_right \in JoinChoice :
        Step(UpdateEdgeIntoAel(state, e, horizontal, join_left, join_right), Idle)
  <2>1. CASE UpdateTopEdge
    BY <2>1, InvFacts, EdgeAt, ActiveEdgesAssumption DEF UpdateTopEdge
  <2>2. CASE HorizontalDone
    BY <2>2, InvFacts, TaskEdges DEF HorizontalDone, IInv
  <2> QED BY <2>1, <2>2
<1> DEFINE s == UpdateEdgeIntoAel(state, e, horizontal, join_left, join_right)
<1>2. StateType(s) /\ SameList(state, s)
  BY InvFacts, UpdateEdgeIntoAelType, UpdateKeepsTheList
<1> HIDE DEF s
<1>3. Intact(s, Idle)
  BY <1>2, InvFacts, IdleIntact DEF SameList
<1>4. Idle \in TaskType
  BY DEF TaskType
<1> QED BY <1>1, <1>2, <1>3, <1>4, StepKeeps DEF s

LEMMA BeginMaximaKeeps ==
  ASSUME IInv, BeginMaxima
  PROVE  IInv'
<1>1. PICK i, j \in 1 .. Count(state) :
        /\ i < j
        /\ Step(SplitIfJoined(SplitIfJoined(state, At(state, i)), At(state, j)),
                [kind |-> "maxima", edge |-> At(state, i), pair |-> At(state, j)])
  BY DEF BeginMaxima
<1> DEFINE e == state.actives[i]
           pair == state.actives[j]
           s1 == SplitIfJoined(state, e)
           s == SplitIfJoined(s1, pair)
           t == [kind |-> "maxima", edge |-> e, pair |-> pair]
<1>2. At(state, i) = e /\ At(state, j) = pair /\ e \in Edge /\ pair \in Edge
  BY InvFacts DEF StateType
<1>3. StateType(s1) /\ SameList(state, s1) /\ "actives" \in DOMAIN s1
  <2> HIDE DEF e
  <2> QED BY <1>2, InvFacts, SplitIfJoinedType, SplitKeepsTheList DEF SameList
<1>4. StateType(s) /\ SameList(state, s)
  <2> HIDE DEF s1, pair
  <2> QED BY <1>2, <1>3, SplitIfJoinedType, SplitKeepsTheList DEF SameList
<1>5. Step(s, t)
  BY <1>1, <1>2
<1>6. t \in TaskType
  BY <1>2 DEF TaskType
<1>7. Intact(state, t)
  BY <1>1, InvFacts DEF Intact, Active, Range
<1> HIDE DEF s, t
<1>8. Intact(s, t)
  BY <1>4, <1>7, SameListIntact
<1> QED BY <1>4, <1>5, <1>6, <1>8, StepKeeps

\* One round of the loop of do_maxima: the pair was further right than the
\* neighbour that is passed, so it is still to the right afterwards.
LEMMA MaximaCrossKeeps ==
  ASSUME IInv, MaximaCross
  PROVE  IInv'
<1> DEFINE e == NextInAel(state, task.edge)
           s == Cross(state, task.edge, e)
<1>1. task.kind = "maxima" /\ e # task.pair /\ Step(s, task)
  BY DEF MaximaCross
<1>2. PICK i, j \in 1 .. Count(state) :
        i < j /\ state.actives[i] = task.edge /\ state.actives[j] = task.pair
  BY <1>1, InvFacts DEF Intact
<1>3. /\ i \in 1 .. Count(state) - 1 /\ task.edge \in Edge
      /\ e = state.actives[i + 1] /\ e \in Edge
  <2>1. PositionOf(state, task.edge) = i
    BY <1>2, InvFacts, PositionIsUnique
  <2>2. e = At(state, i + 1)
    BY <2>1 DEF NextInAel
  <2>3. i + 1 \in 1 .. Count(state) /\ i \in 1 .. Count(state) - 1
    BY <1>2, InvFacts
  <2> QED BY <1>2, <2>2, <2>3, InvFacts DEF StateType
<1>4. StateType(s)
  <2> HIDE DEF e
  <2> QED BY <1>3, InvFacts, CrossType
<1>5. /\ IsInjective(s.actives) /\ Active(s) = Active(state)
      /\ s.actives = [state.actives EXCEPT ![i] = e, ![i + 1] = task.edge]
  <2>1. SameList(s, s)
    BY DEF SameList
  <2> HIDE DEF e
  <2> QED BY <1>2, <1>3, <2>1, InvFacts, CrossedIntact
<1> HIDE DEF s, e
<1>6. i + 1 < j
  <2>1. i + 1 # j
    BY <1>1, <1>2, <1>3
  <2> QED BY <1>2, <2>1, InvFacts
<1>7. /\ i + 1 \in DOMAIN s.actives /\ j \in DOMAIN s.actives
      /\ s.actives[i + 1] = task.edge /\ s.actives[j] = task.pair
  BY <1>2, <1>3, <1>5, <1>6, InvFacts
<1>8. task.edge \in Active(s)
  BY <1>7 DEF Active, Range
<1>9. Intact(s, task)
  BY <1>5, <1>6, <1>7, <1>8 DEF Intact
<1> QED BY <1>1, <1>4, <1>9, InvFacts, StepKeeps

\* Two edges leave the list after their records were closed or joined.
LEMMA RemovedKeeps ==
  ASSUME NEW s, StateType(s), IsInjective(s.actives), NEW u, StateType(u), SameList(s, u),
         NEW d \in Edge, NEW e \in Edge
  PROVE  LET t == RemoveFromAel(RemoveFromAel(u, d), e)
         IN  StateType(t) /\ Intact(t, Idle)
<1>1. IsInjective(u.actives)
  BY DEF SameList
<1> QED BY <1>1, RemovePairType, RemovePairIntact, IdleIntact

LEMMA MaximaDoneKeeps ==
  ASSUME IInv, MaximaDone
  PROVE  IInv'
<1> DEFINE s1 == IF IsHot(state, task.edge)
                 THEN AddLocalMaxPolygon(state, task.edge, task.pair) ELSE state
           s2 == RemoveFromAel(RemoveFromAel(s1, task.edge), task.pair)
<1>1. task.edge \in Edge /\ task.pair \in Edge
  BY TaskEdges DEF MaximaDone, IInv
<1>2. StateType(s1) /\ SameList(state, s1)
  BY <1>1, InvFacts, AddLocalMaxType, AddLocalMaxKeepsTheList DEF SameList
<1>3. Step(s2, Idle)
  BY DEF MaximaDone
<1>4. StateType(s2) /\ Intact(s2, Idle)
  <2> HIDE DEF s1
  <2> QED BY <1>1, <1>2, InvFacts, RemovedKeeps
<1>5. Idle \in TaskType
  BY DEF TaskType
<1> HIDE DEF s2
<1> QED BY <1>3, <1>4, <1>5, StepKeeps

LEMMA BeginHorizontalKeeps ==
  ASSUME IInv, BeginHorizontal
  PROVE  IInv'
<1>1. PICK e \in Active(state) : Step(state, [kind |-> "horizontal", edge |-> e, pair |-> NoEdge])
  BY DEF BeginHorizontal, Horizontals
<1> DEFINE t == [kind |-> "horizontal", edge |-> e, pair |-> NoEdge]
<1>2. t \in TaskType
  BY InvFacts, EdgeAt DEF TaskType
<1>3. Intact(state, t)
  BY InvFacts DEF Intact
<1> HIDE DEF t
<1> QED BY <1>1, <1>2, <1>3, InvFacts, StepKeeps DEF t

\* A horizontal passes a neighbour, on either side; the task goes on.
LEMMA HorizontalCrossKeeps ==
  ASSUME IInv, HorizontalCrossRight \/ HorizontalCrossLeft
  PROVE  IInv'
<1>1. task.kind = "horizontal" /\ task.edge \in Edge /\ task.edge \in Active(state)
  BY InvFacts, TaskEdges DEF HorizontalCrossRight, HorizontalCrossLeft, IInv, Intact
<1>2. ASSUME NEW i \in 1 .. Count(state) - 1, NEW d \in Edge, NEW join \in JoinChoice, NEW s,
             Step(s, task),
             LET t == Cross(state, state.actives[i], state.actives[i + 1])
             IN  s \in {CheckJoinLeft(t, d, join), CheckJoinRight(t, d, join)}
      PROVE  IInv'
  <2> DEFINE first == state.actives[i]
             second == state.actives[i + 1]
             t == Cross(state, first, second)
  <2>1. first \in Edge /\ second \in Edge
    BY InvFacts DEF StateType
  <2>2. StateType(t) /\ "actives" \in DOMAIN t
    <3>1. StateType(t)
      <4> HIDE DEF first, second
      <4> QED BY <2>1, InvFacts, CrossType
    <3> HIDE DEF t
    <3> QED BY <3>1 DEF StateType
  <2>3. StateType(s) /\ SameList(t, s)
    <3> HIDE DEF t
    <3> QED BY <1>2, <2>2, CheckJoinType, CheckJoinKeepsTheList DEF t
  <2>4. IsInjective(s.actives) /\ Active(s) = Active(state)
    BY <2>3, InvFacts, CrossedIntact
  <2>5. Intact(s, task)
    BY <1>1, <2>4 DEF Intact
  <2> QED BY <1>2, <2>3, <2>5, InvFacts, StepKeeps
<1>3. CASE HorizontalCrossRight
  <2> DEFINE e == NextInAel(state, task.edge)
  <2>1. PICK join \in JoinChoice : e # NoEdge /\ Step(CheckJoinLeft(Cross(state, task.edge, e), e, join), task)
    BY <1>3 DEF HorizontalCrossRight
  <2>2. e \in Edge
    BY <2>1, InvFacts, EdgeAt
  <2>3. PICK i \in 1 .. Count(state) - 1 : task.edge = state.actives[i] /\ e = state.actives[i + 1]
    BY <1>1, <2>1, InvFacts, NeighbourPosition
  <2> HIDE DEF e
  <2> QED BY <1>2, <2>1, <2>2, <2>3
<1>4. CASE HorizontalCrossLeft
  <2> DEFINE e == PrevInAel(state, task.edge)
  <2>1. PICK join \in JoinChoice : e # NoEdge /\ Step(CheckJoinRight(Cross(state, e, task.edge), e, join), task)
    BY <1>4 DEF HorizontalCrossLeft
  <2>2. e \in Edge
    BY <2>1, InvFacts, EdgeAt
  <2>3. PICK i \in 1 .. Count(state) - 1 : e = state.actives[i] /\ task.edge = state.actives[i + 1]
    BY <1>1, <2>1, InvFacts, NeighbourPosition
  <2> HIDE DEF e
  <2> QED BY <1>2, <2>1, <2>2, <2>3
<1> QED BY <1>3, <1>4

LEMMA HorizontalMaximaKeeps ==
  ASSUME IInv, HorizontalMaxima
  PROVE  IInv'
<1> DEFINE h == task.edge
           left(e) == IF e = NextInAel(state, h) THEN h ELSE e
           right(e) == IF e = NextInAel(state, h) THEN e ELSE h
           s1(e) == IF IsHot(state, h) THEN AddLocalMaxPolygon(SplitIfJoined(state, e), left(e), right(e))
                                       ELSE state
           s2(e) == RemoveFromAel(RemoveFromAel(s1(e), e), h)
<1>1. PICK e \in {NextInAel(state, h), PrevInAel(state, h)} \ {NoEdge} : Step(s2(e), Idle)
  BY DEF HorizontalMaxima
<1>2. h \in Edge /\ e \in Edge
  BY <1>1, InvFacts, EdgeAt, TaskEdges DEF HorizontalMaxima, IInv
<1>3. left(e) \in Edge /\ right(e) \in Edge
  BY <1>2
<1> DEFINE u == SplitIfJoined(state, e)
           v == AddLocalMaxPolygon(u, left(e), right(e))
           w == s1(e)
<1>4. StateType(u) /\ SameList(state, u) /\ "actives" \in DOMAIN u
  BY <1>2, InvFacts, SplitIfJoinedType, SplitKeepsTheList DEF SameList
<1>5. StateType(v) /\ SameList(state, v)
  <2> DEFINE l == left(e)
             r == right(e)
  <2> HIDE DEF u, l, r
  <2>1. StateType(AddLocalMaxPolygon(u, l, r)) /\ SameList(u, AddLocalMaxPolygon(u, l, r))
    BY <1>3, <1>4, AddLocalMaxType, AddLocalMaxKeepsTheList DEF l, r
  <2> QED BY <1>4, <2>1 DEF SameList, l, r
<1>6. StateType(w) /\ SameList(state, w)
  <2>1. w \in {v, state}
    OBVIOUS
  <2>2. SameList(state, state)
    BY DEF SameList
  <2> HIDE DEF v, w
  <2> QED BY <1>5, <2>1, <2>2, InvFacts
<1>7. Step(RemoveFromAel(RemoveFromAel(w, e), h), Idle)
  BY <1>1
<1>8. Idle \in TaskType
  BY DEF TaskType
<1> DEFINE s == RemoveFromAel(RemoveFromAel(w, e), h)
<1> HIDE DEF w, h
<1>9. StateType(s) /\ Intact(s, Idle)
  BY <1>2, <1>6, InvFacts, RemovedKeeps
<1> HIDE DEF s
<1> QED BY <1>7, <1>8, <1>9, StepKeeps DEF s

LEMMA UnchangedKeeps ==
  ASSUME IInv, NextPhase \/ UNCHANGED vars
  PROVE  IInv'
<1>1. state' = state /\ task' = task /\ phase' \in Phases
  BY DEF NextPhase, vars, Phases, IInv, TypeOK
<1>2. TypeOK'
  BY <1>1 DEF IInv, TypeOK, StateType
<1>3. AelIntact'
  BY <1>1 DEF IInv, AelIntact, Active
<1> QED BY <1>2, <1>3 DEF IInv

LEMMA InitEstablishes ==
  ASSUME Init
  PROVE  IInv
<1>1. PICK cliptype \in ClipTypes, fillrule \in FillRules :
        state = [cliptype |-> cliptype, fillrule |-> fillrule, actives |-> <<>>,
                 edge |-> [e \in Edge |-> Dead], front |-> <<>>, back |-> <<>>,
                 owner |-> <<>>, has_points |-> <<>>, succeeded |-> TRUE]
  BY DEF Init
<1>2. Dead \in EdgeType /\ Dead.outrec = 0
  BY DEF Dead, Bound, EdgeType, JoinStates, NoRecord
<1>3. StateType(state)
  BY <1>1, <1>2, ActiveEdgesAssumption DEF StateType
<1>4. AelIntact
  BY <1>1 DEF Init, AelIntact, Idle, IsInjective
<1> QED BY <1>3, <1>4 DEF Init, IInv, TypeOK, TaskType, Phases

\* Whatever edges, clip operations and fill rules the execution has, the engine
\* state stays well formed, and the handlers never lose an edge of the list: the
\* unchecked loops of insert_local_minima_into_ael, do_maxima and do_horizontal
\* stay inside it.
THEOREM SweepStaysIntact == Spec => [](TypeOK /\ AelIntact)
<1>1. Init => IInv
  BY InitEstablishes
<1>2. IInv /\ [Next]_vars => IInv'
  <2> SUFFICES ASSUME IInv, [Next]_vars PROVE IInv'
    OBVIOUS
  <2>1. CASE InsertLocalMinimum
    BY <2>1, InsertKeeps
  <2>2. CASE BoundCross \/ BoundDone
    BY <2>2, BoundKeeps
  <2>3. CASE Intersection
    BY <2>3, IntersectionKeeps
  <2>4. CASE UpdateTopEdge \/ HorizontalDone
    BY <2>4, UpdateKeeps
  <2>5. CASE BeginMaxima
    BY <2>5, BeginMaximaKeeps
  <2>6. CASE MaximaCross
    BY <2>6, MaximaCrossKeeps
  <2>7. CASE MaximaDone
    BY <2>7, MaximaDoneKeeps
  <2>8. CASE BeginHorizontal
    BY <2>8, BeginHorizontalKeeps
  <2>9. CASE HorizontalCrossRight \/ HorizontalCrossLeft
    BY <2>9, HorizontalCrossKeeps
  <2>10. CASE HorizontalMaxima
    BY <2>10, HorizontalMaximaKeeps
  <2>11. CASE NextPhase \/ UNCHANGED vars
    BY <2>11, UnchangedKeeps
  <2> QED BY <2>1, <2>2, <2>3, <2>4, <2>5, <2>6, <2>7, <2>8, <2>9, <2>10, <2>11 DEF Next
<1>3. IInv => TypeOK /\ AelIntact
  BY DEF IInv
<1> QED BY <1>1, <1>2, <1>3, PTL DEF Spec

-----------------------------------------------------------------------------
(* The owners of the records.                                              *)

FollowStep(n, owner, stop, val, f) ==
  [r \in 0 .. n |-> IF stop[r] THEN val[r] ELSE f[owner[r]]]

\* A function that follows owners up to a stop exists.
LEMMA OwnersFollowed ==
  ASSUME NEW n \in Nat, NEW owner \in [1 .. n -> 0 .. n], NEW stop \in [0 .. n -> BOOLEAN], stop[0],
         NEW val
  PROVE  \E f : f = FollowStep(n, owner, stop, val, f)
<1> DEFINE Shut(C) == \A x \in C : ~stop[x] => owner[x] \in C
           Reached(r) == {q \in 0 .. n : stop[q] /\ \A C \in SUBSET (0 .. n) : r \in C /\ Shut(C) => q \in C}
           pick(S) == CHOOSE q : q \in S
           f == [r \in 0 .. n |-> val[pick(Reached(r))]]
<1>1. ASSUME NEW r \in 0 .. n, stop[r] PROVE Reached(r) = {r}
  <2>1. {r} \in SUBSET (0 .. n) /\ r \in {r} /\ Shut({r})
    BY <1>1
  <2>2. \A q \in Reached(r) : q \in {r}
    BY <2>1
  <2>3. r \in Reached(r)
    BY <1>1
  <2> QED BY <2>2, <2>3
<1>2. ASSUME NEW r \in 0 .. n, ~stop[r] PROVE owner[r] \in 0 .. n /\ Reached(r) = Reached(owner[r])
  <2>1. r \in 1 .. n /\ owner[r] \in 0 .. n
    BY <1>2
  <2>2. ASSUME NEW q \in Reached(r) PROVE q \in Reached(owner[r])
    <3> SUFFICES ASSUME NEW C \in SUBSET (0 .. n), owner[r] \in C, Shut(C) PROVE q \in C
      BY <2>2
    <3>1. C \cup {r} \in SUBSET (0 .. n) /\ Shut(C \cup {r})
      OBVIOUS
    <3>2. q \in C \cup {r} /\ stop[q]
      BY <2>2, <3>1
    <3> QED BY <1>2, <3>2
  <2>3. ASSUME NEW q \in Reached(owner[r]) PROVE q \in Reached(r)
    <3> SUFFICES ASSUME NEW C \in SUBSET (0 .. n), r \in C, Shut(C) PROVE q \in C
      BY <2>3
    <3>1. owner[r] \in C
      BY <1>2
    <3> QED BY <2>3, <3>1
  <2> HIDE DEF Reached
  <2> QED BY <2>1, <2>2, <2>3
<1>3. \A r \in 0 .. n : f[r] = IF stop[r] THEN val[r] ELSE f[owner[r]]
  <2> SUFFICES ASSUME NEW r \in 0 .. n PROVE f[r] = IF stop[r] THEN val[r] ELSE f[owner[r]]
    OBVIOUS
  <2>0. pick({r}) = r
    OBVIOUS
  <2> HIDE DEF Reached, pick
  <2>1. CASE stop[r]
    <3>1. f[r] = val[pick(Reached(r))]
      OBVIOUS
    <3> QED BY <1>1, <2>0, <2>1, <3>1
  <2>2. CASE ~stop[r]
    <3>1. f[r] = val[pick(Reached(r))] /\ f[owner[r]] = val[pick(Reached(owner[r]))]
      BY <1>2, <2>2
    <3> QED BY <1>2, <2>2, <3>1
  <2> QED BY <2>1, <2>2
<1>4. f = [r \in 0 .. n |-> IF stop[r] THEN val[r] ELSE f[owner[r]]]
  <2>1. f = [r \in 0 .. n |-> f[r]]
    OBVIOUS
  <2> HIDE DEF f
  <2> QED BY <1>3, <2>1
<1> HIDE DEF f
<1> QED BY <1>4 DEF FollowStep

RealStep(s, f) ==
  [r \in 0 .. Len(s.front) |-> IF r = NoRecord \/ s.has_points[r] THEN r ELSE f[s.owner[r]]]

MeetsStep(s, record, f) ==
  [r \in 0 .. Len(s.front) |-> IF r \in {NoRecord, record} THEN r = record ELSE f[s.owner[r]]]

LEMMA RealFollows ==
  ASSUME NEW s, Len(s.front) \in Nat, s.owner \in [1 .. Len(s.front) -> 0 .. Len(s.front)]
  PROVE  \E f : f = RealStep(s, f) /\ \A r : GetRealOutrec(s, r) = f[r]
<1> DEFINE n == Len(s.front)
           stop == [r \in 0 .. n |-> IF r = NoRecord \/ s.has_points[r] THEN TRUE ELSE FALSE]
           val == [r \in 0 .. n |-> r]
           h == CHOOSE f : f = RealStep(s, f)
<1>1. stop[0] /\ stop \in [0 .. n -> BOOLEAN]
  BY DEF NoRecord
<1>2. PICK f : f = [r \in 0 .. n |-> IF stop[r] THEN val[r] ELSE f[s.owner[r]]]
  <2>1. Len(s.front) \in Nat /\ s.owner \in [1 .. Len(s.front) -> 0 .. Len(s.front)]
    OBVIOUS
  <2>2. stop \in [0 .. Len(s.front) -> BOOLEAN] /\ stop[0]
    BY <1>1
  <2> HIDE DEF stop, val
  <2>3. \E f : f = FollowStep(Len(s.front), s.owner, stop, val, f)
    BY <2>1, <2>2, OwnersFollowed
  <2> QED BY <2>3 DEF FollowStep
<1>3. f = RealStep(s, f)
  BY <1>2 DEF RealStep
<1>4. h = RealStep(s, h)
  BY <1>3
<1>5. \A r : GetRealOutrec(s, r) = h[r]
  BY DEF GetRealOutrec, RealStep
<1> QED BY <1>4, <1>5

LEMMA MeetsFollows ==
  ASSUME NEW s, Len(s.front) \in Nat, s.owner \in [1 .. Len(s.front) -> 0 .. Len(s.front)], NEW record
  PROVE  \E f : f = MeetsStep(s, record, f) /\ \A r : OwnedBy(s, record, r) = f[r]
<1> DEFINE n == Len(s.front)
           stop == [r \in 0 .. n |-> IF r \in {NoRecord, record} THEN TRUE ELSE FALSE]
           val == [r \in 0 .. n |-> r = record]
           h == CHOOSE f : f = MeetsStep(s, record, f)
<1>1. stop[0] /\ stop \in [0 .. n -> BOOLEAN]
  BY DEF NoRecord
<1>2. PICK f : f = [r \in 0 .. n |-> IF stop[r] THEN val[r] ELSE f[s.owner[r]]]
  <2>1. Len(s.front) \in Nat /\ s.owner \in [1 .. Len(s.front) -> 0 .. Len(s.front)]
    OBVIOUS
  <2>2. stop \in [0 .. Len(s.front) -> BOOLEAN] /\ stop[0]
    BY <1>1
  <2> HIDE DEF stop, val
  <2>3. \E f : f = FollowStep(Len(s.front), s.owner, stop, val, f)
    BY <2>1, <2>2, OwnersFollowed
  <2> QED BY <2>3 DEF FollowStep
<1>3. f = MeetsStep(s, record, f)
  BY <1>2 DEF MeetsStep
<1>4. h = MeetsStep(s, record, h)
  BY <1>3
<1>5. \A r : OwnedBy(s, record, r) = h[r]
  BY DEF OwnedBy, MeetsStep
<1> QED BY <1>4, <1>5

\* An owner is replaced by the first record with points that it leads to.
Roots(n, owner) ==
  /\ owner \in [1 .. n -> 0 .. n]
  /\ \A S \in SUBSET (1 .. n) : S # {} => \E r \in S : owner[r] \notin S

LEMMA RealStaysRooted ==
  ASSUME NEW n \in Nat, NEW owner, Roots(n, owner), NEW points, NEW f,
         f = [r \in 0 .. n |-> IF r = 0 \/ points[r] THEN r ELSE f[owner[r]]],
         NEW r \in 1 .. n
  PROVE  Roots(n, [owner EXCEPT ![r] = f[owner[r]]])
<1> DEFINE owner2 == [owner EXCEPT ![r] = f[owner[r]]]
<1>1. owner \in [1 .. n -> 0 .. n]
  BY DEF Roots
<1>2. \A x \in 0 .. n : f[x] = IF x = 0 \/ points[x] THEN x ELSE f[owner[x]]
  OBVIOUS
<1>3. \A x \in 0 .. n : f[x] \in 0 .. n
  <2> DEFINE B == {x \in 1 .. n : f[x] \notin 0 .. n}
  <2>1. ASSUME NEW x \in B PROVE owner[x] \in B
    BY <1>1, <1>2
  <2>2. B \in SUBSET (1 .. n)
    OBVIOUS
  <2>3. B = {}
    <3>1. \A S \in SUBSET (1 .. n) : S # {} => \E x \in S : owner[x] \notin S
      BY DEF Roots
    <3>2. B # {} => \E x \in B : owner[x] \notin B
      <4> HIDE DEF B
      <4> QED BY <2>2, <3>1
    <3> QED BY <2>1, <3>2
  <2>4. \A x \in 1 .. n : f[x] \in 0 .. n
    BY <2>3
  <2>5. f[0] \in 0 .. n
    BY <1>2
  <2>6. \A x \in 0 .. n : x = 0 \/ x \in 1 .. n
    OBVIOUS
  <2> QED BY <2>4, <2>5, <2>6
<1>4. owner2 \in [1 .. n -> 0 .. n] /\ \A x \in 1 .. n : owner2[x] = IF x = r THEN f[owner[r]] ELSE owner[x]
  BY <1>1, <1>3
<1> HIDE DEF owner2
<1>5. ASSUME NEW S \in SUBSET (1 .. n), S # {}, \A x \in S : owner2[x] \in S PROVE FALSE
  <2> DEFINE U == S \cup {x \in 1 .. n : f[x] \in S}
  <2>1. 0 \notin S /\ f[0] = 0
    BY <1>2
  <2>2. ASSUME NEW x \in S PROVE owner[x] \in U
    <3>1. x \in 1 .. n /\ owner[x] \in 0 .. n /\ owner2[x] \in S
      BY <1>1, <1>5
    <3>2. CASE x # r
      BY <1>4, <3>1, <3>2
    <3>3. CASE x = r
      <4>1. f[owner[r]] \in S
        BY <1>4, <3>1, <3>3
      <4>2. owner[r] # 0
        BY <2>1, <4>1
      <4> QED BY <3>1, <3>3, <4>1, <4>2
    <3> QED BY <3>2, <3>3
  <2>3. ASSUME NEW x \in U PROVE owner[x] \in U
    <3>1. CASE x \in S
      BY <2>2, <3>1
    <3>2. CASE x \notin S
      <4>1. x \in 1 .. n /\ f[x] \in S /\ owner[x] \in 0 .. n
        BY <1>1, <3>2
      <4>2. f[x] = f[owner[x]]
        BY <1>2, <3>2, <4>1
      <4>3. owner[x] # 0
        BY <2>1, <4>1, <4>2
      <4> QED BY <4>1, <4>2, <4>3
    <3> QED BY <3>1, <3>2
  <2>4. U \in SUBSET (1 .. n) /\ U # {}
    BY <1>5
  <2> HIDE DEF U
  <2> QED BY <2>3, <2>4 DEF Roots
<1> QED BY <1>4, <1>5 DEF Roots, owner2

\* A record gets a new owner; when the owners of that one led to the record,
\* it takes over the owner the record had.
Adopted(owner, M, record, new_owner) ==
  LET freed == IF new_owner \in M THEN [owner EXCEPT ![new_owner] = owner[record]] ELSE owner
  IN  [freed EXCEPT ![record] = new_owner]

LEMMA AdoptedStaysRooted ==
  ASSUME NEW n \in Nat, NEW owner, Roots(n, owner), NEW record \in 1 .. n, NEW new_owner \in 1 .. n,
         record # new_owner, NEW M \in SUBSET (1 .. n), record \in M,
         \A x \in (1 .. n) \ {record} : x \in M <=> owner[x] \in M
  PROVE  Roots(n, Adopted(owner, M, record, new_owner))
<1> DEFINE owner3 == Adopted(owner, M, record, new_owner)
<1>1. owner \in [1 .. n -> 0 .. n]
  BY DEF Roots
<1>2. /\ owner3 \in [1 .. n -> 0 .. n]
      /\ \A x \in 1 .. n : owner3[x] = IF x = record THEN new_owner
                                       ELSE IF x = new_owner /\ new_owner \in M THEN owner[record]
                                       ELSE owner[x]
  BY <1>1 DEF Adopted
<1> HIDE DEF owner3
<1>3. owner[record] \notin M
  <2> SUFFICES ASSUME owner[record] \in M PROVE FALSE
    OBVIOUS
  <2>1. \A x \in M : owner[x] \in M
    OBVIOUS
  <2> QED BY <2>1 DEF Roots
<1>4. ASSUME NEW S \in SUBSET (1 .. n), S # {}, \A x \in S : owner3[x] \in S PROVE FALSE
  <2>1. record \in S => new_owner \in S
    BY <1>2, <1>4
  <2>2. CASE new_owner \notin S
    <3>1. \A x \in S : owner[x] \in S
      BY <1>2, <1>4, <2>1, <2>2
    <3> QED BY <1>4, <3>1 DEF Roots
  <2>3. CASE new_owner \in S
    <3> DEFINE C == S \ M
    <3>1. \A x \in C : owner[x] \in C
      <4> SUFFICES ASSUME NEW x \in C PROVE owner[x] \in C
        OBVIOUS
      <4>1. x \in 1 .. n /\ x # record /\ owner[x] \notin M
        OBVIOUS
      <4>2. ~(x = new_owner /\ new_owner \in M)
        OBVIOUS
      <4>3. owner3[x] = owner[x] /\ owner3[x] \in S
        BY <1>2, <1>4, <4>1, <4>2
      <4> QED BY <4>1, <4>3
    <3>2. C # {}
      <4>1. CASE new_owner \notin M
        BY <2>3, <4>1
      <4>2. CASE new_owner \in M
        <5>1. owner3[new_owner] = owner[record] /\ owner3[new_owner] \in S
          BY <1>2, <1>4, <2>3, <4>2
        <5> QED BY <1>3, <5>1
      <4> QED BY <4>1, <4>2
    <3> QED BY <3>1, <3>2 DEF Roots
  <2> QED BY <2>2, <2>3
<1> QED BY <1>2, <1>4 DEF Roots, owner3

LEMMA ExceptIsSeq ==
  ASSUME NEW S, NEW q \in Seq(S), NEW r \in 1 .. Len(q), NEW x \in S
  PROVE  [q EXCEPT ![r] = x] \in Seq(S) /\ Len([q EXCEPT ![r] = x]) = Len(q)
  OBVIOUS

\* The owners of the records lead, from every record, to one without an owner.
Rooted(s) ==
  /\ s.owner \in Seq(0 .. Len(s.front)) /\ Len(s.owner) = Len(s.front)
  /\ Roots(Len(s.front), s.owner)

OwnersStay(s, t) == Rooted(s) => Rooted(t)

LEMMA SameOwners ==
  ASSUME NEW s, NEW t, t.owner = s.owner, Len(t.front) = Len(s.front)
  PROVE  OwnersStay(s, t)
  BY DEF OwnersStay, Rooted

WithOwner(s, r, o) == [s EXCEPT !.owner[r] = o]

OwnerChanged(s, t, r, o) ==
  StateType(t) /\ t.owner = [s.owner EXCEPT ![r] = o] /\ t.front = s.front

LEMMA OwnerWritten ==
  ASSUME NEW s, StateType(s), NEW r, NEW o
  PROVE  OwnerChanged(s, WithOwner(s, r, o), r, o)
<1> DEFINE t == WithOwner(s, r, o)
<1>1. /\ DOMAIN t = DOMAIN s /\ t.actives = s.actives /\ t.cliptype = s.cliptype
      /\ t.fillrule = s.fillrule /\ t.succeeded = s.succeeded /\ t.front = s.front
      /\ t.back = s.back /\ t.has_points = s.has_points /\ t.edge = s.edge
      /\ t.owner = [s.owner EXCEPT ![r] = o]
  BY DEF StateType, WithOwner
<1> HIDE DEF t
<1>2. StateType(t)
  BY <1>1 DEF StateType
<1> QED BY <1>1, <1>2 DEF t, OwnerChanged

\* A record without an owner leads nowhere.
LEMMA DisownStays ==
  ASSUME NEW s, StateType(s), NEW r \in 1 .. Len(s.front)
  PROVE  OwnersStay(s, WithOwner(s, r, NoRecord))
<1> DEFINE t == WithOwner(s, r, NoRecord)
           n == Len(s.front)
<1>0. OwnerChanged(s, t, r, NoRecord)
  BY OwnerWritten
<1>1. t.owner = [s.owner EXCEPT ![r] = 0] /\ t.front = s.front /\ n \in Nat
  BY <1>0 DEF StateType, OwnerChanged, NoRecord
<1> HIDE DEF t, n
<1>2. ASSUME Rooted(s) PROVE Rooted(t)
  <2>1. /\ s.owner \in Seq(0 .. n) /\ Len(s.owner) = n /\ r \in 1 .. n
        /\ s.owner \in [1 .. n -> 0 .. n]
        /\ \A S \in SUBSET (1 .. n) : S # {} => \E x \in S : s.owner[x] \notin S
    BY <1>2 DEF Rooted, Roots, n
  <2>2. t.owner \in Seq(0 .. n) /\ Len(t.owner) = n /\ t.owner \in [1 .. n -> 0 .. n]
    BY <1>1, <2>1
  <2>3. \A x \in 1 .. n : t.owner[x] = IF x = r THEN 0 ELSE s.owner[x]
    BY <1>1, <2>1
  <2>4. ASSUME NEW S \in SUBSET (1 .. n), S # {} PROVE \E x \in S : t.owner[x] \notin S
    <3>1. CASE r \in S
      <4>1. t.owner[r] = 0 /\ 0 \notin S
        BY <2>1, <2>3, <2>4
      <4> QED BY <3>1, <4>1
    <3>2. CASE r \notin S
      <4>1. \A x \in S : t.owner[x] = s.owner[x]
        BY <2>3, <2>4, <3>2
      <4>2. \E x \in S : s.owner[x] \notin S
        BY <2>1, <2>4
      <4> QED BY <4>1, <4>2
    <3> QED BY <3>1, <3>2
  <2> QED BY <1>1, <2>2, <2>4 DEF Rooted, Roots, n
<1> QED BY <1>2 DEF OwnersStay, t

LEMMA RealStays ==
  ASSUME NEW s, StateType(s), NEW r \in 1 .. Len(s.front)
  PROVE  OwnersStay(s, [s EXCEPT !.owner[r] = GetRealOutrec(s, @)])
<1> DEFINE t == [s EXCEPT !.owner[r] = GetRealOutrec(s, @)]
           o == GetRealOutrec(s, s.owner[r])
           n == Len(s.front)
<1>1. t = WithOwner(s, r, o)
  BY DEF StateType, WithOwner
<1> HIDE DEF t, o
<1>0. OwnerChanged(s, t, r, o)
  BY <1>1, OwnerWritten
<1>2. t.owner = [s.owner EXCEPT ![r] = o] /\ t.front = s.front /\ n \in Nat
  BY <1>0 DEF StateType, OwnerChanged
<1>3. ASSUME Rooted(s) PROVE Rooted(t)
  <2>1. s.owner \in Seq(0 .. n) /\ Len(s.owner) = n /\ Roots(n, s.owner) /\ s.owner \in [1 .. n -> 0 .. n]
    BY <1>3 DEF Rooted, Roots
  <2>2. PICK f : f = RealStep(s, f) /\ \A x : GetRealOutrec(s, x) = f[x]
    BY <1>2, <2>1, RealFollows
  <2>3. o = f[s.owner[r]]
    BY <2>2 DEF o
  <2>4. f = [x \in 0 .. n |-> IF x = 0 \/ s.has_points[x] THEN x ELSE f[s.owner[x]]]
    BY <2>2 DEF RealStep, NoRecord
  <2> HIDE DEF n
  <2>5. Roots(n, [s.owner EXCEPT ![r] = f[s.owner[r]]])
    <3>1. r \in 1 .. n
      BY DEF n
    <3>2. PICK points : points = s.has_points
      OBVIOUS
    <3>3. f = [x \in 0 .. n |-> IF x = 0 \/ points[x] THEN x ELSE f[s.owner[x]]]
      BY <2>4, <3>2
    <3> QED BY <1>2, <2>1, <3>1, <3>3, RealStaysRooted, ZenonT(30)
  <2>6. Roots(n, t.owner)
    BY <1>2, <2>3, <2>5
  <2>7. t.owner \in [1 .. n -> 0 .. n]
    BY <2>6 DEF Roots
  <2>8. t.owner \in Seq(0 .. n) /\ Len(t.owner) = n
    BY <1>2, <2>1, <2>7
  <2> QED BY <1>2, <2>6, <2>8 DEF Rooted, n
<1> QED BY <1>3 DEF OwnersStay, t

LEMMA SetOwnerStays ==
  ASSUME NEW s, StateType(s), NEW record \in 1 .. Len(s.front), NEW new_owner \in 1 .. Len(s.front),
         record # new_owner
  PROVE  OwnersStay(s, SetOwner(s, record, new_owner)) /\ SetOwner(s, record, new_owner).front = s.front
<1> DEFINE s1 == [s EXCEPT !.owner[new_owner] = GetRealOutrec(s, @)]
           o == s1.owner[record]
           s2 == IF OwnedBy(s1, record, new_owner) THEN WithOwner(s1, new_owner, o) ELSE s1
           t == WithOwner(s2, record, new_owner)
           n == Len(s.front)
<1>1. t = SetOwner(s, record, new_owner)
  BY DEF SetOwner, WithOwner
<1>2. StateType(s1) /\ s1.front = s.front /\ OwnersStay(s, s1)
  <2>1. s1 = WithOwner(s, new_owner, GetRealOutrec(s, s.owner[new_owner]))
    BY DEF StateType, WithOwner
  <2>2. StateType(s1) /\ s1.front = s.front
    <3> DEFINE q == GetRealOutrec(s, s.owner[new_owner])
    <3> HIDE DEF q, s1
    <3> QED BY <2>1, OwnerWritten, ZenonT(30) DEF q, OwnerChanged
  <2> QED BY <2>2, RealStays
<1> HIDE DEF s1, o
<1>3. StateType(s2) /\ s2.front = s.front
  <2>1. OwnerChanged(s1, WithOwner(s1, new_owner, o), new_owner, o)
    BY <1>2, OwnerWritten
  <2> QED BY <1>2, <2>1 DEF OwnerChanged
<1>4. s2.owner = IF OwnedBy(s1, record, new_owner) THEN [s1.owner EXCEPT ![new_owner] = o] ELSE s1.owner
  <2>1. OwnerChanged(s1, WithOwner(s1, new_owner, o), new_owner, o)
    BY <1>2, OwnerWritten
  <2> QED BY <2>1 DEF OwnerChanged
<1> HIDE DEF s2
<1>5. StateType(t) /\ t.front = s.front /\ t.owner = [s2.owner EXCEPT ![record] = new_owner]
  <2>1. OwnerChanged(s2, t, record, new_owner)
    BY <1>3, OwnerWritten
  <2> QED BY <1>3, <2>1 DEF OwnerChanged
<1> HIDE DEF t
<1>6. ASSUME Rooted(s1) PROVE Rooted(t)
  <2>1. /\ n \in Nat /\ s1.owner \in Seq(0 .. n) /\ Len(s1.owner) = n /\ Roots(n, s1.owner)
        /\ s1.owner \in [1 .. n -> 0 .. n] /\ record \in 1 .. n /\ new_owner \in 1 .. n
    BY <1>2, <1>6 DEF Rooted, Roots, StateType
  <2>2. PICK f : f = MeetsStep(s1, record, f) /\ \A x : OwnedBy(s1, record, x) = f[x]
    BY <1>2, <2>1, MeetsFollows
  <2> DEFINE M == {x \in 1 .. n : f[x]}
  <2>3. \A x \in 0 .. n : f[x] = IF x \in {0, record} THEN x = record ELSE f[s1.owner[x]]
    BY <1>2, <2>2 DEF MeetsStep, NoRecord
  <2> HIDE DEF n
  <2>4. f[0] = FALSE /\ f[record] = TRUE
    <3>1. 0 \in 0 .. n /\ record \in 0 .. n /\ record # 0
      BY <2>1
    <3> QED BY <2>3, <3>1
  <2>5. M \in SUBSET (1 .. n) /\ record \in M
    BY <2>1, <2>4
  <2>6. \A x \in (1 .. n) \ {record} : x \in M <=> s1.owner[x] \in M
    <3> SUFFICES ASSUME NEW x \in (1 .. n) \ {record} PROVE x \in M <=> s1.owner[x] \in M
      OBVIOUS
    <3>1. x \in 0 .. n /\ x \notin {0, record} /\ s1.owner[x] \in 0 .. n
      BY <2>1
    <3>2. f[x] = f[s1.owner[x]]
      BY <2>3, <3>1
    <3>3. CASE s1.owner[x] = 0
      BY <2>4, <3>2, <3>3
    <3>4. CASE s1.owner[x] \in 1 .. n
      BY <3>2, <3>4
    <3> QED BY <2>1, <3>1, <3>3, <3>4
  <2>7. OwnedBy(s1, record, new_owner) <=> new_owner \in M
    BY <2>1, <2>2
  <2> HIDE DEF M
  <2>8. t.owner = Adopted(s1.owner, M, record, new_owner)
    BY <1>4, <1>5, <2>7 DEF Adopted, o
  <2>9. Roots(n, t.owner)
    BY <2>1, <2>5, <2>6, <2>8, AdoptedStaysRooted
  <2>10. t.owner \in Seq(0 .. n) /\ Len(t.owner) = n
    <3>1. o \in 0 .. n
      BY <2>1 DEF o
    <3>2. s2.owner \in Seq(0 .. n) /\ Len(s2.owner) = n
      <4>1. new_owner \in 1 .. Len(s1.owner)
        BY <2>1
      <4>2. [s1.owner EXCEPT ![new_owner] = o] \in Seq(0 .. n) /\ Len([s1.owner EXCEPT ![new_owner] = o]) = n
        BY <2>1, <3>1, <4>1, ExceptIsSeq
      <4> QED BY <1>4, <2>1, <4>2
    <3>3. new_owner \in 0 .. n /\ record \in 1 .. Len(s2.owner)
      BY <2>1, <3>2
    <3> QED BY <1>5, <3>2, <3>3, ExceptIsSeq
  <2> QED BY <1>5, <2>9, <2>10 DEF Rooted, n
<1> QED BY <1>1, <1>2, <1>5, <1>6 DEF OwnersStay

LEMMA AppendStaysRooted ==
  ASSUME NEW n \in Nat, NEW owner \in Seq(0 .. n), Len(owner) = n, Roots(n, owner)
  PROVE  /\ Append(owner, 0) \in Seq(0 .. n + 1) /\ Len(Append(owner, 0)) = n + 1
         /\ Roots(n + 1, Append(owner, 0))
<1> DEFINE q == Append(owner, 0)
<1>1. owner \in Seq(0 .. n + 1)
  OBVIOUS
<1>2. q \in Seq(0 .. n + 1) /\ Len(q) = n + 1 /\ q[n + 1] = 0 /\ \A r \in 1 .. n : q[r] = owner[r]
  BY <1>1
<1> HIDE DEF q
<1>3. q \in [1 .. n + 1 -> 0 .. n + 1]
  BY <1>2
<1>4. ASSUME NEW S \in SUBSET (1 .. n + 1), S # {} PROVE \E x \in S : q[x] \notin S
  <2>1. CASE n + 1 \in S
    <3>1. 0 \notin S
      OBVIOUS
    <3> QED BY <1>2, <2>1, <3>1
  <2>2. CASE n + 1 \notin S
    <3>1. S \in SUBSET (1 .. n)
      <4>1. \A x \in 1 .. n + 1 : x = n + 1 \/ x \in 1 .. n
        OBVIOUS
      <4> QED BY <2>2, <4>1
    <3>2. \E x \in S : owner[x] \notin S
      BY <1>4, <3>1 DEF Roots
    <3> QED BY <1>2, <3>1, <3>2
  <2> QED BY <2>1, <2>2
<1> QED BY <1>2, <1>3, <1>4 DEF Roots, q

LEMMA CreateStays ==
  ASSUME NEW s, StateType(s)
  PROVE  OwnersStay(s, CreateOutrec(s))
<1> DEFINE t == CreateOutrec(s)
<1>1. t.owner = Append(s.owner, 0) /\ Len(t.front) = Len(s.front) + 1 /\ Len(s.front) \in Nat
  BY DEF CreateOutrec, StateType, NoRecord
<1> HIDE DEF t
<1>2. ASSUME Rooted(s) PROVE Rooted(t)
  BY <1>1, <1>2, AppendStaysRooted, SMTT(30) DEF Rooted
<1> QED BY <1>2 DEF OwnersStay, t

-----------------------------------------------------------------------------
(* What the operations on the records leave alone: the list, the fill rule *)
(* and what the counts of the edges are about.                             *)

CountFields == {"polytype", "wind_dx", "winding_count", "wind_cnt2"}

Shaped(s) ==
  /\ {"actives", "fillrule", "edge"} \subseteq DOMAIN s
  /\ DOMAIN s.edge = Edge
  /\ \A e \in Edge : CountFields \subseteq DOMAIN s.edge[e]

SameCounts(x, y) ==
  /\ x.polytype = y.polytype /\ x.wind_dx = y.wind_dx
  /\ x.winding_count = y.winding_count /\ x.wind_cnt2 = y.wind_cnt2

SameWinding(s, t) ==
  /\ Shaped(s) /\ Shaped(t)
  /\ t.actives = s.actives /\ t.fillrule = s.fillrule
  /\ \A e \in Edge : SameCounts(s.edge[e], t.edge[e])

LEMMA TypedIsShaped ==
  ASSUME NEW s, StateType(s)
  PROVE  Shaped(s)
  BY DEF StateType, Shaped, EdgeType, CountFields

LEMMA SameIsReflexive ==
  ASSUME NEW s, Shaped(s)
  PROVE  SameWinding(s, s)
  BY DEF SameWinding, SameCounts

LEMMA SameIsShaped ==
  ASSUME NEW s, NEW t, SameWinding(s, t)
  PROVE  Shaped(s) /\ Shaped(t)
  BY DEF SameWinding

LEMMA SameIsTransitive ==
  ASSUME NEW s, NEW t, NEW u, SameWinding(s, t), SameWinding(t, u)
  PROVE  SameWinding(s, u)
  BY DEF SameWinding, SameCounts

LEMMA SameEdge ==
  ASSUME NEW s, Shaped(s), NEW e, NEW x,
         e \in Edge => SameCounts(s.edge[e], x) /\ CountFields \subseteq DOMAIN x
  PROVE  SameWinding(s, [s EXCEPT !.edge[e] = x])
<1> DEFINE t == [s EXCEPT !.edge[e] = x]
<1>1. /\ DOMAIN t = DOMAIN s /\ t.actives = s.actives /\ t.fillrule = s.fillrule
      /\ t.edge = [s.edge EXCEPT ![e] = x]
  BY DEF Shaped
<1>2. DOMAIN t.edge = Edge /\ \A d \in Edge : t.edge[d] = IF d = e THEN x ELSE s.edge[d]
  BY <1>1 DEF Shaped
<1> HIDE DEF t
<1>3. Shaped(t)
  BY <1>1, <1>2 DEF Shaped
<1>4. ASSUME NEW d \in Edge PROVE SameCounts(s.edge[d], t.edge[d])
  BY <1>2 DEF SameCounts
<1>5. SameWinding(s, t)
  BY <1>1, <1>3, <1>4 DEF SameWinding
<1> QED BY <1>5 DEF t

LEMMA SameLabel ==
  ASSUME NEW s, Shaped(s), NEW e, NEW x
  PROVE  /\ SameWinding(s, [s EXCEPT !.edge[e].outrec = x])
         /\ SameWinding(s, [s EXCEPT !.edge[e].join_with = x])
         /\ SameWinding(s, [s EXCEPT !.edge[e].horizontal = x])
<1> DEFINE o == [s.edge[e] EXCEPT !.outrec = x]
           j == [s.edge[e] EXCEPT !.join_with = x]
           h == [s.edge[e] EXCEPT !.horizontal = x]
<1>1. \A y \in {o, j, h} :
        e \in Edge => SameCounts(s.edge[e], y) /\ CountFields \subseteq DOMAIN y
  BY DEF Shaped, SameCounts, CountFields
<1>2. /\ [s EXCEPT !.edge[e].outrec = x] = [s EXCEPT !.edge[e] = o]
      /\ [s EXCEPT !.edge[e].join_with = x] = [s EXCEPT !.edge[e] = j]
      /\ [s EXCEPT !.edge[e].horizontal = x] = [s EXCEPT !.edge[e] = h]
  OBVIOUS
<1> HIDE DEF o, j, h
<1>3. \A y \in {o, j, h} : SameWinding(s, [s EXCEPT !.edge[e] = y])
  BY <1>1, SameEdge
<1> QED BY <1>2, <1>3

LEMMA SameLabels ==
  ASSUME NEW s, Shaped(s), NEW d, NEW e, NEW x, NEW y
  PROVE  /\ SameWinding(s, [s EXCEPT !.edge[d].outrec = x, !.edge[e].outrec = y])
         /\ SameWinding(s, [s EXCEPT !.edge[d].join_with = x, !.edge[e].join_with = y])
<1> DEFINE o == [s EXCEPT !.edge[d].outrec = x]
           j == [s EXCEPT !.edge[d].join_with = x]
<1>1. SameWinding(s, o) /\ SameWinding(s, j)
  BY SameLabel
<1>2. /\ [s EXCEPT !.edge[d].outrec = x, !.edge[e].outrec = y] = [o EXCEPT !.edge[e].outrec = y]
      /\ [s EXCEPT !.edge[d].join_with = x, !.edge[e].join_with = y]
           = [j EXCEPT !.edge[e].join_with = y]
  OBVIOUS
<1> HIDE DEF o, j
<1>3. /\ SameWinding(o, [o EXCEPT !.edge[e].outrec = y])
      /\ SameWinding(j, [j EXCEPT !.edge[e].join_with = y])
  BY <1>1, SameLabel, SameIsShaped
<1>4. /\ SameWinding(s, [o EXCEPT !.edge[e].outrec = y])
      /\ SameWinding(s, [j EXCEPT !.edge[e].join_with = y])
  BY <1>1, <1>3, SameIsTransitive
<1> QED BY ONLY <1>2, <1>4, Zenon

\* The fields the counts do not read.
LEMMA SameTables ==
  ASSUME NEW s, Shaped(s), NEW t, DOMAIN t = DOMAIN s,
         \A f \in {"actives", "fillrule", "edge"} : t[f] = s[f]
  PROVE  SameWinding(s, t)
<1>1. t.actives = s.actives /\ t.fillrule = s.fillrule /\ t.edge = s.edge
  OBVIOUS
<1> QED BY <1>1 DEF SameWinding, Shaped, SameCounts

LEMMA RecordsKeepCounts ==
  ASSUME NEW s, Shaped(s), NEW d, NEW e, NEW r, NEW x
  PROVE  /\ SameWinding(s, CreateOutrec(s))
         /\ SameWinding(s, SetOwner(s, r, x))
         /\ SameWinding(s, SetSides(s, r, d, e))
         /\ SameWinding(s, EmptyRecord(s, r))
         /\ SameWinding(s, [s EXCEPT !.owner[r] = x])
         /\ SameWinding(s, [s EXCEPT !.front[r] = x])
         /\ SameWinding(s, [s EXCEPT !.back[r] = x])
         /\ SameWinding(s, [s EXCEPT !.succeeded = FALSE])
<1> DEFINE F == {"actives", "fillrule", "edge"}
<1>1. SameWinding(s, CreateOutrec(s))
  <2>1. DOMAIN CreateOutrec(s) = DOMAIN s /\ \A f \in F : CreateOutrec(s)[f] = s[f]
    BY DEF Shaped, CreateOutrec
  <2> QED BY <2>1, SameTables
<1>2. SameWinding(s, SetOwner(s, r, x))
  <2>1. DOMAIN SetOwner(s, r, x) = DOMAIN s /\ \A f \in F : SetOwner(s, r, x)[f] = s[f]
    BY DEF Shaped, SetOwner
  <2> QED BY <2>1, SameTables
<1>3. SameWinding(s, SetSides(s, r, d, e))
  <2>1. DOMAIN SetSides(s, r, d, e) = DOMAIN s /\ \A f \in F : SetSides(s, r, d, e)[f] = s[f]
    BY DEF Shaped, SetSides
  <2> QED BY <2>1, SameTables
<1>4. SameWinding(s, EmptyRecord(s, r))
  <2>1. DOMAIN EmptyRecord(s, r) = DOMAIN s /\ \A f \in F : EmptyRecord(s, r)[f] = s[f]
    BY DEF Shaped, EmptyRecord
  <2> QED BY <2>1, SameTables
<1>5. \A t \in {[s EXCEPT !.owner[r] = x], [s EXCEPT !.front[r] = x], [s EXCEPT !.back[r] = x],
                [s EXCEPT !.succeeded = FALSE]} : SameWinding(s, t)
  <2>1. \A t \in {[s EXCEPT !.owner[r] = x], [s EXCEPT !.front[r] = x],
                  [s EXCEPT !.back[r] = x], [s EXCEPT !.succeeded = FALSE]} :
          DOMAIN t = DOMAIN s /\ \A f \in F : t[f] = s[f]
    BY DEF Shaped
  <2> QED BY <2>1, SameTables
<1> QED BY <1>1, <1>2, <1>3, <1>4, <1>5

LEMMA UncoupleKeepsCounts ==
  ASSUME NEW s, Shaped(s), NEW r
  PROVE  SameWinding(s, UncoupleOutrec(s, r))
<1> DEFINE front == s.front[r]
           back == s.back[r]
           s1 == [s EXCEPT !.edge[front].outrec = NoRecord, !.edge[back].outrec = NoRecord]
           s2 == [s1 EXCEPT !.front[r] = NoEdge]
           s3 == [s2 EXCEPT !.back[r] = NoEdge]
<1>1. UncoupleOutrec(s, r) = s3
  BY DEF UncoupleOutrec
<1>2. SameWinding(s, s1)
  <2> HIDE DEF front, back
  <2> QED BY SameLabels
<1>3. SameWinding(s1, s2)
  <2> HIDE DEF s1
  <2> QED BY <1>2, RecordsKeepCounts, SameIsShaped
<1>4. SameWinding(s2, s3)
  <2> HIDE DEF s2
  <2> QED BY <1>3, RecordsKeepCounts, SameIsShaped
<1> QED BY ONLY <1>1, <1>2, <1>3, <1>4, SameIsTransitive

LEMMA SwapOutrecsKeepsCounts ==
  ASSUME NEW s, Shaped(s), NEW d, NEW e
  PROVE  SameWinding(s, SwapOutrecs(s, d, e))
<1> DEFINE F == {"actives", "fillrule", "edge"}
           r1 == s.edge[d].outrec
           r2 == s.edge[e].outrec
           replace(side, r, old, new) == [side EXCEPT ![r] = IF @ = old THEN new ELSE @]
           in1(side) == IF r1 = NoRecord THEN side ELSE replace(side, r1, d, e)
           in2(side) == IF r2 = NoRecord THEN side ELSE replace(side, r2, e, d)
           front == in2(in1(s.front))
           back == in2(in1(s.back))
           s1 == [s EXCEPT !.front = front, !.back = back]
<1>1. CASE r1 = r2
  <2> DEFINE t == [s EXCEPT !.front[r1] = s.back[r1], !.back[r1] = s.front[r1]]
  <2>1. SwapOutrecs(s, d, e) = t
    BY <1>1 DEF SwapOutrecs
  <2>2. DOMAIN t = DOMAIN s /\ \A f \in F : t[f] = s[f]
    <3> HIDE DEF r1
    <3> QED BY DEF Shaped
  <2> HIDE DEF t
  <2> QED BY <2>1, <2>2, SameTables
<1>2. CASE r1 # r2
  <2>1. SwapOutrecs(s, d, e) = [s EXCEPT !.front = front, !.back = back,
                                         !.edge[d].outrec = r2, !.edge[e].outrec = r1]
    BY <1>2 DEF SwapOutrecs
  <2> HIDE DEF r1, r2, front, back
  <2>2. SwapOutrecs(s, d, e) = [s1 EXCEPT !.edge[d].outrec = r2, !.edge[e].outrec = r1]
    BY <2>1
  <2>3. SameWinding(s, s1)
    <3>1. DOMAIN s1 = DOMAIN s /\ \A f \in F : s1[f] = s[f]
      BY DEF Shaped
    <3> HIDE DEF s1
    <3> QED BY <3>1, SameTables
  <2> HIDE DEF s1
  <2>4. SameWinding(s1, [s1 EXCEPT !.edge[d].outrec = r2, !.edge[e].outrec = r1])
    BY <2>3, SameLabels, SameIsShaped
  <2> QED BY <2>2, <2>3, <2>4, SameIsTransitive
<1> QED BY <1>1, <1>2

LEMMA AddLocalMinKeepsCounts ==
  ASSUME NEW s, Shaped(s), NEW d, NEW e, NEW is_new
  PROVE  SameWinding(s, AddLocalMinPolygon(s, d, e, is_new))
<1> DEFINE s1 == CreateOutrec(s)
           record == Len(s.front) + 1
           s2 == [s1 EXCEPT !.edge[d].outrec = record, !.edge[e].outrec = record]
           previous_hot == PreviousHotEdge(s2, d)
           s3 == IF previous_hot # NoEdge /\ UsingPolytree
                 THEN SetOwner(s2, record, s2.edge[previous_hot].outrec) ELSE s2
<1>1. SameWinding(s, s1)
  BY RecordsKeepCounts
<1>2. SameWinding(s1, s2)
  <2> HIDE DEF s1, record
  <2> QED BY <1>1, SameLabels, SameIsShaped
<1>3. SameWinding(s2, s3)
  <2> HIDE DEF s2, record, previous_hot
  <2> QED BY <1>2, RecordsKeepCounts, SameIsReflexive, SameIsShaped
<1>4. \/ AddLocalMinPolygon(s, d, e, is_new) = SetSides(s3, record, d, e)
      \/ AddLocalMinPolygon(s, d, e, is_new) = SetSides(s3, record, e, d)
  BY DEF AddLocalMinPolygon
<1> HIDE DEF s1, s2, s3, record
<1>5. SameWinding(s3, AddLocalMinPolygon(s, d, e, is_new))
  <2>1. Shaped(s3)
    BY <1>3, SameIsShaped
  <2>2. SameWinding(s3, SetSides(s3, record, d, e)) /\ SameWinding(s3, SetSides(s3, record, e, d))
    BY <2>1, RecordsKeepCounts
  <2> QED BY <1>4, <2>2, Zenon
<1> QED BY <1>1, <1>2, <1>3, <1>5, SameIsTransitive

LEMMA SplitKeepsCounts ==
  ASSUME NEW s, Shaped(s), NEW e
  PROVE  SameWinding(s, SplitIfJoined(s, e))
<1> DEFINE left  == IF s.edge[e].join_with = "Right" THEN e ELSE PrevInAel(s, e)
           right == IF s.edge[e].join_with = "Right" THEN NextInAel(s, e) ELSE e
           s1 == [s EXCEPT !.edge[left].join_with = "NoJoin", !.edge[right].join_with = "NoJoin"]
<1>1. SameWinding(s, s1)
  <2> HIDE DEF left, right
  <2> QED BY SameLabels
<1>2. SplitJoinedEdge(s, e) = AddLocalMinPolygon(s1, left, right, TRUE)
  BY DEF SplitJoinedEdge
<1>3. SameWinding(s, SplitJoinedEdge(s, e))
  <2> HIDE DEF s1, left, right
  <2>1. SameWinding(s1, AddLocalMinPolygon(s1, left, right, TRUE))
    BY <1>1, AddLocalMinKeepsCounts, SameIsShaped
  <2> QED BY <1>1, <1>2, <2>1, SameIsTransitive
<1> QED BY <1>3, SameIsReflexive DEF SplitIfJoined

LEMMA JoinPathsKeepsCounts ==
  ASSUME NEW s, Shaped(s), NEW d, NEW e
  PROVE  SameWinding(s, JoinOutrecPaths(s, d, e))
<1> DEFINE r1 == s.edge[d].outrec
           r2 == s.edge[e].outrec
           heir == IF IsFront(s, d) THEN s.front[r2] ELSE s.back[r2]
           s1 == IF IsFront(s, d) THEN [s EXCEPT !.front[r1] = heir] ELSE [s EXCEPT !.back[r1] = heir]
           s2 == InheritSide(s, d, e)
           s3 == EmptyRecord(s2, r2)
           s4 == SetOwner(s3, r2, r1)
<1>1. SameWinding(s, s1)
  <2> HIDE DEF r1, heir
  <2> QED BY RecordsKeepCounts
<1>2. SameWinding(s1, s2)
  <2>1. s2 = IF heir = NoEdge THEN s1 ELSE [s1 EXCEPT !.edge[heir].outrec = r1]
    BY DEF InheritSide
  <2> HIDE DEF s1, s2, heir, r1
  <2> QED BY <1>1, <2>1, SameLabel, SameIsReflexive, SameIsShaped
<1>3. SameWinding(s2, s3)
  <2> HIDE DEF s2, r2
  <2> QED BY <1>2, RecordsKeepCounts, SameIsShaped
<1>4. SameWinding(s3, s4)
  <2> HIDE DEF s3, r1, r2
  <2> QED BY <1>3, RecordsKeepCounts, SameIsShaped
<1>5. JoinOutrecPaths(s, d, e) = [s4 EXCEPT !.edge[d].outrec = NoRecord, !.edge[e].outrec = NoRecord]
  BY DEF JoinOutrecPaths
<1> HIDE DEF s1, s2, s3, s4
<1>6. SameWinding(s4, JoinOutrecPaths(s, d, e))
  <2>1. Shaped(s4)
    BY <1>4, SameIsShaped
  <2>2. SameWinding(s4, [s4 EXCEPT !.edge[d].outrec = NoRecord, !.edge[e].outrec = NoRecord])
    BY <2>1, SameLabels
  <2> QED BY <1>5, <2>2, Zenon
<1>7. SameWinding(s, s3)
  BY <1>1, <1>2, <1>3, SameIsTransitive
<1> QED BY <1>4, <1>6, <1>7, SameIsTransitive

LEMMA CloseKeepsCounts ==
  ASSUME NEW s, Shaped(s), NEW e
  PROVE  SameWinding(s, CloseRecord(s, e))
<1> DEFINE record == s.edge[e].outrec
           previous_hot == PreviousHotEdge(s, e)
           s1 == IF ~UsingPolytree THEN s
                 ELSE IF previous_hot = NoEdge THEN [s EXCEPT !.owner[record] = NoRecord]
                 ELSE SetOwner(s, record, s.edge[previous_hot].outrec)
           s2 == UncoupleOutrec(s1, record)
           owner == s2.owner[record]
<1>1. SameWinding(s, s1)
  <2> HIDE DEF record, previous_hot
  <2> QED BY RecordsKeepCounts, SameIsReflexive
<1>2. SameWinding(s1, s2)
  <2> HIDE DEF s1, record
  <2> QED BY <1>1, UncoupleKeepsCounts, SameIsShaped
<1>3. \/ CloseRecord(s, e) = s2
      \/ CloseRecord(s, e) = [s2 EXCEPT !.owner[record] = GetRealOutrec(s2, owner)]
  BY DEF CloseRecord
<1> HIDE DEF s1, s2, record
<1>4. SameWinding(s2, CloseRecord(s, e))
  <2>1. Shaped(s2)
    BY <1>2, SameIsShaped
  <2>2. SameWinding(s2, s2) /\ SameWinding(s2, [s2 EXCEPT !.owner[record] = GetRealOutrec(s2, owner)])
    BY <2>1, RecordsKeepCounts, SameIsReflexive
  <2> QED BY <1>3, <2>2, Zenon
<1> QED BY <1>1, <1>2, <1>4, SameIsTransitive

LEMMA AddLocalMaxKeepsCounts ==
  ASSUME NEW s, Shaped(s), NEW d, NEW e
  PROVE  SameWinding(s, AddLocalMaxPolygon(s, d, e))
<1> DEFINE t1 == SplitIfJoined(s, d)
           t == SplitIfJoined(t1, e)
<1>1. SameWinding(s, t)
  <2>1. SameWinding(s, t1)
    BY SplitKeepsCounts
  <2> HIDE DEF t1
  <2>2. SameWinding(t1, t)
    BY <2>1, SplitKeepsCounts, SameIsShaped
  <2> QED BY <2>1, <2>2, SameIsTransitive
<1>2. AddLocalMaxPolygon(s, d, e) \in {[t EXCEPT !.succeeded = FALSE], CloseRecord(t, d),
                                      JoinOutrecPaths(t, d, e), JoinOutrecPaths(t, e, d)}
  BY DEF AddLocalMaxPolygon
<1> HIDE DEF t
<1>3. Shaped(t)
  BY <1>1, SameIsShaped
<1>4. SameWinding(t, [t EXCEPT !.succeeded = FALSE])
  BY <1>3, RecordsKeepCounts
<1>5. SameWinding(t, CloseRecord(t, d)) /\ SameWinding(t, JoinOutrecPaths(t, d, e))
        /\ SameWinding(t, JoinOutrecPaths(t, e, d))
  BY <1>3, CloseKeepsCounts, JoinPathsKeepsCounts
<1>6. SameWinding(t, AddLocalMaxPolygon(s, d, e))
  BY <1>2, <1>4, <1>5
<1> QED BY <1>1, <1>6, SameIsTransitive

LEMMA CheckJoinKeepsCounts ==
  ASSUME NEW s, Shaped(s), NEW e, NEW collinear
  PROVE  /\ SameWinding(s, CheckJoinLeft(s, e, collinear))
         /\ SameWinding(s, CheckJoinRight(s, e, collinear))
<1>1. \A left, right : SameWinding(s, JoinEdges(s, left, right))
  <2> TAKE left, right
  <2> DEFINE s1 == IF s.edge[left].outrec = s.edge[right].outrec
                   THEN AddLocalMaxPolygon(s, left, right)
                   ELSE IF s.edge[left].outrec < s.edge[right].outrec
                   THEN JoinOutrecPaths(s, left, right) ELSE JoinOutrecPaths(s, right, left)
  <2>1. SameWinding(s, s1)
    BY AddLocalMaxKeepsCounts, JoinPathsKeepsCounts
  <2>2. JoinEdges(s, left, right) =
          [s1 EXCEPT !.edge[left].join_with = "Right", !.edge[right].join_with = "Left"]
    BY DEF JoinEdges
  <2> HIDE DEF s1
  <2>3. SameWinding(s1, JoinEdges(s, left, right))
    <3>1. Shaped(s1)
      BY <2>1, SameIsShaped
    <3>2. SameWinding(s1, [s1 EXCEPT !.edge[left].join_with = "Right",
                                     !.edge[right].join_with = "Left"])
      BY <3>1, SameLabels
    <3> QED BY <2>2, <3>2, Zenon
  <2> QED BY <2>1, <2>3, SameIsTransitive
<1>2. SameWinding(s, s)
  BY SameIsReflexive
<1> QED BY <1>1, <1>2 DEF CheckJoinLeft, CheckJoinRight

LEMMA CrossOutputKeepsCounts ==
  ASSUME NEW s, Shaped(s), NEW d, NEW e
  PROVE  SameWinding(s, CrossOutput(s, d, e))
<1> DEFINE t == AddLocalMaxPolygon(s, d, e)
           u == AddLocalMinPolygon(t, d, e, FALSE)
           v == SwapOutrecs(s, d, e)
           w == AddLocalMinPolygon(s, d, e, FALSE)
<1>1. SameWinding(s, t) /\ SameWinding(s, v) /\ SameWinding(s, w) /\ SameWinding(s, s)
  <2>1. SameWinding(s, w)
    BY AddLocalMinKeepsCounts
  <2>2. SameWinding(s, t) /\ SameWinding(s, v)
    BY AddLocalMaxKeepsCounts, SwapOutrecsKeepsCounts
  <2> QED BY <2>1, <2>2, SameIsReflexive
<1>2. SameWinding(s, u)
  <2> HIDE DEF t
  <2>1. SameWinding(t, u)
    BY <1>1, AddLocalMinKeepsCounts, SameIsShaped
  <2> QED BY <1>1, <2>1, SameIsTransitive
<1>3. CrossOutput(s, d, e) \in {s, t, u, v, w}
  BY DEF CrossOutput
<1> HIDE DEF t, u, v, w
<1> QED BY <1>1, <1>2, <1>3

LEMMA UpdateEdgeKeepsCounts ==
  ASSUME NEW s, Shaped(s), NEW e, NEW horizontal, NEW join_left, NEW join_right
  PROVE  SameWinding(s, UpdateEdgeIntoAel(s, e, horizontal, join_left, join_right))
<1> DEFINE s1 == [s EXCEPT !.edge[e].horizontal = horizontal]
           s2 == SplitIfJoined(s1, e)
           s3 == CheckJoinLeft(s2, e, join_left)
           s4 == CheckJoinRight(s3, e, join_right)
<1>1. UpdateEdgeIntoAel(s, e, horizontal, join_left, join_right) \in {s2, s4}
  BY DEF UpdateEdgeIntoAel
<1>2. SameWinding(s, s1)
  BY SameLabel
<1>3. SameWinding(s1, s2)
  <2> HIDE DEF s1
  <2> QED BY <1>2, SplitKeepsCounts, SameIsShaped
<1>4. SameWinding(s2, s3)
  <2> HIDE DEF s2
  <2> QED BY <1>3, CheckJoinKeepsCounts, SameIsShaped
<1>5. SameWinding(s3, s4)
  <2> HIDE DEF s3
  <2> QED BY <1>4, CheckJoinKeepsCounts, SameIsShaped
<1> HIDE DEF s1, s2, s3, s4
<1>6. SameWinding(s, s2)
  BY <1>2, <1>3, SameIsTransitive
<1>7. SameWinding(s, s4)
  BY <1>4, <1>5, <1>6, SameIsTransitive
<1> QED BY <1>1, <1>6, <1>7

-----------------------------------------------------------------------------
(* The winding of a region as a running sum over the list.                 *)

LEMMA Least ==
  ASSUME NEW T, T \subseteq Nat, T # {}
  PROVE  \E n \in T : \A m \in T : n <= m
<1>1. PICK n \in T : \A m \in T : ~(<<m, n>> \in OpToRel(<, Nat))
  BY NatLessThanWellFounded, WFMin, Zenon
<1>2. \A m \in T : ~(m < n)
  BY <1>1 DEF OpToRel
<1> QED
  BY <1>2

Other(polytype) == IF polytype = "Subject" THEN "Clip" ELSE "Subject"

\* The term of position i in the sum of one path type.
Term(s, i, polytype) ==
  IF s.edge[s.actives[i]].polytype = polytype THEN s.edge[s.actives[i]].wind_dx ELSE 0

\* The positions of a set whose edges are of a path type and a direction.
Bounds(s, S, polytype, dx) ==
  {j \in S : s.edge[s.actives[j]].polytype = polytype /\ s.edge[s.actives[j]].wind_dx = dx}

SumOver(s, S, polytype) ==
  Cardinality(Bounds(s, S, polytype, 1)) - Cardinality(Bounds(s, S, polytype, -1))

LEMMA EdgeOfPosition ==
  ASSUME NEW s, StateType(s), NEW i \in 1 .. Count(s)
  PROVE  /\ s.actives[i] \in Edge
         /\ s.edge[s.actives[i]].polytype \in {"Subject", "Clip"}
         /\ s.edge[s.actives[i]].wind_dx \in {-1, 1}
         /\ s.edge[s.actives[i]].winding_count \in Int
         /\ s.edge[s.actives[i]].wind_cnt2 \in Int
         /\ \A t : Term(s, i, t) \in {-1, 0, 1}
<1>1. s.actives[i] \in Edge
  BY DEF StateType, Count
<1>2. s.edge[s.actives[i]] \in EdgeType
  BY <1>1 DEF StateType
<1>3. s.edge[s.actives[i]].wind_dx \in {-1, 1}
  BY <1>2 DEF EdgeType
<1> QED BY <1>1, <1>2, <1>3 DEF EdgeType, Term

LEMMA BoundsFinite ==
  ASSUME NEW s, NEW a \in Int, NEW b \in Int, NEW t, NEW dx
  PROVE  /\ IsFiniteSet(Bounds(s, a .. b, t, dx))
         /\ Cardinality(Bounds(s, a .. b, t, dx)) \in Nat
<1>1. Bounds(s, a .. b, t, dx) \subseteq a .. b
  BY DEF Bounds
<1> QED BY <1>1, FS_Interval, FS_Subset, FS_CardinalityType

LEMMA SumStep ==
  ASSUME NEW s, StateType(s), NEW a \in 1 .. Count(s) + 1, NEW b \in a .. Count(s), NEW t
  PROVE  /\ SumOver(s, a .. (a - 1), t) = 0
         /\ SumOver(s, a .. b, t) \in Int
         /\ SumOver(s, a .. b, t) = SumOver(s, a .. (b - 1), t) + Term(s, b, t)
<1>0. Count(s) \in Nat /\ a \in Int /\ b \in Int /\ b \in 1 .. Count(s)
  BY DEF StateType, Count
<1>1. SumOver(s, a .. (a - 1), t) = 0
  <2>1. Bounds(s, a .. (a - 1), t, 1) = {} /\ Bounds(s, a .. (a - 1), t, -1) = {}
    BY <1>0 DEF Bounds
  <2>2. Cardinality({}) = 0
    BY FS_EmptySet
  <2>3. SumOver(s, a .. (a - 1), t) = Cardinality({}) - Cardinality({})
    BY ONLY <2>1, Zenon DEF SumOver
  <2> QED BY <2>2, <2>3
<1> DEFINE old(dx) == Bounds(s, a .. (b - 1), t, dx)
           new(dx) == Bounds(s, a .. b, t, dx)
           mine(dx) == s.edge[s.actives[b]].polytype = t /\ s.edge[s.actives[b]].wind_dx = dx
<1>2. a .. b = (a .. (b - 1)) \cup {b} /\ b \notin a .. (b - 1)
  BY <1>0
<1>3. \A dx : new(dx) = IF mine(dx) THEN old(dx) \cup {b} ELSE old(dx)
  BY <1>2 DEF Bounds
<1>4. \A dx : IsFiniteSet(old(dx)) /\ Cardinality(old(dx)) \in Nat /\ b \notin old(dx)
  <2>1. \A dx : b \notin old(dx)
    BY <1>2 DEF Bounds
  <2> QED BY <1>0, <2>1, BoundsFinite
<1>5. \A dx : Cardinality(new(dx)) = IF mine(dx) THEN Cardinality(old(dx)) + 1
                                     ELSE Cardinality(old(dx))
  <2> HIDE DEF old, new, mine
  <2> QED BY <1>3, <1>4, FS_AddElement
<1>6. s.edge[s.actives[b]].wind_dx \in {-1, 1}
  BY <1>0, EdgeOfPosition
<1>7. /\ Cardinality(old(1)) \in Nat /\ Cardinality(old(-1)) \in Nat
      /\ Cardinality(new(1)) = IF mine(1) THEN Cardinality(old(1)) + 1 ELSE Cardinality(old(1))
      /\ Cardinality(new(-1)) = IF mine(-1) THEN Cardinality(old(-1)) + 1
                                ELSE Cardinality(old(-1))
  BY <1>4, <1>5
<1>8. /\ SumOver(s, a .. b, t) = Cardinality(new(1)) - Cardinality(new(-1))
      /\ SumOver(s, a .. (b - 1), t) = Cardinality(old(1)) - Cardinality(old(-1))
  BY DEF SumOver
<1> HIDE DEF old, new
<1>9. Cardinality(new(1)) - Cardinality(new(-1))
        = Cardinality(old(1)) - Cardinality(old(-1)) + Term(s, b, t)
  BY <1>6, <1>7 DEF Term
<1>10. Cardinality(new(1)) - Cardinality(new(-1)) \in Int
  BY <1>7
<1> QED BY <1>1, <1>8, <1>9, <1>10

LEMMA RegionIsSum ==
  ASSUME NEW s, NEW i, NEW t
  PROVE  RegionWinding(s, i, t) = SumOver(s, 1 .. i, t)
  BY DEF RegionWinding, SumOver, Bounds

LEMMA RegionStep ==
  ASSUME NEW s, StateType(s), NEW t
  PROVE  /\ RegionWinding(s, 0, t) = 0
         /\ \A i \in 0 .. Count(s) : RegionWinding(s, i, t) \in Int
         /\ \A i \in 1 .. Count(s) :
              RegionWinding(s, i, t) = RegionWinding(s, i - 1, t) + Term(s, i, t)
<1>0. Count(s) \in Nat
  BY DEF StateType, Count
<1>1. RegionWinding(s, 0, t) = 0
  <2>1. Bounds(s, 1 .. 0, t, 1) = {} /\ Bounds(s, 1 .. 0, t, -1) = {}
    BY DEF Bounds
  <2>2. Cardinality({}) = 0
    BY FS_EmptySet
  <2> QED BY <2>1, <2>2, RegionIsSum DEF SumOver
<1>2. ASSUME NEW i \in 1 .. Count(s)
      PROVE  /\ RegionWinding(s, i, t) \in Int
             /\ RegionWinding(s, i, t) = RegionWinding(s, i - 1, t) + Term(s, i, t)
  <2>1. 1 \in 1 .. Count(s) + 1 /\ i \in 1 .. Count(s)
    BY <1>0
  <2>2. /\ SumOver(s, 1 .. i, t) \in Int
        /\ SumOver(s, 1 .. i, t) = SumOver(s, 1 .. (i - 1), t) + Term(s, i, t)
    BY <2>1, SumStep
  <2> QED BY <2>2, RegionIsSum
<1>3. ASSUME NEW i \in 0 .. Count(s) PROVE RegionWinding(s, i, t) \in Int
  <2>1. CASE i = 0
    BY <1>1, <2>1
  <2>2. CASE i # 0
    BY <1>0, <1>2, <2>2
  <2> QED BY <2>1, <2>2
<1> QED BY <1>1, <1>2, <1>3

\* Over m positions, from p + 1 in s and from q + 1 in u.
TermsAgree(s, u, t, p, q, m) == \A k \in 1 .. m : Term(u, q + k, t) = Term(s, p + k, t)
SumsAgree(s, u, t, p, q, m) ==
  \A k \in 0 .. m : RegionWinding(u, q + k, t) = RegionWinding(s, p + k, t)

\* Two lists whose terms agree over a stretch, and whose sums agree at its
\* start, have the same sums over the stretch.
LEMMA SumsFollow ==
  ASSUME NEW s, StateType(s), NEW u, StateType(u), NEW t,
         NEW p \in 0 .. Count(s), NEW q \in 0 .. Count(u), NEW m \in Nat,
         p + m <= Count(s), q + m <= Count(u),
         RegionWinding(u, q, t) = RegionWinding(s, p, t), TermsAgree(s, u, t, p, q, m)
  PROVE  SumsAgree(s, u, t, p, q, m)
<1>0. Count(s) \in Nat /\ Count(u) \in Nat /\ p \in Nat /\ q \in Nat
  BY DEF StateType, Count
<1> DEFINE T == {k \in 0 .. m : RegionWinding(u, q + k, t) # RegionWinding(s, p + k, t)}
<1> SUFFICES ASSUME T # {} PROVE FALSE
  BY DEF SumsAgree
<1>1. PICK k \in T : \A j \in T : k <= j
  <2>1. T \subseteq Nat
    OBVIOUS
  <2> HIDE DEF T
  <2> QED BY <2>1, Least
<1>2. k \in 1 .. m
  <2>1. p + 0 = p /\ q + 0 = q
    BY <1>0
  <2>2. k # 0
    BY <1>1, <2>1
  <2> QED BY <1>1, <2>2
<1>3. RegionWinding(u, q + (k - 1), t) = RegionWinding(s, p + (k - 1), t)
  <2>1. k - 1 \in 0 .. m /\ ~(k <= k - 1)
    BY <1>2
  <2> QED BY <1>1, <2>1
<1>4. /\ p + k \in 1 .. Count(s) /\ q + k \in 1 .. Count(u)
      /\ p + (k - 1) = (p + k) - 1 /\ q + (k - 1) = (q + k) - 1
  BY <1>0, <1>2
<1>5. /\ RegionWinding(s, p + k, t) = RegionWinding(s, p + (k - 1), t) + Term(s, p + k, t)
      /\ RegionWinding(u, q + k, t) = RegionWinding(u, q + (k - 1), t) + Term(u, q + k, t)
  BY <1>4, RegionStep
<1> QED BY <1>1, <1>2, <1>3, <1>5 DEF TermsAgree

LEMMA SumsBefore ==
  ASSUME NEW s, StateType(s), NEW u, StateType(u), NEW t,
         NEW m \in Nat, m <= Count(s), m <= Count(u),
         \A k \in 1 .. m : Term(u, k, t) = Term(s, k, t)
  PROVE  \A k \in 0 .. m : RegionWinding(u, k, t) = RegionWinding(s, k, t)
<1> DEFINE z == 0
<1>0. Count(s) \in Nat /\ Count(u) \in Nat
  BY DEF StateType, Count
<1>1. /\ z \in 0 .. Count(s) /\ z \in 0 .. Count(u) /\ z + m <= Count(s) /\ z + m <= Count(u)
      /\ \A k \in 0 .. m : z + k = k
  BY <1>0
<1>2. RegionWinding(u, z, t) = RegionWinding(s, z, t)
  BY RegionStep
<1>3. TermsAgree(s, u, t, z, z, m)
  BY DEF TermsAgree
<1> HIDE DEF z
<1>4. SumsAgree(s, u, t, z, z, m)
  BY <1>1, <1>2, <1>3, SumsFollow
<1> QED BY <1>1, <1>4 DEF SumsAgree

\* The rest of the list, moved by d positions.
MovedTerms(s, u, t, p, d) == \A j \in p + 1 .. Count(s) : Term(u, j + d, t) = Term(s, j, t)
MovedSums(s, u, t, p, d) ==
  \A j \in p .. Count(s) : RegionWinding(u, j + d, t) = RegionWinding(s, j, t)

LEMMA SumsAfter ==
  ASSUME NEW s, StateType(s), NEW u, StateType(u), NEW t,
         NEW p \in 0 .. Count(s), NEW d \in Int, p + d >= 0, Count(u) = Count(s) + d,
         RegionWinding(u, p + d, t) = RegionWinding(s, p, t), MovedTerms(s, u, t, p, d)
  PROVE  MovedSums(s, u, t, p, d)
<1> DEFINE q == p + d
           m == Count(s) - p
<1>0. Count(s) \in Nat /\ Count(u) \in Nat
  BY DEF StateType, Count
<1>1. q \in 0 .. Count(u) /\ m \in Nat /\ p + m <= Count(s) /\ q + m <= Count(u)
  BY <1>0
<1>2. TermsAgree(s, u, t, p, q, m)
  <2>1. \A k \in 1 .. m : p + k \in p + 1 .. Count(s) /\ q + k = (p + k) + d
    BY <1>0
  <2> HIDE DEF q, m
  <2> QED BY <2>1 DEF TermsAgree, MovedTerms
<1>3. RegionWinding(u, q, t) = RegionWinding(s, p, t)
  OBVIOUS
<1>4. \A j \in p .. Count(s) : j - p \in 0 .. m /\ p + (j - p) = j /\ q + (j - p) = j + d
  BY <1>0
<1> HIDE DEF q, m
<1>5. SumsAgree(s, u, t, p, q, m)
  BY <1>1, <1>2, <1>3, SumsFollow
<1> QED
  <2> SUFFICES ASSUME NEW j \in p .. Count(s)
               PROVE  RegionWinding(u, j + d, t) = RegionWinding(s, j, t)
    BY DEF MovedSums
  <2>1. RegionWinding(u, q + (j - p), t) = RegionWinding(s, p + (j - p), t)
    BY <1>4, <1>5 DEF SumsAgree
  <2> QED BY <1>4, <2>1

\* Terms that are all zero leave the sum as it is.
LEMMA SumsRest ==
  ASSUME NEW s, StateType(s), NEW t, NEW p \in 0 .. Count(s), NEW q \in p .. Count(s),
         \A k \in p + 1 .. q : Term(s, k, t) = 0
  PROVE  RegionWinding(s, q, t) = RegionWinding(s, p, t)
<1>0. Count(s) \in Nat /\ p \in Nat
  BY DEF StateType, Count
<1> DEFINE T == {k \in p .. q : RegionWinding(s, k, t) # RegionWinding(s, p, t)}
<1> SUFFICES ASSUME T # {} PROVE FALSE
  OBVIOUS
<1>1. PICK k \in T : \A j \in T : k <= j
  <2>1. T \subseteq Nat
    BY <1>0
  <2> HIDE DEF T
  <2> QED BY <2>1, Least
<1>2. k \in p + 1 .. q
  BY <1>0, <1>1
<1>3. RegionWinding(s, k - 1, t) = RegionWinding(s, p, t)
  <2>1. k - 1 \in p .. q /\ ~(k <= k - 1)
    BY <1>0, <1>2
  <2> QED BY <1>1, <2>1
<1>4. k \in 1 .. Count(s) /\ k - 1 \in 0 .. Count(s)
  BY <1>0, <1>2
<1>5. RegionWinding(s, k, t) = RegionWinding(s, k - 1, t) + Term(s, k, t)
  BY <1>4, RegionStep
<1>6. RegionWinding(s, k - 1, t) \in Int /\ Term(s, k, t) = 0
  BY <1>2, <1>4, RegionStep
<1> QED BY <1>1, <1>3, <1>5, <1>6

-----------------------------------------------------------------------------
(* The counts of one edge against the windings on its two sides.           *)

Far(a, b) == IF Abs(a) > Abs(b) THEN a ELSE b

CountsMatch(fillrule, e, left, right, opposite) ==
  IF fillrule = "EvenOdd"
  THEN /\ e.winding_count \in {-1, 1}
       /\ e.wind_cnt2 = opposite % 2
  ELSE /\ e.winding_count = Far(left, right)
       /\ e.wind_cnt2 = opposite

MatchesAt(s, i) ==
  LET e == s.edge[s.actives[i]]
  IN  CountsMatch(s.fillrule, e, RegionWinding(s, i - 1, e.polytype),
                  RegionWinding(s, i, e.polytype), RegionWinding(s, i, Other(e.polytype)))

Matches(s) == \A i \in 1 .. Count(s) : MatchesAt(s, i)

LEMMA ListDomain ==
  ASSUME NEW s, StateType(s)
  PROVE  DOMAIN s.actives = 1 .. Count(s) /\ Count(s) \in Nat
  BY DEF StateType, Count

LEMMA MatchesIsWinding ==
  ASSUME StateType(state)
  PROVE  WindingMatchesRegions <=> Matches(state)
<1>1. DOMAIN state.actives = 1 .. Count(state)
  BY ListDomain
<1> QED
  BY <1>1 DEF WindingMatchesRegions, Matches, MatchesAt, CountsMatch, Far, Other

\* An edge whose counts and whose regions are those of a matching one matches.
LEMMA MatchCarries ==
  ASSUME NEW s, NEW u, NEW i, NEW k, MatchesAt(s, i), u.fillrule = s.fillrule,
         SameCounts(s.edge[s.actives[i]], u.edge[u.actives[k]]),
         \A t \in {"Subject", "Clip"} :
           /\ RegionWinding(u, k - 1, t) = RegionWinding(s, i - 1, t)
           /\ RegionWinding(u, k, t) = RegionWinding(s, i, t),
         s.edge[s.actives[i]].polytype \in {"Subject", "Clip"}
  PROVE  MatchesAt(u, k)
<1> DEFINE t == s.edge[s.actives[i]].polytype
<1>1. Other(t) \in {"Subject", "Clip"} /\ t \in {"Subject", "Clip"}
  BY DEF Other
<1> QED BY <1>1 DEF MatchesAt, SameCounts, CountsMatch

LEMMA SameSums ==
  ASSUME NEW s, StateType(s), NEW u, SameWinding(s, u), NEW i \in 0 .. Count(s), NEW t
  PROVE  RegionWinding(u, i, t) = RegionWinding(s, i, t)
<1>1. \A j \in 1 .. i : s.actives[j] \in Edge /\ u.actives[j] = s.actives[j]
  <2>1. \A j \in 1 .. i : j \in 1 .. Count(s)
    BY ListDomain
  <2> QED BY <2>1, EdgeOfPosition DEF SameWinding
<1>2. \A j \in 1 .. i : /\ s.edge[s.actives[j]].polytype = u.edge[u.actives[j]].polytype
                        /\ s.edge[s.actives[j]].wind_dx = u.edge[u.actives[j]].wind_dx
  BY <1>1 DEF SameWinding, SameCounts
<1>3. Bounds(s, 1 .. i, t, 1) = Bounds(u, 1 .. i, t, 1)
  BY <1>2 DEF Bounds
<1>4. Bounds(s, 1 .. i, t, -1) = Bounds(u, 1 .. i, t, -1)
  BY <1>2 DEF Bounds
<1> QED BY <1>3, <1>4, RegionIsSum DEF SumOver

LEMMA SameMatches ==
  ASSUME NEW s, StateType(s), NEW u, SameWinding(s, u), Matches(s)
  PROVE  Matches(u)
<1>1. Count(u) = Count(s) /\ Count(s) \in Nat
  BY ListDomain DEF SameWinding, Count
<1>2. ASSUME NEW i \in 1 .. Count(s) PROVE MatchesAt(u, i)
  <2>1. MatchesAt(s, i) /\ u.fillrule = s.fillrule
    BY DEF Matches, SameWinding
  <2>2. /\ s.actives[i] \in Edge /\ u.actives[i] = s.actives[i]
        /\ s.edge[s.actives[i]].polytype \in {"Subject", "Clip"}
    BY EdgeOfPosition DEF SameWinding
  <2>3. SameCounts(s.edge[s.actives[i]], u.edge[u.actives[i]])
    BY <2>2 DEF SameWinding
  <2>4. i \in 0 .. Count(s) /\ i - 1 \in 0 .. Count(s)
    BY <1>1
  <2>5. \A t \in {"Subject", "Clip"} :
           /\ RegionWinding(u, i - 1, t) = RegionWinding(s, i - 1, t)
           /\ RegionWinding(u, i, t) = RegionWinding(s, i, t)
    BY <2>4, SameSums
  <2> QED BY <2>1, <2>2, <2>3, <2>5, MatchCarries
<1> QED BY <1>1, <1>2 DEF Matches

-----------------------------------------------------------------------------
(* Arithmetic of the counts.                                               *)

PlusCount(count, dx) == IF count + dx = 0 THEN -count ELSE count + dx
Toggled(count) == IF count = 0 THEN 1 ELSE 0

\* Passing an edge shifts both sides of the count by its direction.
LEMMA PlusShifts ==
  ASSUME NEW a \in Int, NEW d \in {-1, 1}, NEW x \in {-1, 1}
  PROVE  PlusCount(Far(a, a + d), x) = Far(a + x, a + d + x)
<1>1. CASE d = 1 /\ x = 1
  BY <1>1 DEF PlusCount, Far, Abs
<1>2. CASE d = 1 /\ x = -1
  BY <1>2 DEF PlusCount, Far, Abs
<1>3. CASE d = -1 /\ x = 1
  BY <1>3 DEF PlusCount, Far, Abs
<1>4. CASE d = -1 /\ x = -1
  BY <1>4 DEF PlusCount, Far, Abs
<1> QED BY <1>1, <1>2, <1>3, <1>4

LEMMA FarIsSymmetric ==
  ASSUME NEW a \in Int, NEW d \in {-1, 1}
  PROVE  Far(a, a + d) = Far(a + d, a)
<1>1. CASE d = 1
  BY <1>1 DEF Far, Abs
<1>2. CASE d = -1
  BY <1>2 DEF Far, Abs
<1> QED BY <1>1, <1>2

LEMMA ToggleIsParity ==
  ASSUME NEW n \in Int, NEW x \in {-1, 1}
  PROVE  Toggled(n % 2) = (n + x) % 2
  BY DEF Toggled

\* set_wind_count: the count next to a known one of the same type, in all the
\* cases of NextWindingCount.
LEMMA NextCount ==
  ASSUME NEW s, NEW e, NEW b \in Int, NEW d \in {-1, 1}, NEW x \in {-1, 1},
         s.fillrule # "EvenOdd", s.edge[e].wind_dx = d,
         s.edge[e].winding_count = Far(b - d, b)
  PROVE  NextWindingCount(s, e, x) = Far(b, b + x)
<1> DEFINE c == Far(b - d, b)
<1>1. NextWindingCount(s, e, x) = IF c * d < 0 /\ Abs(c) <= 1 THEN x
                                  ELSE c + (IF d * x < 0 THEN 0 ELSE x)
  BY DEF NextWindingCount
<1>2. CASE d = 1 /\ x = 1
  BY <1>1, <1>2 DEF Far, Abs
<1>3. CASE d = 1 /\ x = -1
  BY <1>1, <1>3 DEF Far, Abs
<1>4. CASE d = -1 /\ x = 1
  BY <1>1, <1>4 DEF Far, Abs
<1>5. CASE d = -1 /\ x = -1
  BY <1>1, <1>5 DEF Far, Abs
<1> QED BY <1>2, <1>3, <1>4, <1>5

-----------------------------------------------------------------------------
(* A crossing exchanges two neighbours and adjusts their counts.           *)

\* What update_wind_counts does to the edges d and e, d left of e.
CountsCross(s, u, d, e) ==
  LET f == s.edge[d]
      g == s.edge[e]
      f2 == u.edge[d]
      g2 == u.edge[e]
  IN  /\ f2.polytype = f.polytype /\ f2.wind_dx = f.wind_dx
      /\ g2.polytype = g.polytype /\ g2.wind_dx = g.wind_dx
      /\ f.polytype = g.polytype => f2.wind_cnt2 = f.wind_cnt2 /\ g2.wind_cnt2 = g.wind_cnt2
      /\ f.polytype # g.polytype =>
           f2.winding_count = f.winding_count /\ g2.winding_count = g.winding_count
      /\ f.polytype = g.polytype /\ s.fillrule = "EvenOdd" =>
           f2.winding_count = g.winding_count /\ g2.winding_count = f.winding_count
      /\ f.polytype = g.polytype /\ s.fillrule # "EvenOdd" =>
           /\ f2.winding_count = PlusCount(f.winding_count, g.wind_dx)
           /\ g2.winding_count = PlusCount(g.winding_count, -f.wind_dx)
      /\ f.polytype # g.polytype /\ s.fillrule # "EvenOdd" =>
           f2.wind_cnt2 = f.wind_cnt2 + g.wind_dx /\ g2.wind_cnt2 = g.wind_cnt2 - f.wind_dx
      /\ f.polytype # g.polytype /\ s.fillrule = "EvenOdd" =>
           f2.wind_cnt2 = Toggled(f.wind_cnt2) /\ g2.wind_cnt2 = Toggled(g.wind_cnt2)

\* Every edge but d and e keeps its counts.
OthersKeep(s, u, d, e) ==
  /\ Shaped(u) /\ u.fillrule = s.fillrule
  /\ \A x \in Edge \ {d, e} : SameCounts(s.edge[x], u.edge[x])

\* The counts of d and e become x and y, those of the other type v and w.
Rewritten(s, u, d, e, x, y, v, w) ==
  /\ OthersKeep(s, u, d, e) /\ u.actives = s.actives
  /\ u.edge[d].winding_count = x /\ u.edge[e].winding_count = y
  /\ u.edge[d].wind_cnt2 = v /\ u.edge[e].wind_cnt2 = w
  /\ u.edge[d].polytype = s.edge[d].polytype /\ u.edge[e].polytype = s.edge[e].polytype
  /\ u.edge[d].wind_dx = s.edge[d].wind_dx /\ u.edge[e].wind_dx = s.edge[e].wind_dx

OwnCounts(s, d, e, x, y) == [s EXCEPT !.edge[d].winding_count = x, !.edge[e].winding_count = y]
OtherCounts(s, d, e, x, y) == [s EXCEPT !.edge[d].wind_cnt2 = x, !.edge[e].wind_cnt2 = y]

LEMMA CountUpdates ==
  ASSUME NEW s, Shaped(s), NEW d \in Edge, NEW e \in Edge, d # e, NEW x, NEW y
  PROVE  /\ Rewritten(s, OwnCounts(s, d, e, x, y), d, e, x, y,
                      s.edge[d].wind_cnt2, s.edge[e].wind_cnt2)
         /\ Rewritten(s, OtherCounts(s, d, e, x, y), d, e,
                      s.edge[d].winding_count, s.edge[e].winding_count, x, y)
<1>1. ASSUME NEW u, NEW f, NEW g, DOMAIN u = DOMAIN s, u.actives = s.actives,
             u.fillrule = s.fillrule,
             u.edge = [s.edge EXCEPT ![d] = f, ![e] = g],
             CountFields \subseteq DOMAIN f, CountFields \subseteq DOMAIN g
      PROVE  OthersKeep(s, u, d, e) /\ u.edge[d] = f /\ u.edge[e] = g
  <2>1. DOMAIN u.edge = Edge
    BY <1>1 DEF Shaped
  <2>2. u.edge[d] = f /\ u.edge[e] = g /\ \A z \in Edge \ {d, e} : u.edge[z] = s.edge[z]
    BY <1>1 DEF Shaped
  <2>3. \A z \in Edge : CountFields \subseteq DOMAIN u.edge[z]
    BY <1>1, <2>2 DEF Shaped
  <2>4. Shaped(u)
    BY <1>1, <2>1, <2>3 DEF Shaped
  <2> QED BY <1>1, <2>2, <2>4 DEF OthersKeep, SameCounts
<1> DEFINE f1 == [s.edge[d] EXCEPT !.winding_count = x]
           g1 == [s.edge[e] EXCEPT !.winding_count = y]
           f2 == [s.edge[d] EXCEPT !.wind_cnt2 = x]
           g2 == [s.edge[e] EXCEPT !.wind_cnt2 = y]
           u1 == OwnCounts(s, d, e, x, y)
           u2 == OtherCounts(s, d, e, x, y)
<1>2. \A z \in {f1, g1, f2, g2} : CountFields \subseteq DOMAIN z
  BY DEF Shaped
<1>3. /\ DOMAIN u1 = DOMAIN s /\ u1.actives = s.actives /\ u1.fillrule = s.fillrule
      /\ u1.edge = [s.edge EXCEPT ![d] = f1, ![e] = g1]
  BY DEF Shaped, OwnCounts
<1>4. /\ DOMAIN u2 = DOMAIN s /\ u2.actives = s.actives /\ u2.fillrule = s.fillrule
      /\ u2.edge = [s.edge EXCEPT ![d] = f2, ![e] = g2]
  BY DEF Shaped, OtherCounts
<1>5. OthersKeep(s, u1, d, e) /\ u1.edge[d] = f1 /\ u1.edge[e] = g1
  <2> HIDE DEF f1, g1, f2, g2, u1, u2
  <2> QED BY <1>1, <1>2, <1>3
<1>6. OthersKeep(s, u2, d, e) /\ u2.edge[d] = f2 /\ u2.edge[e] = g2
  <2> HIDE DEF f1, g1, f2, g2, u1, u2
  <2> QED BY <1>1, <1>2, <1>4
<1>7. /\ f1.winding_count = x /\ f1.wind_cnt2 = s.edge[d].wind_cnt2
      /\ f1.polytype = s.edge[d].polytype /\ f1.wind_dx = s.edge[d].wind_dx
      /\ g1.winding_count = y /\ g1.wind_cnt2 = s.edge[e].wind_cnt2
      /\ g1.polytype = s.edge[e].polytype /\ g1.wind_dx = s.edge[e].wind_dx
  BY DEF Shaped, CountFields
<1>8. /\ f2.wind_cnt2 = x /\ f2.winding_count = s.edge[d].winding_count
      /\ f2.polytype = s.edge[d].polytype /\ f2.wind_dx = s.edge[d].wind_dx
      /\ g2.wind_cnt2 = y /\ g2.winding_count = s.edge[e].winding_count
      /\ g2.polytype = s.edge[e].polytype /\ g2.wind_dx = s.edge[e].wind_dx
  BY DEF Shaped, CountFields
<1> HIDE DEF f1, g1, f2, g2, u1, u2
<1>9. Rewritten(s, u1, d, e, x, y, s.edge[d].wind_cnt2, s.edge[e].wind_cnt2)
  BY <1>3, <1>5, <1>7 DEF Rewritten
<1>10. Rewritten(s, u2, d, e, s.edge[d].winding_count, s.edge[e].winding_count, x, y)
  BY <1>4, <1>6, <1>8 DEF Rewritten
<1> QED BY <1>9, <1>10 DEF u1, u2

LEMMA UpdateCrosses ==
  ASSUME NEW s, Shaped(s), NEW d \in Edge, NEW e \in Edge, d # e
  PROVE  LET u == UpdateWindCounts(s, d, e)
         IN  OthersKeep(s, u, d, e) /\ u.actives = s.actives /\ CountsCross(s, u, d, e)
<1> DEFINE f == s.edge[d]
           g == s.edge[e]
           u == UpdateWindCounts(s, d, e)
           m1 == PlusCount(f.winding_count, g.wind_dx)
           n1 == PlusCount(g.winding_count, -f.wind_dx)
           m2 == f.wind_cnt2 + g.wind_dx
           n2 == g.wind_cnt2 - f.wind_dx
           m3 == Toggled(f.wind_cnt2)
           n3 == Toggled(g.wind_cnt2)
<1>3. CASE f.polytype = g.polytype /\ s.fillrule = "EvenOdd"
  <2>1. u = OwnCounts(s, d, e, g.winding_count, f.winding_count)
    BY <1>3 DEF UpdateWindCounts, OwnCounts
  <2>2. Rewritten(s, OwnCounts(s, d, e, g.winding_count, f.winding_count), d, e,
                  g.winding_count, f.winding_count, f.wind_cnt2, g.wind_cnt2)
    BY CountUpdates
  <2>3. Rewritten(s, u, d, e, g.winding_count, f.winding_count, f.wind_cnt2, g.wind_cnt2)
    BY ONLY <2>1, <2>2
  <2> HIDE DEF u
  <2> QED BY <1>3, <2>3 DEF CountsCross, Rewritten, u
<1>4. CASE f.polytype = g.polytype /\ s.fillrule # "EvenOdd"
  <2>1. u = OwnCounts(s, d, e, m1, n1)
    BY <1>4 DEF UpdateWindCounts, PlusCount, OwnCounts
  <2> HIDE DEF u
  <2>3. Rewritten(s, u, d, e, m1, n1, f.wind_cnt2, g.wind_cnt2)
    <3> HIDE DEF m1, n1
    <3> QED BY <2>1, CountUpdates
  <2> QED BY <1>4, <2>3 DEF CountsCross, Rewritten, u
<1>5. CASE f.polytype # g.polytype /\ s.fillrule # "EvenOdd"
  <2>1. u = OtherCounts(s, d, e, m2, n2)
    BY <1>5 DEF UpdateWindCounts, OtherCounts
  <2> HIDE DEF u
  <2>3. Rewritten(s, u, d, e, f.winding_count, g.winding_count, m2, n2)
    <3> HIDE DEF m2, n2
    <3> QED BY <2>1, CountUpdates
  <2> QED BY <1>5, <2>3 DEF CountsCross, Rewritten, u
<1>6. CASE f.polytype # g.polytype /\ s.fillrule = "EvenOdd"
  <2>1. u = OtherCounts(s, d, e, m3, n3)
    BY <1>6 DEF UpdateWindCounts, Toggled, OtherCounts
  <2> HIDE DEF u
  <2>3. Rewritten(s, u, d, e, f.winding_count, g.winding_count, m3, n3)
    <3> HIDE DEF m3, n3
    <3> QED BY <2>1, CountUpdates
  <2> QED BY <1>6, <2>3 DEF CountsCross, Rewritten, u
<1> QED BY <1>3, <1>4, <1>5, <1>6

\* The whole crossing, seen by the counts.
LEMMA CrossCounts ==
  ASSUME NEW s, StateType(s), NEW d \in Edge, NEW e \in Edge, d # e
  PROVE  LET u == Cross(s, d, e)
         IN  OthersKeep(s, u, d, e) /\ CountsCross(s, u, d, e)
<1> DEFINE t1 == SplitIfJoined(s, d)
           t2 == SplitIfJoined(t1, e)
           t3 == UpdateWindCounts(t2, d, e)
           t4 == CrossOutput(t3, d, e)
           u == SwapPositions(t4, d, e)
<1>0. Shaped(s)
  BY TypedIsShaped
<1>1. SameWinding(s, t1)
  BY <1>0, SplitKeepsCounts
<1>2. SameWinding(t1, t2)
  <2> HIDE DEF t1
  <2> QED BY <1>1, SameIsShaped, SplitKeepsCounts
<1>3. SameWinding(s, t2)
  BY ONLY <1>1, <1>2, SameIsTransitive
<1>4. OthersKeep(t2, t3, d, e) /\ CountsCross(t2, t3, d, e)
  <2> HIDE DEF t2
  <2>1. Shaped(t2)
    BY <1>3, SameIsShaped
  <2> QED BY <2>1, UpdateCrosses
<1>5. SameWinding(t3, t4)
  <2> HIDE DEF t3
  <2>1. Shaped(t3)
    BY <1>4 DEF OthersKeep
  <2> QED BY <2>1, CrossOutputKeepsCounts
<1>6. Cross(s, d, e) = u
  BY DEF Cross, IntersectEdges
<1> HIDE DEF t1, t2, t3, t4
<1>7. u.edge = t4.edge /\ u.fillrule = t4.fillrule /\ Shaped(u)
  <2>1. Shaped(t4)
    BY <1>5, SameIsShaped
  <2>2. DOMAIN u = DOMAIN t4 /\ u.edge = t4.edge /\ u.fillrule = t4.fillrule
    BY <2>1 DEF SwapPositions, Shaped
  <2> QED BY <2>1, <2>2 DEF Shaped
<1> HIDE DEF u
<1>8. OthersKeep(s, u, d, e)
  <2>1. u.fillrule = s.fillrule
    BY <1>3, <1>4, <1>5, <1>7 DEF SameWinding, OthersKeep
  <2>2. ASSUME NEW x \in Edge \ {d, e} PROVE SameCounts(s.edge[x], u.edge[x])
    <3>1. SameCounts(s.edge[x], t2.edge[x]) /\ SameCounts(t3.edge[x], t4.edge[x])
      BY <1>3, <1>5 DEF SameWinding
    <3>2. SameCounts(t2.edge[x], t3.edge[x])
      BY <1>4 DEF OthersKeep
    <3> QED BY <1>7, <3>1, <3>2 DEF SameCounts
  <2> QED BY <1>7, <2>1, <2>2 DEF OthersKeep
<1>9. CountsCross(s, u, d, e)
  <2>1. /\ SameCounts(s.edge[d], t2.edge[d]) /\ SameCounts(s.edge[e], t2.edge[e])
        /\ SameCounts(t3.edge[d], u.edge[d]) /\ SameCounts(t3.edge[e], u.edge[e])
        /\ t2.fillrule = s.fillrule
    BY <1>3, <1>5, <1>7 DEF SameWinding
  <2> QED BY <1>4, <2>1, SMTT(60) DEF CountsCross, SameCounts
<1> QED BY <1>6, <1>8, <1>9

\* The sums after the edges of positions i and i + 1 were exchanged.
LEMMA ExchangedSums ==
  ASSUME NEW s, StateType(s), NEW u, StateType(u), NEW i \in 1 .. Count(s) - 1, NEW t,
         Count(u) = Count(s),
         \A j \in (1 .. Count(s)) \ {i, i + 1} : Term(u, j, t) = Term(s, j, t),
         Term(u, i, t) = Term(s, i + 1, t), Term(u, i + 1, t) = Term(s, i, t)
  PROVE  /\ \A j \in (0 .. Count(s)) \ {i} : RegionWinding(u, j, t) = RegionWinding(s, j, t)
         /\ RegionWinding(u, i, t) = RegionWinding(s, i - 1, t) + Term(s, i + 1, t)
<1>0. /\ Count(s) \in Nat /\ i \in 1 .. Count(s) /\ i + 1 \in 1 .. Count(s) /\ i - 1 \in Nat
      /\ 0 \in 0 .. Count(s)
  BY ListDomain
<1>1. \A k \in 0 .. i - 1 : RegionWinding(u, k, t) = RegionWinding(s, k, t)
  <2> DEFINE m == i - 1
  <2>1. m \in Nat /\ m <= Count(s) /\ m <= Count(u)
    BY <1>0
  <2>2. \A k \in 1 .. m : Term(u, k, t) = Term(s, k, t)
    BY <1>0
  <2> HIDE DEF m
  <2>3. \A k \in 0 .. m : RegionWinding(u, k, t) = RegionWinding(s, k, t)
    BY <2>1, <2>2, SumsBefore
  <2> QED BY <2>3 DEF m
<1>2. RegionWinding(u, i, t) = RegionWinding(s, i - 1, t) + Term(s, i + 1, t)
  <2>1. RegionWinding(u, i, t) = RegionWinding(u, i - 1, t) + Term(u, i, t)
    BY <1>0, RegionStep
  <2>2. i - 1 \in 0 .. i - 1
    BY <1>0
  <2> QED BY <1>1, <2>1, <2>2
<1>3. RegionWinding(u, i + 1, t) = RegionWinding(s, i + 1, t)
  <2>1. /\ RegionWinding(u, i + 1, t) = RegionWinding(u, (i + 1) - 1, t) + Term(u, i + 1, t)
        /\ RegionWinding(s, i + 1, t) = RegionWinding(s, (i + 1) - 1, t) + Term(s, i + 1, t)
        /\ RegionWinding(s, i, t) = RegionWinding(s, i - 1, t) + Term(s, i, t)
    BY <1>0, RegionStep
  <2>2. (i + 1) - 1 = i /\ i - 1 \in 0 .. Count(s)
    BY <1>0
  <2>3. RegionWinding(s, i - 1, t) \in Int
    BY <2>2, RegionStep
  <2>4. Term(s, i, t) \in Int /\ Term(s, i + 1, t) \in Int
    BY <1>0, EdgeOfPosition
  <2> QED BY <1>2, <2>1, <2>2, <2>3, <2>4
<1>4. \A j \in i + 1 .. Count(s) : RegionWinding(u, j, t) = RegionWinding(s, j, t)
  <2> DEFINE p == i + 1
             d == 0
  <2>1. /\ p \in 0 .. Count(s) /\ d \in Int /\ p + d >= 0 /\ p + d = p /\ Count(u) = Count(s) + d
        /\ \A j \in p .. Count(s) : j + d = j
    BY <1>0
  <2>2. MovedTerms(s, u, t, p, d)
    <3>1. \A j \in p + 1 .. Count(s) : j \in (1 .. Count(s)) \ {i, i + 1} /\ j + d = j
      BY <1>0
    <3> QED BY <3>1 DEF MovedTerms
  <2>3. RegionWinding(u, p + d, t) = RegionWinding(s, p, t)
    BY <1>3, <2>1
  <2> HIDE DEF p, d
  <2>4. MovedSums(s, u, t, p, d)
    BY <2>1, <2>2, <2>3, SumsAfter
  <2>5. \A j \in p .. Count(s) : RegionWinding(u, j, t) = RegionWinding(s, j, t)
    BY <2>1, <2>4 DEF MovedSums
  <2> QED BY <2>5 DEF p
<1>5. \A j \in (0 .. Count(s)) \ {i} : j \in 0 .. i - 1 \/ j \in i + 1 .. Count(s)
  BY <1>0
<1> QED BY <1>1, <1>2, <1>4, <1>5

\* The two edges of the crossing match their new positions: a and b are the
\* windings on its left.
LEMMA CrossedSame ==
  ASSUME NEW s, NEW u, NEW d, NEW e, NEW a \in Int, NEW b \in Int, CountsCross(s, u, d, e),
         NEW x \in {-1, 1}, NEW y \in {-1, 1},
         s.edge[d].wind_dx = x, s.edge[e].wind_dx = y, s.edge[d].polytype = s.edge[e].polytype,
         CountsMatch(s.fillrule, s.edge[d], a, a + x, b),
         CountsMatch(s.fillrule, s.edge[e], a + x, a + x + y, b)
  PROVE  /\ CountsMatch(s.fillrule, u.edge[e], a, a + y, b)
         /\ CountsMatch(s.fillrule, u.edge[d], a + y, a + x + y, b)
<1> DEFINE f == s.edge[d]
           g == s.edge[e]
           f2 == u.edge[d]
           g2 == u.edge[e]
<1>0. -x \in {-1, 1} /\ a + x \in Int
  OBVIOUS
<1>1. CASE s.fillrule = "EvenOdd"
  BY <1>1 DEF CountsMatch, CountsCross
<1>2. CASE s.fillrule # "EvenOdd"
  <2>1. f2.winding_count = PlusCount(Far(a, a + x), y)
    BY <1>2 DEF CountsMatch, CountsCross
  <2>2. g2.winding_count = PlusCount(Far(a + x, (a + x) + y), -x)
    BY <1>2 DEF CountsMatch, CountsCross
  <2>3. PlusCount(Far(a, a + x), y) = Far(a + y, a + x + y)
    BY <1>0, PlusShifts
  <2>4. PlusCount(Far(a + x, (a + x) + y), -x) = Far((a + x) + (-x), (a + x) + y + (-x))
    <3> DEFINE c == a + x
    <3>1. c \in Int
      BY <1>0
    <3> HIDE DEF c
    <3>2. PlusCount(Far(c, c + y), -x) = Far(c + (-x), c + y + (-x))
      BY <1>0, <3>1, PlusShifts
    <3> QED BY <3>2 DEF c
  <2>5. (a + x) + (-x) = a /\ (a + x) + y + (-x) = a + y
    BY <1>0
  <2>6. f2.winding_count = Far(a + y, a + x + y) /\ g2.winding_count = Far(a, a + y)
    BY ONLY <2>1, <2>2, <2>3, <2>4, <2>5
  <2>7. f2.wind_cnt2 = b /\ g2.wind_cnt2 = b
    BY <1>2 DEF CountsMatch, CountsCross
  <2> QED BY <1>2, <2>6, <2>7 DEF CountsMatch
<1> QED BY <1>1, <1>2

LEMMA CrossedDifferent ==
  ASSUME NEW s, NEW u, NEW d, NEW e, NEW a \in Int, NEW b \in Int, CountsCross(s, u, d, e),
         NEW x \in {-1, 1}, NEW y \in {-1, 1},
         s.edge[d].wind_dx = x, s.edge[e].wind_dx = y, s.edge[d].polytype # s.edge[e].polytype,
         CountsMatch(s.fillrule, s.edge[d], a, a + x, b),
         CountsMatch(s.fillrule, s.edge[e], b, b + y, a + x)
  PROVE  /\ CountsMatch(s.fillrule, u.edge[e], b, b + y, a)
         /\ CountsMatch(s.fillrule, u.edge[d], a, a + x, b + y)
<1> DEFINE f == s.edge[d]
           g == s.edge[e]
           f2 == u.edge[d]
           g2 == u.edge[e]
<1>0. -x \in {-1, 1} /\ a + x \in Int /\ (a + x) + (-x) = a /\ (a + x) - x = a
  OBVIOUS
<1>1. CASE s.fillrule # "EvenOdd"
  <2>1. f2.wind_cnt2 = b + y /\ g2.wind_cnt2 = (a + x) - x
    BY <1>1 DEF CountsMatch, CountsCross
  <2>2. f2.winding_count = Far(a, a + x) /\ g2.winding_count = Far(b, b + y)
    BY <1>1 DEF CountsMatch, CountsCross
  <2> QED BY <1>0, <1>1, <2>1, <2>2 DEF CountsMatch
<1>2. CASE s.fillrule = "EvenOdd"
  <2>1. f2.wind_cnt2 = Toggled(b % 2) /\ g2.wind_cnt2 = Toggled((a + x) % 2)
    BY <1>2 DEF CountsMatch, CountsCross
  <2>2. Toggled(b % 2) = (b + y) % 2
    BY <1>0, ToggleIsParity
  <2>3. Toggled((a + x) % 2) = ((a + x) + (-x)) % 2
    BY <1>0, ToggleIsParity
  <2>4. f2.wind_cnt2 = (b + y) % 2 /\ g2.wind_cnt2 = a % 2
    BY ONLY <1>0, <2>1, <2>2, <2>3
  <2>5. f2.winding_count \in {-1, 1} /\ g2.winding_count \in {-1, 1}
    BY <1>2 DEF CountsMatch, CountsCross
  <2> QED BY <1>2, <2>4, <2>5 DEF CountsMatch
<1> QED BY <1>1, <1>2

LEMMA CrossMatches ==
  ASSUME NEW s, StateType(s), IsInjective(s.actives), Matches(s), NEW i \in 1 .. Count(s) - 1
  PROVE  Matches(Cross(s, s.actives[i], s.actives[i + 1]))
<1> DEFINE d == s.actives[i]
           e == s.actives[i + 1]
           u == Cross(s, d, e)
           f == s.edge[d]
           g == s.edge[e]
           f2 == u.edge[d]
           g2 == u.edge[e]
           n == Count(s)
<1>0. /\ n \in Nat /\ DOMAIN s.actives = 1 .. n /\ i \in 1 .. n /\ i + 1 \in 1 .. n
      /\ i - 1 \in 0 .. n /\ i \in 0 .. n /\ (i + 1) - 1 = i /\ i # i + 1
  BY ListDomain
<1>1. d \in Edge /\ e \in Edge /\ d # e
  BY <1>0, EdgeOfPosition DEF IsInjective
<1>2. /\ StateType(u) /\ u.actives = [s.actives EXCEPT ![i] = e, ![i + 1] = d]
      /\ Count(u) = n
  <2>1. /\ StateType(u) /\ u.actives = [s.actives EXCEPT ![i] = e, ![i + 1] = d]
    BY <1>0, CrossIntact
  <2> HIDE DEF u, d, e
  <2>2. DOMAIN u.actives = DOMAIN s.actives
    BY <2>1
  <2>3. DOMAIN u.actives = 1 .. Count(u) /\ Count(u) \in Nat
    BY <2>1, ListDomain
  <2> QED BY <1>0, <2>1, <2>2, <2>3
<1>3. OthersKeep(s, u, d, e) /\ CountsCross(s, u, d, e)
  BY <1>1, CrossCounts
<1>4. /\ f.polytype \in {"Subject", "Clip"} /\ g.polytype \in {"Subject", "Clip"}
      /\ f.wind_dx \in {-1, 1} /\ g.wind_dx \in {-1, 1}
      /\ \A t : Term(s, i, t) = IF f.polytype = t THEN f.wind_dx ELSE 0
      /\ \A t : Term(s, i + 1, t) = IF g.polytype = t THEN g.wind_dx ELSE 0
  BY <1>0, EdgeOfPosition DEF Term
<1> HIDE DEF u
<1>5. /\ u.actives[i] = e /\ u.actives[i + 1] = d
      /\ \A j \in (1 .. n) \ {i, i + 1} :
           u.actives[j] = s.actives[j] /\ s.actives[j] \in Edge \ {d, e}
  <2>1. /\ u.actives[i] = e /\ u.actives[i + 1] = d
        /\ \A j \in (1 .. n) \ {i, i + 1} : u.actives[j] = s.actives[j]
    <3> HIDE DEF d, e, n
    <3> QED BY <1>0, <1>2
  <2>2. \A j \in (1 .. n) \ {i, i + 1} : s.actives[j] \in Edge \ {d, e}
    BY <1>0, EdgeOfPosition DEF IsInjective
  <2> QED BY <2>1, <2>2
<1>6. \A j \in (1 .. n) \ {i, i + 1} : SameCounts(s.edge[s.actives[j]], u.edge[u.actives[j]])
  BY <1>3, <1>5 DEF OthersKeep
<1>7. \A t : /\ \A j \in (1 .. n) \ {i, i + 1} : Term(u, j, t) = Term(s, j, t)
             /\ Term(u, i, t) = Term(s, i + 1, t) /\ Term(u, i + 1, t) = Term(s, i, t)
  <2> TAKE t
  <2>1. \A j \in (1 .. n) \ {i, i + 1} : Term(u, j, t) = Term(s, j, t)
    BY <1>6 DEF Term, SameCounts
  <2>2. Term(u, i, t) = Term(s, i + 1, t) /\ Term(u, i + 1, t) = Term(s, i, t)
    BY <1>3, <1>5 DEF Term, CountsCross
  <2> QED BY <2>1, <2>2
<1>8. \A t : /\ \A j \in (0 .. n) \ {i} : RegionWinding(u, j, t) = RegionWinding(s, j, t)
             /\ RegionWinding(u, i, t) = RegionWinding(s, i - 1, t) + Term(s, i + 1, t)
  BY <1>2, <1>7, ExchangedSums
<1>9. u.fillrule = s.fillrule
  BY <1>3 DEF OthersKeep
<1>10. ASSUME NEW j \in (1 .. n) \ {i, i + 1} PROVE MatchesAt(u, j)
  <2>1. MatchesAt(s, j)
    BY DEF Matches
  <2>2. j \in (0 .. n) \ {i} /\ j - 1 \in (0 .. n) \ {i} /\ j \in 1 .. n
    BY <1>0
  <2>3. \A t \in {"Subject", "Clip"} :
           /\ RegionWinding(u, j - 1, t) = RegionWinding(s, j - 1, t)
           /\ RegionWinding(u, j, t) = RegionWinding(s, j, t)
    BY <1>8, <2>2
  <2>4. s.edge[s.actives[j]].polytype \in {"Subject", "Clip"}
    BY <2>2, EdgeOfPosition
  <2>5. SameCounts(s.edge[s.actives[j]], u.edge[u.actives[j]])
    BY <1>6
  <2> HIDE DEF n
  <2> QED BY <1>9, <2>1, <2>3, <2>4, <2>5, MatchCarries
<1> DEFINE ft == f.polytype
           ot == Other(f.polytype)
           a == RegionWinding(s, i - 1, ft)
           b == RegionWinding(s, i - 1, ot)
           x == f.wind_dx
           y == g.wind_dx
<1>11. a \in Int /\ b \in Int
  BY <1>0, RegionStep
<1>12. /\ ft # ot /\ (g.polytype = ft \/ g.polytype = ot)
       /\ Other(ot) = ft
  BY <1>4 DEF Other
<1>13. \A t : /\ RegionWinding(s, i, t) = RegionWinding(s, i - 1, t) + Term(s, i, t)
              /\ RegionWinding(s, i + 1, t) = RegionWinding(s, i, t) + Term(s, i + 1, t)
  <2> TAKE t
  <2>1. \A k \in 1 .. n : RegionWinding(s, k, t) = RegionWinding(s, k - 1, t) + Term(s, k, t)
    BY RegionStep
  <2> QED BY <1>0, <2>1
<1>14. MatchesAt(s, i) /\ MatchesAt(s, i + 1)
  BY <1>0 DEF Matches
<1>15. RegionWinding(s, i, ft) = a + x /\ RegionWinding(s, i, ot) = b
  <2>1. Term(s, i, ft) = x /\ Term(s, i, ot) = 0
    BY <1>4, <1>12
  <2>2. /\ RegionWinding(s, i, ft) = a + Term(s, i, ft)
        /\ RegionWinding(s, i, ot) = b + Term(s, i, ot)
    BY <1>13
  <2> HIDE DEF a, b, x, ft, ot
  <2> QED BY <1>11, <2>1, <2>2
<1>16. CASE g.polytype = ft
  <2>1. Term(s, i + 1, ft) = y /\ Term(s, i + 1, ot) = 0
    BY <1>4, <1>12, <1>16
  <2>2. RegionWinding(s, i + 1, ft) = a + x + y /\ RegionWinding(s, i + 1, ot) = b
    <3>1. /\ RegionWinding(s, i + 1, ft) = RegionWinding(s, i, ft) + Term(s, i + 1, ft)
          /\ RegionWinding(s, i + 1, ot) = RegionWinding(s, i, ot) + Term(s, i + 1, ot)
      BY <1>13
    <3> HIDE DEF a, b, x, y, ft, ot
    <3> QED BY <1>11, <1>15, <2>1, <3>1
  <2>3. /\ RegionWinding(u, i - 1, ft) = a /\ RegionWinding(u, i, ft) = a + y
        /\ RegionWinding(u, i, ot) = b
        /\ RegionWinding(u, i + 1, ft) = a + x + y /\ RegionWinding(u, i + 1, ot) = b
    <3>1. i - 1 \in (0 .. n) \ {i} /\ i + 1 \in (0 .. n) \ {i}
      BY <1>0
    <3>2. RegionWinding(u, i, ft) = a + y /\ RegionWinding(u, i, ot) = b + 0
      BY <1>8, <2>1
    <3>3. /\ RegionWinding(u, i - 1, ft) = RegionWinding(s, i - 1, ft)
          /\ RegionWinding(u, i + 1, ft) = RegionWinding(s, i + 1, ft)
          /\ RegionWinding(u, i + 1, ot) = RegionWinding(s, i + 1, ot)
      BY <1>8, <3>1
    <3> QED BY <1>11, <2>2, <3>2, <3>3
  <2>4. CountsMatch(s.fillrule, f, a, a + x, b) /\ CountsMatch(s.fillrule, g, a + x, a + x + y, b)
    <3>1. CountsMatch(s.fillrule, f, RegionWinding(s, i - 1, ft), RegionWinding(s, i, ft),
                      RegionWinding(s, i, ot))
      BY <1>14 DEF MatchesAt
    <3>2. CountsMatch(s.fillrule, g, RegionWinding(s, i, ft), RegionWinding(s, i + 1, ft),
                      RegionWinding(s, i + 1, ot))
      BY <1>0, <1>14, <1>16 DEF MatchesAt
    <3> HIDE DEF x, y, f, g
    <3> QED BY <1>15, <2>2, <3>1, <3>2
  <2>5. CountsMatch(s.fillrule, g2, a, a + y, b) /\ CountsMatch(s.fillrule, f2, a + y, a + x + y, b)
    <3>1. f.polytype = g.polytype /\ x \in {-1, 1} /\ y \in {-1, 1}
      BY <1>4, <1>16
    <3>2. CountsCross(s, u, d, e)
      BY <1>3
    <3> HIDE DEF a, b, x, y, d, e
    <3> QED BY <1>11, <2>4, <3>1, <3>2, CrossedSame DEF x, y
  <2>6. f2.polytype = ft /\ g2.polytype = ft
    BY <1>3, <1>16 DEF CountsCross
  <2>7. MatchesAt(u, i) /\ MatchesAt(u, i + 1)
    <3>1. CountsMatch(u.fillrule, g2, RegionWinding(u, i - 1, ft), RegionWinding(u, i, ft),
                      RegionWinding(u, i, ot))
      BY <1>9, <2>3, <2>5
    <3>2. CountsMatch(u.fillrule, f2, RegionWinding(u, i, ft), RegionWinding(u, i + 1, ft),
                      RegionWinding(u, i + 1, ot))
      BY <1>9, <2>3, <2>5
    <3>3. MatchesAt(u, i)
      BY <1>5, <2>6, <3>1 DEF MatchesAt
    <3>4. MatchesAt(u, i + 1)
      BY <1>0, <1>5, <2>6, <3>2 DEF MatchesAt
    <3> QED BY <3>3, <3>4
  <2> QED BY <1>0, <1>2, <1>10, <2>7 DEF Matches, u
<1>17. CASE g.polytype = ot
  <2>1. Term(s, i + 1, ft) = 0 /\ Term(s, i + 1, ot) = y
    BY <1>4, <1>12, <1>17
  <2>2. RegionWinding(s, i + 1, ft) = a + x /\ RegionWinding(s, i + 1, ot) = b + y
    <3>1. /\ RegionWinding(s, i + 1, ft) = RegionWinding(s, i, ft) + Term(s, i + 1, ft)
          /\ RegionWinding(s, i + 1, ot) = RegionWinding(s, i, ot) + Term(s, i + 1, ot)
      BY <1>13
    <3>2. a + x \in Int
      BY <1>4, <1>11
    <3> HIDE DEF a, b, x, y, ft, ot
    <3> QED BY <1>11, <1>15, <2>1, <3>1, <3>2
  <2>3. /\ RegionWinding(u, i - 1, ot) = b /\ RegionWinding(u, i, ot) = b + y
        /\ RegionWinding(u, i, ft) = a
        /\ RegionWinding(u, i + 1, ft) = a + x /\ RegionWinding(u, i + 1, ot) = b + y
    <3>1. i - 1 \in (0 .. n) \ {i} /\ i + 1 \in (0 .. n) \ {i}
      BY <1>0
    <3>2. RegionWinding(u, i, ot) = b + y /\ RegionWinding(u, i, ft) = a + 0
      BY <1>8, <2>1
    <3>3. /\ RegionWinding(u, i - 1, ot) = RegionWinding(s, i - 1, ot)
          /\ RegionWinding(u, i + 1, ft) = RegionWinding(s, i + 1, ft)
          /\ RegionWinding(u, i + 1, ot) = RegionWinding(s, i + 1, ot)
      BY <1>8, <3>1
    <3> QED BY <1>11, <2>2, <3>2, <3>3
  <2>4. CountsMatch(s.fillrule, f, a, a + x, b) /\ CountsMatch(s.fillrule, g, b, b + y, a + x)
    <3>1. CountsMatch(s.fillrule, f, RegionWinding(s, i - 1, ft), RegionWinding(s, i, ft),
                      RegionWinding(s, i, ot))
      BY <1>14 DEF MatchesAt
    <3>2. CountsMatch(s.fillrule, g, RegionWinding(s, i, ot), RegionWinding(s, i + 1, ot),
                      RegionWinding(s, i + 1, ft))
      BY <1>0, <1>12, <1>14, <1>17 DEF MatchesAt
    <3> HIDE DEF x, y, f, g
    <3> QED BY <1>15, <2>2, <3>1, <3>2
  <2>5. CountsMatch(s.fillrule, g2, b, b + y, a) /\ CountsMatch(s.fillrule, f2, a, a + x, b + y)
    <3>1. f.polytype # g.polytype /\ x \in {-1, 1} /\ y \in {-1, 1}
      BY <1>4, <1>12, <1>17
    <3>2. CountsCross(s, u, d, e)
      BY <1>3
    <3> HIDE DEF a, b, x, y, d, e
    <3> QED BY <1>11, <2>4, <3>1, <3>2, CrossedDifferent DEF x, y
  <2>6. f2.polytype = ft /\ g2.polytype = ot
    BY <1>3, <1>17 DEF CountsCross
  <2>7. MatchesAt(u, i) /\ MatchesAt(u, i + 1)
    <3>1. CountsMatch(u.fillrule, g2, RegionWinding(u, i - 1, ot), RegionWinding(u, i, ot),
                      RegionWinding(u, i, ft))
      BY <1>9, <2>3, <2>5
    <3>2. CountsMatch(u.fillrule, f2, RegionWinding(u, i, ft), RegionWinding(u, i + 1, ft),
                      RegionWinding(u, i + 1, ot))
      BY <1>9, <2>3, <2>5
    <3>3. MatchesAt(u, i)
      BY <1>5, <1>12, <2>6, <3>1 DEF MatchesAt
    <3>4. MatchesAt(u, i + 1)
      BY <1>0, <1>5, <2>6, <3>2 DEF MatchesAt
    <3> QED BY <3>3, <3>4
  <2> QED BY <1>0, <1>2, <1>10, <2>7 DEF Matches, u
<1> QED BY <1>12, <1>16, <1>17

-----------------------------------------------------------------------------
(* set_wind_count_for_closed_path_edge: the counts of a bound just linked. *)

LEMMA LastIsGreatest ==
  ASSUME NEW s, StateType(s), NEW P \in SUBSET (1 .. Count(s))
  PROVE  \/ P = {} /\ LastOf(s, P) = NoEdge
         \/ \E q \in P : (\A j \in P : j <= q) /\ LastOf(s, P) = s.actives[q]
<1>0. Count(s) \in Nat
  BY ListDomain
<1>1. CASE P = {}
  BY <1>1 DEF LastOf
<1>2. CASE P # {}
  <2> DEFINE D == {c \in 0 .. Count(s) : \E j \in P : c = Count(s) - j}
  <2>1. D \subseteq Nat
    BY <1>0
  <2>2. D # {}
    <3>1. PICK j \in P : TRUE
      BY <1>2
    <3>2. Count(s) - j \in D
      BY <1>0
    <3> QED BY <3>2
  <2>3. PICK c \in D : \A m \in D : c <= m
    <3> HIDE DEF D
    <3> QED BY <2>1, <2>2, Least
  <2>4. PICK q \in P : c = Count(s) - q
    BY <2>3
  <2>5. \A j \in P : j <= q
    <3> SUFFICES ASSUME NEW j \in P PROVE j <= q
      OBVIOUS
    <3>1. Count(s) - j \in D /\ j \in Int /\ q \in Int
      BY <1>0
    <3>2. Count(s) - q <= Count(s) - j
      BY <2>3, <2>4, <3>1
    <3> QED BY <1>0, <3>1, <3>2
  <2> DEFINE g == CHOOSE i \in P : \A j \in P : j <= i
  <2>6. g \in P /\ \A j \in P : j <= g
    BY <2>5
  <2>7. LastOf(s, P) = s.actives[g]
    BY <2>5 DEF LastOf
  <2> HIDE DEF g
  <2> QED BY <2>6, <2>7
<1> QED BY <1>1, <1>2

LEMMA OppositeIsSum ==
  ASSUME NEW s, StateType(s), NEW S \in SUBSET (1 .. Count(s)), NEW T \in {"Subject", "Clip"}
  PROVE  OppositeWinding(s, S, T) = SumOver(s, S, Other(T))
<1>1. \A j \in S : s.edge[s.actives[j]].polytype # T <=> s.edge[s.actives[j]].polytype = Other(T)
  <2>1. \A j \in S : s.edge[s.actives[j]].polytype \in {"Subject", "Clip"}
    BY EdgeOfPosition
  <2> QED BY <2>1 DEF Other
<1> DEFINE with(dx) == {i \in S : /\ s.edge[s.actives[i]].polytype # T
                                  /\ s.edge[s.actives[i]].wind_dx = dx}
<1>2. with(1) = Bounds(s, S, Other(T), 1)
  BY <1>1 DEF Bounds
<1>3. with(-1) = Bounds(s, S, Other(T), -1)
  BY <1>1 DEF Bounds
<1>4. OppositeWinding(s, S, T) = Cardinality(with(1)) - Cardinality(with(-1))
  BY DEF OppositeWinding
<1> HIDE DEF with
<1> QED BY <1>2, <1>3, <1>4 DEF SumOver

LEMMA TogglesStep ==
  ASSUME NEW s, StateType(s), NEW a \in 1 .. Count(s) + 1, NEW b \in a .. Count(s),
         NEW T \in {"Subject", "Clip"}
  PROVE  /\ OppositeEdges(s, a .. (b - 1), T) \in Nat
         /\ OppositeEdges(s, a .. b, T)
              = OppositeEdges(s, a .. (b - 1), T) + (IF Term(s, b, Other(T)) = 0 THEN 0 ELSE 1)
<1>0. Count(s) \in Nat /\ a \in Int /\ b \in Int /\ b \in 1 .. Count(s)
  BY ListDomain
<1> DEFINE old == {i \in a .. (b - 1) : s.edge[s.actives[i]].polytype # T}
           new == {i \in a .. b : s.edge[s.actives[i]].polytype # T}
<1>1. a .. b = (a .. (b - 1)) \cup {b} /\ b \notin a .. (b - 1)
  BY <1>0
<1>2. new = IF s.edge[s.actives[b]].polytype # T THEN old \cup {b} ELSE old
  BY <1>1
<1>3. IsFiniteSet(old) /\ Cardinality(old) \in Nat /\ b \notin old
  <2>1. old \subseteq a .. (b - 1) /\ b - 1 \in Int
    BY <1>0
  <2>2. b \notin old
    BY <1>1
  <2> HIDE DEF old
  <2> QED BY <1>0, <2>1, <2>2, FS_Interval, FS_Subset, FS_CardinalityType
<1>4. s.edge[s.actives[b]].polytype # T <=> Term(s, b, Other(T)) # 0
  <2>1. /\ s.edge[s.actives[b]].polytype \in {"Subject", "Clip"}
        /\ s.edge[s.actives[b]].wind_dx \in {-1, 1}
    BY <1>0, EdgeOfPosition
  <2> QED BY <2>1 DEF Term, Other
<1>5. OppositeEdges(s, a .. (b - 1), T) = Cardinality(old)
        /\ OppositeEdges(s, a .. b, T) = Cardinality(new)
  BY DEF OppositeEdges
<1> HIDE DEF old, new
<1>6. CASE s.edge[s.actives[b]].polytype # T
  BY <1>2, <1>3, <1>4, <1>5, <1>6, FS_AddElement
<1>7. CASE ~(s.edge[s.actives[b]].polytype # T)
  BY <1>2, <1>3, <1>4, <1>5, <1>7
<1> QED BY <1>6, <1>7

\* The windings of the other type on the two sides of a stretch differ by its
\* sum, and by the parity of its edges.
Gap(s, q, r, T) ==
  /\ RegionWinding(s, r, Other(T))
       = RegionWinding(s, q, Other(T)) + OppositeWinding(s, q + 1 .. r, T)
  /\ OppositeWinding(s, q + 1 .. r, T) \in Int
  /\ OppositeEdges(s, q + 1 .. r, T) \in Nat
  /\ \E k \in Int : OppositeWinding(s, q + 1 .. r, T) = OppositeEdges(s, q + 1 .. r, T) + 2 * k

LEMMA GapsAreSums ==
  ASSUME NEW s, StateType(s), NEW T \in {"Subject", "Clip"}, NEW q \in 0 .. Count(s)
  PROVE  \A r \in q .. Count(s) : Gap(s, q, r, T)
<1>0. Count(s) \in Nat /\ q \in Nat /\ q + 1 \in 1 .. Count(s) + 1 /\ q + 1 \in Int
  BY ListDomain
<1> DEFINE D == {r \in q .. Count(s) : ~Gap(s, q, r, T)}
           O == Other(T)
<1> SUFFICES ASSUME D # {} PROVE FALSE
  OBVIOUS
<1>1. PICK r \in D : \A j \in D : r <= j
  <2>1. D \subseteq Nat
    BY <1>0
  <2> HIDE DEF D
  <2> QED BY <2>1, Least
<1>2. r # q
  <2> SUFFICES ASSUME r = q PROVE FALSE
    OBVIOUS
  <2>1. q + 1 .. q = {}
    BY <1>0
  <2>2. OppositeWinding(s, {}, T) = 0 /\ OppositeEdges(s, {}, T) = 0
    <3>1. Cardinality({}) = 0
      BY FS_EmptySet
    <3>2. Bounds(s, {}, O, 1) = {} /\ Bounds(s, {}, O, -1) = {}
      BY DEF Bounds
    <3>3. OppositeWinding(s, {}, T) = Cardinality({}) - Cardinality({})
      BY <3>2, OppositeIsSum DEF SumOver
    <3>4. OppositeEdges(s, {}, T) = Cardinality({})
      <4>1. {i \in {} : s.edge[s.actives[i]].polytype # T} = {}
        OBVIOUS
      <4> QED BY ONLY <4>1, Zenon DEF OppositeEdges
    <3> QED BY <3>1, <3>3, <3>4
  <2>3. RegionWinding(s, q, O) \in Int
    BY <1>0, RegionStep
  <2>4. Gap(s, q, q, T)
    <3>1. OppositeWinding(s, {}, T) = OppositeEdges(s, {}, T) + 2 * 0
      BY <2>2
    <3> QED BY <2>1, <2>2, <2>3, <3>1 DEF Gap
  <2> QED BY <1>1, <2>4
<1>3. /\ r \in q + 1 .. Count(s) /\ r - 1 \in q .. Count(s) /\ r \in 1 .. Count(s)
      /\ r - 1 \in 0 .. Count(s) /\ ~(r <= r - 1)
  BY <1>0, <1>1, <1>2
<1>4. Gap(s, q, r - 1, T)
  BY <1>1, <1>3
<1> DEFINE S0 == q + 1 .. (r - 1)
           S1 == q + 1 .. r
           w0 == OppositeWinding(s, S0, T)
           w1 == OppositeWinding(s, S1, T)
           c0 == OppositeEdges(s, S0, T)
           c1 == OppositeEdges(s, S1, T)
           term == Term(s, r, O)
<1>5. w1 \in Int /\ w1 = w0 + term
  <2>1. SumOver(s, S1, O) \in Int /\ SumOver(s, S1, O) = SumOver(s, S0, O) + Term(s, r, O)
    BY <1>0, <1>3, SumStep
  <2>2. S0 \in SUBSET (1 .. Count(s)) /\ S1 \in SUBSET (1 .. Count(s))
    BY <1>0, <1>3
  <2>3. w0 = SumOver(s, S0, O) /\ w1 = SumOver(s, S1, O)
    <3> HIDE DEF S0, S1
    <3> QED BY <2>2, OppositeIsSum
  <2> HIDE DEF w0, w1, S0, S1
  <2> QED BY <2>1, <2>3
<1>6. c0 \in Nat /\ c1 = c0 + (IF term = 0 THEN 0 ELSE 1)
  BY <1>0, <1>3, TogglesStep
<1>7. term \in {-1, 0, 1}
  BY <1>3, EdgeOfPosition
<1>8. RegionWinding(s, r, O) = RegionWinding(s, r - 1, O) + term
  BY <1>3, RegionStep
<1>9. RegionWinding(s, r - 1, O) = RegionWinding(s, q, O) + w0 /\ w0 \in Int
  BY <1>4 DEF Gap
<1>10. PICK k \in Int : w0 = c0 + 2 * k
  BY <1>4 DEF Gap
<1>11. RegionWinding(s, q, O) \in Int
  BY <1>0, RegionStep
<1>12. \E m \in Int : w1 = c1 + 2 * m
  <2> HIDE DEF w0, w1, c0, c1, term
  <2>1. CASE term = -1
    <3>1. w1 = c1 + 2 * (k - 1) /\ k - 1 \in Int
      BY <1>5, <1>6, <1>10, <2>1
    <3> QED BY <3>1
  <2>2. CASE term \in {0, 1}
    <3>1. w1 = c1 + 2 * k
      BY <1>5, <1>6, <1>10, <2>2
    <3> QED BY <3>1
  <2> QED BY <1>7, <2>1, <2>2
<1>13. RegionWinding(s, r, O) = RegionWinding(s, q, O) + w1
  <2> HIDE DEF w0, w1, term, O
  <2> QED BY <1>5, <1>7, <1>8, <1>9, <1>11
<1>14. c1 \in Nat
  BY <1>6
<1>15. Gap(s, q, r, T)
  BY <1>5, <1>12, <1>13, <1>14 DEF Gap
<1> QED BY <1>1, <1>15

\* The bound found at position q, 0 for none: no edge of the type is between.
LEMMA PreviousFound ==
  ASSUME NEW s, StateType(s), IsInjective(s.actives), NEW p \in 1 .. Count(s)
  PROVE  LET e == s.actives[p]
             previous == PreviousOfType(s, e)
             T == s.edge[e].polytype
         IN  \E q \in 0 .. p - 1 :
               /\ \A k \in q + 1 .. p - 1 : Term(s, k, T) = 0
               /\ q = 0 => previous = NoEdge
               /\ q # 0 => /\ previous = s.actives[q] /\ previous \in Edge
                           /\ s.edge[previous].polytype = T
<1> DEFINE e == s.actives[p]
           T == s.edge[e].polytype
           P == {i \in 1 .. PositionOf(s, e) - 1 : SamePolyType(s, s.actives[i], e)}
<1>0. Count(s) \in Nat /\ DOMAIN s.actives = 1 .. Count(s) /\ p \in Nat
  BY ListDomain
<1>1. PositionOf(s, e) = p
  BY <1>0, PositionIsUnique
<1>2. P = {i \in 1 .. p - 1 : s.edge[s.actives[i]].polytype = T}
  BY <1>1 DEF SamePolyType
<1>3. PreviousOfType(s, e) = LastOf(s, P)
  BY DEF PreviousOfType
<1>4. P \in SUBSET (1 .. Count(s))
  BY <1>0, <1>2
<1>5. \A k \in 1 .. p - 1 : k \notin P => Term(s, k, T) = 0
  BY <1>2 DEF Term
<1> HIDE DEF P
<1>6. CASE P = {} /\ LastOf(s, P) = NoEdge
  <2>1. 0 \in 0 .. p - 1 /\ \A k \in 0 + 1 .. p - 1 : Term(s, k, T) = 0
    BY <1>0, <1>5, <1>6
  <2> QED BY <1>3, <1>6, <2>1
<1>7. CASE \E q \in P : (\A j \in P : j <= q) /\ LastOf(s, P) = s.actives[q]
  <2>1. PICK q \in P : (\A j \in P : j <= q) /\ LastOf(s, P) = s.actives[q]
    BY <1>7
  <2>2. q \in 1 .. p - 1 /\ s.edge[s.actives[q]].polytype = T
    BY <1>2, <2>1
  <2>3. \A k \in q + 1 .. p - 1 : Term(s, k, T) = 0
    <3>1. \A k \in q + 1 .. p - 1 : k \in 1 .. p - 1 /\ ~(k <= q)
      BY <2>2
    <3> QED BY <1>5, <2>1, <3>1
  <2>4. q \in 0 .. p - 1 /\ q # 0 /\ q \in 1 .. Count(s)
    BY <1>0, <2>2
  <2>5. s.actives[q] \in Edge
    BY <2>4, EdgeOfPosition
  <2> QED BY <1>3, <2>1, <2>2, <2>3, <2>4, <2>5
<1> QED BY <1>4, <1>6, <1>7, LastIsGreatest

LEMMA WindCountSet ==
  ASSUME NEW s, StateType(s), IsInjective(s.actives), NEW p \in 1 .. Count(s),
         \A j \in 1 .. p - 1 : MatchesAt(s, j)
  PROVE  LET e == s.actives[p]
             previous == PreviousOfType(s, e)
             T == s.edge[e].polytype
             x == s.edge[e].wind_dx
             left == RegionWinding(s, p - 1, T)
             opposite == RegionWinding(s, p - 1, Other(T))
         IN  /\ s.fillrule = "EvenOdd" =>
                  /\ ClosedWindingCount(s, e, previous) \in {-1, 1}
                  /\ ClosedOppositeCount(s, e, previous) = opposite % 2
             /\ s.fillrule # "EvenOdd" =>
                  /\ ClosedWindingCount(s, e, previous) = Far(left, left + x)
                  /\ ClosedOppositeCount(s, e, previous) = opposite
<1> DEFINE e == s.actives[p]
           previous == PreviousOfType(s, e)
           T == s.edge[e].polytype
           O == Other(T)
           x == s.edge[e].wind_dx
           left == RegionWinding(s, p - 1, T)
           opposite == RegionWinding(s, p - 1, O)
<1>0. /\ Count(s) \in Nat /\ DOMAIN s.actives = 1 .. Count(s) /\ p \in Nat
      /\ p - 1 \in 0 .. Count(s)
  BY ListDomain
<1>1. T \in {"Subject", "Clip"} /\ x \in {-1, 1} /\ e \in Edge
  BY EdgeOfPosition
<1>2. PICK q \in 0 .. p - 1 :
        /\ \A k \in q + 1 .. p - 1 : Term(s, k, T) = 0
        /\ q = 0 => previous = NoEdge
        /\ q # 0 => previous = s.actives[q] /\ previous \in Edge /\ s.edge[previous].polytype = T
  BY PreviousFound
<1>3. q \in 0 .. Count(s) /\ p - 1 \in q .. Count(s) /\ q \in Nat
  BY <1>0
<1>4. left = RegionWinding(s, q, T) /\ left \in Int /\ opposite \in Int
  <2>1. RegionWinding(s, p - 1, T) = RegionWinding(s, q, T)
    BY <1>2, <1>3, SumsRest
  <2> QED BY <1>0, <2>1, RegionStep
<1>5. Gap(s, q, p - 1, T)
  BY <1>1, <1>3, GapsAreSums
<1>6. previous = NoEdge <=> q = 0
  BY <1>2, ActiveEdgesAssumption
<1>7. q # 0 => PositionOf(s, previous) = q
  <2>1. q # 0 => q \in DOMAIN s.actives
    BY <1>0, <1>3
  <2> QED BY <1>2, <2>1, PositionIsUnique
<1>8. PositionOf(s, e) = p
  BY <1>0, PositionIsUnique
<1> DEFINE between == q + 1 .. p - 1
           start == IF q = 0 THEN 0 ELSE s.edge[previous].wind_cnt2
           toggles == OppositeEdges(s, between, T)
           w == OppositeWinding(s, between, T)
           b == RegionWinding(s, q, O)
<1>9. ClosedOppositeCount(s, e, previous)
        = IF s.fillrule = "EvenOdd"
          THEN IF toggles % 2 = 0 THEN start ELSE IF start = 0 THEN 1 ELSE 0
          ELSE start + w
  <2>1. (IF previous = NoEdge THEN 1 ELSE PositionOf(s, previous) + 1) = q + 1
    BY <1>6, <1>7
  <2>2. (IF previous = NoEdge THEN 0 ELSE s.edge[previous].wind_cnt2) = start
    BY <1>6
  <2> HIDE DEF start, previous
  <2> QED BY <1>8, <2>1, <2>2 DEF ClosedOppositeCount
<1>10. /\ opposite = b + w /\ w \in Int /\ toggles \in Nat
       /\ \E k \in Int : w = toggles + 2 * k
  BY <1>5 DEF Gap
<1>11. b \in Int
  BY <1>3, RegionStep
<1>12. q # 0 => CountsMatch(s.fillrule, s.edge[previous], RegionWinding(s, q - 1, T), left, b)
  <2> SUFFICES ASSUME q # 0
               PROVE  CountsMatch(s.fillrule, s.edge[previous], RegionWinding(s, q - 1, T), left, b)
    OBVIOUS
  <2>1. q \in 1 .. p - 1
    BY <1>3
  <2>2. MatchesAt(s, q)
    BY <2>1
  <2>3. previous = s.actives[q] /\ s.edge[previous].polytype = T
    BY <1>2
  <2> HIDE DEF previous, T
  <2> QED BY <1>4, <2>2, <2>3 DEF MatchesAt
<1>13. q = 0 => RegionWinding(s, q, T) = 0 /\ b = 0
  BY RegionStep
<1>14. CASE s.fillrule = "EvenOdd"
  <2>1. ClosedWindingCount(s, e, previous) = x
    BY <1>14 DEF ClosedWindingCount, NextWindingCount
  <2>2. start = b % 2
    <3>1. CASE q = 0
      BY <1>13, <3>1
    <3>2. CASE q # 0
      BY <1>12, <1>14, <3>2 DEF CountsMatch
    <3> QED BY <3>1, <3>2
  <2>3. PICK k \in Int : w = toggles + 2 * k
    BY <1>10
  <2>4. (IF toggles % 2 = 0 THEN start ELSE IF start = 0 THEN 1 ELSE 0) = opposite % 2
    <3>1. opposite = b + w /\ toggles \in Int /\ b \in Int
      BY <1>10, <1>11
    <3> HIDE DEF opposite, b, w, toggles, start
    <3>2. opposite = b + toggles + 2 * k
      BY <2>3, <3>1
    <3>3. opposite % 2 = (b + toggles) % 2
      BY <3>1, <3>2
    <3>4. CASE toggles % 2 = 0
      <4>1. (b + toggles) % 2 = b % 2
        BY <3>1, <3>4
      <4> QED BY <2>2, <3>3, <3>4, <4>1
    <3>5. CASE toggles % 2 # 0
      <4>1. (b + toggles) % 2 = IF b % 2 = 0 THEN 1 ELSE 0
        BY <3>1, <3>5
      <4> QED BY <2>2, <3>3, <3>5, <4>1
    <3> QED BY <3>4, <3>5
  <2> QED BY <1>1, <1>9, <1>14, <2>1, <2>4
<1>15. CASE s.fillrule # "EvenOdd"
  <2>1. start = b
    <3>1. CASE q = 0
      BY <1>13, <3>1
    <3>2. CASE q # 0
      BY <1>12, <1>15, <3>2 DEF CountsMatch
    <3> QED BY <3>1, <3>2
  <2>2. ClosedOppositeCount(s, e, previous) = opposite
    <3> HIDE DEF start, b, w, opposite, toggles
    <3> QED BY <1>9, <1>10, <1>15, <2>1
  <2>3. ClosedWindingCount(s, e, previous) = Far(left, left + x)
    <3>1. CASE q = 0
      <4>1. ClosedWindingCount(s, e, previous) = x
        BY <1>6, <3>1 DEF ClosedWindingCount
      <4>2. left = 0
        BY <1>4, <1>13, <3>1
      <4>3. Far(0, 0 + x) = x
        BY <1>1 DEF Far, Abs
      <4> HIDE DEF left, x
      <4> QED BY <4>1, <4>2, <4>3
    <3>2. CASE q # 0
      <4> DEFINE d == s.edge[previous].wind_dx
      <4>1. ClosedWindingCount(s, e, previous) = NextWindingCount(s, previous, x)
        BY <1>6, <3>2 DEF ClosedWindingCount
      <4>2. q \in 1 .. Count(s)
        BY <1>3, <3>2
      <4>3. d \in {-1, 1} /\ Term(s, q, T) = d
        <5>1. previous = s.actives[q] /\ s.edge[previous].polytype = T
          BY <1>2, <3>2
        <5>2. s.edge[s.actives[q]].wind_dx \in {-1, 1}
          BY <4>2, EdgeOfPosition
        <5> HIDE DEF previous, T
        <5> QED BY <5>1, <5>2 DEF Term
      <4>4. RegionWinding(s, q - 1, T) = left - d
        <5>1. RegionWinding(s, q, T) = RegionWinding(s, q - 1, T) + Term(s, q, T)
          BY <4>2, RegionStep
        <5>2. q - 1 \in 0 .. Count(s)
          BY <1>0, <4>2
        <5>3. RegionWinding(s, q - 1, T) \in Int
          BY <5>2, RegionStep
        <5> HIDE DEF left, d, T
        <5> QED BY <1>4, <4>3, <5>1, <5>3
      <4>5. s.edge[previous].winding_count = Far(left - d, left)
        BY <1>12, <1>15, <3>2, <4>4 DEF CountsMatch
      <4>6. NextWindingCount(s, previous, x) = Far(left, left + x)
        <5>1. d = s.edge[previous].wind_dx
          OBVIOUS
        <5> HIDE DEF left, d, x, previous
        <5> QED BY <1>1, <1>4, <1>15, <4>3, <4>5, <5>1, NextCount
      <4> QED BY <4>1, <4>6
    <3> QED BY <3>1, <3>2
  <2> QED BY <1>15, <2>2, <2>3
<1> QED BY <1>14, <1>15

-----------------------------------------------------------------------------
(* Two neighbours whose terms cancel enter and leave the list.             *)

\* The edges of s at positions from .. to are those of u, moved by d.
EdgesMoved(s, u, from, to, d) ==
  \A j \in from .. to : SameCounts(s.edge[s.actives[j]], u.edge[u.actives[j + d]])

LEMMA MovedTermsFollow ==
  ASSUME NEW s, NEW u, NEW from, NEW to, NEW d, EdgesMoved(s, u, from, to, d), NEW t,
         NEW j \in from .. to
  PROVE  Term(u, j + d, t) = Term(s, j, t)
  BY DEF EdgesMoved, SameCounts, Term

\* Two edges enter side by side at positions p and p + 1.
PairComes(s, u, p) ==
  /\ Count(u) = Count(s) + 2 /\ u.fillrule = s.fillrule
  /\ EdgesMoved(s, u, 1, p - 1, 0) /\ EdgesMoved(s, u, p, Count(s), 2)

\* What the two carry: opposite directions, one count, that of their region.
FreshPair(s, p, e, f) ==
  /\ f.polytype = e.polytype /\ f.wind_dx = -e.wind_dx
  /\ f.winding_count = e.winding_count /\ f.wind_cnt2 = e.wind_cnt2
  /\ CountsMatch(s.fillrule, e, RegionWinding(s, p - 1, e.polytype),
                 RegionWinding(s, p - 1, e.polytype) + e.wind_dx,
                 RegionWinding(s, p - 1, Other(e.polytype)))

\* The sums left of the pair, between its two edges, and from the pair on.
SumsAround(s, u, p) ==
  /\ \A t : \A k \in 0 .. p - 1 : RegionWinding(u, k, t) = RegionWinding(s, k, t)
  /\ \A t : /\ RegionWinding(u, p, t) = RegionWinding(s, p - 1, t) + Term(u, p, t)
            /\ RegionWinding(u, p + 1, t) = RegionWinding(s, p - 1, t)
  /\ \A t : \A j \in p - 1 .. Count(s) : RegionWinding(u, j + 2, t) = RegionWinding(s, j, t)

LEMMA PairSums ==
  ASSUME NEW s, StateType(s), NEW u, StateType(u), NEW p \in 1 .. Count(s) + 1,
         PairComes(s, u, p),
         \A t : Term(u, p, t) \in Int /\ Term(u, p + 1, t) = -Term(u, p, t)
  PROVE  SumsAround(s, u, p)
<1> DEFINE n == Count(s)
<1>0. /\ n \in Nat /\ p - 1 \in 0 .. n /\ p \in 1 .. Count(u) /\ p + 1 \in 1 .. Count(u)
      /\ p - 1 \in Nat /\ (p + 1) - 1 = p
  BY ListDomain DEF PairComes
<1>1. EdgesMoved(s, u, 1, p - 1, 0) /\ EdgesMoved(s, u, p, n, 2) /\ Count(u) = n + 2
  BY DEF PairComes
<1>2. \A t : \A k \in 0 .. p - 1 : RegionWinding(u, k, t) = RegionWinding(s, k, t)
  <2> TAKE t
  <2> DEFINE m == p - 1
  <2>1. m \in Nat /\ m <= Count(s) /\ m <= Count(u)
    BY <1>0, <1>1
  <2>2. \A k \in 1 .. m : Term(u, k, t) = Term(s, k, t)
    <3> TAKE k \in 1 .. m
    <3>1. Term(u, k + 0, t) = Term(s, k, t)
      BY <1>1, MovedTermsFollow
    <3>2. k + 0 = k
      BY <2>1
    <3> QED BY <3>1, <3>2
  <2> HIDE DEF m
  <2>3. \A k \in 0 .. m : RegionWinding(u, k, t) = RegionWinding(s, k, t)
    BY <2>1, <2>2, SumsBefore
  <2> QED BY <2>3 DEF m
<1>5. \A t : /\ RegionWinding(u, p, t) = RegionWinding(s, p - 1, t) + Term(u, p, t)
             /\ RegionWinding(u, p + 1, t) = RegionWinding(s, p - 1, t)
  <2> TAKE t
  <2> DEFINE x == RegionWinding(u, p, t)
             y == RegionWinding(u, p + 1, t)
             a == RegionWinding(s, p - 1, t)
             b == Term(u, p, t)
             c == Term(u, p + 1, t)
  <2>1. x = RegionWinding(u, p - 1, t) + b /\ y = RegionWinding(u, (p + 1) - 1, t) + c
    BY <1>0, RegionStep
  <2>2. RegionWinding(u, p - 1, t) = a /\ RegionWinding(u, (p + 1) - 1, t) = x
    BY <1>0, <1>2
  <2>3. a \in Int
    BY <1>0, RegionStep
  <2>4. b \in Int /\ c = -b
    OBVIOUS
  <2>5. x = a + b /\ y = x + c
    BY <2>1, <2>2
  <2> HIDE DEF x, y, a, b, c
  <2>6. x = a + b /\ y = a
    BY ONLY <2>3, <2>4, <2>5
  <2> QED BY <2>6 DEF x, y, a, b
<1>6. \A t : \A j \in p - 1 .. n : RegionWinding(u, j + 2, t) = RegionWinding(s, j, t)
  <2> TAKE t
  <2> DEFINE q == p - 1
             d == 2
  <2>1. q \in 0 .. Count(s) /\ d \in Int /\ q + d >= 0 /\ Count(u) = Count(s) + d
    BY <1>0, <1>1
  <2>2. RegionWinding(u, q + d, t) = RegionWinding(s, q, t)
    <3>1. q + d = p + 1
      BY <1>0
    <3> QED BY <1>5, <3>1
  <2>3. MovedTerms(s, u, t, q, d)
    <3>1. q + 1 = p
      BY <1>0
    <3>2. \A j \in p .. Count(s) : Term(u, j + d, t) = Term(s, j, t)
      BY <1>1, MovedTermsFollow
    <3> QED BY <3>1, <3>2 DEF MovedTerms
  <2> HIDE DEF q, d
  <2>4. MovedSums(s, u, t, q, d)
    BY <2>1, <2>2, <2>3, SumsAfter
  <2> QED BY <2>4 DEF MovedSums, q, d
<1> QED BY <1>2, <1>5, <1>6 DEF SumsAround

LEMMA PairInserted ==
  ASSUME NEW s, StateType(s), Matches(s), NEW u, StateType(u), NEW p \in 1 .. Count(s) + 1,
         PairComes(s, u, p),
         NEW e, NEW f, e = u.edge[u.actives[p]], f = u.edge[u.actives[p + 1]],
         FreshPair(s, p, e, f)
  PROVE  Matches(u)
<1> DEFINE n == Count(s)
           T == e.polytype
           O == Other(e.polytype)
           x == e.wind_dx
           a == RegionWinding(s, p - 1, T)
           b == RegionWinding(s, p - 1, O)
<1>0. /\ n \in Nat /\ p - 1 \in 0 .. n /\ p \in 1 .. Count(u) /\ p + 1 \in 1 .. Count(u)
      /\ p - 1 \in Nat /\ (p + 1) - 1 = p /\ Count(u) = n + 2
  BY ListDomain DEF PairComes
<1>1. /\ T \in {"Subject", "Clip"} /\ x \in {-1, 1} /\ T # O /\ O \in {"Subject", "Clip"}
      /\ f.wind_dx = -x /\ f.polytype = T
  <2>1. /\ u.edge[u.actives[p]].polytype \in {"Subject", "Clip"}
        /\ u.edge[u.actives[p]].wind_dx \in {-1, 1}
    BY <1>0, EdgeOfPosition
  <2>2. f.polytype = e.polytype /\ f.wind_dx = -e.wind_dx
    BY ONLY FreshPair(s, p, e, f) DEF FreshPair
  <2>3. e.polytype \in {"Subject", "Clip"} /\ e.wind_dx \in {-1, 1}
    BY ONLY <2>1, e = u.edge[u.actives[p]]
  <2> QED BY ONLY <2>2, <2>3 DEF Other
<1>2. a \in Int /\ b \in Int
  BY <1>0, RegionStep
<1>3. u.fillrule = s.fillrule
  BY DEF PairComes
<1>4. \A t : Term(u, p, t) = (IF T = t THEN x ELSE 0) /\ Term(u, p + 1, t) = (IF T = t THEN -x ELSE 0)
  BY <1>1 DEF Term
<1>5. SumsAround(s, u, p)
  <2>1. \A t : Term(u, p, t) \in Int /\ Term(u, p + 1, t) = -Term(u, p, t)
    <3> HIDE DEF T, x
    <3> QED BY ONLY <1>1, <1>4
  <2> QED BY <2>1, PairSums
<1>7. ASSUME NEW j \in 1 .. p - 1 PROVE MatchesAt(u, j)
  <2>1. j \in 1 .. n /\ j \in 0 .. p - 1 /\ j - 1 \in 0 .. p - 1 /\ j + 0 = j
    BY ONLY <1>0, j \in 1 .. p - 1
  <2>2. MatchesAt(s, j)
    BY <2>1 DEF Matches
  <2>3. SameCounts(s.edge[s.actives[j]], u.edge[u.actives[j]])
    BY <2>1 DEF EdgesMoved, PairComes
  <2>4. s.edge[s.actives[j]].polytype \in {"Subject", "Clip"}
    BY <2>1, EdgeOfPosition
  <2>5. \A t \in {"Subject", "Clip"} :
           /\ RegionWinding(u, j - 1, t) = RegionWinding(s, j - 1, t)
           /\ RegionWinding(u, j, t) = RegionWinding(s, j, t)
    BY <1>5, <2>1 DEF SumsAround
  <2> QED BY ONLY <1>3, <2>2, <2>3, <2>4, <2>5, MatchCarries
<1>8. ASSUME NEW j \in p .. n PROVE MatchesAt(u, j + 2)
  <2> DEFINE k == j + 2
  <2>1. j \in 1 .. n /\ j \in p - 1 .. n /\ j - 1 \in p - 1 .. n /\ k - 1 = (j - 1) + 2
    BY <1>0
  <2>2. MatchesAt(s, j)
    BY <2>1 DEF Matches
  <2>3. SameCounts(s.edge[s.actives[j]], u.edge[u.actives[k]])
    BY DEF EdgesMoved, PairComes
  <2>4. s.edge[s.actives[j]].polytype \in {"Subject", "Clip"}
    BY <2>1, EdgeOfPosition
  <2>5. \A t \in {"Subject", "Clip"} :
           /\ RegionWinding(u, k - 1, t) = RegionWinding(s, j - 1, t)
           /\ RegionWinding(u, k, t) = RegionWinding(s, j, t)
    BY <1>5, <2>1 DEF SumsAround
  <2> HIDE DEF k
  <2>6. MatchesAt(u, k)
    BY ONLY <1>3, <2>2, <2>3, <2>4, <2>5, MatchCarries
  <2> QED BY <2>6 DEF k
<1>9. /\ RegionWinding(u, p - 1, T) = a
      /\ RegionWinding(u, p, T) = a + x /\ RegionWinding(u, p, O) = b
      /\ RegionWinding(u, p + 1, T) = a /\ RegionWinding(u, p + 1, O) = b
  <2>1. p - 1 \in 0 .. p - 1
    BY ONLY <1>0
  <2>2. Term(u, p, T) = x /\ Term(u, p, O) = 0
    BY ONLY <1>1, <1>4
  <2>3. RegionWinding(u, p, T) = a + Term(u, p, T) /\ RegionWinding(u, p, O) = b + Term(u, p, O)
    BY <1>5 DEF SumsAround
  <2>4. RegionWinding(u, p, O) = b
    <3> HIDE DEF a, b, x, T, O
    <3> QED BY ONLY <1>2, <2>2, <2>3
  <2> QED BY <1>5, <2>1, <2>2, <2>3, <2>4 DEF SumsAround
<1>10. CountsMatch(s.fillrule, e, a, a + x, b)
  BY ONLY FreshPair(s, p, e, f) DEF FreshPair
<1>11. CountsMatch(s.fillrule, f, a + x, a, b)
  <2>1. Far(a, a + x) = Far(a + x, a)
    <3> HIDE DEF a, x
    <3> QED BY ONLY <1>1, <1>2, FarIsSymmetric
  <2>2. f.winding_count = e.winding_count /\ f.wind_cnt2 = e.wind_cnt2
    BY ONLY FreshPair(s, p, e, f) DEF FreshPair
  <2> HIDE DEF a, b, x
  <2> QED BY ONLY <1>10, <2>1, <2>2 DEF CountsMatch
<1>12. MatchesAt(u, p)
  <2> HIDE DEF a, b, x
  <2> QED BY <1>3, <1>9, <1>10 DEF MatchesAt
<1>13. MatchesAt(u, p + 1)
  <2> HIDE DEF a, b, x
  <2> QED BY <1>0, <1>1, <1>3, <1>9, <1>11 DEF MatchesAt
<1>14. ASSUME NEW j \in 1 .. Count(u) PROVE MatchesAt(u, j)
  <2>1. j \in 1 .. p - 1 \/ j = p \/ j = p + 1 \/ (j - 2 \in p .. n /\ (j - 2) + 2 = j)
    BY ONLY <1>0, j \in 1 .. Count(u)
  <2>2. CASE j - 2 \in p .. n /\ (j - 2) + 2 = j
    <3>1. MatchesAt(u, (j - 2) + 2)
      BY <1>8, <2>2
    <3> QED BY ONLY <2>2, <3>1
  <2> QED BY <1>7, <1>12, <1>13, <2>1, <2>2
<1> QED BY <1>14 DEF Matches

LEMMA PairRemoved ==
  ASSUME NEW s, StateType(s), Matches(s), NEW u, StateType(u), NEW i \in 1 .. Count(s) - 1,
         Count(u) = Count(s) - 2, u.fillrule = s.fillrule,
         EdgesMoved(s, u, 1, i - 1, 0), EdgesMoved(s, u, i + 2, Count(s), -2),
         s.edge[s.actives[i]].polytype = s.edge[s.actives[i + 1]].polytype,
         s.edge[s.actives[i]].wind_dx = -s.edge[s.actives[i + 1]].wind_dx
  PROVE  Matches(u)
<1> DEFINE n == Count(s)
<1>0. /\ n \in Nat /\ i \in 1 .. n /\ i + 1 \in 1 .. n /\ i - 1 \in 0 .. n /\ i + 1 \in 0 .. n
      /\ (i + 1) - 1 = i
  BY ListDomain
<1>1. \A t : \A k \in 0 .. i - 1 : RegionWinding(u, k, t) = RegionWinding(s, k, t)
  <2> TAKE t
  <2> DEFINE m == i - 1
  <2>1. m \in Nat /\ m <= Count(s) /\ m <= Count(u)
    BY <1>0
  <2>2. \A k \in 1 .. m : Term(u, k, t) = Term(s, k, t)
    <3> TAKE k \in 1 .. m
    <3>1. Term(u, k + 0, t) = Term(s, k, t)
      BY MovedTermsFollow
    <3>2. k + 0 = k
      BY <2>1
    <3> QED BY <3>1, <3>2
  <2> HIDE DEF m
  <2>3. \A k \in 0 .. m : RegionWinding(u, k, t) = RegionWinding(s, k, t)
    BY <2>1, <2>2, SumsBefore
  <2> QED BY <2>3 DEF m
<1>2. \A t : RegionWinding(s, i + 1, t) = RegionWinding(s, i - 1, t)
  <2> TAKE t
  <2>1. /\ RegionWinding(s, i, t) = RegionWinding(s, i - 1, t) + Term(s, i, t)
        /\ RegionWinding(s, i + 1, t) = RegionWinding(s, (i + 1) - 1, t) + Term(s, i + 1, t)
    BY <1>0, RegionStep
  <2>2. RegionWinding(s, i - 1, t) \in Int
    BY <1>0, RegionStep
  <2>3. s.edge[s.actives[i]].wind_dx \in {-1, 1} /\ s.edge[s.actives[i + 1]].wind_dx \in {-1, 1}
    BY <1>0, EdgeOfPosition
  <2>4. Term(s, i, t) \in Int /\ Term(s, i + 1, t) = -Term(s, i, t)
    BY <2>3 DEF Term
  <2> QED BY <1>0, <2>1, <2>2, <2>4
<1>3. \A t : \A j \in i + 1 .. n : RegionWinding(u, j - 2, t) = RegionWinding(s, j, t)
  <2> TAKE t
  <2> DEFINE q == i + 1
             d == -2
  <2>1. q \in 0 .. Count(s) /\ d \in Int /\ q + d >= 0 /\ Count(u) = Count(s) + d
    BY <1>0
  <2>2. RegionWinding(u, q + d, t) = RegionWinding(s, q, t)
    <3>1. q + d = i - 1 /\ i - 1 \in 0 .. i - 1
      BY <1>0
    <3>2. RegionWinding(u, i - 1, t) = RegionWinding(s, i - 1, t)
      BY <1>1, <3>1
    <3> QED BY <1>2, <3>1, <3>2
  <2>3. MovedTerms(s, u, t, q, d)
    <3>1. q + 1 = i + 2
      BY <1>0
    <3>2. \A j \in i + 2 .. Count(s) : Term(u, j + d, t) = Term(s, j, t)
      BY MovedTermsFollow
    <3> QED BY <3>1, <3>2 DEF MovedTerms
  <2>4. \A j \in i + 1 .. n : j - 2 = j + d /\ j \in q .. Count(s)
    BY <1>0
  <2> HIDE DEF q, d
  <2>5. MovedSums(s, u, t, q, d)
    BY <2>1, <2>2, <2>3, SumsAfter
  <2> QED BY <2>4, <2>5 DEF MovedSums
<1>4. ASSUME NEW j \in 1 .. i - 1 PROVE MatchesAt(u, j)
  <2>1. j \in 1 .. n /\ j \in 0 .. i - 1 /\ j - 1 \in 0 .. i - 1 /\ j + 0 = j
    BY <1>0
  <2>2. MatchesAt(s, j)
    BY <2>1 DEF Matches
  <2>3. SameCounts(s.edge[s.actives[j]], u.edge[u.actives[j]])
    BY <2>1 DEF EdgesMoved
  <2>4. s.edge[s.actives[j]].polytype \in {"Subject", "Clip"}
    BY <2>1, EdgeOfPosition
  <2>5. \A t \in {"Subject", "Clip"} :
           /\ RegionWinding(u, j - 1, t) = RegionWinding(s, j - 1, t)
           /\ RegionWinding(u, j, t) = RegionWinding(s, j, t)
    BY <1>1, <2>1
  <2> QED BY <2>2, <2>3, <2>4, <2>5, MatchCarries
<1>5. ASSUME NEW j \in i + 2 .. n PROVE MatchesAt(u, j - 2)
  <2> DEFINE k == j - 2
  <2>1. /\ j \in 1 .. n /\ j \in i + 1 .. n /\ j - 1 \in i + 1 .. n
        /\ k - 1 = (j - 1) - 2 /\ j + (-2) = k
    BY <1>0
  <2>2. MatchesAt(s, j)
    BY <2>1 DEF Matches
  <2>3. SameCounts(s.edge[s.actives[j]], u.edge[u.actives[k]])
    BY <2>1 DEF EdgesMoved
  <2>4. s.edge[s.actives[j]].polytype \in {"Subject", "Clip"}
    BY <2>1, EdgeOfPosition
  <2>5. \A t \in {"Subject", "Clip"} :
           /\ RegionWinding(u, k - 1, t) = RegionWinding(s, j - 1, t)
           /\ RegionWinding(u, k, t) = RegionWinding(s, j, t)
    BY <1>3, <2>1
  <2> HIDE DEF k
  <2>6. MatchesAt(u, k)
    BY <2>2, <2>3, <2>4, <2>5, MatchCarries
  <2> QED BY <2>6 DEF k
<1>6. ASSUME NEW j \in 1 .. Count(u) PROVE MatchesAt(u, j)
  <2>1. j \in 1 .. i - 1 \/ (j + 2 \in i + 2 .. n /\ (j + 2) - 2 = j)
    BY <1>0
  <2>2. CASE j + 2 \in i + 2 .. n /\ (j + 2) - 2 = j
    <3>1. MatchesAt(u, (j + 2) - 2)
      BY <1>5, <2>2
    <3> QED BY <2>2, <3>1
  <2> QED BY <1>4, <2>1, <2>2
<1> QED BY <1>6 DEF Matches

\* u is s without the edge at position i.
RemovedAt(s, u, i) ==
  /\ StateType(u) /\ IsInjective(u.actives)
  /\ u.fillrule = s.fillrule /\ Count(u) = Count(s) - 1
  /\ \A k \in 1 .. i - 1 : u.actives[k] = s.actives[k]
  /\ \A k \in i .. Count(s) - 1 : u.actives[k] = s.actives[k + 1]
  /\ \A x \in Edge \ {s.actives[i]} : u.edge[x] = s.edge[x]

LEMMA EdgeLeaves ==
  ASSUME NEW s, StateType(s), IsInjective(s.actives), NEW i \in 1 .. Count(s)
  PROVE  RemovedAt(s, RemoveFromAel(s, s.actives[i]), i)
<1> DEFINE e == s.actives[i]
           q == RemoveAt(s.actives, i)
           u == RemoveFromAel(s, e)
<1>1. e \in Edge /\ e \in Active(s) /\ PositionOf(s, e) = i
  <2>1. i \in DOMAIN s.actives
    BY ListDomain
  <2> QED BY <2>1, EdgeOfPosition, PositionIsUnique DEF Active, Range
<1>2. /\ s.actives \in Seq(Edge) /\ i \in 1 .. Len(s.actives) /\ Count(s) = Len(s.actives)
      /\ {"actives", "edge", "fillrule"} \subseteq DOMAIN s /\ DOMAIN s.edge = Edge
  BY DEF StateType, Count
<1>3. u.actives = q /\ u.fillrule = s.fillrule /\ u.edge = [s.edge EXCEPT ![e] = Dead]
  BY <1>1, <1>2 DEF RemoveFromAel
<1>4. StateType(u)
  BY <1>1, RemoveFromAelType
<1>5. /\ Len(q) = Len(s.actives) - 1 /\ IsInjective(q)
      /\ \A k \in 1 .. i - 1 : q[k] = s.actives[k]
      /\ \A k \in i .. Len(s.actives) - 1 : q[k] = s.actives[k + 1]
  BY <1>2, RemoveAtShape, RemoveIntact
<1>6. \A x \in Edge \ {e} : u.edge[x] = s.edge[x]
  BY <1>2, <1>3
<1> HIDE DEF u, q
<1>7. Count(u) = Count(s) - 1
  BY <1>2, <1>3, <1>5 DEF Count
<1> QED BY <1>2, <1>3, <1>4, <1>5, <1>6, <1>7 DEF RemovedAt, u

\* Two neighbours left, in either order.
LEMMA NeighboursLeft ==
  ASSUME NEW s, StateType(s), IsInjective(s.actives), NEW i \in 1 .. Count(s) - 1,
         NEW c \in {i, i + 1}, NEW t, RemovedAt(s, t, c), NEW u, RemovedAt(t, u, i),
         t.actives[i] \in {s.actives[i], s.actives[i + 1]}
  PROVE  /\ StateType(u) /\ Count(u) = Count(s) - 2 /\ u.fillrule = s.fillrule
         /\ EdgesMoved(s, u, 1, i - 1, 0) /\ EdgesMoved(s, u, i + 2, Count(s), -2)
<1> DEFINE n == Count(s)
<1>0. n \in Nat /\ DOMAIN s.actives = 1 .. n /\ i + 1 \in 1 .. n /\ i \in Nat
  BY ListDomain
<1>1. StateType(u) /\ Count(t) = n - 1 /\ Count(u) = n - 2 /\ u.fillrule = s.fillrule
  BY <1>0 DEF RemovedAt
<1>2. \A k \in 1 .. i - 1 : u.actives[k] = s.actives[k]
  BY <1>0 DEF RemovedAt
<1>3. \A j \in i + 2 .. n : u.actives[j - 2] = s.actives[j]
  <2> TAKE j \in i + 2 .. n
  <2>1. /\ j - 2 \in i .. Count(t) - 1 /\ (j - 2) + 1 = j - 1
        /\ j - 1 \in c .. n - 1 /\ (j - 1) + 1 = j
    BY <1>0, <1>1
  <2>2. u.actives[j - 2] = t.actives[j - 1]
    BY <2>1 DEF RemovedAt
  <2>3. t.actives[j - 1] = s.actives[j]
    BY <2>1 DEF RemovedAt
  <2> QED BY <2>2, <2>3
<1>4. \A x \in Edge \ {s.actives[i], s.actives[i + 1]} : u.edge[x] = s.edge[x]
  BY DEF RemovedAt
<1>5. \A j \in (1 .. n) \ {i, i + 1} : u.edge[s.actives[j]] = s.edge[s.actives[j]]
  <2> TAKE j \in (1 .. n) \ {i, i + 1}
  <2>1. s.actives[j] \in Edge
    BY EdgeOfPosition
  <2>2. s.actives[j] \notin {s.actives[i], s.actives[i + 1]}
    BY <1>0 DEF IsInjective
  <2> QED BY <1>4, <2>1, <2>2
<1>6. EdgesMoved(s, u, 1, i - 1, 0)
  <2> SUFFICES ASSUME NEW j \in 1 .. i - 1
               PROVE  SameCounts(s.edge[s.actives[j]], u.edge[u.actives[j + 0]])
    BY DEF EdgesMoved
  <2>1. j \in (1 .. n) \ {i, i + 1} /\ j + 0 = j
    BY <1>0
  <2> QED BY <1>2, <1>5, <2>1 DEF SameCounts
<1>7. EdgesMoved(s, u, i + 2, n, -2)
  <2> SUFFICES ASSUME NEW j \in i + 2 .. n
               PROVE  SameCounts(s.edge[s.actives[j]], u.edge[u.actives[j + (-2)]])
    BY DEF EdgesMoved
  <2>1. j \in (1 .. n) \ {i, i + 1} /\ j + (-2) = j - 2
    BY <1>0
  <2> QED BY <1>3, <1>5, <2>1 DEF SameCounts
<1> QED BY <1>1, <1>6, <1>7

\* The two bounds of a local maximum leave the list.
LEMMA MaximumLeaves ==
  ASSUME NEW s, StateType(s), IsInjective(s.actives), Matches(s), NEW i \in 1 .. Count(s) - 1,
         MaximaPair(s, s.actives[i], s.actives[i + 1])
  PROVE  /\ Matches(RemoveFromAel(RemoveFromAel(s, s.actives[i]), s.actives[i + 1]))
         /\ Matches(RemoveFromAel(RemoveFromAel(s, s.actives[i + 1]), s.actives[i]))
<1> DEFINE d == s.actives[i]
           e == s.actives[i + 1]
           t1 == RemoveFromAel(s, d)
           t2 == RemoveFromAel(s, e)
<1>0. Count(s) \in Nat /\ i \in 1 .. Count(s) /\ i + 1 \in 1 .. Count(s) /\ i \in i .. Count(s) - 1
  BY ListDomain
<1>1. RemovedAt(s, t1, i) /\ RemovedAt(s, t2, i + 1)
  BY <1>0, EdgeLeaves
<1>2. t1.actives[i] = e /\ t2.actives[i] = d
  <2> HIDE DEF t1, t2
  <2> QED BY <1>0, <1>1 DEF RemovedAt
<1>3. s.edge[d].polytype = s.edge[e].polytype /\ s.edge[d].wind_dx = -s.edge[e].wind_dx
  BY DEF MaximaPair, SamePolyType
<1>4. ASSUME NEW t, NEW c \in {i, i + 1}, RemovedAt(s, t, c), t.actives[i] \in {d, e}
      PROVE  Matches(RemoveFromAel(t, t.actives[i]))
  <2> DEFINE u == RemoveFromAel(t, t.actives[i])
  <2>1. StateType(t) /\ IsInjective(t.actives) /\ i \in 1 .. Count(t)
    BY <1>0, <1>4 DEF RemovedAt
  <2>2. RemovedAt(t, u, i)
    BY <2>1, EdgeLeaves
  <2> HIDE DEF u
  <2>3. /\ StateType(u) /\ Count(u) = Count(s) - 2 /\ u.fillrule = s.fillrule
        /\ EdgesMoved(s, u, 1, i - 1, 0) /\ EdgesMoved(s, u, i + 2, Count(s), -2)
    BY <1>4, <2>2, NeighboursLeft
  <2>4. Matches(u)
    BY <1>3, <2>3, PairRemoved
  <2> QED BY <2>4 DEF u
<1> HIDE DEF t1, t2
<1>5. Matches(RemoveFromAel(t1, t1.actives[i])) /\ Matches(RemoveFromAel(t2, t2.actives[i]))
  BY <1>1, <1>2, <1>4
<1> QED BY <1>2, <1>5 DEF t1, t2

\* u is s with the edge e inserted at position i.
InsertedAt(s, u, i, e) ==
  /\ StateType(u) /\ IsInjective(u.actives)
  /\ u.fillrule = s.fillrule /\ u.edge = s.edge /\ Count(u) = Count(s) + 1
  /\ u.actives[i] = e /\ Active(u) = Active(s) \cup {e}
  /\ \A k \in 1 .. i - 1 : u.actives[k] = s.actives[k]
  /\ \A k \in i .. Count(s) : u.actives[k + 1] = s.actives[k]

LEMMA EdgeEnters ==
  ASSUME NEW s, StateType(s), IsInjective(s.actives), NEW i \in 1 .. Count(s) + 1,
         NEW e \in Edge, e \notin Active(s)
  PROVE  InsertedAt(s, [s EXCEPT !.actives = InsertAt(@, i, e)], i, e)
<1> DEFINE q == InsertAt(s.actives, i, e)
           u == [s EXCEPT !.actives = InsertAt(@, i, e)]
<1>1. StateType(u) /\ IsInjective(u.actives) /\ Active(u) = Active(s) \cup {e}
  BY InsertOneIntact
<1>2. /\ s.actives \in Seq(Edge) /\ i \in 1 .. Len(s.actives) + 1 /\ Count(s) = Len(s.actives)
      /\ "actives" \in DOMAIN s /\ Count(s) \in Nat
  BY DEF StateType, Count
<1>3. u.actives = q /\ u.fillrule = s.fillrule /\ u.edge = s.edge
  BY <1>2
<1>4. /\ Len(q) = Len(s.actives) + 1 /\ q[i] = e
      /\ \A k \in 1 .. i - 1 : q[k] = s.actives[k]
      /\ \A k \in i + 1 .. Len(s.actives) + 1 : q[k] = s.actives[k - 1]
  BY <1>2, InsertAtShape
<1> HIDE DEF u, q
<1>5. \A k \in i .. Count(s) : q[k + 1] = s.actives[k]
  <2> TAKE k \in i .. Count(s)
  <2>1. k + 1 \in i + 1 .. Len(s.actives) + 1 /\ (k + 1) - 1 = k
    BY <1>2
  <2> QED BY <1>4, <2>1
<1>6. Count(u) = Count(s) + 1
  BY <1>2, <1>3, <1>4 DEF Count
<1>7. InsertedAt(s, u, i, e)
  BY <1>1, <1>2, <1>3, <1>4, <1>5, <1>6 DEF InsertedAt
<1> QED BY <1>7 DEF u

\* u is s with the counts m and n written to the edge e.
Counted(s, u, e, m, n) ==
  /\ StateType(u) /\ u.actives = s.actives /\ u.fillrule = s.fillrule
  /\ \A x \in Edge \ {e} : u.edge[x] = s.edge[x]
  /\ u.edge[e].polytype = s.edge[e].polytype /\ u.edge[e].wind_dx = s.edge[e].wind_dx
  /\ u.edge[e].winding_count = m /\ u.edge[e].wind_cnt2 = n

LEMMA CountsWritten ==
  ASSUME NEW s, StateType(s), NEW e \in Edge, NEW m \in Int, NEW n \in Int
  PROVE  Counted(s, [s EXCEPT !.edge[e].winding_count = m, !.edge[e].wind_cnt2 = n], e, m, n)
<1> DEFINE x == [s.edge[e] EXCEPT !.winding_count = m, !.wind_cnt2 = n]
           u == [s EXCEPT !.edge[e] = x]
<1>1. [s EXCEPT !.edge[e].winding_count = m, !.edge[e].wind_cnt2 = n] = u
  BY DEF StateType
<1>2. StateType([s EXCEPT !.edge[e].winding_count = m, !.edge[e].wind_cnt2 = n])
  BY TwoCountsType
<1>3. /\ {"actives", "edge", "fillrule"} \subseteq DOMAIN s /\ DOMAIN s.edge = Edge
      /\ CountFields \subseteq DOMAIN s.edge[e]
  BY TypedIsShaped DEF Shaped, StateType
<1>4. /\ x.polytype = s.edge[e].polytype /\ x.wind_dx = s.edge[e].wind_dx
      /\ x.winding_count = m /\ x.wind_cnt2 = n
  BY <1>3 DEF CountFields
<1> HIDE DEF x
<1>5. u.actives = s.actives /\ u.fillrule = s.fillrule /\ u.edge = [s.edge EXCEPT ![e] = x]
  BY <1>3
<1>6. u.edge[e] = x /\ \A y \in Edge \ {e} : u.edge[y] = s.edge[y]
  BY <1>3, <1>5
<1>7. StateType(u)
  BY <1>1, <1>2
<1> HIDE DEF u
<1>8. Counted(s, u, e, m, n)
  BY <1>4, <1>5, <1>6, <1>7 DEF Counted
<1> QED BY <1>1, <1>8

\* The counts the left bound of a local minimum starts with, u being s with
\* the bound at position p.
LEMMA LeftBoundMatches ==
  ASSUME NEW s, StateType(s), Matches(s), NEW u, StateType(u), IsInjective(u.actives),
         NEW p \in 1 .. Count(s) + 1, Count(u) = Count(s) + 1, u.fillrule = s.fillrule,
         EdgesMoved(s, u, 1, p - 1, 0), NEW e, e = u.actives[p], NEW g,
         g.winding_count = ClosedWindingCount(u, e, PreviousOfType(u, e)),
         g.wind_cnt2 = ClosedOppositeCount(u, e, PreviousOfType(u, e)),
         NEW T, T = u.edge[e].polytype
  PROVE  CountsMatch(s.fillrule, g, RegionWinding(s, p - 1, T),
                     RegionWinding(s, p - 1, T) + u.edge[e].wind_dx,
                     RegionWinding(s, p - 1, Other(T)))
<1> DEFINE m == p - 1
<1>0. /\ Count(s) \in Nat /\ m \in Nat /\ m <= Count(s) /\ m <= Count(u) /\ p \in 1 .. Count(u)
      /\ m \in 0 .. m
  BY ListDomain
<1>1. \A t : \A k \in 0 .. m : RegionWinding(u, k, t) = RegionWinding(s, k, t)
  <2> TAKE t
  <2>1. \A k \in 1 .. m : Term(u, k, t) = Term(s, k, t)
    <3> TAKE k \in 1 .. m
    <3>1. Term(u, k + 0, t) = Term(s, k, t)
      BY MovedTermsFollow
    <3> QED BY <1>0, <3>1
  <2> HIDE DEF m
  <2> QED BY <1>0, <2>1, SumsBefore
<1>2. \A j \in 1 .. p - 1 : MatchesAt(u, j)
  <2> TAKE j \in 1 .. p - 1
  <2>1. j \in 1 .. Count(s) /\ j \in 0 .. m /\ j - 1 \in 0 .. m /\ j + 0 = j
    BY <1>0
  <2>2. MatchesAt(s, j)
    BY <2>1 DEF Matches
  <2>3. SameCounts(s.edge[s.actives[j]], u.edge[u.actives[j]])
    BY <2>1 DEF EdgesMoved
  <2>4. s.edge[s.actives[j]].polytype \in {"Subject", "Clip"}
    BY <2>1, EdgeOfPosition
  <2>5. \A t \in {"Subject", "Clip"} :
           /\ RegionWinding(u, j - 1, t) = RegionWinding(s, j - 1, t)
           /\ RegionWinding(u, j, t) = RegionWinding(s, j, t)
    BY <1>1, <2>1
  <2> QED BY <2>2, <2>3, <2>4, <2>5, MatchCarries
<1>3. \A t : RegionWinding(u, p - 1, t) = RegionWinding(s, p - 1, t)
  BY <1>0, <1>1
<1> DEFINE left == RegionWinding(u, p - 1, T)
           opposite == RegionWinding(u, p - 1, Other(T))
<1>4. /\ u.fillrule = "EvenOdd" => /\ g.winding_count \in {-1, 1}
                                   /\ g.wind_cnt2 = opposite % 2
      /\ u.fillrule # "EvenOdd" => /\ g.winding_count = Far(left, left + u.edge[e].wind_dx)
                                   /\ g.wind_cnt2 = opposite
  BY <1>0, <1>2, WindCountSet
<1> QED BY <1>3, <1>4 DEF CountsMatch

\* The steps of insert_local_minima_into_ael up to the output: s1 has the fresh
\* bounds, s2 the left one in its list, s3 and s4 their counts, s5 both.
LEMMA BoundsEnter ==
  ASSUME NEW s, StateType(s), IsInjective(s.actives), Matches(s),
         NEW left \in Edge, NEW right \in Edge, left # right,
         left \notin Active(s), right \notin Active(s),
         NEW s1, s1.actives = s.actives, s1.fillrule = s.fillrule,
         \A x \in Edge \ {left, right} : s1.edge[x] = s.edge[x],
         s1.edge[right].polytype = s1.edge[left].polytype,
         s1.edge[right].wind_dx = -s1.edge[left].wind_dx,
         NEW p \in 1 .. Count(s) + 1, NEW s2, InsertedAt(s1, s2, p, left),
         NEW s3, Counted(s2, s3, left, ClosedWindingCount(s2, left, PreviousOfType(s2, left)),
                         ClosedOppositeCount(s2, left, PreviousOfType(s2, left))),
         NEW s4, Counted(s3, s4, right, s3.edge[left].winding_count, s3.edge[left].wind_cnt2),
         NEW s5, InsertedAt(s4, s5, p + 1, right)
  PROVE  Matches(s5)
<1> DEFINE n == Count(s)
           m == ClosedWindingCount(s2, left, PreviousOfType(s2, left))
           w == ClosedOppositeCount(s2, left, PreviousOfType(s2, left))
<1>0. n \in Nat /\ DOMAIN s.actives = 1 .. n /\ p \in Nat
  BY ListDomain
<1>1. Count(s1) = n /\ Count(s2) = n + 1 /\ Count(s4) = n + 1 /\ Count(s5) = n + 2
  <2>1. Count(s1) = n
    BY DEF Count
  <2>2. Count(s2) = n + 1
    BY <2>1 DEF InsertedAt
  <2>3. Count(s4) = Count(s2)
    BY DEF Counted, Count
  <2> QED BY <1>0, <2>1, <2>2, <2>3 DEF InsertedAt
<1>2. /\ StateType(s2) /\ IsInjective(s2.actives) /\ StateType(s5)
      /\ s2.fillrule = s.fillrule /\ s5.fillrule = s.fillrule
  BY DEF InsertedAt, Counted
<1>3. \A x \in Edge \ {left, right} : s2.edge[x] = s.edge[x] /\ s5.edge[x] = s.edge[x]
  BY DEF InsertedAt, Counted
<1>4. \A j \in 1 .. n : s.actives[j] \in Edge \ {left, right}
  BY <1>0, EdgeOfPosition DEF Active, Range
<1>5. \A j \in 1 .. p - 1 : s2.actives[j] = s.actives[j] /\ s5.actives[j] = s.actives[j]
  <2> TAKE j \in 1 .. p - 1
  <2>1. j \in 1 .. (p + 1) - 1
    BY <1>0
  <2> QED BY <2>1 DEF InsertedAt, Counted
<1>6. \A j \in p .. n : s5.actives[j + 2] = s.actives[j]
  <2> TAKE j \in p .. n
  <2>1. j + 1 \in p + 1 .. Count(s4) /\ (j + 1) + 1 = j + 2 /\ j \in p .. Count(s1)
    BY <1>0, <1>1
  <2>2. s5.actives[j + 2] = s4.actives[j + 1]
    <3>1. s5.actives[(j + 1) + 1] = s4.actives[j + 1]
      BY <2>1 DEF InsertedAt
    <3> QED BY <2>1, <3>1
  <2>3. s2.actives[j + 1] = s.actives[j]
    BY <2>1 DEF InsertedAt
  <2> QED BY <2>2, <2>3 DEF Counted
<1>7. s2.actives[p] = left /\ s5.actives[p] = left /\ s5.actives[p + 1] = right
  <2>1. p \in 1 .. (p + 1) - 1
    BY <1>0
  <2> QED BY <2>1 DEF InsertedAt, Counted
<1>8. /\ s5.edge[left] = s3.edge[left]
      /\ s5.edge[left].polytype = s1.edge[left].polytype
      /\ s5.edge[left].wind_dx = s1.edge[left].wind_dx
      /\ s5.edge[left].winding_count = m /\ s5.edge[left].wind_cnt2 = w
      /\ s2.edge[left] = s1.edge[left]
  BY DEF InsertedAt, Counted
<1>9. /\ s5.edge[right].polytype = s1.edge[right].polytype
      /\ s5.edge[right].wind_dx = s1.edge[right].wind_dx
      /\ s5.edge[right].winding_count = m /\ s5.edge[right].wind_cnt2 = w
  <2>1. s3.edge[right] = s1.edge[right]
    BY DEF InsertedAt, Counted
  <2> QED BY <2>1 DEF InsertedAt, Counted
<1>10. EdgesMoved(s, s2, 1, p - 1, 0) /\ EdgesMoved(s, s5, 1, p - 1, 0)
  <2> SUFFICES ASSUME NEW j \in 1 .. p - 1
               PROVE  /\ SameCounts(s.edge[s.actives[j]], s2.edge[s2.actives[j + 0]])
                      /\ SameCounts(s.edge[s.actives[j]], s5.edge[s5.actives[j + 0]])
    BY DEF EdgesMoved
  <2>1. j + 0 = j /\ j \in 1 .. n
    BY <1>0
  <2> QED BY <1>3, <1>4, <1>5, <2>1 DEF SameCounts
<1>11. EdgesMoved(s, s5, p, n, 2)
  <2> SUFFICES ASSUME NEW j \in p .. n
               PROVE  SameCounts(s.edge[s.actives[j]], s5.edge[s5.actives[j + 2]])
    BY DEF EdgesMoved
  <2>1. j \in 1 .. n
    BY <1>0
  <2> QED BY <1>3, <1>4, <1>6, <2>1 DEF SameCounts
<1> DEFINE e == s5.edge[left]
           f == s5.edge[right]
           T == e.polytype
<1>12. CountsMatch(s.fillrule, e, RegionWinding(s, p - 1, T), RegionWinding(s, p - 1, T) + e.wind_dx,
                   RegionWinding(s, p - 1, Other(T)))
  <2>1. T = s2.edge[left].polytype /\ e.wind_dx = s2.edge[left].wind_dx
    BY <1>8
  <2>2. CountsMatch(s.fillrule, e, RegionWinding(s, p - 1, T),
                    RegionWinding(s, p - 1, T) + s2.edge[left].wind_dx,
                    RegionWinding(s, p - 1, Other(T)))
    <3> DEFINE t == T
    <3> HIDE DEF e, t
    <3>1. t = s2.edge[left].polytype
      BY <2>1 DEF t
    <3>2. e.winding_count = m /\ e.wind_cnt2 = w
      BY <1>8 DEF e
    <3> QED BY <1>1, <1>2, <1>7, <1>10, <3>1, <3>2, LeftBoundMatches DEF t
  <2> QED BY <2>1, <2>2
<1>13. /\ e = s5.edge[s5.actives[p]] /\ f = s5.edge[s5.actives[p + 1]]
       /\ f.polytype = e.polytype /\ f.wind_dx = -e.wind_dx
       /\ f.winding_count = e.winding_count /\ f.wind_cnt2 = e.wind_cnt2
  BY <1>7, <1>8, <1>9
<1> HIDE DEF e, f, m, w
<1>14. PairComes(s, s5, p)
  BY ONLY <1>1, <1>2, <1>10, <1>11 DEF PairComes
<1> HIDE DEF n
<1>15. FreshPair(s, p, e, f)
  BY ONLY <1>12, <1>13 DEF FreshPair
<1>16. StateType(s) /\ Matches(s) /\ StateType(s5) /\ p \in 1 .. Count(s) + 1
  BY <1>2
<1> QED BY ONLY <1>13, <1>14, <1>15, <1>16, PairInserted

\* The steps of insert_local_minima_into_ael for two fresh bounds of opposite
\* directions.
LEMMA MinimumSteps ==
  ASSUME NEW s, StateType(s), IsInjective(s.actives), Matches(s),
         NEW left \in Edge, NEW right \in Edge, left # right,
         left \notin Active(s), right \notin Active(s), NEW collinear,
         NEW after \in 0 .. Count(s), InsertionPoint(s, after) <= Count(s) + 1,
         NEW l \in EdgeType, NEW r \in EdgeType,
         l.outrec = NoRecord, r.outrec = NoRecord,
         l.join_with = "NoJoin", r.join_with = "NoJoin",
         r.polytype = l.polytype, r.wind_dx = -l.wind_dx
  PROVE  LET s1 == [s EXCEPT !.edge[left] = l, !.edge[right] = r]
             p == InsertionPoint(s1, after)
             s2 == InsertLeftEdge(s1, left, after)
             s3 == SetWindCountForClosedPathEdge(s2, left)
             s4 == [s3 EXCEPT !.edge[right].winding_count = s3.edge[left].winding_count,
                              !.edge[right].wind_cnt2 = s3.edge[left].wind_cnt2]
             s5 == InsertRightEdge(s4, left, right)
         IN  /\ StateType(s1) /\ p \in 1 .. Count(s) + 1
             /\ InsertedAt(s1, s2, p, left)
             /\ Counted(s2, s3, left, ClosedWindingCount(s2, left, PreviousOfType(s2, left)),
                        ClosedOppositeCount(s2, left, PreviousOfType(s2, left)))
             /\ Counted(s3, s4, right, s3.edge[left].winding_count, s3.edge[left].wind_cnt2)
             /\ InsertedAt(s4, s5, p + 1, right)
             /\ Matches(s5)
<1> DEFINE s1 == [s EXCEPT !.edge[left] = l, !.edge[right] = r]
           p == InsertionPoint(s1, after)
           s2 == InsertLeftEdge(s1, left, after)
           previous == PreviousOfType(s2, left)
           m == ClosedWindingCount(s2, left, previous)
           w == ClosedOppositeCount(s2, left, previous)
           s3 == SetWindCountForClosedPathEdge(s2, left)
           s4 == [s3 EXCEPT !.edge[right].winding_count = s3.edge[left].winding_count,
                            !.edge[right].wind_cnt2 = s3.edge[left].wind_cnt2]
           s5 == InsertRightEdge(s4, left, right)
<1>1. StateType(s1) /\ p \in 1 .. Count(s1) + 1
  BY FreshBoundsType
<1>2. /\ s1.actives = s.actives /\ s1.fillrule = s.fillrule
      /\ \A x \in Edge \ {left, right} : s1.edge[x] = s.edge[x]
      /\ s1.edge[left] = l /\ s1.edge[right] = r
  BY DEF StateType
<1>3. Count(s1) = Count(s) /\ Active(s1) = Active(s)
  BY <1>2 DEF Count, Active
<1>4. InsertedAt(s1, s2, p, left)
  <2> HIDE DEF s1
  <2> QED BY <1>1, <1>2, <1>3, EdgeEnters DEF InsertLeftEdge
<1>5. StateType(s2) /\ left \in Active(s2) /\ right \notin Active(s2)
  <2> HIDE DEF s1, p, s2
  <2> QED BY <1>3, <1>4 DEF InsertedAt
<1>6. Counted(s2, s3, left, m, w)
  <2> HIDE DEF s2
  <2>1. previous # NoEdge => previous \in Active(s2)
    BY <1>5, PreviousOfTypeType
  <2>2. m \in Int
    <3>1. previous # NoEdge => previous \in Edge
      BY <1>5, <2>1, ActiveEdge
    <3> HIDE DEF previous
    <3> QED BY <1>5, <3>1, CountsAreIntegers, NextWindingCountType DEF ClosedWindingCount
  <2>3. w \in Int
    <3> HIDE DEF previous
    <3> QED BY <1>5, <2>1, ClosedOppositeCountType
  <2>4. s3 = [s2 EXCEPT !.edge[left].winding_count = m, !.edge[left].wind_cnt2 = w]
    BY DEF SetWindCountForClosedPathEdge
  <2> HIDE DEF m, w, s3
  <2> QED BY <1>5, <2>2, <2>3, <2>4, CountsWritten
<1>7. StateType(s3)
  BY <1>6 DEF Counted
<1>8. Counted(s3, s4, right, s3.edge[left].winding_count, s3.edge[left].wind_cnt2)
  <2> HIDE DEF s3
  <2>1. s3.edge[left].winding_count \in Int /\ s3.edge[left].wind_cnt2 \in Int
    BY <1>7, CountsAreIntegers
  <2> QED BY <1>7, <2>1, CountsWritten
<1>9. InsertedAt(s4, s5, p + 1, right)
  <2> HIDE DEF s4, s3, s2, s1, p, m, w
  <2>1. StateType(s4) /\ s4.actives = s2.actives /\ Active(s4) = Active(s2) /\ Count(s4) = Count(s2)
    BY <1>6, <1>8 DEF Counted, Active, Count
  <2>2. IsInjective(s2.actives) /\ s2.actives[p] = left /\ Count(s2) = Count(s1) + 1
    BY <1>4 DEF InsertedAt
  <2>3. Count(s1) \in Nat /\ p \in 1 .. Count(s2)
    BY <1>1, <2>2, ListDomain
  <2>4. PositionOf(s4, left) = p
    <3>1. p \in DOMAIN s4.actives
      BY <2>1, <2>3, ListDomain
    <3> QED BY <2>1, <2>2, <3>1, PositionIsUnique
  <2>5. p + 1 \in 1 .. Count(s4) + 1
    BY <2>1, <2>3, <2>2
  <2>6. InsertedAt(s4, [s4 EXCEPT !.actives = InsertAt(@, p + 1, right)], p + 1, right)
    BY <1>5, <2>1, <2>2, <2>5, EdgeEnters
  <2> QED BY <2>4, <2>6 DEF InsertRightEdge
<1>10. Matches(s5)
  <2> HIDE DEF s5, s4, s3, s2, s1, p
  <2>1. p \in 1 .. Count(s) + 1
    BY <1>1, <1>3
  <2>2. /\ s1.edge[right].polytype = s1.edge[left].polytype
        /\ s1.edge[right].wind_dx = -s1.edge[left].wind_dx
    BY <1>2
  <2> QED BY <1>2, <1>4, <1>6, <1>8, <1>9, <2>1, <2>2, BoundsEnter
<1> QED BY <1>1, <1>3, <1>4, <1>6, <1>8, <1>9, <1>10

\* A local minimum of two fresh bounds of opposite directions.
LEMMA MinimumMatches ==
  ASSUME NEW s, StateType(s), IsInjective(s.actives), Matches(s),
         NEW left \in Edge, NEW right \in Edge, left # right,
         left \notin Active(s), right \notin Active(s), NEW collinear,
         NEW after \in 0 .. Count(s), InsertionPoint(s, after) <= Count(s) + 1,
         NEW l \in EdgeType, NEW r \in EdgeType,
         l.outrec = NoRecord, r.outrec = NoRecord,
         l.join_with = "NoJoin", r.join_with = "NoJoin",
         r.polytype = l.polytype, r.wind_dx = -l.wind_dx
  PROVE  Matches(InsertMinimum(s, left, right, l, r, after, collinear))
<1> DEFINE s1 == [s EXCEPT !.edge[left] = l, !.edge[right] = r]
           s2 == InsertLeftEdge(s1, left, after)
           s3 == SetWindCountForClosedPathEdge(s2, left)
           s4 == [s3 EXCEPT !.edge[right].winding_count = s3.edge[left].winding_count,
                            !.edge[right].wind_cnt2 = s3.edge[left].wind_cnt2]
           s5 == InsertRightEdge(s4, left, right)
           s6 == AddLocalMinPolygon(s5, left, right, TRUE)
           s7 == CheckJoinLeft(s6, left, collinear)
<1>10. Matches(s5) /\ InsertedAt(s4, s5, InsertionPoint(s1, after) + 1, right)
  BY MinimumSteps
<1>11. StateType(s5) /\ Shaped(s5)
  <2> HIDE DEF s5, s4, s1
  <2> QED BY <1>10, TypedIsShaped DEF InsertedAt
<1>12. SameWinding(s5, s6)
  <2> HIDE DEF s5
  <2> QED BY <1>11, AddLocalMinKeepsCounts
<1>13. SameWinding(s5, s7)
  <2> HIDE DEF s5, s6
  <2>1. Shaped(s6)
    BY <1>12, SameIsShaped
  <2>2. SameWinding(s6, s7)
    BY <2>1, CheckJoinKeepsCounts
  <2> HIDE DEF s7
  <2> QED BY <1>12, <2>2, SameIsTransitive
<1>14. InsertMinimum(s, left, right, l, r, after, collinear) \in {s5, s7}
  BY DEF InsertMinimum, InsertBounds
<1> HIDE DEF s5, s7
<1>15. Matches(s7)
  BY <1>10, <1>11, <1>13, SameMatches
<1> QED BY <1>10, <1>14, <1>15

-----------------------------------------------------------------------------
(* The inductive invariant and its preservation, action by action.  The    *)
(* bounds of a maximum cancel when they leave, so the invariant also says  *)
(* that the handler's pair is one.                                         *)

PairMatches(s, t) == t.kind = "maxima" => MaximaPair(s, t.edge, t.pair)

WInv == IInv /\ Matches(state) /\ PairMatches(state, task)

\* No operation changes the type or the direction of an edge of the list.
SameBounds(s, u) ==
  \A e \in Edge : /\ u.edge[e].polytype = s.edge[e].polytype
                  /\ u.edge[e].wind_dx = s.edge[e].wind_dx

LEMMA PairKept ==
  ASSUME NEW s, NEW u, SameBounds(s, u), NEW d \in Edge, NEW e \in Edge, MaximaPair(s, d, e)
  PROVE  MaximaPair(u, d, e)
  BY DEF SameBounds, MaximaPair, SamePolyType

LEMMA SameKeepsBounds ==
  ASSUME NEW s, NEW u, SameWinding(s, u)
  PROVE  SameBounds(s, u)
  BY DEF SameWinding, SameCounts, SameBounds

LEMMA CrossKeepsBounds ==
  ASSUME NEW s, StateType(s), NEW d \in Edge, NEW e \in Edge, d # e
  PROVE  SameBounds(s, Cross(s, d, e))
<1> DEFINE u == Cross(s, d, e)
<1>1. OthersKeep(s, u, d, e) /\ CountsCross(s, u, d, e)
  BY CrossCounts
<1> HIDE DEF u
<1>2. SameBounds(s, u)
  BY <1>1 DEF OthersKeep, CountsCross, SameCounts, SameBounds
<1> QED BY <1>2 DEF u

LEMMA WindingStep ==
  ASSUME IInv', NEW s, NEW t, Step(s, t), Matches(s), PairMatches(s, t)
  PROVE  WInv'
<1>1. state' = s /\ task' = t
  BY DEF Step
<1>2. Matches(state)'
  BY <1>1
<1>3. PairMatches(state, task)'
  BY <1>1
<1> QED BY <1>2, <1>3 DEF WInv

\* A handler that carries no pair.
LEMMA NoPair ==
  ASSUME NEW s, NEW t, t.kind # "maxima"
  PROVE  PairMatches(s, t)
  BY DEF PairMatches

LEMMA IdleHasNoPair ==
  ASSUME NEW s
  PROVE  PairMatches(s, Idle)
  BY DEF PairMatches, Idle

LEMMA WInvFacts ==
  ASSUME WInv
  PROVE  IInv /\ StateType(state) /\ Shaped(state) /\ Matches(state) /\ PairMatches(state, task)
  BY InvFacts, TypedIsShaped DEF WInv

\* The state after neighbours crossed.
LEMMA CrossedState ==
  ASSUME WInv, NEW i \in 1 .. Count(state) - 1
  PROVE  LET d == state.actives[i]
             e == state.actives[i + 1]
             u == Cross(state, d, e)
         IN  /\ d \in Edge /\ e \in Edge /\ d # e
             /\ StateType(u) /\ Shaped(u) /\ Matches(u) /\ SameBounds(state, u)
<1> DEFINE d == state.actives[i]
           e == state.actives[i + 1]
           u == Cross(state, d, e)
<1>0. Count(state) \in Nat /\ i \in 1 .. Count(state) /\ i + 1 \in 1 .. Count(state)
  BY WInvFacts, InvFacts
<1>1. d \in Edge /\ e \in Edge /\ d # e
  <2>1. d # e
    BY <1>0, WInvFacts, InvFacts DEF IsInjective
  <2> QED BY <1>0, <2>1, WInvFacts, EdgeOfPosition
<1>2. Matches(u)
  BY WInvFacts, InvFacts, CrossMatches
<1>3. StateType(u) /\ SameBounds(state, u)
  <2> HIDE DEF d, e
  <2> QED BY <1>1, WInvFacts, CrossType, CrossKeepsBounds
<1>4. Shaped(u)
  <2> HIDE DEF u
  <2> QED BY <1>3, TypedIsShaped
<1> QED BY <1>1, <1>2, <1>3, <1>4

LEMMA WindingInsert ==
  ASSUME WInv, IInv', InsertLocalMinimum
  PROVE  WInv'
<1>1. PICK left, right \in Edge \ Active(state), polytype \in PathTypes, wind_dx \in {-1, 1},
           after \in 0 .. Count(state), left_horizontal, right_horizontal \in HorizontalChoice,
           collinear \in JoinChoice :
           /\ left # right
           /\ InsertionPoint(state, after) <= Count(state) + 1
           /\ Step(InsertMinimum(state, left, right, Bound(polytype, wind_dx, left_horizontal),
                                 Bound(polytype, -wind_dx, right_horizontal), after, collinear),
                   [kind |-> "bound", edge |-> right, pair |-> NoEdge])
  BY DEF InsertLocalMinimum
<1> DEFINE l == Bound(polytype, wind_dx, left_horizontal)
           r == Bound(polytype, -wind_dx, right_horizontal)
           s == InsertMinimum(state, left, right, l, r, after, collinear)
           t == [kind |-> "bound", edge |-> right, pair |-> NoEdge]
<1>2. /\ l \in EdgeType /\ l.outrec = NoRecord /\ l.join_with = "NoJoin"
      /\ r \in EdgeType /\ r.outrec = NoRecord /\ r.join_with = "NoJoin"
  BY BoundIsEdge, ActiveEdgesAssumption
<1>3. r.polytype = l.polytype /\ r.wind_dx = -l.wind_dx
  BY DEF Bound
<1>4. Matches(s)
  <2> HIDE DEF l, r
  <2> QED BY <1>1, <1>2, <1>3, WInvFacts, InvFacts, MinimumMatches
<1>5. Step(s, t)
  BY <1>1
<1>6. PairMatches(s, t)
  <2> HIDE DEF s
  <2> QED BY DEF PairMatches
<1> HIDE DEF s, t
<1> QED BY <1>4, <1>5, <1>6, WindingStep

LEMMA WindingBound ==
  ASSUME WInv, IInv', BoundCross \/ BoundDone
  PROVE  WInv'
<1>1. /\ task.edge \in Active(state) /\ task.kind = "bound"
      /\ StateType(state) /\ IsInjective(state.actives)
  BY WInvFacts, InvFacts DEF BoundCross, BoundDone, Intact
<1>2. CASE BoundCross
  <2> DEFINE e == NextInAel(state, task.edge)
             s == Cross(state, task.edge, e)
  <2>1. PICK i \in 1 .. Count(state) - 1 : task.edge = state.actives[i] /\ e = state.actives[i + 1]
    BY <1>1, <1>2, NeighbourPosition DEF BoundCross
  <2>2. Matches(s)
    <3> HIDE DEF e
    <3> QED BY <2>1, CrossedState
  <2>3. Step(s, task)
    BY <1>2 DEF BoundCross
  <2> HIDE DEF s
  <2> QED BY <1>1, <2>2, <2>3, NoPair, WindingStep
<1>3. CASE BoundDone
  <2>1. PICK collinear \in JoinChoice : Step(CheckJoinRight(state, task.edge, collinear), Idle)
    BY <1>3 DEF BoundDone
  <2> DEFINE s == CheckJoinRight(state, task.edge, collinear)
  <2>2. SameWinding(state, s)
    BY WInvFacts, CheckJoinKeepsCounts
  <2> HIDE DEF s
  <2>3. Matches(s)
    BY <2>2, WInvFacts, SameMatches
  <2> QED BY <2>1, <2>3, IdleHasNoPair, WindingStep DEF s
<1> QED BY <1>2, <1>3

LEMMA WindingIntersection ==
  ASSUME WInv, IInv', Intersection
  PROVE  WInv'
<1>1. PICK i \in 1 .. Count(state) - 1, join_left, join_right \in JoinChoice :
        LET first == At(state, i)
            second == At(state, i + 1)
            crossed == Cross(state, first, second)
        IN  Step(CheckJoinRight(CheckJoinLeft(crossed, second, join_left), first, join_right), Idle)
  BY DEF Intersection
<1> DEFINE first == state.actives[i]
           second == state.actives[i + 1]
           t == Cross(state, first, second)
           s1 == CheckJoinLeft(t, second, join_left)
           s2 == CheckJoinRight(s1, first, join_right)
<1>2. At(state, i) = first /\ At(state, i + 1) = second
  BY WInvFacts, InvFacts
<1>3. StateType(t) /\ Shaped(t) /\ Matches(t)
  BY CrossedState
<1>4. SameWinding(t, s1)
  <2> HIDE DEF t
  <2> QED BY <1>3, CheckJoinKeepsCounts
<1>5. SameWinding(t, s2)
  <2> HIDE DEF t, s1
  <2>1. Shaped(s1)
    BY <1>4, SameIsShaped
  <2>2. SameWinding(s1, s2)
    BY <2>1, CheckJoinKeepsCounts
  <2> HIDE DEF s2
  <2> QED BY <1>4, <2>2, SameIsTransitive
<1>6. Step(s2, Idle)
  BY <1>1, <1>2
<1> HIDE DEF s2, t
<1>7. Matches(s2)
  BY <1>3, <1>5, SameMatches
<1> QED BY <1>6, <1>7, IdleHasNoPair, WindingStep

LEMMA WindingUpdate ==
  ASSUME WInv, IInv', UpdateTopEdge \/ HorizontalDone
  PROVE  WInv'
<1>1. PICK e, horizontal, join_left, join_right :
        Step(UpdateEdgeIntoAel(state, e, horizontal, join_left, join_right), Idle)
  BY DEF UpdateTopEdge, HorizontalDone
<1> DEFINE s == UpdateEdgeIntoAel(state, e, horizontal, join_left, join_right)
<1>2. SameWinding(state, s)
  BY WInvFacts, UpdateEdgeKeepsCounts
<1> HIDE DEF s
<1>3. Matches(s)
  BY <1>2, WInvFacts, SameMatches
<1> QED BY <1>1, <1>3, IdleHasNoPair, WindingStep DEF s

LEMMA WindingBeginMaxima ==
  ASSUME WInv, IInv', BeginMaxima
  PROVE  WInv'
<1>1. PICK i, j \in 1 .. Count(state) :
        /\ MaximaPair(state, At(state, i), At(state, j))
        /\ Step(SplitIfJoined(SplitIfJoined(state, At(state, i)), At(state, j)),
                [kind |-> "maxima", edge |-> At(state, i), pair |-> At(state, j)])
  BY DEF BeginMaxima
<1> DEFINE e == At(state, i)
           pair == At(state, j)
           s1 == SplitIfJoined(state, e)
           s == SplitIfJoined(s1, pair)
           t == [kind |-> "maxima", edge |-> e, pair |-> pair]
<1>2. e \in Edge /\ pair \in Edge
  BY WInvFacts, EdgeAt
<1>3. SameWinding(state, s1)
  BY WInvFacts, SplitKeepsCounts
<1>4. SameWinding(state, s)
  <2> HIDE DEF s1
  <2>1. Shaped(s1)
    BY <1>3, SameIsShaped
  <2>2. SameWinding(s1, s)
    BY <2>1, SplitKeepsCounts
  <2> HIDE DEF s
  <2> QED BY <1>3, <2>2, SameIsTransitive
<1>5. Step(s, t)
  BY <1>1
<1> HIDE DEF s
<1>6. Matches(s)
  BY <1>4, WInvFacts, SameMatches
<1>7. PairMatches(s, t)
  <2> HIDE DEF e, pair
  <2>1. MaximaPair(s, e, pair)
    BY <1>1, <1>2, <1>4, SameKeepsBounds, PairKept DEF e, pair
  <2> QED BY <2>1 DEF PairMatches
<1> HIDE DEF t
<1> QED BY <1>5, <1>6, <1>7, WindingStep

LEMMA WindingMaximaCross ==
  ASSUME WInv, IInv', MaximaCross
  PROVE  WInv'
<1> DEFINE e == NextInAel(state, task.edge)
           s == Cross(state, task.edge, e)
<1>1. task.kind = "maxima" /\ Step(s, task)
  BY DEF MaximaCross
<1>2. PICK i, j \in 1 .. Count(state) :
        i < j /\ state.actives[i] = task.edge /\ state.actives[j] = task.pair
  BY <1>1, WInvFacts, InvFacts DEF Intact
<1>3. i \in 1 .. Count(state) - 1 /\ e = state.actives[i + 1]
  <2>1. PositionOf(state, task.edge) = i
    BY <1>2, WInvFacts, InvFacts, PositionIsUnique
  <2>2. e = At(state, i + 1)
    BY <2>1 DEF NextInAel
  <2>3. i + 1 \in 1 .. Count(state) /\ i \in 1 .. Count(state) - 1
    BY <1>2, WInvFacts, InvFacts
  <2> QED BY <2>2, <2>3, WInvFacts, InvFacts
<1>4. Matches(s) /\ SameBounds(state, s)
  <2> HIDE DEF e
  <2> QED BY <1>2, <1>3, CrossedState
<1> HIDE DEF s
<1>5. MaximaPair(s, task.edge, task.pair)
  <2>1. task.edge \in Edge /\ task.pair \in Edge
    BY <1>1, WInvFacts, TaskEdges DEF IInv
  <2>2. MaximaPair(state, task.edge, task.pair)
    BY <1>1, WInvFacts DEF PairMatches
  <2> QED BY <1>4, <2>1, <2>2, PairKept
<1> QED BY <1>1, <1>4, <1>5, WindingStep DEF PairMatches

\* Two neighbours that are bounds of one maximum leave the list, after their
\* records were closed or joined.
LEMMA MaximumRemoved ==
  ASSUME WInv, NEW i \in 1 .. Count(state) - 1,
         MaximaPair(state, state.actives[i], state.actives[i + 1]), NEW u, StateType(u),
         SameWinding(state, u), NEW d, NEW e,
         \/ d = state.actives[i] /\ e = state.actives[i + 1]
         \/ d = state.actives[i + 1] /\ e = state.actives[i]
  PROVE  Matches(RemoveFromAel(RemoveFromAel(u, d), e))
<1>1. /\ u.actives = state.actives /\ Count(u) = Count(state)
      /\ i \in 1 .. Count(u) - 1 /\ IsInjective(u.actives)
  BY WInvFacts, InvFacts DEF SameWinding, Count
<1>2. Matches(u)
  BY WInvFacts, SameMatches
<1>3. MaximaPair(u, u.actives[i], u.actives[i + 1])
  <2>1. /\ Count(state) \in Nat /\ i \in 1 .. Count(state) /\ i + 1 \in 1 .. Count(state)
    BY WInvFacts, InvFacts
  <2>2. state.actives[i] \in Edge /\ state.actives[i + 1] \in Edge
    BY <2>1, WInvFacts, EdgeOfPosition
  <2> QED BY <1>1, <2>2, SameKeepsBounds, PairKept
<1>4. /\ Matches(RemoveFromAel(RemoveFromAel(u, u.actives[i]), u.actives[i + 1]))
      /\ Matches(RemoveFromAel(RemoveFromAel(u, u.actives[i + 1]), u.actives[i]))
  BY <1>1, <1>2, <1>3, MaximumLeaves
<1> QED BY <1>1, <1>4

LEMMA WindingMaximaDone ==
  ASSUME WInv, IInv', MaximaDone
  PROVE  WInv'
<1> DEFINE s1 == IF IsHot(state, task.edge)
                 THEN AddLocalMaxPolygon(state, task.edge, task.pair) ELSE state
           s2 == RemoveFromAel(RemoveFromAel(s1, task.edge), task.pair)
<1>1. /\ task.kind = "maxima" /\ task.pair = NextInAel(state, task.edge)
      /\ task.edge \in Edge /\ task.pair \in Edge /\ task.edge \in Active(state)
  BY TaskEdges, WInvFacts, InvFacts DEF MaximaDone, IInv, Intact
<1>2. PICK i \in 1 .. Count(state) - 1 :
        task.edge = state.actives[i] /\ task.pair = state.actives[i + 1]
  <2>1. NextInAel(state, task.edge) # NoEdge
    BY <1>1, ActiveEdgesAssumption
  <2> QED BY <1>1, <2>1, WInvFacts, InvFacts, NeighbourPosition
<1>3. MaximaPair(state, state.actives[i], state.actives[i + 1])
  BY <1>1, <1>2, WInvFacts DEF PairMatches
<1>4. StateType(s1) /\ SameWinding(state, s1)
  BY <1>1, WInvFacts, AddLocalMaxType, AddLocalMaxKeepsCounts, SameIsReflexive
<1>5. Step(s2, Idle)
  BY DEF MaximaDone
<1>6. Matches(s2)
  <2> HIDE DEF s1
  <2> QED BY <1>2, <1>3, <1>4, MaximumRemoved
<1> HIDE DEF s2
<1> QED BY <1>5, <1>6, IdleHasNoPair, WindingStep

LEMMA WindingBeginHorizontal ==
  ASSUME WInv, IInv', BeginHorizontal
  PROVE  WInv'
<1>1. PICK e : Step(state, [kind |-> "horizontal", edge |-> e, pair |-> NoEdge])
  BY DEF BeginHorizontal
<1> DEFINE t == [kind |-> "horizontal", edge |-> e, pair |-> NoEdge]
<1>2. t.kind # "maxima"
  OBVIOUS
<1> HIDE DEF t
<1> QED BY <1>1, <1>2, NoPair, WInvFacts, WindingStep DEF t

LEMMA WindingHorizontalCross ==
  ASSUME WInv, IInv', HorizontalCrossRight \/ HorizontalCrossLeft
  PROVE  WInv'
<1>1. /\ task.edge \in Active(state) /\ task.kind = "horizontal"
      /\ StateType(state) /\ IsInjective(state.actives)
  BY WInvFacts, InvFacts DEF HorizontalCrossRight, HorizontalCrossLeft, Intact
<1>2. ASSUME NEW i \in 1 .. Count(state) - 1, NEW d, NEW join, NEW s, Step(s, task),
             LET t == Cross(state, state.actives[i], state.actives[i + 1])
             IN  s \in {CheckJoinLeft(t, d, join), CheckJoinRight(t, d, join)}
      PROVE  WInv'
  <2> DEFINE t == Cross(state, state.actives[i], state.actives[i + 1])
  <2>1. StateType(t) /\ Shaped(t) /\ Matches(t)
    BY CrossedState
  <2>2. s \in {CheckJoinLeft(t, d, join), CheckJoinRight(t, d, join)}
    BY <1>2
  <2> HIDE DEF t
  <2>3. SameWinding(t, CheckJoinLeft(t, d, join)) /\ SameWinding(t, CheckJoinRight(t, d, join))
    BY <2>1, CheckJoinKeepsCounts
  <2>4. SameWinding(t, s)
    BY ONLY <2>2, <2>3
  <2>5. Matches(s)
    BY <2>1, <2>4, SameMatches
  <2> QED BY <1>1, <1>2, <2>5, NoPair, WindingStep
<1>3. CASE HorizontalCrossRight
  <2> DEFINE e == NextInAel(state, task.edge)
  <2>1. PICK join \in JoinChoice : e # NoEdge /\ Step(CheckJoinLeft(Cross(state, task.edge, e), e, join), task)
    BY <1>3 DEF HorizontalCrossRight
  <2>2. PICK i \in 1 .. Count(state) - 1 : task.edge = state.actives[i] /\ e = state.actives[i + 1]
    BY <1>1, <2>1, NeighbourPosition
  <2> HIDE DEF e
  <2> QED BY <1>2, <2>1, <2>2
<1>4. CASE HorizontalCrossLeft
  <2> DEFINE e == PrevInAel(state, task.edge)
  <2>1. PICK join \in JoinChoice : e # NoEdge /\ Step(CheckJoinRight(Cross(state, e, task.edge), e, join), task)
    BY <1>4 DEF HorizontalCrossLeft
  <2>2. PICK i \in 1 .. Count(state) - 1 : e = state.actives[i] /\ task.edge = state.actives[i + 1]
    BY <1>1, <2>1, NeighbourPosition
  <2> HIDE DEF e
  <2> QED BY <1>2, <2>1, <2>2
<1> QED BY <1>3, <1>4

LEMMA WindingHorizontalMaxima ==
  ASSUME WInv, IInv', HorizontalMaxima
  PROVE  WInv'
<1> DEFINE h == task.edge
           left(e) == IF e = NextInAel(state, h) THEN h ELSE e
           right(e) == IF e = NextInAel(state, h) THEN e ELSE h
           s1(e) == IF IsHot(state, h) THEN AddLocalMaxPolygon(SplitIfJoined(state, e), left(e), right(e))
                                       ELSE state
           s2(e) == RemoveFromAel(RemoveFromAel(s1(e), e), h)
<1>1. PICK e \in {NextInAel(state, h), PrevInAel(state, h)} \ {NoEdge} :
        MaximaPair(state, h, e) /\ Step(s2(e), Idle)
  BY DEF HorizontalMaxima
<1>2. /\ h \in Edge /\ h \in Active(state) /\ e \in Edge /\ StateType(state) /\ Shaped(state)
      /\ IsInjective(state.actives)
  BY <1>1, WInvFacts, InvFacts, EdgeAt, TaskEdges DEF HorizontalMaxima, IInv, Intact
<1>3. left(e) \in Edge /\ right(e) \in Edge
  BY <1>2
<1> DEFINE u == SplitIfJoined(state, e)
           v == AddLocalMaxPolygon(u, left(e), right(e))
           w == s1(e)
<1>4. StateType(u) /\ SameWinding(state, u)
  BY <1>2, SplitIfJoinedType, SplitKeepsCounts
<1>5. StateType(v) /\ SameWinding(state, v)
  <2> DEFINE l == left(e)
             r == right(e)
  <2> HIDE DEF u, l, r
  <2>1. Shaped(u)
    BY <1>4, TypedIsShaped
  <2>2. StateType(AddLocalMaxPolygon(u, l, r)) /\ SameWinding(u, AddLocalMaxPolygon(u, l, r))
    BY <1>3, <1>4, <2>1, AddLocalMaxType, AddLocalMaxKeepsCounts DEF l, r
  <2>3. v = AddLocalMaxPolygon(u, l, r)
    BY DEF l, r
  <2> HIDE DEF v
  <2> QED BY <1>4, <2>2, <2>3, SameIsTransitive
<1>6. StateType(w) /\ SameWinding(state, w)
  <2>1. w \in {v, state}
    OBVIOUS
  <2>2. SameWinding(state, state)
    BY <1>2, SameIsReflexive
  <2> HIDE DEF v, w
  <2> QED BY <1>2, <1>5, <2>1, <2>2
<1>7. \E i \in 1 .. Count(state) - 1 :
        \/ h = state.actives[i] /\ e = state.actives[i + 1]
        \/ e = state.actives[i] /\ h = state.actives[i + 1]
  BY <1>1, <1>2, NeighbourPosition
<1>8. PICK i \in 1 .. Count(state) - 1 :
        \/ h = state.actives[i] /\ e = state.actives[i + 1]
        \/ e = state.actives[i] /\ h = state.actives[i + 1]
  BY <1>7
<1>9. MaximaPair(state, state.actives[i], state.actives[i + 1])
  <2>1. state.edge[h].wind_dx \in {-1, 1} /\ state.edge[e].wind_dx \in {-1, 1}
    BY <1>2 DEF StateType, EdgeType
  <2>2. MaximaPair(state, e, h)
    <3> HIDE DEF h
    <3> QED BY <1>1, <2>1 DEF MaximaPair, SamePolyType
  <2> QED BY <1>1, <1>8, <2>2
<1>10. Step(RemoveFromAel(RemoveFromAel(w, e), h), Idle)
  BY <1>1
<1> DEFINE s == RemoveFromAel(RemoveFromAel(w, e), h)
<1> HIDE DEF w, h
<1>11. Matches(s)
  BY <1>6, <1>8, <1>9, MaximumRemoved
<1> HIDE DEF s
<1> QED BY <1>10, <1>11, IdleHasNoPair, WindingStep DEF s

LEMMA WindingUnchanged ==
  ASSUME WInv, IInv', NextPhase \/ UNCHANGED vars
  PROVE  WInv'
<1>1. state' = state /\ task' = task
  BY DEF NextPhase, vars
<1>2. Matches(state)' /\ PairMatches(state, task)'
  BY <1>1 DEF WInv
<1> QED BY <1>2 DEF WInv

LEMMA WindingInit ==
  ASSUME Init
  PROVE  WInv
<1>1. IInv
  BY InitEstablishes
<1>2. state.actives = <<>> /\ task = Idle
  BY DEF Init
<1>3. Matches(state)
  BY <1>2 DEF Matches, Count
<1> QED BY <1>1, <1>2, <1>3, IdleHasNoPair DEF WInv

\* The counts of the list match its windings in every state of the sweep.
LEMMA WindingInvariant == Spec => []WInv
<1>1. Init => WInv
  BY WindingInit
<1>2. WInv /\ IInv' /\ [Next]_vars => WInv'
  <2> SUFFICES ASSUME WInv, IInv', [Next]_vars PROVE WInv'
    OBVIOUS
  <2>1. CASE InsertLocalMinimum
    BY <2>1, WindingInsert
  <2>2. CASE BoundCross \/ BoundDone
    BY <2>2, WindingBound
  <2>3. CASE Intersection
    BY <2>3, WindingIntersection
  <2>4. CASE UpdateTopEdge \/ HorizontalDone
    BY <2>4, WindingUpdate
  <2>5. CASE BeginMaxima
    BY <2>5, WindingBeginMaxima
  <2>6. CASE MaximaCross
    BY <2>6, WindingMaximaCross
  <2>7. CASE MaximaDone
    BY <2>7, WindingMaximaDone
  <2>8. CASE BeginHorizontal
    BY <2>8, WindingBeginHorizontal
  <2>9. CASE HorizontalCrossRight \/ HorizontalCrossLeft
    BY <2>9, WindingHorizontalCross
  <2>10. CASE HorizontalMaxima
    BY <2>10, WindingHorizontalMaxima
  <2>11. CASE NextPhase \/ UNCHANGED vars
    BY <2>11, WindingUnchanged
  <2> QED BY <2>1, <2>2, <2>3, <2>4, <2>5, <2>6, <2>7, <2>8, <2>9, <2>10, <2>11 DEF Next
<1>3. Spec => []IInv
  <2>1. TypeOK /\ AelIntact => IInv
    BY DEF IInv
  <2> QED BY <2>1, SweepStaysIntact, PTL
<1> QED BY <1>1, <1>2, <1>3, PTL DEF Spec

\* Whatever bounds enter, cross and leave, the counts the engine carries from
\* edge to edge are the winding numbers of the regions: winding_count and
\* wind_cnt2 of every active edge, for every fill rule, as set by
\* set_wind_count_for_closed_path_edge and updated by intersect_edges.
THEOREM CountsMatchTheRegions == Spec => []WindingMatchesRegions
<1>1. WInv => WindingMatchesRegions
  BY WInvFacts, MatchesIsWinding
<1> QED BY <1>1, WindingInvariant, PTL
=============================================================================
